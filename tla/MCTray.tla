------------------------------- MODULE MCTray -------------------------------
EXTENDS Tray
CONSTANTS a, b
==============================================================================
