---------------------------- MODULE MCPortForward ----------------------------
\* One forward and one caller: enough to end a goroutine through its context.
EXTENDS PortForward
CONSTANTS p1, ui
===============================================================================
