----------------------------- MODULE MCLogStreams -----------------------------
\* One pod of two containers; two callers whose calls overlap.
EXTENDS LogStreams
CONSTANTS pod, app, sidecar, ui, retry
===============================================================================
