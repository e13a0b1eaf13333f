CONSTANTS
 Calls = {c1, c2}
 MaxSockets = 4
SPECIFICATION Spec
INVARIANTS KeepsTrying NobodyWaitsInVain
PROPERTIES CallEnds
\* The system may stop: no more sockets may be made.
CHECK_DEADLOCK FALSE
