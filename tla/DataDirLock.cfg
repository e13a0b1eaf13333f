CONSTANTS
 Procs = {p1, p2, p3}
 Nobody = Nobody
SPECIFICATION Spec
INVARIANT SinglePrimary
\* The system may stop: every process has ended.
CHECK_DEADLOCK FALSE
