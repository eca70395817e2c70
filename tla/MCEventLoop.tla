----------------------------- MODULE MCEventLoop -----------------------------
\* Constants for model checking EventLoop.
EXTENDS EventLoop, TLC

\* Used where no liveness is checked.
AnyConn == Permutations(Conns)
=============================================================================
