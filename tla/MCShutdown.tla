----------------------------- MODULE MCShutdown -----------------------------
\* For model checking Shutdown.
EXTENDS Shutdown
=============================================================================
