---------------------------- MODULE MCExecutor -----------------------------
EXTENDS Executor
=============================================================================
