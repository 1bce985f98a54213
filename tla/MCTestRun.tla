----------------------------- MODULE MCTestRun -----------------------------
EXTENDS TestRun

(* A clean run, an error exit, and each limit exceeded alone and together. *)
AllReports == [exitCode : {0, 1}, overTime : BOOLEAN, overMemory : BOOLEAN]
=============================================================================
