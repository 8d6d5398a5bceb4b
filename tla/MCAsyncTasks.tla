----------------------------- MODULE MCAsyncTasks -----------------------------
(* Small instances of AsyncTasks for TLC.                                  *)
EXTENDS AsyncTasks
=============================================================================
