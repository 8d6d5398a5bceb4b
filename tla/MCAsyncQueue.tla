----------------------------- MODULE MCAsyncQueue -----------------------------
(* The instances of AsyncQueue for TLC; the configurations give all        *)
(* constants their values.                                                 *)
EXTENDS AsyncQueue
=============================================================================
