-------------------------- MODULE MCServiceLifecycle --------------------------
(* Small instances of ServiceLifecycle for TLC.                            *)
EXTENDS ServiceLifecycle, TLC

\* No action and no invariant tells the requests apart.
Interchangeable == Permutations(Requests)
=============================================================================
