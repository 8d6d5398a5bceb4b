---------------------------- MODULE MCRemoteRuntime ----------------------------
(* Small instances of RemoteRuntime for TLC.                               *)
EXTENDS RemoteRuntime, TLC

\* Requests are interchangeable.
Interchangeable == Permutations(Requests)
=============================================================================
