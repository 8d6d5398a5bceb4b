------------------------------ MODULE MCLimits ------------------------------
(* Small instances of Limits for TLC.                                      *)
EXTENDS Limits, TLC

\* Services are interchangeable, and so are users and notifiers.
Interchangeable == Permutations(Services) \cup Permutations(Users) \cup Permutations(Notifiers)
=============================================================================
