----------------------------- MODULE MCAuthState -----------------------------
(* Small instances of AuthState for TLC.                                   *)
EXTENDS AuthState, TLC

\* Sessions are interchangeable, and so are requests.
Interchangeable == Permutations(Sessions) \cup Permutations(Requests)

\* A state in which a Save has undone a change of the user is checked, and not
\* continued.
UntilOverwritten == ~overwritten
=============================================================================
