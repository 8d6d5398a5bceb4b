------------------------- MODULE MCConnectionManager -------------------------
(* Small instances of ConnectionManager for TLC.                           *)
EXTENDS ConnectionManager

\* Streamable HTTP with the fallback, where a session is refused, so that either
\* transport may be installed and the handshake may still be rejected at its end;
\* and plain SSE, which accepts what it gets.
Rows == {[transport |-> "streamable_http", legacy |-> TRUE, session |-> "disabled"],
         [transport |-> "sse", legacy |-> FALSE, session |-> "auto"]}
=============================================================================
