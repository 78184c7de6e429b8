----------------------------- MODULE MCSockbuf -----------------------------
(* Small instances of Sockbuf for TLC. *)
EXTENDS Sockbuf, TLC

\* Sockets are interchangeable.
SockSymmetry == Permutations(Socks)

\* Memory that held a readable entry, and memory that may have.
StaleMemory == {{"in"}}
ReusedMemory == {{}, {"in"}}

=============================================================================
