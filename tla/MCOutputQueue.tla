--------------------------- MODULE MCOutputQueue ---------------------------
(* Small instances of OutputQueue for TLC. *)
EXTENDS OutputQueue, TLC

\* Entries are interchangeable.
QueueSymmetry == Permutations(Entries)

\* A list that has become a ring is walked no further.
ListsSound == ~ ring

=============================================================================
