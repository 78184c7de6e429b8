------------------------------- MODULE MCDcc -------------------------------
(* A file of four blocks, two to a chunk, over a connection that holds one or  *)
(* three: both a chunk that is split and one that goes out whole occur.        *)
EXTENDS Dcc
\* Scripts begin at the end of what they have, or from the start.
AnyResume == {-1, 0}
=============================================================================
