------------------------------ MODULE MCTimer ------------------------------
(* Small instances of Timer for TLC. *)
EXTENDS Timer

\* Whole seconds, as the C code asks for, and a delay that a script wrote in
\* microseconds: with two of them in a second, one and a half.
Delays == {[sec |-> 1, usec |-> 0], [sec |-> 0, usec |-> 3]}
=============================================================================
