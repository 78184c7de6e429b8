----------------------------- MODULE MCModules -----------------------------
(* Small instances of Modules for TLC. *)
EXTENDS Modules, TLC

CONSTANTS server, tclscript, raw, party

\* One table of a module and one of the program's own, such as "party", both
\* of the kind that moves popular entries up.
ExactTables == [t \in {raw, party} |-> [exact |-> TRUE, stackable |-> TRUE, breakable |-> TRUE]]
ServerHasRaw == server :> {raw} @@ tclscript :> {}

\* Pieces of memory are interchangeable, and so are names.
BindSymmetry == Permutations(Entries) \cup Permutations(Names)

=============================================================================
