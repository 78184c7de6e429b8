SPECIFICATION Spec
CONSTANTS
  server = server
  tclscript = tclscript
  raw = raw
  party = party
  Tables = {raw, party}
  Kind <- ExactTables
  TableOf <- ServerHasRaw
  Entries = {e1, e2}
  Names = {n1, n2}
  Modules = {server, tclscript}
  ScriptModules = {tclscript}
  MaxHits = 1
  MaxDepth = 2
  Forgetful = {server}
  Nil = Nil
SYMMETRY BindSymmetry
INVARIANT DeletionDeferred
INVARIANT EachOnce
INVARIANT CallableMapped
INVARIANT ModulesFound
