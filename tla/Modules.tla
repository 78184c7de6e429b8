------------------------------ MODULE Modules ------------------------------
(***************************************************************************)
(* Loadable modules, lib/eggdrop/module.c, with the binds they make and    *)
(* the garbage run that finally removes their code.                        *)
(*                                                                         *)
(* module_unload only closes a module and puts it on a second list; the    *)
(* code is unmapped by module_cleanup, which garbage_run calls from the    *)
(* main loop, when no callback can be running.  A module's own binds go    *)
(* in its close function; the binds of scripts go by their owner, the      *)
(* scripting module, with the code.                                        *)
(***************************************************************************)
EXTENDS Binds

CONSTANTS
  TableOf,        \* the tables that a module adds when it is loaded
  ScriptModules,  \* modules that make binds for scripts
  Forgetful       \* modules whose close function leaves their binds in the
                  \* tables of others, as server_close does in "party"

ASSUME TableOfAssumption == TableOf \in [Modules -> SUBSET Tables]
ASSUME ModuleAssumption ==
  ScriptModules \cup Forgetful \subseteq Modules

VARIABLES
  head,      \* module_list_head
  next, prev,
  closed,    \* deleted_head: the modules to be removed from memory
  mapped,    \* the modules whose code is in memory
  loaded,    \* history: the modules loaded and not unloaded, the newest first,
             \* without those loaded after a module that was unloaded
  phase      \* the main loop: "main" while handlers run, or "garbage";
             \* "undefined" once it has called code that is gone

moduleVars == <<head, next, prev, closed, mapped, loaded>>
vars == <<bindVars, moduleVars, phase>>

Init ==
  /\ BindInit(Tables \ UNION {TableOf[m] : m \in Modules})
  /\ head = Nil
  /\ next = [m \in Modules |-> Nil]
  /\ prev = [m \in Modules |-> Nil]
  /\ closed = <<>>
  /\ mapped = {}
  /\ loaded = <<>>
  /\ phase = "main"

\* The entries of the list of active modules, as find_module sees them.
Active ==
  LET nth[k \in 0 .. Cardinality(Modules)] ==
        IF k = 0 THEN head ELSE IF nth[k - 1] = Nil THEN Nil ELSE next[nth[k - 1]]
  IN  {nth[k] : k \in DOMAIN nth} \ {Nil}

Client == phase = "main" /\ (frames = <<>> \/ Callback)

\* The new entry becomes the head; prev of the old head is not set.  The start
\* function adds the module's tables.  Bound: a module that is no longer found
\* although it is loaded is not loaded again.
module_load(m) ==
  /\ Client
  /\ m \notin Active /\ m \notin ToSet(closed) /\ m \notin mapped
  /\ head' = m
  /\ next' = [next EXCEPT ![m] = head]
  /\ prev' = [prev EXCEPT ![m] = Nil]
  /\ mapped' = mapped \cup {m}
  /\ loaded' = <<m>> \o loaded
  /\ table' = [t \in Tables |-> IF t \in TableOf[m] THEN bind_table_add(table, t)[t] ELSE table[t]]
  /\ UNCHANGED <<entry, frames, garbage, closed, phase>>

\* The close function: bind_rem_list and bind_rem_simple for what the module's
\* own code added, bind_table_del for its tables.
Close(m) ==
  LET own == {e \in Entries : entry[e].code = m /\ entry[e].owner = Nil /\ m \notin Forgetful}
  IN  /\ table' = [t \in Tables |-> IF t \in TableOf[m] THEN bind_table_del(table, t)[t] ELSE table[t]]
      /\ entry' = [e \in Entries |-> IF e \in own THEN [entry[e] EXCEPT !.deleted = TRUE] ELSE entry[e]]
      /\ frames' = [i \in DOMAIN frames |-> [frames[i] EXCEPT !.todo = @ \ own]]

\* Mutant: the head of the list stays.
BugHeadStays(m) ==
  /\ head' = head
  /\ next' = [x \in Modules |-> IF x = prev[m] THEN next[m] ELSE next[x]]
  /\ prev' = [x \in Modules |-> IF x = next[m] THEN prev[m] ELSE prev[x]]

\* The entry is taken out of the list of active modules.
Unlink(m) ==
  /\ head' = IF prev[m] = Nil THEN next[m] ELSE head
  /\ next' = [x \in Modules |-> IF x = m THEN Nil ELSE IF x = prev[m] THEN next[m] ELSE next[x]]
  /\ prev' = [x \in Modules |-> IF x = next[m] THEN prev[m] ELSE prev[x]]

\* Those loaded after m are lost with it.
Older(m) == SubSeq(loaded, Position(loaded, m) + 1, Len(loaded))

\* module_unload, when the module is not in use (refcount) and does not veto.
module_unload(m) ==
  /\ Client
  /\ m \in Active
  /\ Close(m)
  /\ Unlink(m)
  /\ closed' = Append(closed, m)
  /\ loaded' = Older(m)
  /\ garbage' = garbage_add(garbage_add(garbage, "binds"), "modules")
  /\ UNCHANGED <<mapped, phase>>

-----------------------------------------------------------------------------

\* Mutant: the binds of the module's scripts are forgotten.
BugScriptsStay(m) ==
  /\ internal_bind_cleanup({})
  /\ mapped' = mapped \ {m}
  /\ closed' = Tail(closed)

\* module_really_unload: kill_binds_by_owner, then the code is unmapped.
module_really_unload(m) ==
  /\ kill_binds_by_owner(m)
  /\ mapped' = mapped \ {m}
  /\ closed' = Tail(closed)

\* The main loop comes to garbage_run; all checks have returned.
BeginGarbageRun ==
  /\ phase = "main" /\ frames = <<>> /\ garbage # <<>>
  /\ phase' = "garbage"
  /\ UNCHANGED <<bindVars, moduleVars>>

\* garbage_run takes the first procedure; module_cleanup works through its list.
garbage_run ==
  /\ phase = "garbage" /\ garbage # <<>>
  /\ \/ /\ Head(garbage) = "binds"
        /\ internal_bind_cleanup({})
        /\ garbage' = Tail(garbage)
        /\ UNCHANGED <<closed, mapped>>
     \/ /\ Head(garbage) = "modules" /\ closed # <<>>
        /\ module_really_unload(Head(closed))
        /\ garbage' = IF Len(closed) = 1 THEN Tail(garbage) ELSE garbage
  /\ phase' = IF garbage' = <<>> THEN "main" ELSE "garbage"
  /\ UNCHANGED <<frames, head, next, prev, loaded>>

\* What modules and scripts do with binds.  C code only runs in modules that
\* are not closed; a script may still be running in one that is.
Binding ==
  /\ Client
  /\ \E t \in Tables, n \in Names :
       \/ \E c \in mapped \ ToSet(closed) : bind_add_simple(t, n, c) \/ bind_entry_del(t, n, c)
       \/ \E m \in ScriptModules \cap mapped : script_bind(t, n, m)
       \/ bind_entry_del(t, n, Nil)
       \/ \E new \in Names \ {n} : bind_entry_modify(t, n, new)
  /\ UNCHANGED <<moduleVars, phase>>

Check ==
  /\ Client
  /\ \E t \in Tables, match \in SUBSET Names \ {{}} : bind_vcheck_hits(t, match)
  /\ UNCHANGED <<moduleVars, phase>>

Next ==
  \/ \E m \in Modules : module_load(m) \/ module_unload(m)
  \/ Binding \/ Check
  \/ Checking /\ UNCHANGED <<moduleVars, phase>>
  \/ CallUnmapped /\ phase' = "undefined" /\ UNCHANGED moduleVars
  \/ BeginGarbageRun \/ garbage_run

Spec == Init /\ [][Next]_vars

-----------------------------------------------------------------------------

TypeOK ==
  /\ BindTypeOK
  /\ head \in Modules \cup {Nil}
  /\ next \in [Modules -> Modules \cup {Nil}] /\ prev \in [Modules -> Modules \cup {Nil}]
  /\ closed \in Seq(mapped) /\ mapped \subseteq Modules
  /\ phase \in {"main", "garbage", "undefined"}

\* Nothing that is still to be called is in code that was removed: callbacks
\* of entries, and the on_delete of their owners when they are freed.  All that
\* is left are binds that the code of a forgetful module made for itself, as
\* those of server_party_commands: "//bind_rem_list" (server.c:241).
CallableMapped ==
  /\ \A t \in Tables : \A e \in Linked(t) :
       /\ ~ entry[e].deleted /\ table[t].flags # "deleted" =>
            \/ entry[e].code \in mapped
            \/ entry[e].owner = Nil /\ entry[e].code \in {Gone(m) : m \in Forgetful}
       /\ entry[e].owner \in mapped \cup {Nil}
  /\ \A f \in ToSet(frames) : f.cur # Nil => entry[f.cur].code \in mapped

\* "it will be removed from the list of active modules" (module.c:187): the
\* list holds the modules that were loaded and not unloaded since, none that
\* is about to be removed from memory, and no freed entry.  With a module that
\* is unloaded go those that were loaded after it, which stay in memory but
\* are not found any more: module_load does not set prev of the old head
\* (module.c:169), so the module after becomes the head.
ModulesFound ==
  /\ Active = ToSet(loaded)
  /\ Active \subseteq mapped \ ToSet(closed)

=============================================================================
