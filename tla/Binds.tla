------------------------------- MODULE Binds -------------------------------
(***************************************************************************)
(* The bind tables of lib/eggdrop/binds.c, through which every part of the *)
(* program is told of events, and the deferred work of garbage.c.          *)
(*                                                                         *)
(* bind_vcheck_hits walks the entries of a table and calls those that      *)
(* match.  A callback runs in the middle of the walk and may add, change   *)
(* and delete entries and tables and start further checks, of the same     *)
(* table too; in tables that match exactly the entry is then moved ahead   *)
(* of less popular ones.  Nothing is freed before the main loop calls      *)
(* garbage_run.  Module Modules has the next-state relation.               *)
(***************************************************************************)
EXTENDS Integers, Sequences, FiniteSets, SequencesExt

CONSTANTS
  Tables,    \* names of bind tables
  Kind,      \* their match type and flags
  Entries,   \* bound: memory for entries, handed out again when freed
  Names,     \* masks and function names, which together name an entry
  Modules,   \* modules, whose code the callbacks are in
  MaxHits,   \* bound: nhits is counted up to this
  MaxDepth,  \* bound: checks started by callbacks of checks
  Nil

ASSUME KindAssumption ==
  Kind \in [Tables -> [exact : BOOLEAN, stackable : BOOLEAN, breakable : BOOLEAN]]
ASSUME BindBoundsAssumption == MaxHits \in Nat /\ MaxDepth \in Nat
ASSUME FiniteAssumption == IsFiniteSet(Modules)
ASSUME NilAssumption == Nil \notin Entries \cup Modules

VARIABLES
  table,    \* bind_table_list_head: flags and entries of every table
  entry,    \* what every piece of memory for entries holds
  frames,   \* the running calls of bind_vcheck_hits, the innermost last
  garbage   \* garbage_list_head: the procedures to run, the first one first

bindVars == <<table, entry, frames, garbage>>

Free == [name |-> Nil, code |-> Nil, owner |-> Nil, nhits |-> 0, deleted |-> FALSE]

Linked(t) == ToSet(table[t].list)

Position(l, e) == CHOOSE i \in DOMAIN l : l[i] = e

\* Flags of a table: a fake table only keeps entries for the real one.
Exists(t) == table[t].flags # "none"
Stackable(t) == table[t].flags # "fake" /\ Kind[t].stackable
Exact(t) == table[t].flags = "fake" \/ Kind[t].exact
Breakable(t) == table[t].flags # "fake" /\ Kind[t].breakable

\* A pointer to a callback in the code of m after that code was unmapped.
Gone(m) == <<m>>
ASSUME GoneAssumption == \A m \in Modules : Gone(m) \notin Modules

\* What the callback of an entry may be.
Pointers == Modules \cup {Gone(m) : m \in Modules} \cup {Nil}

\* The program's own tables are there from the beginning.
BindInit(core) ==
  /\ table = [t \in Tables |-> [flags |-> IF t \in core THEN "real" ELSE "none", list |-> <<>>]]
  /\ entry = [e \in Entries |-> Free]
  /\ frames = <<>>
  /\ garbage = <<>>

\* garbage_add with GARBAGE_ONCE: new procedures come first.
garbage_add(list, proc) == IF proc \in ToSet(list) THEN list ELSE <<proc>> \o list

\* Code outside runs: in the main loop, or in the callback of a check.
Callback == frames # <<>> /\ Last(frames).at = "callback"

-----------------------------------------------------------------------------
(* Tables                                                                  *)

\* bind_table_add of the module that has the table: a fake table becomes a
\* real one; one that waits to be freed is returned as it is.
bind_table_add(tab, t) == IF tab[t].flags = "deleted" THEN tab ELSE [tab EXCEPT ![t].flags = "real"]

\* bind_table_del only marks the table; schedule_bind_cleanup follows.
bind_table_del(tab, t) == IF tab[t].flags = "real" THEN [tab EXCEPT ![t].flags = "deleted"] ELSE tab

-----------------------------------------------------------------------------
(* Entries                                                                 *)

\* bind_entry_lookup: the first that is not deleted; c is Nil or the callback.
Found(t, n, c, e) ==
  LET hit(x) == ~ entry[x].deleted /\ entry[x].name = n /\ c \in {Nil, entry[x].code}
  IN  \E p \in DOMAIN table[t].list :
        /\ e = table[t].list[p] /\ hit(e)
        /\ \A i \in 1 .. p - 1 : ~ hit(table[t].list[i])

NotFound(t, n, c) == \A e \in Linked(t) : ~ Found(t, n, c, e)

New(n, c, o) == [name |-> n, code |-> c, owner |-> o, nhits |-> 0, deleted |-> FALSE]

\* Memory calloc can return.
Unused(e) == \A t \in Tables : e \notin Linked(t)

\* bind_entry_add: a stackable table takes another entry of the same name
\* behind the first, another table has the entry overwritten.
bind_entry_add(t, flags, n, c, o) ==
  /\ \/ \E old \in Linked(t), e \in Entries :
          /\ Found(t, n, Nil, old) /\ Stackable(t) /\ Unused(e)
          /\ table' = [table EXCEPT ![t].flags = flags,
                         ![t].list = InsertAt(@, Position(@, old) + 1, e)]
          /\ entry' = [entry EXCEPT ![e] = New(n, c, o)]
     \/ \E old \in Linked(t) :
          /\ Found(t, n, Nil, old) /\ ~ Stackable(t)
          /\ entry' = [entry EXCEPT ![old].code = c, ![old].owner = o]
          /\ table' = [table EXCEPT ![t].flags = flags]
     \/ \E e \in Entries :
          /\ NotFound(t, n, Nil) /\ Unused(e)
          /\ table' = [table EXCEPT ![t].flags = flags, ![t].list = Append(@, e)]
          /\ entry' = [entry EXCEPT ![e] = New(n, c, o)]
  /\ UNCHANGED <<frames, garbage>>

\* bind_add_simple and bind_add_list: without a table a fake one is made; a
\* table that waits to be freed is taken as it is.
bind_add_simple(t, n, c) ==
  bind_entry_add(t, IF Exists(t) THEN table[t].flags ELSE "fake", n, c, Nil)

\* A script's bind: only in a table that bind_table_lookup finds.
script_bind(t, n, m) ==
  /\ table[t].flags \in {"real", "fake"}
  /\ bind_entry_add(t, table[t].flags, n, m, m)

\* An entry that is gone, or changed its name, is no longer due in a check.
Undue(e) == [i \in DOMAIN frames |-> [frames[i] EXCEPT !.todo = @ \ {e}]]

\* Mutant: unlinked and freed at once.
BugFreedAtOnce(t, n, c) ==
  \E e \in Linked(t) :
    /\ Found(t, n, c, e)
    /\ entry' = [entry EXCEPT ![e] = Free]
    /\ table' = [table EXCEPT ![t].list = SelectSeq(@, LAMBDA x : x # e)]
    /\ frames' = Undue(e)
    /\ UNCHANGED garbage

\* bind_entry_del, for bind_rem_list, bind_rem_simple and script_unbind.
bind_entry_del(t, n, c) ==
  \E e \in Linked(t) :
    /\ table[t].flags \in {"real", "fake"}
    /\ Found(t, n, c, e)
    /\ entry' = [entry EXCEPT ![e].deleted = TRUE]
    /\ frames' = Undue(e)
    /\ garbage' = garbage_add(garbage, "binds")
    /\ UNCHANGED table

\* bind_entry_modify, for script_rebind.
bind_entry_modify(t, n, new) ==
  \E e \in Linked(t) :
    /\ table[t].flags \in {"real", "fake"}
    /\ Found(t, n, Nil, e)
    /\ entry' = [entry EXCEPT ![e].name = new]
    /\ frames' = Undue(e)
    /\ UNCHANGED <<table, garbage>>

\* bind_table_really_del frees all entries, bind_entry_really_del one of them.
Freed(t, e, gone) ==
  table[t].flags = "deleted" \/ entry[e].deleted \/ entry[e].owner \in gone

\* new is what is left of l, in l's order, when only the positions keep stay.
Keeps(l, keep, new) ==
  \E f \in [DOMAIN new -> keep] :
    /\ \A i, j \in DOMAIN new : i < j => f[i] < f[j]
    /\ \A p \in keep : \E i \in DOMAIN new : f[i] = p
    /\ \A i \in DOMAIN new : new[i] = l[f[i]]

\* What stays of an entry; a callback in the code of gone points nowhere then.
Left(e, gone) ==
  IF entry[e].code \in gone THEN [entry[e] EXCEPT !.code = Gone(@)] ELSE entry[e]

\* internal_bind_cleanup frees tables and entries that are marked as deleted;
\* so are the entries of the owners in gone, which are about to be unmapped.
internal_bind_cleanup(gone) ==
  /\ \E left \in [Tables -> BoundedSeq(Entries, Cardinality(Entries))] :
       /\ \A t \in Tables : LET l == table[t].list
                           IN  Keeps(l, {i \in DOMAIN l : ~ Freed(t, l[i], gone)}, left[t])
       /\ table' = [t \in Tables |->
                      IF table[t].flags = "deleted" THEN [flags |-> "none", list |-> <<>>]
                      ELSE [table[t] EXCEPT !.list = left[t]]]
  /\ entry' = [e \in Entries |->
                 IF \E t \in Tables : e \in Linked(t) /\ Freed(t, e, gone) THEN Free ELSE Left(e, gone)]

\* A module goes: the entries it owns are marked and everything is cleaned up
\* at once.
kill_binds_by_owner(m) == internal_bind_cleanup({m})

-----------------------------------------------------------------------------
(* Checks                                                                  *)

Matches(f, e) == ~ entry[e].deleted /\ entry[e].name \in f.match

\* The next entry the loop calls, Nil if there is none.
NextHit(f) ==
  LET l == table[f.table].list
      hits == {i \in DOMAIN l : f.next # Nil /\ i >= Position(l, f.next) /\ Matches(f, l[i])}
  IN  IF hits = {} THEN Nil ELSE l[CHOOSE i \in hits : \A j \in hits : i <= j]

\* The entry behind e, or Nil.
Successor(t, e) ==
  LET l == table[t].list
  IN  IF Position(l, e) = Len(l) THEN Nil ELSE l[Position(l, e) + 1]

\* bind_check: match are the names whose masks and user flags fit the event.
\* A fake table is searched too, and one that waits to be freed.
bind_vcheck_hits(t, match) ==
  /\ Exists(t)
  /\ Len(frames) < MaxDepth
  /\ LET first == IF table[t].list = <<>> THEN Nil ELSE Head(table[t].list)
         due == {e \in Linked(t) : ~ entry[e].deleted /\ entry[e].name \in match}
     IN  frames' = Append(frames, [table |-> t, match |-> match, at |-> "scan", cur |-> Nil,
                                   next |-> first, todo |-> due, done |-> {}, moved |-> FALSE])
  /\ UNCHANGED <<table, entry, garbage>>

Hit(n) == IF n < MaxHits THEN n + 1 ELSE n

\* The loop reaches an entry that matches and calls it; next is kept.
CallNext ==
  /\ frames # <<>> /\ Last(frames).at = "scan"
  /\ LET f == Last(frames)
         e == NextHit(f)
     IN  /\ e # Nil /\ entry[e].code \in Modules
         /\ entry' = [entry EXCEPT ![e].nhits = Hit(@)]
         /\ frames' = [frames EXCEPT ![Len(frames)] =
                         [f EXCEPT !.at = "callback", !.cur = e, !.done = @ \cup {e},
                                   !.todo = @ \ {e}, !.next = Successor(f.table, e)]]
  /\ UNCHANGED <<table, garbage>>

\* bind_entry_exec's last part: the entry moves behind the last one in front of
\* it that is not deleted and has as many hits.
MovedUp(t, e) ==
  LET l == table[t].list
      at == Position(l, e)
      ahead == {i \in 1 .. at - 1 :
                  ~ entry[l[i]].deleted /\ entry[l[i]].nhits >= entry[e].nhits}
      to == IF ahead = {} THEN 1 ELSE 1 + CHOOSE i \in ahead : \A j \in ahead : j <= i
  IN  InsertAt(RemoveAt(l, at), to, e)

\* Mutant: the next entry is looked up after the entry has moved.
BugNextAfterwards(break) ==
  LET f == Last(frames)
      l == IF Exact(f.table) THEN MovedUp(f.table, f.cur) ELSE table[f.table].list
      at == Position(l, f.cur)
  IN  /\ Callback
      /\ table' = [table EXCEPT ![f.table].list = l]
      /\ frames' = IF break /\ Breakable(f.table) THEN Front(frames)
                   ELSE [frames EXCEPT ![Len(frames)] =
                          [f EXCEPT !.at = "scan", !.cur = Nil,
                                    !.next = IF at = Len(l) THEN Nil ELSE l[at + 1]]]
      /\ UNCHANGED <<entry, garbage>>

\* The callback returns; other checks of the table may see its order change.
CallbackReturns(break) ==
  LET f == Last(frames)
      l == IF Exact(f.table) THEN MovedUp(f.table, f.cur) ELSE table[f.table].list
      seen == [i \in DOMAIN frames |->
                 IF frames[i].table = f.table /\ i # Len(frames) /\ l # table[f.table].list
                   THEN [frames[i] EXCEPT !.moved = TRUE, !.todo = {}, !.done = {}] ELSE frames[i]]
  IN  /\ Callback
      /\ table' = [table EXCEPT ![f.table].list = l]
      /\ frames' = IF break /\ Breakable(f.table) THEN Front(seen)
                   ELSE [seen EXCEPT ![Len(frames)].at = "scan", ![Len(frames)].cur = Nil]
      /\ UNCHANGED <<entry, garbage>>

\* No entry is left.
CheckReturns ==
  /\ frames # <<>> /\ Last(frames).at = "scan"
  /\ NextHit(Last(frames)) = Nil
  /\ frames' = Front(frames)
  /\ UNCHANGED <<table, entry, garbage>>

\* The entry's code was unmapped: what the program does then is undefined.
CallUnmapped ==
  /\ frames # <<>> /\ Last(frames).at = "scan"
  /\ NextHit(Last(frames)) # Nil
  /\ entry[NextHit(Last(frames))].code \notin Modules
  /\ UNCHANGED bindVars

Checking == CallNext \/ CheckReturns \/ \E break \in BOOLEAN : CallbackReturns(break)

-----------------------------------------------------------------------------

BindTypeOK ==
  /\ table \in [Tables -> [flags : {"none", "real", "fake", "deleted"},
                           list : Seq(Entries)]]
  /\ entry \in [Entries -> [name : Names \cup {Nil}, code : Pointers,
                            owner : Modules \cup {Nil}, nhits : 0 .. MaxHits,
                            deleted : BOOLEAN]]
  /\ \A f \in ToSet(frames) : f.table \in Tables /\ f.at \in {"scan", "callback"}
  /\ ToSet(garbage) \subseteq {"binds", "modules"}

\* What a running check holds on to is still there, whatever the callbacks
\* deleted (its table, the entry being called and the next one), and yet all
\* that is marked as deleted is freed by the next garbage_run.
DeletionDeferred ==
  /\ \A f \in ToSet(frames) :
       /\ Exists(f.table)
       /\ {f.cur, f.next} \subseteq Linked(f.table) \cup {Nil}
  /\ \/ "binds" \in ToSet(garbage)
     \/ \A t \in Tables :
          /\ table[t].flags # "deleted"
          /\ \A e \in Linked(t) : ~ entry[e].deleted

\* A check calls every entry that matched when it began and was not deleted or
\* renamed since, and none twice, although callbacks add and delete entries
\* and the entry called moves up the list; only a check of the same table
\* inside a callback may change the order of other entries.
EachOnce ==
  \A f \in ToSet(frames) :
    f.at = "scan" /\ ~ f.moved =>
      /\ NextHit(f) \notin f.done
      /\ NextHit(f) = Nil => f.todo = {}

=============================================================================
