--------------------------- MODULE ModulesProofs ---------------------------
(***************************************************************************)
(* Theorems about Binds and Modules, for any tables, entries, names and    *)
(* modules and any depth of nested checks: what a check holds on to stays, *)
(* every entry is called once, and no code goes that can still be called.  *)
(***************************************************************************)
EXTENDS Modules, SequenceLemmas, SequenceTheorems, FiniteSetTheorems, TLAPS

-----------------------------------------------------------------------------
(* Members of lists and their order                                        *)

In(s, x) == \E i \in 1 .. Len(s) : s[i] = x
Distinct(s) == \A i, j \in 1 .. Len(s) : s[i] = s[j] => i = j
Ordered(s, a, b) == \E i, j \in 1 .. Len(s) : i < j /\ s[i] = a /\ s[j] = b

LEMMA InToSet ==
  ASSUME NEW S, NEW s \in Seq(S), NEW x
  PROVE  x \in ToSet(s) <=> In(s, x)
  BY DEF ToSet, In

\* What is in s, and its order, is in u too.
Embeds(s, u) ==
  /\ \A x : In(s, x) => In(u, x)
  /\ \A a, b : Ordered(s, a, b) => Ordered(u, a, b)

LEMMA EmbedsSelf ==
  ASSUME NEW s
  PROVE  Embeds(s, s)
  BY DEF Embeds

LEMMA InsertEmbeds ==
  ASSUME NEW S, NEW s \in Seq(S), NEW k \in 1 .. Len(s) + 1, NEW e \in S
  PROVE  /\ InsertAt(s, k, e) \in Seq(S)
         /\ Embeds(s, InsertAt(s, k, e))
         /\ \A x : In(InsertAt(s, k, e), x) <=> In(s, x) \/ x = e
         /\ Distinct(s) /\ ~ In(s, e) => Distinct(InsertAt(s, k, e))
  <1> DEFINE u == InsertAt(s, k, e)
             to(i) == IF i < k THEN i ELSE i + 1
             from(i) == IF i < k THEN i ELSE i - 1
  <1>1. /\ u \in Seq(S) /\ Len(u) = Len(s) + 1 /\ Len(s) \in Nat /\ k \in Nat
        /\ \A j \in 1 .. Len(s) + 1 :
             u[j] = IF j < k THEN s[j] ELSE IF j = k THEN e ELSE s[j - 1]
    BY InsertAtProperties
  <1> HIDE DEF u
  <1>2. \A i \in 1 .. Len(s) : to(i) \in 1 .. Len(u) /\ u[to(i)] = s[i]
    BY <1>1
  <1>3. \A i, j \in 1 .. Len(s) : i < j => to(i) < to(j)
    BY <1>1
  <1>4. \A i \in 1 .. Len(u) : i # k => from(i) \in 1 .. Len(s) /\ u[i] = s[from(i)]
    BY <1>1
  <1>5. \A i, j \in 1 .. Len(u) : i # k /\ j # k /\ from(i) = from(j) => i = j
    BY <1>1
  <1>6. u[k] = e /\ k \in 1 .. Len(u)
    BY <1>1
  <1> HIDE DEF to, from
  <1>7. Embeds(s, u)
    BY <1>2, <1>3 DEF Embeds, In, Ordered
  <1>8. \A x : In(u, x) <=> In(s, x) \/ x = e
    BY <1>2, <1>4, <1>6 DEF In
  <1>9. ASSUME Distinct(s), ~ In(s, e), NEW i \in 1 .. Len(u), NEW j \in 1 .. Len(u), u[i] = u[j]
        PROVE  i = j
    <2>1. \A h \in 1 .. Len(u) : h # k => u[h] # e
      BY <1>4, <1>9 DEF In
    <2>2. CASE i = k \/ j = k
      BY <1>6, <1>9, <2>1, <2>2
    <2>3. CASE i # k /\ j # k
      <3>1. from(i) = from(j)
        BY <1>4, <1>9, <2>3 DEF Distinct
      <3> QED
        BY <1>5, <2>3, <3>1
    <2> QED
      BY <2>2, <2>3
  <1>10. Distinct(s) /\ ~ In(s, e) => Distinct(u)
    BY <1>9 DEF Distinct
  <1> QED
    BY <1>1, <1>7, <1>8, <1>10 DEF u

LEMMA AppendEmbeds ==
  ASSUME NEW S, NEW s \in Seq(S), NEW e \in S
  PROVE  /\ Append(s, e) \in Seq(S)
         /\ Embeds(s, Append(s, e))
         /\ \A x : In(Append(s, e), x) <=> In(s, x) \/ x = e
         /\ Distinct(s) /\ ~ In(s, e) => Distinct(Append(s, e))
  <1> DEFINE u == Append(s, e)
  <1>1. /\ u \in Seq(S) /\ Len(u) = Len(s) + 1 /\ Len(s) \in Nat /\ u[Len(s) + 1] = e
        /\ \A i \in 1 .. Len(s) : u[i] = s[i]
    OBVIOUS
  <1> HIDE DEF u
  <1>2. /\ \A i \in 1 .. Len(u) : i \in 1 .. Len(s) \/ i = Len(s) + 1
        /\ \A i \in 1 .. Len(s) : i \in 1 .. Len(u)
        /\ Len(s) + 1 \in 1 .. Len(u)
    BY <1>1
  <1>3. Embeds(s, u)
    BY <1>1, <1>2 DEF Embeds, In, Ordered
  <1>4. \A x : In(u, x) <=> In(s, x) \/ x = e
    BY <1>1, <1>2 DEF In
  <1>5. Distinct(s) /\ ~ In(s, e) => Distinct(u)
    BY <1>1, <1>2 DEF Distinct, In
  <1> QED
    BY <1>1, <1>3, <1>4, <1>5 DEF u

\* An entry that moves up passes others; those keep their order.
LEMMA MovesUp ==
  ASSUME NEW S, NEW s \in Seq(S), Distinct(s), NEW at \in 1 .. Len(s), NEW to \in 1 .. at
  PROVE  LET u == InsertAt(RemoveAt(s, at), to, s[at])
         IN  /\ u \in Seq(S) /\ Distinct(u)
             /\ \A x : In(s, x) <=> In(u, x)
             /\ \A a, b : Ordered(s, a, b) /\ b # s[at] => Ordered(u, a, b)
  <1> DEFINE r == RemoveAt(s, at)
             u == InsertAt(r, to, s[at])
             new(i) == IF i = at THEN to ELSE IF i < to \/ i > at THEN i ELSE i + 1
             old(i) == IF i = to THEN at ELSE IF i < to \/ i > at THEN i ELSE i - 1
  <1>1. s[at] \in S /\ Len(s) \in Nat /\ at \in Nat /\ to \in Nat /\ to <= at /\ 1 <= to /\ at <= Len(s)
    OBVIOUS
  <1>2. /\ r \in Seq(S) /\ Len(r) = Len(s) - 1
        /\ \A j \in 1 .. Len(s) - 1 : r[j] = IF j < at THEN s[j] ELSE s[j + 1]
    BY RemoveAtProperties
  <1> HIDE DEF r
  <1>3. to \in 1 .. Len(r) + 1
    BY <1>1, <1>2
  <1>4. /\ u \in Seq(S) /\ Len(u) = Len(r) + 1
        /\ \A j \in 1 .. Len(r) + 1 :
             u[j] = IF j < to THEN r[j] ELSE IF j = to THEN s[at] ELSE r[j - 1]
    <2>1. ASSUME NEW e \in S
          PROVE  /\ InsertAt(r, to, e) \in Seq(S) /\ Len(InsertAt(r, to, e)) = Len(r) + 1
                 /\ \A j \in 1 .. Len(r) + 1 :
                      InsertAt(r, to, e)[j] = IF j < to THEN r[j] ELSE IF j = to THEN e ELSE r[j - 1]
      BY <1>2, <1>3, InsertAtProperties
    <2> QED
      BY <1>1, <2>1
  <1> HIDE DEF u
  <1>5. ASSUME NEW i \in 1 .. Len(s)
        PROVE  new(i) \in 1 .. Len(u) /\ u[new(i)] = s[i] /\ old(new(i)) = i
    <2>1. new(i) \in 1 .. Len(u) /\ old(new(i)) = i
      BY <1>1, <1>2, <1>4
    <2>2. CASE i = at
      BY <1>1, <1>2, <1>4, <2>2
    <2>3. CASE i < to
      <3>1. i \in 1 .. Len(r) /\ i < at
        BY <1>1, <1>2, <2>3
      <3> QED
        BY <1>1, <1>2, <1>4, <2>3, <3>1
    <2>4. CASE i > at
      <3>1. i - 1 \in 1 .. Len(r) /\ ~ i - 1 < at /\ (i - 1) + 1 = i /\ ~ i < to /\ i # to
        BY <1>1, <1>2, <2>4
      <3> QED
        BY <1>1, <1>2, <1>4, <2>4, <3>1
    <2>5. CASE to <= i /\ i < at
      <3>1. i + 1 \in 1 .. Len(r) + 1 /\ i \in 1 .. Len(r) /\ ~ i + 1 < to /\ i + 1 # to
        BY <1>1, <1>2, <2>5
      <3> QED
        BY <1>1, <1>2, <1>4, <2>5, <3>1
    <2> QED
      BY <1>1, <2>1, <2>2, <2>3, <2>4, <2>5
  <1>6. \A i \in 1 .. Len(u) : old(i) \in 1 .. Len(s) /\ new(old(i)) = i
    BY <1>1, <1>2, <1>4
  <1>7. ASSUME NEW i \in 1 .. Len(s), NEW j \in 1 .. Len(s), i < j, j # at
        PROVE  new(i) < new(j)
    <2>1. i \in Nat /\ j \in Nat /\ at \in Nat /\ to \in Nat /\ to <= at
      BY <1>1
    <2>2. CASE i = at
      BY <1>7, <2>1, <2>2
    <2>3. CASE i # at
      BY <1>7, <2>1, <2>3
    <2> QED
      BY <2>2, <2>3
  <1> HIDE DEF new, old
  <1>a. \A i \in 1 .. Len(u) : old(i) \in 1 .. Len(s) /\ s[old(i)] = u[i]
    BY <1>5, <1>6
  <1>8. \A x : In(s, x) <=> In(u, x)
    <2>1. ASSUME NEW x, In(s, x) PROVE In(u, x)
      BY <1>5, <2>1 DEF In
    <2>2. ASSUME NEW x, In(u, x) PROVE In(s, x)
      BY <1>a, <2>2 DEF In
    <2> QED
      BY <2>1, <2>2
  <1>9. Distinct(u)
    <2> SUFFICES ASSUME NEW i \in 1 .. Len(u), NEW j \in 1 .. Len(u), u[i] = u[j]
                 PROVE  i = j
      BY DEF Distinct
    <2>1. old(i) = old(j)
      BY <1>a DEF Distinct
    <2> QED
      BY <1>6, <2>1
  <1>10. \A a, b : Ordered(s, a, b) /\ b # s[at] => Ordered(u, a, b)
    BY <1>5, <1>7 DEF Ordered
  <1> QED
    BY <1>4, <1>8, <1>9, <1>10 DEF u, r

\* In a list without repetitions the CHOOSE of Position has one choice.
LEMMA PositionOf ==
  ASSUME NEW S, NEW s \in Seq(S), NEW x, In(s, x)
  PROVE  Position(s, x) \in 1 .. Len(s) /\ s[Position(s, x)] = x
  <1>1. DOMAIN s = 1 .. Len(s)
    OBVIOUS
  <1>2. \E i \in DOMAIN s : s[i] = x
    BY <1>1 DEF In
  <1> QED
    BY <1>1, <1>2 DEF Position

-----------------------------------------------------------------------------
(* The invariant of the binds                                              *)

FrameRecs ==
  [table : Tables, match : SUBSET Names, at : {"scan", "callback"}, cur : Entries \cup {Nil},
   next : Entries \cup {Nil}, todo : SUBSET Entries, done : SUBSET Entries, moved : BOOLEAN]
TableRecs == [flags : {"none", "real", "fake", "deleted"}, list : Seq(Entries)]
EntryRecs ==
  [name : Names \cup {Nil}, code : Pointers, owner : Modules \cup {Nil},
   nhits : 0 .. MaxHits, deleted : BOOLEAN]

BindTypes ==
  /\ table \in [Tables -> TableRecs]
  /\ entry \in [Entries -> EntryRecs]
  /\ frames \in Seq(FrameRecs)
  /\ garbage \in Seq({"binds", "modules"})

\* A piece of memory is in one list, and there once.
Lists ==
  /\ \A t \in Tables : Distinct(table[t].list)
  /\ \A t, u \in Tables : \A e \in Entries : In(table[t].list, e) /\ In(table[u].list, e) => t = u

\* What a check holds on to is there.
Held(f, tab) ==
  /\ tab.flags # "none"
  /\ f.cur # Nil => In(tab.list, f.cur)
  /\ f.next # Nil => In(tab.list, f.next)
  /\ f.at = "callback" => f.cur # Nil

\* The entries called are ahead of the next one, those still due are not.
Progress(f, l, ent) ==
  ~ f.moved =>
    /\ \A e \in f.todo : In(l, e) /\ ~ ent[e].deleted /\ ent[e].name \in f.match
    /\ f.next = Nil => f.todo = {}
    /\ f.next # Nil => /\ \A d \in f.done : Ordered(l, d, f.next)
                       /\ \A e \in f.todo : e = f.next \/ Ordered(l, f.next, e)
    /\ f.cur # Nil => f.cur \in f.done

FrameOK(f, tab, ent) == Held(f, tab) /\ Progress(f, tab.list, ent)

Frames == \A i \in 1 .. Len(frames) : FrameOK(frames[i], table[frames[i].table], entry)

\* Whatever is marked as deleted will be freed.
Pending ==
  \/ In(garbage, "binds")
  \/ \A t \in Tables : /\ table[t].flags # "deleted"
                       /\ \A e \in Entries : In(table[t].list, e) => ~ entry[e].deleted

Phases ==
  /\ phase \in {"main", "garbage", "undefined"}
  /\ phase = "garbage" => frames = <<>>

BindInv == BindTypes /\ Lists /\ Frames /\ Pending /\ Phases

\* g is f, except that the entries of gone are not due any more.
Kept(f, g, gone) ==
  /\ g.table = f.table /\ g.match = f.match /\ g.at = f.at /\ g.cur = f.cur
  /\ g.next = f.next /\ g.done = f.done /\ g.moved = f.moved
  /\ g.todo = f.todo \ gone

\* A check does not notice entries that are added, nor those deleted that it
\* has no longer to call.
LEMMA FrameKept ==
  ASSUME NEW f, NEW g, NEW tab, NEW tab2, NEW ent, NEW ent2, NEW gone,
         FrameOK(f, tab, ent), Kept(f, g, gone),
         tab2.flags # "none", Embeds(tab.list, tab2.list),
         \A e : In(tab.list, e) /\ e \notin gone =>
                  ent2[e].deleted = ent[e].deleted /\ ent2[e].name = ent[e].name
  PROVE  FrameOK(g, tab2, ent2)
  <1>1. Held(g, tab2)
    BY DEF FrameOK, Held, Kept, Embeds
  <1>2. SUFFICES ASSUME ~ g.moved
                 PROVE  Progress(g, tab2.list, ent2)
    BY <1>1 DEF FrameOK, Progress
  <1>3. /\ \A e \in f.todo : In(tab.list, e) /\ ~ ent[e].deleted /\ ent[e].name \in f.match
        /\ f.next = Nil => f.todo = {}
        /\ f.next # Nil => /\ \A d \in f.done : Ordered(tab.list, d, f.next)
                           /\ \A e \in f.todo : e = f.next \/ Ordered(tab.list, f.next, e)
        /\ f.cur # Nil => f.cur \in f.done
    BY <1>2 DEF FrameOK, Progress, Kept
  <1>4. \A e \in g.todo : e \in f.todo /\ e \notin gone
    BY DEF Kept
  <1>5. \A e \in g.todo : In(tab2.list, e) /\ ~ ent2[e].deleted /\ ent2[e].name \in g.match
    BY <1>3, <1>4 DEF Kept, Embeds
  <1>6. g.next = Nil => g.todo = {}
    BY <1>3, <1>4 DEF Kept
  <1>7. \A a, b : Ordered(tab.list, a, b) => Ordered(tab2.list, a, b)
    BY DEF Embeds
  <1>8. g.next # Nil => /\ \A d \in g.done : Ordered(tab2.list, d, g.next)
                        /\ \A e \in g.todo : e = g.next \/ Ordered(tab2.list, g.next, e)
    BY <1>3, <1>4, <1>7 DEF Kept
  <1>9. g.cur # Nil => g.cur \in g.done
    BY <1>3 DEF Kept
  <1> QED
    BY <1>5, <1>6, <1>8, <1>9 DEF Progress

LEMMA FrameFields ==
  ASSUME BindTypes, NEW i \in 1 .. Len(frames)
  PROVE  /\ frames[i] \in FrameRecs
         /\ frames[i].table \in Tables /\ frames[i].match \in SUBSET Names
         /\ frames[i].at \in {"scan", "callback"}
         /\ frames[i].cur \in Entries \cup {Nil} /\ frames[i].next \in Entries \cup {Nil}
         /\ frames[i].todo \in SUBSET Entries /\ frames[i].done \in SUBSET Entries
         /\ frames[i].moved \in BOOLEAN
  <1>1. frames[i] \in FrameRecs
    BY DEF BindTypes
  <1> QED
    BY <1>1 DEF FrameRecs

LEMMA TableFields ==
  ASSUME BindTypes, NEW t \in Tables
  PROVE  /\ table[t] \in TableRecs
         /\ table[t].flags \in {"none", "real", "fake", "deleted"}
         /\ table[t].list \in Seq(Entries)
  BY DEF BindTypes, TableRecs

LEMMA EntryFields ==
  ASSUME BindTypes, NEW e \in Entries
  PROVE  /\ entry[e] \in EntryRecs
         /\ entry[e].name \in Names \cup {Nil} /\ entry[e].code \in Pointers
         /\ entry[e].owner \in Modules \cup {Nil} /\ entry[e].nhits \in 0 .. MaxHits
         /\ entry[e].deleted \in BOOLEAN
  BY DEF BindTypes, EntryRecs

LEMMA FramesKept ==
  ASSUME BindTypes, Frames, BindTypes', NEW gone,
         Len(frames') = Len(frames),
         \A i \in 1 .. Len(frames) : Kept(frames[i], frames'[i], gone),
         \A u \in Tables : table[u].flags # "none" => table'[u].flags # "none",
         \A u \in Tables : Embeds(table[u].list, table'[u].list),
         \A u \in Tables, e \in Entries : In(table[u].list, e) /\ e \notin gone =>
           entry'[e].deleted = entry[e].deleted /\ entry'[e].name = entry[e].name
  PROVE  Frames'
  <1> SUFFICES ASSUME NEW i \in 1 .. Len(frames)
               PROVE  FrameOK(frames'[i], table'[frames'[i].table], entry')
    BY DEF Frames
  <1>1. frames[i] \in FrameRecs /\ frames[i].table \in Tables /\ frames'[i].table = frames[i].table
    BY FrameFields DEF Kept
  <1> DEFINE tab == table[frames[i].table]
             tab2 == table'[frames[i].table]
  <1>2. tab \in TableRecs /\ tab.list \in Seq(Entries)
    BY <1>1, TableFields
  <1>3. FrameOK(frames[i], tab, entry) /\ Kept(frames[i], frames'[i], gone)
    BY DEF Frames
  <1>4. tab2.flags # "none" /\ Embeds(tab.list, tab2.list)
    BY <1>1, <1>3 DEF FrameOK, Held
  <1>5. \A e : In(tab.list, e) /\ e \notin gone =>
          entry'[e].deleted = entry[e].deleted /\ entry'[e].name = entry[e].name
    BY <1>1, <1>2, SMTT(30) DEF In
  <1> HIDE DEF tab, tab2
  <1>6. FrameOK(frames'[i], tab2, entry')
    BY <1>3, <1>4, <1>5, FrameKept
  <1> QED
    BY <1>1, <1>6 DEF tab2

-----------------------------------------------------------------------------
(* The steps of bind_entry_add, bind_entry_del and bind_entry_modify       *)

LEMMA LinkedIn ==
  ASSUME BindTypes, NEW t \in Tables, NEW e
  PROVE  e \in Linked(t) <=> In(table[t].list, e)
  BY TableFields, InToSet DEF Linked

LEMMA FramesSame ==
  ASSUME NEW f
  PROVE  Kept(f, f, {})
  BY DEF Kept

LEMMA AddsEntry ==
  ASSUME BindInv, NEW t \in Tables, NEW flags \in {table[t].flags, "fake"}, flags # "none",
         NEW l \in Seq(Entries), Distinct(l), Embeds(table[t].list, l),
         NEW e \in Entries, \A x : In(l, x) <=> In(table[t].list, x) \/ x = e,
         Unused(e), NEW n \in Names, NEW c \in Modules, NEW o \in Modules \cup {Nil},
         table' = [table EXCEPT ![t].flags = flags, ![t].list = l],
         entry' = [entry EXCEPT ![e] = New(n, c, o)],
         frames' = frames, garbage' = garbage
  PROVE  BindTypes' /\ Lists' /\ Frames' /\ Pending'
  <1>1. BindTypes /\ Lists /\ Frames /\ Pending
    BY DEF BindInv
  <1>2. table \in [Tables -> TableRecs] /\ entry \in [Entries -> EntryRecs]
    BY <1>1 DEF BindTypes
  <1>3. /\ \A u \in Tables : u # t => table'[u] = table[u]
        /\ table'[t].flags = flags /\ table'[t].list = l
    BY <1>2 DEF TableRecs
  <1>4. table' \in [Tables -> TableRecs]
    <2>1. flags \in {"none", "real", "fake", "deleted"}
      BY <1>1, TableFields
    <2> QED
      BY <1>2, <2>1 DEF TableRecs
  <1>5. entry'[e] = New(n, c, o) /\ \A x \in Entries : x # e => entry'[x] = entry[x]
    BY <1>2
  <1>6. New(n, c, o) \in EntryRecs /\ New(n, c, o).deleted = FALSE
    BY BindBoundsAssumption DEF New, EntryRecs, Pointers
  <1>7. entry' \in [Entries -> EntryRecs]
    BY <1>2, <1>6
  <1>8. BindTypes'
    BY <1>1, <1>4, <1>7 DEF BindTypes
  <1>9. \A u \in Tables : ~ In(table[u].list, e)
    BY <1>1, LinkedIn DEF Unused
  <1>10. Lists'
    <2>1. \A u \in Tables : Distinct(table'[u].list)
      BY <1>1, <1>3 DEF Lists
    <2>2. ASSUME NEW u \in Tables, NEW v \in Tables, NEW x \in Entries,
                 In(table'[u].list, x), In(table'[v].list, x)
          PROVE  u = v
      BY <1>1, <1>3, <1>9, <2>2 DEF Lists
    <2> QED
      BY <2>1, <2>2 DEF Lists
  <1>11. Frames'
    <2>1. \A i \in 1 .. Len(frames) : Kept(frames[i], frames'[i], {})
      BY FramesSame
    <2>2. \A u \in Tables : table[u].flags # "none" => table'[u].flags # "none"
      BY <1>3
    <2>3. \A u \in Tables : Embeds(table[u].list, table'[u].list)
      BY <1>3, EmbedsSelf
    <2>4. \A u \in Tables, x \in Entries : In(table[u].list, x) /\ x \notin {} =>
            entry'[x].deleted = entry[x].deleted /\ entry'[x].name = entry[x].name
      BY <1>5, <1>9
    <2>5. Len(frames') = Len(frames)
      OBVIOUS
    <2> QED
      BY <1>1, <1>8, <2>1, <2>2, <2>3, <2>4, <2>5, FramesKept
  <1>12. Pending'
    <2>1. CASE In(garbage, "binds")
      BY <2>1 DEF Pending
    <2>2. CASE \A u \in Tables : /\ table[u].flags # "deleted"
                                 /\ \A x \in Entries : In(table[u].list, x) => ~ entry[x].deleted
      <3>1. \A u \in Tables : table'[u].flags # "deleted"
        BY <1>3, <2>2
      <3>2. ASSUME NEW u \in Tables, NEW x \in Entries, In(table'[u].list, x)
            PROVE  ~ entry'[x].deleted
        <4>1. CASE x = e
          <5>1. entry'[x].deleted = FALSE
            BY <1>5, <1>6, <4>1
          <5> QED
            BY <5>1
        <4>2. CASE x # e
          <5>1. In(table[u].list, x)
            BY <1>3, <3>2, <4>2
          <5> QED
            BY <1>5, <2>2, <4>2, <5>1
        <4> QED
          BY <4>1, <4>2
      <3> QED
        BY <3>1, <3>2 DEF Pending
    <2> QED
      BY <1>1, <2>1, <2>2 DEF Pending
  <1> QED
    BY <1>8, <1>10, <1>11, <1>12

LEMMA ListsSame ==
  ASSUME Lists, \A u \in Tables : table'[u].list = table[u].list
  PROVE  Lists'
  BY DEF Lists

LEMMA OverwritesEntry ==
  ASSUME BindInv, NEW t \in Tables, NEW flags \in {table[t].flags, "fake"}, flags # "none",
         NEW e \in Entries, NEW c \in Modules, NEW o \in Modules \cup {Nil},
         table' = [table EXCEPT ![t].flags = flags],
         entry' = [entry EXCEPT ![e].code = c, ![e].owner = o],
         frames' = frames, garbage' = garbage
  PROVE  BindTypes' /\ Lists' /\ Frames' /\ Pending'
  <1>1. BindTypes /\ Lists /\ Frames /\ Pending
    BY DEF BindInv
  <1>2. table \in [Tables -> TableRecs] /\ entry \in [Entries -> EntryRecs]
    BY <1>1 DEF BindTypes
  <1>3. /\ \A u \in Tables : table'[u].list = table[u].list
        /\ \A u \in Tables : u # t => table'[u].flags = table[u].flags
        /\ table'[t].flags = flags
    BY <1>2 DEF TableRecs
  <1>4. table' \in [Tables -> TableRecs]
    <2>1. flags \in {"none", "real", "fake", "deleted"}
      BY <1>1, TableFields
    <2> QED
      BY <1>2, <2>1 DEF TableRecs
  <1>5. entry' \in [Entries -> EntryRecs]
    <2>1. c \in Pointers
      BY DEF Pointers
    <2> QED
      BY <1>2, <2>1, ZenonT(40) DEF EntryRecs
  <1>6. \A x \in Entries : entry'[x].deleted = entry[x].deleted /\ entry'[x].name = entry[x].name
    BY <1>2 DEF EntryRecs
  <1>7. BindTypes'
    BY <1>1, <1>4, <1>5 DEF BindTypes
  <1>8. Lists'
    BY <1>1, <1>3, ListsSame
  <1>9. Frames'
    <2>1. \A i \in 1 .. Len(frames) : Kept(frames[i], frames'[i], {})
      BY FramesSame
    <2>2. \A u \in Tables : table[u].flags # "none" => table'[u].flags # "none"
      BY <1>3
    <2>3. \A u \in Tables : Embeds(table[u].list, table'[u].list)
      BY <1>3, EmbedsSelf
    <2>4. \A u \in Tables, x \in Entries : In(table[u].list, x) /\ x \notin {} =>
            entry'[x].deleted = entry[x].deleted /\ entry'[x].name = entry[x].name
      BY <1>6
    <2>5. Len(frames') = Len(frames)
      OBVIOUS
    <2> QED
      BY <1>1, <1>7, <2>1, <2>2, <2>3, <2>4, <2>5, FramesKept
  <1>10. Pending'
    <2>1. CASE In(garbage, "binds")
      BY <2>1 DEF Pending
    <2>2. CASE \A u \in Tables : /\ table[u].flags # "deleted"
                                 /\ \A x \in Entries : In(table[u].list, x) => ~ entry[x].deleted
      BY <1>3, <1>6, <2>2, ZenonT(40) DEF Pending
    <2> QED
      BY <1>1, <2>1, <2>2 DEF Pending
  <1> QED
    BY <1>7, <1>8, <1>9, <1>10

LEMMA AddKeepsInv ==
  ASSUME BindInv, NEW t \in Tables, NEW flags \in {table[t].flags, "fake"}, flags # "none",
         NEW n \in Names, NEW c \in Modules, NEW o \in Modules \cup {Nil},
         bind_entry_add(t, flags, n, c, o)
  PROVE  BindTypes' /\ Lists' /\ Frames' /\ Pending'
  <1>1. BindTypes /\ Lists /\ frames' = frames /\ garbage' = garbage
    BY DEF BindInv, bind_entry_add
  <1>2. table[t].list \in Seq(Entries) /\ Distinct(table[t].list)
    BY <1>1, TableFields DEF Lists
  <1>3. table \in [Tables -> TableRecs]
    BY <1>1 DEF BindTypes
  <1>4. ASSUME NEW old \in Linked(t), NEW e \in Entries, Unused(e),
               table' = [table EXCEPT ![t].flags = flags,
                           ![t].list = InsertAt(@, Position(@, old) + 1, e)],
               entry' = [entry EXCEPT ![e] = New(n, c, o)]
        PROVE  BindTypes' /\ Lists' /\ Frames' /\ Pending'
    <2> DEFINE s == table[t].list
               k == Position(s, old) + 1
               l == InsertAt(s, k, e)
    <2>1. In(s, old) /\ ~ In(s, e)
      BY <1>1, <1>4, LinkedIn DEF Unused
    <2>2. Position(s, old) \in 1 .. Len(s)
      BY <1>2, <2>1, PositionOf
    <2>3. k \in 1 .. Len(s) + 1
      BY <1>2, <2>2
    <2>4. table' = [table EXCEPT ![t].flags = flags, ![t].list = l]
      BY <1>3, <1>4 DEF TableRecs
    <2>0. s \in Seq(Entries) /\ Distinct(s)
      BY <1>2
    <2> HIDE DEF s, k
    <2>5. /\ l \in Seq(Entries) /\ Distinct(l) /\ Embeds(s, l)
          /\ \A x : In(l, x) <=> In(s, x) \/ x = e
      BY <2>0, <2>1, <2>3, InsertEmbeds
    <2> HIDE DEF l
    <2>6. /\ Embeds(table[t].list, l)
          /\ \A x : In(l, x) <=> In(table[t].list, x) \/ x = e
      BY <2>5 DEF s
    <2> QED
      BY <1>1, <1>4, <2>4, <2>5, <2>6, AddsEntry
  <1>5. ASSUME NEW old \in Linked(t),
               entry' = [entry EXCEPT ![old].code = c, ![old].owner = o],
               table' = [table EXCEPT ![t].flags = flags]
        PROVE  BindTypes' /\ Lists' /\ Frames' /\ Pending'
    <2>1. old \in Entries
      BY <1>2 DEF Linked, ToSet
    <2> QED
      BY <1>1, <1>5, <2>1, OverwritesEntry
  <1>6. ASSUME NEW e \in Entries, Unused(e),
               table' = [table EXCEPT ![t].flags = flags, ![t].list = Append(@, e)],
               entry' = [entry EXCEPT ![e] = New(n, c, o)]
        PROVE  BindTypes' /\ Lists' /\ Frames' /\ Pending'
    <2> DEFINE s == table[t].list
               l == Append(s, e)
    <2>1. ~ In(s, e)
      BY <1>1, <1>6, LinkedIn DEF Unused
    <2>4. table' = [table EXCEPT ![t].flags = flags, ![t].list = l]
      BY <1>3, <1>6 DEF TableRecs
    <2>0. s \in Seq(Entries) /\ Distinct(s)
      BY <1>2
    <2> HIDE DEF s
    <2>5. /\ l \in Seq(Entries) /\ Distinct(l) /\ Embeds(s, l)
          /\ \A x : In(l, x) <=> In(s, x) \/ x = e
      BY <2>0, <2>1, AppendEmbeds
    <2> HIDE DEF l
    <2>6. /\ Embeds(table[t].list, l)
          /\ \A x : In(l, x) <=> In(table[t].list, x) \/ x = e
      BY <2>5 DEF s
    <2> QED
      BY <1>1, <1>6, <2>4, <2>5, <2>6, AddsEntry
  <1> QED
    BY <1>4, <1>5, <1>6 DEF bind_entry_add

LEMMA GarbageAdded ==
  ASSUME NEW S, NEW s \in Seq(S), NEW p \in S
  PROVE  /\ garbage_add(s, p) \in Seq(S)
         /\ \A x : In(garbage_add(s, p), x) <=> In(s, x) \/ x = p
         /\ Distinct(s) => Distinct(garbage_add(s, p))
  <1>1. CASE p \in ToSet(s)
    <2>1. In(s, p) /\ garbage_add(s, p) = s
      BY <1>1, InToSet DEF garbage_add
    <2> QED
      BY <2>1
  <1>2. CASE p \notin ToSet(s)
    <2> DEFINE u == <<p>> \o s
    <2>1. ~ In(s, p) /\ garbage_add(s, p) = u
      BY <1>2, InToSet DEF garbage_add
    <2>2. /\ u \in Seq(S) /\ Len(u) = Len(s) + 1 /\ Len(s) \in Nat /\ u[1] = p
          /\ \A i \in 1 .. Len(s) : u[i + 1] = s[i]
      OBVIOUS
    <2> HIDE DEF u
    <2>3. /\ \A i \in 1 .. Len(s) : i + 1 \in 1 .. Len(u)
          /\ \A i \in 1 .. Len(u) : i # 1 => i - 1 \in 1 .. Len(s) /\ (i - 1) + 1 = i
          /\ 1 \in 1 .. Len(u)
      BY <2>2
    <2>4. \A i \in 1 .. Len(u) : i # 1 => i - 1 \in 1 .. Len(s) /\ u[i] = s[i - 1]
      BY <2>2, <2>3
    <2>5. \A x : In(u, x) <=> In(s, x) \/ x = p
      BY <2>2, <2>3, <2>4 DEF In
    <2>6. ASSUME Distinct(s), NEW i \in 1 .. Len(u), NEW j \in 1 .. Len(u), u[i] = u[j]
          PROVE  i = j
      <3>1. \A h \in 1 .. Len(u) : h # 1 => u[h] # p
        BY <2>1, <2>4 DEF In
      <3>2. CASE i = 1 \/ j = 1
        BY <2>2, <2>6, <3>1, <3>2
      <3>3. CASE i # 1 /\ j # 1
        <4>1. i - 1 = j - 1
          BY <2>4, <2>6, <3>3 DEF Distinct
        <4> QED
          BY <2>3, <3>3, <4>1
      <3> QED
        BY <3>2, <3>3
    <2>7. Distinct(s) => Distinct(u)
      BY <2>6 DEF Distinct
    <2> QED
      BY <2>1, <2>2, <2>5, <2>7
  <1> QED
    BY <1>1, <1>2

LEMMA UndueFrames ==
  ASSUME BindTypes, NEW gone,
         frames' = [i \in DOMAIN frames |-> [frames[i] EXCEPT !.todo = @ \ gone]]
  PROVE  /\ frames' \in Seq(FrameRecs) /\ Len(frames') = Len(frames)
         /\ \A i \in 1 .. Len(frames) : Kept(frames[i], frames'[i], gone)
  <1>1. DOMAIN frames = 1 .. Len(frames) /\ Len(frames) \in Nat /\ frames \in Seq(FrameRecs)
    BY DEF BindTypes
  <1>2. ASSUME NEW i \in 1 .. Len(frames)
        PROVE  [frames[i] EXCEPT !.todo = @ \ gone] \in FrameRecs
    BY FrameFields DEF FrameRecs
  <1>3. ASSUME NEW i \in 1 .. Len(frames)
        PROVE  Kept(frames[i], frames'[i], gone)
    <2>1. frames'[i] = [frames[i] EXCEPT !.todo = @ \ gone]
      BY <1>1
    <2>2. frames[i] \in FrameRecs
      BY FrameFields
    <2> QED
      BY <2>1, <2>2 DEF Kept, FrameRecs
  <1>4. frames' \in [1 .. Len(frames) -> FrameRecs]
    BY <1>1, <1>2
  <1>5. frames' \in Seq(FrameRecs) /\ Len(frames') = Len(frames)
    BY <1>1, <1>4
  <1> QED
    BY <1>3, <1>5

\* Entries are marked or renamed; their lists stay as they are.
LEMMA MarksEntries ==
  ASSUME BindInv, NEW gone,
         frames' = [i \in DOMAIN frames |-> [frames[i] EXCEPT !.todo = @ \ gone]],
         table' \in [Tables -> TableRecs],
         \A u \in Tables : table'[u].list = table[u].list,
         \A u \in Tables : table[u].flags # "none" => table'[u].flags # "none",
         entry' \in [Entries -> EntryRecs],
         \A e \in Entries : e \notin gone =>
           entry'[e].deleted = entry[e].deleted /\ entry'[e].name = entry[e].name,
         garbage' \in Seq({"binds", "modules"})
  PROVE  BindTypes' /\ Lists' /\ Frames'
  <1>1. BindTypes /\ Lists /\ Frames
    BY DEF BindInv
  <1>2. /\ frames' \in Seq(FrameRecs) /\ Len(frames') = Len(frames)
        /\ \A i \in 1 .. Len(frames) : Kept(frames[i], frames'[i], gone)
    BY <1>1, UndueFrames
  <1>3. BindTypes'
    BY <1>2 DEF BindTypes
  <1>4. Lists'
    BY <1>1, ListsSame
  <1>5. \A u \in Tables : Embeds(table[u].list, table'[u].list)
    BY EmbedsSelf
  <1>6. Frames'
    BY <1>1, <1>2, <1>3, <1>5, FramesKept
  <1> QED
    BY <1>3, <1>4, <1>6

LEMMA DelKeepsInv ==
  ASSUME BindInv, NEW t \in Tables, NEW n, NEW c, bind_entry_del(t, n, c)
  PROVE  BindTypes' /\ Lists' /\ Frames' /\ Pending'
  <1>1. BindTypes
    BY DEF BindInv
  <1>2. table \in [Tables -> TableRecs] /\ entry \in [Entries -> EntryRecs]
        /\ garbage \in Seq({"binds", "modules"})
    BY <1>1 DEF BindTypes
  <1>3. PICK e \in Linked(t) :
          /\ entry' = [entry EXCEPT ![e].deleted = TRUE]
          /\ frames' = Undue(e)
          /\ garbage' = garbage_add(garbage, "binds")
          /\ table' = table
    BY DEF bind_entry_del
  <1>4. e \in Entries
    BY <1>1, TableFields DEF Linked, ToSet
  <1>5. /\ entry' \in [Entries -> EntryRecs]
        /\ \A x \in Entries : x \notin {e} =>
             entry'[x].deleted = entry[x].deleted /\ entry'[x].name = entry[x].name
    BY <1>2, <1>3, <1>4 DEF EntryRecs
  <1>6. garbage' \in Seq({"binds", "modules"}) /\ In(garbage', "binds")
    BY <1>2, <1>3, GarbageAdded
  <1>7. frames' = [i \in DOMAIN frames |-> [frames[i] EXCEPT !.todo = @ \ {e}]]
    BY <1>3 DEF Undue
  <1>8. table' \in [Tables -> TableRecs] /\ \A u \in Tables : table'[u] = table[u]
    BY <1>2, <1>3
  <1>9. BindTypes' /\ Lists' /\ Frames'
    BY <1>5, <1>6, <1>7, <1>8, MarksEntries
  <1> QED
    BY <1>6, <1>9 DEF Pending

LEMMA ModifyKeepsInv ==
  ASSUME BindInv, NEW t \in Tables, NEW n, NEW new \in Names, bind_entry_modify(t, n, new)
  PROVE  BindTypes' /\ Lists' /\ Frames' /\ Pending'
  <1>1. BindTypes /\ Pending
    BY DEF BindInv
  <1>2. table \in [Tables -> TableRecs] /\ entry \in [Entries -> EntryRecs]
        /\ garbage \in Seq({"binds", "modules"})
    BY <1>1 DEF BindTypes
  <1>3. PICK e \in Linked(t) :
          /\ entry' = [entry EXCEPT ![e].name = new]
          /\ frames' = Undue(e)
          /\ table' = table /\ garbage' = garbage
    BY DEF bind_entry_modify
  <1>4. e \in Entries
    BY <1>1, TableFields DEF Linked, ToSet
  <1>5. /\ entry' \in [Entries -> EntryRecs]
        /\ \A x \in Entries : x \notin {e} =>
             entry'[x].deleted = entry[x].deleted /\ entry'[x].name = entry[x].name
    BY <1>2, <1>3, <1>4 DEF EntryRecs
  <1>6. \A x \in Entries : entry'[x].deleted = entry[x].deleted
    BY <1>2, <1>3, <1>4 DEF EntryRecs
  <1>7. frames' = [i \in DOMAIN frames |-> [frames[i] EXCEPT !.todo = @ \ {e}]]
    BY <1>3 DEF Undue
  <1>8. table' \in [Tables -> TableRecs] /\ \A u \in Tables : table'[u] = table[u]
    BY <1>2, <1>3
  <1>9. BindTypes' /\ Lists' /\ Frames'
    BY <1>2, <1>3, <1>5, <1>7, <1>8, MarksEntries
  <1>10. Pending'
    BY <1>1, <1>3, <1>6 DEF Pending
  <1> QED
    BY <1>9, <1>10

-----------------------------------------------------------------------------
(* Tables come and go with their modules                                   *)

LEMMA LoadKeepsInv ==
  ASSUME BindInv, NEW m \in Modules, module_load(m)
  PROVE  BindTypes' /\ Lists' /\ Frames' /\ Pending'
  <1>1. BindTypes /\ Lists /\ Frames /\ Pending
    BY DEF BindInv
  <1>2. table \in [Tables -> TableRecs]
    BY <1>1 DEF BindTypes
  <1>3. /\ entry' = entry /\ frames' = frames /\ garbage' = garbage
        /\ table' = [t \in Tables |->
                       IF t \in TableOf[m] THEN bind_table_add(table, t)[t] ELSE table[t]]
    BY DEF module_load
  <1>4. ASSUME NEW t \in Tables
        PROVE  /\ bind_table_add(table, t)[t] \in TableRecs
               /\ bind_table_add(table, t)[t].list = table[t].list
               /\ \/ bind_table_add(table, t)[t].flags = "real" /\ table[t].flags # "deleted"
                  \/ bind_table_add(table, t)[t].flags = table[t].flags
    BY <1>2 DEF TableRecs, bind_table_add
  <1>5. /\ table' \in [Tables -> TableRecs]
        /\ \A t \in Tables :
             /\ table'[t].list = table[t].list
             /\ \/ table'[t].flags = "real" /\ table[t].flags # "deleted"
                \/ table'[t].flags = table[t].flags
    BY <1>2, <1>3, <1>4
  <1>6. BindTypes'
    BY <1>1, <1>3, <1>5 DEF BindTypes
  <1>7. Lists'
    BY <1>1, <1>5, ListsSame
  <1>8. Frames'
    <2>1. \A i \in 1 .. Len(frames) : Kept(frames[i], frames'[i], {})
      BY <1>3, FramesSame
    <2>2. \A u \in Tables : table[u].flags # "none" => table'[u].flags # "none"
      BY <1>5
    <2>3. \A u \in Tables : Embeds(table[u].list, table'[u].list)
      BY <1>5, EmbedsSelf
    <2>4. \A u \in Tables, x \in Entries : In(table[u].list, x) /\ x \notin {} =>
            entry'[x].deleted = entry[x].deleted /\ entry'[x].name = entry[x].name
      BY <1>3
    <2>5. Len(frames') = Len(frames)
      BY <1>3
    <2> QED
      BY <1>1, <1>6, <2>1, <2>2, <2>3, <2>4, <2>5, FramesKept
  <1>9. Pending'
    <2>1. CASE In(garbage, "binds")
      BY <1>3, <2>1 DEF Pending
    <2>2. CASE \A u \in Tables : /\ table[u].flags # "deleted"
                                 /\ \A x \in Entries : In(table[u].list, x) => ~ entry[x].deleted
      BY <1>3, <1>5, <2>2 DEF Pending
    <2> QED
      BY <1>1, <2>1, <2>2 DEF Pending
  <1> QED
    BY <1>6, <1>7, <1>8, <1>9

LEMMA ClosedTables ==
  ASSUME BindTypes, NEW m \in Modules, Close(m)
  PROVE  /\ table' \in [Tables -> TableRecs]
         /\ \A t \in Tables :
              /\ table'[t].list = table[t].list
              /\ \/ table'[t].flags = "deleted" /\ table[t].flags = "real"
                 \/ table'[t].flags = table[t].flags
  <1>1. table \in [Tables -> TableRecs]
    BY DEF BindTypes
  <1>2. table' = [t \in Tables |->
                    IF t \in TableOf[m] THEN bind_table_del(table, t)[t] ELSE table[t]]
    BY DEF Close
  <1>3. ASSUME NEW t \in Tables
        PROVE  /\ bind_table_del(table, t)[t] \in TableRecs
               /\ bind_table_del(table, t)[t].list = table[t].list
               /\ \/ bind_table_del(table, t)[t].flags = "deleted" /\ table[t].flags = "real"
                  \/ bind_table_del(table, t)[t].flags = table[t].flags
    BY <1>1 DEF TableRecs, bind_table_del
  <1> QED
    BY <1>1, <1>2, <1>3

Own(m) == {e \in Entries : entry[e].code = m /\ entry[e].owner = Nil /\ m \notin Forgetful}

LEMMA ClosedEntries ==
  ASSUME BindTypes, NEW m \in Modules, Close(m)
  PROVE  /\ entry' \in [Entries -> EntryRecs]
         /\ \A e \in Entries :
              /\ entry'[e].name = entry[e].name /\ entry'[e].code = entry[e].code
              /\ entry'[e].owner = entry[e].owner
              /\ entry'[e].deleted = (entry[e].deleted \/ e \in Own(m))
  <1>1. entry \in [Entries -> EntryRecs]
    BY DEF BindTypes
  <1>2. entry' = [e \in Entries |->
                    IF e \in Own(m) THEN [entry[e] EXCEPT !.deleted = TRUE] ELSE entry[e]]
    BY DEF Close, Own
  <1> HIDE DEF Own
  <1>3. ASSUME NEW e \in Entries
        PROVE  /\ entry[e] \in EntryRecs
               /\ [entry[e] EXCEPT !.deleted = TRUE] \in EntryRecs
               /\ entry[e].deleted \in BOOLEAN
    BY <1>1 DEF EntryRecs
  <1>4. ASSUME NEW e \in Entries
        PROVE  /\ entry'[e].name = entry[e].name /\ entry'[e].code = entry[e].code
               /\ entry'[e].owner = entry[e].owner
               /\ entry'[e].deleted = (entry[e].deleted \/ e \in Own(m))
    <2>1. CASE e \in Own(m)
      <3>1. entry'[e] = [entry[e] EXCEPT !.deleted = TRUE]
        BY <1>2, <2>1
      <3> QED
        BY <1>3, <2>1, <3>1 DEF EntryRecs
    <2>2. CASE e \notin Own(m)
      <3>1. entry'[e] = entry[e]
        BY <1>2, <2>2
      <3> QED
        BY <1>3, <2>2, <3>1
    <2> QED
      BY <2>1, <2>2
  <1> QED
    BY <1>2, <1>3, <1>4

LEMMA UnloadKeepsInv ==
  ASSUME BindInv, NEW m \in Modules, module_unload(m)
  PROVE  BindTypes' /\ Lists' /\ Frames' /\ Pending'
  <1>1. BindTypes /\ garbage \in Seq({"binds", "modules"})
    BY DEF BindInv, BindTypes
  <1>2. Close(m) /\ garbage' = garbage_add(garbage_add(garbage, "binds"), "modules")
    BY DEF module_unload
  <1>3. garbage' \in Seq({"binds", "modules"}) /\ In(garbage', "binds")
    <2> DEFINE g == garbage_add(garbage, "binds")
    <2>1. g \in Seq({"binds", "modules"}) /\ In(g, "binds")
      BY <1>1, GarbageAdded
    <2> HIDE DEF g
    <2>2. garbage_add(g, "modules") \in Seq({"binds", "modules"}) /\ In(garbage_add(g, "modules"), "binds")
      BY <2>1, GarbageAdded
    <2> QED
      BY <1>2, <2>2 DEF g
  <1>4. frames' = [i \in DOMAIN frames |-> [frames[i] EXCEPT !.todo = @ \ Own(m)]]
    BY <1>2 DEF Close, Own
  <1> HIDE DEF Own
  <1>5. /\ table' \in [Tables -> TableRecs]
        /\ \A t \in Tables : table'[t].list = table[t].list
        /\ \A t \in Tables : table[t].flags # "none" => table'[t].flags # "none"
    BY <1>1, <1>2, ClosedTables
  <1>6. /\ entry' \in [Entries -> EntryRecs]
        /\ \A e \in Entries : e \notin Own(m) =>
             entry'[e].deleted = entry[e].deleted /\ entry'[e].name = entry[e].name
    <2>1. \A e \in Entries : entry[e].deleted \in BOOLEAN
      BY <1>1, EntryFields
    <2> QED
      BY <1>1, <1>2, <2>1, ClosedEntries
  <1>7. BindTypes' /\ Lists' /\ Frames'
    BY <1>3, <1>4, <1>5, <1>6, MarksEntries
  <1> QED
    BY <1>3, <1>7 DEF Pending

-----------------------------------------------------------------------------
(* Checks                                                                  *)

\* In a list without repetitions an entry has one position.
LEMMA PositionIs ==
  ASSUME NEW S, NEW s \in Seq(S), Distinct(s), NEW i \in 1 .. Len(s)
  PROVE  Position(s, s[i]) = i
  <1>1. In(s, s[i])
    BY DEF In
  <1>2. Position(s, s[i]) \in 1 .. Len(s) /\ s[Position(s, s[i])] = s[i]
    BY <1>1, PositionOf
  <1> QED
    BY <1>2 DEF Distinct

\* i is the first position from p on that is in P.
First(i, p, P) == i \in P /\ i >= p /\ \A j \in P : j >= p => i <= j

\* The scan finds the first entry that matches, from next on.
LEMMA NextHitIs ==
  ASSUME NEW f, NEW l \in Seq(Entries), l = table[f.table].list,
         f.next # Nil => In(l, f.next)
  PROVE  \/ /\ NextHit(f) = Nil
            /\ f.next # Nil =>
                 \A j \in 1 .. Len(l) : j >= Position(l, f.next) => ~ Matches(f, l[j])
         \/ /\ f.next # Nil
            /\ \E i \in 1 .. Len(l) :
                 /\ NextHit(f) = l[i]
                 /\ First(i, Position(l, f.next), {j \in 1 .. Len(l) : Matches(f, l[j])})
  <1> DEFINE p == Position(l, f.next)
             hits == {i \in DOMAIN l : f.next # Nil /\ i >= p /\ Matches(f, l[i])}
             P == {j \in 1 .. Len(l) : Matches(f, l[j])}
             i == CHOOSE i \in hits : \A j \in hits : i <= j
  <1>1. NextHit(f) = IF hits = {} THEN Nil ELSE l[i]
    BY DEF NextHit
  <1>2. DOMAIN l = 1 .. Len(l) /\ Len(l) \in Nat
    OBVIOUS
  <1>3. CASE hits = {}
    <2>1. f.next # Nil => \A j \in 1 .. Len(l) : j >= p => ~ Matches(f, l[j])
      BY <1>2, <1>3
    <2>2. NextHit(f) = Nil
      BY <1>1, <1>3
    <2> QED
      BY <2>1, <2>2
  <1>4. CASE hits # {}
    <2>1. hits \in SUBSET Nat
      BY <1>2
    <2> HIDE DEF hits
    <2>2. \E m \in hits : \A j \in hits : m <= j
      BY <1>4, <2>1, LeastNat
    <2>3. i \in hits /\ \A j \in hits : i <= j
      BY <2>2
    <2> HIDE DEF i
    <2>4. NextHit(f) = l[i]
      BY <1>1, <1>4
    <2>5. f.next # Nil /\ i \in 1 .. Len(l) /\ i \in P /\ i >= p
      BY <1>2, <2>3 DEF hits
    <2>6. \A j \in P : j >= p => j \in hits
      BY <1>2, <2>5 DEF hits
    <2>7. First(i, p, P)
      BY <2>3, <2>5, <2>6 DEF First
    <2> QED
      BY <2>4, <2>5, <2>7
  <1> QED
    BY <1>3, <1>4

\* What is ordered behind next comes at a later position.
LEMMA BehindNext ==
  ASSUME NEW S, NEW l \in Seq(S), Distinct(l), NEW a, NEW b, Ordered(l, a, b)
  PROVE  /\ Position(l, a) \in 1 .. Len(l) /\ l[Position(l, a)] = a
         /\ Position(l, b) \in 1 .. Len(l) /\ l[Position(l, b)] = b
         /\ Position(l, a) < Position(l, b)
  <1>1. PICK i \in 1 .. Len(l), j \in 1 .. Len(l) : i < j /\ l[i] = a /\ l[j] = b
    BY DEF Ordered
  <1>2. Position(l, a) = i /\ Position(l, b) = j
    BY <1>1, PositionIs
  <1> QED
    BY <1>1, <1>2

FirstMatch(i, f, l, ent) ==
  First(i, Position(l, f.next),
        {j \in 1 .. Len(l) : ~ ent[l[j]].deleted /\ ent[l[j]].name \in f.match})

\* The entry that is called leaves the check in order: the ones that are still
\* due are behind it.
LEMMA CalledFrame ==
  ASSUME NEW f \in FrameRecs, NEW g \in FrameRecs, NEW tab \in TableRecs, NEW ent, NEW ent2,
         NEW l \in Seq(Entries), l = tab.list, Distinct(l), FrameOK(f, tab, ent), f.next # Nil,
         NEW i \in 1 .. Len(l),
         FirstMatch(i, f, l, ent),
         \A e \in Entries : ent2[e].deleted = ent[e].deleted /\ ent2[e].name = ent[e].name,
         g.cur = l[i], g.match = f.match, g.moved = f.moved,
         g.done = f.done \cup {l[i]}, g.todo = f.todo \ {l[i]},
         g.next = IF i = Len(l) THEN Nil ELSE l[i + 1]
  PROVE  FrameOK(g, tab, ent2)
  <1> DEFINE p == Position(l, f.next)
  <1>1. Len(l) \in Nat /\ i \in Nat /\ \A j \in 1 .. Len(l) : l[j] \in Entries
    OBVIOUS
  <1>2. i # Len(l) => i + 1 \in 1 .. Len(l)
    BY <1>1
  <1>3. Held(g, tab)
    <2>1. In(l, l[i]) /\ l[i] # Nil
      BY <1>1, NilAssumption DEF In
    <2>2. g.next # Nil => In(l, g.next)
      BY <1>2 DEF In
    <2>3. tab.flags # "none"
      BY DEF FrameOK, Held
    <2> QED
      BY <2>1, <2>2, <2>3 DEF Held
  <1>4. p \in 1 .. Len(l) /\ l[p] = f.next
    BY PositionOf DEF FrameOK, Held
  <1>5. p \in Nat /\ i >= p
    BY <1>1, <1>4 DEF FirstMatch, First
  <1> HIDE DEF p
  <1>6. SUFFICES ASSUME ~ g.moved
                 PROVE  Progress(g, l, ent2)
    BY <1>3 DEF FrameOK, Progress
  <1>7. /\ \A e \in f.todo : In(l, e) /\ ~ ent[e].deleted /\ ent[e].name \in f.match
        /\ \A d \in f.done : Ordered(l, d, f.next)
        /\ \A e \in f.todo : e = f.next \/ Ordered(l, f.next, e)
    BY <1>6 DEF FrameOK, Progress
  <1>8. ASSUME NEW e \in g.todo
        PROVE  \E j \in 1 .. Len(l) : l[j] = e /\ i < j
    <2>1. e \in f.todo /\ e # l[i]
      OBVIOUS
    <2>2. PICK j \in 1 .. Len(l) : l[j] = e /\ p <= j
      <3>1. CASE e = f.next
        BY <1>4, <1>5, <3>1
      <3>2. CASE Ordered(l, f.next, e)
        <4>1. /\ Position(l, e) \in 1 .. Len(l) /\ l[Position(l, e)] = e
              /\ Position(l, f.next) < Position(l, e)
          BY <3>2, BehindNext
        <4> QED
          BY <1>5, <4>1 DEF p
      <3> QED
        BY <1>7, <2>1, <3>1, <3>2
    <2>3. i <= j
      BY <1>5, <1>7, <2>1, <2>2 DEF FirstMatch, First, p
    <2>4. i # j
      BY <2>1, <2>2
    <2> QED
      BY <1>1, <2>2, <2>3, <2>4
  <1>9. \A e \in g.todo : In(l, e) /\ ~ ent2[e].deleted /\ ent2[e].name \in g.match
    <2>1. \A e \in g.todo : e \in f.todo /\ e \in Entries
      BY DEF FrameRecs
    <2> QED
      BY <1>7, <2>1
  <1>10. g.next = Nil => g.todo = {}
    <2> SUFFICES ASSUME g.next = Nil, NEW e \in g.todo
                 PROVE  FALSE
      OBVIOUS
    <2>1. i = Len(l)
      BY <1>1, <1>2, NilAssumption
    <2> QED
      BY <1>1, <1>8, <2>1
  <1>11. ASSUME g.next # Nil
         PROVE  /\ \A d \in g.done : Ordered(l, d, g.next)
                /\ \A e \in g.todo : e = g.next \/ Ordered(l, g.next, e)
    <2>1. i + 1 \in 1 .. Len(l) /\ g.next = l[i + 1] /\ i < i + 1
      BY <1>1, <1>2, <1>11
    <2>2. ASSUME NEW d \in f.done
          PROVE  Ordered(l, d, g.next)
      <3>1. Ordered(l, d, f.next)
        BY <1>7
      <3>2. /\ Position(l, d) \in 1 .. Len(l) /\ l[Position(l, d)] = d
            /\ Position(l, d) < p
        BY <3>1, BehindNext DEF p
      <3>3. Position(l, d) < i + 1
        BY <1>1, <1>5, <3>2
      <3> QED
        BY <2>1, <3>2, <3>3 DEF Ordered
    <2>3. Ordered(l, l[i], g.next)
      BY <2>1 DEF Ordered
    <2>4. ASSUME NEW e \in g.todo
          PROVE  e = g.next \/ Ordered(l, g.next, e)
      <3>1. PICK j \in 1 .. Len(l) : l[j] = e /\ i < j
        BY <1>8
      <3>2. CASE j = i + 1
        BY <2>1, <3>1, <3>2
      <3>3. CASE j # i + 1
        <4>1. i + 1 < j
          BY <1>1, <3>1, <3>3
        <4> QED
          BY <2>1, <3>1, <4>1 DEF Ordered
      <3> QED
        BY <3>2, <3>3
    <2> QED
      BY <2>2, <2>3, <2>4
  <1>12. g.cur \in g.done
    OBVIOUS
  <1> QED
    BY <1>9, <1>10, <1>11, <1>12 DEF Progress

LEMMA FramesAgain ==
  ASSUME BindTypes, Frames, NEW i \in 1 .. Len(frames),
         \A u \in Tables : table'[u] = table[u],
         \A e \in Entries : entry'[e].deleted = entry[e].deleted /\ entry'[e].name = entry[e].name
  PROVE  FrameOK(frames[i], table'[frames[i].table], entry')
  <1>1. frames[i].table \in Tables
    BY FrameFields
  <1> DEFINE tab == table[frames[i].table]
  <1>2. tab.list \in Seq(Entries) /\ table'[frames[i].table] = tab
    BY <1>1, TableFields
  <1>3. FrameOK(frames[i], tab, entry) /\ Kept(frames[i], frames[i], {})
    BY FramesSame DEF Frames
  <1>4. \A e : In(tab.list, e) /\ e \notin {} =>
          entry'[e].deleted = entry[e].deleted /\ entry'[e].name = entry[e].name
    BY <1>2 DEF In
  <1>5. tab.flags # "none" /\ Embeds(tab.list, tab.list)
    BY <1>3, EmbedsSelf DEF FrameOK, Held
  <1> HIDE DEF tab
  <1>6. FrameOK(frames[i], tab, entry')
    BY <1>3, <1>4, <1>5, FrameKept
  <1> QED
    BY <1>2, <1>6

LEMMA CheckKeepsInv ==
  ASSUME BindInv, NEW t \in Tables, NEW match \in SUBSET Names, bind_vcheck_hits(t, match)
  PROVE  BindTypes' /\ Lists' /\ Frames' /\ Pending'
  <1>1. BindTypes /\ Lists /\ Frames /\ Pending
    BY DEF BindInv
  <1> DEFINE l == table[t].list
             first == IF l = <<>> THEN Nil ELSE Head(l)
             due == {e \in Linked(t) : ~ entry[e].deleted /\ entry[e].name \in match}
             f == [table |-> t, match |-> match, at |-> "scan", cur |-> Nil,
                   next |-> first, todo |-> due, done |-> {}, moved |-> FALSE]
  <1>2. /\ table[t].flags # "none" /\ frames' = Append(frames, f)
        /\ table' = table /\ entry' = entry /\ garbage' = garbage
    BY DEF bind_vcheck_hits, Exists
  <1>3. l \in Seq(Entries)
    BY <1>1, TableFields
  <1>4. first \in Entries \cup {Nil} /\ due \in SUBSET Entries
    BY <1>3 DEF Linked, ToSet
  <1>5. /\ \A e \in due : In(l, e) /\ ~ entry[e].deleted /\ entry[e].name \in match
        /\ first # Nil => In(l, first)
        /\ first = Nil => due = {}
        /\ first # Nil => \A e \in due : e = first \/ Ordered(l, first, e)
    <2>1. \A e \in due : In(l, e)
      BY <1>1, LinkedIn
    <2>2. CASE l = <<>>
      <3>1. \A e : ~ In(l, e)
        BY <2>2 DEF In
      <3> QED
        BY <2>1, <2>2, <3>1
    <2>3. CASE l # <<>>
      <3>1. Len(l) \in Nat /\ 1 \in 1 .. Len(l) /\ first = l[1] /\ l[1] \in Entries
        BY <1>3, <2>3
      <3>2. first # Nil /\ In(l, first)
        BY <3>1, NilAssumption DEF In
      <3>3. ASSUME NEW e \in due PROVE e = first \/ Ordered(l, first, e)
        <4>1. PICK i \in 1 .. Len(l) : l[i] = e
          BY <2>1 DEF In
        <4>2. i = 1 \/ 1 < i
          BY <3>1
        <4> QED
          BY <3>1, <4>1, <4>2 DEF Ordered
      <3> QED
        BY <2>1, <3>2, <3>3
    <2> QED
      BY <2>2, <2>3
  <1> HIDE DEF first, due, l
  <1>6. f \in FrameRecs
    BY <1>4 DEF FrameRecs
  <1>7. FrameOK(f, table[t], entry)
    <2>1. Held(f, table[t])
      BY <1>2, <1>5 DEF Held, l
    <2>2. Progress(f, l, entry)
      BY <1>5 DEF Progress
    <2> QED
      BY <2>1, <2>2 DEF FrameOK, l
  <1>8. f.table = t
    OBVIOUS
  <1> HIDE DEF f
  <1>9. frames \in Seq(FrameRecs) /\ frames' \in Seq(FrameRecs)
    BY <1>1, <1>2, <1>6 DEF BindTypes
  <1>10. /\ Len(frames) \in Nat /\ Len(frames') = Len(frames) + 1
         /\ frames'[Len(frames) + 1] = f
         /\ \A i \in 1 .. Len(frames) : frames'[i] = frames[i]
    BY <1>2, <1>6, <1>9
  <1>11. ASSUME NEW i \in 1 .. Len(frames')
         PROVE  FrameOK(frames'[i], table'[frames'[i].table], entry')
    <2>1. CASE i = Len(frames) + 1
      BY <1>2, <1>7, <1>8, <1>10, <2>1
    <2>2. CASE i # Len(frames) + 1
      <3>1. i \in 1 .. Len(frames)
        BY <1>10, <2>2
      <3> QED
        BY <1>1, <1>2, <1>10, <3>1 DEF Frames
    <2> QED
      BY <2>1, <2>2
  <1>12. Frames'
    BY <1>11 DEF Frames
  <1>13. BindTypes' /\ Lists' /\ Pending'
    BY <1>1, <1>2, <1>9 DEF BindTypes, Lists, Pending
  <1> QED
    BY <1>12, <1>13

LEMMA LastFrame ==
  ASSUME BindInv, frames # <<>>
  PROVE  /\ Len(frames) \in Nat /\ Len(frames) \in 1 .. Len(frames)
         /\ Last(frames) = frames[Len(frames)]
  <1>1. frames \in Seq(FrameRecs)
    BY DEF BindInv, BindTypes
  <1> QED
    BY <1>1 DEF Last

LEMMA FrontOf ==
  ASSUME NEW S, NEW s \in Seq(S), s # <<>>
  PROVE  /\ Front(s) \in Seq(S) /\ Len(Front(s)) = Len(s) - 1
         /\ \A i \in 1 .. Len(s) - 1 : Front(s)[i] = s[i]
  <1>1. Len(s) \in Nat /\ Len(s) >= 1
    OBVIOUS
  <1>2. Front(s) = SubSeq(s, 1, Len(s) - 1)
    BY DEF Front
  <1>3. ASSUME NEW n \in Nat, n <= Len(s)
        PROVE  /\ SubSeq(s, 1, n) \in Seq(S) /\ Len(SubSeq(s, 1, n)) = n
               /\ \A i \in 1 .. n : SubSeq(s, 1, n)[i] = s[i]
    BY <1>1, <1>3
  <1>4. Len(s) - 1 \in Nat /\ Len(s) - 1 <= Len(s)
    BY <1>1
  <1> QED
    BY <1>2, <1>3, <1>4

LEMMA ReturnKeepsInv ==
  ASSUME BindInv, CheckReturns
  PROVE  BindTypes' /\ Lists' /\ Frames' /\ Pending'
  <1>1. BindTypes /\ Lists /\ Frames /\ Pending
    BY DEF BindInv
  <1>2. /\ frames # <<>> /\ frames' = Front(frames)
        /\ table' = table /\ entry' = entry /\ garbage' = garbage
    BY DEF CheckReturns
  <1>3. frames \in Seq(FrameRecs) /\ Len(frames) \in Nat
    BY <1>1 DEF BindTypes
  <1>4. /\ frames' \in Seq(FrameRecs) /\ Len(frames') = Len(frames) - 1
        /\ \A i \in 1 .. Len(frames) - 1 : frames'[i] = frames[i]
    BY <1>2, <1>3, FrontOf
  <1>5. \A i \in 1 .. Len(frames') : i \in 1 .. Len(frames) /\ frames'[i] = frames[i]
    BY <1>3, <1>4
  <1>6. Frames'
    BY <1>1, <1>2, <1>5 DEF Frames
  <1> QED
    BY <1>1, <1>2, <1>4, <1>6 DEF BindTypes, Lists, Pending

\* What the loop calls is in the table.
LEMMA HitLinked ==
  ASSUME BindInv, NEW i \in 1 .. Len(frames), NextHit(frames[i]) # Nil
  PROVE  /\ In(table[frames[i].table].list, NextHit(frames[i]))
         /\ NextHit(frames[i]) \in Entries
  <1> DEFINE f == frames[i]
             l == table[f.table].list
  <1>1. BindTypes /\ Lists /\ Frames
    BY DEF BindInv
  <1>2. f.table \in Tables
    BY <1>1, FrameFields
  <1>3. l \in Seq(Entries) /\ Distinct(l)
    BY <1>1, <1>2, TableFields DEF Lists
  <1>4. f.next # Nil => In(l, f.next)
    BY <1>1 DEF Frames, FrameOK, Held
  <1>5. \E j \in 1 .. Len(l) : NextHit(f) = l[j]
    BY <1>3, <1>4, NextHitIs
  <1> HIDE DEF l
  <1>6. \A j \in 1 .. Len(l) : l[j] \in Entries
    BY <1>3
  <1> QED
    BY <1>5, <1>6 DEF In, l

LEMMA CallKeepsInv ==
  ASSUME BindInv, CallNext
  PROVE  BindTypes' /\ Lists' /\ Frames' /\ Pending'
  <1>1. BindTypes /\ Lists /\ Frames /\ Pending
    BY DEF BindInv
  <1> DEFINE k == Len(frames)
             f == frames[k]
             l == table[f.table].list
             e == NextHit(f)
             g == [f EXCEPT !.at = "callback", !.cur = e, !.done = @ \cup {e},
                            !.todo = @ \ {e}, !.next = Successor(f.table, e)]
  <1>2. k \in Nat /\ k \in 1 .. k /\ Last(frames) = f
    BY LastFrame DEF CallNext
  <1>3. /\ e # Nil /\ entry' = [entry EXCEPT ![e].nhits = Hit(@)]
        /\ frames' = [frames EXCEPT ![k] = g]
        /\ table' = table /\ garbage' = garbage
    BY <1>2 DEF CallNext
  <1>4. f \in FrameRecs /\ f.table \in Tables
    BY <1>1, <1>2, FrameFields
  <1>5. l \in Seq(Entries) /\ Distinct(l)
    BY <1>1, <1>4, TableFields DEF Lists
  <1>6. FrameOK(f, table[f.table], entry)
    BY <1>1, <1>2 DEF Frames
  <1>7. f.next # Nil => In(l, f.next)
    BY <1>6 DEF FrameOK, Held
  <1>8. f.next # Nil /\ \E i \in 1 .. Len(l) :
          e = l[i] /\ First(i, Position(l, f.next), {j \in 1 .. Len(l) : Matches(f, l[j])})
    BY <1>3, <1>5, <1>7, NextHitIs
  <1>9. PICK i \in 1 .. Len(l) :
          e = l[i] /\ First(i, Position(l, f.next), {j \in 1 .. Len(l) : Matches(f, l[j])})
    BY <1>8
  <1>10. e \in Entries
    BY <1>5, <1>9
  <1>11. Position(l, e) = i
    BY <1>5, <1>9, PositionIs
  <1>12. Successor(f.table, e) = IF i = Len(l) THEN Nil ELSE l[i + 1]
    BY <1>11 DEF Successor
  <1>13. Successor(f.table, e) \in Entries \cup {Nil}
    BY <1>5, <1>12
  <1> HIDE DEF e
  <1>14. g \in FrameRecs
    BY <1>4, <1>10, <1>13 DEF FrameRecs
  <1>15. /\ g.cur = e /\ g.match = f.match /\ g.moved = f.moved /\ g.table = f.table
         /\ g.done = f.done \cup {e} /\ g.todo = f.todo \ {e}
         /\ g.next = Successor(f.table, e)
    BY <1>4 DEF FrameRecs
  <1>16. /\ entry' \in [Entries -> EntryRecs]
         /\ \A x \in Entries : entry'[x].deleted = entry[x].deleted /\ entry'[x].name = entry[x].name
    <2>1. entry \in [Entries -> EntryRecs]
      BY <1>1 DEF BindTypes
    <2>2. entry[e].nhits \in 0 .. MaxHits
      BY <1>1, <1>10, EntryFields
    <2>3. Hit(entry[e].nhits) \in 0 .. MaxHits
      BY <2>2, BindBoundsAssumption DEF Hit
    <2> QED
      BY <1>3, <1>10, <2>1, <2>3 DEF EntryRecs
  <1>17. FirstMatch(i, f, l, entry)
    BY <1>9 DEF Matches, FirstMatch
  <1> HIDE DEF g, l, f
  <1>18. FrameOK(g, table[f.table], entry')
    <2> DEFINE tab == table[f.table]
    <2>1. tab \in TableRecs /\ l = tab.list
      BY <1>1, <1>4, TableFields DEF l
    <2>2. g.cur = l[i] /\ g.done = f.done \cup {l[i]} /\ g.todo = f.todo \ {l[i]}
      BY <1>9, <1>15
    <2>3. g.next = IF i = Len(l) THEN Nil ELSE l[i + 1]
      BY <1>12, <1>15
    <2>4. FrameOK(f, tab, entry)
      BY <1>6
    <2>5. \A x \in Entries : entry'[x].deleted = entry[x].deleted /\ entry'[x].name = entry[x].name
      BY <1>16
    <2>6. f \in FrameRecs /\ l \in Seq(Entries) /\ Distinct(l) /\ f.next # Nil
      BY <1>4, <1>5, <1>8
    <2>7. g.match = f.match /\ g.moved = f.moved
      BY <1>15
    <2> HIDE DEF tab
    <2>8. FrameOK(g, tab, entry')
      BY <1>14, <1>17, <2>1, <2>2, <2>3, <2>4, <2>5, <2>6, <2>7, CalledFrame
    <2> QED
      BY <2>8 DEF tab
  <1>19. frames \in Seq(FrameRecs)
    BY <1>1 DEF BindTypes
  <1>20. /\ frames' \in Seq(FrameRecs) /\ Len(frames') = k /\ frames'[k] = g
         /\ \A j \in 1 .. k : j # k => frames'[j] = frames[j]
    BY <1>2, <1>3, <1>14, <1>19
  <1>21. ASSUME NEW j \in 1 .. k
         PROVE  FrameOK(frames'[j], table'[frames'[j].table], entry')
    <2>1. CASE j = k
      BY <1>3, <1>15, <1>18, <1>20, <2>1
    <2>2. CASE j # k
      <3>1. FrameOK(frames[j], table'[frames[j].table], entry')
        BY <1>1, <1>3, <1>16, FramesAgain
      <3> QED
        BY <1>20, <2>2, <3>1
    <2> QED
      BY <2>1, <2>2
  <1>22. Frames'
    BY <1>20, <1>21 DEF Frames
  <1>23. BindTypes' /\ Lists'
    BY <1>1, <1>3, <1>16, <1>20 DEF BindTypes, Lists
  <1>24. Pending'
    BY <1>1, <1>3, <1>16 DEF Pending
  <1> QED
    BY <1>22, <1>23, <1>24

\* u has the entries of l; only e may come ahead of others than before.
Reordered(l, u, e) ==
  /\ u \in Seq(Entries) /\ Distinct(u)
  /\ \A x : In(l, x) <=> In(u, x)
  /\ \A a, b : Ordered(l, a, b) /\ b # e => Ordered(u, a, b)

LEMMA GreatestBelow ==
  ASSUME NEW n \in Nat, NEW A \in SUBSET (1 .. n), A # {}
  PROVE  \E m \in A : \A j \in A : j <= m
  <1> DEFINE B == {k \in Nat : \E i \in A : k = n - i}
  <1>1. \A i \in A : i \in Nat /\ i <= n /\ n - i \in B
    OBVIOUS
  <1>2. B \in SUBSET Nat /\ B # {}
    BY <1>1
  <1> HIDE DEF B
  <1>3. PICK b \in B : \A j \in B : b <= j
    BY <1>2, LeastNat
  <1>4. PICK m \in A : b = n - m
    BY <1>3 DEF B
  <1>5. \A j \in A : n - m <= n - j
    BY <1>1, <1>3, <1>4
  <1> QED
    BY <1>1, <1>5

LEMMA MovedUpReorders ==
  ASSUME NEW t \in Tables, NEW e, NEW l \in Seq(Entries), l = table[t].list,
         Distinct(l), In(l, e)
  PROVE  Reordered(l, MovedUp(t, e), e)
  <1> DEFINE at == Position(l, e)
             ahead == {i \in 1 .. at - 1 :
                         ~ entry[l[i]].deleted /\ entry[l[i]].nhits >= entry[e].nhits}
             to == IF ahead = {} THEN 1 ELSE 1 + CHOOSE i \in ahead : \A j \in ahead : j <= i
  <1>1. at \in 1 .. Len(l) /\ l[at] = e
    BY PositionOf
  <1>2. MovedUp(t, e) = InsertAt(RemoveAt(l, at), to, e)
    BY DEF MovedUp
  <1> HIDE DEF at
  <1>3. at - 1 \in Nat /\ at \in Nat
    BY <1>1
  <1>4. to \in 1 .. at
    <2>1. CASE ahead = {}
      BY <1>3, <2>1, <1>1, SMTT(30)
    <2>2. CASE ahead # {}
      <3>1. ahead \in SUBSET (1 .. at - 1)
        OBVIOUS
      <3> HIDE DEF ahead
      <3>2. \E i \in ahead : \A j \in ahead : j <= i
        BY <1>3, <2>2, <3>1, GreatestBelow
      <3>3. (CHOOSE i \in ahead : \A j \in ahead : j <= i) \in 1 .. at - 1
        BY <3>1, <3>2
      <3> QED
        BY <1>3, <2>2, <3>3
    <2> QED
      BY <2>1, <2>2
  <1> HIDE DEF to, ahead
  <1> DEFINE u == InsertAt(RemoveAt(l, at), to, l[at])
  <1>5. /\ u \in Seq(Entries) /\ Distinct(u)
        /\ \A x : In(l, x) <=> In(u, x)
        /\ \A a, b : Ordered(l, a, b) /\ b # l[at] => Ordered(u, a, b)
    BY <1>1, <1>4, MovesUp
  <1> HIDE DEF u
  <1>6. Reordered(l, u, e)
    BY <1>1, <1>5 DEF Reordered
  <1> QED
    BY <1>1, <1>2, <1>6 DEF u

\* The check itself goes on with the next entry, which is still behind the
\* one that moved.
LEMMA ReturnedFrame ==
  ASSUME NEW f, NEW g, NEW tab, NEW tab2, NEW ent, FrameOK(f, tab, ent),
         NEW l \in Seq(Entries), l = tab.list, Distinct(l), Reordered(l, tab2.list, f.cur),
         f.cur # Nil, tab2.flags = tab.flags,
         g.at = "scan", g.cur = Nil, g.next = f.next, g.match = f.match,
         g.todo = f.todo, g.done = f.done, g.moved = f.moved
  PROVE  FrameOK(g, tab2, ent)
  <1>1. Held(g, tab2)
    BY DEF Held, FrameOK, Reordered
  <1>2. SUFFICES ASSUME ~ g.moved
                 PROVE  Progress(g, tab2.list, ent)
    BY <1>1 DEF FrameOK, Progress
  <1>3. /\ \A e \in f.todo : In(l, e) /\ ~ ent[e].deleted /\ ent[e].name \in f.match
        /\ f.next = Nil => f.todo = {}
        /\ f.next # Nil => /\ \A d \in f.done : Ordered(l, d, f.next)
                           /\ \A e \in f.todo : e = f.next \/ Ordered(l, f.next, e)
        /\ f.cur \in f.done
    BY <1>2 DEF FrameOK, Progress
  <1>4. ASSUME f.next # Nil
        PROVE  f.next # f.cur /\ \A e \in f.todo : e # f.cur
    <2>1. Ordered(l, f.cur, f.next)
      BY <1>3, <1>4
    <2>2. /\ Position(l, f.cur) \in 1 .. Len(l) /\ Position(l, f.next) \in 1 .. Len(l)
          /\ Position(l, f.cur) < Position(l, f.next)
      BY <2>1, BehindNext
    <2>3. f.next # f.cur
      BY <2>2
    <2>4. ASSUME NEW e \in f.todo PROVE e # f.cur
      <3>1. CASE e = f.next
        BY <2>3, <3>1
      <3>2. CASE Ordered(l, f.next, e)
        <4>1. Position(l, e) \in 1 .. Len(l) /\ Position(l, f.next) < Position(l, e)
          BY <3>2, BehindNext
        <4>2. Position(l, e) # Position(l, f.cur)
          BY <2>2, <4>1
        <4> QED
          BY <4>2
      <3> QED
        BY <1>3, <1>4, <3>1, <3>2
    <2> QED
      BY <2>3, <2>4
  <1>5. \A e \in g.todo : In(tab2.list, e) /\ ~ ent[e].deleted /\ ent[e].name \in g.match
    BY <1>3 DEF Reordered
  <1>6. g.next # Nil => /\ \A d \in g.done : Ordered(tab2.list, d, g.next)
                        /\ \A e \in g.todo : e = g.next \/ Ordered(tab2.list, g.next, e)
    BY <1>3, <1>4 DEF Reordered
  <1> QED
    BY <1>3, <1>5, <1>6 DEF Progress

LEMMA CallbackKeepsInv ==
  ASSUME BindInv, NEW break \in BOOLEAN, CallbackReturns(break)
  PROVE  /\ BindTypes' /\ Lists' /\ Frames' /\ Pending'
         /\ \A u \in Tables : /\ table'[u].flags = table[u].flags
                              /\ \A x : In(table[u].list, x) <=> In(table'[u].list, x)
  <1>1. BindTypes /\ Lists /\ Frames /\ Pending
    BY DEF BindInv
  <1> DEFINE k == Len(frames)
             f == frames[k]
             s == table[f.table].list
             l == IF Exact(f.table) THEN MovedUp(f.table, f.cur) ELSE s
             seen == [i \in DOMAIN frames |->
                        IF frames[i].table = f.table /\ i # k /\ l # s
                          THEN [frames[i] EXCEPT !.moved = TRUE, !.todo = {}, !.done = {}]
                          ELSE frames[i]]
             back == [seen EXCEPT ![k].at = "scan", ![k].cur = Nil]
  <1>2. frames # <<>> /\ Last(frames).at = "callback"
    BY DEF CallbackReturns, Callback
  <1>3. k \in Nat /\ k \in 1 .. k /\ Last(frames) = f
    BY <1>2, LastFrame
  <1>4. /\ table' = [table EXCEPT ![f.table].list = l]
        /\ frames' = Front(seen) \/ frames' = back
        /\ entry' = entry /\ garbage' = garbage
    BY <1>3 DEF CallbackReturns
  <1>5. f \in FrameRecs /\ f.table \in Tables /\ f.at = "callback"
    BY <1>1, <1>2, <1>3, FrameFields
  <1>6. s \in Seq(Entries) /\ Distinct(s)
    BY <1>1, <1>5, TableFields DEF Lists
  <1>7. FrameOK(f, table[f.table], entry) /\ f.cur # Nil /\ In(s, f.cur)
    BY <1>1, <1>3, <1>5 DEF Frames, FrameOK, Held
  <1>8. Reordered(s, l, f.cur)
    <2>1. Reordered(s, MovedUp(f.table, f.cur), f.cur)
      BY <1>5, <1>6, <1>7, MovedUpReorders
    <2>2. Reordered(s, s, f.cur)
      BY <1>6 DEF Reordered
    <2> QED
      BY <2>1, <2>2
  <1> HIDE DEF l
  <1>9. l \in Seq(Entries) /\ Distinct(l) /\ \A x : In(s, x) <=> In(l, x)
    BY <1>8 DEF Reordered
  <1>10. table \in [Tables -> TableRecs]
    BY <1>1 DEF BindTypes
  <1>11. /\ table' \in [Tables -> TableRecs]
         /\ table'[f.table].list = l /\ table'[f.table].flags = table[f.table].flags
         /\ \A u \in Tables : u # f.table => table'[u] = table[u]
    <2>1. ASSUME NEW t \in Tables, table' = [table EXCEPT ![t].list = l]
          PROVE  /\ table' \in [Tables -> TableRecs]
                 /\ table'[t].list = l /\ table'[t].flags = table[t].flags
                 /\ \A u \in Tables : u # t => table'[u] = table[u]
      BY <1>9, <1>10, <2>1 DEF TableRecs
    <2> QED
      BY <1>4, <1>5, <2>1
  <1>12. \A u \in Tables : /\ Distinct(table'[u].list)
                           /\ table'[u].flags = table[u].flags
                           /\ \A x : In(table[u].list, x) <=> In(table'[u].list, x)
    BY <1>1, <1>9, <1>11 DEF Lists
  <1>13. Lists'
    BY <1>1, <1>12 DEF Lists
  <1>14. Pending'
    BY <1>1, <1>4, <1>12 DEF Pending
  <1>15. l = s => table' = table
    <2> SUFFICES ASSUME l = s PROVE table' = table
      OBVIOUS
    <2> QED
      BY <1>4, <1>5, <1>10 DEF TableRecs
  <1>16. DOMAIN frames = 1 .. k
    BY <1>1 DEF BindTypes
  <1>17. ASSUME NEW i \in 1 .. k, i # k
         PROVE  /\ seen[i] \in FrameRecs
                /\ FrameOK(seen[i], table'[seen[i].table], entry')
    <2>1. /\ frames[i] \in FrameRecs /\ frames[i].table \in Tables
          /\ FrameOK(frames[i], table[frames[i].table], entry)
      BY <1>1, FrameFields DEF Frames
    <2>2. CASE frames[i].table = f.table /\ l # s
      <3> DEFINE h == [frames[i] EXCEPT !.moved = TRUE, !.todo = {}, !.done = {}]
      <3>1. seen[i] = h
        BY <1>16, <1>17, <2>2
      <3>2. h \in FrameRecs
        BY <2>1 DEF FrameRecs
      <3>3. /\ h.table = frames[i].table /\ h.cur = frames[i].cur /\ h.next = frames[i].next
            /\ h.at = frames[i].at /\ h.moved = TRUE
        BY <2>1 DEF FrameRecs
      <3> HIDE DEF h
      <3>4. Held(h, table'[h.table])
        BY <1>12, <2>1, <3>3 DEF FrameOK, Held
      <3>5. Progress(h, table'[h.table].list, entry')
        BY <3>3 DEF Progress
      <3> QED
        BY <3>1, <3>2, <3>4, <3>5 DEF FrameOK
    <2>3. CASE frames[i].table # f.table \/ l = s
      <3>1. seen[i] = frames[i]
        BY <1>16, <1>17, <2>3
      <3>2. table'[frames[i].table] = table[frames[i].table]
        BY <1>11, <1>15, <2>1, <2>3
      <3> QED
        BY <1>4, <2>1, <3>1, <3>2
    <2> QED
      BY <2>2, <2>3
  <1>18. seen[k] = f
    BY <1>3, <1>16
  <1>19. seen \in Seq(FrameRecs) /\ Len(seen) = k /\ seen # <<>>
    <2>1. \A i \in 1 .. k : seen[i] \in FrameRecs
      BY <1>5, <1>17, <1>18
    <2>2. seen \in [1 .. k -> FrameRecs]
      BY <1>16, <2>1
    <2> HIDE DEF seen
    <2> QED
      BY <1>3, <2>2
  <1> HIDE DEF seen
  <1>20. CASE frames' = Front(seen)
    <2>1. /\ frames' \in Seq(FrameRecs) /\ Len(frames') = k - 1
          /\ \A i \in 1 .. k - 1 : frames'[i] = seen[i]
      BY <1>19, <1>20, FrontOf
    <2>2. \A i \in 1 .. Len(frames') : i \in 1 .. k /\ i # k /\ frames'[i] = seen[i]
      BY <1>3, <2>1
    <2>3. Frames'
      BY <1>17, <2>2 DEF Frames
    <2>4. BindTypes'
      BY <1>1, <1>4, <1>11, <2>1 DEF BindTypes
    <2> QED
      BY <1>12, <1>13, <1>14, <2>3, <2>4
  <1>21. CASE frames' = back
    <2> DEFINE g == [f EXCEPT !.at = "scan", !.cur = Nil]
    <2>1. g \in FrameRecs
      BY <1>5 DEF FrameRecs
    <2>2. /\ g.at = "scan" /\ g.cur = Nil /\ g.next = f.next /\ g.match = f.match
          /\ g.todo = f.todo /\ g.done = f.done /\ g.moved = f.moved /\ g.table = f.table
      BY <1>5 DEF FrameRecs
    <2>3. frames' = [seen EXCEPT ![k] = g]
      BY <1>3, <1>5, <1>18, <1>19, <1>21 DEF FrameRecs
    <2> HIDE DEF g, f, s
    <2>4. FrameOK(g, table'[f.table], entry)
      <3> DEFINE tab == table[f.table]
                 tab2 == table'[f.table]
      <3>1. s = tab.list /\ Reordered(s, tab2.list, f.cur) /\ tab2.flags = tab.flags
        BY <1>8, <1>11 DEF s
      <3>2. FrameOK(f, tab, entry)
        BY <1>7
      <3> HIDE DEF tab, tab2
      <3>3. FrameOK(g, tab2, entry)
        BY <1>6, <1>7, <2>2, <3>1, <3>2, ReturnedFrame
      <3> QED
        BY <3>3 DEF tab2
    <2>5. /\ frames' \in Seq(FrameRecs) /\ Len(frames') = k /\ frames'[k] = g
          /\ \A i \in 1 .. k : i # k => frames'[i] = seen[i]
      BY <1>3, <1>19, <2>1, <2>3
    <2>6. ASSUME NEW i \in 1 .. k
          PROVE  FrameOK(frames'[i], table'[frames'[i].table], entry')
      <3>1. CASE i = k
        BY <1>4, <2>2, <2>4, <2>5, <3>1
      <3>2. CASE i # k
        BY <1>17, <2>5, <3>2
      <3> QED
        BY <3>1, <3>2
    <2>7. Frames'
      BY <2>5, <2>6 DEF Frames
    <2>8. BindTypes'
      BY <1>1, <1>4, <1>11, <2>5 DEF BindTypes
    <2> QED
      BY <1>12, <1>13, <1>14, <2>7, <2>8
  <1> QED
    BY <1>4, <1>20, <1>21

-----------------------------------------------------------------------------
(* The garbage run                                                         *)

LEMMA KeepsProperties ==
  ASSUME NEW S, NEW l \in Seq(S), NEW keep \in SUBSET (1 .. Len(l)), NEW new \in Seq(S),
         Keeps(l, keep, new)
  PROVE  /\ \A x : In(new, x) => \E p \in keep : l[p] = x
         /\ \A p \in keep : In(new, l[p])
         /\ Distinct(l) => Distinct(new)
  <1>1. DOMAIN new = 1 .. Len(new) /\ Len(new) \in Nat
    OBVIOUS
  <1>2. PICK f \in [1 .. Len(new) -> keep] :
          /\ \A i, j \in 1 .. Len(new) : i < j => f[i] < f[j]
          /\ \A p \in keep : \E i \in 1 .. Len(new) : f[i] = p
          /\ \A i \in 1 .. Len(new) : new[i] = l[f[i]]
    BY <1>1, ZenonT(40) DEF Keeps
  <1>3. \A i \in 1 .. Len(new) : f[i] \in keep /\ f[i] \in 1 .. Len(l)
    BY <1>2
  <1>4. \A x : In(new, x) => \E p \in keep : l[p] = x
    BY <1>2, <1>3 DEF In
  <1>5. \A p \in keep : In(new, l[p])
    BY <1>2 DEF In
  <1>6. ASSUME Distinct(l), NEW i \in 1 .. Len(new), NEW j \in 1 .. Len(new), new[i] = new[j]
        PROVE  i = j
    <2>0. f[i] \in 1 .. Len(l) /\ f[j] \in 1 .. Len(l) /\ l[f[i]] = l[f[j]]
      BY <1>2, <1>3, <1>6
    <2>1. f[i] = f[j] /\ f[i] \in Nat
      BY <1>6, <2>0 DEF Distinct
    <2>2. ~ i < j /\ ~ j < i
      BY <1>2, <2>1
    <2> QED
      BY <2>2
  <1>7. Distinct(l) => Distinct(new)
    BY <1>6 DEF Distinct
  <1> QED
    BY <1>4, <1>5, <1>7

LEMMA LeftIs ==
  ASSUME BindTypes, NEW e \in Entries, NEW gone \in SUBSET Modules
  PROVE  /\ Left(e, gone) \in EntryRecs
         /\ Left(e, gone).deleted = entry[e].deleted /\ Left(e, gone).owner = entry[e].owner
         /\ Left(e, gone).code = IF entry[e].code \in gone THEN Gone(entry[e].code)
                                 ELSE entry[e].code
  <1>1. entry[e] \in EntryRecs
    BY EntryFields
  <1>2. entry[e].code \in gone => Gone(entry[e].code) \in Pointers
    BY DEF Pointers
  <1> QED
    BY <1>1, <1>2 DEF Left, EntryRecs

\* What is left after a cleanup: the entries that were not freed, as they were.
LEMMA CleanupLeaves ==
  ASSUME BindTypes, Lists, NEW gone \in SUBSET Modules, internal_bind_cleanup(gone)
  PROVE  /\ table' \in [Tables -> TableRecs] /\ entry' \in [Entries -> EntryRecs]
         /\ Lists'
         /\ \A t \in Tables : table'[t].flags # "deleted"
         /\ \A t \in Tables, e \in Entries : In(table'[t].list, e) =>
              /\ In(table[t].list, e) /\ ~ Freed(t, e, gone)
              /\ entry'[e] = Left(e, gone)
  <1>1. PICK left \in [Tables -> BoundedSeq(Entries, Cardinality(Entries))] :
          /\ \A t \in Tables : LET l == table[t].list
                              IN  Keeps(l, {i \in DOMAIN l : ~ Freed(t, l[i], gone)}, left[t])
          /\ table' = [t \in Tables |->
                         IF table[t].flags = "deleted" THEN [flags |-> "none", list |-> <<>>]
                         ELSE [table[t] EXCEPT !.list = left[t]]]
    BY DEF internal_bind_cleanup
  <1>2. entry' = [e \in Entries |->
                    IF \E t \in Tables : e \in Linked(t) /\ Freed(t, e, gone)
                      THEN Free ELSE Left(e, gone)]
    BY DEF internal_bind_cleanup
  <1>3. table \in [Tables -> TableRecs] /\ entry \in [Entries -> EntryRecs]
    BY DEF BindTypes
  <1>4. ASSUME NEW t \in Tables
        PROVE  /\ left[t] \in Seq(Entries) /\ Distinct(left[t])
               /\ \A e : In(left[t], e) => In(table[t].list, e) /\ ~ Freed(t, e, gone)
    <2> DEFINE l == table[t].list
               keep == {i \in 1 .. Len(l) : ~ Freed(t, l[i], gone)}
    <2>1. l \in Seq(Entries) /\ Distinct(l) /\ DOMAIN l = 1 .. Len(l)
      BY TableFields DEF Lists
    <2>2. left[t] \in Seq(Entries)
      <3>1. left[t] \in BoundedSeq(Entries, Cardinality(Entries))
        BY <1>1
      <3> QED
        BY <3>1 DEF BoundedSeq, SeqOf
    <2>3. Keeps(l, keep, left[t])
      BY <1>1, <2>1
    <2>4. keep \in SUBSET (1 .. Len(l))
      OBVIOUS
    <2>5. \A p \in keep : p \in 1 .. Len(l) /\ ~ Freed(t, l[p], gone)
      OBVIOUS
    <2> DEFINE new == left[t]
    <2>a. new \in Seq(Entries) /\ Keeps(l, keep, new)
      BY <2>2, <2>3
    <2> HIDE DEF l, keep, new
    <2>6. /\ \A x : In(new, x) => \E p \in keep : l[p] = x
          /\ Distinct(l) => Distinct(new)
      BY <2>1, <2>4, <2>a, KeepsProperties, SMTT(60)
    <2>7. \A e : In(new, e) => In(l, e) /\ ~ Freed(t, e, gone)
      BY <2>5, <2>6 DEF In
    <2> QED
      BY <2>1, <2>6, <2>7, <2>a DEF l, new
  <1>5. ASSUME NEW t \in Tables
        PROVE  /\ table'[t] \in TableRecs /\ table'[t].flags # "deleted"
               /\ Distinct(table'[t].list)
               /\ \A e : In(table'[t].list, e) => In(table[t].list, e) /\ ~ Freed(t, e, gone)
    <2>1. CASE table[t].flags = "deleted"
      <3>1. table'[t] = [flags |-> "none", list |-> <<>>]
        BY <1>1, <2>1
      <3>2. table'[t] \in TableRecs /\ table'[t].flags = "none" /\ table'[t].list = <<>>
        BY <3>1 DEF TableRecs
      <3>3. \A e : ~ In(<<>>, e)
        BY DEF In
      <3>4. Distinct(<<>>)
        BY DEF Distinct
      <3> QED
        BY <3>2, <3>3, <3>4
    <2>2. CASE table[t].flags # "deleted"
      <3>1. table'[t] = [table[t] EXCEPT !.list = left[t]]
        BY <1>1, <2>2
      <3>2. table'[t] \in TableRecs /\ table'[t].flags = table[t].flags
            /\ table'[t].list = left[t]
        BY <1>3, <1>4, <3>1 DEF TableRecs
      <3> QED
        BY <1>4, <2>2, <3>2
    <2> QED
      BY <2>1, <2>2
  <1>6. table' \in [Tables -> TableRecs]
    BY <1>1, <1>5
  <1>7. Free \in EntryRecs
    BY BindBoundsAssumption DEF Free, EntryRecs, Pointers
  <1>8. entry' \in [Entries -> EntryRecs]
    <2>1. \A e \in Entries : Left(e, gone) \in EntryRecs
      BY LeftIs
    <2> QED
      BY <1>2, <1>7, <2>1
  <1>9. Lists'
    BY <1>5 DEF Lists
  <1>10. ASSUME NEW t \in Tables, NEW e \in Entries, In(table'[t].list, e)
         PROVE  entry'[e] = Left(e, gone)
    <2>1. In(table[t].list, e) /\ ~ Freed(t, e, gone)
      BY <1>5, <1>10
    <2>2. \A u \in Tables : e \in Linked(u) => u = t
      BY <2>1, LinkedIn DEF Lists
    <2>3. ~ \E u \in Tables : e \in Linked(u) /\ Freed(u, e, gone)
      BY <2>1, <2>2
    <2> QED
      BY <1>2, <2>3
  <1> QED
    BY <1>5, <1>6, <1>8, <1>9, <1>10

LEMMA CleanupKeepsInv ==
  ASSUME BindInv, NEW gone \in SUBSET Modules, internal_bind_cleanup(gone), frames = <<>>, frames' = frames,
         garbage' \in Seq({"binds", "modules"})
  PROVE  BindTypes' /\ Lists' /\ Frames' /\ Pending'
  <1>1. BindTypes /\ Lists
    BY DEF BindInv
  <1>2. /\ table' \in [Tables -> TableRecs] /\ entry' \in [Entries -> EntryRecs]
        /\ Lists'
        /\ \A t \in Tables : table'[t].flags # "deleted"
        /\ \A t \in Tables, e \in Entries : In(table'[t].list, e) =>
             ~ Freed(t, e, gone) /\ entry'[e] = Left(e, gone)
    BY <1>1, CleanupLeaves
  <1>3. BindTypes'
    BY <1>1, <1>2 DEF BindTypes
  <1>4. Frames'
    BY DEF Frames
  <1>5. Pending'
    <2>1. \A e \in Entries : Left(e, gone).deleted = entry[e].deleted
      BY <1>1, LeftIs
    <2> QED
      BY <1>2, <2>1 DEF Pending, Freed
  <1> QED
    BY <1>2, <1>3, <1>4, <1>5

LEMMA GarbageKeepsInv ==
  ASSUME BindInv, garbage_run, closed \in Seq(Modules)
  PROVE  BindTypes' /\ Lists' /\ Frames' /\ Pending'
  <1>1. frames = <<>> /\ frames' = frames
    BY DEF BindInv, Phases, garbage_run
  <1>2. garbage \in Seq({"binds", "modules"}) /\ garbage # <<>>
    BY DEF BindInv, BindTypes, garbage_run
  <1>3. Tail(garbage) \in Seq({"binds", "modules"})
    BY <1>2
  <1>4. garbage' \in Seq({"binds", "modules"})
    BY <1>2, <1>3 DEF garbage_run
  <1>5. \E gone \in SUBSET Modules : internal_bind_cleanup(gone)
    <2>1. {} \in SUBSET Modules /\ (closed # <<>> => {Head(closed)} \in SUBSET Modules)
      OBVIOUS
    <2> QED
      BY <2>1 DEF garbage_run, module_really_unload, kill_binds_by_owner
  <1> QED
    BY <1>1, <1>4, <1>5, CleanupKeepsInv

-----------------------------------------------------------------------------
(* The list of active modules                                              *)

ModuleTypes ==
  /\ head \in Modules \cup {Nil}
  /\ next \in [Modules -> Modules \cup {Nil}]
  /\ prev \in [Modules -> Modules \cup {Nil}]
  /\ mapped \subseteq Modules /\ closed \in Seq(Modules)

\* h[0], ..., h[n] is what a walk of n steps along the list meets.
Walk(h, n) ==
  h = [k \in 0 .. n |-> IF k = 0 THEN head ELSE IF h[k - 1] = Nil THEN Nil ELSE next[h[k - 1]]]

LEMMA WalkExists ==
  ASSUME NEW n \in Nat
  PROVE  \E h : Walk(h, n)
  <1> DEFINE A == {k \in Nat : ~ \E h : Walk(h, k)}
  <1> SUFFICES ASSUME n \in A PROVE FALSE
    OBVIOUS
  <1>1. A \in SUBSET Nat /\ A # {}
    OBVIOUS
  <1> HIDE DEF A
  <1>2. PICK m \in A : \A k \in A : m <= k
    BY <1>1, LeastNat
  <1>3. m \in Nat /\ ~ \E h : Walk(h, m)
    BY <1>2 DEF A
  <1>4. CASE m = 0
    <2> DEFINE h == [k \in 0 .. 0 |-> head]
    <2>1. Walk(h, 0)
      BY DEF Walk
    <2> QED
      BY <1>3, <1>4, <2>1
  <1>5. CASE m # 0
    <2>1. m - 1 \in Nat /\ m - 1 \notin A
      BY <1>2, <1>3, <1>5
    <2>2. PICK g : Walk(g, m - 1)
      BY <2>1 DEF A
    <2> DEFINE h == [k \in 0 .. m |-> IF k = m THEN IF g[m - 1] = Nil THEN Nil ELSE next[g[m - 1]]
                                      ELSE g[k]]
    <2>3. \A k \in 0 .. m - 1 :
            g[k] = IF k = 0 THEN head ELSE IF g[k - 1] = Nil THEN Nil ELSE next[g[k - 1]]
      BY <2>2 DEF Walk
    <2>4. \A k \in 0 .. m : k # m => h[k] = g[k] /\ k \in 0 .. m - 1
      BY <1>3
    <2>5. h[m] = IF g[m - 1] = Nil THEN Nil ELSE next[g[m - 1]]
      BY <1>3
    <2>6. h = [k \in 0 .. m |-> h[k]]
      OBVIOUS
    <2> HIDE DEF h
    <2>7. ASSUME NEW k \in 0 .. m
          PROVE  h[k] = IF k = 0 THEN head ELSE IF h[k - 1] = Nil THEN Nil ELSE next[h[k - 1]]
      <3>1. CASE k = 0
        BY <1>3, <1>5, <2>3, <2>4, <3>1
      <3>2. CASE k # 0
        <4>1. k - 1 \in 0 .. m /\ k - 1 # m
          BY <1>3, <3>2
        <4>2. h[k - 1] = g[k - 1]
          BY <2>4, <4>1
        <4>3. CASE k = m
          BY <2>5, <3>2, <4>2, <4>3
        <4>4. CASE k # m
          BY <2>3, <2>4, <3>2, <4>2, <4>4
        <4> QED
          BY <4>3, <4>4
      <3> QED
        BY <3>1, <3>2
    <2>8. Walk(h, m)
      BY <2>6, <2>7 DEF Walk
    <2> QED
      BY <1>3, <2>8
  <1> QED
    BY <1>4, <1>5

LEMMA ActiveWalk ==
  /\ Cardinality(Modules) \in Nat
  /\ \E h : /\ Walk(h, Cardinality(Modules))
            /\ \A x : x \in Active <=> x # Nil /\ \E k \in 0 .. Cardinality(Modules) : h[k] = x
  <1> DEFINE n == Cardinality(Modules)
             nth == CHOOSE h : h = [k \in 0 .. n |-> IF k = 0 THEN head
                                       ELSE IF h[k - 1] = Nil THEN Nil ELSE next[h[k - 1]]]
  <1>1. n \in Nat
    BY FiniteAssumption, FS_CardinalityType
  <1>2. Active = {nth[k] : k \in DOMAIN nth} \ {Nil}
    BY DEF Active
  <1> HIDE DEF n
  <1>3. \E h : Walk(h, n)
    BY <1>1, WalkExists
  <1>4. Walk(nth, n)
    BY <1>3 DEF Walk
  <1> HIDE DEF nth
  <1>5. DOMAIN nth = 0 .. n
    BY <1>4 DEF Walk
  <1>6. \A x : x \in Active <=> x # Nil /\ \E k \in 0 .. n : nth[k] = x
    BY <1>2, <1>5
  <1> QED
    BY <1>1, <1>4, <1>6 DEF n

LEMMA ActiveModules ==
  ASSUME ModuleTypes
  PROVE  Active \subseteq Modules
  <1> DEFINE n == Cardinality(Modules)
  <1>1. n \in Nat
    BY ActiveWalk
  <1>2. PICK h : /\ Walk(h, n)
                 /\ \A x : x \in Active <=> x # Nil /\ \E k \in 0 .. n : h[k] = x
    BY ActiveWalk
  <1> HIDE DEF n
  <1>3. /\ h[0] = head
        /\ \A k \in 0 .. n : k # 0 => h[k] = IF h[k - 1] = Nil THEN Nil ELSE next[h[k - 1]]
    <2>1. \A k \in 0 .. n :
            h[k] = IF k = 0 THEN head ELSE IF h[k - 1] = Nil THEN Nil ELSE next[h[k - 1]]
      BY <1>2 DEF Walk
    <2> QED
      BY <1>1, <2>1
  <1> DEFINE A == {k \in 0 .. n : h[k] \notin Modules \cup {Nil}}
  <1>4. ASSUME A # {} PROVE FALSE
    <2>1. A \in SUBSET Nat
      BY <1>1
    <2> HIDE DEF A
    <2>2. PICK m \in A : \A k \in A : m <= k
      BY <1>4, <2>1, LeastNat
    <2>3. m \in 0 .. n /\ h[m] \notin Modules \cup {Nil}
      BY <2>2 DEF A
    <2>4. m # 0
      BY <1>3, <2>3 DEF ModuleTypes
    <2>5. m - 1 \in 0 .. n /\ m - 1 \notin A
      BY <1>1, <2>2, <2>3, <2>4
    <2>6. h[m - 1] \in Modules \cup {Nil}
      BY <2>5 DEF A
    <2> QED
      BY <1>3, <2>3, <2>4, <2>6 DEF ModuleTypes
  <1> QED
    BY <1>2, <1>4

-----------------------------------------------------------------------------
(* The binds of any program                                                *)

LEMMA BindInvInit ==
  ASSUME Init
  PROVE  BindInv /\ ModuleTypes
  <1> DEFINE core == Tables \ UNION {TableOf[m] : m \in Modules}
  <1>1. /\ table = [t \in Tables |-> [flags |-> IF t \in core THEN "real" ELSE "none", list |-> <<>>]]
        /\ entry = [e \in Entries |-> Free] /\ frames = <<>> /\ garbage = <<>> /\ phase = "main"
    BY DEF Init, BindInit
  <1> HIDE DEF core
  <1>2. Free \in EntryRecs
    BY BindBoundsAssumption DEF Free, EntryRecs, Pointers
  <1>3. /\ table \in [Tables -> TableRecs]
        /\ \A t \in Tables : table[t].list = <<>> /\ table[t].flags # "deleted"
    BY <1>1 DEF TableRecs
  <1>4. BindTypes
    BY <1>1, <1>2, <1>3 DEF BindTypes
  <1>5. (\A e : ~ In(<<>>, e)) /\ Distinct(<<>>)
    BY DEF In, Distinct
  <1>6. Lists /\ Pending
    BY <1>3, <1>5 DEF Lists, Pending
  <1>7. Frames /\ Phases
    BY <1>1 DEF Frames, Phases
  <1>8. ModuleTypes
    BY DEF Init, ModuleTypes
  <1> QED
    BY <1>4, <1>6, <1>7, <1>8 DEF BindInv

LEMMA ModuleTypesStep ==
  ASSUME ModuleTypes, [Next]_vars
  PROVE  ModuleTypes'
  <1>1. ASSUME NEW m \in Modules, module_load(m)
        PROVE  ModuleTypes'
    BY <1>1 DEF module_load, ModuleTypes
  <1>2. ASSUME NEW m \in Modules, module_unload(m)
        PROVE  ModuleTypes'
    <2>1. prev[m] \in Modules \cup {Nil} /\ next[m] \in Modules \cup {Nil}
      BY DEF ModuleTypes
    <2>2. closed' \in Seq(Modules)
      BY <1>2 DEF module_unload, ModuleTypes
    <2> QED
      BY <1>2, <2>1, <2>2 DEF module_unload, Unlink, ModuleTypes
  <1>3. CASE \/ Binding \/ Check \/ BeginGarbageRun
             \/ Checking /\ UNCHANGED <<moduleVars, phase>>
             \/ CallUnmapped /\ phase' = "undefined" /\ UNCHANGED moduleVars
             \/ UNCHANGED vars
    <2>1. UNCHANGED moduleVars
      BY <1>3 DEF Binding, Check, BeginGarbageRun, moduleVars, vars
    <2> QED
      BY <2>1 DEF ModuleTypes, moduleVars
  <1>4. CASE garbage_run
    <2>1. head' = head /\ next' = next /\ prev' = prev
      BY <1>4 DEF garbage_run
    <2>2. mapped' \subseteq Modules /\ closed' \in Seq(Modules)
      BY <1>4 DEF garbage_run, module_really_unload, ModuleTypes
    <2> QED
      BY <2>1, <2>2 DEF ModuleTypes
  <1> QED
    BY <1>1, <1>2, <1>3, <1>4 DEF Next

\* Modules and scripts only do what keeps the binds in order.
LEMMA BindingKeepsInv ==
  ASSUME BindInv, ModuleTypes, Binding
  PROVE  BindTypes' /\ Lists' /\ Frames' /\ Pending'
  <1>1. PICK t \in Tables, n \in Names :
          \/ \E c \in mapped \ ToSet(closed) : bind_add_simple(t, n, c) \/ bind_entry_del(t, n, c)
          \/ \E m \in ScriptModules \cap mapped : script_bind(t, n, m)
          \/ bind_entry_del(t, n, Nil)
          \/ \E new \in Names \ {n} : bind_entry_modify(t, n, new)
    BY DEF Binding
  <1>2. ASSUME NEW c \in mapped, bind_add_simple(t, n, c)
        PROVE  BindTypes' /\ Lists' /\ Frames' /\ Pending'
    <2> DEFINE flags == IF Exists(t) THEN table[t].flags ELSE "fake"
    <2>1. c \in Modules
      BY DEF ModuleTypes
    <2>2. flags \in {table[t].flags, "fake"} /\ flags # "none"
      BY DEF Exists
    <2>3. bind_entry_add(t, flags, n, c, Nil)
      BY <1>2 DEF bind_add_simple
    <2> HIDE DEF flags
    <2> QED
      BY <2>1, <2>2, <2>3, AddKeepsInv
  <1>3. ASSUME NEW m \in ScriptModules \cap mapped, script_bind(t, n, m)
        PROVE  BindTypes' /\ Lists' /\ Frames' /\ Pending'
    <2> DEFINE flags == table[t].flags
    <2>1. m \in Modules
      BY ModuleAssumption
    <2>2. flags \in {table[t].flags, "fake"} /\ flags # "none" /\ bind_entry_add(t, flags, n, m, m)
      BY <1>3 DEF script_bind
    <2> HIDE DEF flags
    <2> QED
      BY <2>1, <2>2, AddKeepsInv
  <1>4. ASSUME NEW c, bind_entry_del(t, n, c)
        PROVE  BindTypes' /\ Lists' /\ Frames' /\ Pending'
    BY <1>4, DelKeepsInv
  <1>5. ASSUME NEW new \in Names, bind_entry_modify(t, n, new)
        PROVE  BindTypes' /\ Lists' /\ Frames' /\ Pending'
    BY <1>5, ModifyKeepsInv
  <1> QED
    BY <1>1, <1>2, <1>3, <1>4, <1>5

LEMMA BindInvStep ==
  ASSUME BindInv, ModuleTypes, [Next]_vars
  PROVE  BindInv'
  <1>1. ASSUME NEW m \in Modules, module_load(m)
        PROVE  BindInv'
    <2>1. Phases'
      BY <1>1 DEF module_load, Client, Phases
    <2> QED
      BY <1>1, <2>1, LoadKeepsInv DEF BindInv
  <1>2. ASSUME NEW m \in Modules, module_unload(m)
        PROVE  BindInv'
    <2>1. Phases'
      BY <1>2 DEF module_unload, Client, Phases
    <2> QED
      BY <1>2, <2>1, UnloadKeepsInv DEF BindInv
  <1>3. CASE Binding
    <2>1. Phases'
      BY <1>3 DEF Binding, Client, Phases
    <2> QED
      BY <1>3, <2>1, BindingKeepsInv DEF BindInv
  <1>4. CASE Check
    <2>1. Phases'
      BY <1>4 DEF Check, Client, Phases
    <2>2. BindTypes' /\ Lists' /\ Frames' /\ Pending'
      BY <1>4, CheckKeepsInv DEF Check
    <2> QED
      BY <2>1, <2>2 DEF BindInv
  <1>5. CASE Checking /\ UNCHANGED <<moduleVars, phase>>
    <2>1. Phases'
      <3>1. frames # <<>>
        BY <1>5 DEF Checking, CallNext, CheckReturns, CallbackReturns, Callback
      <3> QED
        BY <1>5, <3>1 DEF BindInv, Phases
    <2>2. BindTypes' /\ Lists' /\ Frames' /\ Pending'
      BY <1>5, CallKeepsInv, ReturnKeepsInv, CallbackKeepsInv DEF Checking
    <2> QED
      BY <2>1, <2>2 DEF BindInv
  <1>6. CASE BeginGarbageRun
    <2>1. Phases' /\ UNCHANGED bindVars
      BY <1>6 DEF BeginGarbageRun, Phases, bindVars
    <2>2. BindTypes' /\ Lists' /\ Frames' /\ Pending'
      BY <2>1 DEF BindInv, BindTypes, Lists, Frames, Pending, bindVars
    <2> QED
      BY <2>1, <2>2 DEF BindInv
  <1>7. CASE garbage_run
    <2>1. Phases'
      BY <1>7 DEF BindInv, garbage_run, Phases
    <2> QED
      BY <1>7, <2>1, GarbageKeepsInv DEF BindInv, ModuleTypes
  <1>9. CASE CallUnmapped /\ phase' = "undefined" /\ UNCHANGED moduleVars
    <2>1. Phases' /\ UNCHANGED bindVars
      BY <1>9 DEF CallUnmapped, Phases
    <2>2. BindTypes' /\ Lists' /\ Frames' /\ Pending'
      BY <2>1 DEF BindInv, BindTypes, Lists, Frames, Pending, bindVars
    <2> QED
      BY <2>1, <2>2 DEF BindInv
  <1>8. CASE UNCHANGED vars
    BY <1>8 DEF BindInv, BindTypes, Lists, Frames, Pending, Phases, vars, bindVars
  <1> QED
    BY <1>1, <1>2, <1>3, <1>4, <1>5, <1>6, <1>7, <1>8, <1>9 DEF Next

LEMMA BindInvAlways ==
  Spec => [](BindInv /\ ModuleTypes)
  <1>1. Init => BindInv /\ ModuleTypes
    BY BindInvInit
  <1>2. BindInv /\ ModuleTypes /\ [Next]_vars => (BindInv /\ ModuleTypes)'
    BY BindInvStep, ModuleTypesStep
  <1> QED
    BY <1>1, <1>2, PTL DEF Spec

\* Whatever callbacks do while a check of a table is under way (bind_entry_del,
\* bind_table_del, module_unload, further checks), the table, the entry being
\* called and the next one stay until the check is over; what was marked as
\* deleted is on garbage.c's list.
THEOREM DeletionIsDeferred == Spec => []DeletionDeferred
  <1>1. BindInv /\ ModuleTypes => DeletionDeferred
    <2> SUFFICES ASSUME BindInv PROVE DeletionDeferred
      OBVIOUS
    <2>1. BindTypes /\ Frames /\ Pending
      BY DEF BindInv
    <2>2. ASSUME NEW f \in ToSet(frames)
          PROVE  Exists(f.table) /\ {f.cur, f.next} \subseteq Linked(f.table) \cup {Nil}
      <3>1. PICK i \in 1 .. Len(frames) : f = frames[i]
        BY <2>1 DEF BindTypes, ToSet
      <3>2. f.table \in Tables
        BY <2>1, <3>1, FrameFields
      <3>3. Held(f, table[f.table])
        BY <2>1, <3>1 DEF Frames, FrameOK
      <3>4. \A e : In(table[f.table].list, e) => e \in Linked(f.table)
        BY <2>1, <3>2, LinkedIn
      <3> QED
        BY <3>3, <3>4 DEF Held, Exists
    <2>3. \/ "binds" \in ToSet(garbage)
          \/ \A t \in Tables : /\ table[t].flags # "deleted"
                               /\ \A e \in Linked(t) : ~ entry[e].deleted
      <3>1. CASE In(garbage, "binds")
        BY <2>1, <3>1, InToSet DEF BindTypes
      <3>2. CASE \A t \in Tables : /\ table[t].flags # "deleted"
                                   /\ \A e \in Entries : In(table[t].list, e) => ~ entry[e].deleted
        <4>1. \A t \in Tables : \A e \in Linked(t) : e \in Entries /\ In(table[t].list, e)
          BY <2>1, TableFields, LinkedIn DEF In
        <4> QED
          BY <3>2, <4>1
      <3> QED
        BY <2>1, <3>1, <3>2 DEF Pending
    <2> QED
      BY <2>2, <2>3 DEF DeletionDeferred
  <1> QED
    BY <1>1, BindInvAlways, PTL

\* bind_vcheck_hits calls each entry that matched when it began once, unless it
\* is deleted or renamed, although callbacks add and delete entries and
\* bind_entry_exec moves the entry called up the list.
THEOREM EveryEntryOnce == Spec => []EachOnce
  <1>1. BindInv /\ ModuleTypes => EachOnce
    <2> SUFFICES ASSUME BindInv, NEW f \in ToSet(frames), ~ f.moved
                 PROVE  NextHit(f) \notin f.done /\ (NextHit(f) = Nil => f.todo = {})
      BY DEF EachOnce
    <2>1. BindTypes /\ Frames /\ Lists
      BY DEF BindInv
    <2>2. PICK k \in 1 .. Len(frames) : f = frames[k]
      BY <2>1 DEF BindTypes, ToSet
    <2>3. f.table \in Tables /\ f.done \in SUBSET Entries
      BY <2>1, <2>2, FrameFields
    <2> DEFINE l == table[f.table].list
               p == Position(l, f.next)
    <2>4. l \in Seq(Entries) /\ Distinct(l)
      BY <2>1, <2>3, TableFields DEF Lists
    <2>5. FrameOK(f, table[f.table], entry)
      BY <2>1, <2>2 DEF Frames
    <2>6. f.next # Nil => In(l, f.next)
      BY <2>5 DEF FrameOK, Held
    <2>7. /\ \A e \in f.todo : In(l, e) /\ ~ entry[e].deleted /\ entry[e].name \in f.match
          /\ f.next = Nil => f.todo = {}
          /\ f.next # Nil => /\ \A d \in f.done : Ordered(l, d, f.next)
                             /\ \A e \in f.todo : e = f.next \/ Ordered(l, f.next, e)
      BY <2>5 DEF FrameOK, Progress
    <2>8. CASE /\ NextHit(f) = Nil
               /\ f.next # Nil => \A j \in 1 .. Len(l) : j >= p => ~ Matches(f, l[j])
      <3>1. Nil \notin f.done
        BY <2>3, NilAssumption
      <3>2. ASSUME NEW e \in f.todo PROVE FALSE
        <4>1. f.next # Nil
          BY <2>7, <3>2
        <4>2. PICK j \in 1 .. Len(l) : l[j] = e /\ j >= p
          <5>1. p \in 1 .. Len(l) /\ l[p] = f.next
            BY <2>4, <2>6, <4>1, PositionOf
          <5>2. CASE e = f.next
            BY <5>1, <5>2
          <5>3. CASE Ordered(l, f.next, e)
            <6>1. /\ Position(l, e) \in 1 .. Len(l) /\ l[Position(l, e)] = e
                  /\ Position(l, f.next) < Position(l, e)
              BY <2>4, <5>3, BehindNext
            <6> QED
              BY <5>1, <6>1
          <5> QED
            BY <2>7, <4>1, <5>2, <5>3
        <4> QED
          BY <2>7, <2>8, <4>1, <4>2 DEF Matches
      <3> QED
        BY <2>8, <3>1, <3>2
    <2>9. CASE /\ f.next # Nil
               /\ \E i \in 1 .. Len(l) :
                    NextHit(f) = l[i] /\ First(i, p, {j \in 1 .. Len(l) : Matches(f, l[j])})
      <3>1. PICK i \in 1 .. Len(l) : NextHit(f) = l[i] /\ i >= p
        BY <2>9 DEF First
      <3>2. l[i] # Nil
        BY <2>4, NilAssumption
      <3>3. ASSUME l[i] \in f.done PROVE FALSE
        <4>1. Ordered(l, l[i], f.next)
          BY <2>7, <2>9, <3>3
        <4>2. Position(l, l[i]) < p /\ p \in 1 .. Len(l)
          BY <2>4, <4>1, BehindNext
        <4>3. Position(l, l[i]) = i
          BY <2>4, PositionIs
        <4> QED
          BY <3>1, <4>2, <4>3
      <3> QED
        BY <3>1, <3>2, <3>3
    <2>10. \/ /\ NextHit(f) = Nil
              /\ f.next # Nil => \A j \in 1 .. Len(l) : j >= p => ~ Matches(f, l[j])
           \/ /\ f.next # Nil
              /\ \E i \in 1 .. Len(l) :
                   NextHit(f) = l[i] /\ First(i, p, {j \in 1 .. Len(l) : Matches(f, l[j])})
      BY <2>4, <2>6, NextHitIs
    <2> QED
      BY <2>8, <2>9, <2>10
  <1> QED
    BY <1>1, BindInvAlways, PTL

-----------------------------------------------------------------------------
(* The invariant of the modules                                            *)

\* The list of active modules is s.
Chain(s) ==
  /\ head = IF Len(s) = 0 THEN Nil ELSE s[1]
  /\ \A k \in 1 .. Len(s) : next[s[k]] = IF k = Len(s) THEN Nil ELSE s[k + 1]

Loaded(m) == m \in mapped /\ ~ In(closed, m)

\* It holds modules that are loaded, those the history names.
ActiveList ==
  /\ loaded \in Seq(Modules) /\ Distinct(loaded) /\ Chain(loaded)
  /\ \A m : In(loaded, m) => Loaded(m)

Closing ==
  /\ mapped \subseteq Modules
  /\ closed \in Seq(Modules) /\ Distinct(closed)
  /\ \A m : In(closed, m) => m \in mapped
  /\ Distinct(garbage)
  /\ In(garbage, "modules") <=> Len(closed) # 0

\* What a forgetful module leaves behind.
Forgotten(ent) == ent.owner = Nil /\ ent.code \in {Gone(m) : m \in Forgetful}

\* The code of an entry is there, and stays if nothing will remove the entry.
CodeOK(flags, ent) ==
  /\ Forgotten(ent) \/ (ent.code \in mapped /\ ent.owner \in {Nil, ent.code})
  /\ ~ ent.deleted /\ flags # "deleted" /\ ent.owner = Nil /\ ent.code \notin Forgetful =>
       ~ In(closed, ent.code)

Codes ==
  \A t \in Tables, e \in Entries : In(table[t].list, e) => CodeOK(table[t].flags, entry[e])

ModInv ==
  /\ Closing
  /\ \A m \in Modules : prev[m] = Nil
  /\ ActiveList
  /\ Codes

\* A list of different modules is not longer than there are modules.
LEMMA DistinctLength ==
  ASSUME NEW s \in Seq(Modules), Distinct(s)
  PROVE  Len(s) \in Nat /\ Len(s) <= Cardinality(Modules)
  <1>1. Len(s) \in Nat /\ s \in [1 .. Len(s) -> Modules]
    OBVIOUS
  <1>2. s \in Injection(1 .. Len(s), Modules)
    BY <1>1 DEF Injection, IsInjective, Distinct
  <1>3. Cardinality(1 .. Len(s)) <= Cardinality(Modules)
    BY <1>2, FiniteAssumption, FS_Injection
  <1>4. Cardinality(1 .. Len(s)) = IF 1 > Len(s) THEN 0 ELSE Len(s) - 1 + 1
    BY <1>1, FS_Interval
  <1>5. Cardinality(1 .. Len(s)) = Len(s)
    BY <1>1, <1>4
  <1> QED
    BY <1>1, <1>3, <1>5

LEMMA ActiveIs ==
  ASSUME NEW s \in Seq(Modules), Distinct(s), Chain(s)
  PROVE  \A x : x \in Active <=> In(s, x)
  <1> DEFINE n == Cardinality(Modules)
  <1>1. n \in Nat /\ Len(s) \in Nat /\ Len(s) <= n
    BY ActiveWalk, DistinctLength
  <1>2. PICK h : /\ Walk(h, n)
                 /\ \A x : x \in Active <=> x # Nil /\ \E k \in 0 .. n : h[k] = x
    BY ActiveWalk
  <1> HIDE DEF n
  <1>3. /\ h[0] = head
        /\ \A k \in 0 .. n : k # 0 => h[k] = IF h[k - 1] = Nil THEN Nil ELSE next[h[k - 1]]
    <2>1. \A k \in 0 .. n :
            h[k] = IF k = 0 THEN head ELSE IF h[k - 1] = Nil THEN Nil ELSE next[h[k - 1]]
      BY <1>2 DEF Walk
    <2> QED
      BY <1>1, <2>1
  <1>4. \A i \in 1 .. Len(s) : s[i] \in Modules /\ s[i] # Nil
    BY NilAssumption
  <1> DEFINE at(k) == IF k < Len(s) THEN s[k + 1] ELSE Nil
             A == {k \in 0 .. n : h[k] # at(k)}
  <1>5. ASSUME A # {} PROVE FALSE
    <2>1. A \in SUBSET Nat
      BY <1>1
    <2> HIDE DEF A
    <2>2. PICK m \in A : \A k \in A : m <= k
      BY <1>5, <2>1, LeastNat
    <2>3. m \in 0 .. n /\ h[m] # at(m)
      BY <2>2 DEF A
    <2>4. m # 0
      <3>1. at(0) = head
        BY <1>1 DEF Chain
      <3> QED
        BY <1>3, <2>3, <3>1
    <2>5. m - 1 \in 0 .. n /\ m - 1 \notin A
      BY <1>1, <2>2, <2>3, <2>4
    <2>6. h[m - 1] = at(m - 1)
      BY <2>5 DEF A
    <2>7. h[m] = IF h[m - 1] = Nil THEN Nil ELSE next[h[m - 1]]
      BY <1>3, <2>3, <2>4
    <2>8. CASE m - 1 < Len(s)
      <3>1. m \in 1 .. Len(s) /\ (m - 1) + 1 = m
        BY <1>1, <2>3, <2>4, <2>8
      <3>2. h[m - 1] = s[m]
        BY <2>6, <2>8, <3>1
      <3>3. h[m] = next[s[m]]
        BY <1>4, <2>7, <3>1, <3>2
      <3>4. next[s[m]] = at(m)
        BY <1>1, <3>1 DEF Chain
      <3> QED
        BY <2>3, <3>3, <3>4
    <2>9. CASE ~ m - 1 < Len(s)
      <3>1. at(m) = Nil /\ at(m - 1) = Nil
        BY <1>1, <2>3, <2>9
      <3> QED
        BY <2>3, <2>6, <2>7, <3>1
    <2> QED
      BY <2>8, <2>9
  <1>6. \A k \in 0 .. n : h[k] = at(k)
    BY <1>5
  <1>7. ASSUME NEW x, In(s, x) PROVE x \in Active
    <2>1. PICK i \in 1 .. Len(s) : s[i] = x
      BY <1>7 DEF In
    <2>2. i - 1 \in 0 .. n /\ i - 1 < Len(s) /\ (i - 1) + 1 = i
      BY <1>1
    <2>3. h[i - 1] = x
      BY <1>6, <2>1, <2>2
    <2> QED
      BY <1>2, <1>4, <2>1, <2>2, <2>3
  <1>8. ASSUME NEW x \in Active PROVE In(s, x)
    <2>1. PICK k \in 0 .. n : h[k] = x
      BY <1>2
    <2>2. x # Nil
      BY <1>2
    <2>3. k < Len(s) /\ x = s[k + 1]
      BY <1>6, <2>1, <2>2
    <2>4. k + 1 \in 1 .. Len(s)
      BY <1>1, <2>3
    <2> QED
      BY <2>3, <2>4 DEF In
  <1> QED
    BY <1>7, <1>8

LEMMA ActiveLoaded ==
  ASSUME ModInv, ModuleTypes
  PROVE  /\ \A m : m \in Active <=> In(loaded, m)
         /\ \A m : m \in Active => Loaded(m)
  <1>1. /\ loaded \in Seq(Modules) /\ Distinct(loaded) /\ Chain(loaded)
        /\ \A m : In(loaded, m) => Loaded(m)
    BY DEF ActiveList, ModInv
  <1>2. \A m : m \in Active <=> In(loaded, m)
    BY <1>1, ActiveIs
  <1> QED
    BY <1>1, <1>2

LEMMA LoadMods ==
  ASSUME ModuleTypes, ModInv, BindTypes, NEW m \in Modules, module_load(m)
  PROVE  ModInv'
  <1>1. /\ Closing /\ Codes /\ \A x \in Modules : prev[x] = Nil
        /\ next \in [Modules -> Modules \cup {Nil}] /\ prev \in [Modules -> Modules \cup {Nil}]
    BY DEF ModInv, ModuleTypes
  <1>2. /\ head' = m /\ next' = [next EXCEPT ![m] = head] /\ prev' = [prev EXCEPT ![m] = Nil]
        /\ mapped' = mapped \cup {m} /\ closed' = closed /\ garbage' = garbage /\ entry' = entry
        /\ table' = [t \in Tables |->
                       IF t \in TableOf[m] THEN bind_table_add(table, t)[t] ELSE table[t]]
        /\ m \notin Active /\ m \notin ToSet(closed)
    BY DEF module_load
  <1>0. PICK s : s = loaded
    OBVIOUS
  <1> DEFINE u == <<m>> \o s
  <1>4. /\ s \in Seq(Modules) /\ Distinct(s) /\ Chain(s)
        /\ \A x : In(s, x) => Loaded(x)
    BY <1>0 DEF ActiveList, ModInv
  <1>3. loaded' = u
    BY <1>0 DEF module_load
  <1>5. ~ In(s, m) /\ ~ In(closed, m)
    BY <1>1, <1>2, <1>4, ActiveIs, InToSet DEF Closing
  <1>6. /\ u \in Seq(Modules) /\ Len(u) = Len(s) + 1 /\ Len(s) \in Nat /\ u[1] = m
        /\ \A i \in 1 .. Len(s) : u[i + 1] = s[i]
    BY <1>4
  <1> HIDE DEF u
  <1>7. /\ \A i \in 1 .. Len(u) : i # 1 => i - 1 \in 1 .. Len(s) /\ u[i] = s[i - 1]
        /\ \A i \in 1 .. Len(s) : i + 1 \in 1 .. Len(u)
        /\ 1 \in 1 .. Len(u)
    <2>1. \A i \in 1 .. Len(u) : i # 1 => i - 1 \in 1 .. Len(s) /\ (i - 1) + 1 = i
      BY <1>6
    <2> QED
      BY <1>6, <2>1
  <1>8. \A x : In(u, x) <=> In(s, x) \/ x = m
    BY <1>6, <1>7, ZenonT(40) DEF In
  <1>9. Distinct(u)
    <2> SUFFICES ASSUME NEW i \in 1 .. Len(u), NEW j \in 1 .. Len(u), u[i] = u[j]
                 PROVE  i = j
      BY DEF Distinct
    <2>1. \A h \in 1 .. Len(u) : h # 1 => u[h] # m
      BY <1>5, <1>7 DEF In
    <2>2. CASE i = 1 \/ j = 1
      BY <1>6, <2>1, <2>2
    <2>3. CASE i # 1 /\ j # 1
      <3>1. i - 1 = j - 1
        BY <1>4, <1>7, <2>3 DEF Distinct
      <3> QED
        BY <3>1
    <2> QED
      BY <2>2, <2>3
  <1>10. Chain(u)'
    <2>1. head' = u[1] /\ Len(u) # 0
      BY <1>2, <1>6
    <2>2. ASSUME NEW k \in 1 .. Len(u)
          PROVE  next'[u[k]] = IF k = Len(u) THEN Nil ELSE u[k + 1]
      <3>1. CASE k = 1
        <4>1. next'[u[k]] = head
          BY <1>1, <1>2, <1>6, <3>1
        <4>2. head = IF Len(s) = 0 THEN Nil ELSE s[1]
          BY <1>4 DEF Chain
        <4>3. Len(s) # 0 => u[2] = s[1]
          BY <1>6
        <4> QED
          BY <1>6, <3>1, <4>1, <4>2, <4>3
      <3>2. CASE k # 1
        <4>1. k - 1 \in 1 .. Len(s) /\ u[k] = s[k - 1]
          BY <1>7, <3>2
        <4>2. s[k - 1] \in Modules /\ s[k - 1] # m
          BY <1>4, <1>5, <4>1 DEF In
        <4>3. next'[u[k]] = next[s[k - 1]]
          BY <1>1, <1>2, <4>1, <4>2
        <4>4. next[s[k - 1]] = IF k - 1 = Len(s) THEN Nil ELSE s[(k - 1) + 1]
          BY <1>4, <4>1 DEF Chain
        <4>5. k # Len(u) => k \in 1 .. Len(s) /\ (k - 1) + 1 = k
          BY <1>6, <4>1
        <4>6. k - 1 = Len(s) <=> k = Len(u)
          BY <1>6, <4>1
        <4> QED
          BY <1>6, <4>3, <4>4, <4>5, <4>6
      <3> QED
        BY <3>1, <3>2
    <2> QED
      BY <2>1, <2>2 DEF Chain
  <1>11. \A x : In(u, x) => Loaded(x)'
    BY <1>2, <1>4, <1>5, <1>8 DEF Loaded
  <1>12. ActiveList'
    <2>1. Chain(loaded)'
      BY <1>3, <1>10 DEF Chain
    <2> QED
      BY <1>3, <1>6, <1>9, <1>11, <2>1 DEF ActiveList
  <1>13. Closing'
    BY <1>1, <1>2 DEF Closing
  <1>14. \A x \in Modules : prev'[x] = Nil
    BY <1>1, <1>2
  <1>15. Codes'
    <2>1. ASSUME NEW t \in Tables
          PROVE  /\ table'[t].list = table[t].list
                 /\ table'[t].flags # "deleted" => table[t].flags # "deleted"
      <3>1. table \in [Tables -> TableRecs]
        BY DEF BindTypes
      <3>2. /\ bind_table_add(table, t)[t].list = table[t].list
            /\ bind_table_add(table, t)[t].flags # "deleted" => table[t].flags # "deleted"
        BY <3>1 DEF TableRecs, bind_table_add
      <3>3. table'[t] = bind_table_add(table, t)[t] \/ table'[t] = table[t]
        BY <1>2
      <3> QED
        BY <3>2, <3>3
    <2>2. ASSUME NEW t \in Tables, NEW e \in Entries, In(table'[t].list, e)
          PROVE  CodeOK(table[t].flags, entry[e])'
      <3>1. CodeOK(table[t].flags, entry[e])
        BY <1>1, <2>1, <2>2 DEF Codes
      <3> QED
        BY <1>2, <2>1, <3>1 DEF CodeOK, Forgotten
    <2> QED
      BY <2>2 DEF Codes
  <1> QED
    BY <1>12, <1>13, <1>14, <1>15 DEF ModInv

LEMMA TailOf ==
  ASSUME NEW S, NEW s \in Seq(S), s # <<>>, Distinct(s)
  PROVE  /\ Tail(s) \in Seq(S) /\ Distinct(Tail(s)) /\ Head(s) = s[1] /\ In(s, s[1])
         /\ Len(Tail(s)) = Len(s) - 1 /\ Len(s) \in Nat /\ Len(s) # 0
         /\ \A i \in 1 .. Len(s) - 1 : Tail(s)[i] = s[i + 1]
         /\ \A x : In(Tail(s), x) <=> In(s, x) /\ x # s[1]
  <1> DEFINE u == Tail(s)
  <1>1. /\ u \in Seq(S) /\ Head(s) = s[1] /\ Len(u) = Len(s) - 1 /\ Len(s) \in Nat /\ Len(s) # 0
        /\ \A i \in 1 .. Len(s) - 1 : u[i] = s[i + 1]
    OBVIOUS
  <1> HIDE DEF u
  <1>2. \A i \in 1 .. Len(u) : i + 1 \in 1 .. Len(s) /\ u[i] = s[i + 1] /\ i + 1 # 1
    BY <1>1
  <1>3. \A i \in 1 .. Len(s) : i # 1 => i - 1 \in 1 .. Len(u) /\ (i - 1) + 1 = i
    BY <1>1
  <1>4. 1 \in 1 .. Len(s)
    BY <1>1
  <1>5. ASSUME NEW i \in 1 .. Len(u), NEW j \in 1 .. Len(u), u[i] = u[j]
        PROVE  i = j
    <2>1. i + 1 = j + 1
      BY <1>2, <1>5 DEF Distinct
    <2> QED
      BY <1>1, <2>1
  <1>6. ASSUME NEW x, In(u, x) PROVE In(s, x) /\ x # s[1]
    <2>1. PICK i \in 1 .. Len(u) : u[i] = x
      BY <1>6 DEF In
    <2>2. i + 1 \in 1 .. Len(s) /\ s[i + 1] = x /\ i + 1 # 1
      BY <1>2, <2>1
    <2> QED
      BY <1>4, <2>2 DEF In, Distinct
  <1>7. ASSUME NEW x, In(s, x), x # s[1] PROVE In(u, x)
    <2>1. PICK i \in 1 .. Len(s) : s[i] = x
      BY <1>7 DEF In
    <2>2. i # 1
      BY <1>7, <2>1
    <2>3. i - 1 \in 1 .. Len(u) /\ u[i - 1] = x
      BY <1>2, <1>3, <2>1, <2>2
    <2> QED
      BY <2>3 DEF In
  <1>8. Distinct(u)
    BY <1>5 DEF Distinct
  <1>9. In(s, s[1])
    BY <1>4 DEF In
  <1> QED
    BY <1>1, <1>6, <1>7, <1>8, <1>9 DEF u

\* What follows position p of a list.
LEMMA RestOf ==
  ASSUME NEW S, NEW s \in Seq(S), Distinct(s), NEW p \in 1 .. Len(s)
  PROVE  LET u == SubSeq(s, p + 1, Len(s))
         IN  /\ u \in Seq(S) /\ Distinct(u) /\ Len(u) = Len(s) - p
             /\ \A i \in 1 .. Len(s) - p : u[i] = s[p + i]
             /\ \A x : In(u, x) => In(s, x) /\ x # s[p]
  <1> DEFINE u == SubSeq(s, p + 1, Len(s))
  <1>1. /\ u \in Seq(S) /\ Len(s) \in Nat /\ Len(u) = Len(s) - p
        /\ \A i \in 1 .. Len(s) - p : u[i] = s[p + i]
    <2>1. Len(s) \in Nat /\ p \in Nat /\ 1 <= p /\ p <= Len(s)
      OBVIOUS
    <2>2. u = [i \in 1 .. Len(s) - p |-> s[p + i]]
      BY <2>1
    <2>3. \A i \in 1 .. Len(s) - p : p + i \in 1 .. Len(s) /\ s[p + i] \in S
      BY <2>1
    <2>4. Len(s) - p \in Nat
      BY <2>1
    <2> HIDE DEF u
    <2> QED
      BY <2>1, <2>2, <2>3, <2>4
  <1> HIDE DEF u
  <1>2. \A i \in 1 .. Len(u) : p + i \in 1 .. Len(s) /\ u[i] = s[p + i] /\ p + i # p
    BY <1>1
  <1>3. ASSUME NEW i \in 1 .. Len(u), NEW j \in 1 .. Len(u), u[i] = u[j]
        PROVE  i = j
    <2>1. p + i = p + j
      BY <1>2, <1>3 DEF Distinct
    <2> QED
      BY <1>1, <2>1
  <1>4. ASSUME NEW x, In(u, x) PROVE In(s, x) /\ x # s[p]
    <2>1. PICK i \in 1 .. Len(u) : u[i] = x
      BY <1>4 DEF In
    <2> QED
      BY <1>2, <2>1 DEF In, Distinct
  <1> QED
    BY <1>1, <1>3, <1>4 DEF u, Distinct

LEMMA UnloadMods ==
  ASSUME ModuleTypes, ModInv, BindTypes, NEW m \in Modules, module_unload(m)
  PROVE  ModInv'
  <1>1. /\ Closing /\ Codes /\ \A x \in Modules : prev[x] = Nil
        /\ next \in [Modules -> Modules \cup {Nil}] /\ prev \in [Modules -> Modules \cup {Nil}]
    BY DEF ModInv, ModuleTypes
  <1>2. /\ m \in Active /\ Close(m) /\ Unlink(m)
        /\ closed' = Append(closed, m) /\ mapped' = mapped /\ loaded' = Older(m)
        /\ garbage' = garbage_add(garbage_add(garbage, "binds"), "modules")
    BY DEF module_unload
  <1>0. PICK s, p : s = loaded /\ p = Position(s, m)
    OBVIOUS
  <1> DEFINE u == SubSeq(s, p + 1, Len(s))
  <1>4. /\ s \in Seq(Modules) /\ Distinct(s) /\ Chain(s)
        /\ \A x : In(s, x) => Loaded(x)
    BY <1>0 DEF ActiveList, ModInv
  <1>3. loaded' = u
    BY <1>0, <1>2 DEF Older
  <1>5. Loaded(m) /\ In(s, m)
    BY <1>0, <1>2, ActiveLoaded
  <1>6. p \in 1 .. Len(s) /\ s[p] = m
    BY <1>0, <1>4, <1>5, PositionOf
  <1>7. /\ u \in Seq(Modules) /\ Distinct(u) /\ Len(u) = Len(s) - p
        /\ \A i \in 1 .. Len(s) - p : u[i] = s[p + i]
        /\ \A x : In(u, x) => In(s, x) /\ x # m
    BY <1>4, <1>6, RestOf
  <1> HIDE DEF u
  <1>8. prev[m] = Nil /\ head' = next[m]
    BY <1>1, <1>2 DEF Unlink
  <1>9. \A x \in Modules : x # m => next'[x] = next[x]
    <2>1. \A x \in Modules : x # prev[m]
      BY <1>8, NilAssumption
    <2> QED
      BY <1>2, <2>1 DEF Unlink
  <1>10. \A x \in Modules : prev'[x] = Nil
    BY <1>1, <1>2, <1>8 DEF Unlink
  <1>11. Chain(u)'
    <2>0. \A k \in 1 .. Len(s) : next[s[k]] = IF k = Len(s) THEN Nil ELSE s[k + 1]
      BY <1>4 DEF Chain
    <2>a. Len(s) \in Nat /\ p \in Nat /\ 1 <= p /\ p <= Len(s)
      BY <1>4, <1>6
    <2>1. head' = IF Len(u) = 0 THEN Nil ELSE u[1]
      <3>1. next[m] = IF p = Len(s) THEN Nil ELSE s[p + 1]
        BY <1>6, <2>0
      <3>2. p # Len(s) => 1 \in 1 .. Len(s) - p
        BY <2>a
      <3>3. Len(u) = 0 <=> p = Len(s)
        BY <1>7, <2>a
      <3> QED
        BY <1>7, <1>8, <3>1, <3>2, <3>3
    <2>2. ASSUME NEW k \in 1 .. Len(u)
          PROVE  next'[u[k]] = IF k = Len(u) THEN Nil ELSE u[k + 1]
      <3>1. p + k \in 1 .. Len(s) /\ k \in 1 .. Len(s) - p
        BY <1>7, <2>a
      <3>2. u[k] = s[p + k] /\ u[k] \in Modules
        BY <1>7, <3>1
      <3>3. u[k] # m
        BY <1>7 DEF In
      <3>4. next'[u[k]] = next[s[p + k]]
        BY <1>9, <3>2, <3>3
      <3>5. next[s[p + k]] = IF p + k = Len(s) THEN Nil ELSE s[(p + k) + 1]
        BY <2>0, <3>1
      <3>6. p + k = Len(s) <=> k = Len(u)
        BY <1>7, <2>a
      <3>7. k # Len(u) => k + 1 \in 1 .. Len(s) - p /\ p + (k + 1) = (p + k) + 1
        <4>1. Len(u) = Len(s) - p /\ k \in Nat /\ 1 <= k /\ k <= Len(s) - p
          BY <1>7, <3>1
        <4> QED
          BY <2>a, <4>1
      <3>8. k # Len(u) => u[k + 1] = s[(p + k) + 1]
        BY <1>7, <3>7
      <3> QED
        BY <3>4, <3>5, <3>6, <3>8
    <2> QED
      BY <2>1, <2>2 DEF Chain
  <1>12. closed \in Seq(Modules) /\ Distinct(closed) /\ ~ In(closed, m) /\ m \in mapped
    BY <1>1, <1>5 DEF Closing, Loaded
  <1>13. /\ closed' \in Seq(Modules) /\ Distinct(closed') /\ Len(closed') # 0
         /\ \A x : In(closed', x) <=> In(closed, x) \/ x = m
    <2>1. Len(Append(closed, m)) # 0
      BY <1>12
    <2> QED
      BY <1>2, <1>12, <2>1, AppendEmbeds
  <1>14. \A x : In(u, x) => Loaded(x)'
    BY <1>2, <1>4, <1>7, <1>13 DEF Loaded
  <1>15. ActiveList'
    <2>1. Chain(loaded)'
      BY <1>3, <1>11 DEF Chain
    <2> QED
      BY <1>3, <1>7, <1>14, <2>1 DEF ActiveList
  <1>16. Closing'
    <2> DEFINE g == garbage_add(garbage, "binds")
    <2>1. garbage \in Seq({"binds", "modules"}) /\ Distinct(garbage)
      BY <1>1 DEF BindTypes, Closing
    <2>2. g \in Seq({"binds", "modules"}) /\ Distinct(g)
      BY <2>1, GarbageAdded
    <2> HIDE DEF g
    <2>3. Distinct(garbage_add(g, "modules")) /\ In(garbage_add(g, "modules"), "modules")
      BY <2>2, GarbageAdded
    <2>4. Distinct(garbage') /\ In(garbage', "modules")
      BY <1>2, <2>3 DEF g
    <2>5. mapped' \subseteq Modules /\ \A x : In(closed', x) => x \in mapped'
      BY <1>1, <1>2, <1>12, <1>13 DEF Closing
    <2> QED
      BY <1>13, <2>4, <2>5 DEF Closing
  <1>17. Codes'
    <2> SUFFICES ASSUME NEW t \in Tables, NEW e \in Entries, In(table'[t].list, e)
                 PROVE  CodeOK(table[t].flags, entry[e])'
      BY DEF Codes
    <2>1. /\ table'[t].list = table[t].list
          /\ table'[t].flags = "deleted" \/ table'[t].flags = table[t].flags
      BY <1>2, ClosedTables
    <2>2. /\ entry'[e].code = entry[e].code /\ entry'[e].owner = entry[e].owner
          /\ entry'[e].deleted = (entry[e].deleted \/ e \in Own(m))
      BY <1>2, ClosedEntries
    <2>3. CodeOK(table[t].flags, entry[e])
      BY <1>1, <2>1 DEF Codes
    <2>4. entry[e].code = m /\ entry[e].owner = Nil /\ m \notin Forgetful => e \in Own(m)
      BY DEF Own
    <2>5. entry[e].deleted \in BOOLEAN
      BY EntryFields
    <2> HIDE DEF Own
    <2>6. \/ Forgotten(entry[e])'
          \/ entry'[e].code \in mapped' /\ entry'[e].owner \in {Nil, entry'[e].code}
      BY <1>2, <2>2, <2>3 DEF CodeOK, Forgotten
    <2>7. ASSUME ~ entry'[e].deleted, table'[t].flags # "deleted", entry'[e].owner = Nil,
                 entry'[e].code \notin Forgetful
          PROVE  ~ In(closed', entry'[e].code)
      <3>1. ~ entry[e].deleted /\ e \notin Own(m) /\ table[t].flags # "deleted"
        BY <2>1, <2>2, <2>5, <2>7
      <3>2. ~ In(closed, entry[e].code) /\ entry[e].code # m
        BY <2>2, <2>3, <2>4, <2>7, <3>1 DEF CodeOK
      <3> QED
        BY <1>13, <2>2, <3>2
    <2> QED
      BY <2>6, <2>7 DEF CodeOK
  <1> QED
    BY <1>10, <1>15, <1>16, <1>17 DEF ModInv

\* Steps of the binds leave the lists of modules alone.
LEMMA ModulesSame ==
  ASSUME ModInv, UNCHANGED moduleVars, Distinct(garbage'),
         In(garbage', "modules") <=> In(garbage, "modules"), Codes'
  PROVE  ModInv'
  <1>1. /\ head' = head /\ next' = next /\ prev' = prev
        /\ closed' = closed /\ mapped' = mapped /\ loaded' = loaded
    BY DEF moduleVars
  <1>2. Closing'
    BY <1>1 DEF ModInv, Closing
  <1>3. ActiveList'
    BY <1>1 DEF ModInv, ActiveList, Chain, Loaded
  <1> QED
    BY <1>1, <1>2, <1>3 DEF ModInv

LEMMA CodesKept ==
  ASSUME Codes, mapped' = mapped, closed' = closed,
         \A t \in Tables, e \in Entries : In(table'[t].list, e) =>
           \/ CodeOK(table[t].flags, entry[e])'
           \/ /\ In(table[t].list, e)
              /\ entry'[e].code = entry[e].code /\ entry'[e].owner = entry[e].owner
              /\ entry[e].deleted => entry'[e].deleted
              /\ table[t].flags = "deleted" => table'[t].flags = "deleted"
  PROVE  Codes'
  <1> SUFFICES ASSUME NEW t \in Tables, NEW e \in Entries, In(table'[t].list, e),
                      In(table[t].list, e),
                      entry'[e].code = entry[e].code, entry'[e].owner = entry[e].owner,
                      entry[e].deleted => entry'[e].deleted,
                      table[t].flags = "deleted" => table'[t].flags = "deleted"
               PROVE  CodeOK(table[t].flags, entry[e])'
    BY DEF Codes
  <1>1. CodeOK(table[t].flags, entry[e])
    BY DEF Codes
  <1> QED
    BY <1>1 DEF CodeOK, Forgotten

LEMMA AddCodes ==
  ASSUME BindInv, Codes, mapped' = mapped, closed' = closed, NEW t \in Tables,
         NEW flags \in {table[t].flags, "fake"}, table[t].flags = "deleted" => flags = "deleted",
         NEW n, NEW c \in mapped, NEW o \in {Nil, c}, o = Nil => ~ In(closed, c),
         bind_entry_add(t, flags, n, c, o)
  PROVE  Codes'
  <1>1. BindTypes /\ table \in [Tables -> TableRecs] /\ entry \in [Entries -> EntryRecs]
    BY DEF BindInv, BindTypes
  <1>2. table[t].list \in Seq(Entries)
    BY <1>1, TableFields
  <1>3. ASSUME NEW e \in Entries, NEW l,
               \A x : In(l, x) => In(table[t].list, x) \/ x = e,
               table' = [table EXCEPT ![t].flags = flags, ![t].list = l],
               entry' = [entry EXCEPT ![e] = New(n, c, o)]
        PROVE  Codes'
    <2>1. /\ \A u \in Tables : u # t => table'[u] = table[u]
          /\ table'[t].flags = flags /\ table'[t].list = l
      BY <1>1, <1>3 DEF TableRecs
    <2>2. entry'[e] = New(n, c, o) /\ \A x \in Entries : x # e => entry'[x] = entry[x]
      BY <1>1, <1>3
    <2>3. ASSUME NEW u \in Tables
          PROVE  CodeOK(table[u].flags, entry[e])'
      <3>1. entry'[e].code = c /\ entry'[e].owner = o
        BY <2>2 DEF New
      <3> QED
        BY <3>1 DEF CodeOK
    <2>4. \A u \in Tables, x \in Entries : In(table'[u].list, x) /\ x # e =>
            /\ In(table[u].list, x) /\ entry'[x] = entry[x]
            /\ table[u].flags = "deleted" => table'[u].flags = "deleted"
      BY <1>3, <2>1, <2>2, ZenonT(40)
    <2>5. \A u \in Tables, x \in Entries : In(table'[u].list, x) =>
            \/ CodeOK(table[u].flags, entry[x])'
            \/ /\ In(table[u].list, x)
               /\ entry'[x].code = entry[x].code /\ entry'[x].owner = entry[x].owner
               /\ entry[x].deleted => entry'[x].deleted
               /\ table[u].flags = "deleted" => table'[u].flags = "deleted"
      BY <2>3, <2>4
    <2> QED
      BY <2>5, CodesKept
  <1>4. ASSUME NEW old \in Linked(t), NEW e \in Entries,
               table' = [table EXCEPT ![t].flags = flags,
                           ![t].list = InsertAt(@, Position(@, old) + 1, e)],
               entry' = [entry EXCEPT ![e] = New(n, c, o)]
        PROVE  Codes'
    <2> DEFINE s == table[t].list
               k == Position(s, old) + 1
               l == InsertAt(s, k, e)
    <2>1. In(s, old)
      BY <1>1, <1>4, LinkedIn
    <2>2. Position(s, old) \in 1 .. Len(s)
      BY <1>2, <2>1, PositionOf
    <2>3. k \in 1 .. Len(s) + 1 /\ s \in Seq(Entries)
      BY <1>2, <2>2
    <2>4. table' = [table EXCEPT ![t].flags = flags, ![t].list = l]
      BY <1>1, <1>4 DEF TableRecs
    <2> HIDE DEF s, k
    <2>5. \A x : In(l, x) => In(s, x) \/ x = e
      BY <2>3, InsertEmbeds
    <2> HIDE DEF l
    <2> QED
      BY <1>3, <1>4, <2>4, <2>5 DEF s
  <1>5. ASSUME NEW e \in Entries,
               table' = [table EXCEPT ![t].flags = flags, ![t].list = Append(@, e)],
               entry' = [entry EXCEPT ![e] = New(n, c, o)]
        PROVE  Codes'
    <2> DEFINE s == table[t].list
               l == Append(s, e)
    <2>1. table' = [table EXCEPT ![t].flags = flags, ![t].list = l]
      BY <1>1, <1>5 DEF TableRecs
    <2>2. \A x : In(l, x) => In(s, x) \/ x = e
      BY <1>2, AppendEmbeds
    <2> HIDE DEF l
    <2> QED
      BY <1>3, <1>5, <2>1, <2>2
  <1>6. ASSUME NEW e \in Linked(t),
               entry' = [entry EXCEPT ![e].code = c, ![e].owner = o],
               table' = [table EXCEPT ![t].flags = flags]
        PROVE  Codes'
    <2>1. /\ \A u \in Tables : table'[u].list = table[u].list
          /\ \A u \in Tables : table[u].flags = "deleted" => table'[u].flags = "deleted"
      BY <1>1, <1>6 DEF TableRecs
    <2>2. e \in Entries
      BY <1>2 DEF Linked, ToSet
    <2>3. /\ entry'[e].code = c /\ entry'[e].owner = o
          /\ \A x \in Entries : x # e => entry'[x] = entry[x]
      BY <1>1, <1>6, <2>2 DEF EntryRecs
    <2>4. \A u \in Tables : CodeOK(table[u].flags, entry[e])'
      BY <2>3 DEF CodeOK
    <2>5. \A u \in Tables, x \in Entries : In(table'[u].list, x) =>
            \/ CodeOK(table[u].flags, entry[x])'
            \/ /\ In(table[u].list, x)
               /\ entry'[x].code = entry[x].code /\ entry'[x].owner = entry[x].owner
               /\ entry[x].deleted => entry'[x].deleted
               /\ table[u].flags = "deleted" => table'[u].flags = "deleted"
      BY <2>1, <2>3, <2>4
    <2> QED
      BY <2>5, CodesKept
  <1> QED
    BY <1>4, <1>5, <1>6 DEF bind_entry_add

\* Nothing that matters to the codes changes.
LEMMA CodesSame ==
  ASSUME Codes, mapped' = mapped, closed' = closed,
         \A u \in Tables : /\ table'[u].flags = table[u].flags
                           /\ \A x : In(table[u].list, x) <=> In(table'[u].list, x),
         \A e \in Entries : /\ entry'[e].code = entry[e].code /\ entry'[e].owner = entry[e].owner
                            /\ entry[e].deleted => entry'[e].deleted
  PROVE  Codes'
  <1>1. \A t \in Tables, e \in Entries : In(table'[t].list, e) =>
          \/ CodeOK(table[t].flags, entry[e])'
          \/ /\ In(table[t].list, e)
             /\ entry'[e].code = entry[e].code /\ entry'[e].owner = entry[e].owner
             /\ entry[e].deleted => entry'[e].deleted
             /\ table[t].flags = "deleted" => table'[t].flags = "deleted"
    OBVIOUS
  <1> QED
    BY <1>1, CodesKept

LEMMA BindingMods ==
  ASSUME BindInv, ModuleTypes, ModInv, Binding
  PROVE  ModInv'
  <1>1. /\ UNCHANGED moduleVars /\ mapped' = mapped /\ closed' = closed
        /\ Codes /\ Closing /\ BindTypes
    BY DEF Binding, moduleVars, ModInv, BindInv
  <1>2. garbage \in Seq({"binds", "modules"}) /\ entry \in [Entries -> EntryRecs] /\ Distinct(garbage)
    BY <1>1 DEF BindTypes, Closing
  <1>3. PICK t \in Tables, n \in Names :
          \/ \E c \in mapped \ ToSet(closed) : bind_add_simple(t, n, c) \/ bind_entry_del(t, n, c)
          \/ \E m \in ScriptModules \cap mapped : script_bind(t, n, m)
          \/ bind_entry_del(t, n, Nil)
          \/ \E new \in Names \ {n} : bind_entry_modify(t, n, new)
    BY DEF Binding
  <1>4. ASSUME NEW c \in mapped \ ToSet(closed), bind_add_simple(t, n, c)
        PROVE  ModInv'
    <2> DEFINE flags == IF Exists(t) THEN table[t].flags ELSE "fake"
    <2>1. c \in mapped /\ ~ In(closed, c)
      BY <1>1, InToSet DEF Closing
    <2>2. flags \in {table[t].flags, "fake"} /\ (table[t].flags = "deleted" => flags = "deleted")
      BY DEF Exists
    <2>3. bind_entry_add(t, flags, n, c, Nil) /\ Nil \in {Nil, c}
      BY <1>4 DEF bind_add_simple
    <2> HIDE DEF flags
    <2>4. Codes'
      BY <1>1, <2>1, <2>2, <2>3, AddCodes
    <2>5. garbage' = garbage
      BY <2>3 DEF bind_entry_add
    <2> QED
      BY <1>1, <1>2, <2>4, <2>5, ModulesSame
  <1>5. ASSUME NEW m \in ScriptModules \cap mapped, script_bind(t, n, m)
        PROVE  ModInv'
    <2> DEFINE flags == table[t].flags
    <2>1. m \in mapped /\ m \in {Nil, m} /\ m # Nil
      BY ModuleAssumption, NilAssumption
    <2>2. flags \in {table[t].flags, "fake"} /\ (table[t].flags = "deleted" => flags = "deleted")
      OBVIOUS
    <2>3. bind_entry_add(t, flags, n, m, m)
      BY <1>5 DEF script_bind
    <2> HIDE DEF flags
    <2>4. Codes'
      BY <1>1, <2>1, <2>2, <2>3, AddCodes
    <2>5. garbage' = garbage
      BY <2>3 DEF bind_entry_add
    <2> QED
      BY <1>1, <1>2, <2>4, <2>5, ModulesSame
  <1>6. ASSUME NEW c, bind_entry_del(t, n, c)
        PROVE  ModInv'
    <2>1. PICK e \in Linked(t) :
            /\ entry' = [entry EXCEPT ![e].deleted = TRUE]
            /\ garbage' = garbage_add(garbage, "binds") /\ table' = table
      BY <1>6 DEF bind_entry_del
    <2>2. \A x \in Entries : /\ entry'[x].code = entry[x].code /\ entry'[x].owner = entry[x].owner
                             /\ entry[x].deleted => entry'[x].deleted
      BY <1>2, <2>1 DEF EntryRecs
    <2>3. Codes'
      BY <1>1, <2>1, <2>2, CodesSame
    <2>4. /\ Distinct(garbage')
          /\ \A x : In(garbage', x) <=> In(garbage, x) \/ x = "binds"
      BY <1>2, <2>1, GarbageAdded
    <2>5. In(garbage', "modules") <=> In(garbage, "modules")
      BY <2>4
    <2> QED
      BY <1>1, <2>3, <2>4, <2>5, ModulesSame
  <1>7. ASSUME NEW new \in Names, bind_entry_modify(t, n, new)
        PROVE  ModInv'
    <2>1. PICK e \in Linked(t) :
            entry' = [entry EXCEPT ![e].name = new] /\ garbage' = garbage /\ table' = table
      BY <1>7 DEF bind_entry_modify
    <2>2. \A x \in Entries : /\ entry'[x].code = entry[x].code /\ entry'[x].owner = entry[x].owner
                             /\ entry[x].deleted => entry'[x].deleted
      BY <1>2, <2>1 DEF EntryRecs
    <2>3. Codes'
      BY <1>1, <2>1, <2>2, CodesSame
    <2> QED
      BY <1>1, <1>2, <2>1, <2>3, ModulesSame
  <1> QED
    BY <1>3, <1>4, <1>5, <1>6, <1>7

LEMMA CheckingMods ==
  ASSUME BindInv, ModInv, UNCHANGED moduleVars,
         (\E t \in Tables : \E match : bind_vcheck_hits(t, match)) \/ Checking
  PROVE  ModInv'
  <1>1. mapped' = mapped /\ closed' = closed /\ Codes /\ Closing /\ BindTypes
    BY DEF moduleVars, ModInv, BindInv
  <1>2. entry \in [Entries -> EntryRecs] /\ Distinct(garbage)
    BY <1>1 DEF BindTypes, Closing
  <1>3. CASE \/ \E t \in Tables : \E match : bind_vcheck_hits(t, match)
             \/ CheckReturns
    <2>1. table' = table /\ entry' = entry /\ garbage' = garbage
      BY <1>3 DEF bind_vcheck_hits, CheckReturns
    <2>2. Codes'
      BY <1>1, <2>1, CodesSame
    <2> QED
      BY <1>2, <2>1, <2>2, ModulesSame
  <1>4. CASE CallNext
    <2>1. PICK e : entry' = [entry EXCEPT ![e].nhits = Hit(@)]
      BY <1>4 DEF CallNext
    <2>2. table' = table /\ garbage' = garbage
      BY <1>4 DEF CallNext
    <2>3. \A x \in Entries : /\ entry'[x].code = entry[x].code /\ entry'[x].owner = entry[x].owner
                             /\ entry[x].deleted => entry'[x].deleted
      BY <1>2, <2>1 DEF EntryRecs
    <2>4. Codes'
      BY <1>1, <2>2, <2>3, CodesSame
    <2> QED
      BY <1>2, <2>2, <2>4, ModulesSame
  <1>5. CASE \E break \in BOOLEAN : CallbackReturns(break)
    <2>1. entry' = entry /\ garbage' = garbage
      BY <1>5 DEF CallbackReturns
    <2>2. \A u \in Tables : /\ table'[u].flags = table[u].flags
                            /\ \A x : In(table[u].list, x) <=> In(table'[u].list, x)
      BY <1>5, CallbackKeepsInv
    <2>3. Codes'
      BY <1>1, <2>1, <2>2, CodesSame
    <2> QED
      BY <1>2, <2>1, <2>3, ModulesSame
  <1> QED
    BY <1>3, <1>4, <1>5 DEF Checking

\* The first of garbage.c's procedures is taken off.
LEMMA GarbageTail ==
  ASSUME BindTypes, Closing, garbage # <<>>
  PROVE  /\ Distinct(Tail(garbage)) /\ Head(garbage) = garbage[1]
         /\ \A x : In(Tail(garbage), x) <=> In(garbage, x) /\ x # Head(garbage)
         /\ In(garbage, Head(garbage))
  <1>1. garbage \in Seq({"binds", "modules"}) /\ Distinct(garbage)
    BY DEF BindTypes, Closing
  <1> QED
    BY <1>1, TailOf

LEMMA GarbageMods ==
  ASSUME BindInv, ModInv, garbage_run
  PROVE  ModInv'
  <1>1. BindTypes /\ Lists /\ Closing /\ Codes /\ garbage # <<>>
        /\ \A m \in Modules : prev[m] = Nil
    BY DEF BindInv, ModInv, garbage_run
  <1>2. head' = head /\ next' = next /\ prev' = prev /\ loaded' = loaded
    BY DEF garbage_run
  <1>3. /\ Distinct(Tail(garbage)) /\ In(garbage, Head(garbage))
        /\ \A x : In(Tail(garbage), x) <=> In(garbage, x) /\ x # Head(garbage)
    BY <1>1, GarbageTail
  <1>4. CASE /\ Head(garbage) = "binds" /\ internal_bind_cleanup({})
             /\ garbage' = Tail(garbage) /\ closed' = closed /\ mapped' = mapped
    <2>1. UNCHANGED moduleVars
      BY <1>2, <1>4 DEF moduleVars
    <2>2. Distinct(garbage') /\ (In(garbage', "modules") <=> In(garbage, "modules"))
      BY <1>3, <1>4
    <2>3. \A t \in Tables, e \in Entries : In(table'[t].list, e) =>
            In(table[t].list, e) /\ ~ Freed(t, e, {}) /\ entry'[e] = entry[e]
      <3>1. {} \in SUBSET Modules /\ \A e \in Entries : Left(e, {}) = entry[e]
        BY DEF Left
      <3> QED
        BY <1>1, <1>4, <3>1, CleanupLeaves
    <2>4. \A t \in Tables, e \in Entries : In(table'[t].list, e) =>
            \/ CodeOK(table[t].flags, entry[e])'
            \/ /\ In(table[t].list, e)
               /\ entry'[e].code = entry[e].code /\ entry'[e].owner = entry[e].owner
               /\ entry[e].deleted => entry'[e].deleted
               /\ table[t].flags = "deleted" => table'[t].flags = "deleted"
      BY <2>3 DEF Freed
    <2>5. Codes'
      BY <1>1, <1>4, <2>4, CodesKept
    <2> QED
      BY <2>1, <2>2, <2>5, ModulesSame
  <1>5. CASE /\ Head(garbage) = "modules" /\ module_really_unload(Head(closed))
             /\ garbage' = IF Len(closed) = 1 THEN Tail(garbage) ELSE garbage
    <2> DEFINE m == Head(closed)
    <2>1. /\ internal_bind_cleanup({m}) /\ mapped' = mapped \ {m} /\ closed' = Tail(closed)
      BY <1>5 DEF module_really_unload, kill_binds_by_owner
    <2>2. closed \in Seq(Modules) /\ Distinct(closed) /\ closed # <<>>
      BY <1>1, <1>3, <1>5 DEF Closing
    <2>3. /\ closed' \in Seq(Modules) /\ Distinct(closed') /\ m = closed[1] /\ In(closed, m)
          /\ Len(closed') = Len(closed) - 1 /\ Len(closed) \in Nat /\ Len(closed) # 0
          /\ \A x : In(closed', x) <=> In(closed, x) /\ x # m
      BY <2>1, <2>2, TailOf
    <2> HIDE DEF m
    <2>4. Closing'
      <3>1. mapped' \subseteq Modules /\ \A x : In(closed', x) => x \in mapped'
        BY <1>1, <2>1, <2>3 DEF Closing
      <3>2. Distinct(garbage')
        BY <1>1, <1>3, <1>5 DEF Closing
      <3>3. In(garbage', "modules") <=> Len(closed') # 0
        <4>1. CASE Len(closed) = 1
          <5>1. ~ In(garbage', "modules")
            BY <1>3, <1>5, <4>1
          <5> QED
            BY <2>3, <4>1, <5>1
        <4>2. CASE Len(closed) # 1
          <5>1. In(garbage', "modules")
            BY <1>3, <1>5, <4>2
          <5> QED
            BY <2>3, <4>2, <5>1
        <4> QED
          BY <4>1, <4>2
      <3> QED
        BY <2>3, <3>1, <3>2, <3>3 DEF Closing
    <2>5. \A x : Loaded(x) => Loaded(x)'
      BY <2>1, <2>3 DEF Loaded
    <2>7. ActiveList'
      BY <1>2, <2>5 DEF ModInv, ActiveList, Chain
    <2>9. m \in Modules
      BY <2>2, <2>3
    <2>8. Codes'
      <3> SUFFICES ASSUME NEW t \in Tables, NEW e \in Entries, In(table'[t].list, e)
                   PROVE  CodeOK(table[t].flags, entry[e])'
        BY DEF Codes
      <3>1. In(table[t].list, e) /\ ~ Freed(t, e, {m}) /\ entry'[e] = Left(e, {m})
        BY <1>1, <2>1, <2>9, CleanupLeaves
      <3>2. table[t].flags # "deleted" /\ ~ entry[e].deleted /\ entry[e].owner # m
        BY <3>1 DEF Freed
      <3>3. CodeOK(table[t].flags, entry[e])
        BY <1>1, <3>1 DEF Codes
      <3>4. CASE entry[e].code = m
        <4>1. entry[e].owner = Nil /\ m \in Forgetful
          BY <2>3, <3>2, <3>3, <3>4 DEF CodeOK, Forgotten
        <4>2. entry'[e].code = Gone(m) /\ entry'[e].owner = Nil
          BY <1>1, <2>9, <3>1, <3>4, <4>1, LeftIs
        <4>3. ~ In(closed', Gone(m))
          BY <2>3, <2>9, GoneAssumption DEF In
        <4> QED
          BY <4>1, <4>2, <4>3 DEF CodeOK, Forgotten
      <3>5. CASE entry[e].code # m
        <4>1. entry'[e] = entry[e]
          BY <3>1, <3>5 DEF Left
        <4> QED
          BY <2>1, <2>3, <3>2, <3>3, <3>5, <4>1 DEF CodeOK, Forgotten
      <3> QED
        BY <3>4, <3>5
    <2> QED
      BY <1>1, <1>2, <2>4, <2>7, <2>8 DEF ModInv
  <1> QED
    BY <1>4, <1>5 DEF garbage_run

LEMMA ModInvInit ==
  ASSUME Init
  PROVE  ModInv
  <1>1. /\ head = Nil /\ next = [m \in Modules |-> Nil] /\ prev = [m \in Modules |-> Nil]
        /\ closed = <<>> /\ mapped = {} /\ garbage = <<>>
        /\ \A t \in Tables : table[t].list = <<>>
    BY DEF Init, BindInit
  <1>2. (\A x : ~ In(<<>>, x)) /\ Distinct(<<>>)
    BY DEF In, Distinct
  <1>3. Closing
    BY <1>1, <1>2 DEF Closing
  <1>4. Chain(<<>>)
    BY <1>1 DEF Chain
  <1>5. ActiveList
    BY <1>2, <1>4 DEF Init, ActiveList
  <1>6. Codes
    BY <1>1, <1>2 DEF Codes
  <1> QED
    BY <1>1, <1>3, <1>5, <1>6 DEF ModInv

LEMMA ModInvStep ==
  ASSUME BindInv, ModuleTypes, ModInv, [Next]_vars
  PROVE  ModInv'
  <1>1. BindTypes
    BY DEF BindInv
  <1>2. ASSUME NEW m \in Modules, module_load(m)
        PROVE  ModInv'
    BY <1>1, <1>2, LoadMods
  <1>3. ASSUME NEW m \in Modules, module_unload(m)
        PROVE  ModInv'
    BY <1>1, <1>3, UnloadMods
  <1>4. CASE Binding
    BY <1>4, BindingMods
  <1>5. CASE Check
    <2>1. UNCHANGED moduleVars /\ \E t \in Tables : \E match : bind_vcheck_hits(t, match)
      BY <1>5 DEF Check
    <2> QED
      BY <2>1, CheckingMods
  <1>6. CASE Checking /\ UNCHANGED <<moduleVars, phase>>
    <2>1. UNCHANGED moduleVars
      BY <1>6
    <2> QED
      BY <1>6, <2>1, CheckingMods
  <1>7. CASE \/ BeginGarbageRun \/ UNCHANGED vars
             \/ CallUnmapped /\ phase' = "undefined" /\ UNCHANGED moduleVars
    <2>1. UNCHANGED moduleVars /\ UNCHANGED bindVars
      BY <1>7 DEF BeginGarbageRun, CallUnmapped, vars
    <2>2. Codes' /\ Distinct(garbage') /\ (In(garbage', "modules") <=> In(garbage, "modules"))
      BY <2>1 DEF ModInv, Codes, CodeOK, Closing, bindVars, moduleVars
    <2> QED
      BY <2>1, <2>2, ModulesSame
  <1>8. CASE garbage_run
    BY <1>8, GarbageMods
  <1> QED
    BY <1>2, <1>3, <1>4, <1>5, <1>6, <1>7, <1>8 DEF Next

-----------------------------------------------------------------------------
(* The code that callbacks run in                                          *)

\* The entry whose callback runs has code that is there.
Called == \A i \in 1 .. Len(frames) : frames[i].cur # Nil => entry[frames[i].cur].code \in mapped

LEMMA CalledKept ==
  ASSUME Called, Len(frames') \in Nat, Len(frames') <= Len(frames), Len(frames) \in Nat,
         \A i \in 1 .. Len(frames') : frames'[i].cur \in {frames[i].cur, Nil},
         mapped \subseteq mapped',
         \A i \in 1 .. Len(frames) : frames[i].cur # Nil =>
           entry'[frames[i].cur].code \in mapped \cup {entry[frames[i].cur].code}
  PROVE  Called'
  <1> SUFFICES ASSUME NEW i \in 1 .. Len(frames'), frames'[i].cur # Nil
               PROVE  entry'[frames'[i].cur].code \in mapped'
    BY DEF Called
  <1>1. i \in 1 .. Len(frames) /\ frames'[i].cur = frames[i].cur
    OBVIOUS
  <1> QED
    BY <1>1 DEF Called

LEMMA BindingCalled ==
  ASSUME BindInv, ModuleTypes, ModInv, Called, Binding
  PROVE  Called'
  <1>1. /\ entry \in [Entries -> EntryRecs] /\ mapped' = mapped
        /\ frames \in Seq(FrameRecs) /\ Len(frames) \in Nat
        /\ \A i \in 1 .. Len(frames) : frames[i].cur \in Entries \cup {Nil}
    BY FrameFields DEF BindInv, BindTypes, Binding, moduleVars
  <1>2. PICK t \in Tables, n \in Names :
          \/ \E c \in mapped \ ToSet(closed) : bind_add_simple(t, n, c) \/ bind_entry_del(t, n, c)
          \/ \E m \in ScriptModules \cap mapped : script_bind(t, n, m)
          \/ bind_entry_del(t, n, Nil)
          \/ \E new \in Names \ {n} : bind_entry_modify(t, n, new)
    BY DEF Binding
  <1>3. ASSUME NEW flags, NEW c \in mapped, NEW o, bind_entry_add(t, flags, n, c, o)
        PROVE  Called'
    <2>1. frames' = frames
      BY <1>3 DEF bind_entry_add
    <2>2. PICK e : \/ entry' = [entry EXCEPT ![e] = New(n, c, o)]
                   \/ entry' = [entry EXCEPT ![e].code = c, ![e].owner = o]
      BY <1>3 DEF bind_entry_add
    <2>3. New(n, c, o).code = c
      BY DEF New
    <2>4. \A x \in Entries : entry'[x].code \in {c, entry[x].code}
      BY <1>1, <2>2, <2>3 DEF EntryRecs
    <2> QED
      BY <1>1, <2>1, <2>4, CalledKept
  <1>4. ASSUME NEW c, bind_entry_del(t, n, c)
        PROVE  Called'
    <2>1. PICK e : entry' = [entry EXCEPT ![e].deleted = TRUE] /\ frames' = Undue(e)
      BY <1>4 DEF bind_entry_del
    <2>2. \A x \in Entries : entry'[x].code = entry[x].code
      BY <1>1, <2>1 DEF EntryRecs
    <2>3. /\ Len(frames') = Len(frames)
          /\ \A i \in 1 .. Len(frames) : Kept(frames[i], frames'[i], {e})
      BY <1>1, <2>1, UndueFrames DEF BindInv, Undue
    <2> QED
      BY <1>1, <2>2, <2>3, CalledKept DEF Kept
  <1>5. ASSUME NEW new \in Names, bind_entry_modify(t, n, new)
        PROVE  Called'
    <2>1. PICK e : entry' = [entry EXCEPT ![e].name = new] /\ frames' = Undue(e)
      BY <1>5 DEF bind_entry_modify
    <2>2. \A x \in Entries : entry'[x].code = entry[x].code
      BY <1>1, <2>1 DEF EntryRecs
    <2>3. /\ Len(frames') = Len(frames)
          /\ \A i \in 1 .. Len(frames) : Kept(frames[i], frames'[i], {e})
      BY <1>1, <2>1, UndueFrames DEF BindInv, Undue
    <2> QED
      BY <1>1, <2>2, <2>3, CalledKept DEF Kept
  <1> QED
    BY <1>2, <1>3, <1>4, <1>5 DEF bind_add_simple, script_bind

LEMMA CheckingCalled ==
  ASSUME BindInv, ModInv, Called, mapped' = mapped,
         (\E t \in Tables : \E match : bind_vcheck_hits(t, match)) \/ Checking
  PROVE  Called'
  <1>1. /\ entry \in [Entries -> EntryRecs] /\ BindTypes
        /\ frames \in Seq(FrameRecs) /\ Len(frames) \in Nat
        /\ \A i \in 1 .. Len(frames) : frames[i] \in FrameRecs /\ frames[i].cur \in Entries \cup {Nil}
    BY FrameFields DEF BindInv, BindTypes
  <1>2. CASE \E t \in Tables : \E match : bind_vcheck_hits(t, match)
    <2>1. PICK g : frames' = Append(frames, g) /\ g.cur = Nil /\ entry' = entry
      BY <1>2 DEF bind_vcheck_hits
    <2>2. /\ Len(frames') = Len(frames) + 1 /\ frames'[Len(frames) + 1] = g
          /\ \A i \in 1 .. Len(frames) : frames'[i] = frames[i]
      BY <1>1, <2>1
    <2>3. \A i \in 1 .. Len(frames') : i \in 1 .. Len(frames) \/ i = Len(frames) + 1
      BY <1>1, <2>2
    <2> QED
      BY <2>1, <2>2, <2>3 DEF Called
  <1>3. CASE CheckReturns
    <2>1. frames # <<>> /\ frames' = Front(frames) /\ entry' = entry
      BY <1>3 DEF CheckReturns
    <2>2. /\ Len(frames') = Len(frames) - 1
          /\ \A i \in 1 .. Len(frames) - 1 : frames'[i] = frames[i]
      BY <1>1, <2>1, FrontOf
    <2>3. \A i \in 1 .. Len(frames') : i \in 1 .. Len(frames) /\ frames'[i] = frames[i]
      BY <1>1, <2>2
    <2> QED
      BY <2>1, <2>3 DEF Called
  <1>4. CASE CallNext
    <2> DEFINE k == Len(frames)
               f == frames[k]
               e == NextHit(f)
    <2>1. k \in Nat /\ k \in 1 .. k /\ Last(frames) = f
      BY <1>4, LastFrame DEF CallNext
    <2>2. PICK g : /\ frames' = [frames EXCEPT ![k] = g] /\ g.cur = e /\ e # Nil
                   /\ entry[e].code \in Modules
                   /\ entry' = [entry EXCEPT ![e].nhits = Hit(@)]
      <3>1. /\ e # Nil /\ entry[e].code \in Modules
            /\ entry' = [entry EXCEPT ![e].nhits = Hit(@)]
            /\ frames' = [frames EXCEPT ![k] =
                  [f EXCEPT !.at = "callback", !.cur = e, !.done = @ \cup {e},
                            !.todo = @ \ {e}, !.next = Successor(f.table, e)]]
        BY <1>4, <2>1 DEF CallNext
      <3>2. f \in FrameRecs
        BY <1>1, <2>1
      <3> HIDE DEF e, f, k
      <3>3. [f EXCEPT !.at = "callback", !.cur = e, !.done = @ \cup {e},
                      !.todo = @ \ {e}, !.next = Successor(f.table, e)].cur = e
        BY <3>2 DEF FrameRecs
      <3> QED
        BY <3>1, <3>3
    <2>3. f \in FrameRecs /\ f.table \in Tables
      BY <1>1, <2>1, FrameFields
    <2>4. In(table[f.table].list, e) /\ e \in Entries
      BY <1>1, <2>1, <2>2, <2>3, HitLinked
    <2> HIDE DEF e
    <2>5. \A x \in Entries : entry'[x].code = entry[x].code
      BY <1>1, <2>2 DEF EntryRecs
    <2>6. entry[e].code \in mapped
      <3>1. CodeOK(table[f.table].flags, entry[e])
        BY <2>3, <2>4 DEF ModInv, Codes
      <3>2. entry[e].code \notin {Gone(m) : m \in Forgetful}
        BY <2>2, ModuleAssumption, GoneAssumption
      <3> QED
        BY <3>1, <3>2 DEF CodeOK, Forgotten
    <2>7. /\ Len(frames') = k /\ frames'[k] = g
          /\ \A i \in 1 .. k : i # k => frames'[i] = frames[i]
      BY <1>1, <2>1, <2>2
    <2>8. ASSUME NEW i \in 1 .. Len(frames'), frames'[i].cur # Nil
          PROVE  entry'[frames'[i].cur].code \in mapped'
      <3>1. CASE i = k
        BY <2>2, <2>4, <2>5, <2>6, <2>7, <3>1
      <3>2. CASE i # k
        <4>1. i \in 1 .. Len(frames) /\ frames'[i] = frames[i]
          BY <2>7, <2>8, <3>2
        <4>2. entry[frames[i].cur].code \in mapped /\ frames[i].cur \in Entries
          BY <1>1, <2>8, <4>1 DEF Called
        <4> QED
          BY <2>5, <4>1, <4>2
      <3> QED
        BY <3>1, <3>2
    <2> QED
      BY <2>8 DEF Called
  <1>5. ASSUME NEW break \in BOOLEAN, CallbackReturns(break)
        PROVE  Called'
    <2> DEFINE k == Len(frames)
               f == Last(frames)
               l == IF Exact(f.table) THEN MovedUp(f.table, f.cur) ELSE table[f.table].list
               other(g) == [g EXCEPT !.moved = TRUE, !.todo = {}, !.done = {}]
               u == [i \in DOMAIN frames |->
                       IF frames[i].table = f.table /\ i # k /\ l # table[f.table].list
                         THEN other(frames[i]) ELSE frames[i]]
    <2>1. entry' = entry /\ frames # <<>> /\ k \in Nat /\ k \in 1 .. k
      BY <1>5, LastFrame DEF CallbackReturns, Callback
    <2>2. \/ frames' = Front(u)
          \/ frames' = [u EXCEPT ![k].at = "scan", ![k].cur = Nil]
      BY <1>5 DEF CallbackReturns
    <2> HIDE DEF l, f
    <2>3. DOMAIN frames = 1 .. k
      BY <1>1
    <2>a. \A i \in 1 .. k : other(frames[i]) \in FrameRecs /\ other(frames[i]).cur = frames[i].cur
      BY <1>1 DEF FrameRecs
    <2>b. \A i \in 1 .. k : frames[i] \in FrameRecs
      BY <1>1
    <2> HIDE DEF other
    <2>4. u \in [1 .. k -> FrameRecs]
      BY <2>3, <2>a, <2>b
    <2>5. \A i \in 1 .. k : u[i].cur = frames[i].cur
      BY <2>3, <2>a
    <2> HIDE DEF u
    <2>6. u \in Seq(FrameRecs) /\ Len(u) = k /\ u # <<>>
      BY <2>1, <2>4
    <2>7. CASE frames' = Front(u)
      <3>1. Len(frames') = k - 1 /\ \A i \in 1 .. k - 1 : frames'[i] = u[i]
        BY <2>6, <2>7, FrontOf
      <3>2. \A i \in 1 .. Len(frames') : i \in 1 .. k /\ frames'[i].cur = frames[i].cur
        BY <2>1, <2>5, <3>1
      <3> QED
        BY <2>1, <3>2 DEF Called
    <2>8. CASE frames' = [u EXCEPT ![k].at = "scan", ![k].cur = Nil]
      <3>1. Len(frames') = k /\ \A i \in 1 .. k : i # k => frames'[i] = u[i]
        BY <2>6, <2>8
      <3>2. frames'[k].cur = Nil
        BY <2>1, <2>4, <2>8 DEF FrameRecs
      <3> QED
        BY <2>1, <2>5, <3>1, <3>2 DEF Called
    <2> QED
      BY <2>2, <2>7, <2>8 DEF u
  <1> QED
    BY <1>2, <1>3, <1>4, <1>5 DEF Checking

LEMMA CalledStep ==
  ASSUME BindInv, ModuleTypes, ModInv, Called, [Next]_vars
  PROVE  Called'
  <1>1. /\ entry \in [Entries -> EntryRecs] /\ BindTypes
        /\ frames \in Seq(FrameRecs) /\ Len(frames) \in Nat
        /\ \A i \in 1 .. Len(frames) : frames[i].cur \in Entries \cup {Nil}
    BY FrameFields DEF BindInv, BindTypes
  <1>2. ASSUME NEW m \in Modules, module_load(m)
        PROVE  Called'
    BY <1>2 DEF module_load, Called
  <1>3. ASSUME NEW m \in Modules, module_unload(m)
        PROVE  Called'
    <2>1. Close(m) /\ mapped' = mapped
      BY <1>3 DEF module_unload
    <2>2. \A e \in Entries : entry'[e].code = entry[e].code
      BY <1>1, <2>1, ClosedEntries
    <2>3. frames' = [i \in DOMAIN frames |-> [frames[i] EXCEPT !.todo = @ \ Own(m)]]
      BY <2>1 DEF Close, Own
    <2>4. /\ Len(frames') = Len(frames)
          /\ \A i \in 1 .. Len(frames) : Kept(frames[i], frames'[i], Own(m))
      BY <1>1, <2>3, UndueFrames
    <2> QED
      BY <1>1, <2>1, <2>2, <2>4, CalledKept DEF Kept
  <1>4. CASE Binding
    BY <1>4, BindingCalled
  <1>5. CASE Check
    <2>1. mapped' = mapped /\ \E t \in Tables : \E match : bind_vcheck_hits(t, match)
      BY <1>5 DEF Check, moduleVars
    <2> QED
      BY <2>1, CheckingCalled
  <1>6. CASE Checking /\ UNCHANGED <<moduleVars, phase>>
    <2>1. mapped' = mapped
      BY <1>6 DEF moduleVars
    <2> QED
      BY <1>6, <2>1, CheckingCalled
  <1>7. CASE \/ BeginGarbageRun \/ UNCHANGED vars
             \/ CallUnmapped /\ phase' = "undefined" /\ UNCHANGED moduleVars
    BY <1>7 DEF BeginGarbageRun, CallUnmapped, vars, bindVars, moduleVars, Called
  <1>8. CASE garbage_run
    <2>1. frames' = <<>>
      BY <1>8 DEF garbage_run, BindInv, Phases
    <2> QED
      BY <2>1 DEF Called
  <1> QED
    BY <1>2, <1>3, <1>4, <1>5, <1>6, <1>7, <1>8 DEF Next

LEMMA ModInvAlways ==
  Spec => [](BindInv /\ ModuleTypes /\ ModInv /\ Called)
  <1>1. Init => BindInv /\ ModuleTypes /\ ModInv /\ Called
    <2>1. Init => Called
      BY DEF Init, BindInit, Called
    <2> QED
      BY <2>1, BindInvInit, ModInvInit
  <1>2. BindInv /\ ModuleTypes /\ ModInv /\ Called /\ [Next]_vars
          => (BindInv /\ ModuleTypes /\ ModInv /\ Called)'
    BY BindInvStep, ModuleTypesStep, ModInvStep, CalledStep
  <1> QED
    BY <1>1, <1>2, PTL DEF Spec

\* In whatever order modules are loaded and unloaded, the list that find_module
\* walks holds the modules loaded and not unloaded since, up to those that
\* module_unload loses because module_load never sets prev (module.c:169); none
\* of them is closed, so module_unload never meets a module twice.
THEOREM LoadedAreFound == Spec => []ModulesFound
  <1>1. BindInv /\ ModuleTypes /\ ModInv => ModulesFound
    <2> SUFFICES ASSUME ModuleTypes, ModInv PROVE ModulesFound
      OBVIOUS
    <2>1. \A m : m \in Active <=> In(loaded, m)
      BY ActiveLoaded
    <2>4. \A m : m \in Active => Loaded(m)
      BY ActiveLoaded
    <2>2. loaded \in Seq(Modules) /\ closed \in Seq(Modules)
      BY DEF ModInv, Closing, ActiveList
    <2>3. \A m : (m \in ToSet(closed) <=> In(closed, m)) /\ (m \in ToSet(loaded) <=> In(loaded, m))
      BY <2>2, InToSet
    <2> QED
      BY <2>1, <2>3, <2>4 DEF ModulesFound, Loaded
  <1> QED
    BY <1>1, ModInvAlways, PTL

\* module_really_unload unmaps no code that bind_entry_exec or an owner's
\* on_delete can still call, except that of the binds which the close function
\* of a forgetful module left in the tables of others.
THEOREM NoCallIntoUnmapped == Spec => []CallableMapped
  <1>1. BindInv /\ ModuleTypes /\ ModInv /\ Called => CallableMapped
    <2> SUFFICES ASSUME BindInv, ModInv, Called PROVE CallableMapped
      OBVIOUS
    <2>1. BindTypes /\ Codes
      BY DEF BindInv, ModInv
    <2>2. ASSUME NEW t \in Tables, NEW e \in Linked(t)
          PROVE  /\ \/ entry[e].code \in mapped
                    \/ entry[e].owner = Nil /\ entry[e].code \in {Gone(m) : m \in Forgetful}
                 /\ entry[e].owner \in mapped \cup {Nil}
      <3>1. In(table[t].list, e) /\ e \in Entries
        BY <2>1, TableFields, LinkedIn DEF In
      <3> QED
        BY <2>1, <3>1 DEF Codes, CodeOK, Forgotten
    <2>3. ASSUME NEW f \in ToSet(frames), f.cur # Nil
          PROVE  entry[f.cur].code \in mapped
      <3>1. PICK i \in 1 .. Len(frames) : f = frames[i]
        BY <2>1 DEF BindTypes, ToSet
      <3> QED
        BY <2>3, <3>1 DEF Called
    <2> QED
      BY <2>2, <2>3 DEF CallableMapped
  <1> QED
    BY <1>1, ModInvAlways, PTL

=============================================================================
