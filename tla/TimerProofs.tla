---------------------------- MODULE TimerProofs ----------------------------
(***************************************************************************)
(* Proofs about Timer, for every value of its constants: types, the order  *)
(* of the list and what timer_run leaves behind.                           *)
(***************************************************************************)
EXTENDS Timer, SequenceTheorems, TLAPS

\* What InsertAt returns, element by element.
LEMMA InsertAtElements ==
  ASSUME NEW S, NEW l \in Seq(S), NEW p \in 1 .. Len(l) + 1, NEW e \in S
  PROVE  /\ InsertAt(l, p, e) \in Seq(S)
         /\ Len(InsertAt(l, p, e)) = Len(l) + 1
         /\ \A i \in 1 .. Len(l) + 1 :
              InsertAt(l, p, e)[i] = IF i < p THEN l[i] ELSE IF i = p THEN e ELSE l[i - 1]
<1> DEFINE a == SubSeq(l, 1, p - 1)
           b == SubSeq(l, p, Len(l))
<1>0. Len(l) \in Nat /\ p \in Nat
  OBVIOUS
<1>1. /\ a \in Seq(S) /\ Len(a) = p - 1
      /\ \A i \in 1 .. p - 1 : a[i] = l[i]
  OBVIOUS
<1>2. /\ b \in Seq(S) /\ Len(b) = Len(l) - p + 1
      /\ \A i \in 1 .. Len(b) : b[i] = l[p + i - 1]
  OBVIOUS
<1>3. InsertAt(l, p, e) = (a \o <<e>>) \o b
  BY DEF InsertAt
<1> HIDE DEF a, b
<1>4. /\ a \o <<e>> \in Seq(S) /\ Len(a \o <<e>>) = p
      /\ \A i \in 1 .. p : (a \o <<e>>)[i] = IF i < p THEN l[i] ELSE e
  BY <1>1
<1> DEFINE c == a \o <<e>>
<1>5. /\ c \in Seq(S) /\ Len(c) = p
      /\ \A i \in 1 .. p : c[i] = IF i < p THEN l[i] ELSE e
  BY <1>4
<1>6. InsertAt(l, p, e) = c \o b
  BY <1>3
<1> HIDE DEF c
<1>7. c \o b \in Seq(S) /\ Len(c \o b) = Len(l) + 1
  <2>1. c \o b \in Seq(S) /\ Len(c \o b) = Len(c) + Len(b)
    BY <1>2, <1>5, ConcatProperties
  <2> QED
    BY <2>1, <1>0, <1>2, <1>5
<1>8. ASSUME NEW i \in 1 .. Len(l) + 1
      PROVE  (c \o b)[i] = IF i < p THEN l[i] ELSE IF i = p THEN e ELSE l[i - 1]
  <2>1. CASE i <= p
    BY <2>1, <1>2, <1>5
  <2>2. CASE i > p
    <3>1. i - p \in 1 .. Len(b) /\ p + (i - p) - 1 = i - 1
      BY <2>2, <1>2
    <3>2. b[i - p] = l[i - 1]
      BY <3>1, <1>2
    <3>3. (c \o b)[i] = b[i - p]
      BY <2>2, <1>2, <1>5
    <3> QED
      BY <2>2, <3>2, <3>3
  <2>3. i <= p \/ i > p
    BY <1>0
  <2> QED
    BY <2>1, <2>2, <2>3
<1> QED
  BY <1>6, <1>7, <1>8

\* Linking a timer in keeps a list of timers one, keeps it in order, and adds
\* exactly that timer.
LEMMA AddToList ==
  ASSUME NEW l \in Seq(Timers), NEW t \in Timers, NEW new,
         timer_add_to_list(l, t, new)
  PROVE  /\ new \in Seq(Timers)
         /\ SortedList(l) => SortedList(new)
         /\ DistinctIds(l) /\ (\A i \in 1 .. Len(l) : l[i].id # t.id) => DistinctIds(new)
         /\ \A i \in 1 .. Len(new) : new[i] = t \/ \E j \in 1 .. Len(l) : new[i] = l[j]
<1>1. PICK p \in 1 .. Len(l) + 1 :
        /\ \A i \in 1 .. p - 1 : ~ Before(t.trigger, l[i].trigger)
        /\ p <= Len(l) => Before(t.trigger, l[p].trigger)
        /\ new = InsertAt(l, p, t)
  BY DEF timer_add_to_list
<1>2. /\ new \in Seq(Timers)
      /\ Len(new) = Len(l) + 1
      /\ \A i \in 1 .. Len(l) + 1 :
           new[i] = IF i < p THEN l[i] ELSE IF i = p THEN t ELSE l[i - 1]
  <2> DEFINE ins == InsertAt(l, p, t)
  <2>1. /\ ins \in Seq(Timers)
        /\ Len(ins) = Len(l) + 1
        /\ \A i \in 1 .. Len(l) + 1 :
             ins[i] = IF i < p THEN l[i] ELSE IF i = p THEN t ELSE l[i - 1]
    BY InsertAtElements
  <2> QED
    BY <1>1, <2>1
<1>3. ASSUME NEW a \in Timers, NEW b \in Timers, NEW c \in Timers
      PROVE  /\ ~ Before(a.trigger, a.trigger)
             /\ Before(a.trigger, b.trigger) => ~ Before(b.trigger, a.trigger)
             /\ Before(a.trigger, b.trigger) /\ ~ Before(c.trigger, b.trigger)
                  => Before(a.trigger, c.trigger)
  BY UsecAssumption DEF Timers, Before
<1>4. ASSUME SortedList(l) PROVE SortedList(new)
  <2> SUFFICES ASSUME NEW i \in 1 .. Len(new), NEW j \in 1 .. Len(new), i < j
               PROVE  ~ Before(new[j].trigger, new[i].trigger)
    BY DEF SortedList
  <2> \A k \in 1 .. Len(l) : l[k] \in Timers
    OBVIOUS
  <2>1. \A k \in p .. Len(l) : Before(t.trigger, l[k].trigger)
    <3> SUFFICES ASSUME NEW k \in p .. Len(l) PROVE Before(t.trigger, l[k].trigger)
      OBVIOUS
    <3>1. Before(t.trigger, l[p].trigger)
      BY <1>1
    <3>2. CASE k = p
      BY <3>1, <3>2
    <3>3. CASE k > p
      <4>1. ~ Before(l[k].trigger, l[p].trigger)
        BY <1>4, <3>3 DEF SortedList
      <4> QED
        BY <3>1, <4>1, <1>3
    <3> QED
      BY <3>2, <3>3
  <2>2. CASE j < p
    BY <2>2, <1>2, <1>4 DEF SortedList
  <2>3. CASE j = p
    BY <2>3, <1>1, <1>2
  <2>4. CASE j > p /\ i < p
    <3>1. new[j] = l[j - 1] /\ new[i] = l[i] /\ i < j - 1
      BY <2>4, <1>2
    <3>2. i \in 1 .. Len(l) /\ j - 1 \in 1 .. Len(l)
      BY <2>4, <1>2
    <3> QED
      BY <3>1, <3>2, <1>4 DEF SortedList
  <2>5. CASE j > p /\ i = p
    <3>1. Before(t.trigger, l[j - 1].trigger)
      BY <2>5, <2>1, <1>2
    <3> QED
      BY <2>5, <3>1, <1>2, <1>3
  <2>6. CASE j > p /\ i > p
    <3>1. new[j] = l[j - 1] /\ new[i] = l[i - 1] /\ i - 1 < j - 1
      BY <2>6, <1>2
    <3>2. i - 1 \in 1 .. Len(l) /\ j - 1 \in 1 .. Len(l)
      BY <2>6, <1>2
    <3> QED
      BY <3>1, <3>2, <1>4 DEF SortedList
  <2> QED
    BY <2>2, <2>3, <2>4, <2>5, <2>6
<1>5. ASSUME NEW i \in 1 .. Len(new)
      PROVE  new[i] = t \/ \E j \in 1 .. Len(l) : new[i] = l[j]
  BY <1>2
<1>6. ASSUME DistinctIds(l), \A i \in 1 .. Len(l) : l[i].id # t.id
      PROVE  DistinctIds(new)
  <2> SUFFICES ASSUME NEW i \in 1 .. Len(new), NEW j \in 1 .. Len(new), i < j
               PROVE  new[i].id # new[j].id
    BY DEF DistinctIds
  <2> DEFINE old(k) == IF k < p THEN k ELSE k - 1
  <2>1. \A k \in 1 .. Len(new) : k # p => old(k) \in 1 .. Len(l) /\ new[k] = l[old(k)]
    BY <1>2
  <2>2. i # p /\ j # p => old(i) # old(j)
    BY <1>2
  <2>3. new[p] = t
    BY <1>2
  <2> HIDE DEF old
  <2>4. CASE i # p /\ j # p
    BY <2>1, <2>2, <2>4, <1>6 DEF DistinctIds
  <2>5. CASE i = p
    BY <2>1, <2>3, <2>5, <1>6
  <2>6. CASE j = p
    BY <2>1, <2>3, <2>6, <1>6
  <2> QED
    BY <2>4, <2>5, <2>6
<1> QED
  BY <1>2, <1>4, <1>5, <1>6

\* Unlinking timers keeps a list of timers one, keeps it in order, and adds
\* none.
LEMMA KeepsList ==
  ASSUME NEW l \in Seq(Timers), NEW keep, NEW new, Keeps(l, keep, new)
  PROVE  /\ new \in Seq(Timers)
         /\ SortedList(l) => SortedList(new)
         /\ DistinctIds(l) => DistinctIds(new)
         /\ \A i \in 1 .. Len(new) : \E j \in 1 .. Len(l) : new[i] = l[j]
<1>0. PICK n \in 0 .. Len(l) :
        \E f \in [1 .. n -> 1 .. Len(l)] :
          /\ \A i, j \in 1 .. n : i < j => f[i] < f[j]
          /\ new = [i \in 1 .. n |-> l[f[i]]]
  BY DEF Keeps
<1>1. PICK f \in [1 .. n -> 1 .. Len(l)] :
        /\ \A i, j \in 1 .. n : i < j => f[i] < f[j]
        /\ new = [i \in 1 .. n |-> l[f[i]]]
  BY <1>0
<1>2. new \in Seq(Timers) /\ Len(new) = n
  BY <1>1
<1>3. \A i \in 1 .. n : new[i] = l[f[i]] /\ f[i] \in 1 .. Len(l)
  BY <1>1
<1>4. SortedList(l) => SortedList(new)
  BY <1>1, <1>2, <1>3 DEF SortedList
<1>5. DistinctIds(l) => DistinctIds(new)
  <2>1. \A i, j \in 1 .. n : i # j => f[i] # f[j]
    BY <1>1
  <2> QED
    BY <1>2, <1>3, <2>1 DEF DistinctIds
<1> QED
  BY <1>2, <1>3, <1>4, <1>5

-----------------------------------------------------------------------------

LEMMA InitInv == Init => IInv
<1> SUFFICES ASSUME Init PROVE IInv
  OBVIOUS
<1>1. list = <<>> /\ list \in Seq(Timers) /\ Len(list) = 0
  BY DEF Init
<1>2. TypeOK
  BY <1>1, MaxIdAssumption DEF Init, TypeOK
<1>3. Sorted /\ FreshIds
  BY <1>1 DEF Init, Sorted, SortedList, FreshIds, UniqueIds, DistinctIds, InList
<1> QED
  BY <1>2, <1>3 DEF IInv

\* A step that replaces the list by some of its timers, in order, and changes
\* nothing else.
LEMMA UnlinkInv ==
  ASSUME IInv, NEW keep, Keeps(list, keep, list'),
         UNCHANGED <<now, running, phase, next_id, wraparound>>
  PROVE  IInv'
<1>1. /\ list' \in Seq(Timers)
      /\ SortedList(list) => SortedList(list')
      /\ DistinctIds(list) => DistinctIds(list')
      /\ \A i \in 1 .. Len(list') : \E j \in 1 .. Len(list) : list'[i] = list[j]
  BY KeepsList DEF IInv, TypeOK
<1>2. TypeOK'
  BY <1>1 DEF IInv, TypeOK
<1>3. Sorted'
  BY <1>1 DEF IInv, Sorted
<1>4. FreshIds'
  BY <1>1 DEF IInv, FreshIds, UniqueIds, InList
<1> QED
  BY <1>2, <1>3, <1>4 DEF IInv

LEMMA NextInv == IInv /\ [Next]_vars => IInv'
<1> SUFFICES ASSUME IInv, [Next]_vars PROVE IInv'
  OBVIOUS
<1> USE DEF IInv
<1>1. ASSUME NEW h \in Howlongs, NEW r \in {0, TIMER_REPEAT}, NEW o \in Owners,
             timer_create_complex(h, r, o)
      PROVE  IInv'
  <2>1. PICK id \in Ids :
          /\ NewId(id)
          /\ timer_add_to_list(list,
               [id |-> id,
                trigger |-> [sec |-> now.sec + h.sec, usec |-> now.usec + h.usec],
                howlong |-> h, flags |-> r, owner |-> o], list')
          /\ next_id' = IF id = MaxId THEN 0 ELSE id + 1
    BY <1>1 DEF timer_create_complex
  <2> DEFINE t == [id |-> id,
                   trigger |-> [sec |-> now.sec + h.sec, usec |-> now.usec + h.usec],
                   howlong |-> h, flags |-> r, owner |-> o]
  <2>2. t \in Timers
    <3>1. /\ now.sec \in Int /\ now.usec \in Int
          /\ h.sec \in Int /\ h.usec \in Int
      BY BoundsAssumption, UsecAssumption, HowlongsAssumption DEF TypeOK, Times
    <3>2. now.sec + h.sec \in Int /\ now.usec + h.usec \in Int
      BY <3>1
    <3> QED
      BY <3>2 DEF Timers
  <2>3. t.id = id /\ timer_add_to_list(list, t, list')
    BY <2>1
  <2> HIDE DEF t
  <2>4. /\ list' \in Seq(Timers)
        /\ SortedList(list) => SortedList(list')
        /\ DistinctIds(list) /\ (\A i \in 1 .. Len(list) : list[i].id # t.id)
             => DistinctIds(list')
        /\ \A i \in 1 .. Len(list') :
             list'[i] = t \/ \E j \in 1 .. Len(list) : list'[i] = list[j]
    BY <2>2, <2>3, AddToList DEF TypeOK
  <2>5. /\ UNCHANGED <<now, running, phase>>
        /\ wraparound' = IF next_id < 1 THEN 1 ELSE wraparound
    BY <1>1 DEF timer_create_complex
  <2>6. TypeOK'
    <3>1. next_id' \in 0 .. MaxId
      BY <2>1, MaxIdAssumption DEF Ids
    <3>2. wraparound' \in {0, 1}
      BY <2>5 DEF TypeOK
    <3> QED
      BY <2>4, <2>5, <3>1, <3>2 DEF TypeOK
  <2>7. Sorted'
    BY <2>4 DEF Sorted
  <2>8. FreshIds'
    <3> SUFFICES ASSUME wraparound' = 0 PROVE FreshIds'
      BY DEF FreshIds
    <3>1. wraparound = 0 /\ next_id \in 1 .. MaxId
      BY <2>5 DEF TypeOK
    <3>2. id = next_id
      BY <3>1, <2>1 DEF NewId
    <3>3. /\ DistinctIds(list)
          /\ \A i \in 1 .. Len(list) : list[i].id < next_id
          /\ running # None => running.id < next_id /\ \A i \in 1 .. Len(list) : list[i].id # running.id
      BY <3>1 DEF FreshIds, UniqueIds, InList
    <3>4. /\ \A j \in 1 .. Len(list) : list[j].id \in Nat
          /\ running # None => running.id \in Nat
          /\ next_id \in Nat
      <4>1. \A x \in Timers : x.id \in Nat
        BY MaxIdAssumption DEF Timers, Ids
      <4> QED
        BY <4>1, <3>1, MaxIdAssumption DEF TypeOK
    <3>5. DistinctIds(list')
      BY <2>3, <2>4, <3>2, <3>3, <3>4
    <3>6. ASSUME NEW i \in 1 .. Len(list')
          PROVE  /\ list'[i].id \in Nat /\ list'[i].id < next_id + 1
                 /\ running # None => list'[i].id # running.id
      <4>1. CASE list'[i] = t
        BY <2>3, <3>2, <3>3, <3>4, <4>1
      <4>2. CASE \E j \in 1 .. Len(list) : list'[i] = list[j]
        BY <3>3, <3>4, <4>2
      <4> QED
        BY <2>4, <4>1, <4>2
    <3>7. next_id' # 0 => next_id' = next_id + 1
      BY <2>1, <3>2
    <3> QED
      BY <2>5, <3>3, <3>4, <3>5, <3>6, <3>7 DEF FreshIds, UniqueIds, InList
  <2> QED
    BY <2>6, <2>7, <2>8
<1>2. ASSUME NEW id \in Ids, timer_destroy(id) PROVE IInv'
  <2>1. CASE list' = list
    BY <1>2, <2>1 DEF timer_destroy, TypeOK, Sorted, FreshIds, UniqueIds, InList
  <2>2. CASE \E keep : Keeps(list, keep, list')
    BY <1>2, <2>2, UnlinkInv DEF timer_destroy, TypeOK
  <2> QED
    BY <1>2, <2>1, <2>2 DEF timer_destroy
<1>3. ASSUME timer_destroy_all PROVE IInv'
  <2>1. list' = <<>> /\ list' \in Seq(Timers) /\ Len(list') = 0
    BY <1>3 DEF timer_destroy_all
  <2> QED
    BY <1>3, <2>1 DEF timer_destroy_all, TypeOK, Sorted, SortedList, FreshIds, UniqueIds,
                     DistinctIds, InList
<1>4. ASSUME NEW m \in Modules, NEW s \in Scripts \cup {None}, timer_destroy_by_owner(m, s)
      PROVE  IInv'
  BY <1>4, UnlinkInv DEF timer_destroy_by_owner, TypeOK
<1>5. ASSUME timer_update_now PROVE IInv'
  BY <1>5 DEF timer_update_now, TypeOK, Sorted, FreshIds, UniqueIds, InList
<1>6. ASSUME RunHead PROVE IInv'
  <2>1. /\ Head(list) \in Timers /\ Head(list) = list[1]
        /\ Tail(list) \in Seq(Timers)
        /\ Len(Tail(list)) = Len(list) - 1
        /\ \A i \in 1 .. Len(Tail(list)) : Tail(list)[i] = list[i + 1]
    BY <1>6, HeadTailProperties DEF RunHead, TypeOK
  <2>2. /\ list' = Tail(list) /\ running' = list[1] /\ running' # None
        /\ phase = "run" /\ phase' = "callback"
        /\ UNCHANGED <<now, next_id, wraparound>>
    BY <1>6, <2>1, NoneAssumption DEF RunHead
  <2>3. Len(list) \in Nat /\ 1 \in 1 .. Len(list)
    BY <1>6 DEF RunHead, TypeOK
  <2>4. TypeOK'
    BY <2>1, <2>2 DEF TypeOK
  <2>5. Sorted'
    BY <2>1, <2>2, <2>3 DEF Sorted, SortedList
  <2>6. FreshIds'
    BY <2>1, <2>2, <2>3 DEF FreshIds, UniqueIds, DistinctIds, InList
  <2> QED
    BY <2>4, <2>5, <2>6
<1>7. ASSUME CallbackReturns PROVE IInv'
  <2>1. /\ running \in Timers /\ running' = None /\ phase' = "run"
        /\ UNCHANGED <<now, next_id, wraparound>>
    BY <1>7 DEF CallbackReturns, TypeOK
  <2>2. CASE running.flags # TIMER_REPEAT
    BY <1>7, <2>1, <2>2 DEF CallbackReturns, TypeOK, Sorted, FreshIds, UniqueIds, InList
  <2>3. CASE running.flags = TIMER_REPEAT
    <3> DEFINE t == [running EXCEPT !.trigger = NextTrigger(running)]
    <3>1. NextTrigger(running) \in [sec : Int, usec : Int]
      BY <2>1, UsecAssumption, HowlongsAssumption DEF Timers, NextTrigger
    <3>2. t \in Timers /\ t.id = running.id
      BY <2>1, <3>1 DEF Timers
    <3>3. timer_add_to_list(list, t, list')
      BY <1>7, <2>3 DEF CallbackReturns
    <3> HIDE DEF t
    <3>4. /\ list' \in Seq(Timers)
          /\ SortedList(list) => SortedList(list')
          /\ DistinctIds(list) /\ (\A i \in 1 .. Len(list) : list[i].id # t.id)
               => DistinctIds(list')
          /\ \A i \in 1 .. Len(list') :
               list'[i] = t \/ \E j \in 1 .. Len(list) : list'[i] = list[j]
      BY <3>2, <3>3, AddToList DEF TypeOK
    <3>5. TypeOK'
      BY <2>1, <3>4 DEF TypeOK
    <3>6. Sorted'
      BY <3>4 DEF Sorted
    <3>7. FreshIds'
      <4> SUFFICES ASSUME wraparound = 0 PROVE FreshIds'
        BY <2>1 DEF FreshIds
      <4>1. running # None
        BY <1>7 DEF CallbackReturns, TypeOK
      <4>2. DistinctIds(list) /\ \A i \in 1 .. Len(list) : list[i].id # running.id
        BY <4>1 DEF FreshIds, UniqueIds, InList
      <4>3. DistinctIds(list')
        BY <3>2, <3>4, <4>2
      <4>4. next_id # 0 => \A i \in 1 .. Len(list') : list'[i].id < next_id
        BY <3>2, <3>4, <4>1 DEF FreshIds, TypeOK
      <4> QED
        BY <2>1, <4>3, <4>4 DEF FreshIds, UniqueIds
    <3> QED
      BY <3>5, <3>6, <3>7
  <2> QED
    BY <2>2, <2>3
<1>8. ASSUME RunReturns PROVE IInv'
  BY <1>8 DEF RunReturns, TypeOK, Sorted, FreshIds, UniqueIds, InList
<1>9. ASSUME UNCHANGED vars PROVE IInv'
  BY <1>9 DEF vars, TypeOK, Sorted, FreshIds, UniqueIds, InList
<1> QED
  BY <1>1, <1>2, <1>3, <1>4, <1>5, <1>6, <1>7, <1>8, <1>9 DEF Next, Client, Loop

\* timer.c keeps its types, whatever delays it is asked for.
THEOREM TypeCorrect == Spec => []TypeOK
<1>1. IInv => TypeOK
  BY DEF IInv
<1> QED
  BY InitInv, NextInv, <1>1, PTL DEF Spec

\* The list stays sorted, whatever callbacks and handlers do to it.
THEOREM ListSorted == Spec => []Sorted
<1>1. IInv => Sorted
  BY DEF IInv
<1> QED
  BY InitInv, NextInv, <1>1, PTL DEF Spec

\* What IdsStayUnique says of one step.
UniqueKept ==
  UniqueIds => /\ DistinctIds(list')
               /\ UniqueIds' \/ (phase = "callback" /\ wraparound' = 1)

\* The id of a new timer is in the list for no timer, after an overflow because
\* the list was searched and before it because all ids are older.
LEMMA NewIdNew ==
  ASSUME IInv, NEW id \in Ids, NewId(id), next_id' = IF id = MaxId THEN 0 ELSE id + 1
  PROVE  \A i \in 1 .. Len(list) : list[i].id # id
<1>1. CASE wraparound = 1 \/ next_id < 1
  BY <1>1 DEF NewId, InList
<1>2. CASE ~ (wraparound = 1 \/ next_id < 1)
  <2>1. wraparound = 0 /\ next_id \in 1 .. MaxId /\ id = next_id
    BY <1>2, MaxIdAssumption DEF NewId, IInv, TypeOK
  <2>2. \A i \in 1 .. Len(list) : list[i].id < next_id
    BY <2>1 DEF IInv, FreshIds
  <2>3. \A i \in 1 .. Len(list) : list[i] \in Timers
    BY DEF IInv, TypeOK
  <2>4. \A t \in Timers : t.id \in Nat
    BY MaxIdAssumption DEF Timers, Ids
  <2> QED
    BY <2>1, <2>2, <2>3, <2>4, MaxIdAssumption
<1> QED
  BY <1>1, <1>2

LEMMA StepKeepsUnique == IInv /\ [Next]_vars => UniqueKept
<1> SUFFICES ASSUME IInv, [Next]_vars, UniqueIds PROVE UniqueKept
  BY DEF UniqueKept
<1>0. /\ list \in Seq(Timers) /\ running \in Timers \cup {None} /\ DistinctIds(list)
      /\ wraparound \in {0, 1} /\ (phase = "callback" <=> running # None)
      /\ running # None => \A i \in 1 .. Len(list) : list[i].id # running.id
  BY DEF IInv, TypeOK, UniqueIds, InList
<1>1. IInv'
  BY NextInv
<1>2. ASSUME NEW h \in Howlongs, NEW r \in {0, TIMER_REPEAT}, NEW o \in Owners,
             timer_create_complex(h, r, o)
      PROVE  UniqueKept
  <2> DEFINE new(id) == [id |-> id,
                         trigger |-> [sec |-> now.sec + h.sec, usec |-> now.usec + h.usec],
                         howlong |-> h, flags |-> r, owner |-> o]
  <2>1. PICK id \in Ids :
          /\ NewId(id)
          /\ timer_add_to_list(list, new(id), list')
          /\ next_id' = IF id = MaxId THEN 0 ELSE id + 1
    BY <1>2 DEF timer_create_complex
  <2>2. new(id) \in Timers /\ new(id).id = id
    <3>1. /\ now.sec \in Int /\ now.usec \in Int
          /\ h.sec \in Int /\ h.usec \in Int
      BY BoundsAssumption, UsecAssumption, HowlongsAssumption DEF IInv, TypeOK, Times
    <3> QED
      BY <3>1 DEF Timers
  <2> DEFINE t == new(id)
  <2>3. t \in Timers /\ t.id = id /\ timer_add_to_list(list, t, list')
    BY <2>1, <2>2
  <2> HIDE DEF t
  <2>4. \A i \in 1 .. Len(list) : list[i].id # t.id
    BY <2>1, <2>3, NewIdNew
  <2>5. DistinctIds(list')
    BY <1>0, <2>3, <2>4, AddToList
  <2>6. UNCHANGED <<running, phase>>
    BY <1>2 DEF timer_create_complex
  <2>7. CASE phase # "callback"
    BY <1>0, <2>5, <2>6, <2>7 DEF UniqueKept, UniqueIds
  <2>8. CASE wraparound' = 0
    BY <1>1, <2>5, <2>8 DEF IInv, FreshIds, UniqueKept
  <2>9. wraparound' \in {0, 1}
    BY <1>1 DEF IInv, TypeOK
  <2> QED
    BY <2>5, <2>7, <2>8, <2>9 DEF UniqueKept
<1>3. ASSUME NEW keep, Keeps(list, keep, list'), running' = running PROVE UniqueKept
  <2>1. /\ DistinctIds(list')
        /\ \A i \in 1 .. Len(list') : \E j \in 1 .. Len(list) : list'[i] = list[j]
    BY <1>0, <1>3, KeepsList
  <2> QED
    BY <1>0, <1>3, <2>1 DEF UniqueKept, UniqueIds, InList
<1>4. CASE timer_destroy_all
  <2>1. Len(list') = 0
    BY <1>4 DEF timer_destroy_all
  <2> QED
    BY <2>1 DEF UniqueKept, UniqueIds, DistinctIds, InList
<1>5. CASE RunHead
  <2>1. /\ Head(list) = list[1] /\ 1 \in 1 .. Len(list)
        /\ \A i \in 1 .. Len(Tail(list)) : i + 1 \in 1 .. Len(list) /\ Tail(list)[i] = list[i + 1]
    BY <1>0, <1>5 DEF RunHead
  <2>2. list' = Tail(list) /\ running' = list[1]
    BY <1>5, <2>1 DEF RunHead
  <2>3. \A i, j \in 1 .. Len(list) : i # j => list[i].id # list[j].id
    BY <1>0 DEF DistinctIds
  <2>4. DistinctIds(list')
    BY <2>1, <2>2, <2>3 DEF DistinctIds
  <2>5. \A i \in 1 .. Len(list') : list'[i].id # running'.id
    BY <2>1, <2>2, <2>3
  <2> QED
    BY <2>4, <2>5 DEF UniqueKept, UniqueIds, InList
<1>6. CASE CallbackReturns
  <2>1. running \in Timers /\ running' = None
        /\ \A i \in 1 .. Len(list) : list[i].id # running.id
    BY <1>0, <1>6 DEF CallbackReturns
  <2>2. CASE list' = list
    BY <1>0, <2>1, <2>2 DEF UniqueKept, UniqueIds
  <2>3. CASE list' # list
    <3> DEFINE t == [running EXCEPT !.trigger = NextTrigger(running)]
    <3>1. timer_add_to_list(list, t, list')
      BY <1>6, <2>3 DEF CallbackReturns
    <3>2. NextTrigger(running) \in [sec : Int, usec : Int]
      BY <2>1, UsecAssumption, HowlongsAssumption DEF Timers, NextTrigger
    <3>3. t \in Timers /\ t.id = running.id
      BY <2>1, <3>2 DEF Timers
    <3> HIDE DEF t
    <3>4. DistinctIds(list')
      BY <1>0, <2>1, <3>1, <3>3, AddToList
    <3> QED
      BY <2>1, <3>4 DEF UniqueKept, UniqueIds
  <2> QED
    BY <2>2, <2>3
<1>7. CASE UNCHANGED <<list, running>>
  BY <1>0, <1>7 DEF UniqueKept, UniqueIds, InList
<1> QED
  BY <1>2, <1>3, <1>4, <1>5, <1>6, <1>7
  DEF Next, Client, Loop, timer_destroy, timer_destroy_by_owner, timer_update_now, RunReturns, vars

\* Ids are unique, the running timer's included, until timer_next_id overflows;
\* after that they stay so unless a callback creates a timer.
THEOREM IdsUnique == Spec => IdsStayUnique
<1>1. IInv => (wraparound = 0 => UniqueIds)
  BY DEF IInv, FreshIds
<1>2. IInv /\ [Next]_vars =>
        [UniqueIds => /\ DistinctIds(list')
                      /\ UniqueIds' \/ (phase = "callback" /\ wraparound' = 1)]_vars
  BY StepKeepsUnique DEF UniqueKept
<1> QED
  BY InitInv, NextInv, <1>1, <1>2, PTL DEF Spec, IdsStayUnique

\* timer_run looks at the head only and still leaves no due timer behind.
THEOREM NoneDue == Spec => NoneDueAfterRun
<1>1. IInv /\ [Next]_vars =>
        [phase = "run" /\ phase' = "poll" => \A i \in DOMAIN list : ~ Due(list[i])]_vars
  <2> SUFFICES ASSUME IInv, [Next]_vars, phase = "run", phase' = "poll", NEW i \in DOMAIN list
               PROVE  ~ Due(list[i])
    OBVIOUS
  <2>1. RunReturns
    BY DEF Next, Client, Loop, timer_create_complex, timer_destroy, timer_destroy_all,
           timer_destroy_by_owner, timer_update_now, RunHead, CallbackReturns, ClientRuns, vars
  <2>2. list \in Seq(Timers) /\ Sorted /\ now \in Times
    BY DEF IInv, TypeOK
  <2>3. ~ Due(list[1]) /\ 1 \in DOMAIN list /\ i \in 1 .. Len(list)
    BY <2>1, <2>2 DEF RunReturns
  <2>4. i = 1 \/ ~ Before(list[i].trigger, list[1].trigger)
    BY <2>2, <2>3 DEF Sorted, SortedList
  <2>5. list[1] \in Timers /\ list[i] \in Timers
    BY <2>2, <2>3
  <2>6. /\ now.sec \in Int /\ now.usec \in Int
        /\ \A t \in Timers : t.trigger.sec \in Int /\ t.trigger.usec \in Int
    BY <2>2, UsecAssumption, BoundsAssumption DEF Times, Timers
  <2> QED
    BY <2>3, <2>4, <2>5, <2>6 DEF Due, Before
<1> QED
  BY InitInv, NextInv, <1>1, PTL DEF Spec, NoneDueAfterRun

-----------------------------------------------------------------------------
(* Instants: how far the list is from the order of time                      *)

\* A timer that asks for whole seconds has its microseconds where they belong.
TrueTime(t) == t.howlong.usec = 0 => t.trigger.usec \in 0 .. Usec - 1

TrueTimes ==
  /\ \A i \in 1 .. Len(list) : TrueTime(list[i])
  /\ running # None => TrueTime(running)

LEMMA TrueTimesKept == IInv /\ TrueTimes /\ [Next]_vars => TrueTimes'
<1> SUFFICES ASSUME IInv, TrueTimes, [Next]_vars PROVE TrueTimes'
  OBVIOUS
<1>0. list \in Seq(Timers) /\ now \in Times /\ running \in Timers \cup {None}
  BY DEF IInv, TypeOK
<1>1. ASSUME NEW h \in Howlongs, NEW r \in {0, TIMER_REPEAT}, NEW o \in Owners,
             timer_create_complex(h, r, o)
      PROVE  TrueTimes'
  <2>1. PICK id \in Ids :
          timer_add_to_list(list,
            [id |-> id,
             trigger |-> [sec |-> now.sec + h.sec, usec |-> now.usec + h.usec],
             howlong |-> h, flags |-> r, owner |-> o], list')
    BY <1>1 DEF timer_create_complex
  <2> DEFINE t == [id |-> id,
                   trigger |-> [sec |-> now.sec + h.sec, usec |-> now.usec + h.usec],
                   howlong |-> h, flags |-> r, owner |-> o]
  <2>2. /\ now.sec \in Int /\ now.usec \in 0 .. Usec - 1
        /\ h.sec \in Int /\ h.usec \in Int
    BY <1>0, BoundsAssumption, HowlongsAssumption DEF Times
  <2>3. t \in Timers /\ TrueTime(t)
    <3>1. /\ now.sec + h.sec \in Int /\ now.usec + h.usec \in Int
          /\ h.usec = 0 => now.usec + h.usec \in 0 .. Usec - 1
      BY <2>2, UsecAssumption
    <3> QED
      BY <3>1 DEF Timers, TrueTime
  <2>4. timer_add_to_list(list, t, list')
    BY <2>1
  <2> HIDE DEF t
  <2>5. \A i \in 1 .. Len(list') :
          list'[i] = t \/ \E j \in 1 .. Len(list) : list'[i] = list[j]
    BY <1>0, <2>3, <2>4, AddToList
  <2>6. running' = running
    BY <1>1 DEF timer_create_complex
  <2> QED
    BY <2>3, <2>5, <2>6 DEF TrueTimes
<1>2. ASSUME NEW keep, Keeps(list, keep, list'), running' = running PROVE TrueTimes'
  <2>1. \A i \in 1 .. Len(list') : \E j \in 1 .. Len(list) : list'[i] = list[j]
    BY <1>0, <1>2, KeepsList
  <2> QED
    BY <1>2, <2>1 DEF TrueTimes
<1>3. CASE timer_destroy_all
  <2>1. Len(list') = 0 /\ running' = running
    BY <1>3 DEF timer_destroy_all
  <2> QED
    BY <2>1 DEF TrueTimes
<1>4. CASE RunHead
  <2>1. /\ list # <<>> /\ list' = Tail(list) /\ running' = Head(list)
    BY <1>4 DEF RunHead
  <2>2. /\ Head(list) = list[1] /\ 1 \in 1 .. Len(list)
        /\ \A i \in 1 .. Len(Tail(list)) : i + 1 \in 1 .. Len(list) /\ Tail(list)[i] = list[i + 1]
    BY <1>0, <2>1
  <2> QED
    BY <2>1, <2>2 DEF TrueTimes
<1>5. CASE CallbackReturns
  <2>1. running \in Timers /\ running # None /\ running' = None /\ TrueTime(running)
    BY <1>0, <1>5, NoneAssumption DEF CallbackReturns, IInv, TypeOK, TrueTimes
  <2>2. CASE list' = list
    BY <2>1, <2>2 DEF TrueTimes
  <2>3. CASE list' # list
    <3> DEFINE t == [running EXCEPT !.trigger = NextTrigger(running)]
    <3>1. timer_add_to_list(list, t, list')
      BY <1>5, <2>3 DEF CallbackReturns
    <3>2. /\ running.trigger.sec \in Int /\ running.trigger.usec \in Int
          /\ running.howlong.sec \in Int /\ running.howlong.usec \in Int
          /\ running.howlong.usec = 0 => running.trigger.usec \in 0 .. Usec - 1
      BY <2>1, HowlongsAssumption DEF Timers, TrueTime
    <3>3. /\ NextTrigger(running) \in [sec : Int, usec : Int]
          /\ running.howlong.usec = 0 => NextTrigger(running).usec \in 0 .. Usec - 1
      BY <3>2, UsecAssumption DEF NextTrigger
    <3>4. t \in Timers /\ TrueTime(t)
      BY <2>1, <3>3 DEF Timers, TrueTime
    <3> HIDE DEF t
    <3>5. \A i \in 1 .. Len(list') :
            list'[i] = t \/ \E j \in 1 .. Len(list) : list'[i] = list[j]
      BY <1>0, <3>1, <3>4, AddToList
    <3> QED
      BY <2>1, <3>4, <3>5 DEF TrueTimes
  <2> QED
    BY <2>2, <2>3
<1>6. CASE UNCHANGED <<list, running>>
  BY <1>6 DEF TrueTimes
<1> QED
  BY <1>1, <1>2, <1>3, <1>4, <1>5, <1>6
  DEF Next, Client, Loop, timer_destroy, timer_destroy_by_owner, timer_update_now, RunReturns, vars

\* Seconds weigh more than microseconds, up to those outside their field.
LEMMA FieldsOrder ==
  ASSUME NEW a \in [sec : Int, usec : Int], NEW b \in [sec : Int, usec : Int], ~ Before(b, a)
  PROVE  Instant(a) <= Instant(b) + Over(a) + Under(b)
<1>0. /\ a.sec \in Int /\ a.usec \in Int /\ b.sec \in Int /\ b.usec \in Int
      /\ Usec \in Nat /\ Usec > 0
  BY UsecAssumption
<1>1. /\ Over(a) \in Nat /\ a.usec - Usec <= Over(a)
      /\ Under(b) \in Nat /\ 0 <= b.usec + Under(b)
  BY <1>0 DEF Over, Under
<1>2. a.sec < b.sec \/ (a.sec = b.sec /\ a.usec <= b.usec)
  BY <1>0 DEF Before
<1>3. CASE a.sec = b.sec
  <2>1. a.sec * Usec \in Int
    BY <1>0
  <2> QED
    BY <1>0, <1>1, <1>2, <1>3, <2>1 DEF Instant
<1>4. CASE a.sec < b.sec
  <2> DEFINE d == b.sec - a.sec - 1
  <2>1. d \in Nat /\ b.sec = a.sec + 1 + d
    BY <1>0, <1>4
  <2> HIDE DEF d
  <2>2. a.sec * Usec \in Int /\ d * Usec \in Nat
    BY <2>1, <1>0
  <2>3. b.sec * Usec = a.sec * Usec + Usec + d * Usec
    BY <2>1, <1>0
  <2> QED
    BY <1>0, <1>1, <2>2, <2>3 DEF Instant
<1> QED
  BY <1>2, <1>3, <1>4

LEMMA InstantsSorted == IInv /\ TrueTimes => SortedByInstant
<1> SUFFICES ASSUME IInv, TrueTimes PROVE SortedByInstant
  OBVIOUS
<1>1. list \in Seq(Timers) /\ DOMAIN list = 1 .. Len(list)
  BY DEF IInv, TypeOK
<1>2. ASSUME NEW i \in DOMAIN list, NEW j \in DOMAIN list, i < j
      PROVE  Instant(list[i].trigger) <= Instant(list[j].trigger) + Over(list[i].trigger) + Under(list[j].trigger)
  <2>1. ~ Before(list[j].trigger, list[i].trigger)
    BY <1>1, <1>2 DEF IInv, Sorted, SortedList
  <2>2. list[i].trigger \in [sec : Int, usec : Int] /\ list[j].trigger \in [sec : Int, usec : Int]
    <3>1. list[i] \in Timers /\ list[j] \in Timers
      BY <1>1
    <3> QED
      BY <3>1 DEF Timers
  <2> QED
    BY <2>1, <2>2, FieldsOrder
<1>3. \A i \in DOMAIN list : list[i].howlong.usec = 0 => list[i].trigger.usec \in 0 .. Usec - 1
  BY <1>1 DEF TrueTimes, TrueTime
<1> QED
  BY <1>2, <1>3 DEF SortedByInstant

\* The wait computed by timer_diff ends when the timer is due.
LEMMA WaitExact ==
  ASSUME NEW from \in [sec : Int, usec : Int], NEW to \in [sec : Int, usec : Int], Before(from, to)
  PROVE  /\ Instant(from) + Instant(timer_diff(from, to)) = Instant(to)
         /\ Instant(to) \in Int
<1> DEFINE d == timer_diff(from, to)
<1>1. /\ from.sec \in Int /\ from.usec \in Int /\ to.sec \in Int /\ to.usec \in Int
      /\ Usec \in Int
  BY UsecAssumption
<1>2. from.sec < to.sec \/ (from.sec = to.sec /\ from.usec < to.usec)
  BY DEF Before
<1>3. to.sec * Usec \in Int /\ from.sec * Usec \in Int
  BY <1>1
<1>4. CASE to.usec >= from.usec
  <2>1. d = [sec |-> to.sec - from.sec, usec |-> to.usec - from.usec]
    BY <1>1, <1>2, <1>4 DEF timer_diff
  <2> HIDE DEF d
  <2>2. (to.sec - from.sec) * Usec = to.sec * Usec - from.sec * Usec
    BY <1>1
  <2>3. Instant(d) = (to.sec * Usec - from.sec * Usec) + (to.usec - from.usec)
    BY <2>1, <2>2 DEF Instant
  <2>4. from.sec * Usec + from.usec + Instant(d) = to.sec * Usec + to.usec
    BY <1>1, <1>3, <2>3
  <2> QED
    BY <1>1, <1>3, <2>4 DEF Instant, d
<1>5. CASE to.usec < from.usec
  <2>1. d = [sec |-> to.sec - from.sec - 1, usec |-> to.usec - from.usec + Usec]
    BY <1>1, <1>2, <1>5 DEF timer_diff
  <2> HIDE DEF d
  <2>2. (to.sec - from.sec - 1) * Usec = to.sec * Usec - from.sec * Usec - Usec
    BY <1>1
  <2>3. Instant(d) = (to.sec * Usec - from.sec * Usec - Usec) + (to.usec - from.usec + Usec)
    BY <2>1, <2>2 DEF Instant
  <2>4. from.sec * Usec + from.usec + Instant(d) = to.sec * Usec + to.usec
    BY <1>1, <1>3, <2>3
  <2> QED
    BY <1>1, <1>3, <2>4 DEF Instant, d
<1> QED
  BY <1>1, <1>4, <1>5

\* What PollWakesInTime says of one step.
WakesInTime ==
  phase = "run" /\ phase' = "poll" =>
    \A i \in DOMAIN list :
      Instant(now) + Instant(timer_get_shortest(list)) <=
        Instant(list[i].trigger) + Over(list[1].trigger) + Under(list[i].trigger)

LEMMA StepWakes == IInv /\ [Next]_vars => WakesInTime \/ UNCHANGED vars
<1> SUFFICES ASSUME IInv, [Next]_vars, phase = "run", phase' = "poll", NEW i \in DOMAIN list
             PROVE  Instant(now) + Instant(timer_get_shortest(list)) <=
                      Instant(list[i].trigger) + Over(list[1].trigger) + Under(list[i].trigger)
  BY DEF WakesInTime
<1>1. RunReturns
  BY DEF Next, Client, Loop, timer_create_complex, timer_destroy, timer_destroy_all,
         timer_destroy_by_owner, timer_update_now, RunHead, CallbackReturns, ClientRuns, vars
<1>2. /\ list \in Seq(Timers) /\ now \in Times /\ i \in 1 .. Len(list) /\ list # <<>>
      /\ Head(list) = list[1] /\ 1 \in 1 .. Len(list) /\ (i = 1 \/ 1 < i)
  BY DEF IInv, TypeOK
<1> DEFINE a == list[1].trigger
           b == list[i].trigger
<1>3. Before(now, a) /\ timer_get_shortest(list) = timer_diff(now, a)
  BY <1>1, <1>2 DEF RunReturns, Due, timer_get_shortest
<1>4. /\ a \in [sec : Int, usec : Int] /\ b \in [sec : Int, usec : Int]
      /\ now \in [sec : Int, usec : Int]
  <2>1. list[1] \in Timers /\ list[i] \in Timers
    BY <1>2
  <2>2. now.sec \in Int /\ now.usec \in Int /\ now = [sec |-> now.sec, usec |-> now.usec]
    BY <1>2, BoundsAssumption, UsecAssumption DEF Times
  <2> QED
    BY <2>1, <2>2 DEF Timers
<1>5. Instant(now) + Instant(timer_diff(now, a)) = Instant(a)
  BY <1>3, <1>4, WaitExact
<1>6. ~ Before(b, a)
  <2>1. CASE i = 1
    BY <1>4, <2>1 DEF Before
  <2>2. CASE 1 < i
    BY <1>2, <2>2 DEF IInv, Sorted, SortedList
  <2> QED
    BY <1>2, <2>1, <2>2
<1>7. Instant(a) <= Instant(b) + Over(a) + Under(b)
  BY <1>4, <1>6, FieldsOrder
<1> QED
  BY <1>3, <1>5, <1>7

LEMMA InitTrue == Init => TrueTimes
  BY DEF Init, TrueTimes

\* The list is in the order of the instants at which timers are due, the claim
\* of timer.c's comment, up to the microseconds that were added without a carry;
\* exactly so among timers that asked for whole seconds.
THEOREM ListInOrderOfTime == Spec => []SortedByInstant
<1>1. IInv /\ TrueTimes /\ [Next]_vars => (IInv /\ TrueTimes)'
  BY NextInv, TrueTimesKept
<1> QED
  BY <1>1, InitInv, InitTrue, InstantsSorted, PTL DEF Spec

\* The main loop sleeps past no timer by more than the microseconds that were
\* added without a carry to the time of the first one.
THEOREM PollWakes == Spec => PollWakesInTime
<1>1. IInv /\ [Next]_vars =>
        [phase = "run" /\ phase' = "poll" =>
           \A i \in DOMAIN list :
             Instant(now) + Instant(timer_get_shortest(list)) <=
               Instant(list[i].trigger) + Over(list[1].trigger) + Under(list[i].trigger)]_vars
  BY StepWakes DEF WakesInTime
<1> QED
  BY <1>1, NextInv, InitInv, PTL DEF Spec, PollWakesInTime

=============================================================================
