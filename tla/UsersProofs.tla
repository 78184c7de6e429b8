---------------------------- MODULE UsersProofs ----------------------------
(***************************************************************************)
(* Users (lib/eggdrop/users.c, ircmasks.c): the invariant of the records,  *)
(* their ids and the user file, and on top of it that of the masks, the    *)
(* list of them and the cache.                                             *)
(***************************************************************************)
EXTENDS Users, SequenceLemmas, SequenceTheorems, FiniteSetTheorems, FunctionTheorems

Uids == MinUid .. MaxUid
Names == Handles \cup {""}
Entry == [mask : Masks, u : Slots]
UserType == [st : {"free", "live", "deleted"}, handle : Names, uid : Uids,
             masks : Seq(Masks), b : {0, 1}, bot : {0, 1}, nset : 0 .. 2]
Frame == [u : Slots, c : {0, 1}, v : {0, 1}, fixed : {0, 1}]
FileUser == [handle : Names, uid : Uids, masks : Seq(Masks), b : {0, 1}, nset : 0 .. 2]

FramesType == frames \in Seq(Frame)
ListType == ircmask_list \in Seq(Entry)
CacheType == irchost_cache \in [Hosts -> Slots \cup {None, Absent}]
CountersType == g_uid \in Uids /\ uid_wraparound \in {0, 1}
UsersType == user \in [Slots -> UserType]
DiskType == disk \in [good : {0, 1}, users : Seq(FileUser), next : Uids, wrap : {0, 1}]
TypeInv == /\ run \in {"up", "down", "undefined"}
           /\ UsersType /\ ListType /\ CacheType /\ CountersType /\ FramesType /\ DiskType

-----------------------------------------------------------------------------
\* Users have different ids and handles, and unless ids have wrapped around the
\* next one is above all that are taken.
Distinct ==
  \A u, x \in Slots : u # x /\ Alive(u) /\ Alive(x) =>
    user[u].uid # user[x].uid /\ user[u].handle # user[x].handle
NextIsNew ==
  uid_wraparound = 0 =>
    \A u \in Slots : Alive(u) => user[u].uid >= 1 /\ (g_uid > 0 => user[u].uid < g_uid)
\* The same for the file, which has no more users than there is room for.
FileDistinct ==
  \A i, j \in DOMAIN disk.users : i # j =>
    disk.users[i].uid # disk.users[j].uid /\ disk.users[i].handle # disk.users[j].handle
FileNextIsNew ==
  disk.wrap = 0 =>
    \A i \in DOMAIN disk.users :
      disk.users[i].uid >= 1 /\ (disk.next > 0 => disk.users[i].uid < disk.next)
FileFits == DOMAIN disk.users \subseteq Slots
\* What is owed is in the file, and there when the bot is up.
OwedInFile ==
  \A x \in owed : \E i \in DOMAIN disk.users :
    disk.users[i].uid = x.uid /\ disk.users[i].handle = x.handle
OwedThere ==
  run = "up" =>
    \A x \in owed : \E u \in Slots : Alive(u) /\ user[u].uid = x.uid /\ user[u].handle = x.handle
TornOwesNothing == disk.good = 0 => owed = {}

IdsInv == /\ Distinct /\ NextIsNew /\ FileDistinct /\ FileNextIsNew /\ FileFits
          /\ OwedInFile /\ OwedThere /\ TornOwesNothing

BotInv == \A u \in Slots : user[u].bot = user[u].b

-----------------------------------------------------------------------------
\* A mask of a user is not "*" and nobody else has it; the same in the file.
Has(s, m) == \E i \in DOMAIN s : s[i] = m
OwnMasks ==
  \A u \in Slots, m \in Masks : Alive(u) /\ Has(user[u].masks, m) =>
    m # "*" /\ \A x \in Slots : x # u /\ Alive(x) => ~ Has(user[x].masks, m)
FileOwnMasks ==
  \A k \in DOMAIN disk.users, m \in Masks : Has(disk.users[k].masks, m) =>
    m # "*" /\ \A x \in DOMAIN disk.users : x # k => ~ Has(disk.users[x].masks, m)
\* The list holds each mask of each live user as often as the user has it.
Complete ==
  \A u \in Slots, m \in Masks :
    Count(ircmask_list, [mask |-> m, u |-> u]) = IF Alive(u) THEN Count(user[u].masks, m) ELSE 0
LongestFirst(l) ==
  \A i, j \in DOMAIN l : i < j => Length[l[i].mask] >= Length[l[j].mask]
Sorted == LongestFirst(ircmask_list)
\* The cached user of a host fits it, and when nobody is cached nobody does.
Fits(u, h) == Alive(u) /\ \E m \in Masks : Has(user[u].masks, m) /\ Strength[m][h] > 0
RightAt(h) ==
  \/ irchost_cache[h] = Absent
  \/ irchost_cache[h] \in Slots /\ Fits(irchost_cache[h], h)
  \/ irchost_cache[h] = None /\ \A u \in Slots : ~ Fits(u, h)
CacheRight == \A h \in Hosts : RightAt(h)
DownHasNoCache == run = "down" => \A h \in Hosts : irchost_cache[h] = Absent

ClashFree == OwnMasks /\ FileOwnMasks /\ Complete /\ CacheRight
MasksInv == Sorted /\ DownHasNoCache /\ (clash = 0 => ClashFree)

-----------------------------------------------------------------------------
\* Ids.

LEMMA Wrap ==
  ASSUME NEW s \in Nat, s > 0, NEW c \in Nat, c < s + s
  PROVE  c % s = IF c < s THEN c ELSE c - s
  <1>1. CASE c < s
    BY <1>1
  <1>2. CASE c >= s
    BY <1>2
  <1> QED
    BY <1>1, <1>2

LEMMA SpanFacts ==
  /\ Cardinality(Slots) \in Nat /\ Slots = 1 .. Cardinality(Slots) /\ IsFiniteSet(Slots)
  /\ MinUid \in Int /\ MaxUid \in Int /\ MinUid < 0 /\ MaxUid > 0
  /\ Span \in Nat /\ Span > Cardinality(Slots) + 1 /\ Span = MaxUid - MinUid + 1
  BY UsersAssumption, FS_CardinalityType DEF Span

\* Counting up to as many ids as there are users comes back to none.
LEMMA LaterProperties ==
  ASSUME NEW n \in Uids, NEW k \in 0 .. Cardinality(Slots) + 1
  PROVE  /\ Later(n, k) \in Uids
         /\ Later(n, k) = IF n + k <= MaxUid THEN n + k ELSE n + k - Span
  <1> DEFINE c == n - MinUid + k
  <1>1. c \in Nat /\ c < Span + Span /\ Span > 0
    BY SpanFacts DEF Uids
  <1>2. c % Span = IF c < Span THEN c ELSE c - Span
    <2>1. Span \in Nat
      BY SpanFacts
    <2> HIDE DEF c
    <2> QED
      BY <1>1, <2>1, Wrap
  <1>3. Later(n, k) = MinUid + (c % Span)
    BY DEF Later
  <1>4. Later(n, k) = IF n + k <= MaxUid THEN n + k ELSE n + k - Span
    <2> DEFINE r == c % Span
    <2>1. r = IF c < Span THEN c ELSE c - Span
      BY <1>2
    <2>2. Later(n, k) = MinUid + r
      BY <1>3
    <2> HIDE DEF r
    <2> QED
      BY <2>1, <2>2, SpanFacts DEF Uids
  <1> QED
    BY <1>4, SpanFacts DEF Uids

LEMMA LaterDiffer ==
  ASSUME NEW n \in Uids, NEW j \in 0 .. Cardinality(Slots), NEW k \in 0 .. Cardinality(Slots),
         Later(n, j) = Later(n, k)
  PROVE  j = k
  <1>1. j \in 0 .. Cardinality(Slots) + 1 /\ k \in 0 .. Cardinality(Slots) + 1
    BY SpanFacts
  <1>2. Later(n, j) = IF n + j <= MaxUid THEN n + j ELSE n + j - Span
    BY <1>1, LaterProperties
  <1>3. Later(n, k) = IF n + k <= MaxUid THEN n + k ELSE n + k - Span
    BY <1>1, LaterProperties
  <1>4. n \in Int /\ j \in Int /\ k \in Int /\ Span \in Int /\ MaxUid \in Int
    BY SpanFacts DEF Uids
  <1>5. j - k < Span /\ k - j < Span
    BY SpanFacts
  <1>6. (IF n + j <= MaxUid THEN n + j ELSE n + j - Span) = (IF n + k <= MaxUid THEN n + k ELSE n + k - Span)
    <2> HIDE DEF Span
    <2> QED
      BY <1>2, <1>3
  <1> HIDE DEF Span
  <1>7. CASE n + j <= MaxUid /\ n + k <= MaxUid
    BY <1>4, <1>6, <1>7
  <1>8. CASE n + j <= MaxUid /\ ~ n + k <= MaxUid
    BY <1>4, <1>5, <1>6, <1>8
  <1>9. CASE ~ n + j <= MaxUid /\ n + k <= MaxUid
    BY <1>4, <1>5, <1>6, <1>9
  <1>10. CASE ~ n + j <= MaxUid /\ ~ n + k <= MaxUid
    BY <1>4, <1>6, <1>10
  <1> QED
    BY <1>7, <1>8, <1>9, <1>10

\* One of the next ids is free: there are more of them than users.
LEMMA FreeIdExists ==
  ASSUME NEW n \in Uids
  PROVE  \E k \in 0 .. Cardinality(Slots) : Later(n, k) \notin Taken
  <1> DEFINE N == Cardinality(Slots)
             f == [k \in 0 .. N |-> CHOOSE u \in Slots : Alive(u) /\ user[u].uid = Later(n, k)]
  <1> SUFFICES ASSUME \A k \in 0 .. N : Later(n, k) \in Taken
               PROVE  FALSE
    OBVIOUS
  <1>0. N \in Nat
    BY SpanFacts
  <1>1. ASSUME NEW k \in 0 .. N
        PROVE  f[k] \in Slots /\ user[f[k]].uid = Later(n, k)
    <2>1. \E u \in Slots : Alive(u) /\ user[u].uid = Later(n, k)
      BY DEF Taken
    <2> QED
      BY <2>1
  <1>2. f \in [0 .. N -> Slots]
    BY <1>1
  <1>3. IsFiniteSet(0 .. N) /\ Cardinality(0 .. N) = N + 1
    BY <1>0, FS_Interval
  <1>4. PICK x, y \in 0 .. N : x # y /\ f[x] = f[y]
    <2>1. IsFiniteSet(Slots) /\ Cardinality(Slots) < Cardinality(0 .. N)
      BY <1>0, <1>3, SpanFacts
    <2> HIDE DEF f, N
    <2> QED
      BY <1>2, <1>3, <2>1, FS_PigeonHole
  <1>5. Later(n, x) = Later(n, y)
    <2> HIDE DEF f
    <2> QED
      BY <1>1, <1>4
  <1> QED
    BY <1>4, <1>5, LaterDiffer

LEMMA NewId ==
  ASSUME TypeInv
  PROVE  /\ user_get_uid \in Uids
         /\ Wrapped \in {0, 1}
         /\ Wrapped = 0 => user_get_uid = g_uid /\ g_uid > 0 /\ uid_wraparound = 0
         /\ Wrapped = 1 => user_get_uid \notin Taken
  <1> DEFINE from == IF g_uid <= 0 THEN 1 ELSE g_uid
             free == {k \in 0 .. Cardinality(Slots) : Later(from, k) \notin Taken}
             k0 == CHOOSE k \in free : \A x \in free : k <= x
  <1>1. from \in Uids /\ g_uid \in Uids /\ uid_wraparound \in {0, 1}
    BY SpanFacts DEF TypeInv, CountersType, Uids
  <1>2. k0 \in free
    <2>1. free # {} /\ free \in SUBSET Nat
      BY <1>1, FreeIdExists
    <2> HIDE DEF free
    <2>2. \E k \in free : \A x \in free : k <= x
      BY <2>1, LeastNat
    <2> QED
      BY <2>2
  <1>3. Later(from, k0) \in Uids /\ Later(from, k0) \notin Taken
    <2>1. k0 \in 0 .. Cardinality(Slots) + 1 /\ Later(from, k0) \notin Taken
      BY <1>2, SpanFacts
    <2> HIDE DEF from, k0
    <2> QED
      BY <1>1, <2>1, LaterProperties
  <1>4. user_get_uid = IF Wrapped = 0 THEN from ELSE Later(from, k0)
    BY DEF user_get_uid
  <1> HIDE DEF k0
  <1> QED
    BY <1>1, <1>3, <1>4, SpanFacts DEF Wrapped, Uids

-----------------------------------------------------------------------------
\* The list of masks.

LEMMA EntryType ==
  ASSUME NEW m \in Masks, NEW u \in Slots
  PROVE  [mask |-> m, u |-> u] \in Entry
  BY DEF Entry

\* An entry is put before the first that is not longer.
LEMMA AddPlace ==
  ASSUME NEW l \in Seq(Entry), NEW m \in Masks, NEW u \in Slots
  PROVE  \E p \in 1 .. Len(l) + 1 :
           /\ ircmask_list_add(l, m, u) = InsertAt(l, p, [mask |-> m, u |-> u])
           /\ \A i \in 1 .. p - 1 : Length[l[i].mask] > Length[m]
           /\ p <= Len(l) => Length[l[p].mask] <= Length[m]
  <1> DEFINE after == {i \in DOMAIN l : Length[l[i].mask] <= Length[m]}
             ends == after \cup {Len(l) + 1}
             p == Min(ends)
  <1>0. Len(l) \in Nat /\ DOMAIN l = 1 .. Len(l) /\ \A i \in 1 .. Len(l) : l[i] \in Entry
    OBVIOUS
  <1>1. ends \in SUBSET Nat /\ ends # {} /\ Len(l) + 1 \in ends
    BY <1>0
  <1>2. p \in ends /\ \A j \in ends : p <= j
    <2> HIDE DEF ends
    <2> QED
      BY <1>1, MinOfNumbers
  <1>3. ircmask_list_add(l, m, u) = InsertAt(l, p, [mask |-> m, u |-> u])
    BY DEF ircmask_list_add
  <1> HIDE DEF p
  <1>4. p \in 1 .. Len(l) + 1 /\ (p <= Len(l) => Length[l[p].mask] <= Length[m])
    BY <1>0, <1>2
  <1>5. ASSUME NEW i \in 1 .. p - 1
        PROVE  Length[l[i].mask] > Length[m]
    <2>1. i \in 1 .. Len(l) /\ i < p
      BY <1>0, <1>4
    <2>2. i \notin ends
      BY <1>2, <2>1
    <2>3. ~ Length[l[i].mask] <= Length[m]
      BY <1>0, <2>1, <2>2
    <2>4. Length[l[i].mask] \in Nat /\ Length[m] \in Nat
      BY <1>0, <2>1, UsersAssumption DEF Entry
    <2> QED
      BY <2>3, <2>4
  <1> QED
    BY <1>3, <1>4, <1>5

LEMMA AddType ==
  ASSUME NEW l \in Seq(Entry), NEW m \in Masks, NEW u \in Slots
  PROVE  ircmask_list_add(l, m, u) \in Seq(Entry)
  <1>1. PICK p \in 1 .. Len(l) + 1 : ircmask_list_add(l, m, u) = InsertAt(l, p, [mask |-> m, u |-> u])
    BY AddPlace
  <1>2. InsertAt(l, p, [mask |-> m, u |-> u]) \in Seq(Entry)
    BY EntryType, InsertAtProperties
  <1> QED
    BY <1>1, <1>2

\* The first entry with the mask is taken out, if there is one.
LEMMA DelPlace ==
  ASSUME NEW l \in Seq(Entry), NEW m
  PROVE  \/ /\ ircmask_list_del(l, m) = l
            /\ \A i \in 1 .. Len(l) : l[i].mask # m
         \/ \E p \in 1 .. Len(l) :
              ircmask_list_del(l, m) = RemoveAt(l, p) /\ l[p].mask = m
  <1> DEFINE at == {i \in DOMAIN l : l[i].mask = m /\ \A j \in 1 .. i - 1 : l[j].mask # m}
             all == {i \in DOMAIN l : l[i].mask = m}
  <1>0. Len(l) \in Nat /\ DOMAIN l = 1 .. Len(l)
    OBVIOUS
  <1>1. ircmask_list_del(l, m) = IF at = {} THEN l ELSE RemoveAt(l, CHOOSE i \in at : TRUE)
    BY DEF ircmask_list_del
  <1>2. CASE at = {}
    <2>1. all = {}
      <3> SUFFICES ASSUME all # {} PROVE FALSE
        OBVIOUS
      <3>1. all \in SUBSET Nat
        BY <1>0
      <3>2. PICK p \in all : \A j \in all : p <= j
        <4> HIDE DEF all
        <4> QED
          BY <3>1, LeastNat
      <3>3. p \in at
        BY <1>0, <3>2
      <3> QED
        BY <1>2, <3>3
    <2> QED
      BY <1>0, <1>1, <1>2, <2>1
  <1>3. CASE at # {}
    <2> DEFINE p == CHOOSE i \in at : TRUE
    <2>1. p \in at
      BY <1>3
    <2>2. ircmask_list_del(l, m) = RemoveAt(l, p)
      BY <1>1, <1>3
    <2> HIDE DEF p
    <2> QED
      BY <1>0, <2>1, <2>2
  <1> QED
    BY <1>2, <1>3

LEMMA DelType ==
  ASSUME NEW l \in Seq(Entry), NEW m
  PROVE  ircmask_list_del(l, m) \in Seq(Entry)
  <1>1. CASE ircmask_list_del(l, m) = l
    BY <1>1
  <1>2. CASE \E p \in 1 .. Len(l) : ircmask_list_del(l, m) = RemoveAt(l, p)
    BY <1>2, RemoveAtProperties
  <1> QED
    BY <1>1, <1>2, DelPlace

\* The lists that user_delete goes through.
LEMMA DeletionStages ==
  ASSUME NEW l \in Seq(Entry), NEW ms \in Seq(Masks)
  PROVE  \E g \in [0 .. Len(ms) -> Seq(Entry)] :
           /\ g[0] = l /\ FoldLeft(ircmask_list_del, l, ms) = g[Len(ms)]
           /\ \A k \in 1 .. Len(ms) : g[k] = ircmask_list_del(g[k - 1], ms[k])
  <1> DEFINE n == Len(ms)
             step == [k \in 1 .. n |-> [v \in Seq(Entry) |-> ircmask_list_del(v, ms[k])]]
             Is(f) == f = [s \in SUBSET (1 .. n) |->
                             IF s = {} THEN l
                             ELSE ircmask_list_del(f[s \ {Max(s)}], ms[Max(s)])]
             it == CHOOSE f : Is(f)
  <1>0. /\ n \in Nat /\ DOMAIN ms = 1 .. n /\ l \in Seq(Entry)
        /\ \A k \in 1 .. n : ms[k] \in Masks
    OBVIOUS
  <1>1. \A v \in Seq(Entry), k \in 1 .. n : ircmask_list_del(v, ms[k]) \in Seq(Entry)
    <2> HIDE DEF n
    <2> QED
      BY DelType
  <1>2. step \in [1 .. n -> [Seq(Entry) -> Seq(Entry)]]
    <2> HIDE DEF n
    <2> QED
      BY <1>1
  <1>3. \E f : Is(f)
    <2>1. PICK f : LastFirst(f, n, Seq(Entry), l, step)
      <3>1. n \in Nat /\ l \in Seq(Entry)
        BY <1>0
      <3> HIDE DEF step, n
      <3> QED
        BY <3>1, <1>2, LastFirstExists
    <2>2. ASSUME NEW s \in SUBSET (1 .. n), s # {}
          PROVE  f[s] = ircmask_list_del(f[s \ {Max(s)}], ms[Max(s)])
      <3>1. Max(s) \in 1 .. n
        <4>1. n \in Nat
          BY <1>0
        <4> HIDE DEF n
        <4> QED
          BY <4>1, <2>2, MaxOfNumbers
      <3>2. f[s \ {Max(s)}] \in Seq(Entry)
        BY <2>1 DEF LastFirst
      <3>3. f[s] = step[Max(s)][f[s \ {Max(s)}]]
        BY <2>1, <2>2 DEF LastFirst
      <3> HIDE DEF n
      <3> QED
        BY <3>1, <3>2, <3>3
    <2>3. f = [s \in SUBSET (1 .. n) |-> f[s]]
      BY <2>1 DEF LastFirst
    <2>4. f[{}] = l
      BY <2>1 DEF LastFirst
    <2>5. Is(f)
      <3> HIDE DEF n, step
      <3> QED
        BY <2>2, <2>3, <2>4
    <2> QED
      BY <2>5
  <1>4. Is(it)
    <2> HIDE DEF Is
    <2> QED
      BY <1>3
  <1>5. FoldLeft(ircmask_list_del, l, ms) = it[1 .. n]
    <2>1. FoldLeft(ircmask_list_del, l, ms) = it[DOMAIN ms]
      BY <1>0 DEF FoldLeft, MapThenFoldSet
    <2> HIDE DEF it
    <2> QED
      BY <1>0, <2>1
  <1>6. it[{}] = l
    <2> HIDE DEF n, it
    <2> QED
      BY <1>4
  <1>7. ASSUME NEW k \in 1 .. n
        PROVE  it[1 .. k] = ircmask_list_del(it[1 .. k - 1], ms[k])
    <2> HIDE DEF it
    <2>1. 1 .. k \in SUBSET (1 .. n) /\ k \in Nat /\ k > 0
      BY <1>0
    <2>2. Max(1 .. k) = k /\ (1 .. k) \ {k} = 1 .. k - 1 /\ 1 .. k # {}
      BY <2>1, TopOfInterval
    <2> QED
      BY <1>4, <2>1, <2>2
  <1>8. PICK g : Stages(g, it, n, Seq(Entry), l, step)
    <2>1. Unfolds(it, n, Seq(Entry), l, step)
      <3>1. ASSUME NEW k \in 1 .. n, it[1 .. k - 1] \in Seq(Entry)
            PROVE  it[1 .. k] = step[k][it[1 .. k - 1]]
        <4> HIDE DEF it, n
        <4> QED
          BY <1>7, <3>1
      <3> HIDE DEF it, step, n
      <3> QED
        BY <1>6, <3>1 DEF Unfolds
    <2>2. n \in Nat /\ l \in Seq(Entry)
      BY <1>0
    <2> HIDE DEF it, step, n
    <2> QED
      BY <1>2, <2>1, <2>2, FoldStages
  <1>9. ASSUME NEW k \in 1 .. n
        PROVE  g[k] = ircmask_list_del(g[k - 1], ms[k])
    <2>1. g[k - 1] \in Seq(Entry)
      <3>1. n \in Nat
        BY <1>0
      <3> HIDE DEF n, step, it
      <3> QED
        BY <3>1, <1>8 DEF Stages
    <2>2. g[k] = step[k][g[k - 1]]
      <3> HIDE DEF n, step, it
      <3> QED
        BY <1>8 DEF Stages
    <2> HIDE DEF n
    <2> QED
      BY <2>1, <2>2
  <1>10. g \in [0 .. n -> Seq(Entry)] /\ g[0] = l /\ g[n] = it[1 .. n]
    <2> HIDE DEF n, step, it
    <2> QED
      BY <1>8 DEF Stages
  <1> HIDE DEF it
  <1> QED
    BY <1>5, <1>9, <1>10

\* The lists that reading the masks of a user goes through.
LEMMA MasksStages ==
  ASSUME NEW l \in Seq(Entry), NEW u \in Slots, disk.users[u].masks \in Seq(Masks)
  PROVE  \E g \in [0 .. Len(disk.users[u].masks) -> Seq(Entry)] :
           /\ g[0] = l /\ LoadedMasks(l, u) = g[Len(disk.users[u].masks)]
           /\ \A k \in 1 .. Len(disk.users[u].masks) : g[k] = ircmask_list_add(g[k - 1], disk.users[u].masks[k], u)
  <1> DEFINE n == Len(disk.users[u].masks)
             step == [k \in 1 .. n |-> [v \in Seq(Entry) |-> ircmask_list_add(v, disk.users[u].masks[k], u)]]
             Is(f) == f = [s \in SUBSET (1 .. n) |->
                             IF s = {} THEN l
                             ELSE ircmask_list_add(f[s \ {Max(s)}], disk.users[u].masks[Max(s)], u)]
             it == CHOOSE f : Is(f)
  <1>0. /\ n \in Nat /\ DOMAIN disk.users[u].masks = 1 .. n /\ l \in Seq(Entry)
        /\ \A k \in 1 .. n : disk.users[u].masks[k] \in Masks
    OBVIOUS
  <1>1. \A v \in Seq(Entry), k \in 1 .. n : ircmask_list_add(v, disk.users[u].masks[k], u) \in Seq(Entry)
    <2> HIDE DEF n
    <2> QED
      BY <1>0, AddType
  <1>2. step \in [1 .. n -> [Seq(Entry) -> Seq(Entry)]]
    <2> HIDE DEF n
    <2> QED
      BY <1>1
  <1>3. \E f : Is(f)
    <2>1. PICK f : LastFirst(f, n, Seq(Entry), l, step)
      <3>1. n \in Nat /\ l \in Seq(Entry)
        BY <1>0
      <3> HIDE DEF step, n
      <3> QED
        BY <3>1, <1>2, LastFirstExists
    <2>2. ASSUME NEW s \in SUBSET (1 .. n), s # {}
          PROVE  f[s] = ircmask_list_add(f[s \ {Max(s)}], disk.users[u].masks[Max(s)], u)
      <3>1. Max(s) \in 1 .. n
        <4>1. n \in Nat
          BY <1>0
        <4> HIDE DEF n
        <4> QED
          BY <4>1, <2>2, MaxOfNumbers
      <3>2. f[s \ {Max(s)}] \in Seq(Entry)
        BY <2>1 DEF LastFirst
      <3>3. f[s] = step[Max(s)][f[s \ {Max(s)}]]
        BY <2>1, <2>2 DEF LastFirst
      <3> HIDE DEF n
      <3> QED
        BY <3>1, <3>2, <3>3
    <2>3. f = [s \in SUBSET (1 .. n) |-> f[s]]
      BY <2>1 DEF LastFirst
    <2>4. f[{}] = l
      BY <2>1 DEF LastFirst
    <2>5. Is(f)
      <3> HIDE DEF n, step
      <3> QED
        BY <2>2, <2>3, <2>4
    <2> QED
      BY <2>5
  <1>4. Is(it)
    <2> HIDE DEF Is
    <2> QED
      BY <1>3
  <1>5. LoadedMasks(l, u) = it[1 .. n]
    <2>1. LoadedMasks(l, u) = it[DOMAIN disk.users[u].masks]
      BY <1>0 DEF LoadedMasks, FoldLeft, MapThenFoldSet
    <2> HIDE DEF it
    <2> QED
      BY <1>0, <2>1
  <1>6. it[{}] = l
    <2> HIDE DEF n, it
    <2> QED
      BY <1>4
  <1>7. ASSUME NEW k \in 1 .. n
        PROVE  it[1 .. k] = ircmask_list_add(it[1 .. k - 1], disk.users[u].masks[k], u)
    <2> HIDE DEF it
    <2>1. 1 .. k \in SUBSET (1 .. n) /\ k \in Nat /\ k > 0
      BY <1>0
    <2>2. Max(1 .. k) = k /\ (1 .. k) \ {k} = 1 .. k - 1 /\ 1 .. k # {}
      BY <2>1, TopOfInterval
    <2> QED
      BY <1>4, <2>1, <2>2
  <1>8. PICK g : Stages(g, it, n, Seq(Entry), l, step)
    <2>1. Unfolds(it, n, Seq(Entry), l, step)
      <3>1. ASSUME NEW k \in 1 .. n, it[1 .. k - 1] \in Seq(Entry)
            PROVE  it[1 .. k] = step[k][it[1 .. k - 1]]
        <4> HIDE DEF it, n
        <4> QED
          BY <1>7, <3>1
      <3> HIDE DEF it, step, n
      <3> QED
        BY <1>6, <3>1 DEF Unfolds
    <2>2. n \in Nat /\ l \in Seq(Entry)
      BY <1>0
    <2> HIDE DEF it, step, n
    <2> QED
      BY <1>2, <2>1, <2>2, FoldStages
  <1>9. ASSUME NEW k \in 1 .. n
        PROVE  g[k] = ircmask_list_add(g[k - 1], disk.users[u].masks[k], u)
    <2>1. g[k - 1] \in Seq(Entry)
      <3>1. n \in Nat
        BY <1>0
      <3> HIDE DEF n, step, it
      <3> QED
        BY <3>1, <1>8 DEF Stages
    <2>2. g[k] = step[k][g[k - 1]]
      <3> HIDE DEF n, step, it
      <3> QED
        BY <1>8 DEF Stages
    <2> HIDE DEF n
    <2> QED
      BY <2>1, <2>2
  <1>10. g \in [0 .. n -> Seq(Entry)] /\ g[0] = l /\ g[n] = it[1 .. n]
    <2> HIDE DEF n, step, it
    <2> QED
      BY <1>8 DEF Stages
  <1> HIDE DEF it
  <1> QED
    BY <1>5, <1>9, <1>10

LEMMA MasksType ==
  ASSUME NEW l \in Seq(Entry), NEW u \in Slots, disk.users[u].masks \in Seq(Masks)
  PROVE  LoadedMasks(l, u) \in Seq(Entry)
  <1> DEFINE n == Len(disk.users[u].masks)
  <1>1. n \in Nat
    OBVIOUS
  <1>2. PICK g \in [0 .. n -> Seq(Entry)] : LoadedMasks(l, u) = g[n]
    BY MasksStages
  <1> HIDE DEF n
  <1> QED
    BY <1>1, <1>2

FileOrder == [u \in DOMAIN disk.users |-> u]

\* The lists that reading the users goes through.
LEMMA UsersStages ==
  ASSUME NEW N \in Nat, DOMAIN disk.users = 1 .. N, 1 .. N \subseteq Slots,
         \A u \in 1 .. N : disk.users[u].masks \in Seq(Masks)
  PROVE  \E g \in [0 .. Len(FileOrder) -> Seq(Entry)] :
           /\ g[0] = <<>> /\ LoadedList = g[Len(FileOrder)]
           /\ \A k \in 1 .. Len(FileOrder) : g[k] = LoadedMasks(g[k - 1], FileOrder[k])
  <1> DEFINE n == Len(FileOrder)
             step == [k \in 1 .. n |-> [v \in Seq(Entry) |-> LoadedMasks(v, FileOrder[k])]]
             Is(f) == f = [s \in SUBSET (1 .. n) |->
                             IF s = {} THEN <<>>
                             ELSE LoadedMasks(f[s \ {Max(s)}], FileOrder[Max(s)])]
             it == CHOOSE f : Is(f)
  <1>0. /\ n \in Nat /\ DOMAIN FileOrder = 1 .. n /\ <<>> \in Seq(Entry)
        /\ \A k \in 1 .. n : FileOrder[k] \in 1 .. N
    BY DEF FileOrder
  <1>1. \A v \in Seq(Entry), k \in 1 .. n : LoadedMasks(v, FileOrder[k]) \in Seq(Entry)
    <2> HIDE DEF n
    <2> QED
      BY <1>0, MasksType
  <1>2. step \in [1 .. n -> [Seq(Entry) -> Seq(Entry)]]
    <2> HIDE DEF n
    <2> QED
      BY <1>1
  <1>3. \E f : Is(f)
    <2>1. PICK f : LastFirst(f, n, Seq(Entry), <<>>, step)
      <3>1. n \in Nat /\ <<>> \in Seq(Entry)
        BY <1>0
      <3> HIDE DEF step, n
      <3> QED
        BY <3>1, <1>2, LastFirstExists
    <2>2. ASSUME NEW s \in SUBSET (1 .. n), s # {}
          PROVE  f[s] = LoadedMasks(f[s \ {Max(s)}], FileOrder[Max(s)])
      <3>1. Max(s) \in 1 .. n
        <4>1. n \in Nat
          BY <1>0
        <4> HIDE DEF n
        <4> QED
          BY <4>1, <2>2, MaxOfNumbers
      <3>2. f[s \ {Max(s)}] \in Seq(Entry)
        BY <2>1 DEF LastFirst
      <3>3. f[s] = step[Max(s)][f[s \ {Max(s)}]]
        BY <2>1, <2>2 DEF LastFirst
      <3> HIDE DEF n
      <3> QED
        BY <3>1, <3>2, <3>3
    <2>3. f = [s \in SUBSET (1 .. n) |-> f[s]]
      BY <2>1 DEF LastFirst
    <2>4. f[{}] = <<>>
      BY <2>1 DEF LastFirst
    <2>5. Is(f)
      <3> HIDE DEF n, step
      <3> QED
        BY <2>2, <2>3, <2>4
    <2> QED
      BY <2>5
  <1>4. Is(it)
    <2> HIDE DEF Is
    <2> QED
      BY <1>3
  <1>5. LoadedList = it[1 .. n]
    <2>1. LoadedList = it[DOMAIN FileOrder]
      BY <1>0 DEF LoadedList, FileOrder, FoldLeft, MapThenFoldSet
    <2> HIDE DEF it
    <2> QED
      BY <1>0, <2>1
  <1>6. it[{}] = <<>>
    <2> HIDE DEF n, it
    <2> QED
      BY <1>4
  <1>7. ASSUME NEW k \in 1 .. n
        PROVE  it[1 .. k] = LoadedMasks(it[1 .. k - 1], FileOrder[k])
    <2> HIDE DEF it
    <2>1. 1 .. k \in SUBSET (1 .. n) /\ k \in Nat /\ k > 0
      BY <1>0
    <2>2. Max(1 .. k) = k /\ (1 .. k) \ {k} = 1 .. k - 1 /\ 1 .. k # {}
      BY <2>1, TopOfInterval
    <2> QED
      BY <1>4, <2>1, <2>2
  <1>8. PICK g : Stages(g, it, n, Seq(Entry), <<>>, step)
    <2>1. Unfolds(it, n, Seq(Entry), <<>>, step)
      <3>1. ASSUME NEW k \in 1 .. n, it[1 .. k - 1] \in Seq(Entry)
            PROVE  it[1 .. k] = step[k][it[1 .. k - 1]]
        <4> HIDE DEF it, n
        <4> QED
          BY <1>7, <3>1
      <3> HIDE DEF it, step, n
      <3> QED
        BY <1>6, <3>1 DEF Unfolds
    <2>2. n \in Nat /\ <<>> \in Seq(Entry)
      BY <1>0
    <2> HIDE DEF it, step, n
    <2> QED
      BY <1>2, <2>1, <2>2, FoldStages
  <1>9. ASSUME NEW k \in 1 .. n
        PROVE  g[k] = LoadedMasks(g[k - 1], FileOrder[k])
    <2>1. g[k - 1] \in Seq(Entry)
      <3>1. n \in Nat
        BY <1>0
      <3> HIDE DEF n, step, it
      <3> QED
        BY <3>1, <1>8 DEF Stages
    <2>2. g[k] = step[k][g[k - 1]]
      <3> HIDE DEF n, step, it
      <3> QED
        BY <1>8 DEF Stages
    <2> HIDE DEF n
    <2> QED
      BY <2>1, <2>2
  <1>10. g \in [0 .. n -> Seq(Entry)] /\ g[0] = <<>> /\ g[n] = it[1 .. n]
    <2> HIDE DEF n, step, it
    <2> QED
      BY <1>8 DEF Stages
  <1> HIDE DEF it
  <1> QED
    BY <1>5, <1>9, <1>10

-----------------------------------------------------------------------------
\* How often something is in a sequence.

Where(s, x) == {i \in DOMAIN s : s[i] = x}

LEMMA CountType ==
  ASSUME NEW S, NEW s \in Seq(S), NEW x
  PROVE  /\ IsFiniteSet(Where(s, x)) /\ Count(s, x) = Cardinality(Where(s, x))
         /\ Count(s, x) \in Nat
         /\ Count(s, x) = 0 <=> \A i \in 1 .. Len(s) : s[i] # x
  <1> DEFINE at == {i \in DOMAIN s : s[i] = x}
  <1>1. Len(s) \in Nat /\ DOMAIN s = 1 .. Len(s)
    OBVIOUS
  <1>2. IsFiniteSet(1 .. Len(s)) /\ at \in SUBSET (1 .. Len(s))
    BY <1>1, FS_Interval
  <1>3. IsFiniteSet(at)
    <2> HIDE DEF at
    <2> QED
      BY <1>2, FS_Subset
  <1>4. Cardinality(at) \in Nat /\ (Cardinality(at) = 0 <=> at = {})
    <2> HIDE DEF at
    <2> QED
      BY <1>3, FS_CardinalityType, FS_EmptySet
  <1>5. Count(s, x) = Cardinality(at)
    BY DEF Count
  <1>6. at = {} <=> \A i \in 1 .. Len(s) : s[i] # x
    BY <1>1
  <1> QED
    BY <1>3, <1>4, <1>5, <1>6 DEF Where

\* An element that is taken out is counted once less, and only it.
LEMMA CountRemove ==
  ASSUME NEW S, NEW s \in Seq(S), NEW p \in 1 .. Len(s), NEW x
  PROVE  Count(s, x) = Count(RemoveAt(s, p), x) + (IF s[p] = x THEN 1 ELSE 0)
  <1> DEFINE t == RemoveAt(s, p)
             A == Where(s, x)
             B == Where(t, x)
             up == [i \in B |-> IF i < p THEN i ELSE i + 1]
  <1>1. /\ t \in Seq(S) /\ Len(t) = Len(s) - 1
        /\ \A j \in 1 .. Len(s) - 1 : t[j] = IF j < p THEN s[j] ELSE s[j + 1]
    BY RemoveAtProperties
  <1>2. Len(s) \in Nat /\ DOMAIN s = 1 .. Len(s) /\ p \in Nat
    OBVIOUS
  <1> HIDE DEF t
  <1>3. DOMAIN t = 1 .. Len(s) - 1
    BY <1>1
  <1>4. IsFiniteSet(A) /\ IsFiniteSet(B)
    BY <1>1, CountType
  <1>5. up \in [B -> A \ {p}]
    <2> SUFFICES ASSUME NEW i \in B
                 PROVE  (IF i < p THEN i ELSE i + 1) \in A \ {p}
      OBVIOUS
    <2>1. i \in 1 .. Len(s) - 1 /\ t[i] = x
      BY <1>3 DEF Where
    <2>2. CASE i < p
      BY <1>1, <1>2, <2>1, <2>2 DEF Where
    <2>3. CASE ~ i < p
      <3>1. i + 1 \in 1 .. Len(s) /\ i + 1 # p /\ s[i + 1] = x
        BY <1>1, <1>2, <2>1, <2>3
      <3> QED
        BY <1>2, <2>3, <3>1 DEF Where
    <2> QED
      BY <2>2, <2>3
  <1>6. ASSUME NEW i \in B, NEW j \in B, up[i] = up[j]
        PROVE  i = j
    <2>1. i \in Nat /\ j \in Nat
      BY <1>2, <1>3 DEF Where
    <2> QED
      BY <1>2, <1>6, <2>1
  <1>7. ASSUME NEW k \in A \ {p}
        PROVE  \E i \in B : up[i] = k
    <2>1. k \in 1 .. Len(s) /\ k # p /\ s[k] = x
      BY <1>2 DEF Where
    <2>2. CASE k < p
      <3>1. k \in 1 .. Len(s) - 1 /\ t[k] = x
        BY <1>1, <1>2, <2>1, <2>2 DEF Where
      <3> QED
        BY <1>3, <2>2, <3>1 DEF Where
    <2>3. CASE k > p
      <3>1. k - 1 \in 1 .. Len(s) - 1 /\ ~ (k - 1 < p) /\ (k - 1) + 1 = k
        BY <1>2, <2>1, <2>3
      <3>2. t[k - 1] = x
        BY <1>1, <2>1, <3>1
      <3> QED
        BY <1>3, <3>1, <3>2 DEF Where
    <2> QED
      BY <1>2, <2>1, <2>2, <2>3
  <1>8. ExistsBijection(B, A \ {p})
    <2> HIDE DEF A, B, up
    <2>1. up \in Bijection(B, A \ {p})
      BY <1>5, <1>6, <1>7, Fun_IsBij
    <2> QED
      BY <2>1, Fun_ExistsBij
  <1>9. Cardinality(A \ {p}) = Cardinality(B)
    <2> HIDE DEF A, B
    <2> QED
      BY <1>4, <1>8, FS_Bijection
  <1>10. Cardinality(A \ {p}) = IF p \in A THEN Cardinality(A) - 1 ELSE Cardinality(A)
    <2> HIDE DEF A
    <2> QED
      BY <1>4, FS_RemoveElement
  <1>11. p \in A <=> s[p] = x
    BY <1>2 DEF Where
  <1>12. Cardinality(A) \in Nat /\ Cardinality(B) \in Nat
    <2> HIDE DEF A, B
    <2> QED
      BY <1>4, FS_CardinalityType
  <1>13. Count(s, x) = Cardinality(A) /\ Count(t, x) = Cardinality(B)
    BY <1>1, CountType
  <1> HIDE DEF A, B
  <1>14. Count(s, x) = Count(t, x) + (IF s[p] = x THEN 1 ELSE 0)
    BY <1>9, <1>10, <1>11, <1>12, <1>13
  <1> QED
    BY <1>14 DEF t

\* An element that is put in is counted once more, and only it.
LEMMA CountInsert ==
  ASSUME NEW S, NEW s \in Seq(S), NEW p \in 1 .. Len(s) + 1, NEW e \in S, NEW x
  PROVE  Count(InsertAt(s, p, e), x) = Count(s, x) + (IF e = x THEN 1 ELSE 0)
  <1> DEFINE t == InsertAt(s, p, e)
             r == RemoveAt(t, p)
  <1>1. /\ t \in Seq(S) /\ Len(t) = Len(s) + 1
        /\ \A j \in 1 .. Len(s) + 1 : t[j] = IF j < p THEN s[j] ELSE IF j = p THEN e ELSE s[j - 1]
    BY InsertAtProperties
  <1>0. Len(s) \in Nat /\ p \in Nat
    OBVIOUS
  <1> HIDE DEF t
  <1>2. p \in 1 .. Len(t) /\ t[p] = e
    BY <1>0, <1>1
  <1>3. /\ r \in Seq(S) /\ Len(r) = Len(t) - 1
        /\ \A j \in 1 .. Len(t) - 1 : r[j] = IF j < p THEN t[j] ELSE t[j + 1]
    BY <1>1, <1>2, RemoveAtProperties
  <1>4. Count(t, x) = Count(r, x) + (IF t[p] = x THEN 1 ELSE 0)
    BY <1>1, <1>2, CountRemove
  <1> HIDE DEF r
  <1>5. r = s
    <2>1. Len(r) = Len(s)
      BY <1>0, <1>1, <1>3
    <2>2. ASSUME NEW i \in 1 .. Len(r)
          PROVE  r[i] = s[i]
      <3>0. i \in Nat /\ i \in 1 .. Len(s)
        BY <1>0, <2>1
      <3>1. CASE i < p
        BY <1>0, <1>1, <1>3, <3>0, <3>1
      <3>2. CASE ~ i < p
        <4>1. r[i] = t[i + 1]
          BY <1>0, <1>1, <1>3, <3>0, <3>2
        <4>2. i + 1 \in 1 .. Len(s) + 1 /\ ~ (i + 1 < p) /\ i + 1 # p /\ (i + 1) - 1 = i
          BY <1>0, <3>0, <3>2
        <4>3. t[i + 1] = s[i]
          BY <1>1, <4>2
        <4> QED
          BY <4>1, <4>3
      <3> QED
        BY <3>1, <3>2
    <2> QED
      BY <1>3, <2>1, <2>2, SeqEqual
  <1>6. Count(t, x) = Count(s, x) + (IF e = x THEN 1 ELSE 0)
    BY <1>2, <1>4, <1>5
  <1> QED
    BY <1>6 DEF t

LEMMA CountAppend ==
  ASSUME NEW S, NEW s \in Seq(S), NEW e \in S, NEW x
  PROVE  Count(Append(s, e), x) = Count(s, x) + (IF e = x THEN 1 ELSE 0)
  <1> DEFINE t == Append(s, e)
             p == Len(s) + 1
             r == RemoveAt(t, p)
  <1>1. t \in Seq(S) /\ Len(t) = Len(s) + 1 /\ t[p] = e /\ \A j \in 1 .. Len(s) : t[j] = s[j]
    OBVIOUS
  <1>0. Len(s) \in Nat /\ p \in Nat
    OBVIOUS
  <1> HIDE DEF t
  <1>2. p \in 1 .. Len(t)
    BY <1>0, <1>1
  <1>3. /\ r \in Seq(S) /\ Len(r) = Len(t) - 1
        /\ \A j \in 1 .. Len(t) - 1 : r[j] = IF j < p THEN t[j] ELSE t[j + 1]
    BY <1>1, <1>2, RemoveAtProperties
  <1>4. Count(t, x) = Count(r, x) + (IF t[p] = x THEN 1 ELSE 0)
    BY <1>1, <1>2, CountRemove
  <1> HIDE DEF r
  <1>5. r = s
    <2>1. Len(r) = Len(s)
      BY <1>0, <1>1, <1>3
    <2>2. ASSUME NEW i \in 1 .. Len(r)
          PROVE  r[i] = s[i]
      BY <1>0, <1>1, <1>3, <2>1
    <2> QED
      BY <1>3, <2>1, <2>2, SeqEqual
  <1>6. Count(t, x) = Count(s, x) + (IF e = x THEN 1 ELSE 0)
    BY <1>1, <1>4, <1>5
  <1> QED
    BY <1>6 DEF t

LEMMA CountEmpty ==
  ASSUME NEW x
  PROVE  Count(<<>>, x) = 0
  <1>1. {i \in DOMAIN <<>> : <<>>[i] = x} = {}
    OBVIOUS
  <1> QED
    BY <1>1, FS_EmptySet DEF Count

\* Of the first k elements.
Before(s, x, k) == Cardinality({i \in 1 .. k : s[i] = x})

LEMMA BeforeProperties ==
  ASSUME NEW S, NEW s \in Seq(S), NEW x
  PROVE  /\ \A k \in 0 .. Len(s) : Before(s, x, k) \in Nat
         /\ Before(s, x, 0) = 0
         /\ Before(s, x, Len(s)) = Count(s, x)
         /\ \A k \in 1 .. Len(s) : Before(s, x, k) = Before(s, x, k - 1) + (IF s[k] = x THEN 1 ELSE 0)
         /\ \A k \in 1 .. Len(s) : s[k] = x => Before(s, x, k - 1) < Count(s, x)
  <1> DEFINE at(k) == {i \in 1 .. k : s[i] = x}
  <1>0. Len(s) \in Nat /\ DOMAIN s = 1 .. Len(s)
    OBVIOUS
  <1>1. ASSUME NEW k \in 0 .. Len(s)
        PROVE  IsFiniteSet(at(k)) /\ Before(s, x, k) = Cardinality(at(k)) /\ Before(s, x, k) \in Nat
    <2>1. IsFiniteSet(1 .. k) /\ at(k) \in SUBSET (1 .. k)
      BY <1>0, FS_Interval
    <2>2. Before(s, x, k) = Cardinality(at(k))
      BY DEF Before
    <2> HIDE DEF at
    <2>3. IsFiniteSet(at(k))
      BY <2>1, FS_Subset
    <2> QED
      BY <2>2, <2>3, FS_CardinalityType
  <1>2. Before(s, x, 0) = 0
    <2>1. {i \in 1 .. 0 : s[i] = x} = {}
      OBVIOUS
    <2> QED
      BY <2>1, FS_EmptySet DEF Before
  <1>3. Before(s, x, Len(s)) = Count(s, x)
    BY <1>0 DEF Before, Count
  <1>4. ASSUME NEW k \in 1 .. Len(s)
        PROVE  Before(s, x, k) = Before(s, x, k - 1) + (IF s[k] = x THEN 1 ELSE 0)
    <2>1. k \in 0 .. Len(s) /\ k - 1 \in 0 .. Len(s)
      BY <1>0
    <2>2. at(k) = IF s[k] = x THEN at(k - 1) \cup {k} ELSE at(k - 1)
      BY <1>0
    <2>3. k \notin at(k - 1)
      BY <1>0
    <2>4. /\ IsFiniteSet(at(k - 1)) /\ Before(s, x, k) = Cardinality(at(k))
          /\ Before(s, x, k - 1) = Cardinality(at(k - 1)) /\ Before(s, x, k - 1) \in Nat
      BY <1>1, <2>1
    <2> HIDE DEF at
    <2>5. Cardinality(at(k - 1) \cup {k}) = Cardinality(at(k - 1)) + 1
      BY <2>3, <2>4, FS_AddElement
    <2>6. CASE s[k] = x
      BY <2>2, <2>4, <2>5, <2>6
    <2>7. CASE s[k] # x
      BY <2>2, <2>4, <2>7
    <2> QED
      BY <2>6, <2>7
  <1>5. ASSUME NEW k \in 1 .. Len(s), s[k] = x
        PROVE  Before(s, x, k - 1) < Count(s, x)
    <2>1. k \in 0 .. Len(s) /\ k - 1 \in 0 .. Len(s) /\ Len(s) \in 0 .. Len(s)
      BY <1>0
    <2>2. Before(s, x, k) = Before(s, x, k - 1) + 1
      BY <1>4, <1>5
    <2>3. at(k) \in SUBSET at(Len(s))
      BY <1>0
    <2>4. /\ IsFiniteSet(at(Len(s))) /\ Before(s, x, k) = Cardinality(at(k))
          /\ Before(s, x, Len(s)) = Cardinality(at(Len(s)))
      BY <1>1, <2>1
    <2> HIDE DEF at
    <2>5. Before(s, x, k) <= Before(s, x, Len(s))
      <3>1. Cardinality(at(k)) <= Cardinality(at(Len(s)))
        BY <2>3, <2>4, FS_Subset
      <3> QED
        BY <2>4, <3>1
    <2>6. Before(s, x, k - 1) \in Nat /\ Before(s, x, Len(s)) \in Nat
      BY <1>1, <2>1
    <2> QED
      BY <1>3, <2>2, <2>5, <2>6
  <1> QED
    BY <1>1, <1>2, <1>3, <1>4, <1>5

-----------------------------------------------------------------------------
\* The file.

\* Records with different numbers can be put in the order of these numbers.
LEMMA Order ==
  ASSUME NEW L, IsFiniteSet(L), NEW key \in [L -> Int],
         \A x, y \in L : x # y => key[x] # key[y]
  PROVE  \E s \in [1 .. Cardinality(L) -> L] :
           \A i, j \in 1 .. Cardinality(L) : i < j => key[s[i]] < key[s[j]]
  <1> DEFINE n == Cardinality(L)
             below(x) == {y \in L : key[y] < key[x]}
             rank == [x \in L |-> Cardinality(below(x)) + 1]
             s == [i \in 1 .. n |-> CHOOSE x \in L : rank[x] = i]
  <1>1. n \in Nat
    BY FS_CardinalityType
  <1>2. ASSUME NEW x \in L
        PROVE  IsFiniteSet(below(x)) /\ Cardinality(below(x)) \in Nat /\ Cardinality(below(x)) < n
    <2>1. below(x) \in SUBSET L /\ x \notin below(x)
      OBVIOUS
    <2> HIDE DEF below
    <2>2. IsFiniteSet(below(x)) /\ Cardinality(below(x)) <= n /\ Cardinality(below(x)) # n
      BY <2>1, FS_Subset
    <2>3. Cardinality(below(x)) \in Nat
      BY <2>2, FS_CardinalityType
    <2> QED
      BY <1>1, <2>2, <2>3
  <1>3. ASSUME NEW x \in L, NEW y \in L, key[x] < key[y]
        PROVE  rank[x] < rank[y]
    <2>1. below(x) \in SUBSET below(y) /\ x \in below(y) /\ x \notin below(x)
      BY <1>3
    <2>2. /\ IsFiniteSet(below(y)) /\ Cardinality(below(x)) \in Nat /\ Cardinality(below(y)) \in Nat
      BY <1>2
    <2>3. Cardinality(below(x)) <= Cardinality(below(y)) /\ Cardinality(below(x)) # Cardinality(below(y))
      <3> HIDE DEF below
      <3> QED
        BY <2>1, <2>2, FS_Subset
    <2> HIDE DEF below
    <2> QED
      BY <2>2, <2>3
  <1>4. rank \in [L -> 1 .. n]
    <2> HIDE DEF below
    <2> QED
      BY <1>1, <1>2
  <1> HIDE DEF rank
  <1>5. ASSUME NEW x \in L, NEW y \in L, rank[x] = rank[y]
        PROVE  x = y
    <2>1. rank[x] \in Int /\ key[x] \in Int /\ key[y] \in Int
      BY <1>1, <1>4
    <2>2. ~ key[x] < key[y] /\ ~ key[y] < key[x]
      BY <1>3, <1>5, <2>1
    <2> QED
      BY <2>1, <2>2
  <1>6. rank \in Surjection(L, 1 .. n)
    <2>1. rank \in Injection(L, 1 .. n)
      BY <1>4, <1>5, Fun_IsInj
    <2>2. IsFiniteSet(1 .. n) /\ Cardinality(1 .. n) = n
      BY <1>1, FS_Interval
    <2> QED
      BY <2>1, <2>2, FS_Injection
  <1>7. ASSUME NEW i \in 1 .. n
        PROVE  s[i] \in L /\ rank[s[i]] = i
    <2>1. \E x \in L : rank[x] = i
      BY <1>6 DEF Surjection
    <2> QED
      BY <2>1
  <1>8. s \in [1 .. n -> L]
    BY <1>7
  <1> HIDE DEF s
  <1>9. ASSUME NEW i \in 1 .. n, NEW j \in 1 .. n, i < j
        PROVE  key[s[i]] < key[s[j]]
    <2>1. s[i] \in L /\ s[j] \in L /\ rank[s[i]] = i /\ rank[s[j]] = j
      BY <1>7
    <2>2. key[s[i]] \in Int /\ key[s[j]] \in Int /\ i \in Int /\ j \in Int
      BY <1>1, <2>1
    <2>3. ~ key[s[j]] < key[s[i]]
      BY <1>3, <1>9, <2>1, <2>2
    <2>4. s[i] # s[j]
      BY <1>9, <2>1, <2>2
    <2>5. key[s[i]] # key[s[j]]
      BY <2>1, <2>4
    <2> QED
      BY <2>2, <2>3, <2>5
  <1> QED
    BY <1>8, <1>9

\* A sequence of different records that is as long as there are records has
\* each of them.
LEMMA AllThere ==
  ASSUME NEW L, IsFiniteSet(L), NEW s \in [1 .. Cardinality(L) -> L],
         \A i, j \in 1 .. Cardinality(L) : s[i] = s[j] => i = j
  PROVE  \A x \in L : \E i \in 1 .. Cardinality(L) : s[i] = x
  <1> DEFINE n == Cardinality(L)
  <1>1. n \in Nat
    BY FS_CardinalityType
  <1>2. IsFiniteSet(1 .. n) /\ Cardinality(1 .. n) = n
    BY <1>1, FS_Interval
  <1>3. s \in Injection(1 .. n, L)
    BY Fun_IsInj
  <1> HIDE DEF n
  <1>4. s \in Surjection(1 .. n, L)
    BY <1>2, <1>3, FS_Injection DEF n
  <1>5. \A x \in L : \E i \in 1 .. n : s[i] = x
    BY <1>4 DEF Surjection
  <1> QED
    BY <1>5 DEF n

\* What is written of a user, and those it is written of.
Written(u) == [handle |-> user[u].handle, uid |-> user[u].uid, masks |-> user[u].masks,
               b |-> user[u].b, nset |-> user[u].nset]
AllWritten == {Written(u) : u \in {x \in Slots : Alive(x)}}

LEMMA SavedProperties ==
  ASSUME TypeInv, Distinct
  PROVE  /\ Saved \in Seq(FileUser)
         /\ Len(Saved) \in Nat /\ DOMAIN Saved = 1 .. Len(Saved) /\ 1 .. Len(Saved) \subseteq Slots
         /\ \A i \in 1 .. Len(Saved) : \E u \in Slots : Alive(u) /\ Saved[i] = Written(u)
         /\ \A u \in Slots : Alive(u) => \E i \in 1 .. Len(Saved) : Saved[i] = Written(u)
         /\ \A i, j \in 1 .. Len(Saved) : i # j => Saved[i].uid # Saved[j].uid
         /\ \A i, j \in 1 .. Len(Saved), u, x \in Slots :
              i # j /\ Alive(u) /\ Alive(x) /\ Saved[i] = Written(u) /\ Saved[j] = Written(x) => u # x
  <1> DEFINE L == AllWritten
             n == Cardinality(L)
             key == [x \in L |-> x.uid]
             live == {x \in Slots : Alive(x)}
             w == [u \in live |-> Written(u)]
             Up1(s) == \A i, j \in DOMAIN s : i < j => s[i].uid < s[j].uid
  <1>1. ASSUME NEW u \in Slots
        PROVE  Written(u) \in FileUser /\ Written(u).uid = user[u].uid /\ Written(u).uid \in Int
    <2>1. user[u] \in UserType
      BY DEF TypeInv, UsersType
    <2> QED
      BY <2>1, SpanFacts DEF UserType, FileUser, Written, Uids
  <1>2. IsFiniteSet(L) /\ n <= Cardinality(Slots) /\ n \in Nat
    <2>1. IsFiniteSet(live) /\ Cardinality(live) <= Cardinality(Slots)
      <3>1. live \in SUBSET Slots
        OBVIOUS
      <3> HIDE DEF live
      <3> QED
        BY <3>1, SpanFacts, FS_Subset
    <2>2. w \in Surjection(live, L)
      <3>1. w \in [live -> L] /\ \A x \in L : \E u \in live : w[u] = x
        BY DEF AllWritten
      <3> HIDE DEF w, live, L
      <3> QED
        BY <3>1, Fun_IsSurj
    <2>3. IsFiniteSet(L) /\ Cardinality(L) <= Cardinality(live)
      <3> HIDE DEF w, live, L
      <3> QED
        BY <2>1, <2>2, FS_Surjection
    <2>4. Cardinality(L) \in Nat /\ Cardinality(live) \in Nat
      <3> HIDE DEF live, L
      <3> QED
        BY <2>1, <2>3, FS_CardinalityType
    <2> HIDE DEF live, L
    <2> QED
      BY <2>1, <2>3, <2>4, SpanFacts
  <1>3. key \in [L -> Int] /\ \A x, y \in L : x # y => key[x] # key[y]
    <2>1. ASSUME NEW x \in L
          PROVE  x.uid \in Int /\ \E u \in Slots : Alive(u) /\ x = Written(u) /\ x.uid = user[u].uid
      BY <1>1 DEF AllWritten
    <2>2. ASSUME NEW x \in L, NEW y \in L, x # y
          PROVE  x.uid # y.uid
      <3>1. PICK u \in Slots : Alive(u) /\ x = Written(u) /\ x.uid = user[u].uid
        BY <2>1
      <3>2. PICK v \in Slots : Alive(v) /\ y = Written(v) /\ y.uid = user[v].uid
        BY <2>1
      <3>3. u # v
        BY <2>2, <3>1, <3>2
      <3> QED
        BY <3>1, <3>2, <3>3 DEF Distinct
    <2> HIDE DEF L
    <2> QED
      BY <2>1, <2>2
  <1>4. Saved = CHOOSE s \in [1 .. n -> L] : Up1(s)
    BY DEF Saved, AllWritten, Written
  <1>5. \E s \in [1 .. n -> L] : Up1(s)
    <2>1. PICK s \in [1 .. n -> L] : \A i, j \in 1 .. n : i < j => key[s[i]] < key[s[j]]
      <3> HIDE DEF key, L
      <3> QED
        BY <1>2, <1>3, Order
    <2>2. \A i \in 1 .. n : s[i] \in L
      BY <2>1
    <2> HIDE DEF L, n
    <2> QED
      BY <2>1, <2>2
  <1>6. Saved \in [1 .. n -> L] /\ Up1(Saved)
    <2> HIDE DEF L, n, Up1
    <2> QED
      BY <1>4, <1>5
  <1>7. Saved \in Seq(FileUser) /\ Len(Saved) = n /\ DOMAIN Saved = 1 .. n
    <2>1. L \subseteq FileUser
      BY <1>1 DEF AllWritten
    <2> HIDE DEF L, n
    <2> QED
      BY <1>2, <1>6, <2>1
  <1>8. \A i \in 1 .. n : Saved[i] \in L
    BY <1>6
  <1>9. ASSUME NEW i \in 1 .. n, NEW j \in 1 .. n, i # j
        PROVE  Saved[i].uid # Saved[j].uid
    <2>1. Saved[i].uid \in Int /\ Saved[j].uid \in Int
      BY <1>1, <1>8 DEF AllWritten
    <2>2. i < j => Saved[i].uid < Saved[j].uid
      BY <1>6, <1>7
    <2>3. j < i => Saved[j].uid < Saved[i].uid
      BY <1>6, <1>7
    <2>4. i < j \/ j < i
      BY <1>2, <1>9
    <2> QED
      BY <2>1, <2>2, <2>3, <2>4
  <1>10. \A x \in L : \E i \in 1 .. n : Saved[i] = x
    <2>1. \A i, j \in 1 .. n : Saved[i] = Saved[j] => i = j
      BY <1>9
    <2> HIDE DEF L
    <2> QED
      BY <1>2, <1>6, <2>1, AllThere
  <1>11. 1 .. n \subseteq Slots
    <2> HIDE DEF n, L
    <2> QED
      BY <1>2, SpanFacts
  <1>12. \A i \in 1 .. n : \E u \in Slots : Alive(u) /\ Saved[i] = Written(u)
    BY <1>8 DEF AllWritten
  <1>13. \A u \in Slots : Alive(u) => \E i \in 1 .. n : Saved[i] = Written(u)
    BY <1>10 DEF AllWritten
  <1> HIDE DEF n
  <1> QED
    BY <1>2, <1>7, <1>9, <1>11, <1>12, <1>13 DEF n

-----------------------------------------------------------------------------
\* Types.

LEMMA NoUserType == NoUser \in UserType
  BY SpanFacts DEF NoUser, UserType, Names, Uids

LEMMA EmptyFiles ==
  /\ Empty \in [good : {0, 1}, users : Seq(FileUser), next : Uids, wrap : {0, 1}]
  /\ Torn \in [good : {0, 1}, users : Seq(FileUser), next : Uids, wrap : {0, 1}]
  /\ Empty.users = <<>> /\ Torn.users = <<>> /\ Torn.wrap = 0 /\ Torn.next = 1
  <1>1. 1 \in Uids /\ <<>> \in Seq(FileUser)
    BY SpanFacts DEF Uids
  <1> QED
    BY <1>1 DEF Empty, Torn

LEMMA TypeInit == Init => TypeInv
  <1> SUFFICES ASSUME Init PROVE TypeInv
    OBVIOUS
  <1>1. UsersType /\ CacheType
    BY NoUserType DEF Init, UsersType, CacheType, NoCache
  <1>2. ListType /\ FramesType
    BY DEF Init, ListType, FramesType
  <1>3. CountersType /\ DiskType
    BY SpanFacts, EmptyFiles DEF Init, CountersType, DiskType, Uids
  <1> QED
    BY <1>1, <1>2, <1>3 DEF Init, TypeInv

LEMMA LoadedListType ==
  ASSUME DiskType, FileFits
  PROVE  LoadedList \in Seq(Entry)
  <1> DEFINE N == Len(disk.users)
  <1>1. disk.users \in Seq(FileUser) /\ N \in Nat /\ DOMAIN disk.users = 1 .. N
    BY DEF DiskType
  <1>2. ASSUME NEW u \in 1 .. N
        PROVE  disk.users[u].masks \in Seq(Masks)
    <2>1. disk.users[u] \in FileUser
      BY <1>1
    <2> QED
      BY <2>1 DEF FileUser
  <1>3. 1 .. N \subseteq Slots
    BY <1>1 DEF FileFits
  <1>4. Len(FileOrder) = N
    BY <1>1 DEF FileOrder
  <1> HIDE DEF N
  <1>5. \E g \in [0 .. Len(FileOrder) -> Seq(Entry)] : LoadedList = g[Len(FileOrder)]
    BY <1>1, <1>2, <1>3, UsersStages
  <1> QED
    BY <1>1, <1>4, <1>5

LEMMA DeletedListType ==
  ASSUME NEW l \in Seq(Entry), NEW ms \in Seq(Masks)
  PROVE  FoldLeft(ircmask_list_del, l, ms) \in Seq(Entry)
  <1> DEFINE n == Len(ms)
  <1>1. n \in Nat
    OBVIOUS
  <1>2. PICK g \in [0 .. n -> Seq(Entry)] : FoldLeft(ircmask_list_del, l, ms) = g[n]
    BY DeletionStages
  <1> HIDE DEF n
  <1> QED
    BY <1>1, <1>2

LEMMA RemoveFirstPlace ==
  ASSUME NEW S, NEW s \in Seq(S), NEW e, Contains(s, e)
  PROVE  \E p \in 1 .. Len(s) : RemoveFirst(s, e) = RemoveAt(s, p) /\ s[p] = e
  <1> DEFINE at == {i \in 1 .. Len(s) : s[i] = e}
             p == Min(at)
  <1>1. at \in SUBSET Nat /\ at # {}
    BY DEF Contains
  <1>2. p \in at
    <2> HIDE DEF at
    <2> QED
      BY <1>1, MinOfNumbers
  <1>3. RemoveFirst(s, e) = RemoveAt(s, p)
    BY <1>1 DEF RemoveFirst, SelectInSeq, Contains
  <1> HIDE DEF p
  <1> QED
    BY <1>2, <1>3

LEMMA WipedType ==
  ASSUME Wiped
  PROVE  UsersType' /\ ListType' /\ CacheType' /\ CountersType' /\ FramesType'
  BY SpanFacts, NoUserType DEF Wiped, NoCache, UsersType, ListType, CacheType, CountersType, FramesType, Uids

LEMMA TypeNew ==
  ASSUME TypeInv, NEW h \in Handles, user_new(h)
  PROVE  TypeInv'
  <1>1. CountersType'
    <2>1. 1 \in 0 .. Cardinality(Slots) + 1
      BY SpanFacts
    <2>2. user_get_uid \in Uids /\ Wrapped \in {0, 1}
      BY NewId
    <2>3. Later(user_get_uid, 1) \in Uids
      BY <2>1, <2>2, LaterProperties
    <2> QED
      BY <2>2, <2>3 DEF user_new, CountersType
  <1>2. UsersType'
    <2>1. CASE UNCHANGED user
      BY <2>1 DEF TypeInv, UsersType
    <2>2. CASE \E u \in FreeSlot :
                 user' = [user EXCEPT ![u] = NewUser(h)]
      <3> DEFINE r == NewUser(h)
      <3>1. r \in UserType
        <4>1. user_get_uid \in Uids /\ h \in Names
          BY NewId DEF Names
        <4> QED
          BY <4>1 DEF UserType, NewUser
      <3> HIDE DEF r
      <3>2. PICK u \in FreeSlot : user' = [user EXCEPT ![u] = r]
        BY <2>2 DEF r
      <3> QED
        BY <3>1, <3>2 DEF TypeInv, UsersType, FreeSlot
    <2> QED
      BY <2>1, <2>2 DEF user_new
  <1>3. UNCHANGED <<run, ircmask_list, irchost_cache, frames, disk>>
    BY DEF user_new
  <1> QED
    BY <1>1, <1>2, <1>3 DEF TypeInv, ListType, CacheType, FramesType, DiskType

LEMMA TypeDelete ==
  ASSUME TypeInv, NEW u \in Slots, user_delete(u)
  PROVE  TypeInv'
  <1>1. UsersType'
    BY DEF TypeInv, UsersType, UserType, user_delete
  <1>2. CacheType'
    BY DEF TypeInv, CacheType, user_delete, cache_user_del
  <1>3. ListType'
    <2>1. user[u].masks \in Seq(Masks)
      BY DEF TypeInv, UsersType, UserType
    <2>2. <<"*">> \o user[u].masks \in Seq(Masks)
      BY <2>1, UsersAssumption
    <2>3. FoldLeft(ircmask_list_del, ircmask_list, <<"*">> \o user[u].masks) \in Seq(Entry)
      BY <2>2, DeletedListType DEF TypeInv, ListType
    <2> QED
      BY <2>3 DEF ListType, user_delete
  <1>4. UNCHANGED <<run, g_uid, uid_wraparound, frames, disk>>
    BY DEF user_delete
  <1> QED
    BY <1>1, <1>2, <1>3, <1>4 DEF TypeInv, CountersType, FramesType, DiskType

LEMMA TypeAddMask ==
  ASSUME TypeInv, NEW u \in Slots, NEW m \in Masks, user_add_ircmask(u, m)
  PROVE  TypeInv'
  <1>1. UsersType'
    <2>1. Append(user[u].masks, m) \in Seq(Masks)
      BY DEF TypeInv, UsersType, UserType
    <2> QED
      BY <2>1 DEF TypeInv, UsersType, UserType, user_add_ircmask
  <1>2. CacheType'
    BY DEF TypeInv, CacheType, user_add_ircmask, cache_check_add
  <1>3. ListType'
    BY AddType DEF TypeInv, ListType, user_add_ircmask
  <1>4. UNCHANGED <<run, g_uid, uid_wraparound, frames, disk>>
    BY DEF user_add_ircmask
  <1> QED
    BY <1>1, <1>2, <1>3, <1>4 DEF TypeInv, CountersType, FramesType, DiskType

LEMMA TypeDelMask ==
  ASSUME TypeInv, NEW u \in Slots, NEW m \in Masks, user_del_ircmask(u, m)
  PROVE  TypeInv'
  <1>1. UsersType'
    <2>1. user[u].masks \in Seq(Masks) /\ Contains(user[u].masks, m)
      BY DEF TypeInv, UsersType, UserType, user_del_ircmask
    <2>2. PICK p \in 1 .. Len(user[u].masks) : RemoveFirst(user[u].masks, m) = RemoveAt(user[u].masks, p)
      BY <2>1, RemoveFirstPlace
    <2>3. RemoveFirst(user[u].masks, m) \in Seq(Masks)
      BY <2>1, <2>2, RemoveAtProperties
    <2> QED
      BY <2>3 DEF TypeInv, UsersType, UserType, user_del_ircmask
  <1>2. CacheType'
    BY DEF TypeInv, CacheType, user_del_ircmask, cache_user_del
  <1>3. ListType'
    BY DelType DEF TypeInv, ListType, user_del_ircmask
  <1>4. UNCHANGED <<run, g_uid, uid_wraparound, frames, disk>>
    BY DEF user_del_ircmask
  <1> QED
    BY <1>1, <1>2, <1>3, <1>4 DEF TypeInv, CountersType, FramesType, DiskType

LEMMA TypeSetFlags ==
  ASSUME TypeInv, NEW u \in Slots, NEW c \in {0, 1}, NEW v \in {0, 1}, user_set_flags(u, c, v)
  PROVE  TypeInv'
  <1> DEFINE grows == c = 1 /\ user[u].nset = 1
             moved == [i \in DOMAIN frames |-> IF grows /\ frames[i].u = u
                                         THEN [frames[i] EXCEPT !.fixed = 0] ELSE frames[i]]
             f == [u |-> u, c |-> c, v |-> v, fixed |-> 1]
  <1>1. UsersType'
    <2> DEFINE n == IF grows THEN 2 ELSE user[u].nset
    <2>1. user[u] \in UserType /\ user \in [Slots -> UserType]
      BY DEF TypeInv, UsersType
    <2>2. n \in 0 .. 2
      BY <2>1 DEF UserType
    <2>3. user' = [user EXCEPT ![u].nset = n]
      BY DEF user_set_flags
    <2> HIDE DEF n
    <2>4. [user[u] EXCEPT !.nset = n] \in UserType
      BY <2>1, <2>2 DEF UserType
    <2> QED
      BY <2>1, <2>3, <2>4 DEF UsersType
  <1>2. FramesType'
    <2>1. frames \in Seq(Frame) /\ f \in Frame
      BY DEF TypeInv, FramesType, Frame
    <2>2. ASSUME NEW g \in Frame
          PROVE  [g EXCEPT !.fixed = 0] \in Frame
      BY DEF Frame
    <2>3. moved \in Seq(Frame)
      <3>1. Len(frames) \in Nat /\ DOMAIN frames = 1 .. Len(frames) /\ \A i \in 1 .. Len(frames) : frames[i] \in Frame
        BY <2>1
      <3>2. ASSUME NEW i \in 1 .. Len(frames)
            PROVE  (IF grows /\ frames[i].u = u THEN [frames[i] EXCEPT !.fixed = 0] ELSE frames[i]) \in Frame
        BY <2>2, <3>1
      <3>3. moved = [i \in 1 .. Len(frames) |-> IF grows /\ frames[i].u = u
                                         THEN [frames[i] EXCEPT !.fixed = 0] ELSE frames[i]]
        BY <3>1
      <3> HIDE DEF grows
      <3> QED
        BY <3>1, <3>2, <3>3
    <2>4. frames' = Append(moved, f)
      BY DEF user_set_flags
    <2> HIDE DEF moved, f
    <2> QED
      BY <2>1, <2>3, <2>4 DEF FramesType
  <1>3. UNCHANGED <<run, ircmask_list, irchost_cache, g_uid, uid_wraparound, disk>>
    BY DEF user_set_flags
  <1> QED
    BY <1>1, <1>2, <1>3 DEF TypeInv, ListType, CacheType, CountersType, DiskType

LEMMA LastFrame ==
  ASSUME TypeInv, frames # <<>>
  PROVE  Last(frames) \in Frame /\ Front(frames) \in Seq(Frame)
  <1>1. frames \in Seq(Frame) /\ Len(frames) \in Nat /\ Len(frames) > 0
    BY DEF TypeInv, FramesType
  <1> QED
    BY <1>1 DEF Last, Front

LEMMA TypeFlagsChecked ==
  ASSUME TypeInv, NEW broke \in {0, 1}, FlagsChecked(broke)
  PROVE  TypeInv'
  <1> DEFINE f == Last(frames)
  <1>1. f \in Frame /\ Front(frames) \in Seq(Frame)
    BY LastFrame DEF FlagsChecked
  <1>2. UsersType'
    <2>1. CASE UNCHANGED user
      BY <2>1 DEF TypeInv, UsersType
    <2>2. CASE user' = [user EXCEPT ![f.u] = check_flag_change(@, f, broke)]
      <3>1. f.u \in Slots /\ f.v \in {0, 1}
        BY <1>1 DEF Frame
      <3> HIDE DEF f
      <3>2. user[f.u] \in UserType
        BY <3>1 DEF TypeInv, UsersType
      <3>3. check_flag_change(user[f.u], f, broke) \in UserType
        BY <3>1, <3>2 DEF check_flag_change, UserType
      <3> QED
        BY <2>2, <3>1, <3>3 DEF TypeInv, UsersType
    <2> QED
      BY <2>1, <2>2 DEF FlagsChecked
  <1>3. run' \in {"up", "down", "undefined"}
    BY DEF FlagsChecked, TypeInv
  <1>4. FramesType'
    BY <1>1 DEF FlagsChecked, FramesType
  <1>5. UNCHANGED <<ircmask_list, irchost_cache, g_uid, uid_wraparound, disk>>
    BY DEF FlagsChecked
  <1> QED
    BY <1>2, <1>3, <1>4, <1>5 DEF TypeInv, ListType, CacheType, CountersType, DiskType

LEMMA TypeLookup ==
  ASSUME TypeInv, NEW h \in Hosts, user_lookup_by_irchost(h)
  PROVE  TypeInv'
  <1>1. ircmask_list_find(h) \in Slots \cup {None}
    <2> DEFINE fits == {i \in DOMAIN ircmask_list : Strength[ircmask_list[i].mask][h] > 0}
    <2>0. /\ ircmask_list \in Seq(Entry) /\ Len(ircmask_list) \in Nat
          /\ DOMAIN ircmask_list = 1 .. Len(ircmask_list)
      BY DEF TypeInv, ListType
    <2>1. CASE fits = {}
      BY <2>1 DEF ircmask_list_find
    <2>2. CASE fits # {}
      <3>1. fits \in SUBSET Nat
        BY <2>0
      <3>2. Min(fits) \in fits
        <4> HIDE DEF fits
        <4> QED
          BY <2>2, <3>1, MinOfNumbers
      <3> DEFINE p == Min(fits)
      <3>3. ircmask_list_find(h) = ircmask_list[p].u
        BY <2>2 DEF ircmask_list_find
      <3>4. p \in 1 .. Len(ircmask_list)
        BY <2>0, <3>2
      <3> HIDE DEF p
      <3>5. ircmask_list[p] \in Entry
        BY <2>0, <3>4
      <3> QED
        BY <3>3, <3>5 DEF Entry
    <2> QED
      BY <2>1, <2>2
  <1>2. CacheType'
    BY <1>1 DEF TypeInv, CacheType, user_lookup_by_irchost
  <1>3. UNCHANGED <<run, user, ircmask_list, g_uid, uid_wraparound, frames, disk>>
    BY DEF user_lookup_by_irchost
  <1> QED
    BY <1>2, <1>3 DEF TypeInv, UsersType, ListType, CountersType, FramesType, DiskType

LEMMA TypeLoad ==
  ASSUME TypeInv, FileFits, user_load
  PROVE  TypeInv'
  <1>1. UsersType'
    <2>1. ASSUME NEW u \in DOMAIN disk.users
          PROVE  Loaded(disk.users[u]) \in UserType
      <3>1. disk.users[u] \in FileUser
        BY DEF TypeInv, DiskType
      <3> QED
        BY <3>1 DEF FileUser, Loaded, NoUser, UserType
    <2> QED
      BY <2>1, NoUserType DEF user_load, UsersType
  <1>2. ListType'
    BY LoadedListType DEF user_load, ListType, TypeInv
  <1>3. CountersType'
    BY DEF user_load, CountersType, TypeInv, DiskType, LoadedWrap
  <1>4. UNCHANGED <<irchost_cache, frames, disk>> /\ run' = "up"
    BY DEF user_load
  <1> QED
    BY <1>1, <1>2, <1>3, <1>4 DEF TypeInv, CacheType, FramesType, DiskType

LEMMA TypeSave ==
  ASSUME TypeInv, Distinct, user_save
  PROVE  TypeInv'
  <1>1. DiskType'
    BY SavedProperties DEF user_save, DiskType, TypeInv, CountersType
  <1>2. UNCHANGED <<run, user, ircmask_list, irchost_cache, g_uid, uid_wraparound, frames>>
    BY DEF user_save, memory
  <1> QED
    BY <1>1, <1>2 DEF TypeInv, UsersType, ListType, CacheType, CountersType, FramesType

LEMMA TypeCrash ==
  ASSUME TypeInv, Crash
  PROVE  TypeInv'
  <1>1. DiskType'
    BY EmptyFiles DEF Crash, TypeInv, DiskType
  <1>2. run' = "down" /\ Wiped
    BY DEF Crash
  <1> QED
    BY <1>1, <1>2, WipedType DEF TypeInv

LEMMA TypeStep ==
  ASSUME TypeInv, Distinct, FileFits, [Next]_vars
  PROVE  TypeInv'
  <1>1. CASE UNCHANGED vars
    BY <1>1 DEF vars, TypeInv, UsersType, ListType, CacheType, CountersType, FramesType, DiskType
  <1>2. CASE \E h \in Handles : user_new(h)
    BY <1>2, TypeNew
  <1>3. CASE \E u \in Slots : user_delete(u)
    BY <1>3, TypeDelete
  <1>4. CASE \E u \in Slots, m \in Masks : user_add_ircmask(u, m)
    BY <1>4, TypeAddMask
  <1>5. CASE \E u \in Slots, m \in Masks : user_del_ircmask(u, m)
    BY <1>5, TypeDelMask
  <1>6. CASE \E u \in Slots, h \in Handles : user_change_handle(u, h)
    BY <1>6 DEF user_change_handle, memory, TypeInv, UsersType, ListType, CacheType, CountersType, FramesType, DiskType
  <1>7. CASE \E u \in Slots : \E c, v \in {0, 1} : user_set_flags(u, c, v)
    BY <1>7, TypeSetFlags
  <1>8. CASE \E h \in Hosts : user_lookup_by_irchost(h)
    BY <1>8, TypeLookup
  <1>9. CASE cache_rand_cleanup
    <2>1. CacheType'
      BY <1>9 DEF cache_rand_cleanup, CacheType, TypeInv
    <2> QED
      BY <1>9, <2>1 DEF cache_rand_cleanup, TypeInv, UsersType, ListType, CountersType, FramesType, DiskType
  <1>10. CASE user_really_delete
    <2>1. UsersType'
      BY <1>10, NoUserType DEF user_really_delete, UsersType, TypeInv
    <2> QED
      BY <1>10, <2>1 DEF user_really_delete, TypeInv, ListType, CacheType, CountersType, FramesType, DiskType
  <1>11. CASE user_save
    BY <1>11, TypeSave
  <1>12. CASE \E broke \in {0, 1} : FlagsChecked(broke)
    BY <1>12, TypeFlagsChecked
  <1>13. CASE Crash
    BY <1>13, TypeCrash
  <1>14. CASE user_load
    BY <1>14, TypeLoad
  <1>15. CASE LoadFails
    BY <1>15 DEF LoadFails, memory, TypeInv, UsersType, ListType, CacheType, CountersType, FramesType, DiskType
  <1> QED
    BY <1>1, <1>2, <1>3, <1>4, <1>5, <1>6, <1>7, <1>8, <1>9, <1>10, <1>11, <1>12, <1>13, <1>14, <1>15 DEF Next

-----------------------------------------------------------------------------
\* Ids and the file, step by step.

\* The same users are there.
SameUsers ==
  \A u \in Slots :
    /\ user'[u].st = "live" <=> user[u].st = "live"
    /\ user[u].st = "live" => user'[u].uid = user[u].uid /\ user'[u].handle = user[u].handle

LEMMA IdsInit == Init => IdsInv
  <1> SUFFICES ASSUME Init PROVE IdsInv
    OBVIOUS
  <1>1. \A u \in Slots : ~ Alive(u)
    BY DEF Init, Alive, NoUser
  <1>2. DOMAIN disk.users = {} /\ owed = {}
    BY EmptyFiles DEF Init
  <1>3. Distinct /\ NextIsNew
    BY <1>1 DEF Distinct, NextIsNew
  <1>4. FileDistinct /\ FileNextIsNew /\ FileFits
    BY <1>2 DEF FileDistinct, FileNextIsNew, FileFits
  <1>5. OwedInFile /\ OwedThere /\ TornOwesNothing
    BY <1>2 DEF OwedInFile, OwedThere, TornOwesNothing
  <1> QED
    BY <1>3, <1>4, <1>5 DEF IdsInv

LEMMA IdsSame ==
  ASSUME IdsInv, SameUsers, UNCHANGED <<g_uid, uid_wraparound, disk, owed>>,
         run' = "up" => run = "up" \/ disk.good = 0
  PROVE  IdsInv'
  <1>1. Distinct'
    BY DEF IdsInv, Distinct, SameUsers, Alive
  <1>2. NextIsNew'
    BY DEF IdsInv, NextIsNew, SameUsers, Alive
  <1>3. FileDistinct' /\ FileNextIsNew' /\ FileFits' /\ OwedInFile' /\ TornOwesNothing'
    BY DEF IdsInv, FileDistinct, FileNextIsNew, FileFits, OwedInFile, TornOwesNothing
  <1>4. OwedThere'
    BY DEF IdsInv, OwedThere, TornOwesNothing, SameUsers, Alive
  <1> QED
    BY <1>1, <1>2, <1>3, <1>4 DEF IdsInv

LEMMA IdsNew ==
  ASSUME TypeInv, IdsInv, NEW h \in Handles, user_new(h)
  PROVE  IdsInv'
  <1> DEFINE i == user_get_uid
  <1>1. /\ i \in Uids /\ Wrapped \in {0, 1}
        /\ Wrapped = 0 => i = g_uid /\ g_uid > 0 /\ uid_wraparound = 0
        /\ Wrapped = 1 => i \notin Taken
    BY NewId
  <1>2. g_uid' = Later(i, 1) /\ uid_wraparound' = Wrapped /\ UNCHANGED <<run, disk, owed>>
    BY DEF user_new
  <1>3. Later(i, 1) = IF i + 1 <= MaxUid THEN i + 1 ELSE i + 1 - Span
    <2>1. 1 \in 0 .. Cardinality(Slots) + 1
      BY SpanFacts
    <2> HIDE DEF i
    <2> QED
      BY <1>1, <2>1, LaterProperties
  <1>4. NewUser(h).st = "live" /\ NewUser(h).handle = h /\ NewUser(h).uid = i
    BY DEF NewUser
  <1> HIDE DEF i
  <1>5. \A u \in Slots : Alive(u) => user[u].uid # i /\ user[u].uid \in Int
    <2> SUFFICES ASSUME NEW u \in Slots, Alive(u)
                 PROVE  user[u].uid # i /\ user[u].uid \in Int
      OBVIOUS
    <2>1. user[u].uid \in Int
      BY SpanFacts DEF TypeInv, UsersType, UserType, Uids
    <2>2. CASE Wrapped = 0
      BY <1>1, <2>1, <2>2, SpanFacts DEF IdsInv, NextIsNew, Uids
    <2>3. CASE Wrapped = 1
      BY <1>1, <2>1, <2>3 DEF Taken
    <2> QED
      BY <1>1, <2>1, <2>2, <2>3
  <1>6. CASE UNCHANGED user
    <2>1. Distinct' /\ OwedThere'
      BY <1>2, <1>6 DEF IdsInv, Distinct, OwedThere, Alive
    <2>2. NextIsNew'
      <3> SUFFICES ASSUME Wrapped = 0, NEW u \in Slots, Alive(u)
                   PROVE  user[u].uid >= 1 /\ (Later(i, 1) > 0 => user[u].uid < Later(i, 1))
        BY <1>2, <1>6 DEF NextIsNew, Alive
      <3>1. user[u].uid >= 1 /\ user[u].uid < i
        BY <1>1 DEF IdsInv, NextIsNew
      <3> QED
        BY <1>1, <1>3, <1>5, <3>1, SpanFacts DEF Uids
    <2>3. FileDistinct' /\ FileNextIsNew' /\ FileFits' /\ OwedInFile' /\ TornOwesNothing'
      BY <1>2 DEF IdsInv, FileDistinct, FileNextIsNew, FileFits, OwedInFile, TornOwesNothing
    <2> QED
      BY <2>1, <2>2, <2>3 DEF IdsInv
  <1>7. CASE \E u \in FreeSlot : user' = [user EXCEPT ![u] = NewUser(h)]
    <2>1. PICK n \in FreeSlot : user' = [user EXCEPT ![n] = NewUser(h)]
      BY <1>7
    <2>2. n \in Slots /\ ~ Alive(n)
      BY DEF FreeSlot, Alive
    <2>3. /\ user'[n] = NewUser(h)
          /\ \A u \in Slots : u # n => user'[u] = user[u]
      BY <2>1, <2>2 DEF TypeInv, UsersType
    <2>4. \A u \in Slots : Alive(u) => user[u].handle # h \/ UNCHANGED user
      BY DEF user_new
    <2>5. ~ UNCHANGED user
      BY <1>4, <2>2, <2>3 DEF Alive
    <2>6. Distinct'
      <3> SUFFICES ASSUME NEW u \in Slots, NEW x \in Slots, u # x,
                          user'[u].st = "live", user'[x].st = "live"
                   PROVE  user'[u].uid # user'[x].uid /\ user'[u].handle # user'[x].handle
        BY DEF Distinct, Alive
      <3>1. CASE u = n
        BY <1>4, <1>5, <2>3, <2>4, <2>5, <3>1 DEF Alive
      <3>2. CASE x = n
        BY <1>4, <1>5, <2>3, <2>4, <2>5, <3>2 DEF Alive
      <3>3. CASE u # n /\ x # n
        BY <2>3, <3>3 DEF IdsInv, Distinct, Alive
      <3> QED
        BY <3>1, <3>2, <3>3
    <2>7. NextIsNew'
      <3> SUFFICES ASSUME Wrapped = 0, NEW u \in Slots, user'[u].st = "live"
                   PROVE  user'[u].uid >= 1 /\ (Later(i, 1) > 0 => user'[u].uid < Later(i, 1))
        BY <1>2 DEF NextIsNew, Alive
      <3>1. CASE u = n
        BY <1>1, <1>3, <1>4, <2>3, <3>1, SpanFacts DEF Uids
      <3>2. CASE u # n
        <4>1. user'[u] = user[u] /\ Alive(u)
          BY <2>3, <3>2 DEF Alive
        <4>2. user[u].uid >= 1 /\ user[u].uid < i
          BY <1>1, <4>1 DEF IdsInv, NextIsNew
        <4> QED
          BY <1>1, <1>3, <1>5, <4>1, <4>2, SpanFacts DEF Uids
      <3> QED
        BY <3>1, <3>2
    <2>8. FileDistinct' /\ FileNextIsNew' /\ FileFits' /\ OwedInFile' /\ TornOwesNothing'
      BY <1>2 DEF IdsInv, FileDistinct, FileNextIsNew, FileFits, OwedInFile, TornOwesNothing
    <2>9. OwedThere'
      <3> SUFFICES ASSUME run = "up", NEW x \in owed
                   PROVE  \E u \in Slots : user'[u].st = "live" /\ user'[u].uid = x.uid /\ user'[u].handle = x.handle
        BY <1>2 DEF OwedThere, Alive
      <3>1. PICK u \in Slots : Alive(u) /\ user[u].uid = x.uid /\ user[u].handle = x.handle
        BY DEF IdsInv, OwedThere
      <3>2. user'[u] = user[u]
        BY <2>2, <2>3, <3>1
      <3> QED
        BY <3>1, <3>2 DEF Alive
    <2> QED
      BY <2>6, <2>7, <2>8, <2>9 DEF IdsInv
  <1> QED
    BY <1>6, <1>7 DEF user_new

LEMMA IdsDelete ==
  ASSUME TypeInv, IdsInv, NEW d \in Slots, user_delete(d)
  PROVE  IdsInv'
  <1>1. /\ UNCHANGED <<run, g_uid, uid_wraparound, disk>> /\ owed' = {x \in owed : x.uid # user[d].uid}
        /\ Alive(d)
    BY DEF user_delete
  <1>2. /\ user'[d].st = "deleted"
        /\ \A u \in Slots : u # d => user'[u] = user[u]
    BY DEF user_delete, TypeInv, UsersType, UserType
  <1>3. Distinct'
    BY <1>2 DEF IdsInv, Distinct, Alive
  <1>4. NextIsNew'
    BY <1>1, <1>2 DEF IdsInv, NextIsNew, Alive
  <1>5. FileDistinct' /\ FileNextIsNew' /\ FileFits' /\ OwedInFile' /\ TornOwesNothing'
    BY <1>1 DEF IdsInv, FileDistinct, FileNextIsNew, FileFits, OwedInFile, TornOwesNothing
  <1>6. OwedThere'
    <2> SUFFICES ASSUME run = "up", NEW x \in owed, x.uid # user[d].uid
                 PROVE  \E u \in Slots : user'[u].st = "live" /\ user'[u].uid = x.uid /\ user'[u].handle = x.handle
      BY <1>1 DEF OwedThere, Alive
    <2>1. PICK u \in Slots : Alive(u) /\ user[u].uid = x.uid /\ user[u].handle = x.handle
      BY DEF IdsInv, OwedThere
    <2>2. user'[u] = user[u]
      BY <1>2, <2>1
    <2> QED
      BY <2>1, <2>2 DEF Alive
  <1> QED
    BY <1>3, <1>4, <1>5, <1>6 DEF IdsInv

LEMMA IdsCrash ==
  ASSUME TypeInv, IdsInv, Crash
  PROVE  IdsInv'
  <1>1. \A u \in Slots : user'[u].st # "live"
    BY DEF Crash, Wiped, NoUser
  <1>2. Distinct' /\ NextIsNew' /\ OwedThere'
    BY <1>1 DEF Distinct, NextIsNew, OwedThere, Alive, Crash
  <1>3. CASE UNCHANGED <<disk, owed>>
    BY <1>2, <1>3 DEF IdsInv, FileDistinct, FileNextIsNew, FileFits, OwedInFile, TornOwesNothing
  <1>4. CASE disk' = Torn /\ owed' = {}
    <2>1. DOMAIN disk'.users = {}
      BY <1>4, EmptyFiles
    <2> QED
      BY <1>2, <1>4, <2>1 DEF IdsInv, FileDistinct, FileNextIsNew, FileFits, OwedInFile, TornOwesNothing
  <1> QED
    BY <1>3, <1>4 DEF Crash

LEMMA IdsLoad ==
  ASSUME TypeInv, IdsInv, user_load
  PROVE  IdsInv'
  <1>1. /\ g_uid' = disk.next /\ uid_wraparound' = disk.wrap /\ UNCHANGED <<disk, owed>>
        /\ DOMAIN disk.users \subseteq Slots
    BY DEF user_load, LoadedWrap, IdsInv, FileFits
  <1>2. ASSUME NEW u \in Slots
        PROVE  /\ user'[u].st = "live" <=> u \in DOMAIN disk.users
               /\ u \in DOMAIN disk.users =>
                    user'[u].uid = disk.users[u].uid /\ user'[u].handle = disk.users[u].handle
    BY DEF user_load, Loaded, NoUser
  <1>3. Distinct'
    BY <1>2 DEF IdsInv, FileDistinct, Distinct, Alive
  <1>4. NextIsNew'
    BY <1>1, <1>2 DEF IdsInv, FileNextIsNew, NextIsNew, Alive
  <1>5. FileDistinct' /\ FileNextIsNew' /\ FileFits' /\ OwedInFile' /\ TornOwesNothing'
    BY <1>1 DEF IdsInv, FileDistinct, FileNextIsNew, FileFits, OwedInFile, TornOwesNothing
  <1>6. OwedThere'
    BY <1>1, <1>2 DEF IdsInv, OwedInFile, OwedThere, Alive
  <1> QED
    BY <1>3, <1>4, <1>5, <1>6 DEF IdsInv

LEMMA IdsSave ==
  ASSUME TypeInv, IdsInv, user_save
  PROVE  IdsInv'
  <1>1. /\ disk'.users = Saved /\ disk'.next = g_uid /\ disk'.wrap = uid_wraparound /\ disk'.good = 1
        /\ owed' = {[handle |-> x.handle, uid |-> x.uid] : x \in ToSet(Saved)}
        /\ UNCHANGED <<run, user, g_uid, uid_wraparound>>
    BY DEF user_save, memory
  <1> DEFINE n == Len(Saved)
  <1>2. /\ n \in Nat /\ DOMAIN Saved = 1 .. n /\ 1 .. n \subseteq Slots
        /\ \A i \in 1 .. n : \E u \in Slots : Alive(u) /\ Saved[i] = Written(u)
        /\ \A i, j \in 1 .. n : i # j => Saved[i].uid # Saved[j].uid
        /\ \A i, j \in 1 .. n, u, x \in Slots :
             i # j /\ Alive(u) /\ Alive(x) /\ Saved[i] = Written(u) /\ Saved[j] = Written(x) => u # x
    BY SavedProperties DEF IdsInv
  <1> HIDE DEF n
  <1>3. \A u \in Slots : Written(u).uid = user[u].uid /\ Written(u).handle = user[u].handle
    BY DEF Written
  <1>4. Distinct' /\ NextIsNew'
    BY <1>1 DEF IdsInv, Distinct, NextIsNew, Alive
  <1>5. FileDistinct'
    <2> SUFFICES ASSUME NEW i \in 1 .. n, NEW j \in 1 .. n, i # j
                 PROVE  Saved[i].uid # Saved[j].uid /\ Saved[i].handle # Saved[j].handle
      BY <1>1, <1>2 DEF FileDistinct
    <2>1. PICK u \in Slots : Alive(u) /\ Saved[i] = Written(u)
      BY <1>2
    <2>2. PICK x \in Slots : Alive(x) /\ Saved[j] = Written(x)
      BY <1>2
    <2>3. u # x
      BY <1>2, <2>1, <2>2
    <2> QED
      BY <1>2, <1>3, <2>1, <2>2, <2>3 DEF IdsInv, Distinct
  <1>6. FileNextIsNew'
    <2> SUFFICES ASSUME uid_wraparound = 0, NEW i \in 1 .. n
                 PROVE  Saved[i].uid >= 1 /\ (g_uid > 0 => Saved[i].uid < g_uid)
      BY <1>1, <1>2 DEF FileNextIsNew
    <2>1. PICK u \in Slots : Alive(u) /\ Saved[i] = Written(u)
      BY <1>2
    <2> QED
      BY <1>3, <2>1 DEF IdsInv, NextIsNew
  <1>7. FileFits' /\ TornOwesNothing'
    BY <1>1, <1>2 DEF FileFits, TornOwesNothing
  <1>8. ASSUME NEW x \in owed'
        PROVE  \E i \in 1 .. n : x.uid = Saved[i].uid /\ x.handle = Saved[i].handle
    BY <1>1, <1>2 DEF ToSet
  <1>9. OwedInFile'
    BY <1>1, <1>2, <1>8 DEF OwedInFile
  <1>10. OwedThere'
    <2> SUFFICES ASSUME NEW x \in owed'
                 PROVE  \E u \in Slots : Alive(u) /\ user[u].uid = x.uid /\ user[u].handle = x.handle
      BY <1>1 DEF OwedThere, Alive
    <2>1. PICK i \in 1 .. n : x.uid = Saved[i].uid /\ x.handle = Saved[i].handle
      BY <1>8
    <2>2. PICK u \in Slots : Alive(u) /\ Saved[i] = Written(u)
      BY <1>2
    <2> QED
      BY <1>3, <2>1, <2>2
  <1> QED
    BY <1>4, <1>5, <1>6, <1>7, <1>9, <1>10 DEF IdsInv

\* The parts of a record that a change of masks, flags or settings leaves.
LEMMA SameAfter ==
  ASSUME TypeInv, NEW u \in Slots, NEW r, user' = [user EXCEPT ![u] = r],
         r.st = user[u].st, r.uid = user[u].uid, r.handle = user[u].handle
  PROVE  SameUsers
  BY DEF SameUsers, TypeInv, UsersType

LEMMA IdsStep ==
  ASSUME TypeInv, IdsInv, [Next]_vars
  PROVE  IdsInv'
  <1>1. CASE UNCHANGED vars
    BY <1>1, IdsSame DEF vars, SameUsers
  <1>2. CASE \E h \in Handles : user_new(h)
    BY <1>2, IdsNew
  <1>3. CASE \E u \in Slots : user_delete(u)
    BY <1>3, IdsDelete
  <1>4. CASE \E u \in Slots, m \in Masks : user_add_ircmask(u, m) \/ user_del_ircmask(u, m)
    <2>1. PICK u \in Slots, m \in Masks : user_add_ircmask(u, m) \/ user_del_ircmask(u, m)
      BY <1>4
    <2>2. user[u] \in UserType
      BY DEF TypeInv, UsersType
    <2>3. PICK s : user' = [user EXCEPT ![u] = [user[u] EXCEPT !.masks = s]]
      BY <2>1 DEF user_add_ircmask, user_del_ircmask
    <2>4. SameUsers
      <3> DEFINE r == [user[u] EXCEPT !.masks = s]
      <3>1. r.st = user[u].st /\ r.uid = user[u].uid /\ r.handle = user[u].handle
        BY <2>2 DEF UserType
      <3>2. user' = [user EXCEPT ![u] = r]
        BY <2>3
      <3> HIDE DEF r
      <3> QED
        BY <3>1, <3>2, SameAfter
    <2>5. UNCHANGED <<run, g_uid, uid_wraparound, disk, owed>>
      BY <2>1 DEF user_add_ircmask, user_del_ircmask
    <2> QED
      BY <2>4, <2>5, IdsSame
  <1>6. CASE \E u \in Slots, h \in Handles : user_change_handle(u, h)
    <2>1. UNCHANGED <<user, g_uid, uid_wraparound, disk, owed>> /\ run' = "undefined"
      BY <1>6 DEF user_change_handle, memory
    <2>2. SameUsers
      BY <2>1 DEF SameUsers
    <2> QED
      BY <2>1, <2>2, IdsSame
  <1>7. CASE \E u \in Slots : \E c, v \in {0, 1} : user_set_flags(u, c, v)
    <2>1. PICK u \in Slots : \E c, v \in {0, 1} : user_set_flags(u, c, v)
      BY <1>7
    <2>2. user[u] \in UserType
      BY DEF TypeInv, UsersType
    <2>3. PICK s : user' = [user EXCEPT ![u] = [user[u] EXCEPT !.nset = s]]
      BY <2>1 DEF user_set_flags
    <2>4. SameUsers
      <3> DEFINE r == [user[u] EXCEPT !.nset = s]
      <3>1. r.st = user[u].st /\ r.uid = user[u].uid /\ r.handle = user[u].handle
        BY <2>2 DEF UserType
      <3>2. user' = [user EXCEPT ![u] = r]
        BY <2>3
      <3> HIDE DEF r
      <3> QED
        BY <3>1, <3>2, SameAfter
    <2>5. UNCHANGED <<run, g_uid, uid_wraparound, disk, owed>>
      BY <2>1 DEF user_set_flags
    <2> QED
      BY <2>4, <2>5, IdsSame
  <1>8. CASE (\E h \in Hosts : user_lookup_by_irchost(h)) \/ cache_rand_cleanup
    <2>1. UNCHANGED <<run, user, g_uid, uid_wraparound, disk, owed>>
      BY <1>8 DEF user_lookup_by_irchost, cache_rand_cleanup
    <2>2. SameUsers
      BY <2>1 DEF SameUsers
    <2> QED
      BY <2>1, <2>2, IdsSame
  <1>10. CASE user_really_delete
    <2>1. UNCHANGED <<run, g_uid, uid_wraparound, disk, owed>>
      BY <1>10 DEF user_really_delete
    <2>2. SameUsers
      BY <1>10 DEF SameUsers, user_really_delete, Alive, NoUser
    <2> QED
      BY <2>1, <2>2, IdsSame
  <1>11. CASE user_save
    BY <1>11, IdsSave
  <1>12. CASE \E broke \in {0, 1} : FlagsChecked(broke)
    <2>1. PICK broke \in {0, 1} : FlagsChecked(broke)
      BY <1>12
    <2> DEFINE f == Last(frames)
               r == check_flag_change(user[f.u], f, broke)
    <2>2. f \in Frame
      BY <2>1, LastFrame DEF FlagsChecked
    <2>3. UNCHANGED user \/ user' = [user EXCEPT ![f.u] = r]
      BY <2>1 DEF FlagsChecked
    <2>4. UNCHANGED <<g_uid, uid_wraparound, disk, owed>> /\ (run' = "up" => run = "up")
      BY <2>1 DEF FlagsChecked
    <2> HIDE DEF f
    <2>5. f.u \in Slots /\ user[f.u] \in UserType
      BY <2>2 DEF Frame, TypeInv, UsersType
    <2>6. r.st = user[f.u].st /\ r.uid = user[f.u].uid /\ r.handle = user[f.u].handle
      BY <2>5 DEF check_flag_change, UserType
    <2> HIDE DEF r
    <2>7. SameUsers
      <3>1. CASE UNCHANGED user
        BY <3>1 DEF SameUsers
      <3>2. CASE user' = [user EXCEPT ![f.u] = r]
        BY <2>5, <2>6, <3>2, SameAfter
      <3> QED
        BY <2>3, <3>1, <3>2
    <2> QED
      BY <2>4, <2>7, IdsSame
  <1>13. CASE Crash
    BY <1>13, IdsCrash
  <1>14. CASE user_load
    BY <1>14, IdsLoad
  <1>15. CASE LoadFails
    <2>1. UNCHANGED <<user, g_uid, uid_wraparound, disk, owed>> /\ disk.good = 0
      BY <1>15 DEF LoadFails, memory
    <2>2. SameUsers
      BY <2>1 DEF SameUsers
    <2> QED
      BY <2>1, <2>2, IdsSame
  <1> QED
    BY <1>1, <1>2, <1>3, <1>4, <1>6, <1>7, <1>8, <1>10, <1>11, <1>12, <1>13, <1>14, <1>15 DEF Next

-----------------------------------------------------------------------------
\* USER_BOT.

LEMMA NobodyIsNoBot == NoUser.bot = NoUser.b
  BY DEF NoUser

LEMMA BotInit == Init => BotInv
  BY NobodyIsNoBot DEF Init, BotInv

LEMMA BotAfter ==
  ASSUME TypeInv, BotInv, NEW u \in Slots, NEW r, user' = [user EXCEPT ![u] = r], r.bot = r.b
  PROVE  BotInv'
  BY DEF BotInv, TypeInv, UsersType

LEMMA BotStep ==
  ASSUME TypeInv, BotInv, [Next]_vars
  PROVE  BotInv'
  <1>1. CASE UNCHANGED vars
    BY <1>1 DEF vars, BotInv
  <1>2. CASE \E h \in Handles : user_new(h)
    <2>1. PICK h \in Handles : user_new(h)
      BY <1>2
    <2>2. NewUser(h).bot = NewUser(h).b
      BY DEF NewUser
    <2>3. UNCHANGED user \/ \E u \in Slots : user' = [user EXCEPT ![u] = NewUser(h)]
      BY <2>1 DEF user_new, FreeSlot
    <2>4. CASE UNCHANGED user
      BY <2>4 DEF BotInv
    <2> QED
      BY <2>2, <2>3, <2>4, BotAfter
  <1>3. CASE \E u \in Slots : user_delete(u)
    <2>1. PICK u \in Slots : user_delete(u)
      BY <1>3
    <2> DEFINE r == [user[u] EXCEPT !.st = "deleted"]
    <2>2. user' = [user EXCEPT ![u] = r]
      BY <2>1 DEF user_delete
    <2>3. r.bot = r.b
      BY DEF BotInv, TypeInv, UsersType, UserType
    <2> HIDE DEF r
    <2> QED
      BY <2>2, <2>3, BotAfter
  <1>4. CASE \E u \in Slots, m \in Masks : user_add_ircmask(u, m) \/ user_del_ircmask(u, m)
    <2>1. PICK u \in Slots, m \in Masks : user_add_ircmask(u, m) \/ user_del_ircmask(u, m)
      BY <1>4
    <2>2. PICK s : user' = [user EXCEPT ![u] = [user[u] EXCEPT !.masks = s]]
      BY <2>1 DEF user_add_ircmask, user_del_ircmask
    <2> DEFINE r == [user[u] EXCEPT !.masks = s]
    <2>3. r.bot = r.b
      BY DEF BotInv, TypeInv, UsersType, UserType
    <2> HIDE DEF r
    <2> QED
      BY <2>2, <2>3, BotAfter DEF r
  <1>5. CASE \E u \in Slots : \E c, v \in {0, 1} : user_set_flags(u, c, v)
    <2>1. PICK u \in Slots : \E c, v \in {0, 1} : user_set_flags(u, c, v)
      BY <1>5
    <2>2. PICK s : user' = [user EXCEPT ![u] = [user[u] EXCEPT !.nset = s]]
      BY <2>1 DEF user_set_flags
    <2> DEFINE r == [user[u] EXCEPT !.nset = s]
    <2>3. r.bot = r.b
      BY DEF BotInv, TypeInv, UsersType, UserType
    <2> HIDE DEF r
    <2> QED
      BY <2>2, <2>3, BotAfter DEF r
  <1>6. CASE \E broke \in {0, 1} : FlagsChecked(broke)
    <2>1. PICK broke \in {0, 1} : FlagsChecked(broke)
      BY <1>6
    <2> DEFINE f == Last(frames)
               r == check_flag_change(user[f.u], f, broke)
    <2>2. f \in Frame
      BY <2>1, LastFrame DEF FlagsChecked
    <2>3. UNCHANGED user \/ user' = [user EXCEPT ![f.u] = r]
      BY <2>1 DEF FlagsChecked
    <2> HIDE DEF f
    <2>4. f.u \in Slots /\ user[f.u] \in UserType
      BY <2>2 DEF Frame, TypeInv, UsersType
    <2>5. r.bot = r.b
      BY <2>4 DEF check_flag_change, UserType, BotInv
    <2>6. CASE UNCHANGED user
      BY <2>6 DEF BotInv
    <2> HIDE DEF r
    <2> QED
      BY <2>3, <2>4, <2>5, <2>6, BotAfter
  <1>7. CASE user_really_delete \/ Crash
    BY <1>7, NobodyIsNoBot DEF user_really_delete, Crash, Wiped, BotInv
  <1>8. CASE user_load
    BY <1>8 DEF user_load, Loaded, NoUser, BotInv
  <1>9. CASE \/ \E u \in Slots, h \in Handles : user_change_handle(u, h)
             \/ \E h \in Hosts : user_lookup_by_irchost(h)
             \/ cache_rand_cleanup \/ user_save \/ LoadFails
    <2>1. UNCHANGED user
      BY <1>9 DEF user_change_handle, user_lookup_by_irchost, cache_rand_cleanup, user_save, LoadFails, memory
    <2> QED
      BY <2>1 DEF BotInv
  <1> QED
    BY <1>1, <1>2, <1>3, <1>4, <1>5, <1>6, <1>7, <1>8, <1>9 DEF Next

\* What holds in every state of the records, whatever the masks are.
RecordsInv == TypeInv /\ IdsInv /\ BotInv

LEMMA RecordsInvHolds == Spec => []RecordsInv
  <1>1. Init => RecordsInv
    BY TypeInit, IdsInit, BotInit DEF RecordsInv
  <1>2. RecordsInv /\ [Next]_vars => RecordsInv'
    <2> SUFFICES ASSUME RecordsInv, [Next]_vars
                 PROVE  RecordsInv'
      OBVIOUS
    <2>1. TypeInv /\ IdsInv /\ BotInv /\ Distinct /\ FileFits
      BY DEF RecordsInv, IdsInv
    <2> QED
      BY <2>1, TypeStep, IdsStep, BotStep DEF RecordsInv
  <1> QED
    BY <1>1, <1>2, PTL DEF Spec

\* The variables of users.c keep their types: the places that the list of
\* masks, the cache and the waiting changes of flags point to are records.
THEOREM UsersTypeCorrect == Spec => []TypeInv
  <1>1. RecordsInv => TypeInv
    BY DEF RecordsInv
  <1> QED
    BY <1>1, RecordsInvHolds, PTL

\* Users have different ids and handles, ids that wrapped around included, and
\* every user that was saved is there after a restart, unless it was deleted
\* or the file was torn (user_get_uid, user_new, user_save, user_load).
THEOREM UsersKeepTheirIds == Spec => []RecordsKept
  <1>1. RecordsInv => RecordsKept
    BY DEF RecordsInv, IdsInv, Distinct, OwedThere, RecordsKept
  <1> QED
    BY <1>1, RecordsInvHolds, PTL

\* USER_BOT says what the global flags say, through changes inside the binds
\* of other changes and through restarts (check_flag_change, append_setting).
THEOREM BotFlagFollows == Spec => []BotFlagAgrees
  <1>1. RecordsInv => BotFlagAgrees
    BY DEF RecordsInv, BotInv, BotFlagAgrees
  <1> QED
    BY <1>1, RecordsInvHolds, PTL

-----------------------------------------------------------------------------
\* Masks in the lists.

LEMMA HasCount ==
  ASSUME NEW S, NEW s \in Seq(S), NEW x
  PROVE  Count(s, x) \in Nat /\ (Has(s, x) <=> Count(s, x) > 0) /\ (Has(s, x) <=> Contains(s, x))
  <1>1. DOMAIN s = 1 .. Len(s)
    OBVIOUS
  <1>2. Count(s, x) \in Nat /\ (Count(s, x) = 0 <=> \A i \in 1 .. Len(s) : s[i] # x)
    BY CountType
  <1>3. Has(s, x) <=> \E i \in 1 .. Len(s) : s[i] = x
    BY <1>1 DEF Has
  <1> QED
    BY <1>2, <1>3 DEF Contains

LEMMA HasAppend ==
  ASSUME NEW S, NEW s \in Seq(S), NEW e \in S, NEW x
  PROVE  Has(Append(s, e), x) <=> Has(s, x) \/ x = e
  <1>1. Append(s, e) \in Seq(S) /\ Count(Append(s, e), x) = Count(s, x) + (IF e = x THEN 1 ELSE 0)
    BY CountAppend
  <1>2. Count(Append(s, e), x) \in Nat /\ (Has(Append(s, e), x) <=> Count(Append(s, e), x) > 0)
    BY <1>1, HasCount
  <1>3. Count(s, x) \in Nat /\ (Has(s, x) <=> Count(s, x) > 0)
    BY HasCount
  <1> QED
    BY <1>1, <1>2, <1>3

LEMMA RemoveFirstCount ==
  ASSUME NEW s \in Seq(Masks), NEW m, Has(s, m)
  PROVE  /\ RemoveFirst(s, m) \in Seq(Masks)
         /\ \A x : Count(s, x) = Count(RemoveFirst(s, m), x) + (IF m = x THEN 1 ELSE 0)
         /\ \A x : Has(RemoveFirst(s, m), x) => Has(s, x)
         /\ \A x : x # m /\ Has(s, x) => Has(RemoveFirst(s, m), x)
  <1> DEFINE t == RemoveFirst(s, m)
  <1>1. PICK p \in 1 .. Len(s) : t = RemoveAt(s, p) /\ s[p] = m
    BY HasCount, RemoveFirstPlace
  <1>2. t \in Seq(Masks)
    BY <1>1, RemoveAtProperties
  <1> HIDE DEF t
  <1>3. ASSUME NEW x
        PROVE  Count(s, x) = Count(t, x) + (IF m = x THEN 1 ELSE 0)
    BY <1>1, CountRemove
  <1>4. ASSUME NEW x
        PROVE  (Has(t, x) => Has(s, x)) /\ (x # m /\ Has(s, x) => Has(t, x))
    <2>1. Count(s, x) \in Nat /\ (Has(s, x) <=> Count(s, x) > 0)
      BY HasCount
    <2>2. Count(t, x) \in Nat /\ (Has(t, x) <=> Count(t, x) > 0)
      BY <1>2, HasCount
    <2> QED
      BY <1>3, <2>1, <2>2
  <1>5. /\ t \in Seq(Masks) /\ \A x : Count(s, x) = Count(t, x) + (IF m = x THEN 1 ELSE 0)
        /\ \A x : Has(t, x) => Has(s, x)
        /\ \A x : x # m /\ Has(s, x) => Has(t, x)
    BY <1>2, <1>3, <1>4
  <1> QED
    BY <1>5 DEF t

LEMMA EntryInserted ==
  ASSUME NEW l \in Seq(Entry), NEW p \in 1 .. Len(l) + 1, NEW e \in Entry
  PROVE  \A j \in 1 .. Len(l) + 1 :
           InsertAt(l, p, e)[j] = IF j < p THEN l[j] ELSE IF j = p THEN e ELSE l[j - 1]
  BY InsertAtProperties

LEMMA AddSorted ==
  ASSUME NEW l \in Seq(Entry), NEW m \in Masks, NEW u \in Slots, LongestFirst(l)
  PROVE  LongestFirst(ircmask_list_add(l, m, u))
  <1> DEFINE e == [mask |-> m, u |-> u]
             t == ircmask_list_add(l, m, u)
  <1>1. PICK p \in 1 .. Len(l) + 1 :
           /\ t = InsertAt(l, p, e)
           /\ \A i \in 1 .. p - 1 : Length[l[i].mask] > Length[m]
           /\ p <= Len(l) => Length[l[p].mask] <= Length[m]
    BY AddPlace
  <1>2. e \in Entry /\ e.mask = m
    BY EntryType
  <1> HIDE DEF e, t
  <1>3. /\ t \in Seq(Entry) /\ Len(t) = Len(l) + 1
        /\ \A j \in 1 .. Len(l) + 1 : t[j] = IF j < p THEN l[j] ELSE IF j = p THEN e ELSE l[j - 1]
    <2>1. t = InsertAt(l, p, e) /\ e \in Entry /\ p \in 1 .. Len(l) + 1
      BY <1>1, <1>2
    <2>2. /\ InsertAt(l, p, e) \in Seq(Entry) /\ Len(InsertAt(l, p, e)) = Len(l) + 1
          /\ \A j \in 1 .. Len(l) + 1 :
               InsertAt(l, p, e)[j] = IF j < p THEN l[j] ELSE IF j = p THEN e ELSE l[j - 1]
      <3>1. InsertAt(l, p, e) \in Seq(Entry)
        BY <2>1, InsertAtProperties
      <3>2. Len(InsertAt(l, p, e)) = Len(l) + 1
        BY <2>1, InsertAtProperties
      <3>3. \A j \in 1 .. Len(l) + 1 :
               InsertAt(l, p, e)[j] = IF j < p THEN l[j] ELSE IF j = p THEN e ELSE l[j - 1]
        BY <2>1, EntryInserted
      <3> QED
        BY <3>1, <3>2, <3>3
    <2> QED
      BY <2>1, <2>2
  <1>4. /\ Len(l) \in Nat /\ p \in Nat /\ DOMAIN l = 1 .. Len(l) /\ DOMAIN t = 1 .. Len(l) + 1
        /\ \A i \in 1 .. Len(l) : l[i] \in Entry
    BY <1>3
  <1> DEFINE long == [i \in 1 .. Len(l) |-> Length[l[i].mask]]
             n == Length[m]
  <1>5. n \in Nat /\ \A i \in 1 .. Len(l) : Length[l[i].mask] \in Nat
    BY <1>4, UsersAssumption DEF Entry
  <1>6. \A i, j \in 1 .. Len(l) : i < j => Length[l[i].mask] >= Length[l[j].mask]
    BY <1>4 DEF LongestFirst
  <1>7. \A i \in 1 .. Len(l) : i >= p => Length[l[i].mask] <= n
    BY <1>1, <1>4, <1>5, <1>6
  <1>8. ASSUME NEW i \in 1 .. Len(l) + 1, NEW j \in 1 .. Len(l) + 1, i < j
        PROVE  Length[t[i].mask] >= Length[t[j].mask]
    <2>0. i \in Nat /\ j \in Nat
      BY <1>4
    <2>1. CASE j < p
      <3>1. t[i] = l[i] /\ t[j] = l[j] /\ i \in 1 .. Len(l) /\ j \in 1 .. Len(l)
        BY <1>3, <1>4, <1>8, <2>0, <2>1
      <3> QED
        BY <1>6, <1>8, <3>1
    <2>2. CASE j = p
      <3>1. t[i] = l[i] /\ t[j] = e /\ i \in 1 .. p - 1 /\ i \in 1 .. Len(l)
        BY <1>3, <1>4, <1>8, <2>0, <2>2
      <3> QED
        BY <1>1, <1>2, <1>5, <3>1
    <2>3. CASE j > p
      <3>1. t[j] = l[j - 1] /\ j - 1 \in 1 .. Len(l) /\ j - 1 >= p
        BY <1>3, <1>4, <2>0, <2>3
      <3>2. CASE i < p
        <4>1. t[i] = l[i] /\ i \in 1 .. Len(l) /\ i < j - 1
          BY <1>3, <1>4, <2>0, <2>3, <3>2
        <4> QED
          BY <1>6, <3>1, <4>1
      <3>3. CASE i = p
        BY <1>2, <1>3, <1>5, <1>7, <3>1, <3>3
      <3>4. CASE i > p
        <4>1. t[i] = l[i - 1] /\ i - 1 \in 1 .. Len(l) /\ i - 1 < j - 1
          BY <1>3, <1>4, <1>8, <2>0, <3>4
        <4> QED
          BY <1>6, <3>1, <4>1
      <3> QED
        BY <1>4, <2>0, <3>2, <3>3, <3>4
    <2> QED
      BY <1>4, <2>0, <2>1, <2>2, <2>3
  <1>9. LongestFirst(t)
    BY <1>4, <1>8 DEF LongestFirst
  <1> QED
    BY <1>9 DEF t

LEMMA DelSorted ==
  ASSUME NEW l \in Seq(Entry), NEW m, LongestFirst(l)
  PROVE  LongestFirst(ircmask_list_del(l, m))
  <1> DEFINE t == ircmask_list_del(l, m)
  <1>1. CASE t = l
    BY <1>1
  <1>2. CASE \E p \in 1 .. Len(l) : t = RemoveAt(l, p)
    <2>1. PICK p \in 1 .. Len(l) : t = RemoveAt(l, p)
      BY <1>2
    <2> HIDE DEF t
    <2>2. /\ t \in Seq(Entry) /\ Len(t) = Len(l) - 1
          /\ \A j \in 1 .. Len(l) - 1 : t[j] = IF j < p THEN l[j] ELSE l[j + 1]
      BY <2>1, RemoveAtProperties
    <2>3. Len(l) \in Nat /\ p \in Nat /\ DOMAIN l = 1 .. Len(l) /\ DOMAIN t = 1 .. Len(l) - 1
      BY <2>2
    <2>4. \A i, j \in 1 .. Len(l) : i < j => Length[l[i].mask] >= Length[l[j].mask]
      BY <2>3 DEF LongestFirst
    <2>5. ASSUME NEW i \in 1 .. Len(l) - 1, NEW j \in 1 .. Len(l) - 1, i < j
          PROVE  Length[t[i].mask] >= Length[t[j].mask]
      <3> DEFINE a == IF i < p THEN i ELSE i + 1
                 b == IF j < p THEN j ELSE j + 1
      <3>1. a \in 1 .. Len(l) /\ b \in 1 .. Len(l) /\ a < b
        BY <2>3, <2>5
      <3>2. t[i] = l[a] /\ t[j] = l[b]
        BY <2>2
      <3> HIDE DEF a, b
      <3> QED
        BY <2>4, <3>1, <3>2
    <2>6. LongestFirst(t)
      BY <2>3, <2>5 DEF LongestFirst
    <2> QED
      BY <2>6 DEF t
  <1> QED
    BY <1>1, <1>2, DelPlace

LEMMA AddCount ==
  ASSUME NEW l \in Seq(Entry), NEW m \in Masks, NEW u \in Slots, NEW n, NEW v
  PROVE  Count(ircmask_list_add(l, m, u), [mask |-> n, u |-> v]) =
           Count(l, [mask |-> n, u |-> v]) + (IF m = n /\ u = v THEN 1 ELSE 0)
  <1> DEFINE e == [mask |-> m, u |-> u]
             x == [mask |-> n, u |-> v]
  <1>1. PICK p \in 1 .. Len(l) + 1 : ircmask_list_add(l, m, u) = InsertAt(l, p, e)
    BY AddPlace
  <1>2. e \in Entry /\ (e = x <=> m = n /\ u = v)
    BY EntryType
  <1> HIDE DEF e, x
  <1>3. Count(InsertAt(l, p, e), x) = Count(l, x) + (IF e = x THEN 1 ELSE 0)
    BY <1>2, CountInsert
  <1>4. Count(ircmask_list_add(l, m, u), x) = Count(l, x) + (IF m = n /\ u = v THEN 1 ELSE 0)
    BY <1>1, <1>2, <1>3
  <1> QED
    BY <1>4 DEF x

\* When only u has m in the list, and has it there, an entry of u goes.
OnlyOneHas(l, m, u) ==
  /\ Count(l, [mask |-> m, u |-> u]) > 0
  /\ \A v \in Slots : v # u => Count(l, [mask |-> m, u |-> v]) = 0
Loses(l, t, m, u) ==
  \A n, v : Count(l, [mask |-> n, u |-> v]) =
           Count(t, [mask |-> n, u |-> v]) + (IF m = n /\ u = v THEN 1 ELSE 0)

LEMMA DelCount ==
  ASSUME NEW l \in Seq(Entry), NEW m \in Masks, NEW u \in Slots, OnlyOneHas(l, m, u)
  PROVE  Loses(l, ircmask_list_del(l, m), m, u)
  <1> DEFINE e == [mask |-> m, u |-> u]
             E(n, v) == [mask |-> n, u |-> v]
  <1>0. Len(l) \in Nat /\ DOMAIN l = 1 .. Len(l) /\ \A i \in 1 .. Len(l) : l[i] \in Entry
    OBVIOUS
  <1>1. PICK i \in 1 .. Len(l) : l[i] = e
    <2>0. Count(l, e) > 0
      BY DEF OnlyOneHas
    <2>1. Count(l, e) # 0
      BY <2>0
    <2> HIDE DEF e
    <2> QED
      BY <2>1, CountType
  <1>2. l[i].mask = m
    BY <1>1
  <1>3. PICK p \in 1 .. Len(l) : ircmask_list_del(l, m) = RemoveAt(l, p) /\ l[p].mask = m
    BY <1>2, DelPlace
  <1>4. l[p] = e
    <2>1. l[p] \in Entry
      BY <1>0
    <2>2. l[p].u \in Slots /\ l[p] = [mask |-> m, u |-> l[p].u]
      BY <1>3, <2>1 DEF Entry
    <2>3. Count(l, [mask |-> m, u |-> l[p].u]) # 0
      BY <2>2, CountType
    <2> QED
      BY <2>2, <2>3 DEF OnlyOneHas
  <1>5. ASSUME NEW n, NEW v
        PROVE  Count(l, E(n, v)) = Count(ircmask_list_del(l, m), E(n, v)) + (IF m = n /\ u = v THEN 1 ELSE 0)
    <2> DEFINE x == E(n, v)
    <2>1. l[p] = x <=> m = n /\ u = v
      BY <1>4
    <2> HIDE DEF x
    <2>2. Count(l, x) = Count(RemoveAt(l, p), x) + (IF l[p] = x THEN 1 ELSE 0)
      BY CountRemove
    <2>3. Count(l, x) = Count(ircmask_list_del(l, m), x) + (IF m = n /\ u = v THEN 1 ELSE 0)
      BY <1>3, <2>1, <2>2
    <2> QED
      BY <2>3 DEF x
  <1> QED
    BY <1>5 DEF Loses

\* When nobody has m in the list nothing goes.
LEMMA DelNothing ==
  ASSUME NEW l \in Seq(Entry), NEW m \in Masks,
         \A v \in Slots : Count(l, [mask |-> m, u |-> v]) = 0
  PROVE  ircmask_list_del(l, m) = l
  <1>0. Len(l) \in Nat /\ DOMAIN l = 1 .. Len(l) /\ \A i \in 1 .. Len(l) : l[i] \in Entry
    OBVIOUS
  <1>1. ASSUME NEW p \in 1 .. Len(l), l[p].mask = m
        PROVE  FALSE
    <2>1. l[p] \in Entry
      BY <1>0
    <2>2. l[p].u \in Slots /\ l[p] = [mask |-> m, u |-> l[p].u]
      BY <1>1, <2>1 DEF Entry
    <2>3. Count(l, [mask |-> m, u |-> l[p].u]) # 0
      BY <2>2, CountType
    <2> QED
      BY <2>2, <2>3
  <1> QED
    BY <1>1, DelPlace

\* What user_load makes of the masks of one user.
LEMMA MasksLoaded ==
  ASSUME NEW l \in Seq(Entry), NEW u \in Slots, disk.users[u].masks \in Seq(Masks), NEW m, NEW v
  PROVE  /\ LongestFirst(l) => LongestFirst(LoadedMasks(l, u))
         /\ Count(LoadedMasks(l, u), [mask |-> m, u |-> v]) =
              Count(l, [mask |-> m, u |-> v]) + (IF u = v THEN Count(disk.users[u].masks, m) ELSE 0)
  <1> DEFINE ms == disk.users[u].masks
             n == Len(ms)
             x == [mask |-> m, u |-> v]
  <1>1. PICK g \in [0 .. n -> Seq(Entry)] :
           /\ g[0] = l /\ LoadedMasks(l, u) = g[n]
           /\ \A k \in 1 .. n : g[k] = ircmask_list_add(g[k - 1], ms[k], u)
    BY MasksStages
  <1>2. n \in Nat /\ ms \in Seq(Masks) /\ DOMAIN ms = 1 .. n /\ \A k \in 1 .. n : ms[k] \in Masks
    OBVIOUS
  <1> DEFINE Done(k) == /\ LongestFirst(l) => LongestFirst(g[k])
                        /\ Count(g[k], x) = Count(l, x) + (IF u = v THEN Before(ms, m, k) ELSE 0)
             A == {k \in 0 .. n : Done(k)}
  <1>3. /\ Before(ms, m, 0) = 0 /\ Before(ms, m, n) = Count(ms, m)
        /\ \A k \in 0 .. n : Before(ms, m, k) \in Nat
        /\ \A k \in 1 .. n : Before(ms, m, k) = Before(ms, m, k - 1) + (IF ms[k] = m THEN 1 ELSE 0)
    <2>1. ms \in Seq(Masks)
      BY <1>2
    <2> HIDE DEF ms
    <2> QED
      BY <2>1, BeforeProperties
  <1> HIDE DEF ms, n
  <1>4. Count(l, x) \in Nat
    <2> HIDE DEF x
    <2> QED
      BY CountType
  <1>5. 0 \in A
    BY <1>1, <1>2, <1>3, <1>4
  <1>6. ASSUME NEW k \in 0 .. n - 1, k \in A
        PROVE  k + 1 \in A
    <2>1. k + 1 \in 1 .. n /\ k \in 0 .. n /\ (k + 1) - 1 = k /\ k + 1 \in 0 .. n
      BY <1>2
    <2>2. g[k] \in Seq(Entry) /\ g[k + 1] = ircmask_list_add(g[k], ms[k + 1], u) /\ ms[k + 1] \in Masks
      BY <1>1, <1>2, <2>1
    <2>3. Done(k)
      BY <1>6
    <2>4. LongestFirst(l) => LongestFirst(g[k + 1])
      BY <2>2, <2>3, AddSorted
    <2>5. Count(g[k + 1], x) = Count(g[k], x) + (IF ms[k + 1] = m /\ u = v THEN 1 ELSE 0)
      <3>1. Count(ircmask_list_add(g[k], ms[k + 1], u), [mask |-> m, u |-> v]) =
              Count(g[k], [mask |-> m, u |-> v]) + (IF ms[k + 1] = m /\ u = v THEN 1 ELSE 0)
        BY <2>2, AddCount
      <3> QED
        BY <2>2, <3>1
    <2>6. Before(ms, m, k + 1) = Before(ms, m, k) + (IF ms[k + 1] = m THEN 1 ELSE 0) /\ Before(ms, m, k) \in Nat
      BY <1>3, <2>1
    <2>7. Count(g[k + 1], x) = Count(l, x) + (IF u = v THEN Before(ms, m, k + 1) ELSE 0)
      <3> DEFINE c0 == Count(l, x)
                 c1 == Count(g[k], x)
                 c2 == Count(g[k + 1], x)
                 b1 == Before(ms, m, k)
                 b2 == Before(ms, m, k + 1)
      <3>1. c1 = c0 + (IF u = v THEN b1 ELSE 0)
        BY <2>3
      <3>2. c2 = c1 + (IF ms[k + 1] = m /\ u = v THEN 1 ELSE 0)
        BY <2>5
      <3>3. b2 = b1 + (IF ms[k + 1] = m THEN 1 ELSE 0) /\ b1 \in Nat /\ c0 \in Nat
        BY <1>4, <2>6
      <3> HIDE DEF c0, c1, c2, b1, b2
      <3>4. c2 = c0 + (IF u = v THEN b2 ELSE 0)
        BY <3>1, <3>2, <3>3
      <3> QED
        BY <3>4 DEF c0, c2, b2
    <2>8. Done(k + 1)
      BY <2>4, <2>7
    <2> QED
      BY <2>1, <2>8
  <1>7. \A k \in 0 .. n : k \in A
    <2> HIDE DEF A
    <2> QED
      BY <1>2, <1>5, <1>6, UpTo
  <1>8. Done(n)
    BY <1>2, <1>7
  <1>9. /\ LongestFirst(l) => LongestFirst(LoadedMasks(l, u))
        /\ Count(LoadedMasks(l, u), x) = Count(l, x) + (IF u = v THEN Count(ms, m) ELSE 0)
    BY <1>1, <1>3, <1>8
  <1> QED
    BY <1>9 DEF ms, x

\* What it makes of all users.
LEMMA UsersLoaded ==
  ASSUME DiskType, FileFits
  PROVE  /\ LongestFirst(LoadedList)
         /\ \A m, v : Count(LoadedList, [mask |-> m, u |-> v]) =
              IF v \in DOMAIN disk.users THEN Count(disk.users[v].masks, m) ELSE 0
  <1> DEFINE n == Len(disk.users)
  <1>1. n \in Nat /\ DOMAIN disk.users = 1 .. n /\ 1 .. n \subseteq Slots
    BY DEF DiskType, FileFits
  <1>2. \A u \in 1 .. n : disk.users[u].masks \in Seq(Masks)
    <2> SUFFICES ASSUME NEW u \in 1 .. n
                 PROVE  disk.users[u].masks \in Seq(Masks)
      OBVIOUS
    <2>1. disk.users[u] \in FileUser
      BY <1>1 DEF DiskType
    <2> QED
      BY <2>1 DEF FileUser
  <1>3. Len(FileOrder) = n /\ \A k \in 1 .. n : FileOrder[k] = k
    BY <1>1 DEF FileOrder
  <1> HIDE DEF n
  <1>4. PICK g \in [0 .. n -> Seq(Entry)] :
           /\ g[0] = <<>> /\ LoadedList = g[n]
           /\ \A k \in 1 .. n : g[k] = LoadedMasks(g[k - 1], k)
    <2>1. \E g \in [0 .. Len(FileOrder) -> Seq(Entry)] :
             /\ g[0] = <<>> /\ LoadedList = g[Len(FileOrder)]
             /\ \A k \in 1 .. Len(FileOrder) : g[k] = LoadedMasks(g[k - 1], FileOrder[k])
      BY <1>1, <1>2, UsersStages
    <2> QED
      BY <1>3, <2>1
  <1> DEFINE S == {k \in 0 .. n : LongestFirst(g[k])}
  <1>5. \A k \in 0 .. n - 1 : k + 1 \in 1 .. n /\ k \in 0 .. n /\ (k + 1) - 1 = k /\ k + 1 \in 0 .. n
    BY <1>1
  <1>6. \A k \in 0 .. n - 1 :
           /\ g[k] \in Seq(Entry) /\ g[k + 1] = LoadedMasks(g[k], k + 1)
           /\ k + 1 \in Slots /\ disk.users[k + 1].masks \in Seq(Masks)
    BY <1>1, <1>2, <1>4, <1>5
  <1>7. LongestFirst(g[n])
    <2>1. 0 \in S
      BY <1>1, <1>4 DEF LongestFirst
    <2>2. ASSUME NEW k \in 0 .. n - 1, k \in S
          PROVE  k + 1 \in S
      BY <1>5, <1>6, <2>2, MasksLoaded
    <2>3. \A k \in 0 .. n : k \in S
      <3> HIDE DEF S
      <3> QED
        BY <1>1, <2>1, <2>2, UpTo
    <2> QED
      BY <1>1, <2>3
  <1>8. ASSUME NEW m, NEW v
        PROVE  Count(g[n], [mask |-> m, u |-> v]) =
                 IF v \in 1 .. n THEN Count(disk.users[v].masks, m) ELSE 0
    <2> DEFINE x == [mask |-> m, u |-> v]
               A == {k \in 0 .. n : Count(g[k], x) = IF v \in 1 .. k THEN Count(disk.users[v].masks, m) ELSE 0}
    <2>1. 0 \in A
      <3>1. Count(<<>>, x) = 0
        BY CountEmpty
      <3> HIDE DEF x
      <3> QED
        BY <1>1, <1>4, <3>1
    <2>2. ASSUME NEW k \in 0 .. n - 1, k \in A
          PROVE  k + 1 \in A
      <3>1. Count(LoadedMasks(g[k], k + 1), [mask |-> m, u |-> v]) =
              Count(g[k], [mask |-> m, u |-> v]) + (IF k + 1 = v THEN Count(disk.users[k + 1].masks, m) ELSE 0)
        BY <1>6, MasksLoaded
      <3>2. Count(g[k + 1], x) = Count(g[k], x) + (IF k + 1 = v THEN Count(disk.users[k + 1].masks, m) ELSE 0)
        BY <1>6, <3>1
      <3>3. Count(disk.users[k + 1].masks, m) \in Nat
        <4>1. disk.users[k + 1].masks \in Seq(Masks)
          BY <1>6
        <4> QED
          BY <4>1, CountType
      <3>4. Count(g[k], x) = IF v \in 1 .. k THEN Count(disk.users[v].masks, m) ELSE 0
        BY <2>2
      <3> HIDE DEF x
      <3>5. CASE v = k + 1
        <4>1. v \notin 1 .. k /\ v \in 1 .. k + 1
          BY <3>5
        <4> QED
          BY <1>5, <3>2, <3>3, <3>4, <3>5, <4>1
      <3>6. CASE v # k + 1
        <4>1. v \in 1 .. k <=> v \in 1 .. k + 1
          BY <3>6
        <4>2. Count(g[k], x) \in Nat
          BY <1>6, CountType
        <4> QED
          BY <1>5, <3>2, <3>4, <3>6, <4>1, <4>2
      <3> QED
        BY <3>5, <3>6
    <2>3. \A k \in 0 .. n : k \in A
      <3> HIDE DEF A
      <3> QED
        BY <1>1, <2>1, <2>2, UpTo
    <2>4. n \in A
      <3> HIDE DEF A
      <3> QED
        BY <1>1, <2>3
    <2>5. Count(g[n], x) = IF v \in 1 .. n THEN Count(disk.users[v].masks, m) ELSE 0
      <3> HIDE DEF x
      <3> QED
        BY <2>4
    <2> QED
      BY <2>5
  <1> QED
    BY <1>1, <1>4, <1>7, <1>8

-----------------------------------------------------------------------------
\* Masks, step by step.

\* The same users have the same masks.
SameMasks ==
  \A u \in Slots :
    /\ user'[u].st = "live" <=> user[u].st = "live"
    /\ user[u].st = "live" => user'[u].masks = user[u].masks

LEMMA MasksSame ==
  ASSUME MasksInv, SameMasks, UNCHANGED <<ircmask_list, irchost_cache, disk, clash>>,
         run' = "down" => run = "down"
  PROVE  MasksInv'
  <1>1. Sorted' /\ DownHasNoCache'
    BY DEF MasksInv, Sorted, LongestFirst, DownHasNoCache
  <1>2. ASSUME clash' = 0
        PROVE  ClashFree'
    <2>1. OwnMasks /\ FileOwnMasks /\ Complete /\ CacheRight
      BY <1>2 DEF MasksInv, ClashFree
    <2>2. OwnMasks'
      BY <2>1 DEF OwnMasks, SameMasks, Alive
    <2>3. FileOwnMasks'
      BY <2>1 DEF FileOwnMasks
    <2>4. Complete'
      BY <2>1 DEF Complete, SameMasks, Alive
    <2>5. CacheRight'
      BY <2>1 DEF CacheRight, RightAt, Fits, SameMasks, Alive
    <2> QED
      BY <2>2, <2>3, <2>4, <2>5 DEF ClashFree
  <1> QED
    BY <1>1, <1>2 DEF MasksInv

\* RightAt for the next state.
FitsAfter(v, h) ==
  user'[v].st = "live" /\ \E m \in Masks : Has(user'[v].masks, m) /\ Strength[m][h] > 0
RightAfter(d, h) ==
  d = Absent \/ (d \in Slots /\ FitsAfter(d, h)) \/ (d = None /\ \A v \in Slots : ~ FitsAfter(v, h))

LEMMA RightEverywhere ==
  ASSUME \A h \in Hosts : RightAfter(irchost_cache'[h], h)
  PROVE  CacheRight'
  BY DEF CacheRight, RightAt, Fits, Alive, RightAfter, FitsAfter

LEMMA MasksInit == Init => MasksInv
  <1> SUFFICES ASSUME Init PROVE MasksInv
    OBVIOUS
  <1>1. \A u \in Slots : ~ Alive(u)
    BY DEF Init, Alive, NoUser
  <1>2. DOMAIN disk.users = {}
    BY EmptyFiles DEF Init
  <1>3. Sorted
    BY DEF Init, Sorted, LongestFirst
  <1>4. CacheRight
    BY DEF Init, NoCache, CacheRight, RightAt
  <1>5. Complete
    BY <1>1, CountEmpty DEF Init, Complete
  <1>6. OwnMasks /\ FileOwnMasks
    BY <1>1, <1>2 DEF OwnMasks, FileOwnMasks
  <1>7. DownHasNoCache
    BY DEF Init, DownHasNoCache
  <1> QED
    BY <1>3, <1>4, <1>5, <1>6, <1>7 DEF MasksInv, ClashFree

LEMMA TopOf ==
  ASSUME NEW n \in Nat, NEW f \in [1 .. n -> Nat]
  PROVE  \E t \in {f[i] : i \in 1 .. n} \cup {0} : \A i \in 1 .. n : f[i] <= t
  <1> DEFINE Top(k) == \E t \in {f[i] : i \in 1 .. k} \cup {0} : \A i \in 1 .. k : f[i] <= t
             A == {k \in 0 .. n : Top(k)}
  <1>1. 0 \in A
    OBVIOUS
  <1>2. ASSUME NEW k \in 0 .. n - 1, k \in A
        PROVE  k + 1 \in A
    <2>1. PICK t \in {f[i] : i \in 1 .. k} \cup {0} : \A i \in 1 .. k : f[i] <= t
      BY <1>2
    <2>2. t \in Nat /\ f[k + 1] \in Nat /\ k + 1 \in 0 .. n
      BY <2>1
    <2>3. CASE f[k + 1] <= t
      <3>1. t \in {f[i] : i \in 1 .. k + 1} \cup {0}
        BY <2>1
      <3>2. \A i \in 1 .. k + 1 : f[i] <= t
        BY <2>1, <2>3
      <3> QED
        BY <2>2, <3>1, <3>2
    <2>4. CASE t < f[k + 1]
      <3>1. f[k + 1] \in {f[i] : i \in 1 .. k + 1} \cup {0}
        OBVIOUS
      <3>2. \A i \in 1 .. k + 1 : f[i] <= f[k + 1]
        BY <2>1, <2>2, <2>4
      <3> QED
        BY <2>2, <3>1, <3>2
    <2> QED
      BY <2>2, <2>3, <2>4
  <1>3. \A k \in 0 .. n : k \in A
    <2> HIDE DEF A
    <2> QED
      BY <1>1, <1>2, UpTo
  <1>4. n \in A
    <2> HIDE DEF A
    <2> QED
      BY <1>3
  <1> QED
    BY <1>4

LEMMA Best ==
  ASSUME TypeInv, NEW c, NEW h \in Hosts
  PROVE  BestStrength(c, h) \in Nat /\ (c \notin Slots => BestStrength(c, h) = 0)
  <1> DEFINE s == IF c \in Slots THEN {Strength[user[c].masks[i]][h] : i \in DOMAIN user[c].masks} ELSE {}
  <1>1. BestStrength(c, h) = CHOOSE n \in s \cup {0} : \A x \in s : x <= n
    BY DEF BestStrength
  <1>2. CASE c \in Slots
    <2> DEFINE ms == user[c].masks
               n == Len(ms)
               f == [i \in 1 .. n |-> Strength[ms[i]][h]]
    <2>1. ms \in Seq(Masks) /\ n \in Nat /\ DOMAIN ms = 1 .. n
      BY <1>2 DEF TypeInv, UsersType, UserType
    <2>2. \A i \in 1 .. n : Strength[ms[i]][h] \in Nat
      BY <2>1, UsersAssumption
    <2>3. f \in [1 .. n -> Nat]
      BY <2>2
    <2>4. s = {f[i] : i \in 1 .. n}
      BY <1>2, <2>1
    <2> HIDE DEF f, s, n, ms
    <2>5. PICK t \in {f[i] : i \in 1 .. n} \cup {0} : \A i \in 1 .. n : f[i] <= t
      BY <2>1, <2>3, TopOf
    <2>6. \E t1 \in s \cup {0} : \A x \in s : x <= t1
      BY <2>4, <2>5
    <2>7. BestStrength(c, h) \in s \cup {0}
      BY <1>1, <2>6
    <2> QED
      BY <1>2, <2>3, <2>4, <2>7
  <1>3. CASE c \notin Slots
    BY <1>1, <1>3
  <1> QED
    BY <1>2, <1>3

LEMMA NobodyIsNoSlot == None \notin Slots /\ Absent \notin Slots /\ None # Absent
  BY SpanFacts DEF None, Absent

LEMMA MasksAdd ==
  ASSUME TypeInv, MasksInv, NEW u \in Slots, NEW m \in Masks, user_add_ircmask(u, m)
  PROVE  MasksInv'
  <1>0. /\ run = "up" /\ Alive(u) /\ UNCHANGED <<run, disk>>
        /\ ircmask_list' = ircmask_list_add(ircmask_list, m, u)
        /\ irchost_cache' = [h \in Hosts |-> cache_check_add(irchost_cache[h], h, m, u)]
    BY DEF user_add_ircmask, Up
  <1>1. user[u].masks \in Seq(Masks) /\ ircmask_list \in Seq(Entry)
    BY DEF TypeInv, UsersType, UserType, ListType
  <1>2. /\ user'[u].masks = Append(user[u].masks, m)
        /\ \A v \in Slots : user'[v].st = user[v].st /\ (v # u => user'[v].masks = user[v].masks)
    BY DEF user_add_ircmask, TypeInv, UsersType, UserType
  <1>3. Sorted' /\ DownHasNoCache'
    BY <1>0, <1>1, AddSorted DEF MasksInv, Sorted, DownHasNoCache
  <1>4. ASSUME clash' = 0
        PROVE  ClashFree'
    <2>1. clash = 0 /\ m # "*" /\ \A x \in Slots \ {u} : Alive(x) => ~ Contains(user[x].masks, m)
      BY <1>4 DEF user_add_ircmask
    <2>2. OwnMasks /\ FileOwnMasks /\ Complete /\ CacheRight
      BY <2>1 DEF MasksInv, ClashFree
    <2>3. \A x \in Slots : x # u /\ Alive(x) => ~ Has(user[x].masks, m)
      <3> SUFFICES ASSUME NEW x \in Slots, x # u, Alive(x)
                   PROVE  ~ Has(user[x].masks, m)
        OBVIOUS
      <3>1. user[x].masks \in Seq(Masks)
        BY DEF TypeInv, UsersType, UserType
      <3> QED
        BY <2>1, <3>1, HasCount
    <2>4. \A n : Has(user'[u].masks, n) <=> Has(user[u].masks, n) \/ n = m
      BY <1>1, <1>2, HasAppend
    <2>5. \A n : Count(user'[u].masks, n) = Count(user[u].masks, n) + (IF m = n THEN 1 ELSE 0)
      BY <1>1, <1>2, CountAppend
    <2>6. OwnMasks'
      <3> SUFFICES ASSUME NEW v \in Slots, NEW n \in Masks, Alive(v)', Has(user'[v].masks, n)
                   PROVE  n # "*" /\ \A x \in Slots : x # v /\ Alive(x)' => ~ Has(user'[x].masks, n)
        BY DEF OwnMasks
      <3>1. CASE v = u
        BY <1>0, <1>2, <2>1, <2>2, <2>3, <2>4, <3>1 DEF OwnMasks, Alive
      <3>2. CASE v # u
        BY <1>0, <1>2, <2>1, <2>2, <2>3, <2>4, <3>2 DEF OwnMasks, Alive
      <3> QED
        BY <3>1, <3>2
    <2>7. FileOwnMasks'
      BY <1>0, <2>2 DEF FileOwnMasks
    <2>8. Complete'
      <3> SUFFICES ASSUME NEW v \in Slots, NEW n \in Masks
                   PROVE  Count(ircmask_list', [mask |-> n, u |-> v]) =
                            IF Alive(v)' THEN Count(user'[v].masks, n) ELSE 0
        BY DEF Complete
      <3>1. Count(ircmask_list', [mask |-> n, u |-> v]) =
              Count(ircmask_list, [mask |-> n, u |-> v]) + (IF m = n /\ u = v THEN 1 ELSE 0)
        BY <1>0, <1>1, AddCount
      <3>2. Count(ircmask_list, [mask |-> n, u |-> v]) = IF Alive(v) THEN Count(user[v].masks, n) ELSE 0
        BY <2>2 DEF Complete
      <3>3. Count(ircmask_list, [mask |-> n, u |-> v]) \in Nat
        BY <1>1, CountType
      <3>4. Alive(v)' <=> Alive(v)
        BY <1>2 DEF Alive
      <3>5. CASE v = u
        <4>1. Count(user'[u].masks, n) = Count(user[u].masks, n) + (IF m = n THEN 1 ELSE 0)
          BY <2>5
        <4> QED
          BY <1>0, <3>1, <3>2, <3>4, <3>5, <4>1
      <3>6. CASE v # u
        BY <1>2, <3>1, <3>2, <3>3, <3>4, <3>6
      <3> QED
        BY <3>5, <3>6
    <2>9. CacheRight'
      <3> SUFFICES ASSUME NEW h \in Hosts
                   PROVE  RightAfter(irchost_cache'[h], h)
        BY RightEverywhere
      <3> DEFINE c == irchost_cache[h]
                 d == irchost_cache'[h]
                 b == BestStrength(c, h)
                 s == Strength[m][h]
      <3>1. /\ d = IF c # Absent /\ s > b THEN u ELSE c
            /\ b \in Nat /\ s \in Nat /\ (c \notin Slots => b = 0)
        BY <1>0, Best, UsersAssumption DEF cache_check_add
      <3>2. c = Absent \/ (c \in Slots /\ Fits(c, h)) \/ (c = None /\ \A v \in Slots : ~ Fits(v, h))
        BY <2>2 DEF CacheRight, RightAt
      <3>3. \A v \in Slots : Fits(v, h) => FitsAfter(v, h)
        BY <1>2, <2>4 DEF Fits, FitsAfter, Alive
      <3>4. s > 0 => FitsAfter(u, h)
        BY <1>0, <1>2, <2>4 DEF FitsAfter, Alive
      <3>5. ~ s > 0 => \A v \in Slots : ~ Fits(v, h) => ~ FitsAfter(v, h)
        BY <1>2, <2>4 DEF Fits, FitsAfter, Alive
      <3> HIDE DEF b, c, d, s
      <3>6. RightAfter(d, h)
        <4>1. CASE c = Absent
          BY <3>1, <4>1 DEF RightAfter
        <4>2. CASE c \in Slots /\ Fits(c, h)
          BY <3>1, <3>3, <3>4, <4>2 DEF RightAfter
        <4>3. CASE c = None /\ \A v \in Slots : ~ Fits(v, h)
          BY <3>1, <3>4, <3>5, <4>3, NobodyIsNoSlot DEF RightAfter
        <4> QED
          BY <3>2, <4>1, <4>2, <4>3
      <3> QED
        BY <3>6 DEF d
    <2> QED
      BY <2>6, <2>7, <2>8, <2>9 DEF ClashFree
  <1> QED
    BY <1>3, <1>4 DEF MasksInv

LEMMA MasksDel ==
  ASSUME TypeInv, MasksInv, NEW u \in Slots, NEW m \in Masks, user_del_ircmask(u, m)
  PROVE  MasksInv'
  <1>0. /\ run = "up" /\ Alive(u) /\ UNCHANGED <<run, disk, clash>>
        /\ ircmask_list' = ircmask_list_del(ircmask_list, m)
        /\ irchost_cache' = cache_user_del(u, m)
    BY DEF user_del_ircmask, Up
  <1>1. user[u].masks \in Seq(Masks) /\ ircmask_list \in Seq(Entry)
    BY DEF TypeInv, UsersType, UserType, ListType
  <1>2. /\ user'[u].masks = RemoveFirst(user[u].masks, m)
        /\ \A v \in Slots : user'[v].st = user[v].st /\ (v # u => user'[v].masks = user[v].masks)
    BY DEF user_del_ircmask, TypeInv, UsersType, UserType
  <1>3. Has(user[u].masks, m)
    BY <1>1, HasCount DEF user_del_ircmask
  <1>4. Sorted' /\ DownHasNoCache'
    BY <1>0, <1>1, DelSorted DEF MasksInv, Sorted, DownHasNoCache
  <1>5. ASSUME clash' = 0
        PROVE  ClashFree'
    <2>1. OwnMasks /\ FileOwnMasks /\ Complete /\ CacheRight
      BY <1>0, <1>5 DEF MasksInv, ClashFree
    <2>2. /\ \A x : Count(user[u].masks, x) = Count(user'[u].masks, x) + (IF m = x THEN 1 ELSE 0)
          /\ \A x : Has(user'[u].masks, x) => Has(user[u].masks, x)
          /\ \A x : x # m /\ Has(user[u].masks, x) => Has(user'[u].masks, x)
          /\ user'[u].masks \in Seq(Masks)
      BY <1>1, <1>2, <1>3, RemoveFirstCount
    <2>3. OwnMasks'
      BY <1>2, <2>1, <2>2 DEF OwnMasks, Alive
    <2>4. FileOwnMasks'
      BY <1>0, <2>1 DEF FileOwnMasks
    <2>5. Count(ircmask_list, [mask |-> m, u |-> u]) > 0
      <3>1. Count(user[u].masks, m) > 0
        BY <1>1, <1>3, HasCount
      <3> QED
        BY <1>0, <2>1, <3>1 DEF Complete
    <2>6. \A v \in Slots : v # u => Count(ircmask_list, [mask |-> m, u |-> v]) = 0
      <3> SUFFICES ASSUME NEW v \in Slots, v # u
                   PROVE  Count(ircmask_list, [mask |-> m, u |-> v]) = 0
        OBVIOUS
      <3>1. Count(ircmask_list, [mask |-> m, u |-> v]) = IF Alive(v) THEN Count(user[v].masks, m) ELSE 0
        BY <2>1 DEF Complete
      <3>2. CASE Alive(v)
        <4>1. ~ Has(user[v].masks, m)
          BY <1>0, <1>3, <2>1, <3>2 DEF OwnMasks
        <4>2. user[v].masks \in Seq(Masks)
          BY DEF TypeInv, UsersType, UserType
        <4>3. Count(user[v].masks, m) \in Nat /\ ~ Count(user[v].masks, m) > 0
          BY <4>1, <4>2, HasCount
        <4> QED
          BY <3>1, <3>2, <4>3
      <3> QED
        BY <3>1, <3>2
    <2>7. \A n, v : Count(ircmask_list, [mask |-> n, u |-> v]) =
            Count(ircmask_list', [mask |-> n, u |-> v]) + (IF m = n /\ u = v THEN 1 ELSE 0)
      <3>1. OnlyOneHas(ircmask_list, m, u)
        BY <2>5, <2>6 DEF OnlyOneHas
      <3>2. Loses(ircmask_list, ircmask_list_del(ircmask_list, m), m, u)
        BY <1>1, <3>1, DelCount
      <3> QED
        BY <1>0, <3>2 DEF Loses
    <2>8. Complete'
      <3> SUFFICES ASSUME NEW v \in Slots, NEW n \in Masks
                   PROVE  Count(ircmask_list', [mask |-> n, u |-> v]) =
                            IF Alive(v)' THEN Count(user'[v].masks, n) ELSE 0
        BY DEF Complete
      <3>1. Count(ircmask_list, [mask |-> n, u |-> v]) =
              Count(ircmask_list', [mask |-> n, u |-> v]) + (IF m = n /\ u = v THEN 1 ELSE 0)
        BY <2>7
      <3>2. Count(ircmask_list, [mask |-> n, u |-> v]) = IF Alive(v) THEN Count(user[v].masks, n) ELSE 0
        BY <2>1 DEF Complete
      <3>3. Count(ircmask_list', [mask |-> n, u |-> v]) \in Nat
        <4>1. ircmask_list' \in Seq(Entry)
          BY <1>0, <1>1, DelType
        <4> QED
          BY <4>1, CountType
      <3>4. Alive(v)' <=> Alive(v)
        BY <1>2 DEF Alive
      <3>5. CASE v = u
        <4>1. Count(user[u].masks, n) = Count(user'[u].masks, n) + (IF m = n THEN 1 ELSE 0)
          BY <2>2
        <4>2. Count(user'[u].masks, n) \in Nat
          BY <2>2, CountType
        <4> QED
          BY <1>0, <3>1, <3>2, <3>3, <3>4, <3>5, <4>1, <4>2
      <3>6. CASE v # u
        BY <1>2, <3>1, <3>2, <3>3, <3>4, <3>6
      <3> QED
        BY <3>5, <3>6
    <2>9. CacheRight'
      <3> SUFFICES ASSUME NEW h \in Hosts
                   PROVE  RightAfter(irchost_cache'[h], h)
        BY RightEverywhere
      <3> DEFINE c == irchost_cache[h]
                 d == irchost_cache'[h]
      <3>1. d = IF c = u /\ Strength[m][h] > 0 THEN Absent ELSE c
        BY <1>0 DEF cache_user_del
      <3>2. c = Absent \/ (c \in Slots /\ Fits(c, h)) \/ (c = None /\ \A v \in Slots : ~ Fits(v, h))
        BY <2>1 DEF CacheRight, RightAt
      <3>3. \A v \in Slots : v # u => (Fits(v, h) <=> FitsAfter(v, h))
        BY <1>2 DEF Fits, FitsAfter, Alive
      <3>4. Fits(u, h) /\ ~ Strength[m][h] > 0 => FitsAfter(u, h)
        BY <1>2, <2>2 DEF Fits, FitsAfter, Alive
      <3>5. FitsAfter(u, h) => Fits(u, h)
        BY <1>2, <2>2 DEF Fits, FitsAfter, Alive
      <3> HIDE DEF c, d
      <3>6. RightAfter(d, h)
        <4>1. CASE c = Absent
          BY <3>1, <4>1 DEF RightAfter
        <4>2. CASE c \in Slots /\ Fits(c, h)
          BY <3>1, <3>3, <3>4, <4>2 DEF RightAfter
        <4>3. CASE c = None /\ \A v \in Slots : ~ Fits(v, h)
          BY <3>1, <3>3, <3>5, <4>3, NobodyIsNoSlot DEF RightAfter
        <4> QED
          BY <3>2, <4>1, <4>2, <4>3
      <3> QED
        BY <3>6 DEF d
    <2> QED
      BY <2>3, <2>4, <2>8, <2>9 DEF ClashFree
  <1> QED
    BY <1>4, <1>5 DEF MasksInv

LEMMA CountFront ==
  ASSUME NEW S, NEW s \in Seq(S), NEW e \in S, NEW x
  PROVE  /\ <<e>> \o s \in Seq(S)
         /\ Count(<<e>> \o s, x) = Count(s, x) + (IF e = x THEN 1 ELSE 0)
  <1>0. Len(s) \in Nat /\ 1 \in 1 .. Len(s) + 1
    OBVIOUS
  <1>1. <<e>> \o s \in Seq(S) /\ Len(<<e>> \o s) = Len(s) + 1
    OBVIOUS
  <1>2. \A i \in 1 .. Len(s) + 1 : (<<e>> \o s)[i] = IF i = 1 THEN e ELSE s[i - 1]
    OBVIOUS
  <1>3. /\ InsertAt(s, 1, e) \in Seq(S) /\ Len(InsertAt(s, 1, e)) = Len(s) + 1
        /\ \A j \in 1 .. Len(s) + 1 :
             InsertAt(s, 1, e)[j] = IF j < 1 THEN s[j] ELSE IF j = 1 THEN e ELSE s[j - 1]
    BY <1>0, InsertAtProperties
  <1>4. <<e>> \o s = InsertAt(s, 1, e)
    BY <1>0, <1>1, <1>2, <1>3, SeqEqual
  <1>5. Count(InsertAt(s, 1, e), x) = Count(s, x) + (IF e = x THEN 1 ELSE 0)
    BY <1>0, CountInsert
  <1> QED
    BY <1>1, <1>4, <1>5

\* All masks of u go from the list when u is deleted, and no others.
LEMMA AllDeleted ==
  ASSUME TypeInv, OwnMasks, Complete, NEW u \in Slots, Alive(u)
  PROVE  \A v \in Slots, m \in Masks :
           Count(FoldLeft(ircmask_list_del, ircmask_list, <<"*">> \o user[u].masks), [mask |-> m, u |-> v]) =
             IF v = u THEN 0 ELSE Count(ircmask_list, [mask |-> m, u |-> v])
  <1> DEFINE l == ircmask_list
             ms == <<"*">> \o user[u].masks
             n == Len(ms)
             C(s, m, v) == Count(s, [mask |-> m, u |-> v])
  <1>1. user[u].masks \in Seq(Masks) /\ l \in Seq(Entry) /\ "*" \in Masks
    BY UsersAssumption DEF TypeInv, UsersType, UserType, ListType
  <1>2. ms \in Seq(Masks) /\ \A m : Count(ms, m) = Count(user[u].masks, m) + (IF "*" = m THEN 1 ELSE 0)
    BY <1>1, CountFront
  <1> HIDE DEF ms
  <1>3. PICK g \in [0 .. n -> Seq(Entry)] :
           /\ g[0] = l /\ FoldLeft(ircmask_list_del, l, ms) = g[n]
           /\ \A k \in 1 .. n : g[k] = ircmask_list_del(g[k - 1], ms[k])
    <2> HIDE DEF l
    <2> QED
      BY <1>1, <1>2, DeletionStages
  <1>4. /\ \A m : Before(ms, m, 0) = 0 /\ Before(ms, m, n) = Count(ms, m)
        /\ \A m : \A k \in 0 .. n : Before(ms, m, k) \in Nat
        /\ \A m : \A k \in 1 .. n : Before(ms, m, k) = Before(ms, m, k - 1) + (IF ms[k] = m THEN 1 ELSE 0)
        /\ \A k \in 1 .. n : Before(ms, ms[k], k - 1) < Count(ms, ms[k])
    <2>1. n \in Nat /\ ms \in Seq(Masks)
      BY <1>2
    <2>2. ASSUME NEW m
          PROVE  /\ \A k \in 0 .. Len(ms) : Before(ms, m, k) \in Nat
                 /\ Before(ms, m, 0) = 0
                 /\ Before(ms, m, Len(ms)) = Count(ms, m)
                 /\ \A k \in 1 .. Len(ms) : Before(ms, m, k) = Before(ms, m, k - 1) + (IF ms[k] = m THEN 1 ELSE 0)
                 /\ \A k \in 1 .. Len(ms) : ms[k] = m => Before(ms, m, k - 1) < Count(ms, m)
      BY <2>1, BeforeProperties
    <2>3. ASSUME NEW m
          PROVE  Before(ms, m, 0) = 0 /\ Before(ms, m, n) = Count(ms, m)
      BY <2>2
    <2>4. ASSUME NEW k \in 0 .. n, NEW m
          PROVE  Before(ms, m, k) \in Nat
      BY <2>2
    <2>5. ASSUME NEW k \in 1 .. n, NEW m
          PROVE  Before(ms, m, k) = Before(ms, m, k - 1) + (IF ms[k] = m THEN 1 ELSE 0)
      BY <2>2
    <2>6. ASSUME NEW k \in 1 .. n
          PROVE  Before(ms, ms[k], k - 1) < Count(ms, ms[k])
      <3> DEFINE m == ms[k]
      <3>1. ms[k] = m
        OBVIOUS
      <3> HIDE DEF m
      <3>2. Before(ms, m, k - 1) < Count(ms, m)
        BY <2>2, <3>1
      <3> QED
        BY <3>1, <3>2
    <2> QED
      BY <2>3, <2>4, <2>5, <2>6
  <1>5. n \in Nat /\ \A k \in 1 .. n : ms[k] \in Masks
    BY <1>2
  <1> HIDE DEF n
  \* What the users have.
  <1>6. \A v \in Slots, m \in Masks : C(l, m, v) = IF Alive(v) THEN Count(user[v].masks, m) ELSE 0
    BY DEF Complete
  <1>7. ASSUME NEW v \in Slots
        PROVE  /\ C(l, "*", v) = 0
               /\ \A m \in Masks : v # u /\ Count(user[u].masks, m) > 0 => C(l, m, v) = 0
    <2>1. user[v].masks \in Seq(Masks)
      BY DEF TypeInv, UsersType, UserType
    <2>2. CASE Alive(v)
      <3>1. ~ Has(user[v].masks, "*")
        BY <1>1, <2>2 DEF OwnMasks
      <3>2. Count(user[v].masks, "*") \in Nat /\ ~ Count(user[v].masks, "*") > 0
        BY <2>1, <3>1, HasCount
      <3>3. C(l, "*", v) = Count(user[v].masks, "*")
        BY <1>1, <1>6, <2>2
      <3>4. ASSUME NEW m \in Masks, v # u, Count(user[u].masks, m) > 0
            PROVE  C(l, m, v) = 0
        <4>1. Has(user[u].masks, m)
          BY <1>1, <3>4, HasCount
        <4>2. ~ Has(user[v].masks, m)
          BY <2>2, <3>4, <4>1 DEF OwnMasks
        <4>3. Count(user[v].masks, m) \in Nat /\ ~ Count(user[v].masks, m) > 0
          BY <2>1, <4>2, HasCount
        <4>4. C(l, m, v) = Count(user[v].masks, m)
          BY <1>6, <2>2
        <4> HIDE DEF C
        <4> QED
          BY <4>3, <4>4
      <3> HIDE DEF C
      <3> QED
        BY <3>2, <3>3, <3>4
    <2>3. CASE ~ Alive(v)
      <3>1. \A m \in Masks : C(l, m, v) = 0
        BY <1>6, <2>3
      <3> HIDE DEF C
      <3> QED
        BY <1>1, <3>1
    <2> QED
      BY <2>2, <2>3
  \* What is left of them after each step.
  <1> DEFINE Left(k) == /\ \A v \in Slots, m \in Masks : v # u => C(g[k], m, v) = C(l, m, v)
                        /\ \A m \in Masks : m # "*" => C(g[k], m, u) + Before(ms, m, k) = Count(ms, m)
                        /\ C(g[k], "*", u) = 0
             A == {k \in 0 .. n : Left(k)}
  <1>8. 0 \in A
    <2>1. C(l, "*", u) = 0
      BY <1>7
    <2>2. ASSUME NEW m \in Masks, m # "*"
          PROVE  C(l, m, u) + Before(ms, m, 0) = Count(ms, m)
      <3>1. C(l, m, u) = Count(user[u].masks, m)
        BY <1>6
      <3>2. Count(ms, m) = Count(user[u].masks, m) + 0 /\ Before(ms, m, 0) = 0
        BY <1>2, <1>4, <2>2
      <3> HIDE DEF C
      <3> QED
        BY <3>1, <3>2
    <2> HIDE DEF C
    <2> QED
      BY <1>3, <1>5, <2>1, <2>2
  <1>9. ASSUME NEW k \in 0 .. n - 1, k \in A
        PROVE  k + 1 \in A
    <2> DEFINE m0 == ms[k + 1]
    <2>1. k + 1 \in 1 .. n /\ k \in 0 .. n /\ (k + 1) - 1 = k /\ k + 1 \in 0 .. n
      BY <1>5
    <2>2. g[k] \in Seq(Entry) /\ g[k + 1] = ircmask_list_del(g[k], m0) /\ m0 \in Masks
      BY <1>3, <1>5, <2>1
    <2>3. /\ \A m : Before(ms, m, k + 1) = Before(ms, m, k) + (IF m0 = m THEN 1 ELSE 0) /\ Before(ms, m, k) \in Nat
          /\ Before(ms, m0, k) < Count(ms, m0)
      BY <1>4, <2>1
    <2>4. Left(k)
      BY <1>9
    <2>5. \A m, v : C(g[k], m, v) \in Nat
      BY <2>2, CountType
    <2> HIDE DEF m0
    <2>6. Left(k + 1)
      <3>1. CASE m0 = "*"
        <4>1. \A v \in Slots : C(g[k], m0, v) = 0
          <5> HIDE DEF C
          <5> QED
            BY <1>1, <1>7, <2>4, <3>1
        <4>2. g[k + 1] = g[k]
          BY <2>2, <4>1, DelNothing
        <4>3. \A m : m # "*" => Before(ms, m, k + 1) = Before(ms, m, k)
          BY <2>3, <3>1
        <4> HIDE DEF C
        <4> QED
          BY <2>4, <4>2, <4>3
      <3>2. CASE m0 # "*"
        <4>1. Count(ms, m0) = Count(user[u].masks, m0) /\ Count(user[u].masks, m0) \in Nat
          <5>1. Count(user[u].masks, m0) \in Nat
            BY <1>1, CountType
          <5> QED
            BY <1>2, <3>2, <5>1
        <4>2. C(g[k], m0, u) > 0
          <5>1. C(g[k], m0, u) + Before(ms, m0, k) = Count(ms, m0)
            BY <2>2, <2>4, <3>2
          <5>2. C(g[k], m0, u) \in Nat /\ Before(ms, m0, k) \in Nat
            BY <2>3, <2>5
          <5> HIDE DEF C
          <5> QED
            BY <2>3, <4>1, <5>1, <5>2
        <4>3. \A v \in Slots : v # u => C(g[k], m0, v) = 0
          <5>1. Count(user[u].masks, m0) > 0
            <6>1. Before(ms, m0, k) \in Nat /\ Before(ms, m0, k) < Count(ms, m0)
              BY <2>3
            <6> QED
              BY <4>1, <6>1
          <5> HIDE DEF C
          <5> QED
            BY <1>7, <2>2, <2>4, <5>1
        <4>4. \A m, v : C(g[k], m, v) = C(g[k + 1], m, v) + (IF m0 = m /\ u = v THEN 1 ELSE 0)
          <5>1. OnlyOneHas(g[k], m0, u)
            BY <4>2, <4>3 DEF OnlyOneHas
          <5>2. Loses(g[k], ircmask_list_del(g[k], m0), m0, u)
            BY <2>2, <5>1, DelCount
          <5> QED
            BY <2>2, <5>2 DEF Loses
        <4>5. \A m, v : C(g[k + 1], m, v) \in Nat
          <5>1. g[k + 1] \in Seq(Entry)
            BY <2>2, DelType
          <5> QED
            BY <5>1, CountType
        <4> HIDE DEF C
        <4>6. ASSUME NEW v \in Slots, NEW m \in Masks, v # u
              PROVE  C(g[k + 1], m, v) = C(l, m, v)
          <5>1. C(g[k], m, v) = C(g[k + 1], m, v) + 0
            BY <4>4, <4>6
          <5> QED
            BY <2>4, <4>5, <4>6, <5>1
        <4>7. ASSUME NEW m \in Masks, m # "*"
              PROVE  C(g[k + 1], m, u) + Before(ms, m, k + 1) = Count(ms, m)
          <5> DEFINE c0 == C(g[k], m, u)
                     c1 == C(g[k + 1], m, u)
                     b0 == Before(ms, m, k)
                     b1 == Before(ms, m, k + 1)
                     i == IF m0 = m THEN 1 ELSE 0
          <5>1. c0 = c1 + i
            BY <4>4
          <5>2. b1 = b0 + i /\ b0 \in Nat
            BY <2>3
          <5>3. c0 + b0 = Count(ms, m)
            BY <2>4, <4>7
          <5>4. c1 \in Nat /\ i \in Nat
            BY <4>5
          <5> HIDE DEF c0, c1, b0, b1, i
          <5>5. c1 + b1 = Count(ms, m)
            BY <5>1, <5>2, <5>3, <5>4
          <5> QED
            BY <5>5 DEF c1, b1
        <4>8. C(g[k + 1], "*", u) = 0
          <5>1. C(g[k], "*", u) = C(g[k + 1], "*", u) + 0
            BY <3>2, <4>4
          <5> QED
            BY <2>4, <4>5, <5>1
        <4> QED
          BY <4>6, <4>7, <4>8
      <3> QED
        BY <3>1, <3>2
    <2> QED
      BY <2>1, <2>6
  <1>10. \A k \in 0 .. n : k \in A
    <2> HIDE DEF A
    <2> QED
      BY <1>5, <1>8, <1>9, UpTo
  <1>11. Left(n)
    BY <1>5, <1>10
  <1>12. ASSUME NEW v \in Slots, NEW m \in Masks
         PROVE  C(g[n], m, v) = IF v = u THEN 0 ELSE C(l, m, v)
    <2>1. C(g[n], m, u) \in Nat
      <3>1. g[n] \in Seq(Entry)
        BY <1>3, <1>5
      <3> QED
        BY <3>1, CountType
    <2>2. Count(ms, m) \in Nat
      BY <1>2, CountType
    <2>3. m # "*" => C(g[n], m, u) + Count(ms, m) = Count(ms, m)
      <3> HIDE DEF C
      <3> QED
        BY <1>4, <1>11
    <2> HIDE DEF C
    <2> QED
      BY <1>11, <2>1, <2>2, <2>3
  <1> QED
    BY <1>3, <1>12 DEF ms

LEMMA DeletedSorted ==
  ASSUME NEW l \in Seq(Entry), NEW ms \in Seq(Masks), LongestFirst(l)
  PROVE  LongestFirst(FoldLeft(ircmask_list_del, l, ms))
  <1> DEFINE n == Len(ms)
  <1>1. PICK g \in [0 .. n -> Seq(Entry)] :
           /\ g[0] = l /\ FoldLeft(ircmask_list_del, l, ms) = g[n]
           /\ \A k \in 1 .. n : g[k] = ircmask_list_del(g[k - 1], ms[k])
    BY DeletionStages
  <1>2. n \in Nat
    OBVIOUS
  <1> HIDE DEF n
  <1> DEFINE A == {k \in 0 .. n : LongestFirst(g[k])}
  <1>3. 0 \in A
    BY <1>1, <1>2
  <1>4. ASSUME NEW k \in 0 .. n - 1, k \in A
        PROVE  k + 1 \in A
    <2>1. k + 1 \in 1 .. n /\ (k + 1) - 1 = k /\ k \in 0 .. n /\ k + 1 \in 0 .. n
      BY <1>2
    <2>2. g[k] \in Seq(Entry) /\ g[k + 1] = ircmask_list_del(g[k], ms[k + 1]) /\ LongestFirst(g[k])
      BY <1>1, <1>4, <2>1
    <2> QED
      BY <2>1, <2>2, DelSorted
  <1>5. \A k \in 0 .. n : k \in A
    <2> HIDE DEF A
    <2> QED
      BY <1>2, <1>3, <1>4, UpTo
  <1> QED
    BY <1>1, <1>2, <1>5

LEMMA MasksDelete ==
  ASSUME TypeInv, MasksInv, NEW u \in Slots, user_delete(u)
  PROVE  MasksInv'
  <1>0. /\ run = "up" /\ Alive(u) /\ UNCHANGED <<run, disk, clash>>
        /\ ircmask_list' = FoldLeft(ircmask_list_del, ircmask_list, <<"*">> \o user[u].masks)
        /\ irchost_cache' = cache_user_del(u, "*")
    BY DEF user_delete, Up
  <1>1. <<"*">> \o user[u].masks \in Seq(Masks) /\ ircmask_list \in Seq(Entry) /\ "*" \in Masks
    <2>1. user[u].masks \in Seq(Masks)
      BY DEF TypeInv, UsersType, UserType
    <2> QED
      BY <2>1, UsersAssumption DEF TypeInv, ListType
  <1>2. /\ user'[u].st = "deleted"
        /\ \A v \in Slots : v # u => user'[v] = user[v]
    BY DEF user_delete, TypeInv, UsersType, UserType
  <1>3. Sorted' /\ DownHasNoCache'
    BY <1>0, <1>1, DeletedSorted DEF MasksInv, Sorted, DownHasNoCache
  <1>4. ASSUME clash' = 0
        PROVE  ClashFree'
    <2>1. OwnMasks /\ FileOwnMasks /\ Complete /\ CacheRight
      BY <1>0, <1>4 DEF MasksInv, ClashFree
    <2>2. OwnMasks'
      BY <1>2, <2>1 DEF OwnMasks, Alive
    <2>3. FileOwnMasks'
      BY <1>0, <2>1 DEF FileOwnMasks
    <2>4. \A v \in Slots, m \in Masks :
            Count(ircmask_list', [mask |-> m, u |-> v]) =
              IF v = u THEN 0 ELSE Count(ircmask_list, [mask |-> m, u |-> v])
      BY <1>0, <2>1, AllDeleted
    <2>5. Complete'
      BY <1>2, <2>1, <2>4 DEF Complete, Alive
    <2>6. CacheRight'
      <3> SUFFICES ASSUME NEW h \in Hosts
                   PROVE  RightAfter(irchost_cache'[h], h)
        BY RightEverywhere
      <3> DEFINE c == irchost_cache[h]
                 d == irchost_cache'[h]
      <3>1. d = IF c = u THEN Absent ELSE c
        BY <1>0, UsersAssumption DEF cache_user_del
      <3>2. c = Absent \/ (c \in Slots /\ Fits(c, h)) \/ (c = None /\ \A v \in Slots : ~ Fits(v, h))
        BY <2>1 DEF CacheRight, RightAt
      <3>3. \A v \in Slots : v # u => (Fits(v, h) <=> FitsAfter(v, h))
        BY <1>2 DEF Fits, FitsAfter, Alive
      <3>4. ~ FitsAfter(u, h)
        BY <1>2 DEF FitsAfter
      <3> HIDE DEF c, d
      <3>5. RightAfter(d, h)
        <4>1. CASE c = Absent
          BY <3>1, <4>1 DEF RightAfter
        <4>2. CASE c \in Slots /\ Fits(c, h)
          BY <3>1, <3>3, <4>2 DEF RightAfter
        <4>3. CASE c = None /\ \A v \in Slots : ~ Fits(v, h)
          BY <3>1, <3>3, <3>4, <4>3, NobodyIsNoSlot DEF RightAfter
        <4> QED
          BY <3>2, <4>1, <4>2, <4>3
      <3> QED
        BY <3>5 DEF d
    <2> QED
      BY <2>2, <2>3, <2>5, <2>6 DEF ClashFree
  <1> QED
    BY <1>3, <1>4 DEF MasksInv

LEMMA MasksNew ==
  ASSUME TypeInv, MasksInv, NEW h \in Handles, user_new(h)
  PROVE  MasksInv'
  <1>1. UNCHANGED <<run, ircmask_list, irchost_cache, disk, clash>>
    BY DEF user_new
  <1>2. CASE UNCHANGED user
    <2>1. SameMasks
      BY <1>2 DEF SameMasks
    <2> QED
      BY <1>1, <2>1, MasksSame
  <1>3. CASE \E u \in FreeSlot : user' = [user EXCEPT ![u] = NewUser(h)]
    <2>1. PICK n \in FreeSlot : user' = [user EXCEPT ![n] = NewUser(h)]
      BY <1>3
    <2>2. n \in Slots /\ ~ Alive(n)
      BY DEF FreeSlot, Alive
    <2>3. /\ user'[n].st = "live" /\ user'[n].masks = <<>>
          /\ \A u \in Slots : u # n => user'[u] = user[u]
      BY <2>1, <2>2 DEF TypeInv, UsersType, NewUser
    <2>4. \A m : Count(<<>>, m) = 0 /\ ~ Has(<<>>, m)
      BY CountEmpty DEF Has
    <2>5. Sorted' /\ DownHasNoCache'
      BY <1>1 DEF MasksInv, Sorted, LongestFirst, DownHasNoCache
    <2>6. ASSUME clash' = 0
          PROVE  ClashFree'
      <3>1. OwnMasks /\ FileOwnMasks /\ Complete /\ CacheRight
        BY <1>1, <2>6 DEF MasksInv, ClashFree
      <3>2. OwnMasks'
        BY <2>3, <2>4, <3>1 DEF OwnMasks, Alive
      <3>3. FileOwnMasks'
        BY <1>1, <3>1 DEF FileOwnMasks
      <3>4. Complete'
        <4> SUFFICES ASSUME NEW v \in Slots, NEW m \in Masks
                     PROVE  Count(ircmask_list, [mask |-> m, u |-> v]) =
                              IF Alive(v)' THEN Count(user'[v].masks, m) ELSE 0
          BY <1>1 DEF Complete
        <4>1. CASE v = n
          BY <2>2, <2>3, <2>4, <3>1, <4>1 DEF Complete, Alive
        <4>2. CASE v # n
          BY <2>3, <3>1, <4>2 DEF Complete, Alive
        <4> QED
          BY <4>1, <4>2
      <3>5. CacheRight'
        <4> SUFFICES ASSUME NEW k \in Hosts
                     PROVE  RightAfter(irchost_cache'[k], k)
          BY RightEverywhere
        <4>1. RightAt(k) /\ irchost_cache' = irchost_cache
          BY <1>1, <3>1 DEF CacheRight
        <4>2. \A v \in Slots : v # n => (Fits(v, k) <=> FitsAfter(v, k))
          BY <2>3 DEF Fits, FitsAfter, Alive
        <4>3. ~ FitsAfter(n, k) /\ ~ Fits(n, k)
          BY <2>2, <2>3, <2>4 DEF FitsAfter, Fits
        <4> QED
          BY <4>1, <4>2, <4>3 DEF RightAt, RightAfter
      <3> QED
        BY <3>2, <3>3, <3>4, <3>5 DEF ClashFree
    <2> QED
      BY <2>5, <2>6 DEF MasksInv
  <1> QED
    BY <1>2, <1>3 DEF user_new

LEMMA MasksLookup ==
  ASSUME TypeInv, MasksInv, NEW h \in Hosts, user_lookup_by_irchost(h)
  PROVE  MasksInv'
  <1>0. /\ run = "up" /\ UNCHANGED <<run, user, ircmask_list, disk, clash>>
        /\ irchost_cache' = [irchost_cache EXCEPT ![h] = ircmask_list_find(h)]
    BY DEF user_lookup_by_irchost, Up
  <1>1. Sorted' /\ DownHasNoCache'
    BY <1>0 DEF MasksInv, Sorted, LongestFirst, DownHasNoCache
  <1>2. ASSUME clash' = 0
        PROVE  ClashFree'
    <2>1. OwnMasks /\ FileOwnMasks /\ Complete /\ CacheRight
      BY <1>0, <1>2 DEF MasksInv, ClashFree
    <2>2. OwnMasks' /\ FileOwnMasks' /\ Complete'
      BY <1>0, <2>1 DEF OwnMasks, FileOwnMasks, Complete, Alive
    <2> DEFINE l == ircmask_list
               fits == {i \in DOMAIN l : Strength[l[i].mask][h] > 0}
    <2>3. /\ l \in Seq(Entry) /\ Len(l) \in Nat /\ DOMAIN l = 1 .. Len(l)
          /\ \A i \in 1 .. Len(l) : l[i] \in Entry
      BY DEF TypeInv, ListType
    <2>4. ASSUME NEW i \in fits
          PROVE  l[i].u \in Slots /\ Fits(l[i].u, h)
      <3>1. i \in 1 .. Len(l) /\ l[i] \in Entry
        BY <2>3
      <3> DEFINE m == l[i].mask
                 v == l[i].u
      <3>2. m \in Masks /\ v \in Slots /\ l[i] = [mask |-> m, u |-> v] /\ Strength[m][h] > 0
        BY <3>1 DEF Entry
      <3>3. Count(l, l[i]) \in Nat /\ Count(l, l[i]) # 0
        <4> HIDE DEF l, m, v
        <4> QED
          BY <2>3, <3>1, CountType
      <3> HIDE DEF m, v
      <3>4. Count(l, [mask |-> m, u |-> v]) = IF Alive(v) THEN Count(user[v].masks, m) ELSE 0
        BY <2>1, <3>2 DEF Complete
      <3>5. Alive(v) /\ Count(user[v].masks, m) # 0
        BY <3>2, <3>3, <3>4
      <3>6. user[v].masks \in Seq(Masks)
        BY <3>2 DEF TypeInv, UsersType, UserType
      <3>7. Has(user[v].masks, m)
        BY <3>5, <3>6, HasCount
      <3>8. v \in Slots /\ Fits(v, h)
        BY <3>2, <3>5, <3>7 DEF Fits
      <3> QED
        BY <3>8 DEF v
    <2>5. ASSUME NEW v \in Slots, Fits(v, h)
          PROVE  fits # {}
      <3>1. PICK m \in Masks : Alive(v) /\ Has(user[v].masks, m) /\ Strength[m][h] > 0
        BY <2>5 DEF Fits
      <3>2. user[v].masks \in Seq(Masks)
        BY DEF TypeInv, UsersType, UserType
      <3>3. Count(user[v].masks, m) > 0
        BY <3>1, <3>2, HasCount
      <3>4. Count(l, [mask |-> m, u |-> v]) > 0
        BY <2>1, <3>1, <3>3 DEF Complete
      <3> DEFINE e == [mask |-> m, u |-> v]
      <3>5. PICK i \in 1 .. Len(l) : l[i] = e
        <4> HIDE DEF l
        <4>1. Has(l, e)
          BY <2>3, <3>4, HasCount
        <4> QED
          BY <2>3, <4>1 DEF Has
      <3>6. i \in fits
        BY <2>3, <3>1, <3>5
      <3> QED
        BY <3>6
    <2>6. CacheRight'
      <3> SUFFICES ASSUME NEW k \in Hosts
                   PROVE  RightAfter(irchost_cache'[k], k)
        BY RightEverywhere
      <3>1. \A v \in Slots : Fits(v, k) <=> FitsAfter(v, k)
        BY <1>0 DEF Fits, FitsAfter, Alive
      <3>2. CASE k # h
        <4>1. irchost_cache'[k] = irchost_cache[k] /\ RightAt(k)
          BY <1>0, <2>1, <3>2 DEF CacheRight, TypeInv, CacheType
        <4> QED
          BY <3>1, <4>1 DEF RightAt, RightAfter
      <3>3. CASE k = h
        <4>0. irchost_cache'[h] = ircmask_list_find(h)
          BY <1>0 DEF TypeInv, CacheType
        <4>1. CASE fits = {}
          <5>1. ircmask_list_find(h) = None
            BY <4>1 DEF ircmask_list_find
          <5>2. \A v \in Slots : ~ Fits(v, h)
            <6> HIDE DEF fits
            <6> QED
              BY <2>5, <4>1
          <5> QED
            BY <3>1, <3>3, <4>0, <5>1, <5>2 DEF RightAfter
        <4>2. CASE fits # {}
          <5> DEFINE p == Min(fits)
          <5>1. ircmask_list_find(h) = l[p].u
            BY <4>2 DEF ircmask_list_find
          <5>2. p \in fits
            <6>1. fits \in SUBSET Nat
              BY <2>3
            <6> HIDE DEF fits
            <6> QED
              BY <4>2, <6>1, MinOfNumbers
          <5> HIDE DEF p, fits
          <5>3. l[p].u \in Slots /\ Fits(l[p].u, h)
            BY <2>4, <5>2
          <5> QED
            BY <3>1, <3>3, <4>0, <5>1, <5>3 DEF RightAfter
        <4> QED
          BY <4>1, <4>2
      <3> QED
        BY <3>2, <3>3
    <2> QED
      BY <2>2, <2>6 DEF ClashFree
  <1> QED
    BY <1>1, <1>2 DEF MasksInv

LEMMA MasksCleanup ==
  ASSUME TypeInv, MasksInv, cache_rand_cleanup
  PROVE  MasksInv'
  <1>0. run = "up" /\ UNCHANGED <<run, user, ircmask_list, disk, clash>>
    BY DEF cache_rand_cleanup, Up
  <1>1. \A h \in Hosts : irchost_cache'[h] = Absent \/ irchost_cache'[h] = irchost_cache[h]
    BY DEF cache_rand_cleanup
  <1>2. Sorted' /\ DownHasNoCache'
    BY <1>0 DEF MasksInv, Sorted, LongestFirst, DownHasNoCache
  <1>3. ASSUME clash' = 0
        PROVE  ClashFree'
    <2>1. OwnMasks /\ FileOwnMasks /\ Complete /\ CacheRight
      BY <1>0, <1>3 DEF MasksInv, ClashFree
    <2>2. OwnMasks' /\ FileOwnMasks' /\ Complete'
      BY <1>0, <2>1 DEF OwnMasks, FileOwnMasks, Complete, Alive
    <2>3. CacheRight'
      <3> SUFFICES ASSUME NEW h \in Hosts
                   PROVE  RightAfter(irchost_cache'[h], h)
        BY RightEverywhere
      <3>1. \A v \in Slots : Fits(v, h) <=> FitsAfter(v, h)
        BY <1>0 DEF Fits, FitsAfter, Alive
      <3>2. RightAt(h)
        BY <2>1 DEF CacheRight
      <3> QED
        BY <1>1, <3>1, <3>2 DEF RightAt, RightAfter
    <2> QED
      BY <2>2, <2>3 DEF ClashFree
  <1> QED
    BY <1>2, <1>3 DEF MasksInv

LEMMA MasksLoad ==
  ASSUME TypeInv, FileFits, MasksInv, user_load
  PROVE  MasksInv'
  <1>0. /\ run = "down" /\ run' = "up" /\ ircmask_list' = LoadedList
        /\ UNCHANGED <<irchost_cache, disk, clash>>
    BY DEF user_load
  <1>1. /\ LongestFirst(LoadedList)
        /\ \A m, v : Count(LoadedList, [mask |-> m, u |-> v]) =
             IF v \in DOMAIN disk.users THEN Count(disk.users[v].masks, m) ELSE 0
    BY UsersLoaded DEF TypeInv
  <1>2. ASSUME NEW u \in Slots
        PROVE  /\ user'[u].st = "live" <=> u \in DOMAIN disk.users
               /\ u \in DOMAIN disk.users => user'[u].masks = disk.users[u].masks
    BY DEF user_load, Loaded, NoUser
  <1>3. Sorted' /\ DownHasNoCache'
    BY <1>0, <1>1 DEF Sorted, DownHasNoCache, LongestFirst
  <1>4. ASSUME clash' = 0
        PROVE  ClashFree'
    <2>1. FileOwnMasks
      BY <1>0, <1>4 DEF MasksInv, ClashFree
    <2>2. OwnMasks'
      <3> SUFFICES ASSUME NEW u \in Slots, NEW m \in Masks, Alive(u)', Has(user'[u].masks, m)
                   PROVE  m # "*" /\ \A x \in Slots : x # u /\ Alive(x)' => ~ Has(user'[x].masks, m)
        BY DEF OwnMasks
      <3>1. u \in DOMAIN disk.users /\ Has(disk.users[u].masks, m)
        BY <1>2 DEF Alive
      <3>2. m # "*" /\ \A x \in DOMAIN disk.users : x # u => ~ Has(disk.users[x].masks, m)
        BY <2>1, <3>1 DEF FileOwnMasks
      <3> QED
        BY <1>2, <3>2 DEF Alive
    <2>3. FileOwnMasks'
      BY <1>0, <2>1 DEF FileOwnMasks
    <2>4. Complete'
      <3> SUFFICES ASSUME NEW v \in Slots, NEW m \in Masks
                   PROVE  Count(LoadedList, [mask |-> m, u |-> v]) =
                            IF Alive(v)' THEN Count(user'[v].masks, m) ELSE 0
        BY <1>0 DEF Complete
      <3> QED
        BY <1>1, <1>2 DEF Alive
    <2>5. CacheRight'
      <3>1. \A h \in Hosts : irchost_cache'[h] = Absent
        BY <1>0 DEF MasksInv, DownHasNoCache
      <3> QED
        BY <3>1, RightEverywhere DEF RightAfter
    <2> QED
      BY <2>2, <2>3, <2>4, <2>5 DEF ClashFree
  <1> QED
    BY <1>3, <1>4 DEF MasksInv

LEMMA MasksSave ==
  ASSUME TypeInv, Distinct, MasksInv, user_save
  PROVE  MasksInv'
  <1>0. disk'.users = Saved /\ UNCHANGED <<run, user, ircmask_list, irchost_cache, clash>>
    BY DEF user_save, memory
  <1> DEFINE n == Len(Saved)
  <1>1. /\ DOMAIN Saved = 1 .. n
        /\ \A i \in 1 .. n : \E u \in Slots : Alive(u) /\ Saved[i] = Written(u)
        /\ \A i, j \in 1 .. n, u, x \in Slots :
             i # j /\ Alive(u) /\ Alive(x) /\ Saved[i] = Written(u) /\ Saved[j] = Written(x) => u # x
    BY SavedProperties
  <1> HIDE DEF n
  <1>2. \A u \in Slots : Written(u).masks = user[u].masks
    BY DEF Written
  <1>3. Sorted' /\ DownHasNoCache'
    BY <1>0 DEF MasksInv, Sorted, DownHasNoCache, LongestFirst
  <1>4. ASSUME clash' = 0
        PROVE  ClashFree'
    <2>1. OwnMasks /\ Complete /\ CacheRight
      BY <1>0, <1>4 DEF MasksInv, ClashFree
    <2>2. FileOwnMasks'
      <3> SUFFICES ASSUME NEW i \in 1 .. n, NEW m \in Masks, Has(Saved[i].masks, m)
                   PROVE  m # "*" /\ \A j \in 1 .. n : j # i => ~ Has(Saved[j].masks, m)
        BY <1>0, <1>1 DEF FileOwnMasks
      <3>1. PICK u \in Slots : Alive(u) /\ Saved[i] = Written(u)
        BY <1>1
      <3>2. m # "*" /\ \A x \in Slots : x # u /\ Alive(x) => ~ Has(user[x].masks, m)
        BY <1>2, <2>1, <3>1 DEF OwnMasks
      <3>3. ASSUME NEW j \in 1 .. n, j # i
            PROVE  ~ Has(Saved[j].masks, m)
        <4>1. PICK x \in Slots : Alive(x) /\ Saved[j] = Written(x)
          BY <1>1
        <4>2. x # u
          BY <1>1, <3>1, <3>3, <4>1
        <4> QED
          BY <1>2, <3>2, <4>1, <4>2
      <3> QED
        BY <3>2, <3>3
    <2>3. OwnMasks' /\ Complete'
      BY <1>0, <2>1 DEF OwnMasks, Complete, Alive
    <2>4. CacheRight'
      BY <1>0, <2>1 DEF CacheRight, RightAt, Fits, Alive
    <2> QED
      BY <2>2, <2>3, <2>4 DEF ClashFree
  <1> QED
    BY <1>3, <1>4 DEF MasksInv

LEMMA MasksCrash ==
  ASSUME MasksInv, Crash
  PROVE  MasksInv'
  <1>1. /\ \A u \in Slots : user'[u].st # "live"
        /\ ircmask_list' = <<>> /\ (\A h \in Hosts : irchost_cache'[h] = Absent)
        /\ UNCHANGED clash /\ (UNCHANGED disk \/ disk' = Torn)
    BY DEF Crash, Wiped, NoUser, NoCache
  <1>2. Sorted' /\ DownHasNoCache'
    BY <1>1 DEF Sorted, DownHasNoCache, LongestFirst
  <1>3. ASSUME clash' = 0
        PROVE  ClashFree'
    <2>1. FileOwnMasks
      BY <1>1, <1>3 DEF MasksInv, ClashFree
    <2>2. FileOwnMasks'
      <3>1. CASE UNCHANGED disk
        BY <2>1, <3>1 DEF FileOwnMasks
      <3>2. CASE disk' = Torn
        <4>1. DOMAIN disk'.users = {}
          BY <3>2, EmptyFiles
        <4> QED
          BY <4>1 DEF FileOwnMasks
      <3> QED
        BY <1>1, <3>1, <3>2
    <2>3. OwnMasks'
      BY <1>1 DEF OwnMasks, Alive
    <2>4. Complete'
      BY <1>1, CountEmpty DEF Complete, Alive
    <2>5. CacheRight'
      BY <1>1, RightEverywhere DEF RightAfter
    <2> QED
      BY <2>2, <2>3, <2>4, <2>5 DEF ClashFree
  <1> QED
    BY <1>2, <1>3 DEF MasksInv

\* The parts of a record that a change of flags or settings leaves.
LEMMA SameMasksAfter ==
  ASSUME TypeInv, NEW u \in Slots, NEW r, user' = [user EXCEPT ![u] = r],
         r.st = user[u].st, r.masks = user[u].masks
  PROVE  SameMasks
  BY DEF SameMasks, TypeInv, UsersType

LEMMA MasksStep ==
  ASSUME TypeInv, Distinct, FileFits, MasksInv, [Next]_vars
  PROVE  MasksInv'
  <1>1. CASE UNCHANGED vars
    BY <1>1, MasksSame DEF vars, SameMasks
  <1>2. CASE \E h \in Handles : user_new(h)
    BY <1>2, MasksNew
  <1>3. CASE \E u \in Slots : user_delete(u)
    BY <1>3, MasksDelete
  <1>4. CASE \E u \in Slots, m \in Masks : user_add_ircmask(u, m)
    BY <1>4, MasksAdd
  <1>5. CASE \E u \in Slots, m \in Masks : user_del_ircmask(u, m)
    BY <1>5, MasksDel
  <1>6. CASE \E u \in Slots, h \in Handles : user_change_handle(u, h)
    <2>1. UNCHANGED <<user, ircmask_list, irchost_cache, disk, clash>> /\ run' = "undefined"
      BY <1>6 DEF user_change_handle, memory
    <2> QED
      BY <2>1, MasksSame DEF SameMasks
  <1>7. CASE \E u \in Slots : \E c, v \in {0, 1} : user_set_flags(u, c, v)
    <2>1. PICK u \in Slots : \E c, v \in {0, 1} : user_set_flags(u, c, v)
      BY <1>7
    <2>2. user[u] \in UserType
      BY DEF TypeInv, UsersType
    <2>3. PICK s : user' = [user EXCEPT ![u] = [user[u] EXCEPT !.nset = s]]
      BY <2>1 DEF user_set_flags
    <2>4. SameMasks
      <3> DEFINE r == [user[u] EXCEPT !.nset = s]
      <3>1. r.st = user[u].st /\ r.masks = user[u].masks
        BY <2>2 DEF UserType
      <3>2. user' = [user EXCEPT ![u] = r]
        BY <2>3
      <3> HIDE DEF r
      <3> QED
        BY <3>1, <3>2, SameMasksAfter
    <2>5. UNCHANGED <<run, ircmask_list, irchost_cache, disk, clash>>
      BY <2>1 DEF user_set_flags
    <2> QED
      BY <2>4, <2>5, MasksSame
  <1>8. CASE \E h \in Hosts : user_lookup_by_irchost(h)
    BY <1>8, MasksLookup
  <1>9. CASE cache_rand_cleanup
    BY <1>9, MasksCleanup
  <1>10. CASE user_really_delete
    <2>1. UNCHANGED <<run, ircmask_list, irchost_cache, disk, clash>>
      BY <1>10 DEF user_really_delete
    <2>2. SameMasks
      BY <1>10 DEF SameMasks, user_really_delete, Alive, NoUser
    <2> QED
      BY <2>1, <2>2, MasksSame
  <1>11. CASE user_save
    BY <1>11, MasksSave
  <1>12. CASE \E broke \in {0, 1} : FlagsChecked(broke)
    <2>1. PICK broke \in {0, 1} : FlagsChecked(broke)
      BY <1>12
    <2> DEFINE f == Last(frames)
               r == check_flag_change(user[f.u], f, broke)
    <2>2. f \in Frame
      BY <2>1, LastFrame DEF FlagsChecked
    <2>3. UNCHANGED user \/ user' = [user EXCEPT ![f.u] = r]
      BY <2>1 DEF FlagsChecked
    <2>4. UNCHANGED <<ircmask_list, irchost_cache, disk, clash>> /\ run' # "down"
      BY <2>1 DEF FlagsChecked, Up
    <2> HIDE DEF f
    <2>5. f.u \in Slots /\ user[f.u] \in UserType
      BY <2>2 DEF Frame, TypeInv, UsersType
    <2>6. r.st = user[f.u].st /\ r.masks = user[f.u].masks
      BY <2>5 DEF check_flag_change, UserType
    <2> HIDE DEF r
    <2>7. SameMasks
      <3>1. CASE UNCHANGED user
        BY <3>1 DEF SameMasks
      <3>2. CASE user' = [user EXCEPT ![f.u] = r]
        BY <2>5, <2>6, <3>2, SameMasksAfter
      <3> QED
        BY <2>3, <3>1, <3>2
    <2> QED
      BY <2>4, <2>7, MasksSame
  <1>13. CASE Crash
    BY <1>13, MasksCrash
  <1>14. CASE user_load
    BY <1>14, MasksLoad
  <1>15. CASE LoadFails
    <2>1. UNCHANGED <<user, ircmask_list, irchost_cache, disk, clash>> /\ run' = "up"
      BY <1>15 DEF LoadFails, memory
    <2> QED
      BY <2>1, MasksSame DEF SameMasks
  <1> QED
    BY <1>1, <1>2, <1>3, <1>4, <1>5, <1>6, <1>7, <1>8, <1>9, <1>10, <1>11, <1>12, <1>13, <1>14, <1>15 DEF Next

\* The invariant of users.c: the masks depend on the records, not the records
\* on the masks.
UsersInv == RecordsInv /\ MasksInv

LEMMA UsersInvHolds == Spec => []UsersInv
  <1>1. Init => UsersInv
    BY TypeInit, IdsInit, BotInit, MasksInit DEF UsersInv, RecordsInv
  <1>2. UsersInv /\ [Next]_vars => UsersInv'
    <2> SUFFICES ASSUME UsersInv, [Next]_vars
                 PROVE  UsersInv'
      OBVIOUS
    <2>1. TypeInv /\ IdsInv /\ BotInv /\ MasksInv /\ Distinct /\ FileFits
      BY DEF UsersInv, RecordsInv, IdsInv
    <2>2. TypeInv' /\ IdsInv' /\ BotInv'
      BY <2>1, TypeStep, IdsStep, BotStep
    <2>3. MasksInv'
      BY <2>1, MasksStep
    <2> QED
      BY <2>2, <2>3 DEF UsersInv, RecordsInv
  <1> QED
    BY <1>1, <1>2, PTL DEF Spec

\* As long as no two users have the same mask and none has "*", the list holds
\* each mask of each live user, and nothing else, longest first; who is cached
\* for a host has a mask that matches it, and when nobody is cached, nobody has
\* (user_lookup_by_irchost, through additions, deletions and restarts).
THEOREM MasksAreFound == Spec => []MasksFound
  <1>1. ASSUME UsersInv
        PROVE  MasksFound
    <2>1. TypeInv /\ MasksInv
      BY <1>1 DEF UsersInv, RecordsInv
    <2> SUFFICES ASSUME run = "up", clash = 0
                 PROVE
                   /\ Complete
                   /\ \A i \in 1 .. Len(ircmask_list) - 1 :
                        Length[ircmask_list[i].mask] >= Length[ircmask_list[i + 1].mask]
                   /\ \A h \in Hosts :
                        LET fit == {u \in Slots : Alive(u) /\ \E m \in ToSet(user[u].masks) : Strength[m][h] > 0}
                        IN  irchost_cache[h] \in fit \/ irchost_cache[h] = Absent \/ (irchost_cache[h] = None /\ fit = {})
      BY DEF MasksFound, Complete
    <2>2. Complete /\ CacheRight /\ Sorted
      BY <2>1 DEF MasksInv, ClashFree
    <2>3. ASSUME NEW i \in 1 .. Len(ircmask_list) - 1
          PROVE  Length[ircmask_list[i].mask] >= Length[ircmask_list[i + 1].mask]
      <3>1. ircmask_list \in Seq(Entry)
        BY <2>1 DEF TypeInv, ListType
      <3>2. i \in DOMAIN ircmask_list /\ i + 1 \in DOMAIN ircmask_list /\ i < i + 1
        BY <3>1
      <3> QED
        BY <2>2, <3>2 DEF Sorted, LongestFirst
    <2>4. ASSUME NEW h \in Hosts
          PROVE  LET fit == {u \in Slots : Alive(u) /\ \E m \in ToSet(user[u].masks) : Strength[m][h] > 0}
                 IN  irchost_cache[h] \in fit \/ irchost_cache[h] = Absent \/ (irchost_cache[h] = None /\ fit = {})
      <3>1. ASSUME NEW u \in Slots
            PROVE  Fits(u, h) <=> Alive(u) /\ \E m \in ToSet(user[u].masks) : Strength[m][h] > 0
        <4>1. user[u].masks \in Seq(Masks)
          <5>1. user[u] \in UserType
            BY <2>1 DEF TypeInv, UsersType
          <5> QED
            BY <5>1 DEF UserType
        <4>2. \A m : m \in ToSet(user[u].masks) <=> m \in Masks /\ Has(user[u].masks, m)
          BY <4>1 DEF ToSet, Has
        <4> QED
          BY <4>2 DEF Fits
      <3>2. RightAt(h)
        BY <2>2 DEF CacheRight
      <3> QED
        BY <3>1, <3>2 DEF RightAt
    <2> QED
      BY <2>2, <2>3, <2>4
  <1> QED
    BY <1>1, UsersInvHolds, PTL
=============================================================================
