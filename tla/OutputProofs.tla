---------------------------- MODULE OutputProofs ----------------------------
(***************************************************************************)
(* Theorems about the two places output waits in.                          *)
(*                                                                         *)
(* Sockbuf, for every number of slots and sockets, for whatever a grown    *)
(* poll array holds and with signals that interrupt poll: the poll array   *)
(* matches the slots, the streams stay in order, and no event reaches      *)
(* another connection with the same idx.                                   *)
(*                                                                         *)
(* OutputQueue, for any messages and any number of entries, when scripts   *)
(* do not insert in front of waiting messages: no entry is lost or in two  *)
(* lists, and the linked lists implement QueueSpec.                        *)
(***************************************************************************)
EXTENDS Sockbuf, OutputQueue, SequenceLemmas, SequenceTheorems, FiniteSetTheorems, TLAPS

-----------------------------------------------------------------------------
(***************************************************************************)
(* Socket buffers                                                          *)
(***************************************************************************)

SlotRec == [flag : {"avail", "valid", "deleted"}, sock : Socks \cup {None},
            connecting : BOOLEAN, server : BOOLEAN, block : BOOLEAN, data : Seq(Nat)]
Entry == [idx : Slots, sock : Socks, out : BOOLEAN, revents : SUBSET Events, polled : BOOLEAN]

Pending(b) == b.connecting \/ b.data # <<>>

\* A poll array p and a table of slots sl tell the same story.
Agrees(p, sl) ==
  /\ \A k \in DOMAIN p :
       /\ sl[p[k].idx].flag # "avail" /\ sl[p[k].idx].sock = p[k].sock
       /\ p[k].out <=> Pending(sl[p[k].idx])
  /\ \A j, k \in DOMAIN p : p[j].idx = p[k].idx => j = k
  /\ \A x \in Slots : sl[x].sock # None => \E k \in DOMAIN p : p[k].idx = x

\* Two tables that differ in one slot at most.
OnlyAt(x, sl, sm) == \A y \in Slots : y # x => sm[y] = sl[y]

LEMMA EntryTypes ==
  ASSUME NEW p \in Seq(Entry)
  PROVE  \A k \in DOMAIN p : p[k] \in Entry /\ p[k].idx \in Slots /\ p[k].sock \in Socks /\ p[k].sock # None
  <1> SUFFICES ASSUME NEW k \in DOMAIN p
               PROVE  p[k] \in Entry /\ p[k].idx \in Slots /\ p[k].sock \in Socks /\ p[k].sock # None
    OBVIOUS
  <1>1. p[k] \in Entry
    OBVIOUS
  <1>2. p[k].idx \in Slots /\ p[k].sock \in Socks
    BY <1>1 DEF Entry
  <1> QED
    BY <1>1, <1>2, NoneAssumption

\* A slot is changed and what poll should be asked for stays the same.
LEMMA AgreesSame ==
  ASSUME NEW p \in Seq(Entry), NEW sl, NEW sm, NEW x \in Slots, Agrees(p, sl),
         OnlyAt(x, sl, sm), sm[x].sock = sl[x].sock,
         sl[x].sock # None => sm[x].flag # "avail" /\ (Pending(sl[x]) <=> Pending(sm[x]))
  PROVE  Agrees(p, sm)
  <1>1. \A k \in DOMAIN p : p[k].idx \in Slots /\ p[k].sock # None
    BY EntryTypes
  <1>2. ASSUME NEW k \in DOMAIN p
        PROVE  /\ sm[p[k].idx].flag # "avail" /\ sm[p[k].idx].sock = p[k].sock
               /\ p[k].out <=> Pending(sm[p[k].idx])
    BY <1>1 DEF Agrees, OnlyAt
  <1>3. ASSUME NEW y \in Slots, sm[y].sock # None
        PROVE  \E k \in DOMAIN p : p[k].idx = y
    BY <1>3 DEF Agrees, OnlyAt
  <1> QED
    BY <1>2, <1>3 DEF Agrees

\* Events are changed along with the slot.
LEMMA AgreesOut ==
  ASSUME NEW p \in Seq(Entry), NEW sl, NEW sm, NEW x \in Slots, NEW wants \in BOOLEAN,
         Agrees(p, sl), OnlyAt(x, sl, sm),
         sl[x].sock # None, sm[x].sock = sl[x].sock, sm[x].flag = "valid", wants <=> Pending(sm[x])
  PROVE  Agrees(WithOut(p, x, wants), sm) /\ WithOut(p, x, wants) \in Seq(Entry)
  <1> DEFINE q == WithOut(p, x, wants)
  <1>1. \A k \in DOMAIN p : p[k] \in Entry /\ p[k].idx \in Slots /\ p[k].sock # None
    BY EntryTypes
  <1>2. /\ DOMAIN q = DOMAIN p /\ Len(p) \in Nat /\ DOMAIN p = 1 .. Len(p)
        /\ \A k \in DOMAIN p : q[k] = IF p[k].idx = x THEN [p[k] EXCEPT !.out = wants] ELSE p[k]
    BY DEF WithOut
  <1>3. \A k \in DOMAIN p : /\ q[k] \in Entry
                            /\ q[k].idx = p[k].idx /\ q[k].sock = p[k].sock
                            /\ q[k].out = IF p[k].idx = x THEN wants ELSE p[k].out
    BY <1>1, <1>2 DEF Entry
  <1>4. q \in Seq(Entry)
    <2>1. q = [k \in 1 .. Len(p) |-> q[k]]
      BY <1>2 DEF WithOut
    <2>2. q \in [1 .. Len(p) -> Entry]
      BY <1>2, <1>3, <2>1
    <2> QED
      BY <1>2, <2>2
  <1> HIDE DEF q
  <1>5. ASSUME NEW k \in DOMAIN q
        PROVE  /\ sm[q[k].idx].flag # "avail" /\ sm[q[k].idx].sock = q[k].sock
               /\ q[k].out <=> Pending(sm[q[k].idx])
    BY <1>1, <1>2, <1>3 DEF Agrees, OnlyAt
  <1>6. ASSUME NEW y \in Slots, sm[y].sock # None
        PROVE  \E k \in DOMAIN q : q[k].idx = y
    BY <1>2, <1>3, <1>6 DEF Agrees, OnlyAt
  <1>7. \A j, k \in DOMAIN q : q[j].idx = q[k].idx => j = k
    BY <1>2, <1>3 DEF Agrees
  <1> QED
    BY <1>4, <1>5, <1>6, <1>7 DEF Agrees, q

\* A sockbuf loses its socket and its entry.
LEMMA AgreesWithout ==
  ASSUME NEW p \in Seq(Entry), NEW sl, NEW sm, NEW x \in Slots, Agrees(p, sl),
         OnlyAt(x, sl, sm), sm[x].sock = None
  PROVE  Agrees(Without(p, x), sm) /\ Without(p, x) \in Seq(Entry)
  <1>1. \A k \in DOMAIN p : p[k].idx \in Slots /\ p[k].sock # None
    BY EntryTypes
  <1>2. CASE \A k \in DOMAIN p : p[k].idx # x
    <2>1. Without(p, x) = p
      BY <1>2 DEF Without
    <2> QED
      BY <1>1, <1>2, <2>1 DEF Agrees, OnlyAt
  <1>3. CASE \E k \in DOMAIN p : p[k].idx = x
    <2>1. PICK k \in DOMAIN p : p[k].idx = x
      BY <1>3
    <2>2. /\ k \in 1 .. Len(p) /\ Len(p) \in Nat
          /\ \A j \in 1 .. Len(p) : p[j].idx = x => j = k
      BY <2>1 DEF Agrees
    <2>3. Without(p, x) = RemoveAt(p, k)
      <3>1. p[k].idx = x /\ \A j \in 1 .. k - 1 : p[j].idx # x
        BY <2>1, <2>2
      <3> QED
        BY <2>1, <2>2, <3>1 DEF Without
    <2> DEFINE q == RemoveAt(p, k)
    <2>4. /\ q \in Seq(Entry) /\ Len(q) = Len(p) - 1 /\ DOMAIN q = 1 .. Len(p) - 1
          /\ \A j \in 1 .. Len(p) - 1 : q[j] = IF j < k THEN p[j] ELSE p[j + 1]
      <3>1. /\ q \in Seq(Entry) /\ Len(q) = Len(p) - 1
            /\ \A j \in 1 .. Len(p) - 1 : q[j] = IF j < k THEN p[j] ELSE p[j + 1]
        BY <2>2, RemoveAtProperties
      <3> HIDE DEF q
      <3> QED
        BY <3>1
    <2> HIDE DEF q
    <2>5. ASSUME NEW j \in DOMAIN q
          PROVE  \E i1 \in DOMAIN p : i1 # k /\ q[j] = p[i1] /\ i1 = IF j < k THEN j ELSE j + 1
      BY <2>2, <2>4
    <2>6. ASSUME NEW j \in DOMAIN q
          PROVE  /\ sm[q[j].idx].flag # "avail" /\ sm[q[j].idx].sock = q[j].sock
                 /\ q[j].out <=> Pending(sm[q[j].idx])
      BY <1>1, <2>2, <2>5 DEF Agrees, OnlyAt
    <2>7. \A j, l \in DOMAIN q : q[j].idx = q[l].idx => j = l
      <3> SUFFICES ASSUME NEW j \in DOMAIN q, NEW l \in DOMAIN q, q[j].idx = q[l].idx
                   PROVE  j = l
        OBVIOUS
      <3>1. PICK a \in DOMAIN p : q[j] = p[a] /\ a = IF j < k THEN j ELSE j + 1
        BY <2>5
      <3>2. PICK c \in DOMAIN p : q[l] = p[c] /\ c = IF l < k THEN l ELSE l + 1
        BY <2>5
      <3>3. a = c
        BY <3>1, <3>2 DEF Agrees
      <3> QED
        BY <2>2, <2>4, <3>1, <3>2, <3>3
    <2>8. ASSUME NEW y \in Slots, sm[y].sock # None
          PROVE  \E j \in DOMAIN q : q[j].idx = y
      <3>1. y # x /\ sl[y].sock # None
        BY <2>8 DEF OnlyAt
      <3>2. PICK l \in DOMAIN p : p[l].idx = y
        BY <3>1 DEF Agrees
      <3>3. l \in 1 .. Len(p) /\ l # k
        BY <2>1, <3>1, <3>2
      <3>4. CASE l < k
        BY <2>2, <2>4, <3>2, <3>3, <3>4
      <3>5. CASE l > k
        <4>1. l - 1 \in 1 .. Len(p) - 1 /\ ~ l - 1 < k /\ (l - 1) + 1 = l
          BY <2>2, <3>3, <3>5
        <4> QED
          BY <2>4, <3>2, <4>1
      <3> QED
        BY <2>2, <3>3, <3>4, <3>5
    <2> QED
      BY <2>3, <2>4, <2>6, <2>7, <2>8 DEF Agrees, q
  <1> QED
    BY <1>2, <1>3

\* A sockbuf without a socket gets one and an entry for it.
LEMMA AgreesAppend ==
  ASSUME NEW p \in Seq(Entry), NEW sl, NEW sm, NEW x \in Slots, NEW s \in Socks,
         NEW wants \in BOOLEAN, NEW g \in Garbage, Agrees(p, sl), OnlyAt(x, sl, sm),
         sl[x].sock = None, sm[x].sock = s, sm[x].flag = "valid", wants <=> Pending(sm[x])
  PROVE  /\ Agrees(Append(p, PollEntry(x, s, wants, g)), sm)
         /\ Append(p, PollEntry(x, s, wants, g)) \in Seq(Entry)
  <1> DEFINE e == PollEntry(x, s, wants, g)
             q == Append(p, e)
  <1>1. e \in Entry /\ e.idx = x /\ e.sock = s /\ e.out = wants
    BY GarbageAssumption DEF PollEntry, Entry
  <1> HIDE DEF e
  <1>2. /\ q \in Seq(Entry) /\ Len(p) \in Nat /\ DOMAIN p = 1 .. Len(p) /\ DOMAIN q = 1 .. Len(p) + 1
        /\ \A k \in 1 .. Len(p) : q[k] = p[k]
        /\ q[Len(p) + 1] = e
    BY <1>1
  <1> HIDE DEF q
  <1>3. \A k \in DOMAIN p : p[k].idx \in Slots /\ p[k].sock # None /\ p[k].idx # x
    BY EntryTypes DEF Agrees
  <1>4. ASSUME NEW k \in DOMAIN q
        PROVE  /\ sm[q[k].idx].flag # "avail" /\ sm[q[k].idx].sock = q[k].sock
               /\ q[k].out <=> Pending(sm[q[k].idx])
    <2>1. CASE k \in 1 .. Len(p)
      BY <1>2, <1>3, <2>1 DEF Agrees, OnlyAt
    <2>2. CASE k = Len(p) + 1
      BY <1>1, <1>2, <2>2
    <2> QED
      BY <1>2, <2>1, <2>2
  <1>5. \A j, k \in DOMAIN q : q[j].idx = q[k].idx => j = k
    BY <1>1, <1>2, <1>3 DEF Agrees
  <1>6. ASSUME NEW y \in Slots, sm[y].sock # None
        PROVE  \E k \in DOMAIN q : q[k].idx = y
    <2>1. CASE y = x
      BY <1>1, <1>2, <2>1
    <2>2. CASE y # x
      <3>1. PICK k \in DOMAIN p : p[k].idx = y
        BY <1>6, <2>2 DEF Agrees, OnlyAt
      <3> QED
        BY <1>2, <3>1
    <2> QED
      BY <2>1, <2>2
  <1> QED
    BY <1>2, <1>4, <1>5, <1>6 DEF Agrees, q, e

-----------------------------------------------------------------------------
(* Streams                                                                 *)

LEMMA BytesProperties ==
  ASSUME NEW count \in Nat, NEW len \in Nat
  PROVE  /\ Bytes(count, len) \in Seq(Nat) /\ Len(Bytes(count, len)) = len
         /\ \A k \in 1 .. len : Bytes(count, len)[k] = count + k
  BY DEF Bytes

LEMMA BytesConcat ==
  ASSUME NEW a \in Seq(Nat), NEW b \in Seq(Nat)
  PROVE  a \o b \in Seq(Nat) /\ Len(a) \in Nat /\ Len(b) \in Nat /\ Len(a \o b) = Len(a) + Len(b)
  BY ConcatProperties

LEMMA BytesAssociate ==
  ASSUME NEW a \in Seq(Nat), NEW b \in Seq(Nat), NEW c \in Seq(Nat)
  PROVE  (a \o b) \o c = a \o (b \o c)
  BY ConcatAssociative, SMTT(30)

\* Two stretches of a stream make one.
LEMMA BytesJoin ==
  ASSUME NEW c \in Nat, NEW a \in Nat, NEW b \in Nat
  PROVE  Bytes(c, a) \o Bytes(c + a, b) = Bytes(c, a + b)
  <1> DEFINE l == Bytes(c, a)
             r == Bytes(c + a, b)
             t == Bytes(c, a + b)
  <1>1. /\ l \in Seq(Nat) /\ Len(l) = a /\ \A k \in 1 .. a : l[k] = c + k
        /\ r \in Seq(Nat) /\ Len(r) = b /\ \A k \in 1 .. b : r[k] = c + a + k
        /\ t \in Seq(Nat) /\ Len(t) = a + b /\ \A k \in 1 .. a + b : t[k] = c + k
    <2>1. c + a \in Nat /\ a + b \in Nat
      OBVIOUS
    <2> HIDE DEF l, r, t
    <2>2. l \in Seq(Nat) /\ Len(l) = a /\ \A k \in 1 .. a : l[k] = c + k
      BY BytesProperties DEF l
    <2>3. r \in Seq(Nat) /\ Len(r) = b /\ \A k \in 1 .. b : r[k] = c + a + k
      BY <2>1, BytesProperties DEF r
    <2>4. t \in Seq(Nat) /\ Len(t) = a + b /\ \A k \in 1 .. a + b : t[k] = c + k
      BY <2>1, BytesProperties DEF t
    <2> QED
      BY <2>2, <2>3, <2>4
  <1> HIDE DEF l, r, t
  <1>2. /\ l \o r \in Seq(Nat) /\ Len(l \o r) = a + b
        /\ \A k \in 1 .. a + b : (l \o r)[k] = IF k <= a THEN l[k] ELSE r[k - a]
    BY <1>1, ConcatProperties, ZenonT(40)
  <1>3. ASSUME NEW k \in 1 .. a + b PROVE (l \o r)[k] = t[k]
    <2>1. CASE k <= a
      BY <1>1, <1>2, <2>1
    <2>2. CASE ~ k <= a
      <3>1. k - a \in 1 .. b /\ c + a + (k - a) = c + k
        BY <2>2
      <3> QED
        BY <1>1, <1>2, <2>2, <3>1, SMTT(30)
    <2> QED
      BY <2>1, <2>2
  <1>4. l \o r = t
    BY <1>1, <1>2, <1>3, SeqEqual
  <1> QED
    BY <1>4 DEF l, r, t

\* A stretch is cut where the kernel stopped taking bytes.
LEMMA BytesCut ==
  ASSUME NEW c \in Nat, NEW len \in Nat, NEW k \in 0 .. len
  PROVE  /\ SubSeq(Bytes(c, len), 1, k) = Bytes(c, k)
         /\ SubSeq(Bytes(c, len), k + 1, len) = Bytes(c + k, len - k)
  <1> DEFINE t == Bytes(c, len)
             a == SubSeq(t, 1, k)
             b == SubSeq(t, k + 1, len)
  <1>1. t \in Seq(Nat) /\ Len(t) = len /\ \A j \in 1 .. len : t[j] = c + j
    BY BytesProperties
  <1> HIDE DEF t
  <1>2. /\ a \in Seq(Nat) /\ Len(a) = k /\ \A j \in 1 .. k : a[j] = c + j
    BY <1>1
  <1>3. /\ b \in Seq(Nat) /\ Len(b) = len - k /\ \A j \in 1 .. len - k : b[j] = c + k + j
    BY <1>1
  <1>4. a = Bytes(c, k)
    BY <1>2, BytesProperties, SeqEqual
  <1>5. b = Bytes(c + k, len - k)
    <2>1. c + k \in Nat /\ len - k \in Nat
      OBVIOUS
    <2> HIDE DEF b
    <2> DEFINE r == Bytes(c + k, len - k)
    <2>2. r \in Seq(Nat) /\ Len(r) = len - k /\ \A j \in 1 .. len - k : r[j] = c + k + j
      BY <2>1, BytesProperties
    <2> HIDE DEF r
    <2>3. b = r
      BY <1>3, <2>1, <2>2, SeqEqual
    <2> QED
      BY <2>3 DEF r
  <1> QED
    BY <1>4, <1>5 DEF t

\* What was handed to the kernel is where the stream begins.
LEMMA PrefixOfStream ==
  ASSUME NEW a \in Seq(Nat), NEW b \in Seq(Nat)
  PROVE  IsPrefix(a, a \o b)
  <1>1. /\ a \o b \in Seq(Nat) /\ Len(a \o b) = Len(a) + Len(b)
        /\ \A j \in 1 .. Len(a) : (a \o b)[j] = a[j]
    BY ConcatProperties
  <1> DEFINE c == a \o b
  <1> HIDE DEF c
  <1>2. SubSeq(a, 1, Len(a)) = SubSeq(c, 1, Len(a))
    <2>1. SubSeq(a, 1, Len(a)) \in Seq(Nat) /\ SubSeq(c, 1, Len(a)) \in Seq(Nat)
      BY <1>1 DEF c
    <2> QED
      BY <1>1, <2>1, SeqEqual DEF c
  <1> QED
    BY <1>1, <1>2 DEF IsPrefix, c

\* A write: either nothing waits, or the kernel is not asked.
LEMMA WriteStream ==
  ASSUME NEW w \in Seq(Nat), NEW d \in Seq(Nat), NEW count \in Nat, NEW len \in Nat,
         NEW k \in 0 .. len, w \o d = Bytes(0, count), d = <<>> \/ k = 0
  PROVE  (w \o SubSeq(Bytes(count, len), 1, k)) \o (d \o SubSeq(Bytes(count, len), k + 1, len))
           = Bytes(0, count + len)
  <1> DEFINE a == Bytes(count, k)
             b == Bytes(count + k, len - k)
  <1>1. SubSeq(Bytes(count, len), 1, k) = a /\ SubSeq(Bytes(count, len), k + 1, len) = b
    BY BytesCut
  <1>2. k \in Nat /\ len - k \in Nat /\ count + k \in Nat /\ count + len \in Nat
    OBVIOUS
  <1>3. a \in Seq(Nat) /\ b \in Seq(Nat)
    BY <1>2, BytesProperties
  <1>4. a \o b = Bytes(count, len)
    <2>1. a \o b = Bytes(count, k + (len - k))
      BY <1>2, BytesJoin
    <2> QED
      BY <1>2, <2>1
  <1>5. Bytes(0, count) \o Bytes(count, len) = Bytes(0, count + len)
    <2>1. Bytes(0, count) \o Bytes(0 + count, len) = Bytes(0, count + len)
      BY BytesJoin
    <2> QED
      BY <2>1
  <1> HIDE DEF a, b
  <1>6. (w \o a) \o (d \o b) = (w \o d) \o (a \o b)
    <2>1. CASE d = <<>>
      <3>1. d \o b = b /\ w \o d = w
        BY <1>3, <2>1, ConcatEmptySeq
      <3>2. (w \o a) \o b = w \o (a \o b)
        BY <1>3, BytesAssociate
      <3> QED
        BY <3>1, <3>2
    <2>2. CASE k = 0
      <3>1. a = <<>>
        BY <1>3, <2>2, BytesProperties, EmptySeq DEF a
      <3>2. w \o a = w /\ a \o b = b
        BY <1>3, <3>1, ConcatEmptySeq
      <3>3. w \o (d \o b) = (w \o d) \o b
        BY <1>3, BytesAssociate
      <3> QED
        BY <3>2, <3>3
    <2> QED
      BY <2>1, <2>2
  <1> QED
    BY <1>1, <1>4, <1>5, <1>6

\* The front of the output buffer goes to the kernel.
LEMMA DrainStream ==
  ASSUME NEW w \in Seq(Nat), NEW d \in Seq(Nat), NEW k \in 0 .. Len(d)
  PROVE  (w \o SubSeq(d, 1, k)) \o SubSeq(d, k + 1, Len(d)) = w \o d
  <1> DEFINE a == SubSeq(d, 1, k)
             b == SubSeq(d, k + 1, Len(d))
  <1>1. a \in Seq(Nat) /\ b \in Seq(Nat)
    OBVIOUS
  <1>2. SubSeq(d, 1, k) \o SubSeq(d, k + 1, Len(d)) = SubSeq(d, 1, Len(d))
    <2>1. 1 \in 1 .. Len(d) + 1 /\ k \in 1 - 1 .. Len(d) /\ Len(d) \in k .. Len(d)
      OBVIOUS
    <2> QED
      BY <2>1, ConcatAdjacentSubSeq
  <1>3. SubSeq(d, 1, Len(d)) = d
    BY SubSeqFull
  <1> HIDE DEF a, b
  <1>4. (w \o a) \o b = w \o (a \o b)
    BY <1>1, BytesAssociate
  <1> QED
    BY <1>2, <1>3, <1>4 DEF a, b

-----------------------------------------------------------------------------
(* The table of slots, the poll array, the kernel's sockets and streams    *)

KStates == {"unused", "listen", "connecting", "open", "fin", "dead", "closed"}

\* An available slot has no socket; one that waits for its first
\* socket holds nothing; and a socket with output that waits is blocked.
SlotOK(b) ==
  /\ b.flag = "avail" => b.sock = None
  /\ b.flag = "valid" /\ b.sock = None /\ b.block => b.data = <<>> /\ ~ b.connecting
  /\ b.sock # None /\ b.data # <<>> => b.block

\* A socket is in one sockbuf at most, and nothing was written to one that was
\* never used.
Held(sl, ks, w, se) ==
  /\ \A x, y \in Slots : sl[x].sock # None /\ sl[x].sock = sl[y].sock => x = y
  /\ \A x \in Slots : sl[x].sock # None => ks[sl[x].sock] # "unused"
  /\ \A s \in Socks : ks[s] = "unused" => se[s] = 0 /\ w[s] = <<>>

\* What the kernel took of a socket's bytes and the output buffer d make all
\* that was accepted.
StreamIs(w, se, s, d) == s # None => w[s] \o d = Bytes(0, se[s])

Streams(sl, w, se) == \A x \in Slots : StreamIs(w, se, sl[x].sock, sl[x].data)

SentPrefixes(w, se) == \A s \in Socks : IsPrefix(w[s], Bytes(0, se[s]))

TableTypes(sl, p, ks, w, se) ==
  /\ sl \in [Slots -> SlotRec] /\ p \in Seq(Entry) /\ ks \in [Socks -> KStates]
  /\ w \in [Socks -> Seq(Nat)] /\ se \in [Socks -> Nat]

Table(sl, p, ks, w, se) ==
  /\ TableTypes(sl, p, ks, w, se)
  /\ Agrees(p, sl)
  /\ \A x \in Slots : SlotOK(sl[x])
  /\ Held(sl, ks, w, se)
  /\ Streams(sl, w, se) /\ SentPrefixes(w, se)

\* The kernel changes its mind about sockets, but not which were never used.
SameUsed(ks, kt) == kt \in [Socks -> KStates] /\ \A s \in Socks : kt[s] = "unused" <=> ks[s] = "unused"

LEMMA Updated ==
  ASSUME NEW sl \in [Slots -> SlotRec], NEW x \in Slots, NEW r \in SlotRec
  PROVE  /\ [sl EXCEPT ![x] = r] \in [Slots -> SlotRec] /\ [sl EXCEPT ![x] = r][x] = r
         /\ OnlyAt(x, sl, [sl EXCEPT ![x] = r])
  BY DEF OnlyAt

LEMMA TableDetach ==
  ASSUME NEW sl, NEW p, NEW ks, NEW kt, NEW w, NEW se, Table(sl, p, ks, w, se),
         NEW x \in Slots, NEW r \in SlotRec, SlotOK(r), r.sock = None, SameUsed(ks, kt)
  PROVE  Table([sl EXCEPT ![x] = r], Without(p, x), kt, w, se)
  <1> DEFINE sm == [sl EXCEPT ![x] = r]
  <1>1. sl \in [Slots -> SlotRec] /\ p \in Seq(Entry) /\ Agrees(p, sl)
    BY DEF Table, TableTypes
  <1>2. sm \in [Slots -> SlotRec] /\ sm[x] = r /\ OnlyAt(x, sl, sm)
    BY <1>1, Updated
  <1> HIDE DEF sm
  <1>3. Agrees(Without(p, x), sm) /\ Without(p, x) \in Seq(Entry)
    BY <1>1, <1>2, AgreesWithout
  <1>4. TableTypes(sm, Without(p, x), kt, w, se)
    BY <1>2, <1>3 DEF Table, TableTypes, SameUsed
  <1>5. \A y \in Slots : sm[y].sock # None => y # x /\ sm[y] = sl[y]
    BY <1>2 DEF OnlyAt
  <1>6. \A y \in Slots : SlotOK(sm[y])
    BY <1>2 DEF OnlyAt, Table
  <1>7. Held(sm, kt, w, se)
    <2>1. \A y \in Slots : sl[y].sock \in Socks \cup {None}
      BY <1>1 DEF SlotRec
    <2>2. Held(sl, ks, w, se) /\ SameUsed(ks, kt)
      BY DEF Table
    <2> QED
      BY <1>5, <2>1, <2>2 DEF Held, SameUsed
  <1>8. Streams(sm, w, se) /\ SentPrefixes(w, se)
    BY <1>2, <1>5 DEF Streams, StreamIs, Table
  <1> QED
    BY <1>3, <1>4, <1>6, <1>7, <1>8 DEF Table, sm

LEMMA TableAttach ==
  ASSUME NEW sl, NEW p, NEW ks, NEW kt, NEW w, NEW se, Table(sl, p, ks, w, se),
         NEW x \in Slots, NEW r \in SlotRec, NEW s \in Socks, NEW wants \in BOOLEAN, NEW g \in Garbage,
         SlotOK(r), r.sock = s, r.flag = "valid", r.data = <<>>, wants <=> Pending(r),
         sl[x].sock = None, \A y \in Slots : sl[y].sock # s, w[s] = Bytes(0, se[s]),
         kt \in [Socks -> KStates], kt[s] # "unused",
         \A t \in Socks : t # s => (kt[t] = "unused" <=> ks[t] = "unused")
  PROVE  Table([sl EXCEPT ![x] = r], Append(p, PollEntry(x, s, wants, g)), kt, w, se)
  <1> DEFINE sm == [sl EXCEPT ![x] = r]
             q == Append(p, PollEntry(x, s, wants, g))
  <1>1. /\ sl \in [Slots -> SlotRec] /\ p \in Seq(Entry) /\ Agrees(p, sl)
        /\ w \in [Socks -> Seq(Nat)] /\ se \in [Socks -> Nat]
    BY DEF Table, TableTypes
  <1>2. sm \in [Slots -> SlotRec] /\ sm[x] = r /\ OnlyAt(x, sl, sm)
    BY <1>1, Updated
  <1> HIDE DEF sm
  <1>3. Agrees(q, sm) /\ q \in Seq(Entry)
    BY <1>1, <1>2, AgreesAppend
  <1> HIDE DEF q
  <1>4. TableTypes(sm, q, kt, w, se)
    BY <1>1, <1>2, <1>3 DEF TableTypes
  <1>5. \A y \in Slots : IF y = x THEN sm[y] = r ELSE sm[y] = sl[y]
    BY <1>2 DEF OnlyAt
  <1>6. \A y \in Slots : SlotOK(sm[y])
    BY <1>5 DEF Table
  <1>7. Held(sm, kt, w, se)
    <2>1. \A y \in Slots : sl[y].sock \in Socks \cup {None}
      BY <1>1 DEF SlotRec
    <2>2. Held(sl, ks, w, se)
      BY DEF Table
    <2>3. \A y, z \in Slots : sm[y].sock # None /\ sm[y].sock = sm[z].sock => y = z
      BY <1>5, <2>2 DEF Held
    <2>4. \A y \in Slots : sm[y].sock # None => kt[sm[y].sock] # "unused"
      BY <1>5, <2>1, <2>2 DEF Held
    <2>5. \A t \in Socks : kt[t] = "unused" => se[t] = 0 /\ w[t] = <<>>
      BY <2>2 DEF Held
    <2> QED
      BY <2>3, <2>4, <2>5 DEF Held
  <1>8. Streams(sm, w, se)
    <2>1. StreamIs(w, se, s, r.data)
      BY <1>1, ConcatEmptySeq DEF StreamIs
    <2> QED
      BY <1>5, <2>1 DEF Streams, Table
  <1> QED
    BY <1>3, <1>4, <1>6, <1>7, <1>8 DEF Table, sm, q

\* The streams of all sockets but s are the same.
OtherStreams(s, w, se, v, te) == \A t \in Socks : t # s => v[t] = w[t] /\ te[t] = se[t]

\* A slot is changed, and perhaps the stream of its socket, but not which
\* socket it is.
LEMMA TableSame ==
  ASSUME NEW sl, NEW p, NEW ks, NEW w, NEW se, Table(sl, p, ks, w, se),
         NEW x \in Slots, NEW sm \in [Slots -> SlotRec], OnlyAt(x, sl, sm),
         SlotOK(sm[x]), sm[x].sock = sl[x].sock,
         NEW q \in Seq(Entry), Agrees(q, sm),
         NEW v \in [Socks -> Seq(Nat)], NEW te \in [Socks -> Nat],
         OtherStreams(sl[x].sock, w, se, v, te),
         StreamIs(v, te, sl[x].sock, sm[x].data)
  PROVE  Table(sm, q, ks, v, te)
  <1>1. sl \in [Slots -> SlotRec] /\ p \in Seq(Entry) /\ Agrees(p, sl)
    BY DEF Table, TableTypes
  <1>2. TableTypes(sm, q, ks, v, te)
    BY DEF Table, TableTypes
  <1>3. \A y \in Slots : /\ sm[y].sock = sl[y].sock /\ sl[y].sock \in Socks \cup {None}
                         /\ y # x => sm[y] = sl[y]
    BY <1>1 DEF OnlyAt, SlotRec
  <1>4. \A y \in Slots : SlotOK(sm[y])
    BY <1>3 DEF Table
  <1>5. \A y \in Slots : y # x /\ sl[y].sock # None => sl[y].sock # sl[x].sock /\ sl[y].sock \in Socks
    BY <1>3 DEF Table, Held
  <1>6. Held(sm, ks, v, te)
    <2>1. Held(sl, ks, w, se)
      BY DEF Table
    <2>2. \A s \in Socks : ks[s] = "unused" => te[s] = 0 /\ v[s] = <<>>
      <3>1. \A s \in Socks : ks[s] = "unused" => s # sl[x].sock
        BY <2>1, NoneAssumption DEF Held
      <3> QED
        BY <2>1, <3>1 DEF Held, OtherStreams
    <2>3. \A y, z \in Slots : sm[y].sock # None /\ sm[y].sock = sm[z].sock => y = z
      BY <1>3, <2>1 DEF Held
    <2>4. \A y \in Slots : sm[y].sock # None => ks[sm[y].sock] # "unused"
      BY <1>3, <2>1 DEF Held
    <2> QED
      BY <2>2, <2>3, <2>4 DEF Held
  <1>7. Streams(sm, v, te)
    <2> SUFFICES ASSUME NEW y \in Slots
                 PROVE  StreamIs(v, te, sm[y].sock, sm[y].data)
      BY DEF Streams
    <2>1. CASE y = x
      BY <2>1
    <2>2. CASE y # x
      <3>1. sm[y] = sl[y] /\ StreamIs(w, se, sl[y].sock, sl[y].data)
        BY <1>3, <2>2 DEF Table, Streams
      <3>2. sl[y].sock # None => v[sl[y].sock] = w[sl[y].sock] /\ te[sl[y].sock] = se[sl[y].sock]
        BY <1>5, <2>2 DEF OtherStreams
      <3> QED
        BY <3>1, <3>2 DEF StreamIs
    <2> QED
      BY <2>1, <2>2
  <1>8. SentPrefixes(v, te)
    <2> SUFFICES ASSUME NEW s \in Socks
                 PROVE  IsPrefix(v[s], Bytes(0, te[s]))
      BY DEF SentPrefixes
    <2>1. CASE s # sl[x].sock
      BY <2>1 DEF Table, SentPrefixes, OtherStreams
    <2>2. CASE s = sl[x].sock
      <3>1. v[s] \in Seq(Nat) /\ sm[x].data \in Seq(Nat)
        BY DEF SlotRec
      <3>2. v[s] \o sm[x].data = Bytes(0, te[s])
        BY <2>2, NoneAssumption DEF StreamIs
      <3>3. IsPrefix(v[s], v[s] \o sm[x].data)
        BY <3>1, PrefixOfStream
      <3> QED
        BY <3>2, <3>3
    <2> QED
      BY <2>1, <2>2
  <1> QED
    BY <1>2, <1>4, <1>6, <1>7, <1>8 DEF Table

\* Only poll array and slot change.
LEMMA TableSlot ==
  ASSUME NEW sl, NEW p, NEW ks, NEW w, NEW se, Table(sl, p, ks, w, se),
         NEW x \in Slots, NEW r \in SlotRec, SlotOK(r), r.sock = sl[x].sock,
         r.sock # None => r.data = sl[x].data,
         NEW q \in Seq(Entry), Agrees(q, [sl EXCEPT ![x] = r])
  PROVE  Table([sl EXCEPT ![x] = r], q, ks, w, se)
  <1> DEFINE sm == [sl EXCEPT ![x] = r]
  <1>1. /\ sl \in [Slots -> SlotRec] /\ w \in [Socks -> Seq(Nat)] /\ se \in [Socks -> Nat]
        /\ StreamIs(w, se, sl[x].sock, sl[x].data)
    BY DEF Table, TableTypes, Streams
  <1>2. sm \in [Slots -> SlotRec] /\ sm[x] = r /\ OnlyAt(x, sl, sm) /\ Agrees(q, sm)
    BY <1>1, Updated
  <1> HIDE DEF sm
  <1>3. SlotOK(sm[x]) /\ sm[x].sock = sl[x].sock
    BY <1>2
  <1>4. OtherStreams(sl[x].sock, w, se, w, se)
    BY DEF OtherStreams
  <1>5. StreamIs(w, se, sl[x].sock, sm[x].data)
    BY <1>1, <1>2 DEF StreamIs
  <1>6. Table(sm, q, ks, w, se)
    BY <1>1, <1>2, <1>3, <1>4, <1>5, TableSame
  <1> QED
    BY <1>6 DEF sm

-----------------------------------------------------------------------------
(* The inductive invariant                                                 *)

StateTable == Table(slot, poll, ksock, wire, sent)

Deleted(sl) == {x \in Slots : sl[x].flag = "deleted"}

\* The deleted slots are those that are counted and those whose callbacks still
\* run; only the latter have a socket.
Counted ==
  /\ deleting \in Seq(Slots) /\ \A c, d \in DOMAIN deleting : deleting[c] = deleting[d] => c = d
  /\ \A d \in DOMAIN deleting : slot[deleting[d]].flag = "deleted"
  /\ \A x \in Slots : slot[x].flag = "deleted" /\ slot[x].sock # None =>
                        \E d \in DOMAIN deleting : deleting[d] = x
  /\ ndeleted \in Nat /\ ndeleted + Len(deleting) = Cardinality(Deleted(slot))

CurRec == [idx : Slots, sock : Socks, revents : SUBSET Events, polled : BOOLEAN,
           connecting : BOOLEAN, server : BOOLEAN]

\* Until POLLOUT was looked at no handler ran, and the flags that were read are
\* those of the sockbuf still.
CurInv ==
  /\ phase \in {"entry", "handler"} =>
       /\ cur \in CurRec
       /\ "out" \in cur.revents =>
            /\ phase = "entry" /\ slot[cur.idx].sock \in Socks
            /\ cur.connecting = slot[cur.idx].connecting
  /\ phase \in {"pass", "entry"} => deleting = <<>>

IInv == StateTable /\ Counted /\ CurInv

LEMMA SlotTypes ==
  ASSUME StateTable, NEW x \in Slots
  PROVE  /\ slot[x] \in SlotRec /\ SlotOK(slot[x])
         /\ slot[x].sock \in Socks \cup {None} /\ slot[x].data \in Seq(Nat)
         /\ slot[x].connecting \in BOOLEAN /\ slot[x].block \in BOOLEAN
  <1>1. slot \in [Slots -> SlotRec] /\ SlotOK(slot[x])
    BY DEF StateTable, Table, TableTypes
  <1>2. slot[x] \in SlotRec
    BY <1>1
  <1> QED
    BY <1>1, <1>2 DEF SlotRec

LEMMA CurUntouched ==
  ASSUME CurInv, UNCHANGED <<phase, cur>>, phase # "entry" \/ UNCHANGED slot,
         phase \in {"idle", "handler"} \/ UNCHANGED deleting
  PROVE  CurInv'
  BY DEF CurInv

LEMMA CurLooks ==
  ASSUME CurInv, NEW ev, Looking(ev), UNCHANGED deleting
  PROVE  CurInv' /\ cur \in CurRec /\ cur' = [cur EXCEPT !.revents = @ \ {ev}]
  <1>1. cur \in CurRec /\ cur' = [cur EXCEPT !.revents = @ \ {ev}]
    BY DEF CurInv, Looking
  <1>2. cur' \in CurRec /\ cur'.revents = cur.revents \ {ev}
    BY <1>1 DEF CurRec
  <1>3. "out" \notin cur'.revents
    <2>1. ev \in {"out", "in", "err"}
      BY <1>1 DEF Looking, CurRec, Events
    <2>2. ev = "in" => "out" \notin cur.revents
      BY DEF Looking
    <2>3. ev = "err" => cur.revents = {"err"}
      BY DEF Looking
    <2> QED
      BY <1>2, <2>1, <2>2, <2>3
  <1>4. deleting' = <<>>
    BY DEF CurInv, Looking
  <1> QED
    BY <1>1, <1>2, <1>3, <1>4 DEF CurInv

\* The number of deleted slots is right while none is deleted or reused.
LEMMA CountedSame ==
  ASSUME Counted, UNCHANGED <<ndeleted, deleting>>,
         \A x \in Slots : /\ slot'[x].flag = "deleted" <=> slot[x].flag = "deleted"
                          /\ slot[x].flag = "deleted" => slot'[x].sock = slot[x].sock
  PROVE  Counted'
  <1>1. Deleted(slot') = Deleted(slot)
    BY DEF Deleted
  <1>2. \A d \in DOMAIN deleting : deleting[d] \in Slots
    BY DEF Counted
  <1> QED
    BY <1>1, <1>2 DEF Counted

\* A slot that is replaced by another that is not deleted.
LEMMA CountedUpdate ==
  ASSUME StateTable, Counted, UNCHANGED <<ndeleted, deleting>>, NEW x \in Slots, NEW r,
         slot' = [slot EXCEPT ![x] = r], r.flag # "deleted", slot[x].flag # "deleted"
  PROVE  Counted'
  <1>1. \A y \in Slots : slot'[y] = IF y = x THEN r ELSE slot[y]
    BY DEF StateTable, Table, TableTypes
  <1> QED
    BY <1>1, CountedSame

\* A sockbuf loses its socket; its descriptor is closed.
LEMMA ClosedUsed ==
  ASSUME StateTable, NEW x \in Slots
  PROVE  SameUsed(ksock, ClosedKernel(slot[x].sock))
  <1>1. /\ slot[x].sock \in Socks \cup {None} /\ ksock \in [Socks -> KStates]
        /\ slot[x].sock # None => ksock[slot[x].sock] # "unused"
    BY SlotTypes DEF StateTable, Table, TableTypes, Held
  <1>2. CASE slot[x].sock = None
    BY <1>1, <1>2 DEF ClosedKernel, SameUsed
  <1>3. CASE slot[x].sock # None
    <2> DEFINE kt == [ksock EXCEPT ![slot[x].sock] = "closed"]
    <2>1. kt \in [Socks -> KStates]
      BY <1>1 DEF KStates
    <2>2. \A s \in Socks : kt[s] = "unused" <=> ksock[s] = "unused"
      BY <1>1, <1>3
    <2> QED
      BY <1>3, <2>1, <2>2 DEF ClosedKernel, SameUsed
  <1> QED
    BY <1>2, <1>3

LEMMA CloseNowTable ==
  ASSUME StateTable, Counted, NEW x \in Slots, CloseNow(x),
         UNCHANGED <<wire, sent, ndeleted, deleting>>
  PROVE  StateTable' /\ Counted'
  <1>1. CASE ~ Valid(x)
    <2>1. UNCHANGED <<slot, poll, ksock>>
      BY <1>1 DEF CloseNow
    <2> QED
      BY <2>1 DEF StateTable, Counted
  <1>2. CASE Valid(x)
    <2> DEFINE r == CloseSlot(x)
    <2>1. r \in SlotRec /\ r.sock = None /\ r.flag = "valid" /\ r.block = FALSE
      <3>1. slot[x] \in SlotRec
        BY SlotTypes
      <3> QED
        BY <1>2, <3>1 DEF CloseSlot, SlotRec, Valid
    <2>2. SlotOK(r)
      BY <2>1 DEF SlotOK
    <2>3. /\ slot' = [slot EXCEPT ![x] = r] /\ poll' = Without(poll, x)
          /\ ksock' = ClosedKernel(slot[x].sock)
      BY <1>2 DEF CloseNow
    <2> HIDE DEF r
    <2>4. StateTable'
      BY <2>1, <2>2, <2>3, ClosedUsed, TableDetach DEF StateTable
    <2>5. Counted'
      BY <1>2, <2>1, <2>3, CountedUpdate DEF Valid
    <2> QED
      BY <2>4, <2>5
  <1> QED
    BY <1>1, <1>2

-----------------------------------------------------------------------------
(* The interface                                                           *)

LEMMA NewSlotOK == NewSlot \in SlotRec /\ SlotOK(NewSlot) /\ FreeSlot \in SlotRec
  <1>1. <<>> \in Seq(Nat)
    OBVIOUS
  <1> QED
    BY <1>1 DEF NewSlot, FreeSlot, SlotRec, SlotOK

LEMMA NewInv ==
  ASSUME IInv, sockbuf_new
  PROVE  IInv'
  <1>1. PICK x \in Slots : FirstAvail(x) /\ slot' = [slot EXCEPT ![x] = NewSlot]
    BY DEF sockbuf_new
  <1>2. UNCHANGED <<poll, ndeleted, deleting, phase, cur, ksock, wire, sent>>
    BY DEF sockbuf_new, loopVars, kernel
  <1>3. /\ StateTable /\ Counted /\ CurInv
        /\ slot[x].flag = "avail" /\ slot[x].sock = None
    BY <1>1, SlotTypes DEF IInv, FirstAvail, SlotOK
  <1>4. NewSlot.sock = None /\ NewSlot.flag = "valid"
    BY DEF NewSlot, FreeSlot
  <1>5. Agrees(poll, slot')
    <2>1. OnlyAt(x, slot, slot') /\ slot'[x] = NewSlot
      BY <1>1, <1>3, NewSlotOK, Updated DEF StateTable, Table, TableTypes
    <2> QED
      BY <1>3, <1>4, <2>1, AgreesSame DEF StateTable, Table, TableTypes
  <1>6. StateTable'
    <2>1. /\ Table(slot, poll, ksock, wire, sent) /\ poll \in Seq(Entry)
          /\ wire \in [Socks -> Seq(Nat)] /\ sent \in [Socks -> Nat]
      BY <1>3 DEF StateTable, Table, TableTypes
    <2>2. Table([slot EXCEPT ![x] = NewSlot], poll, ksock, wire, sent)
      BY <1>1, <1>3, <1>4, <1>5, <2>1, NewSlotOK, TableSlot
    <2> QED
      BY <1>1, <1>2, <2>2 DEF StateTable
  <1>7. Counted'
    BY <1>1, <1>2, <1>3, <1>4, CountedUpdate
  <1>8. CurInv'
    BY <1>2, <1>3, CurUntouched DEF sockbuf_new, ClientRuns
  <1> QED
    BY <1>6, <1>7, <1>8 DEF IInv

LEMMA ConnectInv ==
  ASSUME IInv, NEW x \in Slots, NEW s \in Socks, Connect(x, s)
  PROVE  IInv'
  <1>1. PICK server \in BOOLEAN :
          /\ SetSock(x, s, ~ server, server)
          /\ ksock' = [ksock EXCEPT ![s] = IF server THEN "listen" ELSE "connecting"]
    BY DEF Connect
  <1>2. /\ UNCHANGED <<ndeleted, deleting, phase, cur, wire, sent>>
        /\ StateTable /\ Counted /\ CurInv /\ Fresh(x) /\ ksock[s] = "unused"
    BY DEF Connect, loopVars, IInv
  <1> DEFINE r == [slot[x] EXCEPT !.sock = s, !.connecting = ~ server, !.server = server,
                                  !.block = FALSE]
             wants == ~ server
  <1>3. /\ slot[x] \in SlotRec /\ slot[x].sock = None /\ slot[x].flag = "valid"
        /\ slot[x].data = <<>>
    BY <1>2, SlotTypes DEF Fresh, Valid, SlotOK
  <1>4. /\ r \in SlotRec /\ r.sock = s /\ r.flag = "valid" /\ r.data = <<>> /\ r.block = FALSE
        /\ r.connecting = wants
    BY <1>3 DEF SlotRec
  <1>5. PICK g \in Garbage : poll' = Append(poll, PollEntry(x, s, wants, g))
    BY <1>1 DEF SetSock
  <1>6. slot' = [slot EXCEPT ![x] = r]
    BY <1>1, <1>2 DEF SetSock, StateTable, Table, TableTypes
  <1>7. wants \in BOOLEAN
    OBVIOUS
  <1> HIDE DEF r, wants
  <1>8. SlotOK(r) /\ (wants <=> Pending(r))
    BY <1>4, <1>7 DEF SlotOK, Pending
  <1>9. /\ \A y \in Slots : slot[y].sock # s
        /\ wire[s] = Bytes(0, sent[s])
    <2>1. sent[s] = 0 /\ wire[s] = <<>> /\ \A y \in Slots : slot[y].sock # None => slot[y].sock # s
      BY <1>2 DEF StateTable, Table, Held
    <2>2. Bytes(0, 0) = <<>>
      BY BytesProperties, EmptySeq
    <2> QED
      BY <2>1, <2>2, NoneAssumption
  <1>10. /\ ksock' \in [Socks -> KStates] /\ ksock'[s] # "unused"
         /\ \A t \in Socks : t # s => ksock'[t] = ksock[t]
    BY <1>1, <1>2 DEF StateTable, Table, TableTypes, KStates
  <1>11. StateTable'
    <2>1. Table(slot, poll, ksock, wire, sent)
      BY <1>2 DEF StateTable
    <2>2. Table([slot EXCEPT ![x] = r], Append(poll, PollEntry(x, s, wants, g)), ksock', wire, sent)
      <3>1. \A t \in Socks : t # s => (ksock'[t] = "unused" <=> ksock[t] = "unused")
        BY <1>10
      <3> QED
        BY <1>3, <1>4, <1>7, <1>8, <1>9, <1>10, <2>1, <3>1, TableAttach
    <2> QED
      BY <1>2, <1>5, <1>6, <2>2 DEF StateTable
  <1>12. Counted'
    BY <1>2, <1>3, <1>4, <1>6, CountedUpdate
  <1>13. CurInv'
    BY <1>2, CurUntouched DEF Connect, ClientRuns
  <1> QED
    BY <1>11, <1>12, <1>13 DEF IInv

LEMMA MoveInv ==
  ASSUME IInv, NEW from \in Slots, NEW to \in Slots, MoveSock(from, to)
  PROVE  IInv'
  <1> DEFINE s == slot[from].sock
             r1 == [slot[from] EXCEPT !.sock = None, !.block = FALSE]
             r2 == [slot[to] EXCEPT !.sock = s, !.connecting = FALSE, !.block = FALSE]
             sl == [slot EXCEPT ![from] = r1]
  <1>1. /\ UNCHANGED <<ndeleted, deleting, phase, cur, ksock, wire, sent>>
        /\ StateTable /\ Counted /\ CurInv /\ Fresh(to) /\ Valid(from) /\ from # to
        /\ s # None /\ slot[from].data = <<>>
    BY DEF MoveSock, loopVars, kernel, IInv
  <1>2. /\ slot[from] \in SlotRec /\ slot[to] \in SlotRec /\ s \in Socks
        /\ slot[to].sock = None /\ slot[to].flag = "valid" /\ slot[to].data = <<>>
        /\ slot[from].flag = "valid"
    BY <1>1, SlotTypes DEF Fresh, Valid, SlotOK
  <1>3. PICK g \in Garbage : poll' = Append(Without(poll, from), PollEntry(to, s, FALSE, g))
    BY DEF MoveSock
  <1>4. r1 \in SlotRec /\ r1.sock = None /\ r1.flag = "valid" /\ r1.block = FALSE
    BY <1>2 DEF SlotRec
  <1>5. /\ r2 \in SlotRec /\ r2.sock = s /\ r2.flag = "valid" /\ r2.data = <<>>
        /\ r2.connecting = FALSE
    BY <1>2 DEF SlotRec
  <1>6. slot' = [sl EXCEPT ![to] = r2]
    BY <1>1 DEF MoveSock, StateTable, Table, TableTypes
  <1>7. Table(slot, poll, ksock, wire, sent) /\ SameUsed(ksock, ksock)
    BY <1>1 DEF StateTable, Table, TableTypes, SameUsed
  <1>8. \A y \in Slots : IF y = from THEN sl[y] = r1 ELSE sl[y] = slot[y]
    BY <1>7 DEF Table, TableTypes
  <1>9. sl \in [Slots -> SlotRec]
    BY <1>4, <1>7 DEF Table, TableTypes
  <1>10. /\ \A y \in Slots : sl[y].sock # s
         /\ wire[s] = Bytes(0, sent[s]) /\ ksock[s] # "unused" /\ ksock \in [Socks -> KStates]
    <2>1. \A y \in Slots : y # from => slot[y].sock # s
      BY <1>1, <1>7 DEF Table, Held
    <2>2. wire[s] \o slot[from].data = Bytes(0, sent[s]) /\ wire[s] \in Seq(Nat)
      BY <1>1, <1>2, <1>7 DEF Table, TableTypes, Streams, StreamIs
    <2>3. wire[s] \o <<>> = wire[s]
      BY <2>2, ConcatEmptySeq
    <2>4. ksock[s] # "unused" /\ ksock \in [Socks -> KStates]
      BY <1>1, <1>7 DEF Table, TableTypes, Held
    <2> HIDE DEF sl, s
    <2>5. \A y \in Slots : sl[y].sock # s
      BY <1>1, <1>4, <1>8, <2>1
    <2> QED
      BY <1>1, <2>2, <2>3, <2>4, <2>5
  <1>11. sl[to].sock = None
    BY <1>1, <1>2, <1>8
  <1> HIDE DEF r1, r2, s
  <1>12. SlotOK(r1) /\ SlotOK(r2) /\ ~ Pending(r2)
    BY <1>4, <1>5 DEF SlotOK, Pending
  <1>13. Table(sl, Without(poll, from), ksock, wire, sent)
    BY <1>4, <1>7, <1>12, TableDetach
  <1>14. Table([sl EXCEPT ![to] = r2], Append(Without(poll, from), PollEntry(to, s, FALSE, g)),
               ksock, wire, sent)
    <2> HIDE DEF sl
    <2> QED
      BY <1>2, <1>5, <1>10, <1>11, <1>12, <1>13, TableAttach
  <1>15. StateTable'
    BY <1>1, <1>3, <1>6, <1>14 DEF StateTable
  <1>16. Counted'
    <2>1. \A y \in Slots : /\ slot'[y].flag = slot[y].flag
                           /\ slot[y].flag = "deleted" => slot'[y].sock = slot[y].sock
      BY <1>2, <1>4, <1>5, <1>6, <1>8, <1>9
    <2> QED
      BY <1>1, <2>1, CountedSame
  <1>17. CurInv'
    BY <1>1, CurUntouched DEF MoveSock, ClientRuns
  <1> QED
    BY <1>15, <1>16, <1>17 DEF IInv

LEMMA CloseInv ==
  ASSUME IInv, NEW x \in Slots, sockbuf_close(x)
  PROVE  IInv'
  <1>1. CloseNow(x) /\ UNCHANGED <<ndeleted, deleting, phase, cur, wire, sent>>
    BY DEF sockbuf_close, loopVars
  <1>2. CurInv'
    BY <1>1, CurUntouched DEF sockbuf_close, ClientRuns, IInv
  <1> QED
    BY <1>1, <1>2, CloseNowTable DEF IInv

\* sockbuf_delete makes the slot invalid, with its socket and its poll entry.
LEMMA DeleteInv ==
  ASSUME IInv, NEW x \in Slots, sockbuf_delete(x)
  PROVE  IInv'
  <1> DEFINE r == [slot[x] EXCEPT !.flag = "deleted"]
  <1>1. /\ slot' = [slot EXCEPT ![x] = r] /\ deleting' = Append(deleting, x)
        /\ UNCHANGED <<poll, ksock, ndeleted, phase, cur, wire, sent>> /\ slot[x].flag = "valid"
        /\ phase \in {"idle", "handler"}
    <2>1. slot \in [Slots -> SlotRec]
      BY DEF IInv, StateTable, Table, TableTypes
    <2> QED
      BY <2>1 DEF sockbuf_delete, loopVars, kernel, Valid, ClientRuns
  <1>2. /\ slot[x] \in SlotRec /\ SlotOK(slot[x]) /\ StateTable /\ Counted /\ CurInv
    BY SlotTypes DEF IInv
  <1>3. /\ r \in SlotRec /\ r.flag = "deleted" /\ r.sock = slot[x].sock /\ r.data = slot[x].data
        /\ r.connecting = slot[x].connecting /\ r.block = slot[x].block
    BY <1>2 DEF SlotRec
  <1> HIDE DEF r
  <1>4. SlotOK(r) /\ (Pending(slot[x]) <=> Pending(r))
    BY <1>2, <1>3 DEF SlotOK, Pending
  <1>5. slot'[x] = r /\ OnlyAt(x, slot, slot')
    BY <1>1, <1>2, <1>3, Updated DEF StateTable, Table, TableTypes
  <1>6. StateTable'
    <2>1. poll \in Seq(Entry) /\ Agrees(poll, slot) /\ Table(slot, poll, ksock, wire, sent)
      BY <1>2 DEF StateTable, Table, TableTypes
    <2>2. Agrees(poll, slot')
      BY <1>3, <1>4, <1>5, <2>1, AgreesSame
    <2>3. Table([slot EXCEPT ![x] = r], poll, ksock, wire, sent)
      BY <1>1, <1>3, <1>4, <2>1, <2>2, TableSlot
    <2> QED
      BY <1>1, <2>3 DEF StateTable
  <1>7. Counted'
    <2>1. /\ \A y \in Slots : y # x => slot'[y] = slot[y]
          /\ slot'[x].flag = "deleted"
      BY <1>3, <1>5 DEF OnlyAt
    <2>2. /\ deleting \in Seq(Slots) /\ Len(deleting) \in Nat /\ DOMAIN deleting = 1 .. Len(deleting)
          /\ deleting' \in Seq(Slots) /\ Len(deleting') = Len(deleting) + 1
          /\ DOMAIN deleting' = 1 .. Len(deleting) + 1
          /\ \A d \in 1 .. Len(deleting) : deleting'[d] = deleting[d] /\ deleting[d] \in Slots
          /\ deleting'[Len(deleting) + 1] = x
      BY <1>1, <1>2 DEF Counted
    <2>3. \A d \in 1 .. Len(deleting) : slot[deleting[d]].flag = "deleted" /\ deleting[d] # x
      BY <1>1, <1>2, <2>2 DEF Counted
    <2>4. \A c, d \in DOMAIN deleting' : deleting'[c] = deleting'[d] => c = d
      BY <1>2, <2>2, <2>3 DEF Counted
    <2>5. \A d \in DOMAIN deleting' : slot'[deleting'[d]].flag = "deleted"
      BY <2>1, <2>2, <2>3
    <2>6. ASSUME NEW y \in Slots, slot'[y].flag = "deleted", slot'[y].sock # None
          PROVE  \E d \in DOMAIN deleting' : deleting'[d] = y
      <3>1. CASE y = x
        BY <2>2, <3>1
      <3>2. CASE y # x
        <4>1. PICK d \in DOMAIN deleting : deleting[d] = y
          BY <1>2, <2>1, <2>6, <3>2 DEF Counted
        <4> QED
          BY <2>2, <4>1
      <3> QED
        BY <3>1, <3>2
    <2>7. Deleted(slot') = Deleted(slot) \cup {x} /\ x \notin Deleted(slot)
      BY <1>1, <2>1 DEF Deleted
    <2>8. IsFiniteSet(Deleted(slot))
      <3>1. IsFiniteSet(Slots)
        BY BoundsAssumption, FS_Interval DEF Slots
      <3> QED
        BY <3>1, FS_Subset DEF Deleted
    <2>9. Cardinality(Deleted(slot')) = Cardinality(Deleted(slot)) + 1
      BY <2>7, <2>8, FS_AddElement
    <2>10. ndeleted' \in Nat /\ ndeleted' + Len(deleting') = Cardinality(Deleted(slot'))
      BY <1>1, <1>2, <2>2, <2>9 DEF Counted
    <2> QED
      BY <2>2, <2>4, <2>5, <2>6, <2>10 DEF Counted
  <1>8. CurInv'
    BY <1>1, <1>2 DEF CurInv
  <1> QED
    BY <1>6, <1>7, <1>8 DEF IInv

\* The innermost deletion under way ends: the slot is counted.
LEMMA DeleteEndsInv ==
  ASSUME IInv, NEW x \in Slots, DeleteEnds(x)
  PROVE  IInv'
  <1> DEFINE r == [FreeSlot EXCEPT !.flag = "deleted"]
             m == Len(deleting)
  <1>1. /\ slot' = [slot EXCEPT ![x] = r] /\ poll' = Without(poll, x)
        /\ ksock' = ClosedKernel(slot[x].sock) /\ ndeleted' = ndeleted + 1
        /\ UNCHANGED <<phase, cur, wire, sent>>
        /\ deleting # <<>> /\ x = Last(deleting) /\ deleting' = Front(deleting)
    BY DEF DeleteEnds, loopVars
  <1>2. r \in SlotRec /\ r.sock = None /\ r.flag = "deleted"
    BY NewSlotOK DEF SlotRec, FreeSlot
  <1> HIDE DEF r
  <1>3. SlotOK(r)
    BY <1>2 DEF SlotOK
  <1>4. StateTable'
    <2>1. Table(slot, poll, ksock, wire, sent) /\ SameUsed(ksock, ClosedKernel(slot[x].sock))
      BY ClosedUsed DEF IInv, StateTable
    <2>2. Table([slot EXCEPT ![x] = r], Without(poll, x), ClosedKernel(slot[x].sock), wire, sent)
      BY <1>2, <1>3, <2>1, TableDetach
    <2> QED
      BY <1>1, <2>2 DEF StateTable
  <1>5. Counted'
    <2>1. \A y \in Slots : slot'[y] = IF y = x THEN r ELSE slot[y]
      BY <1>1 DEF IInv, StateTable, Table, TableTypes
    <2>2. Counted /\ deleting \in Seq(Slots) /\ m \in Nat /\ DOMAIN deleting = 1 .. m
      BY DEF IInv, Counted
    <2>3. m >= 1 /\ deleting[m] = x
      <3>1. m # 0
        BY <1>1, <2>2, EmptySeq
      <3> QED
        BY <1>1, <2>2, <3>1 DEF Last
    <2>4. deleting' = [d \in 1 .. m - 1 |-> deleting[d]]
      <3>1. deleting' = SubSeq(deleting, 1, m - 1)
        BY <1>1 DEF Front
      <3> QED
        BY <2>2, <2>3, <3>1
    <2> HIDE DEF m
    <2>5. /\ deleting' \in Seq(Slots) /\ Len(deleting') = m - 1 /\ DOMAIN deleting' = 1 .. m - 1
          /\ \A d \in 1 .. m - 1 : deleting'[d] = deleting[d] /\ deleting[d] \in Slots /\ deleting[d] # x
      <3>1. \A d \in 1 .. m - 1 : d \in 1 .. m /\ d # m
        BY <2>2
      <3>2. \A d \in 1 .. m - 1 : deleting[d] \in Slots /\ deleting[d] # x
        BY <2>2, <2>3, <3>1 DEF Counted
      <3>3. deleting' \in [1 .. m - 1 -> Slots] /\ m - 1 \in Nat
        BY <2>2, <2>3, <2>4, <3>2
      <3> QED
        BY <2>4, <3>2, <3>3
    <2>6. slot[x].flag = "deleted"
      BY <2>2, <2>3 DEF Counted
    <2>7. \A c, d \in DOMAIN deleting' : deleting'[c] = deleting'[d] => c = d
      BY <2>2, <2>5 DEF Counted
    <2>8. \A d \in DOMAIN deleting' : slot'[deleting'[d]].flag = "deleted"
      BY <2>1, <2>2, <2>5 DEF Counted
    <2>9. ASSUME NEW y \in Slots, slot'[y].flag = "deleted", slot'[y].sock # None
          PROVE  \E d \in DOMAIN deleting' : deleting'[d] = y
      <3>1. y # x /\ slot'[y] = slot[y]
        BY <1>2, <2>1, <2>9
      <3>2. PICK d \in 1 .. m : deleting[d] = y
        BY <2>2, <2>9, <3>1 DEF Counted
      <3>3. d # m
        BY <2>3, <3>1, <3>2
      <3> QED
        BY <2>2, <2>5, <3>2, <3>3
    <2>10. Deleted(slot') = Deleted(slot)
      BY <1>2, <2>1, <2>6 DEF Deleted
    <2>11. ndeleted' \in Nat /\ ndeleted' + Len(deleting') = Cardinality(Deleted(slot'))
      <3>1. ndeleted \in Nat /\ ndeleted + m = Cardinality(Deleted(slot))
        BY <2>2 DEF Counted, m
      <3> QED
        BY <1>1, <2>2, <2>5, <2>10, <3>1
    <2> QED
      BY <2>5, <2>7, <2>8, <2>9, <2>11 DEF Counted
  <1>6. CurInv'
    <2>1. CurInv /\ phase \notin {"pass", "entry"}
      BY <1>1 DEF IInv, CurInv
    <2> QED
      BY <1>1, <2>1 DEF CurInv
  <1> QED
    BY <1>4, <1>5, <1>6 DEF IInv

\* sockbuf_real_write: what the kernel does not take is kept and POLLOUT asked
\* for.  Slot b becomes r when k of the bytes in t are taken.
Written(b, t, k, r) ==
  r = [b EXCEPT !.data = @ \o SubSeq(t, k + 1, Len(t)), !.block = @ \/ k < Len(t)]

LEMMA WriteSlot ==
  ASSUME NEW b \in SlotRec, SlotOK(b), b.flag = "valid", b.sock # None,
         NEW t \in Seq(Nat), Len(t) >= 1, NEW k \in 0 .. Len(t), b.block => k = 0,
         NEW r, Written(b, t, k, r)
  PROVE  /\ r \in SlotRec /\ SlotOK(r) /\ r.flag = "valid" /\ r.sock = b.sock
         /\ r.block \in BOOLEAN /\ (r.block <=> b.block \/ k < Len(t))
         /\ r.block => Pending(r)
         /\ ~ r.block => (Pending(r) <=> Pending(b))
         /\ r.data = b.data \o SubSeq(t, k + 1, Len(t))
         /\ b.data = <<>> \/ k = 0
  <1> DEFINE d == b.data
             c == b.connecting
             rest == SubSeq(t, k + 1, Len(t))
             o == d \o rest
             full == b.block \/ k < Len(t)
  <1>1. d \in Seq(Nat) /\ b.block \in BOOLEAN /\ (d # <<>> => b.block) /\ c \in BOOLEAN
    BY DEF SlotRec, SlotOK
  <1>2. d = <<>> \/ k = 0
    BY <1>1
  <1>3. rest \in Seq(Nat) /\ Len(rest) = Len(t) - k /\ Len(t) \in Nat
    OBVIOUS
  <1>4. r = [b EXCEPT !.data = o, !.block = full] /\ full \in BOOLEAN
    BY <1>1 DEF Written
  <1> HIDE DEF rest
  <1>5. o \in Seq(Nat) /\ Len(o) = Len(d) + Len(rest) /\ Len(d) \in Nat
    <2> HIDE DEF d
    <2> QED
      BY <1>1, <1>3, BytesConcat
  <1> HIDE DEF o
  <1>6. full <=> o # <<>>
    <2>1. CASE full
      <3>1. Len(rest) >= 1
        BY <1>3, <2>1
      <3>2. Len(o) >= 1
        BY <1>5, <3>1
      <3> QED
        BY <1>5, <2>1, <3>2, EmptySeq
    <2>2. CASE ~ full
      <3>1. d = <<>> /\ Len(rest) = 0
        BY <1>1, <1>3, <2>2
      <3>2. Len(o) = 0
        BY <1>5, <3>1
      <3> QED
        BY <1>5, <2>2, <3>2, EmptySeq
    <2> QED
      BY <2>1, <2>2
  <1>7. ~ full => (c \/ d # <<>> <=> c \/ o # <<>>)
    BY <1>1, <1>6
  <1> HIDE DEF full
  <1>8. /\ r \in SlotRec /\ r.sock = b.sock /\ r.flag = "valid" /\ r.data = o
        /\ r.block = full /\ r.connecting = c
    BY <1>4, <1>5 DEF SlotRec
  <1>9. SlotOK(r)
    BY <1>6, <1>8 DEF SlotOK
  <1>10. ~ full => (Pending(r) <=> Pending(b))
    BY <1>7, <1>8 DEF Pending
  <1>11. full => Pending(r)
    BY <1>6, <1>8 DEF Pending
  <1>12. r.block \in BOOLEAN /\ (r.block <=> b.block \/ k < Len(t))
    BY <1>4, <1>8 DEF full
  <1> QED
    BY <1>2, <1>4, <1>8, <1>9, <1>10, <1>11, <1>12 DEF o, rest

\* A slot is changed, what poll is asked with it, and the stream of its socket.
LEMMA TableStream ==
  ASSUME NEW sl, NEW p, NEW ks, NEW w, NEW se, Table(sl, p, ks, w, se),
         NEW x \in Slots, NEW r \in SlotRec, SlotOK(r), NEW s \in Socks, s # None,
         sl[x].sock = s, r.sock = s, r.flag = "valid",
         NEW ask \in BOOLEAN, NEW wants \in BOOLEAN, ask => (wants <=> Pending(r)),
         ~ ask => (Pending(r) <=> Pending(sl[x])),
         NEW u \in Seq(Nat), NEW count \in Nat,
         StreamIs([w EXCEPT ![s] = u], [se EXCEPT ![s] = count], s, r.data)
  PROVE  Table([sl EXCEPT ![x] = r], IF ask THEN WithOut(p, x, wants) ELSE p, ks,
               [w EXCEPT ![s] = u], [se EXCEPT ![s] = count])
  <1> DEFINE sm == [sl EXCEPT ![x] = r]
             q == IF ask THEN WithOut(p, x, wants) ELSE p
             v == [w EXCEPT ![s] = u]
             te == [se EXCEPT ![s] = count]
  <1>1. /\ sl \in [Slots -> SlotRec] /\ p \in Seq(Entry) /\ Agrees(p, sl)
        /\ w \in [Socks -> Seq(Nat)] /\ se \in [Socks -> Nat]
    BY DEF Table, TableTypes
  <1>2. sm \in [Slots -> SlotRec] /\ sm[x] = r /\ OnlyAt(x, sl, sm)
    BY <1>1, Updated
  <1>3. v \in [Socks -> Seq(Nat)] /\ te \in [Socks -> Nat] /\ StreamIs(v, te, s, r.data)
    BY <1>1
  <1>4. OtherStreams(s, w, se, v, te)
    BY <1>1 DEF OtherStreams
  <1> HIDE DEF sm, v, te
  <1>5. Agrees(q, sm) /\ q \in Seq(Entry)
    <2>1. CASE ask
      BY <1>1, <1>2, <2>1, AgreesOut
    <2>2. CASE ~ ask
      BY <1>1, <1>2, <2>2, AgreesSame
    <2> QED
      BY <2>1, <2>2
  <1> HIDE DEF q
  <1>6. /\ SlotOK(sm[x]) /\ sm[x].sock = sl[x].sock /\ OtherStreams(sl[x].sock, w, se, v, te)
        /\ StreamIs(v, te, sl[x].sock, sm[x].data)
    BY <1>2, <1>3, <1>4
  <1>7. Table(sm, q, ks, v, te)
    BY <1>2, <1>3, <1>5, <1>6, TableSame
  <1> QED
    BY <1>7 DEF sm, q, v, te

\* The two halves of a write: what goes to the kernel and what is kept.
Took(w, t, k) == w \o SubSeq(t, 1, k)
Kept(d, t, k, len) == d \o SubSeq(t, k + 1, len)
Joined(w, d, count) == w \o d = Bytes(0, count)
Idle(d, k) == d = <<>> \/ k = 0

LEMMA WriteJoined ==
  ASSUME NEW w \in Seq(Nat), NEW d \in Seq(Nat), NEW count \in Nat, NEW len \in Nat,
         NEW k \in 0 .. len, Joined(w, d, count), Idle(d, k)
  PROVE  Joined(Took(w, Bytes(count, len), k), Kept(d, Bytes(count, len), k, len), count + len)
  BY WriteStream DEF Joined, Took, Kept, Idle

LEMMA RealWriteTable ==
  ASSUME StateTable, Counted, NEW x \in Slots, NEW len \in 1 .. MaxWrite,
         Valid(x), slot[x].sock # None, RealWrite(x, len),
         sent' = [sent EXCEPT ![slot[x].sock] = @ + len],
         UNCHANGED <<ndeleted, deleting>>
  PROVE  StateTable' /\ Counted'
  <1> DEFINE s == slot[x].sock
             t == Bytes(sent[s], len)
  <1>1. /\ slot[x] \in SlotRec /\ SlotOK(slot[x]) /\ s \in Socks /\ s # None
        /\ slot[x].block \in BOOLEAN /\ slot[x].flag = "valid" /\ slot[x].data \in Seq(Nat)
    BY SlotTypes DEF Valid
  <1>2. /\ Table(slot, poll, ksock, wire, sent) /\ slot \in [Slots -> SlotRec]
        /\ wire \in [Socks -> Seq(Nat)] /\ sent \in [Socks -> Nat]
        /\ wire[s] \o slot[x].data = Bytes(0, sent[s])
    BY DEF StateTable, Table, TableTypes, Streams, StreamIs
  <1>3. wire[s] \in Seq(Nat) /\ sent[s] \in Nat /\ len \in Nat /\ len >= 1 /\ sent[s] + len \in Nat
    BY <1>1, <1>2
  <1>4. t \in Seq(Nat) /\ Len(t) = len
    <2> HIDE DEF s
    <2> QED
      BY <1>3, BytesProperties
  <1>5. PICK k \in 0 .. len :
          LET rest == SubSeq(t, k + 1, len)
              full == slot[x].block \/ k < len
          IN  /\ slot[x].block => k = 0
              /\ wire' = [wire EXCEPT ![s] = @ \o SubSeq(t, 1, k)]
              /\ slot' = [slot EXCEPT ![x].data = @ \o rest, ![x].block = full]
              /\ poll' = IF full THEN WithOut(poll, x, TRUE) ELSE poll
              /\ UNCHANGED ksock
    <2>1. \A k \in IF slot[x].block THEN {0} ELSE Taken(s, len) :
             k \in 0 .. len /\ (slot[x].block => k = 0)
      BY <1>1, <1>3 DEF Taken
    <2> HIDE DEF t
    <2> QED
      BY <2>1 DEF RealWrite, t
  <1>6. Len(t) >= 1 /\ k \in 0 .. Len(t) /\ (slot[x].block => k = 0)
    BY <1>3, <1>4, <1>5
  <1> DEFINE full == slot[x].block \/ k < len
             r == [slot[x] EXCEPT !.data = @ \o SubSeq(t, k + 1, len), !.block = full]
             u == wire[s] \o SubSeq(t, 1, k)
             count == sent[s] + len
  <1>7. /\ wire' = [wire EXCEPT ![s] = u] /\ slot' = [slot EXCEPT ![x] = r]
        /\ poll' = IF full THEN WithOut(poll, x, TRUE) ELSE poll
        /\ ksock' = ksock /\ sent' = [sent EXCEPT ![s] = count]
    BY <1>1, <1>2, <1>5
  <1>8. Written(slot[x], t, k, r)
    BY <1>4 DEF Written
  <1> HIDE DEF t, r
  <1>9. /\ r \in SlotRec /\ SlotOK(r) /\ r.flag = "valid" /\ r.sock = s
        /\ r.block \in BOOLEAN /\ (r.block <=> slot[x].block \/ k < Len(t))
        /\ r.block => Pending(r)
        /\ ~ r.block => (Pending(r) <=> Pending(slot[x]))
        /\ r.data = slot[x].data \o SubSeq(t, k + 1, Len(t))
        /\ slot[x].data = <<>> \/ k = 0
    BY <1>1, <1>4, <1>6, <1>8, WriteSlot
  <1>10. poll' = IF r.block THEN WithOut(poll, x, TRUE) ELSE poll
    BY <1>4, <1>7, <1>9
  <1> HIDE DEF full
  <1>11. u \in Seq(Nat) /\ u \o r.data = Bytes(0, count)
    <2> HIDE DEF s
    <2>1. SubSeq(t, 1, k) \in Seq(Nat)
      BY <1>4, <1>6
    <2>2. u \in Seq(Nat)
      BY <1>3, <2>1, BytesConcat
    <2>3. u \o r.data = Bytes(0, count)
      <3>1. Joined(wire[s], slot[x].data, sent[s]) /\ Idle(slot[x].data, k)
        BY <1>2, <1>9 DEF Joined, Idle
      <3>2. Joined(Took(wire[s], Bytes(sent[s], len), k),
                   Kept(slot[x].data, Bytes(sent[s], len), k, len), sent[s] + len)
        BY <1>1, <1>3, <3>1, WriteJoined
      <3>3. u = Took(wire[s], Bytes(sent[s], len), k)
        BY DEF Took, t
      <3>4. r.data = Kept(slot[x].data, Bytes(sent[s], len), k, len)
        BY <1>4, <1>9 DEF Kept, t
      <3> HIDE DEF u
      <3> QED
        BY <3>2, <3>3, <3>4 DEF Joined
    <2> QED
      BY <1>4, <1>9, <2>2, <2>3
  <1> HIDE DEF u, count
  <1>12. StateTable'
    <2>1. Table([slot EXCEPT ![x] = r], IF r.block THEN WithOut(poll, x, TRUE) ELSE poll, ksock,
                [wire EXCEPT ![s] = u], [sent EXCEPT ![s] = count])
      <3>1. /\ slot[x].sock = s /\ TRUE \in BOOLEAN /\ (r.block => (TRUE <=> Pending(r)))
            /\ count \in Nat
        BY <1>3, <1>9 DEF count
      <3> HIDE DEF s
      <3>2. StreamIs([wire EXCEPT ![s] = u], [sent EXCEPT ![s] = count], s, r.data)
        BY <1>1, <1>2, <1>11 DEF StreamIs
      <3> QED
        BY <1>1, <1>2, <1>9, <1>11, <3>1, <3>2, TableStream
    <2> QED
      BY <1>7, <1>10, <2>1 DEF StateTable
  <1>13. Counted'
    BY <1>1, <1>7, <1>9, CountedUpdate
  <1> QED
    BY <1>12, <1>13

LEMMA WriteInv ==
  ASSUME IInv, NEW x \in Slots, NEW len \in 1 .. MaxWrite, sockbuf_write(x, len)
  PROVE  IInv'
  <1>1. /\ UNCHANGED <<ndeleted, deleting, phase, cur>> /\ Valid(x) /\ slot[x].sock # None
        /\ \/ CloseNow(x) /\ UNCHANGED <<wire, sent>>
           \/ RealWrite(x, len) /\ sent' = [sent EXCEPT ![slot[x].sock] = @ + len]
    BY DEF sockbuf_write, loopVars
  <1>2. CurInv'
    BY <1>1, CurUntouched DEF sockbuf_write, ClientRuns, IInv
  <1> QED
    BY <1>1, <1>2, CloseNowTable, RealWriteTable DEF IInv

-----------------------------------------------------------------------------
(* The event pass                                                          *)

\* poll only fills in what it reports.
LEMMA AgreesEvents ==
  ASSUME NEW p \in Seq(Entry), NEW q, NEW sl, Agrees(p, sl), DOMAIN q = DOMAIN p,
         \A k \in DOMAIN p : q[k].idx = p[k].idx /\ q[k].sock = p[k].sock /\ q[k].out = p[k].out
  PROVE  Agrees(q, sl)
  <1>1. \A k \in DOMAIN p : p[k].idx \in Slots
    BY EntryTypes
  <1>2. ASSUME NEW k \in DOMAIN q
        PROVE  /\ sl[q[k].idx].flag # "avail" /\ sl[q[k].idx].sock = q[k].sock
               /\ q[k].out <=> Pending(sl[q[k].idx])
    BY DEF Agrees
  <1>3. \A j, k \in DOMAIN q : q[j].idx = q[k].idx => j = k
    BY DEF Agrees
  <1>4. \A x \in Slots : sl[x].sock # None => \E k \in DOMAIN q : q[k].idx = x
    BY DEF Agrees
  <1> QED
    BY <1>2, <1>3, <1>4 DEF Agrees

\* The poll array after poll: revents is what it reports or what was there.
PolledAs(p, q) ==
  /\ DOMAIN q = DOMAIN p /\ q = [k \in DOMAIN p |-> q[k]]
  /\ \A k \in DOMAIN p : \E ev \in SUBSET Events, b \in BOOLEAN :
       q[k] = [p[k] EXCEPT !.revents = ev, !.polled = b]

LEMMA TableEvents ==
  ASSUME NEW sl, NEW p, NEW q, NEW ks, NEW w, NEW se, Table(sl, p, ks, w, se), PolledAs(p, q)
  PROVE  Table(sl, q, ks, w, se)
  <1>1. p \in Seq(Entry) /\ Agrees(p, sl)
    BY DEF Table, TableTypes
  <1>2. /\ DOMAIN q = DOMAIN p /\ Len(p) \in Nat /\ DOMAIN p = 1 .. Len(p)
        /\ q = [k \in 1 .. Len(p) |-> q[k]]
    <2>1. Len(p) \in Nat /\ DOMAIN p = 1 .. Len(p)
      BY <1>1
    <2>2. DOMAIN q = DOMAIN p /\ q = [k \in DOMAIN p |-> q[k]]
      BY DEF PolledAs
    <2> QED
      BY <2>1, <2>2
  <1>3. ASSUME NEW k \in DOMAIN p
        PROVE  q[k] \in Entry /\ q[k].idx = p[k].idx /\ q[k].sock = p[k].sock /\ q[k].out = p[k].out
    <2>1. PICK ev \in SUBSET Events, b \in BOOLEAN : q[k] = [p[k] EXCEPT !.revents = ev, !.polled = b]
      BY DEF PolledAs
    <2>2. p[k] \in Entry
      BY <1>1, EntryTypes
    <2> QED
      BY <2>1, <2>2 DEF Entry
  <1>4. q \in Seq(Entry)
    <2>1. q \in [1 .. Len(p) -> Entry]
      BY <1>2, <1>3
    <2> QED
      BY <1>2, <2>1
  <1>5. Agrees(q, sl)
    BY <1>1, <1>2, <1>3, AgreesEvents
  <1> QED
    BY <1>4, <1>5 DEF Table, TableTypes

LEMMA PollInv ==
  ASSUME IInv, Poll \/ PollInterrupted
  PROVE  IInv' /\ PolledAs(poll, poll')
  <1>1. UNCHANGED <<slot, ndeleted, deleting, ksock, wire, sent>> /\ phase' = "pass" /\ deleting = <<>>
    BY DEF Poll, PollInterrupted, kernel
  <1>2. poll \in Seq(Entry) /\ StateTable
    BY DEF IInv, StateTable, Table, TableTypes
  <1>3. PolledAs(poll, poll')
    <2>0. \A k \in DOMAIN poll : poll[k] \in Entry
      BY <1>2, EntryTypes
    <2>1. CASE Poll
      <3>1. poll' = [k \in DOMAIN poll |-> [poll[k] EXCEPT !.revents = Ready(poll[k]), !.polled = TRUE]]
        BY <2>1 DEF Poll
      <3>2. \A k \in DOMAIN poll : Ready(poll[k]) \in SUBSET Events
        BY DEF Ready
      <3> QED
        BY <3>1, <3>2 DEF PolledAs
    <2>2. CASE PollInterrupted
      <3>1. poll' = [k \in DOMAIN poll |-> [poll[k] EXCEPT !.polled = FALSE]]
        BY <2>2 DEF PollInterrupted
      <3>2. \A k \in DOMAIN poll : poll[k].revents \in SUBSET Events
        BY <2>0 DEF Entry
      <3>3. \A k \in DOMAIN poll : poll'[k] = [poll[k] EXCEPT !.revents = poll[k].revents, !.polled = FALSE]
        BY <2>0, <3>1 DEF Entry
      <3> QED
        BY <3>1, <3>2, <3>3 DEF PolledAs
    <2> QED
      BY <2>1, <2>2
  <1>4. StateTable'
    BY <1>1, <1>2, <1>3, TableEvents DEF StateTable
  <1>5. Counted' /\ CurInv'
    BY <1>1, CountedSame DEF IInv, CurInv
  <1> QED
    BY <1>3, <1>4, <1>5 DEF IInv

LEMMA ServeEntryInv ==
  ASSUME IInv, ServeEntry
  PROVE  IInv'
  <1>1. PICK k \in DOMAIN poll :
          cur' = [idx |-> poll[k].idx, sock |-> poll[k].sock,
                  revents |-> poll[k].revents, polled |-> poll[k].polled,
                  connecting |-> slot[poll[k].idx].connecting,
                  server |-> slot[poll[k].idx].server]
    BY DEF ServeEntry
  <1>2. /\ UNCHANGED <<slot, poll, ndeleted, deleting, ksock, wire, sent>> /\ phase' = "entry"
        /\ deleting = <<>>
    BY DEF ServeEntry, kernel, IInv, CurInv
  <1>3. StateTable /\ poll \in Seq(Entry) /\ slot[poll[k].idx].sock = poll[k].sock
    BY DEF IInv, StateTable, Table, TableTypes, Agrees
  <1>4. poll[k] \in Entry /\ poll[k].idx \in Slots /\ poll[k].sock \in Socks
    BY <1>3, EntryTypes
  <1>5. slot[poll[k].idx] \in SlotRec
    BY <1>3, <1>4, SlotTypes
  <1>6. cur' \in CurRec
    BY <1>1, <1>4, <1>5 DEF CurRec, Entry, SlotRec
  <1>7. cur'.idx = poll[k].idx /\ cur'.connecting = slot[poll[k].idx].connecting
    BY <1>1
  <1>8. CurInv'
    BY <1>2, <1>3, <1>4, <1>6, <1>7 DEF CurInv
  <1>9. StateTable' /\ Counted'
    BY <1>2, CountedSame DEF IInv, StateTable
  <1> QED
    BY <1>8, <1>9 DEF IInv

LEMMA GotEofInv ==
  ASSUME IInv, NEW ev, Looking(ev), GotEof
  PROVE  IInv'
  <1>1. CurInv' /\ cur.idx \in Slots
    BY CurLooks DEF IInv, CurRec, GotEof
  <1>2. CloseNow(cur.idx) /\ UNCHANGED <<ndeleted, deleting, wire, sent>>
    BY DEF GotEof
  <1>3. StateTable' /\ Counted'
    BY <1>1, <1>2, CloseNowTable DEF IInv
  <1> QED
    BY <1>1, <1>3 DEF IInv

\* POLLOUT is only looked at while the sockbuf has the socket it was polled for.
LEMMA OutLooks ==
  ASSUME IInv, Looking("out"), UNCHANGED deleting
  PROVE  /\ CurInv' /\ cur.idx \in Slots /\ Here \in SlotRec /\ SlotOK(Here)
         /\ Here.sock \in Socks /\ Here.sock # None /\ Here.flag = "valid"
         /\ cur.connecting = Here.connecting
  <1>1. CurInv' /\ cur \in CurRec /\ CurInv /\ StateTable
    BY CurLooks DEF IInv
  <1>2. cur.idx \in Slots
    BY <1>1 DEF CurRec
  <1>3. Here \in SlotRec /\ SlotOK(Here)
    BY <1>1, <1>2, SlotTypes DEF Here
  <1>4. Here.sock \in Socks /\ cur.connecting = Here.connecting
    BY <1>1 DEF Looking, CurInv, Here
  <1>5. Here.sock # None
    BY <1>4, NoneAssumption
  <1>6. Here.flag = "valid"
    <2>1. deleting = <<>> /\ Counted
      BY DEF Looking, IInv, CurInv
    <2>2. Here.flag # "deleted"
      BY <1>2, <1>5, <2>1 DEF Counted, Here
    <2> QED
      BY <1>3, <1>5, <2>2 DEF SlotOK, SlotRec
  <1> QED
    BY <1>1, <1>2, <1>3, <1>4, <1>5, <1>6

LEMMA GotWritableClientInv ==
  ASSUME IInv, GotWritableClient
  PROVE  IInv'
  <1>1. Looking("out") /\ UNCHANGED deleting
    BY DEF GotWritableClient, GotEof
  <1>2. CASE GotEof
    BY <1>1, <1>2, GotEofInv
  <1>3. CASE ~ GotEof
    <2> DEFINE b == slot[cur.idx]
               drained == b.data = <<>>
               r == [b EXCEPT !.connecting = FALSE, !.block = IF drained THEN FALSE ELSE @]
    <2>1. /\ CurInv' /\ cur.idx \in Slots /\ b \in SlotRec /\ SlotOK(b)
          /\ b.sock # None /\ b.flag = "valid"
      BY <1>1, OutLooks DEF Here
    <2>2. /\ slot' = [slot EXCEPT ![cur.idx].connecting = FALSE,
                                  ![cur.idx].block = IF drained THEN FALSE ELSE @]
          /\ poll' = IF drained THEN WithOut(poll, cur.idx, FALSE) ELSE poll
          /\ UNCHANGED <<ndeleted, deleting, ksock, wire, sent>>
      BY <1>3 DEF GotWritableClient, kernel, Here
    <2>3. Table(slot, poll, ksock, wire, sent) /\ slot \in [Slots -> SlotRec]
          /\ poll \in Seq(Entry) /\ Agrees(poll, slot) /\ Counted /\ StateTable
      BY DEF IInv, StateTable, Table, TableTypes
    <2>4. slot' = [slot EXCEPT ![cur.idx] = r]
      BY <2>1, <2>2, <2>3
    <2>5. /\ r \in SlotRec /\ r.sock = b.sock /\ r.flag = "valid" /\ r.connecting = FALSE
          /\ r.data = b.data /\ (~ drained => r.block = b.block)
      BY <2>1 DEF SlotRec
    <2> HIDE DEF r
    <2>6. SlotOK(r)
      BY <2>1, <2>5 DEF SlotOK
    <2>7. slot'[cur.idx] = r /\ OnlyAt(cur.idx, slot, slot')
      BY <2>1, <2>3, <2>4, <2>5, Updated
    <2>8. Agrees(poll', slot') /\ poll' \in Seq(Entry)
      <3>1. CASE drained
        <4>1. FALSE <=> Pending(r)
          BY <2>5, <3>1 DEF Pending
        <4> QED
          BY <2>1, <2>2, <2>3, <2>5, <2>7, <3>1, <4>1, AgreesOut
      <3>2. CASE ~ drained
        <4>1. Pending(r) <=> Pending(b)
          BY <2>5, <3>2 DEF Pending
        <4> QED
          BY <2>1, <2>2, <2>3, <2>5, <2>7, <3>2, <4>1, AgreesSame
      <3> QED
        BY <3>1, <3>2
    <2>9. StateTable'
      <3>1. Table([slot EXCEPT ![cur.idx] = r], poll', ksock, wire, sent)
        BY <2>1, <2>3, <2>4, <2>5, <2>6, <2>8, TableSlot
      <3> QED
        BY <2>2, <2>4, <3>1 DEF StateTable
    <2>10. Counted'
      BY <2>1, <2>2, <2>3, <2>4, <2>5, CountedUpdate
    <2> QED
      BY <2>1, <2>9, <2>10 DEF IInv
  <1> QED
    BY <1>2, <1>3

LEMMA RestOfStream ==
  ASSUME NEW d \in Seq(Nat), NEW k \in 0 .. Len(d)
  PROVE  /\ SubSeq(d, k + 1, Len(d)) \in Seq(Nat) /\ Len(d) \in Nat
         /\ Len(SubSeq(d, k + 1, Len(d))) = Len(d) - k
  OBVIOUS

\* Slot b after the first k bytes of its output buffer went to the kernel.
Drained(b, k, r) ==
  LET rest == SubSeq(b.data, k + 1, Len(b.data))
      done == k > 0 /\ rest = <<>>
  IN  r = [b EXCEPT !.data = rest, !.block = IF done THEN FALSE ELSE @]

Done(b, k) == k > 0 /\ SubSeq(b.data, k + 1, Len(b.data)) = <<>>

LEMMA DrainSlot ==
  ASSUME NEW b \in SlotRec, SlotOK(b), b.flag = "valid", b.sock # None, ~ b.connecting,
         NEW k \in 0 .. Len(b.data), k = 0 => b.data = <<>>, NEW r, Drained(b, k, r)
  PROVE  /\ r \in SlotRec /\ SlotOK(r) /\ r.flag = "valid" /\ r.sock = b.sock
         /\ r.data = SubSeq(b.data, k + 1, Len(b.data))
         /\ Done(b, k) => ~ Pending(r)
         /\ ~ Done(b, k) => (Pending(r) <=> Pending(b))
  <1> DEFINE d == b.data
             rest == SubSeq(d, k + 1, Len(d))
             done == k > 0 /\ rest = <<>>
  <1>1. d \in Seq(Nat) /\ b.block \in BOOLEAN /\ (d # <<>> => b.block)
    BY DEF SlotRec, SlotOK
  <1>2. rest \in Seq(Nat) /\ (d = <<>> => rest = <<>>)
    <2> HIDE DEF d
    <2>1. rest \in Seq(Nat) /\ Len(rest) = Len(d) - k /\ Len(d) \in Nat
      <3>1. k \in 0 .. Len(d) /\ d \in Seq(Nat)
        BY <1>1 DEF d
      <3> QED
        BY <3>1, RestOfStream
    <2>2. ASSUME d = <<>> PROVE rest = <<>>
      BY <2>1, <2>2, EmptySeq
    <2> QED
      BY <2>1, <2>2
  <1>3. r = [b EXCEPT !.data = rest, !.block = IF done THEN FALSE ELSE @]
    BY DEF Drained
  <1>4. Done(b, k) <=> done
    BY DEF Done
  <1>5. ~ done => (rest = <<>> <=> d = <<>>)
    BY <1>2
  <1> HIDE DEF d, rest, done
  <1>6. /\ r \in SlotRec /\ r.flag = "valid" /\ r.sock = b.sock /\ r.data = rest
        /\ r.connecting = b.connecting
        /\ ~ done => r.block = b.block
    BY <1>2, <1>3 DEF SlotRec
  <1>7. done => rest = <<>>
    BY DEF done
  <1>8. SlotOK(r)
    BY <1>1, <1>5, <1>6, <1>7 DEF SlotOK
  <1>9. /\ done => ~ Pending(r)
        /\ ~ done => (Pending(r) <=> Pending(b))
    BY <1>5, <1>6, <1>7 DEF Pending, d
  <1> QED
    BY <1>4, <1>6, <1>8, <1>9 DEF rest, d

LEMMA DrainJoined ==
  ASSUME NEW w \in Seq(Nat), NEW d \in Seq(Nat), NEW k \in 0 .. Len(d), NEW count, Joined(w, d, count)
  PROVE  /\ Took(w, d, k) \in Seq(Nat)
         /\ Joined(Took(w, d, k), SubSeq(d, k + 1, Len(d)), count)
  <1>1. SubSeq(d, 1, k) \in Seq(Nat)
    OBVIOUS
  <1>2. Took(w, d, k) \in Seq(Nat)
    BY <1>1, BytesConcat DEF Took
  <1> QED
    BY <1>2, DrainStream DEF Joined, Took

\* sockbuf_got_writable: the front of the output buffer goes to the kernel.
LEMMA DrainTable ==
  ASSUME StateTable, NEW x \in Slots, NEW s \in Socks, slot[x].sock = s, slot[x].flag = "valid",
         ~ slot[x].connecting, NEW k \in 0 .. Len(slot[x].data), k = 0 => slot[x].data = <<>>,
         NEW r, Drained(slot[x], k, r)
  PROVE  /\ r.flag = "valid"
         /\ Table([slot EXCEPT ![x] = r],
                  IF Done(slot[x], k) THEN WithOut(poll, x, FALSE) ELSE poll, ksock,
                  [wire EXCEPT ![s] = Took(wire[s], slot[x].data, k)], sent)
  <1> DEFINE d == slot[x].data
             u == Took(wire[s], slot[x].data, k)
             ask == Done(slot[x], k)
  <1>1. slot[x] \in SlotRec /\ SlotOK(slot[x]) /\ d \in Seq(Nat) /\ s # None
    BY SlotTypes, NoneAssumption
  <1>2. /\ Table(slot, poll, ksock, wire, sent) /\ wire \in [Socks -> Seq(Nat)]
        /\ sent \in [Socks -> Nat] /\ StreamIs(wire, sent, s, d)
    BY DEF StateTable, Table, TableTypes, Streams
  <1>3. wire[s] \in Seq(Nat) /\ sent[s] \in Nat /\ Joined(wire[s], d, sent[s])
    BY <1>1, <1>2 DEF StreamIs, Joined
  <1>4. /\ r \in SlotRec /\ SlotOK(r) /\ r.flag = "valid" /\ r.sock = s
        /\ r.data = SubSeq(d, k + 1, Len(d))
        /\ ask => ~ Pending(r)
        /\ ~ ask => (Pending(r) <=> Pending(slot[x]))
    BY <1>1, DrainSlot
  <1>5. u \in Seq(Nat) /\ Joined(u, SubSeq(d, k + 1, Len(d)), sent[s])
    BY <1>1, <1>3, DrainJoined
  <1>6. StreamIs([wire EXCEPT ![s] = u], [sent EXCEPT ![s] = sent[s]], s, r.data)
    <2>1. Joined(u, r.data, sent[s])
      BY <1>4, <1>5
    <2> HIDE DEF u
    <2> QED
      BY <1>2, <2>1 DEF StreamIs, Joined
  <1>7. [sent EXCEPT ![s] = sent[s]] = sent
    BY <1>2
  <1>8. ask \in BOOLEAN
    BY DEF Done
  <1>9. FALSE \in BOOLEAN /\ (ask => (FALSE <=> Pending(r)))
    BY <1>4
  <1> HIDE DEF d, u, ask
  <1>10. Table([slot EXCEPT ![x] = r], IF ask THEN WithOut(poll, x, FALSE) ELSE poll, ksock,
               [wire EXCEPT ![s] = u], [sent EXCEPT ![s] = sent[s]])
    BY <1>1, <1>2, <1>3, <1>4, <1>5, <1>6, <1>8, <1>9, TableStream
  <1> QED
    BY <1>4, <1>7, <1>10 DEF u, ask

LEMMA GotWritableInv ==
  ASSUME IInv, GotWritable
  PROVE  IInv'
  <1>1. Looking("out") /\ UNCHANGED deleting
    BY DEF GotWritable, GotEof
  <1>2. CASE GotEof
    BY <1>1, <1>2, GotEofInv
  <1>3. CASE ~ GotEof
    <2> DEFINE x == cur.idx
               s == slot[x].sock
    <2>1. /\ CurInv' /\ x \in Slots /\ s \in Socks /\ slot[x].flag = "valid"
          /\ cur.connecting = slot[x].connecting
      BY <1>1, OutLooks DEF Here
    <2>2. StateTable /\ Counted /\ slot \in [Slots -> SlotRec] /\ wire \in [Socks -> Seq(Nat)]
      BY DEF IInv, StateTable, Table, TableTypes
    <2>3. PICK k \in 0 .. Len(Here.data) :
            /\ k = 0 => Here.data = <<>>
            /\ LET rest == SubSeq(Here.data, k + 1, Len(Here.data))
                   done == k > 0 /\ rest = <<>>
               IN  /\ wire' = [wire EXCEPT ![Here.sock] = @ \o SubSeq(Here.data, 1, k)]
                   /\ slot' = [slot EXCEPT ![cur.idx].data = rest,
                                           ![cur.idx].block = IF done THEN FALSE ELSE @]
                   /\ poll' = IF done THEN WithOut(poll, cur.idx, FALSE) ELSE poll
                   /\ phase' = IF k > 0 THEN "handler" ELSE "entry"
            /\ UNCHANGED <<ndeleted, deleting, kernel, sent>>
      BY <1>3 DEF GotWritable
    <2> DEFINE d == slot[x].data
               rest == SubSeq(d, k + 1, Len(d))
               done == k > 0 /\ rest = <<>>
               r == [slot[x] EXCEPT !.data = rest, !.block = IF done THEN FALSE ELSE @]
    <2>4. /\ k \in 0 .. Len(d) /\ (k = 0 => d = <<>>) /\ ~ slot[x].connecting
          /\ UNCHANGED <<ndeleted, deleting, ksock, sent>>
      BY <2>1, <2>3 DEF Here, GotWritable, kernel
    <2>5. Drained(slot[x], k, r)
      BY DEF Drained
    <2>6. poll' = IF Done(slot[x], k) THEN WithOut(poll, x, FALSE) ELSE poll
      BY <2>3 DEF Done, Here
    <2>7. wire' = [wire EXCEPT ![s] = Took(wire[s], d, k)]
      BY <2>1, <2>2, <2>3 DEF Took, Here
    <2>8. slot' = [slot EXCEPT ![x] = r]
      BY <2>1, <2>2, <2>3 DEF Here
    <2> HIDE DEF r, x, rest, done
    <2>9. /\ r.flag = "valid"
          /\ Table([slot EXCEPT ![x] = r],
                   IF Done(slot[x], k) THEN WithOut(poll, x, FALSE) ELSE poll, ksock,
                   [wire EXCEPT ![s] = Took(wire[s], d, k)], sent)
      BY <2>1, <2>2, <2>4, <2>5, DrainTable
    <2>10. StateTable'
      BY <2>4, <2>6, <2>7, <2>8, <2>9 DEF StateTable
    <2>11. Counted'
      BY <2>1, <2>2, <2>4, <2>8, <2>9, CountedUpdate
    <2> QED
      BY <2>1, <2>10, <2>11 DEF IInv
  <1> QED
    BY <1>2, <1>3

LEMMA GotReadableInv ==
  ASSUME IInv, GotReadable
  PROVE  IInv'
  <1>1. Looking("in") /\ UNCHANGED deleting
    BY DEF GotReadable, GotEof
  <1>2. CASE GotEof
    BY <1>1, <1>2, GotEofInv
  <1>3. CASE ~ GotEof
    <2>1. UNCHANGED <<slot, poll, ndeleted, deleting, ksock, wire, sent>>
      BY <1>3 DEF GotReadable, kernel
    <2>2. CurInv'
      BY <1>1, CurLooks DEF IInv
    <2>3. StateTable' /\ Counted'
      BY <2>1, CountedSame DEF IInv, StateTable
    <2> QED
      BY <2>2, <2>3 DEF IInv
  <1> QED
    BY <1>2, <1>3

LEMMA GotReadableServerInv ==
  ASSUME IInv, GotReadableServer
  PROVE  IInv'
  <1>1. Looking("in") /\ UNCHANGED deleting
    BY DEF GotReadableServer, GotEof
  <1>2. CurInv'
    BY <1>1, CurLooks DEF IInv
  <1>3. CASE UNCHANGED <<slot, poll, ndeleted, deleting, ksock, wire, sent>>
    <2>1. StateTable' /\ Counted'
      BY <1>3, CountedSame DEF IInv, StateTable
    <2> QED
      BY <1>2, <2>1 DEF IInv
  <1>4. CASE ~ UNCHANGED <<slot, poll, ndeleted, deleting, ksock, wire, sent>>
    <2>1. PICK x \in Slots, s \in Socks :
            /\ FirstAvail(x)
            /\ ksock[s] = "unused"
            /\ slot' = [slot EXCEPT ![x] = [NewSlot EXCEPT !.sock = s, !.block = FALSE]]
            /\ \E g \in Garbage : poll' = Append(poll, PollEntry(x, s, FALSE, g))
            /\ ksock' = [ksock EXCEPT ![s] = "open"]
      BY <1>4 DEF GotReadableServer, kernel
    <2>2. UNCHANGED <<ndeleted, deleting, wire, sent>>
      BY <1>4 DEF GotReadableServer, kernel
    <2>3. PICK g \in Garbage : poll' = Append(poll, PollEntry(x, s, FALSE, g))
      BY <2>1
    <2> DEFINE r == [NewSlot EXCEPT !.sock = s, !.block = FALSE]
    <2>4. /\ r \in SlotRec /\ r.sock = s /\ r.flag = "valid" /\ r.data = <<>>
          /\ r.connecting = FALSE
      BY NewSlotOK DEF NewSlot, FreeSlot, SlotRec
    <2>5. slot' = [slot EXCEPT ![x] = r]
      BY <2>1
    <2> HIDE DEF r
    <2>6. SlotOK(r) /\ ~ Pending(r)
      BY <2>4 DEF SlotOK, Pending
    <2>7. StateTable /\ Counted /\ slot[x].flag = "avail" /\ slot[x].sock = None
      BY <2>1, SlotTypes DEF IInv, FirstAvail, SlotOK
    <2>8. /\ \A y \in Slots : slot[y].sock # s
          /\ wire[s] = Bytes(0, sent[s])
      <3>1. sent[s] = 0 /\ wire[s] = <<>> /\ \A y \in Slots : slot[y].sock # None => slot[y].sock # s
        BY <2>1, <2>7 DEF StateTable, Table, Held
      <3>2. Bytes(0, 0) = <<>>
        BY BytesProperties, EmptySeq
      <3> QED
        BY <3>1, <3>2, NoneAssumption
    <2>9. /\ ksock' \in [Socks -> KStates] /\ ksock'[s] # "unused"
          /\ \A t \in Socks : t # s => (ksock'[t] = "unused" <=> ksock[t] = "unused")
      BY <2>1, <2>7 DEF StateTable, Table, TableTypes, KStates
    <2>10. StateTable'
      <3>1. Table(slot, poll, ksock, wire, sent) /\ ~ Pending(r)
        BY <2>6, <2>7 DEF StateTable
      <3> DEFINE wants == FALSE
      <3> HIDE DEF wants
      <3>3. wants \in BOOLEAN /\ (wants <=> Pending(r))
        BY <3>1 DEF wants
      <3>2. Table([slot EXCEPT ![x] = r], Append(poll, PollEntry(x, s, wants, g)), ksock', wire, sent)
        BY <2>4, <2>6, <2>7, <2>8, <2>9, <3>1, <3>3, TableAttach
      <3> QED
        BY <2>2, <2>3, <2>5, <3>2 DEF StateTable, wants
    <2>11. Counted'
      BY <2>2, <2>4, <2>5, <2>7, CountedUpdate
    <2> QED
      BY <1>2, <2>10, <2>11 DEF IInv
  <1> QED
    BY <1>3, <1>4

\* The end of the pass: deleted slots become available; they held no socket.
LEMMA PassDoneInv ==
  ASSUME IInv, PassDone
  PROVE  IInv'
  <1>1. /\ UNCHANGED <<poll, ksock, wire, sent>> /\ ndeleted' = 0 /\ phase' = "idle"
        /\ deleting = <<>> /\ deleting' = <<>>
    BY DEF PassDone, kernel, IInv, CurInv
  <1>2. /\ StateTable /\ slot \in [Slots -> SlotRec] /\ ndeleted = Cardinality(Deleted(slot))
        /\ poll \in Seq(Entry) /\ Counted
    <2>1. Len(deleting) = 0
      BY <1>1, EmptySeq
    <2> QED
      BY <2>1 DEF IInv, StateTable, Table, TableTypes, Counted
  <1>3. IsFiniteSet(Deleted(slot))
    <2>1. IsFiniteSet(Slots)
      BY BoundsAssumption, FS_Interval DEF Slots
    <2> QED
      BY <2>1, FS_Subset DEF Deleted
  <1>4. /\ slot' \in [Slots -> SlotRec]
        /\ \A x \in Slots : IF slot[x].flag = "deleted" THEN slot'[x] = FreeSlot ELSE slot'[x] = slot[x]
    <2>1. CASE ndeleted = 0
      <3>1. Deleted(slot) = {}
        BY <1>2, <1>3, <2>1, FS_EmptySet
      <3>2. \A x \in Slots : slot[x].flag # "deleted"
        BY <3>1 DEF Deleted
      <3> QED
        BY <1>2, <2>1, <3>2 DEF PassDone
    <2>2. CASE ndeleted # 0
      <3>1. slot' = [x \in Slots |-> IF slot[x].flag = "deleted" THEN FreeSlot ELSE slot[x]]
        BY <2>2 DEF PassDone
      <3>2. FreeSlot \in SlotRec
        BY NewSlotOK
      <3> QED
        BY <1>2, <3>1, <3>2
    <2> QED
      BY <2>1, <2>2
  <1>5. FreeSlot.flag = "avail" /\ FreeSlot.sock = None
    BY DEF FreeSlot
  <1>6. \A x \in Slots : slot[x].flag = "deleted" => slot[x].sock = None
    BY <1>1, <1>2 DEF Counted
  <1>7. \A x \in Slots : /\ slot'[x].sock = slot[x].sock
                         /\ slot[x].sock # None \/ slot[x].flag # "deleted" => slot'[x] = slot[x]
    BY <1>4, <1>5, <1>6
  <1>8. Agrees(poll, slot')
    <2>1. \A k \in DOMAIN poll : poll[k].idx \in Slots /\ poll[k].sock # None
      BY <1>2, EntryTypes
    <2>2. Agrees(poll, slot)
      BY <1>2 DEF StateTable, Table
    <2> QED
      BY <1>7, <2>1, <2>2 DEF Agrees
  <1>9. \A x \in Slots : SlotOK(slot'[x])
    BY <1>2, <1>4, <1>5, SlotTypes DEF SlotOK
  <1>10. Held(slot', ksock, wire, sent)
    BY <1>2, <1>7 DEF StateTable, Table, Held
  <1>11. Streams(slot', wire, sent)
    <2>1. Streams(slot, wire, sent)
      BY <1>2 DEF StateTable, Table
    <2>2. ASSUME NEW x \in Slots PROVE StreamIs(wire, sent, slot'[x].sock, slot'[x].data)
      <3>1. CASE slot[x].sock = None
        BY <1>7, <3>1 DEF StreamIs
      <3>2. CASE slot[x].sock # None
        BY <1>7, <2>1, <3>2 DEF Streams
      <3> QED
        BY <3>1, <3>2
    <2> QED
      BY <2>2 DEF Streams
  <1>12. StateTable'
    BY <1>1, <1>2, <1>4, <1>8, <1>9, <1>10, <1>11 DEF StateTable, Table, TableTypes
  <1>13. Counted'
    <2>1. Deleted(slot') = {} /\ \A x \in Slots : slot'[x].flag # "deleted"
      BY <1>4, <1>5 DEF Deleted
    <2>2. <<>> \in Seq(Slots) /\ Len(<<>>) = 0 /\ DOMAIN <<>> = {}
      OBVIOUS
    <2> QED
      BY <1>1, <2>1, <2>2, FS_EmptySet DEF Counted
  <1>14. CurInv'
    BY <1>1 DEF CurInv
  <1> QED
    BY <1>12, <1>13, <1>14 DEF IInv

\* The kernel never makes a socket used or unused by itself.
LEMMA KernelInv ==
  ASSUME IInv, NEW s \in Socks, KernelStep(s)
  PROVE  IInv'
  <1>1. UNCHANGED <<slot, poll, ndeleted, deleting, phase, cur, wire, sent>>
    BY DEF KernelStep, loopVars
  <1>2. StateTable /\ Counted /\ CurInv /\ ksock \in [Socks -> KStates]
    BY DEF IInv, StateTable, Table, TableTypes
  <1>3. SameUsed(ksock, ksock')
    BY <1>2 DEF KernelStep, SameUsed, KStates
  <1>4. ksock' \in [Socks -> KStates] /\ \A t \in Socks : ksock'[t] = "unused" <=> ksock[t] = "unused"
    BY <1>3 DEF SameUsed
  <1>5. Held(slot, ksock', wire, sent)
    <2>1. \A x \in Slots : slot[x].sock \in Socks \cup {None}
      BY <1>2, SlotTypes
    <2>2. Held(slot, ksock, wire, sent)
      BY <1>2 DEF StateTable, Table
    <2> QED
      BY <1>4, <2>1, <2>2 DEF Held
  <1>6. StateTable'
    BY <1>1, <1>2, <1>4, <1>5 DEF StateTable, Table, TableTypes
  <1>7. Counted' /\ CurInv'
    BY <1>1, <1>2, CountedSame, CurUntouched
  <1> QED
    BY <1>6, <1>7 DEF IInv

LEMMA LoopInv ==
  ASSUME IInv, HandlerReturns \/ EntryDone
  PROVE  IInv'
  <1>1. UNCHANGED <<slot, poll, ndeleted, deleting, ksock, wire, sent>>
    BY DEF HandlerReturns, EntryDone, kernel
  <1>2. StateTable' /\ Counted'
    BY <1>1, CountedSame DEF IInv, StateTable
  <1>3. CurInv'
    BY <1>1 DEF HandlerReturns, EntryDone, IInv, CurInv
  <1> QED
    BY <1>2, <1>3 DEF IInv

LEMMA InitInv == Init => IInv
  <1> SUFFICES ASSUME Init PROVE IInv
    OBVIOUS
  <1>1. /\ slot = [x \in Slots |-> FreeSlot] /\ poll = <<>> /\ ndeleted = 0 /\ phase = "idle"
        /\ deleting = <<>> /\ ksock = [s \in Socks |-> "unused"]
        /\ wire = [s \in Socks |-> <<>>] /\ sent = [s \in Socks |-> 0]
    BY DEF Init
  <1>2. FreeSlot.flag = "avail" /\ FreeSlot.sock = None /\ \A x \in Slots : slot[x] = FreeSlot
    BY <1>1 DEF FreeSlot
  <1>3. <<>> \in Seq(Nat) /\ <<>> \in Seq(Entry)
    OBVIOUS
  <1>4. TableTypes(slot, poll, ksock, wire, sent)
    <2>1. slot \in [Slots -> SlotRec]
      BY <1>1, NewSlotOK
    <2>2. wire \in [Socks -> Seq(Nat)] /\ sent \in [Socks -> Nat]
      BY <1>1, <1>3
    <2>3. ksock \in [Socks -> KStates]
      BY <1>1 DEF KStates
    <2> QED
      BY <1>1, <1>3, <2>1, <2>2, <2>3 DEF TableTypes
  <1>5. Agrees(poll, slot)
    BY <1>1, <1>2 DEF Agrees
  <1>6. \A x \in Slots : SlotOK(slot[x])
    BY <1>2 DEF SlotOK
  <1>7. Held(slot, ksock, wire, sent)
    BY <1>1, <1>2 DEF Held
  <1>8. Streams(slot, wire, sent)
    BY <1>2 DEF Streams, StreamIs
  <1>9. SentPrefixes(wire, sent)
    <2>1. Bytes(0, 0) = <<>>
      BY BytesProperties, EmptySeq
    <2>2. <<>> \o <<>> = <<>> /\ <<>> \in Seq(Nat)
      OBVIOUS
    <2>3. IsPrefix(<<>>, <<>>)
      BY <2>2, PrefixOfStream
    <2> QED
      BY <1>1, <2>1, <2>3 DEF SentPrefixes
  <1>10. Counted
    <2>1. Deleted(slot) = {} /\ \A x \in Slots : slot[x].flag # "deleted"
      BY <1>2 DEF Deleted
    <2>2. <<>> \in Seq(Slots) /\ Len(<<>>) = 0 /\ DOMAIN <<>> = {}
      OBVIOUS
    <2>3. ndeleted + Len(deleting) = Cardinality(Deleted(slot))
      <3>1. Cardinality(Deleted(slot)) = 0
        BY <2>1, FS_EmptySet
      <3>2. ndeleted = 0 /\ Len(deleting) = 0
        BY <1>1, EmptySeq
      <3> QED
        BY <3>1, <3>2
    <2>4. /\ deleting \in Seq(Slots) /\ \A c, d \in DOMAIN deleting : deleting[c] = deleting[d] => c = d
          /\ \A d \in DOMAIN deleting : slot[deleting[d]].flag = "deleted"
      BY <1>1, <2>2
    <2> QED
      BY <1>1, <2>1, <2>3, <2>4 DEF Counted
  <1> QED
    BY <1>1, <1>4, <1>5, <1>6, <1>7, <1>8, <1>9, <1>10 DEF IInv, StateTable, Table, CurInv

LEMMA NextInv == IInv /\ [Next]_vars => IInv'
  <1> SUFFICES ASSUME IInv, [Next]_vars PROVE IInv'
    OBVIOUS
  <1>1. CASE Client
    BY <1>1, NewInv, ConnectInv, MoveInv, CloseInv, DeleteInv, DeleteEndsInv, WriteInv DEF Client
  <1>2. CASE Poll \/ PollInterrupted
    BY <1>2, PollInv
  <1>3. CASE ServeEntry
    BY <1>3, ServeEntryInv
  <1>4. CASE Serve
    <2>1. CASE GotError
      BY <2>1, GotEofInv DEF GotError
    <2> QED
      BY <1>4, <2>1, GotWritableClientInv, GotWritableInv, GotReadableInv, GotReadableServerInv
      DEF Serve
  <1>5. CASE HandlerReturns \/ EntryDone
    BY <1>5, LoopInv
  <1>6. CASE PassDone
    BY <1>6, PassDoneInv
  <1>7. CASE \E s \in Socks : KernelStep(s)
    BY <1>7, KernelInv
  <1>8. CASE UNCHANGED vars
    <2>1. UNCHANGED <<slot, poll, ndeleted, deleting, phase, cur, ksock, wire, sent>>
      BY <1>8 DEF vars
    <2> QED
      BY <2>1 DEF IInv, StateTable, Counted, CurInv
  <1> QED
    BY <1>1, <1>2, <1>3, <1>4, <1>5, <1>6, <1>7, <1>8 DEF Next

LEMMA InvImplies == IInv => PollMatchesSlots /\ InOrder
  <1> SUFFICES ASSUME IInv PROVE PollMatchesSlots /\ InOrder
    OBVIOUS
  <1>1. /\ Agrees(poll, slot) /\ Streams(slot, wire, sent) /\ SentPrefixes(wire, sent)
        /\ ndeleted + Len(deleting) = Cardinality(Deleted(slot))
        /\ poll \in Seq(Entry) /\ StateTable /\ Counted
    BY DEF IInv, StateTable, Table, TableTypes, Counted
  <1>2. SlotsPolled
    <2>1. ASSUME NEW k \in DOMAIN poll
          PROVE  /\ slot[poll[k].idx].sock = poll[k].sock
                 /\ Valid(poll[k].idx) \/ \E d \in DOMAIN deleting : deleting[d] = poll[k].idx
      <3>1. poll[k].idx \in Slots /\ poll[k].sock # None
        BY <1>1, EntryTypes
      <3>2. slot[poll[k].idx].flag # "avail" /\ slot[poll[k].idx].sock = poll[k].sock
        BY <1>1 DEF Agrees
      <3>3. slot[poll[k].idx].flag \in {"avail", "valid", "deleted"}
        BY <1>1, <3>1, SlotTypes DEF SlotRec
      <3> QED
        BY <1>1, <3>1, <3>2, <3>3 DEF Counted, Valid
    <2> QED
      BY <1>1, <2>1 DEF SlotsPolled, Agrees, Deleted
  <1>3. PolloutIffPending
    BY <1>1 DEF PolloutIffPending, Agrees, Pending
  <1>4. InOrder
    <2>1. \A x \in Slots : LET s == slot[x].sock
                           IN  s # None => wire[s] \o slot[x].data = Bytes(0, sent[s])
      BY <1>1 DEF Streams, StreamIs
    <2>2. \A s \in Socks : IsPrefix(wire[s], Bytes(0, sent[s]))
      BY <1>1 DEF SentPrefixes
    <2> QED
      BY <2>1, <2>2 DEF InOrder
  <1> QED
    BY <1>2, <1>3, <1>4 DEF PollMatchesSlots

\* However handlers shift and grow the poll array under sockbuf_update_all, it
\* has one entry for every open sockbuf, asks for POLLOUT exactly while a
\* connection or output is pending, and no deleted idx is lost track of.
THEOREM PollArrayMatches == Spec => []PollMatchesSlots
  <1>1. Spec => []IInv
    BY InitInv, NextInv, PTL DEF Spec
  <1> QED
    BY <1>1, InvImplies, PTL

\* Whatever part of a write the kernel takes, in sockbuf_write and later in
\* sockbuf_got_writable, the bytes a peer gets are those written, in order.
THEOREM StreamsInOrder == Spec => []InOrder
  <1>1. Spec => []IInv
    BY InitInv, NextInv, PTL DEF Spec
  <1> QED
    BY <1>1, InvImplies, PTL

-----------------------------------------------------------------------------
(* Events of another connection                                            *)

\* The slot of the entry being served keeps its socket or loses it for good: it
\* is not handed out again and is not fresh.
Ours(b, s) ==
  /\ b.flag # "avail" /\ b.sock \in {s, None}
  /\ b.sock = None => b.flag = "deleted" \/ ~ b.block

EventInv == phase \in {"entry", "handler"} => Ours(slot[cur.idx], cur.sock)

KeepsOurs == \A y \in Slots : \A t \in Socks : Ours(slot[y], t) => Ours(slot'[y], t)

LEMMA KeepsAt ==
  ASSUME IInv, NEW x \in Slots, NEW r, slot' = [slot EXCEPT ![x] = r],
         \A t \in Socks : Ours(slot[x], t) => Ours(r, t)
  PROVE  KeepsOurs
  <1>1. \A y \in Slots : slot'[y] = IF y = x THEN r ELSE slot[y]
    BY DEF IInv, StateTable, Table, TableTypes
  <1> QED
    BY <1>1 DEF KeepsOurs

\* A step of a handler, of the code for an event of the entry, or outside.
LEMMA EventKept ==
  ASSUME IInv, EventInv, KeepsOurs,
         phase' \in {"entry", "handler"} =>
           /\ phase \in {"entry", "handler"}
           /\ cur'.idx = cur.idx /\ cur'.sock = cur.sock
  PROVE  EventInv'
  <1> SUFFICES ASSUME phase' \in {"entry", "handler"}
               PROVE  Ours(slot'[cur'.idx], cur'.sock)
    BY DEF EventInv
  <1>1. Ours(slot[cur.idx], cur.sock) /\ cur \in CurRec
    BY DEF EventInv, IInv, CurInv
  <1>2. cur.idx \in Slots /\ cur.sock \in Socks
    BY <1>1 DEF CurRec
  <1> QED
    BY <1>1, <1>2 DEF KeepsOurs

LEMMA CloseEvents ==
  ASSUME IInv, EventInv, NEW x \in Slots, CloseNow(x)
  PROVE  KeepsOurs
  <1>1. CASE ~ Valid(x)
    BY <1>1 DEF CloseNow, KeepsOurs
  <1>2. CASE Valid(x)
    <2>1. slot' = [slot EXCEPT ![x] = CloseSlot(x)] /\ poll' = Without(poll, x)
      BY <1>2 DEF CloseNow
    <2>2. slot[x] \in SlotRec
      BY SlotTypes DEF IInv
    <2>3. CloseSlot(x).sock = None /\ CloseSlot(x).block = FALSE /\ CloseSlot(x).flag = "valid"
      BY <1>2, <2>2 DEF CloseSlot, SlotRec, Valid
    <2>4. \A t \in Socks : Ours(CloseSlot(x), t)
      BY <2>3 DEF Ours
    <2> QED
      BY <2>1, <2>4, KeepsAt
  <1> QED
    BY <1>1, <1>2

LEMMA ClientEvents ==
  ASSUME IInv, EventInv, Client
  PROVE  EventInv'
  <1>0. StateTable /\ slot \in [Slots -> SlotRec]
    BY DEF IInv, StateTable, Table, TableTypes
  <1>1. UNCHANGED <<phase, cur>>
    BY DEF Client, sockbuf_new, Connect, MoveSock, sockbuf_close, sockbuf_delete, DeleteEnds, sockbuf_write,
           loopVars
  <1>2. CASE sockbuf_new
    <2>1. PICK x \in Slots : FirstAvail(x) /\ slot' = [slot EXCEPT ![x] = NewSlot]
      BY <1>2 DEF sockbuf_new
    <2>2. \A t \in Socks : ~ Ours(slot[x], t)
      BY <2>1 DEF Ours, FirstAvail
    <2>3. KeepsOurs
      BY <2>1, <2>2, KeepsAt
    <2> QED
      BY <1>1, <2>3, EventKept
  <1>3. ASSUME NEW x \in Slots, NEW s \in Socks, Connect(x, s) PROVE EventInv'
    <2>1. PICK server \in BOOLEAN : SetSock(x, s, ~ server, server)
      BY <1>3 DEF Connect
    <2>5. \A t \in Socks : ~ Ours(slot[x], t)
      BY <1>3 DEF Connect, Fresh, Valid, Ours
    <2>6. \A y \in Slots : y # x => slot'[y] = slot[y]
      BY <1>0, <2>1 DEF SetSock
    <2>7. KeepsOurs
      BY <2>5, <2>6 DEF KeepsOurs
    <2> QED
      BY <1>1, <2>7, EventKept
  <1>4. ASSUME NEW from \in Slots, NEW to \in Slots, MoveSock(from, to) PROVE EventInv'
    <2>2. slot[from] \in SlotRec /\ slot[from].flag = "valid"
      BY <1>0, <1>4, SlotTypes DEF MoveSock, Valid
    <2>6. \A t \in Socks : ~ Ours(slot[to], t)
      BY <1>4 DEF MoveSock, Fresh, Valid, Ours
    <2>7. \A y \in Slots : y # from /\ y # to => slot'[y] = slot[y]
      BY <1>0, <1>4 DEF MoveSock
    <2>8. slot'[from].sock = None /\ slot'[from].flag = "valid" /\ slot'[from].block = FALSE
      <3>1. slot'[from] = [slot[from] EXCEPT !.sock = None, !.block = FALSE]
        BY <1>0, <1>4 DEF MoveSock
      <3> QED
        BY <2>2, <3>1 DEF SlotRec
    <2>9. \A t \in Socks : Ours(slot'[from], t)
      BY <2>8 DEF Ours
    <2>10. KeepsOurs
      BY <2>6, <2>7, <2>9 DEF KeepsOurs
    <2> QED
      BY <1>1, <2>10, EventKept
  <1>5. ASSUME NEW x \in Slots, sockbuf_close(x) PROVE EventInv'
    <2>1. KeepsOurs
      BY <1>5, CloseEvents DEF sockbuf_close
    <2> QED
      BY <1>1, <2>1, EventKept
  <1>6. ASSUME NEW x \in Slots, sockbuf_delete(x) PROVE EventInv'
    <2> DEFINE r == [slot[x] EXCEPT !.flag = "deleted"]
    <2>1. slot' = [slot EXCEPT ![x] = r]
      BY <1>0, <1>6 DEF sockbuf_delete
    <2>2. slot[x] \in SlotRec
      BY <1>0, SlotTypes
    <2>3. r.sock = slot[x].sock /\ r.flag = "deleted"
      BY <2>2 DEF SlotRec
    <2> HIDE DEF r
    <2>4. \A t \in Socks : Ours(slot[x], t) => Ours(r, t)
      BY <2>3 DEF Ours
    <2>5. KeepsOurs
      BY <2>1, <2>4, KeepsAt
    <2> QED
      BY <1>1, <2>5, EventKept
  <1>8. ASSUME NEW x \in Slots, DeleteEnds(x) PROVE EventInv'
    <2> DEFINE r == [FreeSlot EXCEPT !.flag = "deleted"]
    <2>1. slot' = [slot EXCEPT ![x] = r]
      BY <1>8 DEF DeleteEnds
    <2>2. \A t \in Socks : Ours(r, t)
      BY DEF FreeSlot, Ours
    <2>3. KeepsOurs
      BY <2>1, <2>2, KeepsAt
    <2> QED
      BY <1>1, <2>3, EventKept
  <1>7. ASSUME NEW x \in Slots, NEW len \in 1 .. MaxWrite, sockbuf_write(x, len) PROVE EventInv'
    <2>1. CASE CloseNow(x)
      BY <1>1, <2>1, CloseEvents, EventKept
    <2>2. CASE RealWrite(x, len)
      <3>1. slot[x] \in SlotRec /\ slot[x].sock # None
        BY <1>0, <1>7, SlotTypes DEF sockbuf_write
      <3>2. /\ \A y \in Slots : y # x => slot'[y] = slot[y]
            /\ \E d, b : slot'[x] = [slot[x] EXCEPT !.data = d, !.block = b]
        <4>1. \E d, b : slot' = [slot EXCEPT ![x].data = d, ![x].block = b]
          <5>1. PICK k : slot' = [slot EXCEPT ![x].data = @ \o SubSeq(Bytes(sent[slot[x].sock], len), k + 1, len),
                                              ![x].block = slot[x].block \/ k < len]
            BY <2>2 DEF RealWrite
          <5> DEFINE d == slot[x].data \o SubSeq(Bytes(sent[slot[x].sock], len), k + 1, len)
                     b == slot[x].block \/ k < len
          <5>2. slot' = [slot EXCEPT ![x].data = d, ![x].block = b]
            BY <1>0, <5>1
          <5> HIDE DEF d, b
          <5> QED
            BY <5>2
        <4>2. PICK d, b : slot' = [slot EXCEPT ![x].data = d, ![x].block = b]
          BY <4>1
        <4>3. \A y \in Slots : y # x => slot'[y] = slot[y]
          BY <1>0, <4>2
        <4>4. slot'[x] = [slot[x] EXCEPT !.data = d, !.block = b]
          BY <1>0, <4>2
        <4> QED
          BY <4>3, <4>4
      <3>3. slot'[x].sock = slot[x].sock /\ slot'[x].flag = slot[x].flag
        BY <3>1, <3>2 DEF SlotRec
      <3>4. \A t \in Socks : Ours(slot[x], t) => Ours(slot'[x], t)
        BY <3>1, <3>3 DEF Ours
      <3>5. KeepsOurs
        BY <3>2, <3>4 DEF KeepsOurs
      <3> QED
        BY <1>1, <3>5, EventKept
    <2> QED
      BY <1>7, <2>1, <2>2 DEF sockbuf_write
  <1> QED
    BY <1>2, <1>3, <1>4, <1>5, <1>6, <1>7, <1>8 DEF Client

\* Looking at an event leaves the rest of the entry alone.
LEMMA LooksAt ==
  ASSUME IInv, NEW ev, Looking(ev), UNCHANGED deleting
  PROVE  /\ phase = "entry" /\ cur.idx \in Slots
         /\ cur'.idx = cur.idx /\ cur'.sock = cur.sock
  <1>1. phase = "entry" /\ cur \in CurRec /\ cur' = [cur EXCEPT !.revents = @ \ {ev}]
    BY CurLooks DEF IInv, Looking
  <1> QED
    BY <1>1 DEF CurRec

LEMMA ServeEvents ==
  ASSUME IInv, EventInv, Serve
  PROVE  EventInv'
  <1>1. PICK ev \in Events : Looking(ev) /\ UNCHANGED deleting
    BY DEF Serve, GotWritableClient, GotWritable, GotReadable, GotReadableServer, GotError, GotEof,
           Events
  <1>2. /\ phase = "entry" /\ cur.idx \in Slots
        /\ cur'.idx = cur.idx /\ cur'.sock = cur.sock
    BY <1>1, LooksAt
  <1>3. /\ StateTable /\ slot \in [Slots -> SlotRec] /\ Here \in SlotRec
    BY <1>2, SlotTypes DEF IInv, StateTable, Table, TableTypes, Here
  <1> SUFFICES KeepsOurs
    BY <1>2, EventKept
  <1>4. CASE GotEof
    BY <1>2, <1>4, CloseEvents DEF GotEof
  <1>5. CASE UNCHANGED slot
    BY <1>5 DEF KeepsOurs
  <1>6. ASSUME NEW r, slot' = [slot EXCEPT ![cur.idx] = r], r.sock = Here.sock, r.flag = Here.flag,
               Here.sock # None
        PROVE  KeepsOurs
    <2>1. \A t \in Socks : Ours(slot[cur.idx], t) => Ours(r, t)
      BY <1>6 DEF Ours, Here
    <2> QED
      BY <1>2, <1>6, <2>1, KeepsAt
  <1>7. CASE GotWritableClient /\ ~ GotEof
    <2> DEFINE r == [Here EXCEPT !.connecting = FALSE, !.block = IF Here.data = <<>> THEN FALSE ELSE @]
    <2>1. slot' = [slot EXCEPT ![cur.idx].connecting = FALSE,
                               ![cur.idx].block = IF Here.data = <<>> THEN FALSE ELSE @]
      BY <1>7 DEF GotWritableClient
    <2>2. slot' = [slot EXCEPT ![cur.idx] = r]
      BY <1>2, <1>3, <2>1 DEF Here
    <2>3. r.sock = Here.sock /\ r.flag = Here.flag
      BY <1>3 DEF SlotRec
    <2>4. Here.sock # None
      BY <1>1, <1>7, OutLooks DEF GotWritableClient
    <2> HIDE DEF r
    <2> QED
      BY <1>6, <2>2, <2>3, <2>4
  <1>8. CASE GotWritable /\ ~ GotEof
    <2>1. PICK k \in 0 .. Len(Here.data) :
            LET rest == SubSeq(Here.data, k + 1, Len(Here.data))
                done == k > 0 /\ rest = <<>>
            IN  slot' = [slot EXCEPT ![cur.idx].data = rest,
                                     ![cur.idx].block = IF done THEN FALSE ELSE @]
      BY <1>8 DEF GotWritable
    <2> DEFINE rest == SubSeq(Here.data, k + 1, Len(Here.data))
               done == k > 0 /\ rest = <<>>
               r == [Here EXCEPT !.data = rest, !.block = IF done THEN FALSE ELSE @]
    <2>2. slot' = [slot EXCEPT ![cur.idx] = r]
      BY <1>2, <1>3, <2>1 DEF Here
    <2> HIDE DEF rest, done
    <2>4. r.sock = Here.sock /\ r.flag = Here.flag
      BY <1>3 DEF SlotRec
    <2>5. Here.sock # None
      BY <1>1, <1>8, OutLooks DEF GotWritable
    <2> HIDE DEF r
    <2> QED
      BY <1>6, <2>2, <2>4, <2>5
  <1>9. CASE GotReadableServer /\ ~ UNCHANGED slot
    <2>1. PICK x \in Slots, s \in Socks :
            /\ FirstAvail(x)
            /\ slot' = [slot EXCEPT ![x] = [NewSlot EXCEPT !.sock = s, !.block = FALSE]]
      BY <1>9 DEF GotReadableServer
    <2>2. \A t \in Socks : ~ Ours(slot[x], t)
      BY <2>1 DEF Ours, FirstAvail
    <2> QED
      BY <2>1, <2>2, KeepsAt
  <1>10. GotReadable => GotEof \/ UNCHANGED slot
    BY DEF GotReadable
  <1>11. GotError => GotEof
    BY DEF GotError
  <1> QED
    BY <1>4, <1>5, <1>7, <1>8, <1>9, <1>10, <1>11 DEF Serve

LEMMA PassEvents ==
  ASSUME IInv, EventInv,
         Poll \/ PollInterrupted \/ ServeEntry \/ HandlerReturns \/ EntryDone \/ PassDone
  PROVE  EventInv'
  <1>1. CASE Poll \/ PollInterrupted
    BY <1>1 DEF Poll, PollInterrupted, EventInv
  <1>2. CASE ServeEntry
    <2>1. PICK k \in DOMAIN poll :
            /\ NextActive(k)
            /\ cur' = [idx |-> poll[k].idx, sock |-> poll[k].sock,
                       revents |-> poll[k].revents, polled |-> poll[k].polled,
                       connecting |-> slot[poll[k].idx].connecting,
                       server |-> slot[poll[k].idx].server]
      BY <1>2 DEF ServeEntry
    <2>2. UNCHANGED slot
      BY <1>2 DEF ServeEntry
    <2>4. /\ poll \in Seq(Entry) /\ slot[poll[k].idx].sock = poll[k].sock
          /\ slot[poll[k].idx].flag # "avail"
      BY DEF IInv, StateTable, Table, TableTypes, Agrees
    <2>5. poll[k].sock # None
      BY <2>4, EntryTypes
    <2>6. Ours(slot[poll[k].idx], poll[k].sock)
      BY <2>4, <2>5 DEF Ours
    <2>7. cur'.idx = poll[k].idx /\ cur'.sock = poll[k].sock
      BY <2>1
    <2> QED
      BY <2>2, <2>6, <2>7 DEF EventInv
  <1>3. CASE HandlerReturns
    BY <1>3 DEF HandlerReturns, EventInv
  <1>4. CASE EntryDone
    BY <1>4 DEF EntryDone, EventInv
  <1>5. CASE PassDone
    BY <1>5 DEF PassDone, EventInv
  <1> QED
    BY <1>1, <1>2, <1>3, <1>4, <1>5

LEMMA EventNext ==
  ASSUME IInv, EventInv, [Next]_vars
  PROVE  EventInv'
  <1>1. CASE \E s \in Socks : KernelStep(s)
    <2>1. UNCHANGED <<slot, phase, cur>>
      BY <1>1 DEF KernelStep, loopVars
    <2> QED
      BY <2>1 DEF EventInv
  <1>2. CASE UNCHANGED vars
    BY <1>2 DEF vars, EventInv
  <1> QED
    BY <1>1, <1>2, ClientEvents, ServeEvents, PassEvents DEF Next

\* However handlers, deletions in them and signals change the arrays under
\* sockbuf_update_all, what is left of an entry's events after a handler ran
\* never reaches another connection that got the same idx: what the
\* SOCKBUF_DELETED state of sockbuf_delete is for.
THEOREM OnlyOwnEvents == Spec => []OwnEvents
  <1>1. Init => IInv /\ EventInv
    BY InitInv DEF Init, EventInv
  <1>2. IInv /\ EventInv /\ [Next]_vars => IInv' /\ EventInv'
    BY NextInv, EventNext
  <1>3. IInv /\ EventInv => OwnEvents
    BY DEF EventInv, OwnEvents, Ours
  <1> QED
    BY <1>1, <1>2, <1>3, PTL DEF Spec

-----------------------------------------------------------------------------
(***************************************************************************)
(* The output queues of the irc server                                     *)
(***************************************************************************)

\* Walking a list.

\* A walk of k steps that meets f[0], ..., f[k].
LEMMA WalkAlong ==
  ASSUME NEW link, NEW start, NEW k \in Nat, NEW f, f[0] = start,
         \A j \in 0 .. k : f[j] # Nil, \A j \in 1 .. k : link[f[j - 1]] = f[j]
  PROVE  Walk(link, start, k) = f[k]
  <1> DEFINE G(w) == [j \in 0 .. k |-> IF j = 0 THEN start ELSE Step(link, w[j - 1])]
             w == CHOOSE u : u = G(u)
             g == [j \in 0 .. k |-> f[j]]
  <1>1. Walk(link, start, k) = w[k]
    BY DEF Walk
  <1>2. g = G(g)
    BY DEF Step
  <1>3. w = G(w)
    <2> HIDE DEF G, g
    <2> QED
      BY <1>2
  <1>4. w[0] = start /\ \A j \in 1 .. k : w[j] = Step(link, w[j - 1])
    <2> HIDE DEF w
    <2>1. \A j \in 0 .. k : w[j] = IF j = 0 THEN start ELSE Step(link, w[j - 1])
      BY <1>3
    <2> QED
      BY <2>1
  <1> HIDE DEF w, G, g
  <1>5. ASSUME NEW j \in 0 .. k, w[j] # f[j] PROVE FALSE
    <2> DEFINE A == {a \in 0 .. k : w[a] # f[a]}
    <2>1. A \in SUBSET Nat /\ A # {}
      BY <1>5
    <2>2. PICK m \in A : \A a \in A : m <= a
      BY <2>1, LeastNat
    <2>3. m \in 1 .. k /\ m - 1 \in 0 .. k /\ m - 1 \notin A
      BY <1>4, <2>2
    <2>4. w[m - 1] = f[m - 1] /\ f[m - 1] # Nil
      BY <2>3
    <2>5. w[m] = f[m]
      BY <1>4, <2>3, <2>4 DEF Step
    <2> QED
      BY <2>2, <2>5
  <1> QED
    BY <1>1, <1>5

-----------------------------------------------------------------------------
\* The lists as sequences of entries.

Qs == QueueNums \cup {Unused}
Descs == [head : Entries \cup {Nil}, tail : Entries \cup {Nil}, len : Nat]
Links == [Entries -> Entries \cup {Nil}]

\* d, nx and pv describe the list of the entries of s, in which an entry's
\* predecessor is the one before it or, once another was inserted in front of it,
\* the entry itself.
IsList(d, nx, pv, s) ==
  /\ d.len = Len(s)
  /\ d.head = IF Len(s) = 0 THEN Nil ELSE s[1]
  /\ d.tail = IF Len(s) = 0 THEN Nil ELSE s[Len(s)]
  /\ \A k \in 1 .. Len(s) : nx[s[k]] = IF k = Len(s) THEN Nil ELSE s[k + 1]
  /\ \A k \in 1 .. Len(s) : pv[s[k]] \in IF k = 1 THEN {Nil} ELSE {s[k - 1], s[k]}

\* Entry e is in list q of it.
On(it, q, e) == \E k \in 1 .. Len(it[q]) : it[q][k] = e
Listed(it) == {e \in Entries : \E q \in Qs : On(it, q, e)}

Distinct(s) == \A j, k \in 1 .. Len(s) : s[j] = s[k] => j = k

\* No entry is twice in a list, and none in two.
Apart(it) ==
  /\ \A q \in Qs : Distinct(it[q])
  /\ \A q, r \in Qs : \A e \in Entries : On(it, q, e) /\ On(it, r, e) => q = r

\* The lists of l are the sequences of it.
Represents(l, it) ==
  /\ l.queue \in [Qs -> Descs] /\ l.next \in Links /\ l.prev \in Links
  /\ it \in [Qs -> Seq(Entries)]
  /\ \A q \in Qs : IsList(l.queue[q], l.next, l.prev, it[q])
  /\ Apart(it)

\* A list does not change with links that are not its own.
LEMMA ListUntouched ==
  ASSUME NEW d, NEW nx, NEW pv, NEW nx2, NEW pv2, NEW s, IsList(d, nx, pv, s),
         \A k \in 1 .. Len(s) : nx2[s[k]] = nx[s[k]] /\ pv2[s[k]] = pv[s[k]]
  PROVE  IsList(d, nx2, pv2, s)
  BY DEF IsList

Appended(d, e) ==
  [d EXCEPT !.head = IF d.tail = Nil THEN e ELSE @, !.tail = e, !.len = @ + 1]
NextAppended(nx, t, e) == [x \in Entries |-> IF x = e THEN Nil ELSE IF x = t THEN e ELSE nx[x]]

LEMMA ListAppended ==
  ASSUME NEW d \in Descs, NEW nx \in Links, NEW pv \in Links, NEW s \in Seq(Entries),
         NEW e \in Entries, IsList(d, nx, pv, s), Distinct(s),
         \A k \in 1 .. Len(s) : s[k] # e
  PROVE  IsList(Appended(d, e), NextAppended(nx, d.tail, e), [pv EXCEPT ![e] = d.tail], Append(s, e))
  <1> DEFINE size == Len(s)
             t == Append(s, e)
  <1>1. /\ size \in Nat /\ t \in Seq(Entries) /\ Len(t) = size + 1 /\ t[size + 1] = e
        /\ \A k \in 1 .. size : t[k] = s[k] /\ s[k] \in Entries
    OBVIOUS
  <1>2. /\ d.len = size /\ d.head = IF size = 0 THEN Nil ELSE s[1]
        /\ d.tail = IF size = 0 THEN Nil ELSE s[size]
        /\ \A k \in 1 .. size : nx[s[k]] = IF k = size THEN Nil ELSE s[k + 1]
        /\ \A k \in 1 .. size : pv[s[k]] \in IF k = 1 THEN {Nil} ELSE {s[k - 1], s[k]}
    BY DEF IsList
  <1>3. \A j, k \in 1 .. size : s[j] = s[k] => j = k
    BY DEF Distinct
  <1> HIDE DEF size, t
  <1>4. /\ Appended(d, e).len = size + 1 /\ Appended(d, e).tail = e
        /\ Appended(d, e).head = t[1]
    BY <1>1, <1>2, NilAssumption DEF Appended, Descs
  <1>5. ASSUME NEW k \in 1 .. size + 1
        PROVE  NextAppended(nx, d.tail, e)[t[k]] = IF k = size + 1 THEN Nil ELSE t[k + 1]
    <2>1. CASE k = size + 1
      BY <1>1, <2>1 DEF NextAppended
    <2>2. CASE k # size + 1
      <3>1. k \in 1 .. size /\ size \in 1 .. size /\ t[k] = s[k] /\ s[k] \in Entries /\ s[k] # e
        BY <1>1, <2>2 DEF size
      <3>2. NextAppended(nx, d.tail, e)[t[k]] = IF s[k] = s[size] THEN e ELSE nx[s[k]]
        BY <1>1, <1>2, <3>1 DEF NextAppended
      <3>3. CASE k = size
        BY <1>1, <2>2, <3>1, <3>2, <3>3
      <3>4. CASE k # size
        <4>1. s[k] # s[size] /\ k + 1 \in 1 .. size
          BY <1>1, <1>3, <3>1, <3>4
        <4> QED
          BY <1>1, <1>2, <2>2, <3>1, <3>2, <3>4, <4>1
      <3> QED
        BY <3>3, <3>4
    <2> QED
      BY <2>1, <2>2
  <1>6. ASSUME NEW k \in 1 .. size + 1
        PROVE  [pv EXCEPT ![e] = d.tail][t[k]] \in IF k = 1 THEN {Nil} ELSE {t[k - 1], t[k]}
    <2>1. CASE k = size + 1
      BY <1>1, <1>2, <2>1 DEF Links
    <2>2. CASE k # size + 1
      <3>1. k \in 1 .. size /\ t[k] = s[k] /\ s[k] \in Entries /\ s[k] # e
        BY <1>1, <2>2 DEF size
      <3>2. [pv EXCEPT ![e] = d.tail][t[k]] = pv[s[k]]
        BY <3>1 DEF Links
      <3>3. k = 1 \/ k - 1 \in 1 .. size
        BY <1>1, <3>1
      <3> QED
        BY <1>1, <1>2, <3>1, <3>2, <3>3
    <2> QED
      BY <2>1, <2>2
  <1>7. Len(t) = size + 1 /\ size + 1 # 0 /\ t[Len(t)] = e
    BY <1>1
  <1> QED
    BY <1>1, <1>4, <1>5, <1>6, <1>7 DEF IsList, t, size

Unlinked(d, size) == [d EXCEPT !.tail = IF size = Nil THEN Nil ELSE @, !.head = size, !.len = @ - 1]
PrevUnlinked(pv, size) == IF size = Nil THEN pv ELSE [pv EXCEPT ![size] = Nil]

\* The first entry is taken off.
LEMMA ListUnlinked ==
  ASSUME NEW d \in Descs, NEW nx \in Links, NEW pv \in Links, NEW s \in Seq(Entries),
         Len(s) # 0, IsList(d, nx, pv, s), Distinct(s)
  PROVE  /\ IsList(Unlinked(d, nx[s[1]]), nx, PrevUnlinked(pv, nx[s[1]]), Tail(s))
         /\ Unlinked(d, nx[s[1]]) \in Descs
         /\ PrevUnlinked(pv, nx[s[1]]) \in Links
  <1> DEFINE size == Len(s)
             t == Tail(s)
             x == nx[s[1]]
  <1>1. /\ size \in Nat \ {0} /\ t \in Seq(Entries) /\ Len(t) = size - 1 /\ s[1] \in Entries
        /\ \A k \in 1 .. size : s[k] \in Entries
        /\ \A k \in 1 .. size - 1 : t[k] = s[k + 1]
    OBVIOUS
  <1>2. /\ d.len = size /\ d.head = s[1] /\ d.tail = s[size]
        /\ \A k \in 1 .. size : nx[s[k]] = IF k = size THEN Nil ELSE s[k + 1]
        /\ \A k \in 1 .. size : pv[s[k]] \in IF k = 1 THEN {Nil} ELSE {s[k - 1], s[k]}
    BY DEF IsList
  <1>3. \A j, k \in 1 .. size : s[j] = s[k] => j = k
    BY DEF Distinct
  <1> HIDE DEF size, t
  <1>4. x \in Entries \cup {Nil} /\ x = IF size = 1 THEN Nil ELSE s[2]
    BY <1>1, <1>2 DEF Links
  <1> HIDE DEF x
  <1>5. Unlinked(d, x) \in Descs /\ PrevUnlinked(pv, x) \in Links
    <2>1. d.tail \in Entries \cup {Nil} /\ d.len - 1 \in Nat
      BY <1>1, <1>2 DEF Descs
    <2>2. Unlinked(d, x) \in Descs
      BY <1>4, <2>1 DEF Unlinked, Descs
    <2>3. PrevUnlinked(pv, x) \in Links
      BY <1>4 DEF PrevUnlinked, Links
    <2> QED
      BY <2>2, <2>3
  <1>6. /\ Unlinked(d, x).len = size - 1
        /\ Unlinked(d, x).head = IF size - 1 = 0 THEN Nil ELSE t[1]
        /\ Unlinked(d, x).tail = IF size - 1 = 0 THEN Nil ELSE t[size - 1]
    BY <1>1, <1>2, <1>4, NilAssumption DEF Unlinked, Descs
  <1>7. ASSUME NEW k \in 1 .. size - 1
        PROVE  nx[t[k]] = IF k = size - 1 THEN Nil ELSE t[k + 1]
    <2>1. k + 1 \in 1 .. size /\ t[k] = s[k + 1] /\ (k # size - 1 => k + 1 \in 1 .. size - 1)
      BY <1>1
    <2> QED
      BY <1>1, <1>2, <2>1
  <1>8. ASSUME NEW k \in 1 .. size - 1
        PROVE  PrevUnlinked(pv, x)[t[k]] \in IF k = 1 THEN {Nil} ELSE {t[k - 1], t[k]}
    <2>1. /\ k + 1 \in 1 .. size /\ t[k] = s[k + 1] /\ t[k] \in Entries /\ size # 1 /\ x = s[2]
          /\ 2 \in 1 .. size /\ s[2] \in Entries
      BY <1>1, <1>4
    <2>2. PrevUnlinked(pv, x) = [pv EXCEPT ![s[2]] = Nil]
      BY <2>1, NilAssumption DEF PrevUnlinked
    <2>3. CASE k = 1
      BY <2>1, <2>2, <2>3 DEF Links
    <2>4. CASE k # 1
      <3>0. k + 1 # 2 /\ k - 1 \in 1 .. size - 1 /\ (k - 1) + 1 = (k + 1) - 1 /\ k + 1 # 1
        BY <1>1, <2>4
      <3>1. s[k + 1] # s[2] /\ k - 1 \in 1 .. size - 1 /\ (k - 1) + 1 = (k + 1) - 1 /\ k + 1 # 1
        BY <1>3, <2>1, <3>0
      <3>2. PrevUnlinked(pv, x)[t[k]] = pv[s[k + 1]]
        BY <2>1, <2>2, <3>1 DEF Links
      <3>3. pv[s[k + 1]] \in {s[(k + 1) - 1], s[k + 1]}
        BY <1>2, <2>1, <3>1
      <3>4. t[k - 1] = s[(k + 1) - 1]
        BY <1>1, <3>1
      <3> QED
        BY <2>1, <2>4, <3>2, <3>3, <3>4
    <2> QED
      BY <2>3, <2>4
  <1>9. IsList(Unlinked(d, x), nx, PrevUnlinked(pv, x), t)
    <2>1. Len(t) = size - 1
      BY <1>1
    <2> QED
      BY <1>6, <1>7, <1>8, <2>1 DEF IsList
  <1> QED
    BY <1>5, <1>9 DEF t, x

-----------------------------------------------------------------------------
(* Appending to one of the lists                                           *)

JoinedLists(it, q, e) == [it EXCEPT ![q] = Append(@, e)]
Shifted(it, q) == [it EXCEPT ![q] = Tail(@)]

LEMMA JoinedOn ==
  ASSUME NEW it \in [Qs -> Seq(Entries)], NEW q \in Qs, NEW e \in Entries
  PROVE  /\ JoinedLists(it, q, e) \in [Qs -> Seq(Entries)]
         /\ \A r \in Qs, x \in Entries :
              On(JoinedLists(it, q, e), r, x) <=> On(it, r, x) \/ (r = q /\ x = e)
         /\ Listed(JoinedLists(it, q, e)) = Listed(it) \cup {e}
  <1> DEFINE s == it[q]
             t == Append(s, e)
             jt == JoinedLists(it, q, e)
  <1>1. /\ s \in Seq(Entries) /\ Len(s) \in Nat /\ t \in Seq(Entries) /\ Len(t) = Len(s) + 1
        /\ t[Len(s) + 1] = e
        /\ \A k \in 1 .. Len(s) : t[k] = s[k]
    OBVIOUS
  <1>2. jt \in [Qs -> Seq(Entries)] /\ jt[q] = t /\ \A r \in Qs : r # q => jt[r] = it[r]
    BY <1>1 DEF JoinedLists
  <1> HIDE DEF t, jt
  <1>3. ASSUME NEW r \in Qs, NEW x \in Entries
        PROVE  On(jt, r, x) <=> On(it, r, x) \/ (r = q /\ x = e)
    <2>1. CASE r # q
      BY <1>2, <2>1 DEF On
    <2>2. CASE r = q
      <3>1. (\E k \in 1 .. Len(t) : t[k] = x) <=> (\E k \in 1 .. Len(s) : s[k] = x) \/ x = e
        <4>1. \A k \in 1 .. Len(t) : k \in 1 .. Len(s) \/ k = Len(s) + 1
          BY <1>1
        <4>2. Len(s) + 1 \in 1 .. Len(t) /\ \A k \in 1 .. Len(s) : k \in 1 .. Len(t)
          BY <1>1
        <4> HIDE DEF s
        <4> QED
          BY <1>1, <4>1, <4>2
      <3> QED
        BY <1>2, <2>2, <3>1 DEF On
    <2> QED
      BY <2>1, <2>2
  <1>4. Listed(jt) = Listed(it) \cup {e}
    BY <1>3 DEF Listed
  <1> QED
    BY <1>2, <1>3, <1>4 DEF jt

LEMMA JoinedApart ==
  ASSUME NEW it \in [Qs -> Seq(Entries)], NEW q \in Qs, NEW e \in Entries, e \notin Listed(it),
         Apart(it)
  PROVE  Apart(JoinedLists(it, q, e))
  <1> DEFINE s == it[q]
             t == Append(s, e)
             jt == JoinedLists(it, q, e)
  <1>1. /\ s \in Seq(Entries) /\ Len(s) \in Nat /\ t \in Seq(Entries) /\ Len(t) = Len(s) + 1
        /\ t[Len(s) + 1] = e
        /\ \A k \in 1 .. Len(s) : t[k] = s[k]
    OBVIOUS
  <1>2. jt[q] = t /\ \A r \in Qs : r # q => jt[r] = it[r]
    BY <1>1 DEF JoinedLists
  <1>3. \A r \in Qs : ~ On(it, r, e)
    BY DEF Listed
  <1>4. \A k \in 1 .. Len(s) : s[k] # e
    BY <1>3 DEF On
  <1>5. Distinct(s)
    BY DEF Apart
  <1>6. Distinct(t)
    <2> HIDE DEF s, t
    <2> QED
      BY <1>1, <1>4, <1>5, SMTT(30) DEF Distinct
  <1>7. \A r \in Qs : Distinct(jt[r])
    BY <1>2, <1>6 DEF Apart
  <1>8. ASSUME NEW r \in Qs, NEW u \in Qs, NEW x \in Entries, On(jt, r, x), On(jt, u, x)
        PROVE  r = u
    <2>1. /\ On(it, r, x) \/ (r = q /\ x = e)
          /\ On(it, u, x) \/ (u = q /\ x = e)
      BY <1>8, JoinedOn
    <2> QED
      BY <1>3, <2>1 DEF Apart
  <1> HIDE DEF jt
  <1> QED
    BY <1>7, <1>8 DEF Apart, jt

LEMMA AppendRepresents ==
  ASSUME NEW l, NEW it, Represents(l, it), NEW q \in Qs, NEW e \in Entries, e \notin Listed(it)
  PROVE  Represents(queue_append(l, q, e), JoinedLists(it, q, e))
  <1> DEFINE d == l.queue[q]
             s == it[q]
             nx == NextAppended(l.next, d.tail, e)
             pv == [l.prev EXCEPT ![e] = d.tail]
             k == queue_append(l, q, e)
             jt == JoinedLists(it, q, e)
  <1>1. /\ l.queue \in [Qs -> Descs] /\ l.next \in Links /\ l.prev \in Links
        /\ it \in [Qs -> Seq(Entries)] /\ d \in Descs /\ s \in Seq(Entries)
    BY DEF Represents
  <1>2. k.queue = [l.queue EXCEPT ![q] = Appended(d, e)] /\ k.next = nx /\ k.prev = pv
    <2>1. k.next = nx /\ k.prev = pv
      BY DEF queue_append, NextAppended
    <2>2. k.queue = [l.queue EXCEPT ![q] = Appended(d, e)]
      BY <1>1, Zenon DEF queue_append, Appended
    <2> QED
      BY <2>1, <2>2
  <1>3. d.tail \in Entries \cup {Nil} /\ Appended(d, e) \in Descs
    <2>1. d \in Descs
      BY <1>1
    <2> HIDE DEF d
    <2>2. d.head \in Entries \cup {Nil} /\ d.tail \in Entries \cup {Nil} /\ d.len + 1 \in Nat
      BY <2>1 DEF Descs
    <2>3. Appended(d, e) \in Descs
      BY <2>1, <2>2 DEF Descs, Appended
    <2> QED
      BY <2>2, <2>3
  <1>4. nx \in Links
    BY <1>1 DEF NextAppended, Links
  <1>5. pv \in Links
    BY <1>1, <1>3 DEF Links
  <1>6. k.queue \in [Qs -> Descs]
    BY <1>1, <1>2, <1>3
  <1>7. jt \in [Qs -> Seq(Entries)] /\ Apart(jt)
    BY <1>1, JoinedOn, JoinedApart DEF Represents
  <1>8. \A r \in Qs : ~ On(it, r, e)
    BY DEF Listed
  <1>9. Distinct(s) /\ IsList(d, l.next, l.prev, s)
    BY DEF Represents, Apart
  <1>10. IsList(Appended(d, e), nx, pv, Append(s, e))
    <2>1. \A j \in 1 .. Len(s) : s[j] # e
      BY <1>8 DEF On
    <2> HIDE DEF d, s
    <2> QED
      BY <1>1, <1>9, <2>1, ListAppended
  <1>11. ASSUME NEW r \in Qs PROVE IsList(k.queue[r], k.next, k.prev, jt[r])
    <2>1. CASE r = q
      <3>1. jt[r] = Append(s, e) /\ k.queue[r] = Appended(d, e)
        BY <1>1, <1>2, <2>1 DEF JoinedLists
      <3> QED
        BY <1>2, <1>10, <3>1
    <2>2. CASE r # q
      <3>1. jt[r] = it[r] /\ k.queue[r] = l.queue[r]
        BY <1>1, <1>2, <2>2 DEF JoinedLists
      <3>2. IsList(l.queue[r], l.next, l.prev, it[r]) /\ it[r] \in Seq(Entries)
        BY DEF Represents
      <3>3. ASSUME NEW j \in 1 .. Len(it[r])
            PROVE  nx[it[r][j]] = l.next[it[r][j]] /\ pv[it[r][j]] = l.prev[it[r][j]]
        <4> DEFINE x == it[r][j]
        <4>1. x \in Entries /\ On(it, r, x)
          BY <3>2 DEF On
        <4>2. x # e
          BY <1>8, <4>1
        <4>3. d.tail # Nil => On(it, q, d.tail) /\ d.tail \in Entries
          BY <1>1, <1>9 DEF IsList, On
        <4>4. x # d.tail
          BY <2>2, <4>1, <4>3, NilAssumption DEF Represents, Apart
        <4> HIDE DEF x, d
        <4>5. nx[x] = l.next[x] /\ pv[x] = l.prev[x]
          BY <1>1, <4>1, <4>2, <4>4 DEF NextAppended, Links
        <4> QED
          BY <4>5 DEF x
      <3>4. IsList(l.queue[r], nx, pv, it[r])
        <4> HIDE DEF nx, pv
        <4> QED
          BY <3>2, <3>3, ListUntouched
      <3> QED
        BY <1>2, <3>1, <3>4
    <2> QED
      BY <2>1, <2>2
  <1> HIDE DEF k, jt, nx, pv
  <1>12. k.next \in Links /\ k.prev \in Links
    BY <1>2, <1>4, <1>5
  <1> QED
    BY <1>6, <1>7, <1>11, <1>12 DEF Represents, k, jt

-----------------------------------------------------------------------------
(* Taking the first entry off one of the lists                             *)

LEMMA ShiftedOn ==
  ASSUME NEW it \in [Qs -> Seq(Entries)], NEW q \in Qs, Len(it[q]) # 0, Apart(it)
  PROVE  /\ Shifted(it, q) \in [Qs -> Seq(Entries)]
         /\ it[q][1] \in Entries /\ On(it, q, it[q][1])
         /\ \A r \in Qs, x \in Entries : On(Shifted(it, q), r, x) <=> On(it, r, x) /\ x # it[q][1]
         /\ Listed(Shifted(it, q)) = Listed(it) \ {it[q][1]}
  <1> DEFINE s == it[q]
             t == Tail(s)
             e == s[1]
             jt == Shifted(it, q)
  <1>1. /\ s \in Seq(Entries) /\ Len(s) \in Nat /\ Len(s) # 0 /\ t \in Seq(Entries)
        /\ Len(t) = Len(s) - 1 /\ e \in Entries
        /\ \A k \in 1 .. Len(s) - 1 : t[k] = s[k + 1]
    OBVIOUS
  <1>2. jt \in [Qs -> Seq(Entries)] /\ jt[q] = t /\ \A r \in Qs : r # q => jt[r] = it[r]
    BY <1>1 DEF Shifted
  <1>3. On(it, q, e)
    BY <1>1 DEF On
  <1>4. \A j, k \in 1 .. Len(s) : s[j] = s[k] => j = k
    BY DEF Apart, Distinct
  <1> HIDE DEF t, jt
  <1>5. ASSUME NEW r \in Qs, NEW x \in Entries
        PROVE  On(jt, r, x) <=> On(it, r, x) /\ x # e
    <2>1. CASE r # q
      <3>1. On(jt, r, x) <=> On(it, r, x)
        BY <1>2, <2>1 DEF On
      <3>2. ~ On(it, r, e)
        BY <1>1, <1>3, <2>1 DEF Apart
      <3> QED
        BY <3>1, <3>2
    <2>2. CASE r = q
      <3>1. (\E k \in 1 .. Len(t) : t[k] = x) <=> (\E k \in 1 .. Len(s) : s[k] = x) /\ x # e
        <4>1. ASSUME NEW k \in 1 .. Len(t), t[k] = x
              PROVE  (\E j \in 1 .. Len(s) : s[j] = x) /\ x # e
          <5>1. k + 1 \in 1 .. Len(s) /\ 1 \in 1 .. Len(s) /\ k + 1 # 1 /\ s[k + 1] = x
            BY <1>1, <4>1
          <5> HIDE DEF s
          <5> QED
            BY <1>4, <5>1 DEF e
        <4>2. ASSUME NEW k \in 1 .. Len(s), s[k] = x, x # e
              PROVE  \E j \in 1 .. Len(t) : t[j] = x
          <5>1. k # 1
            BY <4>2
          <5>2. k - 1 \in 1 .. Len(t) /\ t[k - 1] = x
            BY <1>1, <4>2, <5>1
          <5> QED
            BY <5>2
        <4> HIDE DEF s, e
        <4> QED
          BY <4>1, <4>2
      <3> QED
        BY <1>2, <2>2, <3>1 DEF On
    <2> QED
      BY <2>1, <2>2
  <1>6. Listed(jt) = Listed(it) \ {e}
    <2> HIDE DEF e
    <2> QED
      BY <1>5 DEF Listed
  <1> QED
    BY <1>1, <1>2, <1>3, <1>5, <1>6 DEF jt

LEMMA ShiftedApart ==
  ASSUME NEW it \in [Qs -> Seq(Entries)], NEW q \in Qs, Len(it[q]) # 0, Apart(it)
  PROVE  Apart(Shifted(it, q))
  <1> DEFINE s == it[q]
             t == Tail(s)
             jt == Shifted(it, q)
  <1>1. /\ s \in Seq(Entries) /\ Len(s) \in Nat /\ Len(s) # 0 /\ t \in Seq(Entries)
        /\ Len(t) = Len(s) - 1
        /\ \A k \in 1 .. Len(s) - 1 : t[k] = s[k + 1]
    OBVIOUS
  <1>2. jt[q] = t /\ \A r \in Qs : r # q => jt[r] = it[r]
    BY <1>1 DEF Shifted
  <1>3. Distinct(s)
    BY DEF Apart
  <1>4. Distinct(t)
    <2> HIDE DEF s, t
    <2>1. ASSUME NEW j \in 1 .. Len(t), NEW k \in 1 .. Len(t), t[j] = t[k]
          PROVE  j = k
      <3>1. j + 1 \in 1 .. Len(s) /\ k + 1 \in 1 .. Len(s) /\ s[j + 1] = s[k + 1]
        BY <1>1, <2>1
      <3>2. j + 1 = k + 1
        BY <1>3, <3>1 DEF Distinct
      <3> QED
        BY <1>1, <3>2
    <2> QED
      BY <2>1 DEF Distinct
  <1>5. \A r \in Qs : Distinct(jt[r])
    BY <1>2, <1>4 DEF Apart
  <1>6. ASSUME NEW r \in Qs, NEW u \in Qs, NEW x \in Entries, On(jt, r, x), On(jt, u, x)
        PROVE  r = u
    <2>1. On(it, r, x) /\ On(it, u, x)
      BY <1>6, ShiftedOn
    <2> QED
      BY <2>1 DEF Apart
  <1> HIDE DEF jt
  <1> QED
    BY <1>5, <1>6 DEF Apart, jt

LEMMA UnlinkRepresents ==
  ASSUME NEW l, NEW it, Represents(l, it), NEW q \in Qs, l.queue[q].head # Nil
  PROVE  /\ Len(it[q]) # 0 /\ l.queue[q].head = it[q][1]
         /\ Represents(queue_unlink(l, q, it[q][1]), Shifted(it, q))
  <1> DEFINE d == l.queue[q]
             s == it[q]
             size == l.next[s[1]]
             pv == PrevUnlinked(l.prev, size)
             k == queue_unlink(l, q, s[1])
             jt == Shifted(it, q)
  <1>1. /\ l.queue \in [Qs -> Descs] /\ l.next \in Links /\ l.prev \in Links
        /\ it \in [Qs -> Seq(Entries)] /\ d \in Descs /\ s \in Seq(Entries)
    BY DEF Represents
  <1>2. Distinct(s) /\ IsList(d, l.next, l.prev, s)
    BY DEF Represents, Apart
  <1>3. Len(s) # 0 /\ d.head = s[1] /\ l.prev[s[1]] = Nil
    <2>1. Len(s) # 0 /\ d.head = s[1]
      BY <1>1, <1>2 DEF IsList
    <2>2. 1 \in 1 .. Len(s)
      BY <1>1, <2>1
    <2>3. l.prev[s[1]] \in IF 1 = 1 THEN {Nil} ELSE {s[1 - 1], s[1]}
      BY <1>2, <2>2 DEF IsList
    <2> QED
      BY <2>1, <2>3
  <1>4. s[1] \in Entries /\ size \in Entries \cup {Nil}
    BY <1>1, <1>3 DEF Links
  <1>5. k.queue = [l.queue EXCEPT ![q] = Unlinked(d, size)] /\ k.next = l.next /\ k.prev = pv
    <2>1. k.next = l.next /\ k.prev = pv
      BY <1>3 DEF queue_unlink, PrevUnlinked
    <2>2. k.queue = [l.queue EXCEPT ![q].tail = IF size = Nil THEN Nil ELSE @,
                                    ![q].head = size, ![q].len = @ - 1]
      BY <1>3 DEF queue_unlink
    <2> HIDE DEF size, k
    <2> QED
      BY <1>1, <2>1, <2>2, Zenon DEF Unlinked
  <1>6. /\ IsList(Unlinked(d, size), l.next, pv, Tail(s))
        /\ Unlinked(d, size) \in Descs /\ pv \in Links
    <2> HIDE DEF d, s
    <2> QED
      BY <1>1, <1>2, <1>3, ListUnlinked DEF size, pv
  <1>7. jt \in [Qs -> Seq(Entries)] /\ Apart(jt)
    BY <1>1, <1>3, ShiftedOn, ShiftedApart DEF Represents
  <1>8. k.queue \in [Qs -> Descs]
    BY <1>1, <1>5, <1>6
  <1>9. ASSUME NEW r \in Qs PROVE IsList(k.queue[r], k.next, k.prev, jt[r])
    <2>1. CASE r = q
      <3>1. jt[r] = Tail(s) /\ k.queue[r] = Unlinked(d, size)
        BY <1>1, <1>5, <2>1 DEF Shifted
      <3> QED
        BY <1>5, <1>6, <3>1
    <2>2. CASE r # q
      <3>1. jt[r] = it[r] /\ k.queue[r] = l.queue[r]
        BY <1>1, <1>5, <2>2 DEF Shifted
      <3>2. IsList(l.queue[r], l.next, l.prev, it[r]) /\ it[r] \in Seq(Entries)
        BY DEF Represents
      <3>3. ASSUME NEW j \in 1 .. Len(it[r])
            PROVE  pv[it[r][j]] = l.prev[it[r][j]]
        <4> DEFINE x == it[r][j]
        <4>1. x \in Entries /\ On(it, r, x)
          BY <3>2 DEF On
        <4>2. size # Nil => On(it, q, size)
          <5>1. size # Nil => Len(s) # 1 /\ size = s[2] /\ 2 \in 1 .. Len(s)
            BY <1>1, <1>2, <1>3 DEF IsList
          <5> HIDE DEF size
          <5> QED
            BY <5>1 DEF On
        <4>3. x # size
          BY <1>4, <2>2, <4>1, <4>2, NilAssumption DEF Represents, Apart
        <4> HIDE DEF x, size
        <4>4. pv[x] = l.prev[x]
          BY <1>1, <4>1, <4>3 DEF PrevUnlinked, Links
        <4> QED
          BY <4>4 DEF x
      <3>4. IsList(l.queue[r], l.next, pv, it[r])
        <4> HIDE DEF pv
        <4> QED
          BY <3>2, <3>3, ListUntouched
      <3> QED
        BY <1>5, <3>1, <3>4
    <2> QED
      BY <2>1, <2>2
  <1> HIDE DEF k, jt, pv
  <1>10. k.next \in Links /\ k.prev \in Links
    BY <1>1, <1>5, <1>6
  <1>11. Represents(k, jt)
    BY <1>7, <1>8, <1>9, <1>10 DEF Represents
  <1> QED
    BY <1>3, <1>11 DEF k, jt

-----------------------------------------------------------------------------
(* Putting an entry in front of another                                    *)

\* t is s with e put in front of its j-th element.
Spliced(t, s, j, e, S) ==
  /\ t \in Seq(S) /\ Len(t) = Len(s) + 1
  /\ \A k \in 1 .. Len(s) + 1 : t[k] = IF k < j THEN s[k] ELSE IF k = j THEN e ELSE s[k - 1]

\* InsertAtProperties, for use by name.
LEMMA InsertSpliced ==
  ASSUME NEW S, NEW s \in Seq(S), NEW j \in 1 .. Len(s) + 1, NEW e \in S
  PROVE  Spliced(InsertAt(s, j, e), s, j, e, S)
  <1>1. InsertAt(s, j, e) \in Seq(S)
    BY InsertAtProperties
  <1>2. Len(InsertAt(s, j, e)) = Len(s) + 1
    BY InsertAtProperties
  <1>3. ASSUME NEW k \in 1 .. Len(s) + 1
        PROVE  InsertAt(s, j, e)[k] = IF k < j THEN s[k] ELSE IF k = j THEN e ELSE s[k - 1]
    BY InsertAtProperties, SMTT(60)
  <1> QED
    BY <1>1, <1>2, <1>3 DEF Spliced

Wedged(it, q, j, e) == [it EXCEPT ![q] = InsertAt(@, j, e)]

LEMMA WedgedOn ==
  ASSUME NEW it \in [Qs -> Seq(Entries)], NEW q \in Qs, NEW j \in 1 .. Len(it[q]), NEW e \in Entries
  PROVE  /\ Wedged(it, q, j, e) \in [Qs -> Seq(Entries)]
         /\ \A r \in Qs, x \in Entries :
              On(Wedged(it, q, j, e), r, x) <=> On(it, r, x) \/ (r = q /\ x = e)
         /\ Listed(Wedged(it, q, j, e)) = Listed(it) \cup {e}
  <1> DEFINE s == it[q]
             t == InsertAt(s, j, e)
             jt == Wedged(it, q, j, e)
  <1>1. s \in Seq(Entries) /\ Len(s) \in Nat /\ j \in 1 .. Len(s) + 1 /\ j \in 1 .. Len(s)
    OBVIOUS
  <1>2. /\ t \in Seq(Entries) /\ Len(t) = Len(s) + 1
        /\ \A k \in 1 .. Len(s) + 1 :
             t[k] = IF k < j THEN s[k] ELSE IF k = j THEN e ELSE s[k - 1]
    <2> HIDE DEF s
    <2>1. s \in Seq(Entries) /\ j \in 1 .. Len(s) + 1 /\ e \in Entries
      BY <1>1
    <2>2. Spliced(t, s, j, e, Entries)
      BY <2>1, InsertSpliced
    <2> QED
      BY <2>2 DEF Spliced
  <1> HIDE DEF t
  <1>3. jt \in [Qs -> Seq(Entries)] /\ jt[q] = t /\ \A r \in Qs : r # q => jt[r] = it[r]
    BY <1>2 DEF Wedged, t
  <1> HIDE DEF jt
  <1>4. ASSUME NEW r \in Qs, NEW x \in Entries
        PROVE  On(jt, r, x) <=> On(it, r, x) \/ (r = q /\ x = e)
    <2>1. CASE r # q
      BY <1>3, <2>1 DEF On
    <2>2. CASE r = q
      <3>1. (\E k \in 1 .. Len(t) : t[k] = x) <=> (\E k \in 1 .. Len(s) : s[k] = x) \/ x = e
        <4> HIDE DEF s
        <4>1. ASSUME NEW k \in 1 .. Len(t), t[k] = x
              PROVE  (\E g \in 1 .. Len(s) : s[g] = x) \/ x = e
          <5>1. k < j => k \in 1 .. Len(s)
            BY <1>1
          <5>2. k > j => k - 1 \in 1 .. Len(s)
            BY <1>1, <1>2
          <5>3. k \in 1 .. Len(s) + 1
            BY <1>2
          <5>4. x = IF k < j THEN s[k] ELSE IF k = j THEN e ELSE s[k - 1]
            BY <1>2, <4>1, <5>3
          <5>5. k < j \/ k = j \/ k > j
            BY <1>1, <5>3
          <5>6. CASE k < j
            BY <5>1, <5>4, <5>6
          <5>7. CASE k = j
            BY <1>1, <5>4, <5>7
          <5>8. CASE k > j
            <6>1. ~ k < j /\ k # j
              BY <1>1, <5>3, <5>8
            <6> QED
              BY <5>2, <5>4, <5>8, <6>1
          <5> QED
            BY <5>5, <5>6, <5>7, <5>8
        <4>2. ASSUME NEW k \in 1 .. Len(s), s[k] = x
              PROVE  \E g \in 1 .. Len(t) : t[g] = x
          <5>1. CASE k < j
            <6>1. k \in 1 .. Len(t) /\ t[k] = x
              BY <1>1, <1>2, <4>2, <5>1
            <6> QED
              BY <6>1
          <5>2. CASE ~ k < j
            <6>1. k + 1 \in 1 .. Len(s) + 1 /\ ~ k + 1 < j /\ k + 1 # j /\ (k + 1) - 1 = k
              BY <1>1, <5>2
            <6>2. k + 1 \in 1 .. Len(t) /\ t[k + 1] = x
              BY <1>2, <4>2, <6>1
            <6> QED
              BY <6>2
          <5> QED
            BY <5>1, <5>2
        <4>3. j \in 1 .. Len(t) /\ t[j] = e
          BY <1>1, <1>2
        <4> QED
          BY <4>1, <4>2, <4>3
      <3> QED
        BY <1>3, <2>2, <3>1 DEF On
    <2> QED
      BY <2>1, <2>2
  <1>5. Listed(jt) = Listed(it) \cup {e}
    BY <1>4 DEF Listed
  <1> QED
    BY <1>3, <1>4, <1>5 DEF jt

LEMMA WedgedApart ==
  ASSUME NEW it \in [Qs -> Seq(Entries)], NEW q \in Qs, NEW j \in 1 .. Len(it[q]), NEW e \in Entries,
         e \notin Listed(it), Apart(it)
  PROVE  Apart(Wedged(it, q, j, e))
  <1> DEFINE s == it[q]
             t == InsertAt(s, j, e)
             jt == Wedged(it, q, j, e)
  <1>1. s \in Seq(Entries) /\ Len(s) \in Nat /\ j \in 1 .. Len(s) + 1 /\ j \in 1 .. Len(s)
    OBVIOUS
  <1>2. /\ t \in Seq(Entries) /\ Len(t) = Len(s) + 1
        /\ \A k \in 1 .. Len(s) + 1 :
             t[k] = IF k < j THEN s[k] ELSE IF k = j THEN e ELSE s[k - 1]
    <2> HIDE DEF s
    <2>1. s \in Seq(Entries) /\ j \in 1 .. Len(s) + 1 /\ e \in Entries
      BY <1>1
    <2>2. Spliced(t, s, j, e, Entries)
      BY <2>1, InsertSpliced
    <2> QED
      BY <2>2 DEF Spliced
  <1> HIDE DEF t
  <1>3. jt[q] = t /\ \A r \in Qs : r # q => jt[r] = it[r]
    BY <1>2 DEF Wedged, t
  <1> HIDE DEF jt
  <1>4. \A r \in Qs : ~ On(it, r, e)
    BY DEF Listed
  <1>5. \A k \in 1 .. Len(s) : s[k] # e
    BY <1>4 DEF On
  <1>6. \A g, k \in 1 .. Len(s) : s[g] = s[k] => g = k
    BY DEF Apart, Distinct
  <1>7. Distinct(t)
    <2> HIDE DEF s
    <2>1. ASSUME NEW g \in 1 .. Len(t), NEW k \in 1 .. Len(t), t[g] = t[k]
          PROVE  g = k
      <3>1. g \in 1 .. Len(s) + 1 /\ k \in 1 .. Len(s) + 1
        BY <1>2
      <3> DEFINE from(y) == IF y < j THEN y ELSE y - 1
      <3>4. ASSUME NEW y \in 1 .. Len(s) + 1, y # j
            PROVE  from(y) \in 1 .. Len(s) /\ t[y] = s[from(y)] /\ t[y] # e
        <4>1. from(y) \in 1 .. Len(s)
          BY <1>1, <3>4
        <4>2. t[y] = s[from(y)]
          BY <1>2, <3>4
        <4> QED
          BY <1>5, <4>1, <4>2
      <3>5. t[j] = e
        BY <1>1, <1>2
      <3>6. CASE g = j \/ k = j
        BY <2>1, <3>1, <3>4, <3>5, <3>6
      <3>7. CASE g # j /\ k # j
        <4>1. from(g) = from(k)
          <5>1. s[from(g)] = s[from(k)] /\ from(g) \in 1 .. Len(s) /\ from(k) \in 1 .. Len(s)
            BY <2>1, <3>1, <3>4, <3>7
          <5> HIDE DEF from
          <5> QED
            BY <1>6, <5>1
        <4> QED
          BY <1>1, <3>1, <3>7, <4>1
      <3> QED
        BY <3>6, <3>7
    <2> QED
      BY <2>1 DEF Distinct
  <1>8. \A r \in Qs : Distinct(jt[r])
    BY <1>3, <1>7 DEF Apart
  <1>9. ASSUME NEW r \in Qs, NEW u \in Qs, NEW x \in Entries, On(jt, r, x), On(jt, u, x)
        PROVE  r = u
    <2>1. /\ On(it, r, x) \/ (r = q /\ x = e)
          /\ On(it, u, x) \/ (u = q /\ x = e)
      BY <1>9, WedgedOn DEF jt
    <2> QED
      BY <1>4, <2>1 DEF Apart
  <1> QED
    BY <1>8, <1>9 DEF Apart, jt

\* What LinkBefore does to the descriptor and the links.
Longer(d, p, e) == [d EXCEPT !.len = @ + 1, !.head = IF p = Nil THEN e ELSE @]
NextWedged(nx, p, e, x) == [y \in Entries |-> IF y = p THEN e ELSE IF y = e THEN x ELSE nx[y]]
PrevWedged(pv, p, e, x) == [pv EXCEPT ![e] = p, ![x] = x]

LEMMA ListWedged ==
  ASSUME NEW d \in Descs, NEW nx \in Links, NEW pv \in Links, NEW s \in Seq(Entries),
         NEW e \in Entries, NEW j \in 1 .. Len(s), IsList(d, nx, pv, s), Distinct(s),
         \A k \in 1 .. Len(s) : s[k] # e, pv[s[j]] # s[j]
  PROVE  IsList(Longer(d, pv[s[j]], e), NextWedged(nx, pv[s[j]], e, s[j]),
                PrevWedged(pv, pv[s[j]], e, s[j]), InsertAt(s, j, e))
  <1> DEFINE size == Len(s)
             t == InsertAt(s, j, e)
             p == pv[s[j]]
             nw == NextWedged(nx, p, e, s[j])
             pw == PrevWedged(pv, p, e, s[j])
  <1>1. /\ size \in Nat /\ j \in 1 .. size /\ j \in 1 .. size + 1
        /\ \A k \in 1 .. size : s[k] \in Entries /\ s[k] # e
    OBVIOUS
  <1>2. /\ t \in Seq(Entries) /\ Len(t) = size + 1
        /\ \A k \in 1 .. size + 1 :
             t[k] = IF k < j THEN s[k] ELSE IF k = j THEN e ELSE s[k - 1]
    <2>1. Spliced(t, s, j, e, Entries)
      BY <1>1, InsertSpliced
    <2> QED
      BY <1>1, <2>1 DEF Spliced
  <1>3. /\ d.len = size /\ d.head = IF size = 0 THEN Nil ELSE s[1]
        /\ d.tail = IF size = 0 THEN Nil ELSE s[size]
        /\ \A k \in 1 .. size : nx[s[k]] = IF k = size THEN Nil ELSE s[k + 1]
        /\ \A k \in 1 .. size : pv[s[k]] \in IF k = 1 THEN {Nil} ELSE {s[k - 1], s[k]}
    BY DEF IsList
  <1>4. \A g, k \in 1 .. size : s[g] = s[k] => g = k
    BY DEF Distinct
  <1> HIDE DEF size, t
  <1>5. p = (IF j = 1 THEN Nil ELSE s[j - 1]) /\ p \in Entries \cup {Nil} /\ p # e
    <2>1. j # 1 => j - 1 \in 1 .. size
      BY <1>1
    <2>2. p \in IF j = 1 THEN {Nil} ELSE {s[j - 1], s[j]}
      BY <1>1, <1>3
    <2> HIDE DEF p
    <2> QED
      BY <1>1, <2>1, <2>2, NilAssumption DEF p
  <1> HIDE DEF p
  <1>6. \A y \in Entries : nw[y] = IF y = p THEN e ELSE IF y = e THEN s[j] ELSE nx[y]
    BY DEF NextWedged
  <1>7. \A y \in Entries : pw[y] = IF y = s[j] THEN s[j] ELSE IF y = e THEN p ELSE pv[y]
    BY <1>1 DEF PrevWedged, Links
  <1> HIDE DEF nw, pw
  <1>8. /\ Longer(d, p, e).len = size + 1 /\ Longer(d, p, e).tail = t[size + 1]
        /\ Longer(d, p, e).head = t[1]
    <2>1. /\ Longer(d, p, e).len = size + 1 /\ Longer(d, p, e).tail = d.tail
          /\ Longer(d, p, e).head = IF p = Nil THEN e ELSE d.head
      BY <1>3 DEF Longer, Descs
    <2>2. t[size + 1] = s[size] /\ size # 0
      <3>1. size + 1 \in 1 .. size + 1 /\ ~ size + 1 < j /\ size + 1 # j /\ (size + 1) - 1 = size
        BY <1>1
      <3> QED
        BY <1>1, <1>2, <3>1
    <2>3. t[1] = IF j = 1 THEN e ELSE s[1]
      BY <1>1, <1>2
    <2>4. p = Nil <=> j = 1
      <3>1. j # 1 => j - 1 \in 1 .. size
        BY <1>1
      <3> QED
        BY <1>1, <1>5, <3>1, NilAssumption
    <2> QED
      BY <1>3, <2>1, <2>2, <2>3, <2>4
  <1>9. ASSUME NEW k \in 1 .. size + 1
        PROVE  nw[t[k]] = IF k = size + 1 THEN Nil ELSE t[k + 1]
    <2>1. CASE k < j
      <3>1. k \in 1 .. size /\ t[k] = s[k] /\ s[k] \in Entries /\ s[k] # e /\ k # size
            /\ k + 1 \in 1 .. size /\ k + 1 \in 1 .. size + 1 /\ k # size + 1 /\ j - 1 \in 1 .. size /\ j # 1
        BY <1>1, <1>2, <2>1
      <3>2. nw[t[k]] = IF s[k] = s[j - 1] THEN e ELSE s[k + 1]
        BY <1>3, <1>5, <1>6, <3>1
      <3>3. t[k + 1] = IF k + 1 < j THEN s[k + 1] ELSE IF k + 1 = j THEN e ELSE s[(k + 1) - 1]
        BY <1>2, <3>1
      <3>4. s[k] = s[j - 1] <=> k + 1 = j
        BY <1>1, <1>4, <3>1
      <3>5. k + 1 < j \/ k + 1 = j
        BY <1>1, <2>1
      <3> QED
        BY <3>1, <3>2, <3>3, <3>4, <3>5
    <2>2. CASE k = j
      <3>1. t[k] = e /\ k # size + 1 /\ k + 1 \in 1 .. size + 1 /\ ~ k + 1 < j /\ k + 1 # j /\ (k + 1) - 1 = j
        BY <1>1, <1>2, <2>2
      <3>2. t[k + 1] = s[j]
        BY <1>2, <3>1
      <3> QED
        BY <1>5, <1>6, <3>1, <3>2
    <2>3. CASE k > j
      <3>1. k - 1 \in 1 .. size /\ ~ k < j /\ k # j /\ (k = size + 1 <=> k - 1 = size)
        BY <1>1, <2>3
      <3>2. t[k] = s[k - 1] /\ s[k - 1] \in Entries /\ s[k - 1] # e
        BY <1>1, <1>2, <3>1
      <3>3. s[k - 1] # p
        <4>1. j # 1 => j - 1 \in 1 .. size /\ j - 1 # k - 1
          BY <1>1, <2>3
        <4> QED
          BY <1>4, <1>5, <3>1, <3>2, <4>1, NilAssumption
      <3>4. nw[t[k]] = IF k - 1 = size THEN Nil ELSE s[(k - 1) + 1]
        BY <1>3, <1>6, <3>1, <3>2, <3>3
      <3>5. CASE k = size + 1
        BY <3>1, <3>4, <3>5
      <3>6. CASE k # size + 1
        <4>1. k + 1 \in 1 .. size + 1 /\ ~ k + 1 < j /\ k + 1 # j /\ (k + 1) - 1 = (k - 1) + 1
          BY <1>1, <2>3, <3>6
        <4>2. t[k + 1] = s[(k + 1) - 1]
          BY <1>2, <4>1
        <4> QED
          BY <3>1, <3>4, <3>6, <4>1, <4>2
      <3> QED
        BY <3>5, <3>6
    <2> QED
      BY <1>1, <2>1, <2>2, <2>3
  <1>10. ASSUME NEW k \in 1 .. size + 1
         PROVE  pw[t[k]] \in IF k = 1 THEN {Nil} ELSE {t[k - 1], t[k]}
    <2>1. CASE k < j
      <3>1. k \in 1 .. size /\ t[k] = s[k] /\ s[k] \in Entries /\ s[k] # e /\ s[k] # s[j]
        BY <1>1, <1>2, <1>4, <2>1
      <3>2. pw[t[k]] \in IF k = 1 THEN {Nil} ELSE {s[k - 1], s[k]}
        <4>1. pw[t[k]] = pv[s[k]]
          BY <1>7, <3>1
        <4>2. pv[s[k]] \in IF k = 1 THEN {Nil} ELSE {s[k - 1], s[k]}
          BY <1>3, <3>1
        <4> QED
          BY <4>1, <4>2
      <3>3. k # 1 => k - 1 \in 1 .. size + 1 /\ k - 1 < j
        BY <1>1, <2>1
      <3>4. k # 1 => t[k - 1] = s[k - 1]
        BY <1>2, <3>3
      <3> QED
        BY <3>1, <3>2, <3>4
    <2>2. CASE k = j
      <3>1. t[k] = e /\ s[j] # e
        BY <1>1, <1>2, <2>2
      <3>2. pw[t[k]] = p
        BY <1>7, <3>1
      <3>3. k # 1 => k - 1 \in 1 .. size + 1 /\ k - 1 < j
        BY <1>1, <2>2
      <3>4. k # 1 => t[k - 1] = s[k - 1]
        BY <1>2, <3>3
      <3> QED
        BY <1>5, <2>2, <3>2, <3>4
    <2>3. CASE k > j
      <3>1. k - 1 \in 1 .. size /\ ~ k < j /\ k # j /\ k # 1
        BY <1>1, <2>3
      <3>2. t[k] = s[k - 1] /\ s[k - 1] \in Entries /\ s[k - 1] # e
        BY <1>1, <1>2, <3>1
      <3>3. CASE k - 1 = j
        BY <1>7, <3>1, <3>2, <3>3
      <3>4. CASE k - 1 # j
        <4>1. k - 1 # 1 /\ k - 1 \in 1 .. size + 1 /\ ~ k - 1 < j /\ k - 1 # j
          BY <1>1, <2>3, <3>1, <3>4
        <4>2. t[k - 1] = s[(k - 1) - 1]
          BY <1>2, <4>1
        <4>3. s[k - 1] # s[j]
          BY <1>1, <1>4, <3>1, <3>4
        <4>4. pw[t[k]] \in {s[(k - 1) - 1], s[k - 1]}
          <5>1. pw[t[k]] = pv[s[k - 1]]
            BY <1>7, <3>2, <4>3
          <5>2. pv[s[k - 1]] \in IF k - 1 = 1 THEN {Nil} ELSE {s[(k - 1) - 1], s[k - 1]}
            BY <1>3, <3>1
          <5> QED
            BY <4>1, <5>1, <5>2
        <4> QED
          BY <3>1, <3>2, <4>2, <4>4
      <3> QED
        BY <3>3, <3>4
    <2> QED
      BY <1>1, <2>1, <2>2, <2>3
  <1>11. Len(t) = size + 1 /\ size + 1 # 0
    BY <1>1, <1>2
  <1>12. IsList(Longer(d, p, e), nw, pw, t)
    BY <1>8, <1>9, <1>10, <1>11 DEF IsList
  <1> QED
    BY <1>12 DEF t, p, nw, pw

LEMMA WedgeRepresents ==
  ASSUME NEW l, NEW it, Represents(l, it), NEW q \in Qs, NEW j \in 1 .. Len(it[q]), NEW e \in Entries,
         e \notin Listed(it), l.prev[it[q][j]] # it[q][j]
  PROVE  /\ Represents(LinkBefore(l, q, it[q][j], e), Wedged(it, q, j, e))
         /\ Listed(Wedged(it, q, j, e)) = Listed(it) \cup {e}
  <1> DEFINE d == l.queue[q]
             s == it[q]
             x == s[j]
             p == l.prev[x]
             nx == NextWedged(l.next, p, e, x)
             pv == PrevWedged(l.prev, p, e, x)
             k == LinkBefore(l, q, x, e)
             jt == Wedged(it, q, j, e)
  <1>1. /\ l.queue \in [Qs -> Descs] /\ l.next \in Links /\ l.prev \in Links
        /\ it \in [Qs -> Seq(Entries)] /\ d \in Descs /\ s \in Seq(Entries)
    BY DEF Represents
  <1>2. x \in Entries /\ p \in Entries \cup {Nil} /\ On(it, q, x)
    BY <1>1 DEF Links, On
  <1>3. Distinct(s) /\ IsList(d, l.next, l.prev, s)
    BY DEF Represents, Apart
  <1>4. p # Nil => On(it, q, p)
    <2>1. p \in IF j = 1 THEN {Nil} ELSE {s[j - 1], s[j]}
      BY <1>3 DEF IsList
    <2>2. Len(s) \in Nat /\ j \in 1 .. Len(s) /\ (j # 1 => j - 1 \in 1 .. Len(s))
      BY <1>1
    <2> HIDE DEF p
    <2> QED
      BY <2>1, <2>2 DEF On
  <1>5. \A r \in Qs : ~ On(it, r, e)
    BY DEF Listed
  <1>6. IsList(Longer(d, p, e), nx, pv, InsertAt(s, j, e))
    <2>1. \A g \in 1 .. Len(s) : s[g] # e
      BY <1>5 DEF On
    <2>2. j \in 1 .. Len(s) /\ l.prev[s[j]] # s[j]
      OBVIOUS
    <2> HIDE DEF d, s
    <2> QED
      BY <1>1, <1>3, <2>1, <2>2, ListWedged
  <1>7. jt \in [Qs -> Seq(Entries)] /\ Apart(jt) /\ Listed(jt) = Listed(it) \cup {e}
    BY <1>1, WedgedOn, WedgedApart DEF Represents
  <1>8. jt[q] = InsertAt(s, j, e) /\ \A r \in Qs : r # q => jt[r] = it[r]
    BY <1>1 DEF Wedged
  <1> HIDE DEF jt, x, p
  <1>9. k.queue = [l.queue EXCEPT ![q] = Longer(d, p, e)] /\ k.next = nx /\ k.prev = pv
    <2>1. k.next = nx /\ k.prev = pv
      BY DEF LinkBefore, NextWedged, PrevWedged, p
    <2>2. k.queue = [l.queue EXCEPT ![q].len = @ + 1, ![q].head = IF p = Nil THEN e ELSE @]
      BY DEF LinkBefore, p
    <2> HIDE DEF k
    <2> QED
      BY <1>1, <2>1, <2>2, Zenon DEF Longer
  <1> HIDE DEF k
  <1>10. Longer(d, p, e) \in Descs
    <2> HIDE DEF d
    <2>1. d.head \in Entries \cup {Nil} /\ d.tail \in Entries \cup {Nil} /\ d.len + 1 \in Nat
      BY <1>1 DEF Descs
    <2> QED
      BY <1>1, <2>1 DEF Descs, Longer
  <1>11. nx \in Links
    BY <1>1, <1>2 DEF NextWedged, Links
  <1>12. pv \in Links
    BY <1>1, <1>2 DEF PrevWedged, Links
  <1>13. k.queue \in [Qs -> Descs] /\ k.next \in Links /\ k.prev \in Links
    BY <1>1, <1>9, <1>10, <1>11, <1>12
  <1>14. ASSUME NEW r \in Qs PROVE IsList(k.queue[r], k.next, k.prev, jt[r])
    <2>1. CASE r = q
      <3>1. k.queue[r] = Longer(d, p, e)
        BY <1>1, <1>9, <2>1
      <3> QED
        BY <1>6, <1>8, <1>9, <2>1, <3>1
    <2>2. CASE r # q
      <3>1. jt[r] = it[r] /\ k.queue[r] = l.queue[r]
        BY <1>1, <1>8, <1>9, <2>2
      <3>2. IsList(l.queue[r], l.next, l.prev, it[r]) /\ it[r] \in Seq(Entries)
        BY DEF Represents
      <3>3. ASSUME NEW g \in 1 .. Len(it[r])
            PROVE  nx[it[r][g]] = l.next[it[r][g]] /\ pv[it[r][g]] = l.prev[it[r][g]]
        <4> DEFINE y == it[r][g]
        <4>1. y \in Entries /\ On(it, r, y)
          BY <3>2 DEF On
        <4> HIDE DEF y
        <4>2. y # e
          BY <1>5, <4>1
        <4>3. y # x
          BY <1>2, <2>2, <4>1 DEF Represents, Apart
        <4>4. y # p
          BY <1>2, <1>4, <2>2, <4>1, NilAssumption DEF Represents, Apart
        <4>5. nx[y] = l.next[y]
          BY <4>1, <4>2, <4>4 DEF NextWedged
        <4>6. pv[y] = l.prev[y]
          BY <1>1, <1>2, <4>1, <4>2, <4>3 DEF PrevWedged, Links
        <4> QED
          BY <4>5, <4>6 DEF y
      <3>4. IsList(l.queue[r], nx, pv, it[r])
        <4> HIDE DEF nx, pv
        <4> QED
          BY <3>2, <3>3, ListUntouched
      <3> QED
        BY <1>9, <3>1, <3>4
    <2> QED
      BY <2>1, <2>2
  <1>15. Represents(k, jt)
    BY <1>7, <1>13, <1>14 DEF Represents
  <1> QED
    BY <1>7, <1>15 DEF k, jt, x

-----------------------------------------------------------------------------
(* What walks over represented lists find                                  *)

LEMMA WalkNext ==
  ASSUME NEW l, NEW it, Represents(l, it), NEW q \in Qs, NEW k \in 0 .. Len(it[q]) - 1
  PROVE  Walk(l.next, l.queue[q].head, k) = it[q][k + 1] /\ it[q][k + 1] \in Entries
  <1> DEFINE s == it[q]
             f == [j \in 0 .. k |-> s[j + 1]]
  <1>1. s \in Seq(Entries) /\ Len(s) \in Nat /\ Len(s) # 0 /\ k \in Nat /\ k <= Len(s) - 1
    BY DEF Represents
  <1>2. /\ l.queue[q].head = s[1]
        /\ \A j \in 1 .. Len(s) : l.next[s[j]] = IF j = Len(s) THEN Nil ELSE s[j + 1]
    BY <1>1 DEF Represents, IsList
  <1>3. \A j \in 1 .. Len(s) : s[j] \in Entries
    BY <1>1
  <1> HIDE DEF s
  <1>4. f[0] = l.queue[q].head
    BY <1>1, <1>2
  <1>5. \A j \in 0 .. k : f[j] # Nil
    BY <1>1, <1>3, NilAssumption
  <1>6. ASSUME NEW j \in 1 .. k PROVE l.next[f[j - 1]] = f[j]
    <2>1. j \in 0 .. k /\ j - 1 \in 0 .. k /\ (j - 1) + 1 = j /\ j \in 1 .. Len(s) /\ j # Len(s)
      BY <1>1
    <2>2. f[j] = s[j + 1] /\ f[j - 1] = s[j]
      BY <2>1
    <2> QED
      BY <1>2, <2>1, <2>2
  <1>7. f[k] = s[k + 1] /\ s[k + 1] \in Entries
    BY <1>1, <1>3
  <1> HIDE DEF f
  <1>8. Walk(l.next, l.queue[q].head, k) = f[k]
    BY <1>1, <1>4, <1>5, <1>6, WalkAlong
  <1> QED
    BY <1>7, <1>8 DEF s

\* Backwards from the tail a walk stays in the list: it comes to the entry of its
\* number, or stays at one that is its own predecessor.
LEMMA WalkPrev ==
  ASSUME NEW l, NEW it, Represents(l, it), NEW q \in Qs, NEW k \in 0 .. Len(it[q]) - 1
  PROVE  \E j \in 1 .. Len(it[q]) : Walk(l.prev, l.queue[q].tail, k) = it[q][j]
  <1> DEFINE s == it[q]
             size == Len(s)
             A == {j \in 1 .. size : l.prev[s[j]] = s[j]}
             c == IF A = {} THEN 0 ELSE Max(A)
             at(j) == IF size - j >= c THEN size - j ELSE c
             f == [j \in 0 .. k |-> s[at(j)]]
  <1>1. s \in Seq(Entries) /\ size \in Nat /\ size # 0 /\ k \in Nat /\ k <= size - 1
    BY DEF Represents
  <1>2. /\ l.queue[q].tail = s[size]
        /\ \A j \in 1 .. size : l.prev[s[j]] \in IF j = 1 THEN {Nil} ELSE {s[j - 1], s[j]}
    BY <1>1 DEF Represents, IsList
  <1>3. \A j \in 1 .. size : s[j] \in Entries
    BY <1>1
  <1> HIDE DEF s, size
  <1>4. /\ c \in 0 .. size
        /\ c # 0 => c \in 1 .. size /\ l.prev[s[c]] = s[c]
        /\ \A j \in 1 .. size : j > c => l.prev[s[j]] # s[j]
    <2>1. CASE A = {}
      BY <1>1, <2>1
    <2>2. CASE A # {}
      <3>1. A \in SUBSET (1 .. size)
        OBVIOUS
      <3>2. Max(A) \in A /\ \A j \in A : Max(A) >= j
        <4> HIDE DEF A
        <4> QED
          BY <1>1, <2>2, <3>1, MaxOfNumbers
      <3>3. c = Max(A) /\ c \in 1 .. size /\ l.prev[s[c]] = s[c]
        BY <2>2, <3>2
      <3>4. ASSUME NEW j \in 1 .. size, j > c PROVE l.prev[s[j]] # s[j]
        <4>1. j \notin A
          BY <1>1, <3>2, <3>3, <3>4
        <4> QED
          BY <4>1
      <3> HIDE DEF c, A
      <3> QED
        BY <1>1, <3>3, <3>4
    <2> QED
      BY <2>1, <2>2
  <1> HIDE DEF c, A
  <1>5. \A j \in 0 .. k : at(j) \in 1 .. size
    BY <1>1, <1>4
  <1>6. ASSUME NEW j \in 1 .. k PROVE l.prev[s[at(j - 1)]] = s[at(j)]
    <2>1. j - 1 \in 0 .. k /\ j \in 0 .. k /\ size - (j - 1) = (size - j) + 1 /\ size - j \in Nat
      BY <1>1
    <2>2. CASE size - j >= c
      <3>1. at(j) = size - j /\ at(j - 1) = (size - j) + 1
        BY <1>1, <1>4, <2>1, <2>2
      <3>2. (size - j) + 1 \in 1 .. size /\ (size - j) + 1 > c /\ (size - j) + 1 # 1
        BY <1>1, <1>4, <2>1, <2>2
      <3>3. l.prev[s[(size - j) + 1]] = s[((size - j) + 1) - 1]
        BY <1>2, <1>4, <3>2
      <3> QED
        BY <2>1, <3>1, <3>3
    <2>3. CASE ~ size - j >= c
      <3>1. at(j) = c /\ at(j - 1) = c /\ c # 0
        BY <1>1, <1>4, <2>1, <2>3
      <3> QED
        BY <1>4, <3>1
    <2> QED
      BY <2>2, <2>3
  <1>7. at(0) = size
    BY <1>1, <1>4
  <1> HIDE DEF at
  <1>8. f[0] = l.queue[q].tail /\ f[k] = s[at(k)]
    BY <1>1, <1>2, <1>7
  <1>9. \A j \in 0 .. k : f[j] # Nil
    BY <1>3, <1>5, NilAssumption
  <1>10. \A j \in 1 .. k : l.prev[f[j - 1]] = f[j]
    <2>1. ASSUME NEW j \in 1 .. k PROVE l.prev[f[j - 1]] = f[j]
      <3>1. j - 1 \in 0 .. k /\ j \in 0 .. k
        BY <1>1
      <3>2. f[j - 1] = s[at(j - 1)] /\ f[j] = s[at(j)]
        BY <3>1
      <3> QED
        BY <1>6, <3>2
    <2> QED
      BY <2>1
  <1> HIDE DEF f
  <1>11. Walk(l.prev, l.queue[q].tail, k) = f[k]
    BY <1>1, <1>8, <1>9, <1>10, WalkAlong
  <1>12. at(k) \in 1 .. size
    BY <1>1, <1>5
  <1> QED
    BY <1>8, <1>11, <1>12 DEF s, size

\* The messages of the entries of s.
Texts(s, mm) == [k \in 1 .. Len(s) |-> mm[s[k]]]
AllTexts(it, mm) == [q \in QueueNums |-> Texts(it[q], mm)]

\* The messages of all queues, as the walks of Contents find them.
WaitingIn(l, mm) ==
  [q \in QueueNums |->
    [k \in 1 .. l.queue[q].len |-> LET e == Walk(l.next, l.queue[q].head, k - 1)
                                   IN  IF e = Nil THEN Nil ELSE mm[e]]]
Waiting == [q \in QueueNums |-> Contents(q)]

LEMMA WaitingNow == Waiting = WaitingIn(Lists, msg)
  BY DEF Waiting, WaitingIn, Contents, Lists

LEMMA WaitingThen == Waiting' = WaitingIn(Lists', msg')
  BY DEF Waiting, WaitingIn, Contents, Lists

LEMMA WaitingRepresented ==
  ASSUME NEW l, NEW it, NEW mm, Represents(l, it)
  PROVE  WaitingIn(l, mm) = AllTexts(it, mm)
  <1> DEFINE At(q, k) == LET e == Walk(l.next, l.queue[q].head, k - 1)
                         IN  IF e = Nil THEN Nil ELSE mm[e]
  <1>1. ASSUME NEW q \in QueueNums
        PROVE  /\ l.queue[q].len = Len(it[q])
               /\ \A k \in 1 .. Len(it[q]) : At(q, k) = mm[it[q][k]]
    <2>1. q \in Qs /\ it[q] \in Seq(Entries) /\ Len(it[q]) \in Nat
      BY DEF Qs, Represents
    <2>2. l.queue[q].len = Len(it[q])
      BY <2>1 DEF Represents, IsList
    <2>3. ASSUME NEW k \in 1 .. Len(it[q])
          PROVE  At(q, k) = mm[it[q][k]]
      <3>1. k - 1 \in 0 .. Len(it[q]) - 1 /\ (k - 1) + 1 = k
        BY <2>1
      <3>2. Walk(l.next, l.queue[q].head, k - 1) = it[q][k] /\ it[q][k] \in Entries
        <4>1. /\ Walk(l.next, l.queue[q].head, k - 1) = it[q][(k - 1) + 1]
              /\ it[q][(k - 1) + 1] \in Entries
          BY <2>1, <3>1, WalkNext
        <4> QED
          BY <3>1, <4>1
      <3> QED
        BY <3>2, NilAssumption
    <2> QED
      BY <2>2, <2>3
  <1>2. WaitingIn(l, mm) = [q \in QueueNums |-> [k \in 1 .. l.queue[q].len |-> At(q, k)]]
    BY DEF WaitingIn
  <1> HIDE DEF At
  <1>3. ASSUME NEW q \in QueueNums
        PROVE  [k \in 1 .. l.queue[q].len |-> At(q, k)] = Texts(it[q], mm)
    BY <1>1 DEF Texts
  <1> QED
    BY <1>2, <1>3 DEF AllTexts

-----------------------------------------------------------------------------
(* The messages when entries come, go and are overwritten                  *)

Messages == [Entries -> Msgs \cup {Nil}]

LEMMA TextsType ==
  ASSUME NEW s \in Seq(Entries), NEW mm \in Messages
  PROVE  /\ Texts(s, mm) \in Seq(Msgs \cup {Nil}) /\ Len(Texts(s, mm)) = Len(s)
         /\ \A k \in 1 .. Len(s) : Texts(s, mm)[k] = mm[s[k]]
  <1>1. \A k \in 1 .. Len(s) : mm[s[k]] \in Msgs \cup {Nil}
    BY DEF Messages
  <1>2. Len(s) \in Nat
    OBVIOUS
  <1> QED
    BY <1>1, <1>2 DEF Texts

LEMMA TextsUntouched ==
  ASSUME NEW s \in Seq(Entries), NEW mm \in Messages, NEW e \in Entries, NEW m,
         \A k \in 1 .. Len(s) : s[k] # e
  PROVE  Texts(s, [mm EXCEPT ![e] = m]) = Texts(s, mm)
  <1>1. \A k \in 1 .. Len(s) : [mm EXCEPT ![e] = m][s[k]] = mm[s[k]]
    BY DEF Messages
  <1> QED
    BY <1>1 DEF Texts

LEMMA TextsAppended ==
  ASSUME NEW s \in Seq(Entries), NEW mm \in Messages, NEW e \in Entries, NEW m \in Msgs,
         \A k \in 1 .. Len(s) : s[k] # e
  PROVE  Texts(Append(s, e), [mm EXCEPT ![e] = m]) = Append(Texts(s, mm), m)
  <1> DEFINE t == Append(s, e)
             nm == [mm EXCEPT ![e] = m]
             u == Texts(s, mm)
             a == Append(u, m)
  <1>1. /\ t \in Seq(Entries) /\ Len(t) = Len(s) + 1 /\ t[Len(s) + 1] = e /\ Len(s) \in Nat
        /\ \A k \in 1 .. Len(s) : t[k] = s[k]
    OBVIOUS
  <1>2. nm \in Messages /\ nm[e] = m /\ \A k \in 1 .. Len(s) : nm[s[k]] = mm[s[k]]
    BY DEF Messages
  <1>3. /\ u \in Seq(Msgs \cup {Nil}) /\ Len(u) = Len(s)
        /\ \A k \in 1 .. Len(s) : u[k] = mm[s[k]]
    BY TextsType
  <1> HIDE DEF t, nm, u
  <1>4. /\ a \in Seq(Msgs \cup {Nil}) /\ Len(a) = Len(s) + 1 /\ a[Len(s) + 1] = m
        /\ \A k \in 1 .. Len(s) : a[k] = u[k]
    BY <1>3
  <1> HIDE DEF a
  <1>5. /\ Texts(t, nm) \in Seq(Msgs \cup {Nil}) /\ Len(Texts(t, nm)) = Len(t)
        /\ \A k \in 1 .. Len(t) : Texts(t, nm)[k] = nm[t[k]]
    BY <1>1, <1>2, TextsType
  <1>6. \A k \in 1 .. Len(s) + 1 : Texts(t, nm)[k] = a[k]
    <2>1. \A k \in 1 .. Len(s) + 1 : k \in 1 .. Len(s) \/ k = Len(s) + 1
      BY <1>1
    <2> QED
      BY <1>1, <1>2, <1>3, <1>4, <1>5, <2>1, SMTT(30)
  <1>7. Texts(t, nm) = a
    <2>1. /\ Texts(t, nm) \in Seq(Msgs \cup {Nil}) /\ a \in Seq(Msgs \cup {Nil})
          /\ Len(Texts(t, nm)) = Len(s) + 1 /\ Len(a) = Len(s) + 1
      BY <1>1, <1>4, <1>5
    <2> HIDE DEF t, nm
    <2>2. \A k \in 1 .. Len(s) + 1 : Texts(t, nm)[k] = a[k]
      BY <1>6
    <2> QED
      BY <2>1, <2>2, SeqEqual
  <1> QED
    BY <1>7 DEF a, t, nm, u

LEMMA TextsShifted ==
  ASSUME NEW s \in Seq(Entries), NEW mm \in Messages, Len(s) # 0, Distinct(s)
  PROVE  /\ Texts(Tail(s), [mm EXCEPT ![s[1]] = Nil]) = Tail(Texts(s, mm))
         /\ Texts(s, mm) # <<>> /\ Head(Texts(s, mm)) = mm[s[1]]
  <1> DEFINE t == Tail(s)
             u == Texts(s, mm)
             v == Texts(t, mm)
             a == Tail(u)
  <1>1. /\ t \in Seq(Entries) /\ Len(t) = Len(s) - 1 /\ Len(s) \in Nat /\ s[1] \in Entries
        /\ \A k \in 1 .. Len(s) - 1 : t[k] = s[k + 1]
    OBVIOUS
  <1>2. /\ u \in Seq(Msgs \cup {Nil}) /\ Len(u) = Len(s)
        /\ \A k \in 1 .. Len(s) : u[k] = mm[s[k]]
    BY TextsType
  <1>3. \A k \in 1 .. Len(t) : t[k] # s[1]
    <2> HIDE DEF t
    <2>1. ASSUME NEW k \in 1 .. Len(t) PROVE t[k] # s[1]
      <3>1. k + 1 \in 1 .. Len(s) /\ 1 \in 1 .. Len(s) /\ k + 1 # 1 /\ t[k] = s[k + 1]
        BY <1>1
      <3> QED
        BY <3>1 DEF Distinct
    <2> QED
      BY <2>1
  <1>4. Texts(t, [mm EXCEPT ![s[1]] = Nil]) = v
    BY <1>1, <1>3, TextsUntouched
  <1> HIDE DEF u, t
  <1>5. /\ a \in Seq(Msgs \cup {Nil}) /\ Len(a) = Len(s) - 1
        /\ \A k \in 1 .. Len(s) - 1 : a[k] = u[k + 1]
        /\ u # <<>> /\ Head(u) = u[1]
    BY <1>1, <1>2
  <1> HIDE DEF a
  <1>6. /\ v \in Seq(Msgs \cup {Nil}) /\ Len(v) = Len(s) - 1
        /\ \A k \in 1 .. Len(s) - 1 : v[k] = mm[s[k + 1]]
    BY <1>1, TextsType
  <1> HIDE DEF v
  <1>7. \A k \in 1 .. Len(s) - 1 : v[k] = a[k]
    BY <1>1, <1>2, <1>5, <1>6
  <1>8. v = a
    BY <1>5, <1>6, <1>7, SeqEqual
  <1>9. Head(u) = mm[s[1]]
    BY <1>1, <1>2, <1>5
  <1> QED
    BY <1>4, <1>5, <1>8, <1>9 DEF a, t, u

LEMMA TextsWedged ==
  ASSUME NEW s \in Seq(Entries), NEW mm \in Messages, NEW e \in Entries, NEW m \in Msgs,
         NEW j \in 1 .. Len(s), \A k \in 1 .. Len(s) : s[k] # e
  PROVE  Texts(InsertAt(s, j, e), [mm EXCEPT ![e] = m]) = InsertAt(Texts(s, mm), j, m)
  <1> DEFINE t == InsertAt(s, j, e)
             nm == [mm EXCEPT ![e] = m]
             u == Texts(s, mm)
             a == InsertAt(u, j, m)
  <1>0. Len(s) \in Nat /\ j \in 1 .. Len(s) /\ j \in 1 .. Len(s) + 1
    OBVIOUS
  <1>1. /\ t \in Seq(Entries) /\ Len(t) = Len(s) + 1
        /\ \A k \in 1 .. Len(s) + 1 :
             t[k] = IF k < j THEN s[k] ELSE IF k = j THEN e ELSE s[k - 1]
    BY <1>0, InsertAtProperties
  <1>2. nm \in Messages /\ nm[e] = m /\ \A k \in 1 .. Len(s) : nm[s[k]] = mm[s[k]]
    BY DEF Messages
  <1>3. /\ u \in Seq(Msgs \cup {Nil}) /\ Len(u) = Len(s)
        /\ \A k \in 1 .. Len(s) : u[k] = mm[s[k]]
    BY TextsType
  <1> HIDE DEF t, nm, u
  <1>4. /\ a \in Seq(Msgs \cup {Nil}) /\ Len(a) = Len(s) + 1
        /\ \A k \in 1 .. Len(s) + 1 :
             a[k] = IF k < j THEN u[k] ELSE IF k = j THEN m ELSE u[k - 1]
    <2>1. j \in 1 .. Len(u) + 1 /\ m \in Msgs \cup {Nil}
      BY <1>0, <1>3
    <2>2. Spliced(a, u, j, m, Msgs \cup {Nil})
      BY <1>3, <2>1, InsertSpliced
    <2> QED
      BY <1>3, <2>2 DEF Spliced
  <1> HIDE DEF a
  <1>5. /\ Texts(t, nm) \in Seq(Msgs \cup {Nil}) /\ Len(Texts(t, nm)) = Len(t)
        /\ \A k \in 1 .. Len(t) : Texts(t, nm)[k] = nm[t[k]]
    BY <1>1, <1>2, TextsType
  <1>6. ASSUME NEW k \in 1 .. Len(s) + 1 PROVE Texts(t, nm)[k] = a[k]
    <2>1. CASE k < j
      <3>1. k \in 1 .. Len(s)
        BY <1>0, <2>1
      <3> QED
        BY <1>1, <1>2, <1>3, <1>4, <1>5, <2>1, <3>1
    <2>2. CASE k = j
      BY <1>0, <1>1, <1>2, <1>4, <1>5, <2>2
    <2>3. CASE k > j
      <3>1. k - 1 \in 1 .. Len(s) /\ ~ k < j /\ k # j
        BY <1>0, <2>3
      <3>2. t[k] = s[k - 1] /\ a[k] = u[k - 1] /\ Texts(t, nm)[k] = nm[t[k]]
        BY <1>1, <1>4, <1>5, <3>1
      <3>3. u[k - 1] = mm[s[k - 1]] /\ nm[s[k - 1]] = mm[s[k - 1]]
        BY <1>2, <1>3, <3>1
      <3> QED
        BY <3>2, <3>3
    <2> QED
      BY <1>0, <2>1, <2>2, <2>3
  <1>7. Texts(t, nm) = a
    <2>1. /\ Texts(t, nm) \in Seq(Msgs \cup {Nil}) /\ a \in Seq(Msgs \cup {Nil})
          /\ Len(Texts(t, nm)) = Len(s) + 1 /\ Len(a) = Len(s) + 1
      BY <1>1, <1>4, <1>5
    <2> HIDE DEF t, nm
    <2>2. \A k \in 1 .. Len(s) + 1 : Texts(t, nm)[k] = a[k]
      BY <1>6
    <2> QED
      BY <2>1, <2>2, SeqEqual
  <1> QED
    BY <1>7 DEF a, t, nm, u

LEMMA TextsSet ==
  ASSUME NEW s \in Seq(Entries), NEW mm \in Messages, NEW j \in 1 .. Len(s), NEW m \in Msgs,
         Distinct(s)
  PROVE  Texts(s, [mm EXCEPT ![s[j]] = m]) = [Texts(s, mm) EXCEPT ![j] = m]
  <1>1. \A k \in 1 .. Len(s) : s[k] \in Entries /\ (s[k] = s[j] <=> k = j)
    BY DEF Distinct
  <1>2. \A k \in 1 .. Len(s) : [mm EXCEPT ![s[j]] = m][s[k]] = IF k = j THEN m ELSE mm[s[k]]
    BY <1>1 DEF Messages
  <1> QED
    BY <1>2 DEF Texts

-----------------------------------------------------------------------------
(* The invariant                                                           *)

\* The lists are sequences of entries, apart from each other, that hold all
\* allocated entries.
ListsInv ==
  /\ \E it : Represents(Lists, it) /\ Listed(it) = alloc
  /\ msg \in Messages

\* And what waits are messages.
QueueInv == ListsInv /\ Waiting \in [QueueNums -> Seq(Msgs)]

\* What a step does: it keeps the invariant and does to the queues what
\* QueueSpec allows.
Moves == QueueInv' /\ [Abs!SpecNext]_<<[q \in QueueNums |-> Contents(q)], offered, out>>

LEMMA BecomeRepresents ==
  ASSUME NEW l, NEW it, Represents(l, it), Become(l)
  PROVE  Represents(Lists', it)
  <1>1. Lists'.queue = l.queue /\ Lists'.next = l.next /\ Lists'.prev = l.prev
    BY DEF Become, Lists
  <1> QED
    BY <1>1 DEF Represents

LEMMA MessagesExcept ==
  ASSUME NEW mm \in Messages, NEW e \in Entries, NEW m \in Msgs \cup {Nil}
  PROVE  [mm EXCEPT ![e] = m] \in Messages
  BY DEF Messages

LEMMA TwoOfMany ==
  ASSUME NEW k \in Nat, k # 0, k # 1
  PROVE  2 \in 1 .. k
  OBVIOUS

\* queue_new hands out an entry that is in no list.
LEMMA NewEntry ==
  ASSUME NEW it, Represents(Lists, it), Listed(it) = alloc, NEW e \in Entries,
         queue_new(AfterNew(e), e)
  PROVE  \E jt : /\ Represents(AfterNew(e), jt) /\ e \notin Listed(jt)
                 /\ Listed(jt) \cup {e} = alloc'
                 /\ \A q \in QueueNums : jt[q] = it[q]
                 /\ \A q \in QueueNums : \A x \in Entries : On(it, q, x) => AfterNew(e).prev[x] = prev[x]
  <1> DEFINE spare == queue[Unused].head
  <1>0. Lists.queue = queue /\ Lists.prev = prev /\ Lists.next = next
    BY DEF Lists
  <1>1. it \in [Qs -> Seq(Entries)] /\ Apart(it) /\ Unused \in Qs
    BY DEF Represents, Qs
  <1>2. CASE spare = Nil
    <2>1. AfterNew(e) = Lists /\ e \notin alloc /\ alloc' = alloc \cup {e}
      BY <1>2 DEF AfterNew, queue_new
    <2> QED
      BY <1>0, <2>1
  <1>3. CASE spare # Nil
    <2>1. AfterNew(e) = queue_unlink(Lists, Unused, e) /\ e = spare /\ alloc' = alloc
      BY <1>3 DEF AfterNew, queue_new
    <2>2. /\ Len(it[Unused]) # 0 /\ e = it[Unused][1]
          /\ Represents(queue_unlink(Lists, Unused, e), Shifted(it, Unused))
      BY <1>0, <1>1, <1>3, <2>1, UnlinkRepresents
    <2>3. Listed(Shifted(it, Unused)) = Listed(it) \ {e} /\ On(it, Unused, e)
      BY <1>1, <2>2, ShiftedOn
    <2>4. e \in Listed(it)
      BY <1>1, <2>3 DEF Listed
    <2>5. \A q \in QueueNums : Shifted(it, Unused)[q] = it[q]
      BY <1>1 DEF Shifted, Qs, QueueNums, Unused
    <2>6. Listed(Shifted(it, Unused)) \cup {e} = alloc'
      BY <2>1, <2>3, <2>4
    <2>7. ASSUME NEW q \in QueueNums, NEW x \in Entries, On(it, q, x)
          PROVE  AfterNew(e).prev[x] = prev[x]
      <3> DEFINE s == it[Unused]
                 y == next[e]
      <3>1. s \in Seq(Entries) /\ IsList(Lists.queue[Unused], next, prev, s) /\ prev \in Links
        BY <1>0, <1>1 DEF Represents
      <3>2. Len(s) \in Nat /\ Len(s) # 0 /\ e = s[1] /\ 1 \in 1 .. Len(s)
        BY <2>2, <3>1
      <3>3. y = (IF Len(s) = 1 THEN Nil ELSE s[2])
        <4>1. next[s[1]] = IF 1 = Len(s) THEN Nil ELSE s[1 + 1]
          BY <3>1, <3>2 DEF IsList
        <4> QED
          BY <3>2, <4>1
      <3>4. y # Nil => On(it, Unused, y) /\ y \in Entries
        <4>1. Len(s) # 1 => 2 \in 1 .. Len(s)
          BY <3>2, TwoOfMany
        <4> HIDE DEF y
        <4>2. y # Nil => Len(s) # 1 /\ y = s[2]
          BY <3>3
        <4>3. Len(s) # 1 => s[2] \in Entries
          BY <3>1, <4>1
        <4>4. Len(s) # 1 => On(it, Unused, s[2])
          BY <4>1 DEF On
        <4> QED
          BY <4>2, <4>3, <4>4
      <3>5. q \in Qs /\ q # Unused
        BY DEF Qs, QueueNums, Unused
      <3>6. x # y
        BY <1>1, <2>7, <3>4, <3>5, NilAssumption DEF Apart
      <3> HIDE DEF y
      <3>7. AfterNew(e).prev = IF y = Nil THEN prev ELSE [prev EXCEPT ![y] = prev[e]]
        BY <1>0, <2>1 DEF queue_unlink, y
      <3> QED
        BY <3>1, <3>4, <3>6, <3>7 DEF Links
    <2> QED
      BY <2>1, <2>2, <2>3, <2>5, <2>6, <2>7
  <1> QED
    BY <1>2, <1>3

\* A message is put at the end of a queue, in a new or a recycled entry.
LEMMA Enqueued ==
  ASSUME ListsInv, NEW q \in QueueNums, NEW e \in Entries, NEW m \in Msgs,
         queue_new(AfterNew(e), e), Become(queue_append(AfterNew(e), q, e)),
         msg' = [msg EXCEPT ![e] = m]
  PROVE  ListsInv' /\ Waiting' = [Waiting EXCEPT ![q] = Append(@, m)]
  <1>1. PICK it : Represents(Lists, it) /\ Listed(it) = alloc
    BY DEF ListsInv
  <1>2. PICK jt : /\ Represents(AfterNew(e), jt) /\ e \notin Listed(jt)
                  /\ Listed(jt) \cup {e} = alloc'
                  /\ \A r \in QueueNums : jt[r] = it[r]
    BY <1>1, NewEntry
  <1> DEFINE kt == JoinedLists(jt, q, e)
  <1>3. jt \in [Qs -> Seq(Entries)] /\ q \in Qs /\ QueueNums \subseteq Qs
    BY <1>2 DEF Represents, Qs
  <1>4. Represents(Lists', kt)
    BY <1>2, <1>3, AppendRepresents, BecomeRepresents
  <1>5. Listed(kt) = alloc'
    BY <1>2, <1>3, JoinedOn
  <1>6. msg \in Messages /\ msg' \in Messages
    BY MessagesExcept DEF ListsInv
  <1>7. ListsInv'
    BY <1>4, <1>5, <1>6 DEF ListsInv
  <1>8. Waiting = AllTexts(it, msg) /\ Waiting' = AllTexts(kt, msg')
    BY <1>1, <1>4, WaitingNow, WaitingThen, WaitingRepresented
  <1>9. ASSUME NEW r \in QueueNums
        PROVE  Texts(kt[r], msg') = IF r = q THEN Append(Texts(it[q], msg), m)
                                    ELSE Texts(it[r], msg)
    <2>1. it[r] \in Seq(Entries) /\ jt[r] = it[r] /\ r \in Qs
      BY <1>2, <1>3
    <2>2. \A k \in 1 .. Len(it[r]) : it[r][k] # e
      BY <1>2, <2>1 DEF Listed, On
    <2>3. CASE r = q
      <3>1. kt[r] = Append(it[r], e)
        BY <1>3, <2>1, <2>3 DEF JoinedLists
      <3>2. Texts(Append(it[r], e), [msg EXCEPT ![e] = m]) = Append(Texts(it[r], msg), m)
        BY <1>6, <2>1, <2>2, TextsAppended
      <3> QED
        BY <2>3, <3>1, <3>2
    <2>4. CASE r # q
      <3>1. kt[r] = it[r]
        BY <1>3, <2>1, <2>4 DEF JoinedLists
      <3>2. Texts(it[r], [msg EXCEPT ![e] = m]) = Texts(it[r], msg)
        BY <1>6, <2>1, <2>2, TextsUntouched
      <3> QED
        BY <2>4, <3>1, <3>2
    <2> QED
      BY <2>3, <2>4
  <1> HIDE DEF kt
  <1>10. AllTexts(kt, msg') = [AllTexts(it, msg) EXCEPT ![q] = Append(@, m)]
    BY <1>9 DEF AllTexts
  <1> QED
    BY <1>7, <1>8, <1>10

\* The message at the head of a queue is taken off and its entry recycled.
LEMMA Dequeued ==
  ASSUME ListsInv, NEW q \in QueueNums, queue[q].head # Nil,
         Become(queue_append(queue_unlink(Lists, q, queue[q].head), Unused, queue[q].head)),
         msg' = [msg EXCEPT ![queue[q].head] = Nil], alloc' = alloc
  PROVE  /\ ListsInv' /\ Waiting' = [Waiting EXCEPT ![q] = Tail(@)]
         /\ Waiting[q] # <<>> /\ Head(Waiting[q]) = msg[queue[q].head]
  <1> DEFINE e == queue[q].head
  <1>1. PICK it : Represents(Lists, it) /\ Listed(it) = alloc
    BY DEF ListsInv
  <1>2. /\ it \in [Qs -> Seq(Entries)] /\ Apart(it) /\ q \in Qs /\ Unused \in Qs /\ q # Unused
        /\ QueueNums \subseteq Qs /\ Unused \notin QueueNums
    BY <1>1 DEF Represents, Qs, QueueNums, Unused
  <1>3. Lists.queue[q].head = e
    BY DEF Lists
  <1> DEFINE jt == Shifted(it, q)
             kt == JoinedLists(jt, Unused, e)
  <1>4. Len(it[q]) # 0 /\ e = it[q][1] /\ Represents(queue_unlink(Lists, q, e), jt)
    BY <1>1, <1>2, <1>3, UnlinkRepresents
  <1>5. e \in Entries /\ On(it, q, e) /\ Listed(jt) = Listed(it) \ {e} /\ jt \in [Qs -> Seq(Entries)]
    BY <1>2, <1>4, ShiftedOn
  <1>6. Represents(Lists', kt)
    BY <1>2, <1>4, <1>5, AppendRepresents, BecomeRepresents
  <1>7. Listed(kt) = alloc'
    <2>1. e \in Listed(it)
      BY <1>2, <1>5 DEF Listed
    <2>2. Listed(kt) = Listed(jt) \cup {e}
      BY <1>2, <1>5, JoinedOn
    <2> QED
      BY <1>1, <1>5, <2>1, <2>2
  <1>8. msg \in Messages /\ msg' \in Messages
    BY <1>5, MessagesExcept DEF ListsInv
  <1>9. ListsInv'
    BY <1>6, <1>7, <1>8 DEF ListsInv
  <1>10. Waiting = AllTexts(it, msg) /\ Waiting' = AllTexts(kt, msg')
    BY <1>1, <1>6, WaitingNow, WaitingThen, WaitingRepresented
  <1>11. it[q] \in Seq(Entries) /\ Distinct(it[q])
    BY <1>2 DEF Apart
  <1>12. /\ Texts(Tail(it[q]), msg') = Tail(Texts(it[q], msg))
         /\ Texts(it[q], msg) # <<>> /\ Head(Texts(it[q], msg)) = msg[e]
    BY <1>4, <1>8, <1>11, TextsShifted
  <1>13. ASSUME NEW r \in QueueNums
         PROVE  Texts(kt[r], msg') = IF r = q THEN Tail(Texts(it[q], msg)) ELSE Texts(it[r], msg)
    <2>1. CASE r = q
      <3>1. kt[r] = Tail(it[q])
        BY <1>2, <1>5, <2>1 DEF JoinedLists, Shifted
      <3> QED
        BY <1>12, <2>1, <3>1
    <2>2. CASE r # q
      <3>1. kt[r] = it[r] /\ it[r] \in Seq(Entries) /\ r \in Qs
        BY <1>2, <1>5, <2>2 DEF JoinedLists, Shifted
      <3>2. ~ On(it, r, e)
        BY <1>2, <1>5, <2>2, <3>1 DEF Apart
      <3>3. \A k \in 1 .. Len(it[r]) : it[r][k] # e
        BY <3>2 DEF On
      <3>4. Texts(it[r], [msg EXCEPT ![e] = Nil]) = Texts(it[r], msg)
        BY <1>5, <1>8, <3>1, <3>3, TextsUntouched
      <3> QED
        BY <2>2, <3>1, <3>4
    <2> QED
      BY <2>1, <2>2
  <1> HIDE DEF kt, e
  <1>14. AllTexts(kt, msg') = [AllTexts(it, msg) EXCEPT ![q] = Tail(@)]
    BY <1>13 DEF AllTexts
  <1>15. AllTexts(it, msg)[q] = Texts(it[q], msg)
    BY DEF AllTexts
  <1> QED
    BY <1>9, <1>10, <1>12, <1>14, <1>15 DEF e

LEMMA EmptyQueue ==
  ASSUME ListsInv, NEW q \in QueueNums, queue[q].head = Nil
  PROVE  Waiting[q] = <<>>
  <1>1. PICK it : Represents(Lists, it)
    BY DEF ListsInv
  <1>2. q \in Qs /\ it[q] \in Seq(Entries) /\ IsList(Lists.queue[q], Lists.next, Lists.prev, it[q])
    BY <1>1 DEF Represents, Qs
  <1>3. Lists.queue[q].head = Nil
    BY DEF Lists
  <1>4. Len(it[q]) = 0
    <2>1. Len(it[q]) # 0 => it[q][1] \in Entries /\ it[q][1] = Nil
      BY <1>2, <1>3 DEF IsList
    <2> QED
      BY <2>1, NilAssumption
  <1>5. Texts(it[q], msg) = <<>>
    <2>1. msg \in Messages
      BY DEF ListsInv
    <2>2. Texts(it[q], msg) \in Seq(Msgs \cup {Nil}) /\ Len(Texts(it[q], msg)) = 0
      BY <1>2, <1>4, <2>1, TextsType
    <2> HIDE DEF ListsInv
    <2> QED
      BY <2>2, EmptySeq
  <1>6. Waiting = AllTexts(it, msg)
    BY <1>1, WaitingNow, WaitingRepresented
  <1> QED
    BY <1>5, <1>6 DEF AllTexts

\* get_queue_entry finds entries of the queue it is asked for.
LEMMA EntryFound ==
  ASSUME NEW it, Represents(Lists, it), NEW q \in QueueNums, NEW num \in Nat,
         get_queue_entry(q, num) # Nil
  PROVE  \E j \in 1 .. Len(it[q]) : get_queue_entry(q, num) = it[q][j]
  <1> DEFINE size == Len(it[q])
             half == size \div 2
  <1>1. q \in Qs /\ it[q] \in Seq(Entries) /\ size \in Nat
    BY DEF Represents, Qs
  <1>2. queue[q].len = size
    BY <1>1 DEF Represents, IsList, Lists
  <1>3. Lists.next = next /\ Lists.prev = prev /\ Lists.queue = queue
    BY DEF Lists
  <1> HIDE DEF size
  <1>4. half \in Nat /\ half <= size
    BY <1>1
  <1>5. CASE num < half
    <2>1. num \in 0 .. size - 1 /\ num + 1 \in 1 .. size
      BY <1>1, <1>4, <1>5
    <2>2. get_queue_entry(q, num) = Walk(next, queue[q].head, num)
      BY <1>2, <1>5 DEF get_queue_entry
    <2>3. Walk(next, queue[q].head, num) = it[q][num + 1]
      BY <1>1, <1>3, <2>1, WalkNext DEF size
    <2> QED
      BY <2>1, <2>2, <2>3 DEF size
  <1>6. CASE ~ num < half /\ num < size
    <2>1. num - half \in 0 .. size - 1
      BY <1>1, <1>4, <1>6
    <2>2. get_queue_entry(q, num) = Walk(prev, queue[q].tail, num - half)
      BY <1>2, <1>6 DEF get_queue_entry
    <2>3. \E j \in 1 .. size : Walk(prev, queue[q].tail, num - half) = it[q][j]
      <3> HIDE DEF half
      <3> QED
        BY <1>1, <1>3, <2>1, WalkPrev DEF size
    <2> QED
      BY <2>2, <2>3 DEF size
  <1>7. CASE ~ num < half /\ ~ num < size
    BY <1>2, <1>7 DEF get_queue_entry
  <1> QED
    BY <1>5, <1>6, <1>7

\* A waiting message is overwritten.
LEMMA Overwritten ==
  ASSUME ListsInv, NEW q \in QueueNums, NEW num \in Nat, NEW m \in Msgs,
         script_queue_set(q, num, m)
  PROVE  ListsInv' /\ \E j \in DOMAIN Waiting[q] : Waiting' = [Waiting EXCEPT ![q][j] = m]
  <1>1. PICK it : Represents(Lists, it) /\ Listed(it) = alloc
    BY DEF ListsInv
  <1>2. it \in [Qs -> Seq(Entries)] /\ Apart(it) /\ q \in Qs /\ QueueNums \subseteq Qs
    BY <1>1 DEF Represents, Qs
  <1> DEFINE e == get_queue_entry(q, num)
  <1>3. e # Nil /\ msg' = [msg EXCEPT ![e] = m] /\ UNCHANGED <<links, alloc>>
    BY DEF script_queue_set
  <1>4. PICK j \in 1 .. Len(it[q]) : e = it[q][j]
    BY <1>1, <1>3, EntryFound
  <1> HIDE DEF e
  <1>5. it[q] \in Seq(Entries) /\ Distinct(it[q]) /\ e \in Entries /\ On(it, q, e)
    BY <1>2, <1>4 DEF Apart, On
  <1>6. msg \in Messages /\ msg' \in Messages
    BY <1>3, <1>5, MessagesExcept DEF ListsInv
  <1>7. Lists' = Lists /\ alloc' = alloc
    BY <1>3 DEF Lists, links
  <1>8. ListsInv'
    BY <1>1, <1>6, <1>7 DEF ListsInv
  <1>9. Waiting = AllTexts(it, msg) /\ Waiting' = AllTexts(it, msg')
    BY <1>1, <1>7, WaitingNow, WaitingThen, WaitingRepresented
  <1>10. Texts(it[q], msg') = [Texts(it[q], msg) EXCEPT ![j] = m]
    <2>1. Texts(it[q], [msg EXCEPT ![it[q][j]] = m]) = [Texts(it[q], msg) EXCEPT ![j] = m]
      <3> DEFINE s == it[q]
      <3>1. s \in Seq(Entries) /\ Distinct(s) /\ j \in 1 .. Len(s) /\ msg \in Messages
        BY <1>5, <1>6
      <3> HIDE DEF s
      <3>2. Texts(s, [msg EXCEPT ![s[j]] = m]) = [Texts(s, msg) EXCEPT ![j] = m]
        BY <3>1, TextsSet
      <3> QED
        BY <3>2 DEF s
    <2> QED
      BY <1>3, <1>4, <2>1
  <1>11. ASSUME NEW r \in QueueNums, r # q
         PROVE  Texts(it[r], msg') = Texts(it[r], msg)
    <2>1. r \in Qs /\ it[r] \in Seq(Entries)
      BY <1>2
    <2>2. ~ On(it, r, e)
      BY <1>2, <1>5, <1>11, <2>1 DEF Apart
    <2>3. \A k \in 1 .. Len(it[r]) : it[r][k] # e
      BY <2>2 DEF On
    <2>4. Texts(it[r], [msg EXCEPT ![e] = m]) = Texts(it[r], msg)
      BY <1>5, <1>6, <2>1, <2>3, TextsUntouched
    <2> QED
      BY <1>3, <2>4
  <1>12. AllTexts(it, msg)[q] = Texts(it[q], msg) /\ DOMAIN Texts(it[q], msg) = 1 .. Len(it[q])
    BY DEF AllTexts, Texts
  <1>13. AllTexts(it, msg') = [AllTexts(it, msg) EXCEPT ![q] = [@ EXCEPT ![j] = m]]
    BY <1>10, <1>11 DEF AllTexts
  <1>14. Waiting' = [Waiting EXCEPT ![q][j] = m] /\ j \in DOMAIN Waiting[q]
    BY <1>9, <1>12, <1>13
  <1> QED
    BY <1>8, <1>14

\* A message is put in front of a waiting one, in a new or a recycled entry.
LEMMA Inserted ==
  ASSUME ListsInv, NEW q \in QueueNums, NEW num \in Nat, NEW e \in Entries, NEW m \in Msgs,
         get_queue_entry(q, num) # Nil, prev[get_queue_entry(q, num)] # get_queue_entry(q, num),
         queue_new(AfterNew(e), e), Become(LinkBefore(AfterNew(e), q, get_queue_entry(q, num), e)),
         msg' = [msg EXCEPT ![e] = m]
  PROVE  ListsInv' /\ \E j \in 1 .. Len(Waiting[q]) :
                         Waiting' = [Waiting EXCEPT ![q] = InsertAt(@, j, m)]
  <1> DEFINE x == get_queue_entry(q, num)
  <1>1. PICK it : Represents(Lists, it) /\ Listed(it) = alloc
    BY DEF ListsInv
  <1>2. PICK jt : /\ Represents(AfterNew(e), jt) /\ e \notin Listed(jt)
                  /\ Listed(jt) \cup {e} = alloc'
                  /\ \A r \in QueueNums : jt[r] = it[r]
                  /\ \A r \in QueueNums : \A y \in Entries : On(it, r, y) => AfterNew(e).prev[y] = prev[y]
    BY <1>1, NewEntry
  <1>3. /\ jt \in [Qs -> Seq(Entries)] /\ it \in [Qs -> Seq(Entries)]
        /\ q \in Qs /\ QueueNums \subseteq Qs
    BY <1>1, <1>2 DEF Represents, Qs
  <1>4. PICK j \in 1 .. Len(it[q]) : x = it[q][j]
    BY <1>1, EntryFound
  <1>5. x \in Entries /\ On(it, q, x) /\ jt[q] = it[q] /\ j \in 1 .. Len(jt[q])
    BY <1>2, <1>3, <1>4 DEF On
  <1>6. AfterNew(e).prev[x] # x
    BY <1>2, <1>5
  <1> HIDE DEF x
  <1> DEFINE kt == Wedged(jt, q, j, e)
  <1>7. Represents(LinkBefore(AfterNew(e), q, x, e), kt) /\ Listed(kt) = Listed(jt) \cup {e}
    <2>1. jt[q][j] = x
      BY <1>4, <1>5
    <2>2. /\ Represents(AfterNew(e), jt) /\ q \in Qs /\ j \in 1 .. Len(jt[q]) /\ e \in Entries
          /\ e \notin Listed(jt) /\ AfterNew(e).prev[jt[q][j]] # jt[q][j]
      BY <1>2, <1>3, <1>5, <1>6, <2>1
    <2>3. /\ Represents(LinkBefore(AfterNew(e), q, jt[q][j], e), kt)
          /\ Listed(kt) = Listed(jt) \cup {e}
      BY <2>2, WedgeRepresents
    <2> HIDE DEF kt
    <2> QED
      BY <2>1, <2>3
  <1>8. Represents(Lists', kt)
    <2>1. Become(LinkBefore(AfterNew(e), q, x, e))
      BY DEF x
    <2> HIDE DEF kt
    <2> QED
      BY <1>7, <2>1, BecomeRepresents
  <1>9. Listed(kt) = alloc'
    <2> HIDE DEF kt
    <2> QED
      BY <1>2, <1>7
  <1>10. msg \in Messages /\ msg' \in Messages
    BY MessagesExcept DEF ListsInv
  <1>11. ListsInv'
    BY <1>8, <1>9, <1>10 DEF ListsInv
  <1>12. Waiting = AllTexts(it, msg) /\ Waiting' = AllTexts(kt, msg')
    BY <1>1, <1>8, WaitingNow, WaitingThen, WaitingRepresented
  <1>13. ASSUME NEW r \in QueueNums
         PROVE  Texts(kt[r], msg') = IF r = q THEN InsertAt(Texts(it[q], msg), j, m)
                                     ELSE Texts(it[r], msg)
    <2>1. it[r] \in Seq(Entries) /\ jt[r] = it[r] /\ r \in Qs
      BY <1>2, <1>3
    <2>2. \A k \in 1 .. Len(it[r]) : it[r][k] # e
      BY <1>2, <2>1 DEF Listed, On
    <2>3. CASE r = q
      <3>1. kt[r] = InsertAt(it[r], j, e)
        BY <1>3, <2>1, <2>3 DEF Wedged
      <3>2. j \in 1 .. Len(it[r])
        BY <1>4, <2>3
      <3>3. Texts(InsertAt(it[r], j, e), [msg EXCEPT ![e] = m]) = InsertAt(Texts(it[r], msg), j, m)
        BY <1>10, <2>1, <2>2, <3>2, TextsWedged
      <3> QED
        BY <2>3, <3>1, <3>3
    <2>4. CASE r # q
      <3>1. kt[r] = it[r]
        BY <1>3, <2>1, <2>4 DEF Wedged
      <3>2. Texts(it[r], [msg EXCEPT ![e] = m]) = Texts(it[r], msg)
        BY <1>10, <2>1, <2>2, TextsUntouched
      <3> QED
        BY <2>4, <3>1, <3>2
    <2> QED
      BY <2>3, <2>4
  <1> HIDE DEF kt
  <1>14. AllTexts(kt, msg') = [AllTexts(it, msg) EXCEPT ![q] = InsertAt(@, j, m)]
    BY <1>13 DEF AllTexts
  <1>15. j \in 1 .. Len(Waiting[q])
    <2>1. Waiting[q] = Texts(it[q], msg)
      BY <1>12 DEF AllTexts
    <2>2. Len(Texts(it[q], msg)) = Len(it[q])
      BY <1>3, <1>10, TextsType
    <2> QED
      BY <1>4, <2>1, <2>2
  <1>16. Waiting' = [Waiting EXCEPT ![q] = InsertAt(@, j, m)]
    BY <1>12, <1>14
  <1> QED
    BY <1>11, <1>15, <1>16

-----------------------------------------------------------------------------
(* The operations                                                          *)

\* What each operation may do to the queues, in the terms of QueueSpec.
LEMMA EnqueueAllowed ==
  ASSUME QueueInv, NEW q \in QueueNums, NEW m \in Msgs, ListsInv', UNCHANGED lines,
         Waiting' = [Waiting EXCEPT ![q] = Append(@, m)]
  PROVE  Moves
  <1>1. Waiting' \in [QueueNums -> Seq(Msgs)]
    BY DEF QueueInv
  <1>2. Abs!Enqueue(q, m)
    BY DEF Waiting, Abs!Enqueue, Abs!lines, lines
  <1> QED
    BY <1>1, <1>2 DEF Moves, QueueInv, Abs!SpecNext, Abs!QueueNums, QueueNums

\* Nothing changes but the last lines.
LEMMA ListsStay ==
  ASSUME QueueInv, UNCHANGED <<queue, next, prev, msg, alloc>>
  PROVE  QueueInv' /\ Waiting' = Waiting
  <1>1. Lists' = Lists
    BY DEF Lists
  <1>2. ListsInv'
    BY <1>1 DEF QueueInv, ListsInv
  <1>3. Waiting' = Waiting
    BY <1>1, WaitingNow, WaitingThen
  <1> QED
    BY <1>2, <1>3 DEF QueueInv

LEMMA QueueChosen ==
  ASSUME NEW priority \in Priorities
  PROVE  queue_get_by_priority(priority) \in QueueNums
  <1>1. PICK first \in Words, second \in Words : priority = name_to_priority(first, second)
    <2>1. PICK w \in Words \X Words : priority = name_to_priority(w[1], w[2])
      BY DEF Priorities
    <2>2. w[1] \in Words /\ w[2] \in Words
      BY <2>1
    <2> QED
      BY <2>1, <2>2
  <1>2. QueuePriority(first) \in 1 .. 4 /\ QueuePriority(second) \in 1 .. 4
    BY DEF QueuePriority, SERVER_NOQUEUE, SERVER_QUICK, SERVER_NORMAL, SERVER_SLOW
  <1>3. priority \in 1 .. 12
    BY <1>1, <1>2 DEF name_to_priority, SERVER_NORMAL, SERVER_NEXT
  <1>4. queue_get_by_priority(priority) \in 0 .. 5
    BY <1>3 DEF queue_get_by_priority, SERVER_QUICK, SERVER_SLOW, SERVER_NEXT
  <1> QED
    BY <1>4 DEF QueueNums

LEMMA PutservMoves ==
  ASSUME QueueInv, NEW m \in Msgs, script_putserv(m)
  PROVE  Moves
  <1>1. PICK priority \in Priorities : printserv(priority, m)
    BY DEF script_putserv
  <1> DEFINE q == queue_get_by_priority(priority)
  <1>2. q \in QueueNums
    BY QueueChosen
  <1> HIDE DEF q
  <1>3. CASE do_output(m) /\ UNCHANGED <<links, msg, alloc, ring>>
    <2>1. UNCHANGED <<queue, next, prev, msg, alloc>>
      BY <1>3 DEF links
    <2>2. QueueInv' /\ Waiting' = Waiting
      BY <2>1, ListsStay
    <2>3. Abs!Bypass(m)
      BY <1>3, <2>2 DEF Waiting, do_output, Abs!Bypass, Abs!Output
    <2> QED
      BY <2>2, <2>3 DEF Moves, Abs!SpecNext
  <1>4. CASE queue_server(priority, m)
    <2>1. PICK e \in Entries : /\ queue_new(AfterNew(e), e)
                               /\ Become(queue_append(AfterNew(e), q, e))
                               /\ msg' = [msg EXCEPT ![e] = m] /\ UNCHANGED lines
      BY <1>4 DEF queue_server, q
    <2>2. ListsInv' /\ Waiting' = [Waiting EXCEPT ![q] = Append(@, m)]
      BY <1>2, <2>1, Enqueued DEF QueueInv
    <2> QED
      BY <1>2, <2>1, <2>2, EnqueueAllowed
  <1> QED
    BY <1>1, <1>3, <1>4 DEF printserv

\* An insertion is at the end, or in front of an entry nothing was inserted in
\* front of, or makes a ring.
LEMMA InsertMoves ==
  ASSUME QueueInv, NEW m \in Msgs, NEW q \in QueueNums, NEW num \in Nat,
         script_queue_insert(q, num, m)
  PROVE  ring' \/ Moves
  <1> DEFINE x == get_queue_entry(q, num)
  <1>1. /\ UNCHANGED lines
        /\ ring' = (ring \/ (x # Nil /\ prev[x] = x))
    BY DEF script_queue_insert
  <1>2. PICK e \in Entries :
          /\ queue_new(AfterNew(e), e)
          /\ Become(IF x = Nil THEN queue_append(AfterNew(e), q, e) ELSE LinkBefore(AfterNew(e), q, x, e))
          /\ msg' = [msg EXCEPT ![e] = m]
    BY DEF script_queue_insert
  <1>3. CASE x = Nil
    <2>1. ListsInv' /\ Waiting' = [Waiting EXCEPT ![q] = Append(@, m)]
      BY <1>2, <1>3, Enqueued DEF QueueInv
    <2> QED
      BY <1>1, <2>1, EnqueueAllowed
  <1>4. CASE x # Nil /\ prev[x] # x
    <2>1. ListsInv' /\ \E j \in 1 .. Len(Waiting[q]) :
                         Waiting' = [Waiting EXCEPT ![q] = InsertAt(@, j, m)]
      BY <1>2, <1>4, Inserted DEF QueueInv
    <2>2. PICK j \in 1 .. Len(Waiting[q]) : Waiting' = [Waiting EXCEPT ![q] = InsertAt(@, j, m)]
      BY <2>1
    <2>3. Waiting[q] \in Seq(Msgs) /\ j \in 1 .. Len(Waiting[q]) + 1
      BY DEF QueueInv
    <2>4. InsertAt(Waiting[q], j, m) \in Seq(Msgs)
      BY <2>3, InsertAtProperties
    <2>5. Waiting' \in [QueueNums -> Seq(Msgs)]
      BY <2>2, <2>4 DEF QueueInv
    <2>6. Abs!Insert(q, m)
      <3>1. UNCHANGED lines
        BY <1>1
      <3>2. j \in 1 .. Len(Waiting[q]) + 1 /\ Waiting' = [Waiting EXCEPT ![q] = InsertAt(@, j, m)]
        BY <2>2, <2>3
      <3> QED
        BY <3>1, <3>2, Zenon DEF Waiting, Abs!Insert, Abs!lines, lines, InsertAt, Abs!InsertAt
    <2> QED
      BY <2>1, <2>5, <2>6 DEF Moves, QueueInv, Abs!SpecNext, Abs!QueueNums, QueueNums
  <1>5. CASE x # Nil /\ prev[x] = x
    BY <1>1, <1>5
  <1> QED
    BY <1>3, <1>4, <1>5

LEMMA SetMoves ==
  ASSUME QueueInv, NEW m \in Msgs, NEW q \in QueueNums, NEW num \in Nat, script_queue_set(q, num, m)
  PROVE  Moves
  <1>1. ListsInv' /\ \E j \in DOMAIN Waiting[q] : Waiting' = [Waiting EXCEPT ![q][j] = m]
    BY Overwritten DEF QueueInv
  <1>2. UNCHANGED lines
    BY DEF script_queue_set
  <1>3. Abs!Overwrite(q, m)
    BY <1>1, <1>2 DEF Waiting, Abs!Overwrite, Abs!lines, lines
  <1>4. Waiting' \in [QueueNums -> Seq(Msgs)]
    <2>1. PICK j \in DOMAIN Waiting[q] : Waiting' = [Waiting EXCEPT ![q] = [@ EXCEPT ![j] = m]]
      BY <1>1
    <2>2. Waiting[q] \in Seq(Msgs)
      BY DEF QueueInv
    <2>3. [Waiting[q] EXCEPT ![j] = m] \in Seq(Msgs)
      BY <2>2
    <2> QED
      BY <2>1, <2>3 DEF QueueInv
  <1> QED
    BY <1>1, <1>3, <1>4 DEF Moves, QueueInv, Abs!SpecNext, Abs!QueueNums, QueueNums

LEMMA DequeueMoves ==
  ASSUME QueueInv, dequeue_messages
  PROVE  Moves
  <1>1. PICK q \in QueueNums :
          /\ queue[q].head # Nil
          /\ \A r \in QueueNums : TriedBefore(r, q) => queue[r].head = Nil
          /\ Become(queue_append(queue_unlink(Lists, q, queue[q].head), Unused, queue[q].head))
          /\ do_output(Reread(msg[queue[q].head]))
          /\ msg' = [msg EXCEPT ![queue[q].head] = Nil]
          /\ UNCHANGED <<alloc, ring>>
    BY DEF dequeue_messages
  <1>2. /\ ListsInv' /\ Waiting' = [Waiting EXCEPT ![q] = Tail(@)]
        /\ Waiting[q] # <<>> /\ Head(Waiting[q]) = msg[queue[q].head]
    BY <1>1, Dequeued DEF QueueInv
  <1>3. \A r \in QueueNums : TriedBefore(r, q) => Waiting[r] = <<>>
    BY <1>1, EmptyQueue DEF QueueInv
  <1>4. Waiting[q] \in Seq(Msgs) /\ Head(Waiting[q]) \in Msgs /\ Tail(Waiting[q]) \in Seq(Msgs)
    <2>1. Waiting[q] \in Seq(Msgs)
      BY DEF QueueInv
    <2> QED
      BY <1>2, <2>1
  <1>5. Waiting' \in [QueueNums -> Seq(Msgs)]
    BY <1>2, <1>4 DEF QueueInv
  <1> DEFINE Readings == [m \in Msgs |-> {m, Reread(m)}]
  <1>6. \E m \in Readings[Head(Waiting[q])] : offered' = m /\ out' \in {m, Other, Nil}
    BY <1>1, <1>2, <1>4 DEF do_output
  <1> HIDE DEF Readings
  <1>7. Abs!Served(Waiting, q)
    BY <1>2, <1>3 DEF Abs!Served, Abs!ServedBefore, TriedBefore, Abs!QueueNums, QueueNums
  <1>8. Abs!Dequeue
    <2> HIDE DEF Waiting
    <2>1. /\ q \in Abs!QueueNums
          /\ Abs!Served(Waiting, q)
          /\ \E m \in Readings[Head(Waiting[q])] : Abs!Output(m)
          /\ Waiting' = [Waiting EXCEPT ![q] = Tail(@)]
      BY <1>2, <1>6, <1>7 DEF Abs!Output, Abs!QueueNums, QueueNums
    <2> QED
      BY <2>1 DEF Waiting, Abs!Dequeue, Readings
  <1> QED
    BY <1>2, <1>5, <1>8 DEF Moves, QueueInv, Abs!SpecNext

LEMMA StepMoves == QueueInv /\ [QueueNext]_queueVars => ring' \/ Moves
  <1> SUFFICES ASSUME QueueInv, [QueueNext]_queueVars
               PROVE  ring' \/ Moves
    OBVIOUS
  <1>0. Lines \subseteq Msgs
    BY DEF Lines
  <1>1. CASE dequeue_messages
    BY <1>1, DequeueMoves
  <1>2. ASSUME NEW m \in Lines, script_putserv(m)
        PROVE  Moves
    BY <1>0, <1>2, PutservMoves
  <1>3. ASSUME NEW m \in Lines, NEW q \in QueueNums, NEW num \in Positions,
               script_queue_set(q, num, m) \/ script_queue_insert(q, num, m)
        PROVE  ring' \/ Moves
    <2>1. Cardinality(Entries) \in Nat
      BY EntriesAssumption, FS_CardinalityType
    <2>2. num \in Nat /\ m \in Msgs
      BY <1>0, <2>1 DEF Positions
    <2> QED
      BY <1>3, <2>2, SetMoves, InsertMoves
  <1>4. CASE UNCHANGED queueVars
    <2>1. UNCHANGED <<queue, next, prev, msg, alloc, offered, out>>
      BY <1>4 DEF queueVars
    <2>2. QueueInv' /\ Waiting' = Waiting
      BY <2>1, ListsStay
    <2> QED
      BY <2>1, <2>2 DEF Moves, Waiting
  <1> QED
    BY <1>1, <1>2, <1>3, <1>4 DEF QueueNext

\* A ring is never noticed, and stays.
LEMMA RingStays == ring = TRUE /\ [QueueNext]_queueVars => ring' = TRUE
  <1> SUFFICES ASSUME ring = TRUE, [QueueNext]_queueVars
               PROVE  ring' = TRUE
    OBVIOUS
  <1>1. CASE dequeue_messages
    BY <1>1 DEF dequeue_messages
  <1>2. ASSUME NEW m \in Lines, script_putserv(m)
        PROVE  ring' = TRUE
    BY <1>2 DEF script_putserv, printserv
  <1>3. ASSUME NEW m \in Lines, NEW q \in QueueNums, NEW num \in Positions,
               script_queue_set(q, num, m) \/ script_queue_insert(q, num, m)
        PROVE  ring' = TRUE
    BY <1>3, Zenon DEF script_queue_set, script_queue_insert
  <1>4. CASE UNCHANGED queueVars
    BY <1>4 DEF queueVars
  <1> QED
    BY <1>1, <1>2, <1>3, <1>4 DEF QueueNext

LEMMA InitRepresents == QueueInit => ListsInv
  <1> SUFFICES ASSUME QueueInit
               PROVE  ListsInv
    OBVIOUS
  <1> DEFINE it == [q \in Qs |-> <<>>]
  <1>1. Lists.queue \in [Qs -> Descs] /\ Lists.next \in Links /\ Lists.prev \in Links
    BY DEF QueueInit, Lists, Descs, Links, Qs
  <1>2. it \in [Qs -> Seq(Entries)] /\ \A q \in Qs : it[q] = <<>> /\ Len(it[q]) = 0
    OBVIOUS
  <1>3. \A q \in Qs : Lists.queue[q] = [head |-> Nil, tail |-> Nil, len |-> 0]
    BY DEF QueueInit, Lists, Qs
  <1> HIDE DEF it
  <1>4. \A q \in Qs : IsList(Lists.queue[q], Lists.next, Lists.prev, it[q])
    BY <1>2, <1>3 DEF IsList
  <1>5. \A q \in Qs, e \in Entries : ~ On(it, q, e)
    BY <1>2 DEF On
  <1>6. \A q \in Qs : Distinct(it[q])
    BY <1>2 DEF Distinct
  <1>7. Represents(Lists, it)
    BY <1>1, <1>2, <1>4, <1>5, <1>6 DEF Represents, Apart
  <1>8. Listed(it) = alloc
    BY <1>5 DEF Listed, QueueInit
  <1>9. msg \in Messages
    BY DEF QueueInit, Messages
  <1> QED
    BY <1>7, <1>8, <1>9 DEF ListsInv

LEMMA InitEmpty == QueueInit => Abs!SpecInit
  <1> SUFFICES ASSUME QueueInit
               PROVE  Waiting = [q \in QueueNums |-> <<>>] /\ offered = Nil /\ out = Nil
    BY DEF Abs!SpecInit, Waiting, Abs!QueueNums, QueueNums
  <1>1. \A q \in QueueNums : queue[q].head = Nil
    BY DEF QueueInit
  <1>2. \A q \in QueueNums : Waiting[q] = <<>>
    BY <1>1, InitRepresents, EmptyQueue
  <1>3. Waiting = [q \in QueueNums |-> Waiting[q]]
    BY DEF Waiting
  <1> QED
    BY <1>2, <1>3 DEF QueueInit

LEMMA InitInvariant == QueueInit => ring = FALSE /\ QueueInv
  <1> SUFFICES ASSUME QueueInit
               PROVE  ring = FALSE /\ QueueInv
    OBVIOUS
  <1>1. ListsInv /\ ring = FALSE
    BY InitRepresents DEF QueueInit
  <1>2. Waiting = [q \in QueueNums |-> <<>>]
    BY InitEmpty DEF Abs!SpecInit, Waiting, Abs!QueueNums, QueueNums
  <1>3. <<>> \in Seq(Msgs)
    OBVIOUS
  <1> HIDE DEF Waiting
  <1> QED
    BY <1>1, <1>2, <1>3 DEF QueueInv

LEMMA MembersRepresented ==
  ASSUME NEW it, Represents(Lists, it), NEW q \in Qs
  PROVE  /\ queue[q].len = Len(it[q]) /\ Len(it[q]) \in Nat
         /\ Members(q) = {e \in Entries : On(it, q, e)}
         /\ Cardinality(Members(q)) = Len(it[q])
  <1> DEFINE s == it[q]
             size == Len(s)
             M == {e \in Entries : On(it, q, e)}
  <1>1. s \in Seq(Entries) /\ size \in Nat /\ Distinct(s)
    BY DEF Represents, Apart
  <1>2. queue[q].len = size
    BY DEF Represents, IsList, Lists
  <1>3. Lists.next = next /\ Lists.queue = queue
    BY DEF Lists
  <1>4. \A k \in 0 .. size - 1 : Walk(next, queue[q].head, k) = s[k + 1]
    <2>1. ASSUME NEW k \in 0 .. size - 1
          PROVE  Walk(Lists.next, Lists.queue[q].head, k) = s[k + 1]
      BY WalkNext
    <2> QED
      BY <1>3, <2>1
  <1>5. \A e : e \in M <=> \E k \in 1 .. size : s[k] = e
    BY <1>1 DEF On
  <1> HIDE DEF s, size, M
  <1>6. Members(q) = {s[k + 1] : k \in 0 .. size - 1}
    BY <1>2, <1>4 DEF Members
  <1>7. {s[k + 1] : k \in 0 .. size - 1} = M
    <2>1. ASSUME NEW k \in 0 .. size - 1 PROVE s[k + 1] \in M
      BY <1>1, <1>5
    <2>2. ASSUME NEW e \in M PROVE \E k \in 0 .. size - 1 : s[k + 1] = e
      <3>1. PICK k \in 1 .. size : s[k] = e
        BY <1>5
      <3>2. k - 1 \in 0 .. size - 1 /\ s[(k - 1) + 1] = e
        BY <1>1, <3>1
      <3> QED
        BY <3>2
    <2> QED
      BY <2>1, <2>2
  <1>8. Cardinality(M) = size
    <2> DEFINE f == [k \in 1 .. size |-> s[k]]
    <2>1. f \in [1 .. size -> M]
      BY <1>5
    <2>2. \A j, k \in 1 .. size : f[j] = f[k] => j = k
      BY <1>1 DEF Distinct, size
    <2>3. \A e \in M : \E k \in 1 .. size : f[k] = e
      BY <1>5
    <2> HIDE DEF f
    <2>4. f \in Bijection(1 .. size, M)
      BY <2>1, <2>2, <2>3 DEF Bijection, Injection, Surjection, IsInjective
    <2>5. ExistsBijection(1 .. size, M)
      BY <2>4 DEF ExistsBijection
    <2> QED
      BY <1>1, <2>5, FS_CountingElements
  <1> QED
    BY <1>1, <1>2, <1>6, <1>7, <1>8 DEF M, size, s

LEMMA InvariantAccounts == ListsInv => EntriesAccounted
  <1> SUFFICES ASSUME ListsInv
               PROVE  EntriesAccounted
    OBVIOUS
  <1>1. PICK it : Represents(Lists, it) /\ Listed(it) = alloc
    BY DEF ListsInv
  <1>2. DOMAIN queue = Qs
    BY <1>1 DEF Represents, Lists
  <1>3. \A q \in Qs : /\ queue[q].len = Len(it[q]) /\ Len(it[q]) \in Nat
                      /\ Members(q) = {e \in Entries : On(it, q, e)}
                      /\ Cardinality(Members(q)) = Len(it[q])
    BY <1>1, MembersRepresented
  <1>4. UNION {Members(q) : q \in Qs} = alloc
    <2>1. UNION {Members(q) : q \in Qs} = Listed(it)
      BY <1>3 DEF Listed
    <2> QED
      BY <1>1, <2>1
  <1>5. \A q, r \in Qs : q # r => Members(q) \cap Members(r) = {}
    BY <1>1, <1>3 DEF Represents, Apart
  <1> DEFINE w(q, k) == Walk(next, queue[q].head, k)
  <1>6. ASSUME NEW q \in Qs, NEW k \in 0 .. queue[q].len - 1
        PROVE  w(q, k) = it[q][k + 1]
    <2>1. k \in 0 .. Len(it[q]) - 1
      BY <1>3, <1>6
    <2>2. Lists.next = next /\ Lists.queue = queue
      BY DEF Lists
    <2> QED
      BY <1>1, <2>1, <2>2, WalkNext
  <1> HIDE DEF w
  <1>7. ASSUME NEW q \in Qs
        PROVE  LET last == queue[q].len - 1
               IN  /\ queue[q].tail = IF last < 0 THEN Nil ELSE w(q, last)
                   /\ \A k \in 0 .. last :
                        prev[w(q, k)] \in IF k = 0 THEN {Nil} ELSE {w(q, k - 1), w(q, k)}
    <2> DEFINE s == it[q]
               size == Len(s)
    <2>1. size \in Nat /\ queue[q].len = size
      BY <1>3
    <2>2. /\ queue[q].tail = IF size = 0 THEN Nil ELSE s[size]
          /\ \A k \in 1 .. size : prev[s[k]] \in IF k = 1 THEN {Nil} ELSE {s[k - 1], s[k]}
      BY <1>1 DEF Represents, IsList, Lists
    <2>3. \A k \in 0 .. size - 1 : w(q, k) = s[k + 1]
      BY <1>6, <2>1
    <2> HIDE DEF s, size
    <2>4. queue[q].tail = IF size - 1 < 0 THEN Nil ELSE w(q, size - 1)
      <3>1. size # 0 => size - 1 \in 0 .. size - 1 /\ (size - 1) + 1 = size
        BY <2>1
      <3> QED
        BY <2>1, <2>2, <2>3, <3>1
    <2>5. ASSUME NEW k \in 0 .. size - 1
          PROVE  prev[w(q, k)] \in IF k = 0 THEN {Nil} ELSE {w(q, k - 1), w(q, k)}
      <3>1. /\ k + 1 \in 1 .. size /\ (k + 1 = 1 <=> k = 0) /\ (k + 1) - 1 = k
            /\ k # 0 => k - 1 \in 0 .. size - 1 /\ (k - 1) + 1 = k
        BY <2>1
      <3>2. w(q, k) = s[k + 1] /\ (k # 0 => w(q, k - 1) = s[k])
        BY <2>3, <3>1
      <3>3. prev[s[k + 1]] \in IF k = 0 THEN {Nil} ELSE {s[k], s[k + 1]}
        BY <2>2, <3>1
      <3> QED
        BY <3>2, <3>3
    <2> QED
      BY <2>1, <2>4, <2>5
  <1>8. \A q \in Qs : Cardinality(Members(q)) = queue[q].len
    BY <1>3
  <1> QED
    BY <1>2, <1>4, <1>5, <1>7, <1>8 DEF EntriesAccounted, w

-----------------------------------------------------------------------------
(* The theorems                                                            *)

\* As long as no list is a ring.
Sound == ring = TRUE \/ QueueInv

LEMMA SoundInductive == Sound /\ [QueueNext]_queueVars => Sound'
  BY StepMoves, RingStays DEF Sound, Moves

\* However many entries there are and however they are recycled, every entry
\* that queue_new allocated is in exactly one of the six queues and the list of
\* unused entries, and queue_append, queue_unlink and the first insertion in
\* front of an entry keep the lists, their lengths and their tails in agreement;
\* only the second insertion in front of the same entry ends that.
THEOREM NoEntryLost == OutputQueueSpec => []EntriesAccounted
  <1>1. QueueInit => Sound
    BY InitInvariant DEF Sound
  <1>2. Sound => EntriesAccounted
    BY InvariantAccounts DEF Sound, QueueInv, EntriesAccounted
  <1> QED
    BY <1>1, <1>2, SoundInductive, PTL DEF OutputQueueSpec

\* The linked lists implement QueueSpec: printserv, server_queue_set and
\* server_queue_insert put messages where the six sequences have them, and
\* dequeue_messages offers them to the binds by priority, the oldest first, each
\* once, and hands on what the binds leave, up to the step that makes a ring of a
\* list.
THEOREM ListsImplementQueues == OutputQueueSpec => Implements
  <1>1. QueueInit => Sound
    BY InitInvariant DEF Sound
  <1>2. Sound /\ [QueueNext]_queueVars =>
          [Abs!SpecNext \/ ring']_<<[q \in QueueNums |-> Contents(q)], offered, out>>
    BY StepMoves, RingStays DEF Sound, Moves
  <1> QED
    BY <1>1, <1>2, SoundInductive, InitEmpty, PTL
    DEF OutputQueueSpec, Implements, Abs!specVars

=============================================================================
