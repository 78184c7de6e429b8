------------------------------ MODULE DccProofs ------------------------------
(***************************************************************************)
(* A file that modules/server/dcc.c transfers is the file that was sent,   *)
(* for every length of it, size of a chunk, capacity of the connection and *)
(* number of attempts, unless the sender followed a RESUME of an attempt   *)
(* that was given up.                                                      *)
(*                                                                         *)
(* The argument has two halves.  The private messages: every attempt sends *)
(* one RESUME, what is accepted was asked for, and when an attempt has the *)
(* connection its messages are used up (History, Settled).  The transfer:  *)
(* what is in the sender's sockbuf and in the connection is the run of     *)
(* blocks between where the receiver writes and where the sender reads     *)
(* (Order).  The second half is about the records of both ends and needs   *)
(* nothing of the messages, so it comes first.                             *)
(***************************************************************************)
EXTENDS Dcc, SequenceLemmas, SequenceTheorems, FiniteSetTheorems, TLAPS

Resume == [t : {"resume"}, pos : 1 .. Size, by : Nat \ {0}]
Reply == [t : {"send", "accept"}, pos : 0 .. Size, by : Nat]
SndRec ==
  [st : {"none", "listen", "accepted", "up", "ended"}, timer : {0, 1}, pos : Int, sent : Int,
   left : Int, acked : Int, resumed : Int, buf : Seq(Int), resumers : SUBSET Nat,
   told : {"nothing", "timeout", "Success", "eof"}]
RcvRec ==
  [st : {"none", "resume", "connecting", "dead", "queued", "up"}, timer : {0, 1}, pos : Int,
   sent : Int, left : Int, resumed : Int]
NetRec ==
  [by : Nat, cap : Int, data : Seq(Int), acks : Seq(Int), sopen : {0, 1}, ropen : {0, 1},
   leaked : {0, 1}]

DccTypes ==
  /\ snd \in SndRec /\ rcv \in RcvRec /\ net \in NetRec /\ file \in Seq(Int)
  /\ toSnd \in Seq(Resume) /\ toRcv \in Seq(Reply) /\ attempts \in Nat \cup {-1}

-----------------------------------------------------------------------------
(* The messages                                                            *)

\* The attempt that has the connection or may still get it.
Holder == IF net.by = 0 THEN attempts ELSE net.by

Offers == {i \in DOMAIN toRcv : toRcv[i].t = "send"}
Accepts == {i \in DOMAIN toRcv : toRcv[i].t = "accept"}

\* Every attempt asks once, and what is answered was followed.
Asked ==
  /\ snd.resumers \subseteq 1 .. attempts
  /\ \A i \in DOMAIN toSnd : /\ toSnd[i].by \in 1 .. attempts /\ toSnd[i].by \notin snd.resumers
                             /\ toSnd[i].by = attempts => toSnd[i].pos <= Len(file)
  /\ \A i, j \in DOMAIN toSnd : toSnd[i].by = toSnd[j].by => i = j
Answered ==
  /\ \A i \in Accepts : /\ toRcv[i].by \in snd.resumers
                        /\ toRcv[i].by = attempts => toRcv[i].pos <= Len(file)
  /\ \A i, j \in Accepts : toRcv[i].by = toRcv[j].by => i = j
\* There is one offer, and attempts come after it.
Offered ==
  /\ Offers # {} => attempts = -1
  /\ \A i, j \in Offers : i = j
  /\ snd.st = "none" => toRcv = <<>> /\ attempts = -1
  /\ net.by \in 0 .. attempts \/ net.by = 0
  /\ net.by = 0 => net = NoNet
  /\ rcv.st # "none" => attempts >= 1
  /\ snd.st \in {"accepted", "up"} => net.by # 0

History == Asked /\ Answered /\ Offered

\* The sender follows nobody but the attempt that gets the connection.
Fair == snd.resumers \subseteq {Holder}

\* Once an attempt connects, its RESUME and the ACCEPT are used up.
Settled ==
  /\ net.leaked = 0
  /\ \A i \in Accepts : toRcv[i].pos = snd.resumed
  /\ net.by # 0 \/ rcv.st \in {"connecting", "dead"} =>
       Accepts = {} /\ \A i \in DOMAIN toSnd : toSnd[i].by # Holder

-----------------------------------------------------------------------------
(* The transfer: s, r, c, f and a are the sender, the receiver, the        *)
(* connection, the receiver's file and the number of the last attempt.     *)

\* The sender is where it should be in the file.
At(s) ==
  /\ s.resumed \in 0 .. Size
  /\ s.sent \in Nat /\ s.sent + s.left + s.resumed = Size
  /\ s.pos = s.resumed + s.sent + Len(s.buf) /\ s.pos <= Size
  /\ s.buf = Blocks(s.resumed + s.sent, Len(s.buf))

Live(s) == s.st \in {"listen", "accepted", "up"}

SenderAt(s, c) ==
  /\ s.resumers = {} => s.resumed = 0
  /\ s.st # "ended" => At(s)
  /\ s.st \in {"none", "listen", "accepted"} => s.sent = 0 /\ s.buf = <<>> /\ c.data = <<>>

\* The receiver counts right, and what it will read goes on where its file ends
\* or before.
Counts(r) ==
  /\ r.sent \in Nat /\ r.resumed \in Nat
  /\ r.sent + r.left + r.resumed = Size /\ r.pos = r.resumed + r.sent
ReceiverAt(s, r, c, f, a) ==
  /\ r.st # "none" => r.pos \in 0 .. Len(f)
  /\ r.st = "resume" => r.sent = 0 /\ r.left = Size /\ r.resumed = 0
  /\ r.st = "connecting" => r.sent = 0
  /\ r.st = "queued" => c.by # 0
  /\ r.st = "up" => c.by = a /\ c.data = Blocks(r.pos, Len(c.data))
  /\ r.st = "connecting" /\ c.by = 0 => r.resumed = s.resumed
  /\ r.st \in {"connecting", "up"} /\ c.by \in {0, a} => Counts(r)

Connection(s, r, c, a) ==
  /\ Len(c.data) <= c.cap
  /\ c.ropen = 0 => c.data = <<>>
  /\ c.sopen = 1 => Live(s)
  /\ c.by = 0 => s.st \notin {"accepted", "up"}
  /\ c.by = a /\ r.st # "none" /\ c.sopen = 1 => c.ropen = 1

\* While both ends are there they agree, and what is between them is what the
\* receiver needs next.
Agree(s, r, c) ==
  /\ s.sent = r.sent + Len(c.data)
  /\ s.resumed = r.resumed
  /\ c.data = Blocks(r.pos, Len(c.data))
  /\ \A i \in DOMAIN c.acks : c.acks[i] <= s.sent
Joined(s, r, c, a) ==
  Live(s) /\ c.ropen = 1 /\ r.st \in {"connecting", "up"} /\ c.by = a => Agree(s, r, c)

Faithful(f) == \A i \in DOMAIN f : f[i] = i
Told(s) == s.told = "Success" => s.st = "ended" /\ s.sent + s.resumed = Size

Order(s, r, c, f, a) ==
  /\ SenderAt(s, c) /\ ReceiverAt(s, r, c, f, a) /\ Connection(s, r, c, a)
  /\ Joined(s, r, c, a) /\ Faithful(f) /\ Told(s)

\* The inductive invariant.
Transfer == Settled /\ Order(snd, rcv, net, file, attempts)
IInv == DccTypes /\ History /\ (Fair => Transfer)

-----------------------------------------------------------------------------
(* Blocks and chunks                                                       *)

LEMMA BlocksType ==
  ASSUME NEW p \in Int, NEW n \in Int
  PROVE  Blocks(p, n) \in Seq(Int)
  <1>1. CASE n \in Nat
    BY <1>1 DEF Blocks
  <1>2. CASE n \notin Nat
    <2>1. 1 .. n = 1 .. 0
      BY <1>2
    <2> QED
      BY <2>1 DEF Blocks
  <1> QED
    BY <1>1, <1>2

LEMMA BlocksLen ==
  ASSUME NEW p \in Int, NEW n \in Nat
  PROVE  /\ Len(Blocks(p, n)) = n /\ DOMAIN Blocks(p, n) = 1 .. n
         /\ \A i \in 1 .. n : Blocks(p, n)[i] = p + i
  BY DEF Blocks

LEMMA NoBlocks == ASSUME NEW p \in Int PROVE Blocks(p, 0) = <<>>
  BY BlocksLen, BlocksType

\* A sequence of integers is a run of blocks when its elements are.
LEMMA AreBlocks ==
  ASSUME NEW s \in Seq(Int), NEW p \in Int, NEW n \in Nat, Len(s) = n,
         \A i \in 1 .. n : s[i] = p + i
  PROVE  s = Blocks(p, n)
  <1> DEFINE t == Blocks(p, n)
  <1>1. t \in Seq(Int)
    BY BlocksType
  <1>2. Len(t) = n /\ \A i \in 1 .. n : t[i] = p + i
    BY BlocksLen
  <1> HIDE DEF t
  <1>3. \A i \in 1 .. n : s[i] = t[i]
    BY <1>2
  <1>4. s = t
    BY <1>1, <1>2, <1>3, SeqEqual
  <1> QED
    BY <1>4 DEF t

LEMMA RunOf ==
  ASSUME NEW p \in Int, NEW n \in Nat, NEW x, x = Blocks(p, n)
  PROVE  x \in Seq(Int) /\ Len(x) = n /\ \A i \in 1 .. n : x[i] = p + i
  <1>1. Blocks(p, n) \in Seq(Int)
    BY BlocksType
  <1>2. Len(Blocks(p, n)) = n /\ \A i \in 1 .. n : Blocks(p, n)[i] = p + i
    BY BlocksLen
  <1> QED
    BY <1>1, <1>2

IsRun(x, p, n) == x \in Seq(Int) /\ Len(x) = n /\ \A i \in 1 .. n : x[i] = p + i

LEMMA JoinRuns ==
  ASSUME NEW p \in Int, NEW a \in Nat, NEW b \in Nat, NEW x \in Seq(Int), NEW y \in Seq(Int),
         NEW c \in Int, c = p + a, IsRun(x, p, a), IsRun(y, c, b)
  PROVE  IsRun(x \o y, p, a + b)
  <1>1. x \o y \in Seq(Int) /\ Len(x \o y) = a + b
    BY ConcatProperties DEF IsRun
  <1>2. ASSUME NEW i \in 1 .. (a + b) PROVE (x \o y)[i] = p + i
    <2>0. i <= a \/ i > a
      OBVIOUS
    <2>1. CASE i <= a
      BY <2>1 DEF IsRun
    <2>2. CASE i > a
      <3>1. i - a \in 1 .. b
        BY <2>2
      <3>2. (x \o y)[i] = y[i - a]
        BY <2>2 DEF IsRun
      <3>3. y[i - a] = c + (i - a)
        BY <3>1 DEF IsRun
      <3>4. c + (i - a) = p + i
        OBVIOUS
      <3> QED
        BY <3>2, <3>3, <3>4
    <2> QED
      BY <2>0, <2>1, <2>2
  <1> QED
    BY <1>1, <1>2 DEF IsRun

LEMMA RunsAreBlocks ==
  ASSUME NEW p \in Int, NEW n \in Nat, NEW x
  PROVE  IsRun(x, p, n) <=> x = Blocks(p, n)
  BY RunOf, AreBlocks DEF IsRun

LEMMA JoinBlocks ==
  ASSUME NEW p \in Int, NEW a \in Nat, NEW b \in Nat, NEW c \in Int, c = p + a
  PROVE  Blocks(p, a) \o Blocks(c, b) = Blocks(p, a + b)
  <1> DEFINE x == Blocks(p, a)
             y == Blocks(c, b)
  <1>1. IsRun(x, p, a) /\ IsRun(y, c, b)
    BY RunsAreBlocks
  <1> HIDE DEF x, y
  <1>2. x \in Seq(Int) /\ y \in Seq(Int)
    BY <1>1 DEF IsRun
  <1>3. IsRun(x \o y, p, a + b)
    BY <1>1, <1>2, JoinRuns
  <1>4. ASSUME NEW n \in Nat, n = a + b, NEW z, z = x \o y PROVE z = Blocks(p, n)
    <2>1. IsRun(z, p, n)
      BY <1>3, <1>4
    <2> QED
      BY <2>1, RunsAreBlocks
  <1>5. a + b \in Nat
    OBVIOUS
  <1>6. x \o y = Blocks(p, a + b)
    BY <1>4, <1>5
  <1> QED
    BY <1>6 DEF x, y

LEMMA SplitBlocks ==
  ASSUME NEW p \in Int, NEW k \in Nat, NEW n \in 0 .. k, NEW s, s = Blocks(p, k)
  PROVE  /\ SubSeq(s, 1, n) = Blocks(p, n)
         /\ SubSeq(s, n + 1, k) = Blocks(p + n, k - n)
  <1> DEFINE t == SubSeq(s, 1, n)
             u == SubSeq(s, n + 1, k)
  <1>1. s \in Seq(Int) /\ Len(s) = k /\ \A i \in 1 .. k : s[i] = p + i
    BY RunOf
  <1>2. t \in Seq(Int) /\ Len(t) = n /\ \A i \in 1 .. n : t[i] = s[i]
    BY <1>1
  <1>3. u \in Seq(Int) /\ Len(u) = k - n /\ \A i \in 1 .. (k - n) : u[i] = s[n + i]
    BY <1>1
  <1> HIDE DEF t, u
  <1>4. t = Blocks(p, n)
    <2>1. \A i \in 1 .. n : t[i] = p + i
      BY <1>1, <1>2
    <2> QED
      BY <1>2, <2>1, AreBlocks
  <1>5. u = Blocks(p + n, k - n)
    <2>1. p + n \in Int /\ k - n \in Nat /\ \A i \in 1 .. (k - n) : u[i] = (p + n) + i
      BY <1>1, <1>3
    <2> QED
      BY <1>3, <2>1, AreBlocks
  <1> QED
    BY <1>4, <1>5 DEF t, u

\* What dcc_send_bytes reads is a whole number of chunks, more than there is
\* room for.
LEMMA ChunkCovers ==
  ASSUME NEW room \in Nat
  PROVE  /\ (room \div Chunk + 1) * Chunk \in Nat
         /\ (room \div Chunk + 1) * Chunk >= room
  <1> DEFINE q == room \div Chunk
             m == room % Chunk
  <1>1. Chunk \in Nat \ {0}
    BY DccAssumption
  <1>2. q \in Nat /\ m \in Nat /\ m < Chunk /\ room = q * Chunk + m
    BY <1>1
  <1> HIDE DEF q, m
  <1>3. q * Chunk \in Nat /\ (q + 1) * Chunk = q * Chunk + Chunk
    BY <1>1, <1>2
  <1> QED
    BY <1>1, <1>2, <1>3 DEF q

LEMMA LowerOf ==
  ASSUME NEW a \in Int, NEW b \in Int
  PROVE  /\ Low(a, b) \in {a, b} /\ Low(a, b) <= a /\ Low(a, b) <= b
  BY DEF Low

LEMMA MaxPair ==
  ASSUME NEW a \in Int, NEW b \in Int
  PROVE  Max({a, b}) = IF a < b THEN b ELSE a
  <1> DEFINE m == IF a < b THEN b ELSE a
  <1>1. m \in {a, b} /\ \A y \in {a, b} : m >= y
    OBVIOUS
  <1>2. ASSUME NEW x \in {a, b}, \A y \in {a, b} : x >= y PROVE x = m
    BY <1>2
  <1> QED
    BY <1>1, <1>2 DEF Max

-----------------------------------------------------------------------------
(* What the sender's operations do                                         *)

LEMMA LivesOn == Sending <=> Live(snd)
  BY DEF Sending, Live

\* s2 is s with w more blocks written to the connection c, which becomes c2.
SameConn(c, c2) ==
  /\ c2.by = c.by /\ c2.cap = c.cap /\ c2.sopen = c.sopen /\ c2.ropen = c.ropen
  /\ c2.leaked = c.leaked
Advances(s, c, s2, c2, w) ==
  /\ s2 \in SndRec /\ c2 \in NetRec
  /\ s2.st = s.st /\ s2.told = s.told /\ s2.resumed = s.resumed /\ s2.resumers = s.resumers
  /\ s2.acked = s.acked
  /\ SameConn(c, c2) /\ c2.acks = c.acks
  /\ At(s) /\ Len(c.data) <= c.cap =>
       /\ At(s2) /\ w \in Nat /\ s2.sent = s.sent + w
       /\ c.ropen = 1 => c2.data = c.data \o Blocks(s.resumed + s.sent, w)
       /\ c.ropen = 0 => c2.data = c.data
       /\ Len(c2.data) <= c2.cap

LEMMA DeleteTypes ==
  ASSUME NEW s \in SndRec, NEW told \in {"nothing", "timeout", "Success", "eof"}
  PROVE  LET d == dcc_send_delete(s, told)
         IN  /\ d \in SndRec /\ d.st = "ended" /\ d.told = told /\ d.sent = s.sent
             /\ d.left = s.left /\ d.resumed = s.resumed /\ d.resumers = s.resumers
  <1>1. <<>> \in Seq(Int)
    OBVIOUS
  <1> QED
    BY <1>1 DEF dcc_send_delete, dcc_listen_delete, SndRec

LEMMA SenderClosesTypes ==
  ASSUME NEW c \in NetRec
  PROVE  LET d == SenderCloses(c)
         IN  /\ d \in NetRec /\ d.by = c.by /\ d.cap = c.cap /\ d.data = c.data /\ d.acks = <<>>
             /\ d.sopen = 0 /\ d.ropen = c.ropen /\ d.leaked = c.leaked
  <1>1. <<>> \in Seq(Int)
    OBVIOUS
  <1> QED
    BY <1>1 DEF SenderCloses, NetRec

LEMMA DataSet ==
  ASSUME NEW c \in NetRec, NEW x \in Seq(Int)
  PROVE  LET d == [c EXCEPT !.data = x]
         IN  d \in NetRec /\ SameConn(c, d) /\ d.acks = c.acks /\ d.data = x
  BY DEF NetRec, SameConn

LEMMA AcksSet ==
  ASSUME NEW c \in NetRec, NEW x \in Seq(Int)
  PROVE  LET d == [c EXCEPT !.acks = x]
         IN  d \in NetRec /\ SameConn(c, d) /\ d.acks = x /\ d.data = c.data
  BY DEF NetRec, SameConn

LEMMA PushTypes ==
  ASSUME NEW c \in NetRec, NEW blocks \in Seq(Int)
  PROVE  LET d == Push(c, blocks)
         IN  /\ d \in NetRec /\ SameConn(c, d) /\ d.acks = c.acks
             /\ c.ropen = 1 => d.data = c.data \o blocks
             /\ c.ropen = 0 => d.data = c.data
  <1>1. c.data \in Seq(Int) /\ c.ropen \in {0, 1}
    BY DEF NetRec
  <1>2. c.data \o blocks \in Seq(Int)
    BY <1>1, ConcatProperties
  <1>3. CASE c.ropen = 1
    <2> DEFINE x == c.data \o blocks
    <2>1. Push(c, blocks) = [c EXCEPT !.data = x]
      BY <1>3 DEF Push
    <2> HIDE DEF x
    <2>2. LET d == [c EXCEPT !.data = x]
          IN  d \in NetRec /\ SameConn(c, d) /\ d.acks = c.acks /\ d.data = x
      BY <1>2, DataSet DEF x
    <2>3. LET d == Push(c, blocks)
          IN  d \in NetRec /\ SameConn(c, d) /\ d.acks = c.acks /\ d.data = x
      BY <2>1, <2>2
    <2> QED
      BY <1>3, <2>3 DEF x
  <1>4. CASE c.ropen = 0
    BY <1>4 DEF Push, SameConn
  <1> QED
    BY <1>1, <1>3, <1>4

\* The positions of a sender that wrote w blocks and read took.
Ahead(s, took, wrote, buf) ==
  [s EXCEPT !.pos = s.pos + took, !.sent = s.sent + wrote, !.left = s.left - wrote, !.buf = buf]

LEMMA AheadTypes ==
  ASSUME NEW s \in SndRec, NEW took \in Int, NEW wrote \in Int, NEW buf \in Seq(Int)
  PROVE  LET t == Ahead(s, took, wrote, buf)
         IN  /\ t \in SndRec /\ t.st = s.st /\ t.told = s.told /\ t.resumed = s.resumed
             /\ t.resumers = s.resumers /\ t.acked = s.acked /\ t.buf = buf
             /\ t.pos = s.pos + took /\ t.sent = s.sent + wrote /\ t.left = s.left - wrote
  <1>1. s.pos \in Int /\ s.sent \in Int /\ s.left \in Int
    BY DEF SndRec
  <1>2. ASSUME NEW p \in Int, NEW x \in Int, NEW y \in Int,
               p = s.pos + took, x = s.sent + wrote, y = s.left - wrote,
               NEW t, t = Ahead(s, took, wrote, buf)
        PROVE  /\ t \in SndRec /\ t.st = s.st /\ t.told = s.told /\ t.resumed = s.resumed
               /\ t.resumers = s.resumers /\ t.acked = s.acked /\ t.buf = buf
               /\ t.pos = p /\ t.sent = x /\ t.left = y
    <2>1. t = [s EXCEPT !.pos = p, !.sent = x, !.left = y, !.buf = buf]
      BY <1>2 DEF Ahead
    <2> QED
      BY <2>1 DEF SndRec
  <1>3. s.pos + took \in Int /\ s.sent + wrote \in Int /\ s.left - wrote \in Int
    BY <1>1
  <1> QED
    BY <1>2, <1>3

LEMMA SendBytes ==
  ASSUME NEW s \in SndRec, NEW c \in NetRec
  PROVE  LET r == dcc_send_bytes(s, c)
             w == r.s.sent - s.sent
         IN  /\ Advances(s, c, r.s, r.c, w)
             /\ At(s) /\ Len(c.data) <= c.cap /\ s.buf = <<>> /\ r.eof =>
                  r.s.sent + r.s.resumed = Size
  <1> DEFINE avail == Size - s.pos
             room == IF s.buf = <<>> THEN c.cap - Len(c.data) ELSE 0
             wrote == Low(avail, room)
             chunks == (room \div Chunk + 1) * Chunk
             took == IF avail <= room THEN avail ELSE Low(avail, chunks)
             rest == Blocks(s.pos + wrote, took - wrote)
             buf == s.buf \o rest
             out == Blocks(s.pos, wrote)
             r == dcc_send_bytes(s, c)
  <1>1. /\ s.pos \in Int /\ s.sent \in Int /\ s.left \in Int /\ s.buf \in Seq(Int) /\ s.resumed \in Int
        /\ c.data \in Seq(Int) /\ Len(c.data) \in Nat /\ c.cap \in Int /\ c.ropen \in {0, 1}
        /\ Len(s.buf) \in Nat
    BY DEF SndRec, NetRec
  <1>2. Size \in Nat /\ Chunk \in Nat /\ Chunk # 0
    BY DccAssumption
  <1>3. avail \in Int /\ room \in Int
    BY <1>1, <1>2
  <1>4. chunks \in Int
    <2> HIDE DEF room
    <2>1. room \div Chunk \in Int
      BY <1>2, <1>3
    <2> QED
      BY <1>2, <2>1
  <1>5. wrote \in Int /\ took \in Int
    <2> HIDE DEF avail, room, chunks
    <2> QED
      BY <1>3, <1>4 DEF Low
  <1>6. rest \in Seq(Int) /\ out \in Seq(Int)
    <2> HIDE DEF wrote, took
    <2>1. s.pos + wrote \in Int /\ took - wrote \in Int
      BY <1>1, <1>5
    <2> QED
      BY <1>1, <1>5, <2>1, BlocksType
  <1>7. buf \in Seq(Int)
    <2> HIDE DEF rest
    <2> QED
      BY <1>1, <1>6, ConcatProperties
  <1>8. /\ r.s = Ahead(s, took, wrote, buf) /\ r.c = Push(c, out) /\ r.eof = (avail <= room)
    BY DEF dcc_send_bytes, Ahead
  <1> HIDE DEF avail, room, wrote, chunks, took, rest, buf, out, r
  <1>9. /\ r.s \in SndRec /\ r.s.st = s.st /\ r.s.told = s.told /\ r.s.resumed = s.resumed
        /\ r.s.resumers = s.resumers /\ r.s.acked = s.acked /\ r.s.buf = buf
        /\ r.s.pos = s.pos + took /\ r.s.sent = s.sent + wrote /\ r.s.left = s.left - wrote
    BY <1>5, <1>7, <1>8, AheadTypes
  <1>10. /\ r.c \in NetRec /\ SameConn(c, r.c) /\ r.c.acks = c.acks
         /\ c.ropen = 1 => r.c.data = c.data \o out
         /\ c.ropen = 0 => r.c.data = c.data
    BY <1>6, <1>8, PushTypes
  <1>11. r.s.sent - s.sent = wrote
    BY <1>1, <1>5, <1>9
  <1>12. ASSUME At(s), Len(c.data) <= c.cap
         PROVE  /\ At(r.s) /\ wrote \in Nat
                /\ c.ropen = 1 => r.c.data = c.data \o Blocks(s.resumed + s.sent, wrote)
                /\ Len(r.c.data) <= r.c.cap
                /\ s.buf = <<>> /\ r.eof => r.s.sent + r.s.resumed = Size
    <2>1. /\ s.resumed \in 0 .. Size /\ s.sent \in Nat /\ s.sent + s.left + s.resumed = Size
          /\ s.pos = s.resumed + s.sent + Len(s.buf) /\ s.pos <= Size
          /\ s.buf = Blocks(s.resumed + s.sent, Len(s.buf))
      BY <1>12 DEF At
    <2>2. avail \in Nat /\ room \in Nat
      BY <1>1, <1>2, <1>12, <2>1, SMTT(30) DEF avail, room
    <2>3. wrote \in Nat /\ wrote <= avail /\ wrote <= room /\ (avail <= room => wrote = avail)
      BY <2>2 DEF wrote, Low
    <2>4. chunks \in Nat /\ chunks >= room
      BY <2>2, ChunkCovers DEF chunks
    <2>5. took \in Nat /\ wrote <= took /\ took <= avail
      BY <2>2, <2>3, <2>4 DEF took, Low
    <2>6. s.buf # <<>> => wrote = 0
      BY <2>2, <2>3 DEF room
    <2>7. s.buf = <<>> => s.pos = s.resumed + s.sent
      BY <1>1, <2>1
    <2>8. Len(rest) = took - wrote /\ Len(out) = wrote /\ Len(buf) = Len(s.buf) + (took - wrote)
      <3>1. s.pos + wrote \in Int /\ took - wrote \in Nat
        BY <1>1, <2>3, <2>5
      <3>2. Len(rest) = took - wrote
        BY <3>1, BlocksLen DEF rest
      <3>3. Len(out) = wrote
        BY <1>1, <2>3, BlocksLen DEF out
      <3>4. Len(buf) = Len(s.buf) + Len(rest)
        BY <1>1, <1>6, ConcatProperties DEF buf
      <3> QED
        BY <3>2, <3>3, <3>4
    <2>9. c.ropen = 1 => r.c.data = c.data \o Blocks(s.resumed + s.sent, wrote)
      <3>1. CASE s.buf = <<>>
        BY <1>10, <2>7, <3>1 DEF out
      <3>2. CASE s.buf # <<>>
        <4>1. wrote = 0 /\ s.resumed + s.sent \in Int
          BY <1>1, <2>6, <3>2
        <4>2. out = <<>> /\ Blocks(s.resumed + s.sent, wrote) = <<>>
          BY <1>1, <4>1, NoBlocks DEF out
        <4> QED
          BY <1>10, <4>2
      <3> QED
        BY <3>1, <3>2
    <2>10. Len(r.c.data) <= r.c.cap
      <3>1. Len(c.data) + wrote <= c.cap
        BY <1>1, <1>12, <2>3, <2>6 DEF room
      <3>2. c.ropen = 1 => Len(r.c.data) = Len(c.data) + wrote
        BY <1>1, <1>6, <1>10, <2>8, ConcatProperties, ZenonT(40)
      <3> QED
        BY <1>1, <1>10, <1>12, <3>1, <3>2 DEF SameConn
    <2>11. s.buf = <<>> /\ r.eof => r.s.sent + r.s.resumed = Size
      <3> SUFFICES ASSUME s.buf = <<>>, r.eof PROVE r.s.sent + r.s.resumed = Size
        OBVIOUS
      <3>1. wrote = Size - s.pos /\ s.pos = s.resumed + s.sent
        BY <1>8, <2>3, <2>7 DEF avail
      <3> QED
        BY <1>1, <1>2, <1>9, <3>1
    <2>12. buf = Blocks(s.resumed + s.sent + wrote, Len(buf))
      <3>1. CASE s.buf = <<>>
        <4>1. buf = rest /\ Len(buf) = took - wrote
          BY <1>1, <1>6, <2>8, <3>1 DEF buf
        <4>2. s.pos + wrote = s.resumed + s.sent + wrote
          BY <2>7, <3>1
        <4> QED
          BY <4>1, <4>2 DEF rest
      <3>2. CASE s.buf # <<>>
        <4> DEFINE p == s.resumed + s.sent
        <4>1. wrote = 0 /\ p \in Int /\ took \in Nat /\ s.pos = p + Len(s.buf)
          BY <1>1, <2>1, <2>5, <2>6, <3>2
        <4>2. rest = Blocks(s.pos, took) /\ Len(buf) = Len(s.buf) + took
          <5>1. s.pos + wrote = s.pos /\ took - wrote = took
            BY <1>1, <4>1
          <5> QED
            BY <2>8, <5>1 DEF rest
        <4> DEFINE n == Len(s.buf)
        <4>3. s.buf = Blocks(p, n) /\ p + wrote = p /\ n \in Nat
          BY <1>1, <2>1, <4>1
        <4>c. p \in Int /\ n \in Nat /\ took \in Nat /\ s.pos \in Int /\ s.pos = p + n
          BY <1>1, <4>1
        <4> HIDE DEF p, n
        <4>4. Blocks(p, n) \o Blocks(s.pos, took) = Blocks(p, n + took)
          BY <4>c, JoinBlocks
        <4>5. buf = Blocks(p, n + took)
          <5>1. buf = s.buf \o rest
            BY DEF buf
          <5>2. s.buf = Blocks(p, n) /\ rest = Blocks(s.pos, took)
            BY <4>2, <4>3
          <5> QED
            BY <4>4, <5>1, <5>2
        <4>6. buf = Blocks(p + wrote, Len(buf))
          BY <4>2, <4>3, <4>5 DEF n
        <4> QED
          BY <4>6 DEF p
      <3> QED
        BY <3>1, <3>2
    <2>13. At(r.s)
      <3>1. s.resumed + (s.sent + wrote) = s.resumed + s.sent + wrote
        BY <1>1, <2>3
      <3>2. r.s.buf = Blocks(r.s.resumed + r.s.sent, Len(r.s.buf))
        BY <1>9, <2>12, <3>1
      <3>3. Len(r.s.buf) = Len(s.buf) + (took - wrote)
        BY <1>9, <2>8
      <3>4. r.s.resumed \in 0 .. Size /\ r.s.sent \in Nat
        BY <1>9, <2>1, <2>3
      <3>5. r.s.sent + r.s.left + r.s.resumed = Size
        BY <1>1, <1>2, <1>9, <2>1, <2>3
      <3>6. r.s.pos <= Size
        BY <1>1, <1>2, <1>9, <2>5 DEF avail
      <3>7. r.s.pos = r.s.resumed + r.s.sent + Len(r.s.buf)
        <4>1. s.pos = s.resumed + s.sent + Len(s.buf)
          BY <2>1
        <4>2. s.pos + took = s.resumed + (s.sent + wrote) + (Len(s.buf) + (took - wrote))
          BY <1>1, <1>5, <4>1, SMTT(30)
        <4> QED
          BY <1>9, <3>3, <4>2
      <3> QED
        BY <3>2, <3>4, <3>5, <3>6, <3>7 DEF At
    <2> QED
      BY <2>3, <2>9, <2>10, <2>11, <2>13
  <1> QED
    BY <1>9, <1>10, <1>11, <1>12 DEF Advances, r

\* sockbuf_got_writable: n blocks that waited are written.
Flushed(s, n) ==
  [s EXCEPT !.buf = SubSeq(@, n + 1, Len(@)), !.sent = @ + n, !.left = @ - n]

LEMMA Flush ==
  ASSUME NEW s \in SndRec, NEW c \in NetRec, NEW n \in 1 .. Len(s.buf), n <= c.cap - Len(c.data)
  PROVE  Advances(s, c, Flushed(s, n), Push(c, SubSeq(s.buf, 1, n)), n)
  <1> DEFINE k == Len(s.buf)
             p == s.resumed + s.sent
             rest == SubSeq(s.buf, n + 1, Len(s.buf))
             out == SubSeq(s.buf, 1, n)
             t == Flushed(s, n)
             d == Push(c, out)
  <1>1. /\ s.pos \in Int /\ s.sent \in Int /\ s.left \in Int /\ s.buf \in Seq(Int) /\ s.resumed \in Int
        /\ c.data \in Seq(Int) /\ Len(c.data) \in Nat /\ c.cap \in Int /\ c.ropen \in {0, 1}
        /\ k \in Nat /\ n \in Nat /\ n \in 0 .. k
    BY DEF SndRec, NetRec
  <1>2. rest \in Seq(Int) /\ out \in Seq(Int) /\ Len(rest) = k - n /\ Len(out) = n
    BY <1>1, SMTT(30)
  <1>3. s.sent + n \in Int /\ s.left - n \in Int
    BY <1>1
  <1>4. t = [s EXCEPT !.buf = rest, !.sent = s.sent + n, !.left = s.left - n]
    BY DEF Flushed
  <1> HIDE DEF rest, out, t
  <1>5. /\ t \in SndRec /\ t.st = s.st /\ t.told = s.told /\ t.resumed = s.resumed
        /\ t.resumers = s.resumers /\ t.acked = s.acked /\ t.buf = rest
        /\ t.pos = s.pos /\ t.sent = s.sent + n /\ t.left = s.left - n
    <2>1. ASSUME NEW x \in Int, NEW y \in Int, x = s.sent + n, y = s.left - n
          PROVE  /\ t \in SndRec /\ t.st = s.st /\ t.told = s.told /\ t.resumed = s.resumed
                 /\ t.resumers = s.resumers /\ t.acked = s.acked /\ t.buf = rest
                 /\ t.pos = s.pos /\ t.sent = x /\ t.left = y
      <3>1. t = [s EXCEPT !.buf = rest, !.sent = x, !.left = y]
        BY <1>4, <2>1
      <3> QED
        BY <1>2, <3>1 DEF SndRec
    <2> QED
      BY <1>3, <2>1
  <1>6. /\ d \in NetRec /\ SameConn(c, d) /\ d.acks = c.acks
        /\ c.ropen = 1 => d.data = c.data \o out
        /\ c.ropen = 0 => d.data = c.data
    BY <1>2, PushTypes
  <1> HIDE DEF d
  <1>7. ASSUME At(s), Len(c.data) <= c.cap
        PROVE  /\ At(t)
               /\ c.ropen = 1 => d.data = c.data \o Blocks(p, n)
               /\ Len(d.data) <= d.cap
    <2>1. /\ s.resumed \in 0 .. Size /\ s.sent \in Nat /\ s.sent + s.left + s.resumed = Size
          /\ s.pos = p + k /\ s.pos <= Size /\ s.buf = Blocks(p, k) /\ p \in Int
      BY <1>1, <1>7 DEF At
    <2> HIDE DEF p, k
    <2>2. SubSeq(s.buf, 1, n) = Blocks(p, n) /\ SubSeq(s.buf, n + 1, k) = Blocks(p + n, k - n)
      <3>1. p \in Int /\ k \in Nat /\ n \in 0 .. k /\ s.buf = Blocks(p, k)
        BY <1>1, <2>1
      <3> QED
        BY <3>1, SplitBlocks
    <2>3. out = Blocks(p, n) /\ rest = Blocks(p + n, k - n)
      BY <2>2 DEF out, rest, k
    <2>4. Len(d.data) <= d.cap
      <3>1. c.ropen = 1 => Len(d.data) = Len(c.data) + n
        BY <1>1, <1>2, <1>6, ConcatProperties
      <3> QED
        BY <1>1, <1>6, <1>7, <3>1 DEF SameConn
    <2>5. t.resumed + t.sent = p + n
      BY <1>1, <1>5 DEF p
    <2>6. t.resumed \in 0 .. Size /\ t.sent \in Nat
      BY <1>1, <1>5, <2>1, SMTT(30)
    <2>7. t.sent + t.left + t.resumed = Size
      BY <1>1, <1>5, <2>1
    <2>8. t.pos = t.resumed + t.sent + Len(t.buf) /\ t.pos <= Size
      <3>1. p + k = (p + n) + (k - n)
        BY <1>1, <2>1
      <3> QED
        BY <1>2, <1>5, <2>1, <2>5, <3>1
    <2>9. t.buf = Blocks(t.resumed + t.sent, Len(t.buf))
      BY <1>2, <1>5, <2>3, <2>5
    <2> QED
      BY <1>6, <2>3, <2>4, <2>6, <2>7, <2>8, <2>9 DEF At
  <1>8. Advances(s, c, t, d, n)
    <2>1. At(s) /\ Len(c.data) <= c.cap =>
            /\ At(t) /\ n \in Nat /\ t.sent = s.sent + n
            /\ c.ropen = 1 => d.data = c.data \o Blocks(s.resumed + s.sent, n)
            /\ c.ropen = 0 => d.data = c.data
            /\ Len(d.data) <= d.cap
      BY <1>1, <1>5, <1>6, <1>7
    <2> QED
      BY <1>5, <1>6, <2>1 DEF Advances
  <1> QED
    BY <1>8 DEF t, d, out

LEMMA JoinAssociates ==
  ASSUME NEW x \in Seq(Int), NEW y \in Seq(Int), NEW z \in Seq(Int)
  PROVE  (x \o y) \o z = x \o (y \o z)
  BY ConcatAssociative, SMTT(30)

LEMMA AdvancesTwice ==
  ASSUME NEW s, NEW c \in NetRec, NEW s1 \in SndRec, NEW c1 \in NetRec, NEW s2, NEW c2, NEW n, NEW w,
         s.resumed \in Int, s.sent \in Int,
         Advances(s, c, s1, c1, n), Advances(s1, c1, s2, c2, w)
  PROVE  Advances(s, c, s2, c2, n + w)
  <1>1. /\ s2 \in SndRec /\ c2 \in NetRec
        /\ s2.st = s.st /\ s2.told = s.told /\ s2.resumed = s.resumed /\ s2.resumers = s.resumers
        /\ s2.acked = s.acked
        /\ SameConn(c, c2) /\ c2.acks = c.acks
    BY DEF Advances, SameConn
  <1>2. ASSUME At(s), Len(c.data) <= c.cap
        PROVE  /\ At(s2) /\ n + w \in Nat /\ s2.sent = s.sent + (n + w)
               /\ c.ropen = 1 => c2.data = c.data \o Blocks(s.resumed + s.sent, n + w)
               /\ c.ropen = 0 => c2.data = c.data
               /\ Len(c2.data) <= c2.cap
    <2> DEFINE p == s.resumed + s.sent
    <2>1. /\ At(s1) /\ n \in Nat /\ s1.sent = s.sent + n /\ Len(c1.data) <= c1.cap
          /\ c.ropen = 1 => c1.data = c.data \o Blocks(p, n)
          /\ c.ropen = 0 => c1.data = c.data
          /\ s1.resumed = s.resumed /\ c1.ropen = c.ropen
      BY <1>2 DEF Advances, SameConn
    <2>2. /\ At(s2) /\ w \in Nat /\ s2.sent = s1.sent + w /\ Len(c2.data) <= c2.cap
          /\ c.ropen = 1 => c2.data = c1.data \o Blocks(s1.resumed + s1.sent, w)
          /\ c.ropen = 0 => c2.data = c1.data
      BY <2>1 DEF Advances
    <2>3. p \in Int /\ p + n \in Int /\ s1.resumed + s1.sent = p + n
      BY <2>1
    <2>4. c.ropen = 1 => c2.data = c.data \o Blocks(p, n + w)
      <3> SUFFICES ASSUME c.ropen = 1 PROVE c2.data = c.data \o Blocks(p, n + w)
        OBVIOUS
      <3> DEFINE q == p + n
                 x == Blocks(p, n)
                 y == Blocks(q, w)
      <3>1. c2.data = (c.data \o x) \o y
        BY <2>1, <2>2, <2>3
      <3>2. x \o y = Blocks(p, n + w)
        <4> HIDE DEF p
        <4>1. q \in Int /\ q = p + n
          BY <2>3
        <4> HIDE DEF q
        <4> QED
          BY <2>1, <2>2, <2>3, <4>1, JoinBlocks, ZenonT(40)
      <3>3. c.data \in Seq(Int) /\ x \in Seq(Int) /\ y \in Seq(Int)
        <4>1. c.data \in Seq(Int)
          BY DEF NetRec
        <4> HIDE DEF p
        <4> QED
          BY <2>1, <2>2, <2>3, <4>1, BlocksType
      <3> HIDE DEF x, y
      <3>4. (c.data \o x) \o y = c.data \o (x \o y)
        <4> DEFINE z == c.data
        <4>1. z \in Seq(Int)
          BY <3>3
        <4> HIDE DEF z
        <4>2. (z \o x) \o y = z \o (x \o y)
          BY <3>3, <4>1, JoinAssociates
        <4> QED
          BY <4>2 DEF z
      <3>5. c2.data = c.data \o (x \o y)
        BY <3>1, <3>4
      <3> QED
        BY <3>2, <3>5, Zenon
    <2>5. s2.sent = s.sent + (n + w) /\ n + w \in Nat
      BY <2>1, <2>2
    <2> QED
      BY <2>1, <2>2, <2>4, <2>5
  <1> QED
    BY <1>1, <1>2 DEF Advances

-----------------------------------------------------------------------------
(* The transfer after a step of the sender                                 *)

LEMMA DeleteOrder ==
  ASSUME NEW s \in SndRec, NEW r \in RcvRec, NEW c \in NetRec, NEW f, NEW a,
         Order(s, r, c, f, a), NEW told \in {"nothing", "timeout", "Success", "eof"},
         told = "Success" => s.sent + s.resumed = Size
  PROVE  Order(dcc_send_delete(s, told), r, SenderCloses(c), f, a)
  <1> DEFINE t == dcc_send_delete(s, told)
             d == SenderCloses(c)
  <1>1. /\ t.st = "ended" /\ t.told = told /\ t.sent = s.sent /\ t.resumed = s.resumed
        /\ t.resumers = s.resumers
    BY DeleteTypes
  <1>2. /\ d.by = c.by /\ d.cap = c.cap /\ d.data = c.data
        /\ d.sopen = 0 /\ d.ropen = c.ropen
    BY SenderClosesTypes
  <1> HIDE DEF t, d
  <1>3. SenderAt(t, d) /\ Told(t) /\ Joined(t, r, d, a)
    BY <1>1 DEF Order, SenderAt, Told, Joined, Live
  <1>4. ReceiverAt(t, r, d, f, a)
    BY <1>1, <1>2 DEF Order, ReceiverAt
  <1>5. Connection(t, r, d, a)
    BY <1>1, <1>2 DEF Order, Connection
  <1>6. Order(t, r, d, f, a)
    BY <1>3, <1>4, <1>5 DEF Order
  <1> QED
    BY <1>6 DEF t, d

LEMMA AdvanceOrder ==
  ASSUME NEW s \in SndRec, NEW r \in RcvRec, NEW c \in NetRec, NEW f, NEW a,
         Order(s, r, c, f, a), s.st \in {"accepted", "up"}, NEW s2, NEW c2, NEW w,
         Advances(s, c, s2, c2, w), s2.st = "up"
  PROVE  Order(s2, r, c2, f, a)
  <1>1. /\ At(s) /\ Len(c.data) <= c.cap /\ Live(s) /\ Live(s2) /\ c.by # 0
        /\ SenderAt(s, c) /\ ReceiverAt(s, r, c, f, a) /\ Connection(s, r, c, a)
        /\ Joined(s, r, c, a) /\ Faithful(f) /\ Told(s)
    BY DEF Order, SenderAt, Connection, Live
  <1>2. /\ At(s2) /\ w \in Nat /\ s2.sent = s.sent + w
        /\ c.ropen = 1 => c2.data = c.data \o Blocks(s.resumed + s.sent, w)
        /\ c.ropen = 0 => c2.data = c.data
        /\ Len(c2.data) <= c2.cap
        /\ s2.told = s.told /\ s2.resumed = s.resumed /\ s2.resumers = s.resumers
        /\ SameConn(c, c2) /\ c2.acks = c.acks
    BY <1>1 DEF Advances
  <1>3. Agree(s, r, c) /\ Counts(r) /\ c.ropen = 1 => Agree(s2, r, c2)
    <2> SUFFICES ASSUME Agree(s, r, c), Counts(r), c.ropen = 1 PROVE Agree(s2, r, c2)
      OBVIOUS
    <2> DEFINE n == Len(c.data)
               p == r.pos
               q == s.resumed + s.sent
    <2>1. /\ s.sent = r.sent + n /\ s.resumed = r.resumed /\ c.data = Blocks(p, n)
          /\ \A i \in DOMAIN c.acks : c.acks[i] <= s.sent
      BY DEF Agree
    <2>2. n \in Nat /\ p \in Int /\ s.resumed \in Int /\ s.sent \in Int /\ p = r.resumed + r.sent
          /\ r.sent \in Nat /\ r.resumed \in Nat /\ c.acks \in Seq(Int)
      BY DEF NetRec, RcvRec, SndRec, Counts
    <2>3. q \in Int /\ q = p + n
      BY <2>1, <2>2, SMTT(30)
    <2>4. c2.data = c.data \o Blocks(q, w)
      BY <1>2
    <2> HIDE DEF p, n, q
    <2>5. Blocks(p, n) \o Blocks(q, w) = Blocks(p, n + w)
      <3>1. p \in Int /\ n \in Nat /\ w \in Nat /\ q \in Int /\ q = p + n
        BY <1>2, <2>2, <2>3
      <3> QED
        BY <3>1, JoinBlocks
    <2>6. c2.data = Blocks(p, n + w)
      <3>1. c.data = Blocks(p, n)
        BY <2>1
      <3> QED
        BY <2>4, <2>5, <3>1
    <2>7. n + w \in Nat
      BY <1>2, <2>2
    <2>8. Len(Blocks(p, n + w)) = n + w
      <3>1. ASSUME NEW k \in Nat PROVE Len(Blocks(p, k)) = k
        BY <2>2, BlocksLen
      <3> QED
        BY <2>7, <3>1
    <2>9. Len(c2.data) = n + w /\ c2.data = Blocks(p, Len(c2.data))
      BY <2>6, <2>8
    <2>10. s2.sent = r.sent + Len(c2.data)
      <3>1. s2.sent = (r.sent + n) + w /\ r.sent \in Nat /\ n \in Nat /\ w \in Nat
        BY <1>2, <2>1, <2>2
      <3>2. (r.sent + n) + w = r.sent + (n + w)
        BY <3>1
      <3> QED
        BY <2>9, <3>1, <3>2
    <2>11. \A i \in DOMAIN c2.acks : c2.acks[i] <= s2.sent
      <3> SUFFICES ASSUME NEW i \in DOMAIN c.acks PROVE c.acks[i] <= s.sent + w
        BY <1>2
      <3>1. c.acks[i] <= s.sent /\ c.acks[i] \in Int
        BY <2>1, <2>2
      <3> QED
        BY <1>2, <2>2, <3>1
    <2>12. s2.resumed = r.resumed /\ c2.data = Blocks(r.pos, Len(c2.data))
      BY <1>2, <2>1, <2>9 DEF p
    <2> QED
      BY <2>10, <2>11, <2>12 DEF Agree
  <1>4. Joined(s2, r, c2, a)
    <2> SUFFICES ASSUME c2.ropen = 1, r.st \in {"connecting", "up"}, c2.by = a
                 PROVE  Agree(s2, r, c2)
      BY DEF Joined
    <2>1. c.ropen = 1 /\ c.by = a
      BY <1>2 DEF SameConn
    <2>2. Agree(s, r, c)
      BY <1>1, <2>1 DEF Joined
    <2>3. Counts(r)
      BY <1>1, <2>1 DEF ReceiverAt
    <2> QED
      BY <1>3, <2>1, <2>2, <2>3
  <1>5. ReceiverAt(s2, r, c2, f, a)
    <2>1. r.st = "up" => c2.data = Blocks(r.pos, Len(c2.data))
      <3> SUFFICES ASSUME r.st = "up" PROVE c2.data = Blocks(r.pos, Len(c2.data))
        OBVIOUS
      <3>1. c.by = a /\ c.data = Blocks(r.pos, Len(c.data)) /\ c2.by = a /\ c2.ropen = c.ropen
        BY <1>1, <1>2 DEF ReceiverAt, SameConn
      <3>2. CASE c.ropen = 0
        BY <1>2, <3>1, <3>2
      <3>3. CASE c.ropen = 1
        BY <1>1, <1>4, <3>1, <3>3 DEF Joined, Agree
      <3>4. c.ropen \in {0, 1}
        BY DEF NetRec
      <3> QED
        BY <3>2, <3>3, <3>4
    <2> QED
      BY <1>1, <1>2, <2>1 DEF ReceiverAt, SameConn
  <1>6. Connection(s2, r, c2, a)
    BY <1>1, <1>2 DEF Connection, SameConn
  <1>7. SenderAt(s2, c2) /\ Told(s2)
    BY <1>1, <1>2 DEF SenderAt, Told
  <1> QED
    BY <1>1, <1>4, <1>5, <1>6, <1>7 DEF Order

\* The sender is accepted, and its on_connect is called.
LEMMA PromoteOrder ==
  ASSUME NEW s \in SndRec, NEW r \in RcvRec, NEW c \in NetRec, NEW f, NEW a,
         Order(s, r, c, f, a), s.st \in {"listen", "accepted"}, c.by # 0,
         NEW t \in SndRec, t.st \in {"accepted", "up"}, t.told = s.told,
         t.resumed = s.resumed, t.resumers = s.resumers, t.pos = s.pos, t.sent = s.sent,
         t.left = s.left, t.buf = s.buf
  PROVE  Order(t, r, c, f, a)
  <1>1. At(s) => At(t)
    BY DEF At
  <1>2. SenderAt(t, c) /\ Told(t)
    BY <1>1 DEF Order, SenderAt, Told
  <1>3. ReceiverAt(t, r, c, f, a)
    BY DEF Order, ReceiverAt
  <1>4. Connection(t, r, c, a)
    BY DEF Order, Connection, Live
  <1>5. Joined(t, r, c, a)
    BY DEF Order, Joined, Live, Agree
  <1> QED
    BY <1>2, <1>3, <1>4, <1>5 DEF Order

\* dcc_send_read takes the first n answers away.
LEMMA ReadOrder ==
  ASSUME NEW s \in SndRec, NEW r \in RcvRec, NEW c \in NetRec, NEW f, NEW a,
         Order(s, r, c, f, a), s.st = "up", NEW n \in DOMAIN c.acks, NEW d, NEW t,
         d = [c EXCEPT !.acks = SubSeq(@, n + 1, Len(@))],
         t = [s EXCEPT !.acked = Head(c.acks)]
  PROVE  Order(t, r, d, f, a)
  <1> DEFINE x == SubSeq(c.acks, n + 1, Len(c.acks))
  <1>1. c.acks \in Seq(Int) /\ c.acks # <<>> /\ n \in 1 .. Len(c.acks) /\ Head(c.acks) \in Int
    BY DEF NetRec
  <1>2. /\ x \in Seq(Int) /\ Len(x) = Len(c.acks) - n
        /\ \A i \in 1 .. Len(x) : x[i] = c.acks[n + i] /\ n + i \in DOMAIN c.acks
    <2> DEFINE y == c.acks
    <2>1. y \in Seq(Int) /\ n \in 1 .. Len(y) /\ Len(y) \in Nat
      BY <1>1
    <2> HIDE DEF y
    <2>2. LET z == SubSeq(y, n + 1, Len(y))
          IN  /\ z \in Seq(Int) /\ Len(z) = Len(y) - n
              /\ \A i \in 1 .. Len(y) - n : z[i] = y[n + i]
      BY <2>1, SMTT(30)
    <2>3. \A i \in 1 .. (Len(y) - n) : n + i \in DOMAIN y
      BY <2>1
    <2> QED
      BY <2>2, <2>3 DEF y
  <1> HIDE DEF x
  <1>3. d \in NetRec /\ SameConn(c, d) /\ d.acks = x /\ d.data = c.data
    BY <1>2, AcksSet DEF x
  <1>4. /\ t.st = s.st /\ t.told = s.told /\ t.resumed = s.resumed /\ t.resumers = s.resumers
        /\ t.pos = s.pos /\ t.sent = s.sent /\ t.left = s.left /\ t.buf = s.buf
    BY DEF SndRec
  <1>5. At(s) => At(t)
    BY <1>4 DEF At
  <1>6. SenderAt(t, d) /\ Told(t)
    BY <1>3, <1>4, <1>5 DEF Order, SenderAt, Told
  <1>7. ReceiverAt(t, r, d, f, a)
    BY <1>3, <1>4 DEF Order, ReceiverAt, SameConn
  <1>8. Connection(t, r, d, a)
    BY <1>3, <1>4 DEF Order, Connection, Live, SameConn
  <1>9. Agree(s, r, c) => Agree(t, r, d)
    <2> SUFFICES ASSUME Agree(s, r, c) PROVE Agree(t, r, d)
      OBVIOUS
    <2>1. \A i \in DOMAIN d.acks : d.acks[i] <= t.sent
      BY <1>2, <1>3, <1>4, SMTT(30) DEF Agree
    <2> QED
      BY <1>3, <1>4, <2>1 DEF Agree
  <1>10. Joined(t, r, d, a)
    BY <1>3, <1>4, <1>9 DEF Order, Joined, Live, SameConn
  <1> QED
    BY <1>6, <1>7, <1>8, <1>10 DEF Order

\* got_resume, for the attempt that may still connect.
LEMMA ResumeOrder ==
  ASSUME NEW s \in SndRec, NEW r \in RcvRec, NEW f, NEW a,
         Order(s, r, NoNet, f, a), Live(s), s.resumers = {}, r.st \notin {"connecting", "up"},
         NEW pos \in 1 .. Size, NEW by, NEW t,
         t = [s EXCEPT !.pos = pos, !.left = @ - pos, !.resumed = pos, !.resumers = @ \cup {by}]
  PROVE  Order(t, r, NoNet, f, a)
  <1>1. /\ t.st = s.st /\ t.told = s.told /\ t.resumed = pos /\ t.resumers = {by}
        /\ t.pos = pos /\ t.sent = s.sent /\ t.left = s.left - pos /\ t.buf = s.buf
    BY DEF SndRec
  <1>2. s.st = "listen" /\ s.sent = 0 /\ s.buf = <<>> /\ s.resumed = 0 /\ s.left = Size
    <2>1. s.st = "listen" /\ SenderAt(s, NoNet)
      BY DEF Order, Connection, NoNet, Live
    <2>2. s.sent = 0 /\ s.buf = <<>> /\ s.resumed = 0 /\ At(s)
      BY <2>1 DEF SenderAt
    <2>3. s.left \in Int /\ Size \in Nat
      BY DccAssumption DEF SndRec
    <2> QED
      BY <2>1, <2>2, <2>3 DEF At
  <1>3. At(t)
    <2>1. pos \in Int /\ Size \in Nat
      BY DccAssumption
    <2>2. <<>> = Blocks(pos + 0, 0) /\ Len(<<>>) = 0 /\ pos = pos + 0
      BY <2>1, NoBlocks
    <2>3. t.buf = Blocks(t.resumed + t.sent, Len(t.buf))
      BY <1>1, <1>2, <2>2
    <2> QED
      BY <1>1, <1>2, <2>1, <2>2, <2>3 DEF At
  <1>4. SenderAt(t, NoNet) /\ Told(t)
    BY <1>1, <1>2, <1>3 DEF Order, SenderAt, Told
  <1>5. ReceiverAt(t, r, NoNet, f, a)
    BY <1>1 DEF Order, ReceiverAt
  <1>6. Connection(t, r, NoNet, a) /\ Joined(t, r, NoNet, a)
    BY <1>1 DEF Order, Connection, Joined, Live, NoNet
  <1> QED
    BY <1>4, <1>5, <1>6 DEF Order

\* dcc_start_send.
LEMMA StartOrder ==
  ASSUME NEW s \in SndRec, NEW r \in RcvRec, NEW f, NEW a,
         Order(s, r, NoNet, f, a), r.st = "none", NEW timeout, NEW t, t = dcc_listen(timeout)
  PROVE  Order(t, r, NoNet, f, a)
  <1>1. /\ t.st = "listen" /\ t.told = "nothing" /\ t.resumed = 0 /\ t.resumers = {}
        /\ t.pos = 0 /\ t.sent = 0 /\ t.left = Size /\ t.buf = <<>>
    BY DEF dcc_listen, NoSend
  <1>2. At(t)
    <2>1. Blocks(0, 0) = <<>> /\ Size \in Nat
      BY NoBlocks, DccAssumption
    <2> QED
      BY <1>1, <2>1 DEF At
  <1>3. SenderAt(t, NoNet) /\ Told(t)
    BY <1>1, <1>2 DEF SenderAt, Told, NoNet
  <1>4. ReceiverAt(t, r, NoNet, f, a) /\ Joined(t, r, NoNet, a)
    BY DEF Order, ReceiverAt, Joined
  <1>5. Connection(t, r, NoNet, a)
    BY <1>1 DEF Order, Connection, NoNet
  <1> QED
    BY <1>3, <1>4, <1>5 DEF Order

-----------------------------------------------------------------------------
(* The transfer after a step of the receiver                               *)

LEMMA RecvRecord ==
  /\ NoRecv \in RcvRec /\ NoRecv.st = "none" /\ NoRecv.sent = 0 /\ NoRecv.left = Size
  /\ NoRecv.resumed = 0
  BY DccAssumption DEF NoRecv, RcvRec

LEMMA ReceiverClosesTypes ==
  ASSUME NEW c \in NetRec
  PROVE  LET d == ReceiverCloses(c)
         IN  /\ d \in NetRec /\ d.by = c.by /\ d.cap = c.cap /\ d.acks = c.acks
             /\ d.sopen = c.sopen /\ d.leaked = c.leaked
             /\ \/ d.ropen = c.ropen /\ d.data = c.data
                \/ d.ropen = 0 /\ d.data = <<>>
  <1>1. <<>> \in Seq(Int)
    OBVIOUS
  <1> QED
    BY <1>1 DEF ReceiverCloses, NetRec

\* The receiver is gone; d is the connection c, closed or not.
LEMMA GoneOrder ==
  ASSUME NEW s \in SndRec, NEW r \in RcvRec, NEW c \in NetRec, NEW f, NEW a,
         Order(s, r, c, f, a), NEW g, Faithful(g), NEW d, d \in {c, ReceiverCloses(c)}
  PROVE  Order(s, NoRecv, d, g, a)
  <1>1. /\ d \in NetRec /\ d.by = c.by /\ d.cap = c.cap /\ d.sopen = c.sopen
        /\ \/ d.ropen = c.ropen /\ d.data = c.data
           \/ d.ropen = 0 /\ d.data = <<>>
    BY ReceiverClosesTypes
  <1>2. Len(c.data) \in Nat /\ c.cap \in Int /\ Len(c.data) <= c.cap
    BY DEF NetRec, Order, Connection
  <1>3. SenderAt(s, d)
    BY <1>1 DEF Order, SenderAt
  <1>4. ReceiverAt(s, NoRecv, d, g, a) /\ Joined(s, NoRecv, d, a)
    BY RecvRecord DEF ReceiverAt, Joined
  <1>5. Connection(s, NoRecv, d, a)
    <2>1. Len(d.data) <= d.cap
      BY <1>1, <1>2
    <2> QED
      BY <1>1, <2>1, RecvRecord DEF Order, Connection
  <1> QED
    BY <1>3, <1>4, <1>5 DEF Order

\* dcc_accept_send: a new attempt, which resumes, connects or is dead.
LEMMA BeginOrder ==
  ASSUME NEW s \in SndRec, NEW r \in RcvRec, NEW c \in NetRec, NEW f \in Seq(Int), NEW a \in Nat,
         Order(s, r, c, f, a), c.by # a + 1, NEW from \in 0 .. Len(f), NEW q \in RcvRec,
         q.st \in {"resume", "connecting", "dead"}, q.pos = from, q.sent = 0, q.left = Size,
         q.resumed = 0, NEW g, g \in {f, <<>>}, from > 0 => q.st = "resume" /\ g = f,
         c.by = 0 => s.resumers = {}
  PROVE  Order(s, q, c, g, a + 1)
  <1>1. Faithful(g) /\ from \in 0 .. Len(g)
    <2>1. CASE g = f
      BY <2>1 DEF Order
    <2>2. CASE g # f
      BY <2>2 DEF Faithful
    <2> QED
      BY <2>1, <2>2
  <1>2. q.st = "connecting" => Counts(q)
    BY DccAssumption DEF Counts
  <1>3. c.by = 0 => s.resumed = 0
    BY DEF Order, SenderAt
  <1>4. ReceiverAt(s, q, c, g, a + 1)
    BY <1>1, <1>2, <1>3 DEF ReceiverAt
  <1>5. Connection(s, q, c, a + 1) /\ Joined(s, q, c, a + 1)
    BY DEF Order, Connection, Joined
  <1> QED
    BY <1>1, <1>4, <1>5 DEF Order

\* got_accept, for the attempt that asked.
LEMMA AcceptOrder ==
  ASSUME NEW s \in SndRec, NEW r \in RcvRec, NEW f \in Seq(Int), NEW a \in Nat,
         Order(s, r, NoNet, f, a), a >= 1, r.st = "resume",
         NEW pos \in 0 .. Size, pos = s.resumed, pos <= Len(f), NEW q,
         q = [r EXCEPT !.st = "connecting", !.pos = pos, !.left = @ - pos, !.resumed = pos]
  PROVE  Order(s, q, NoNet, f, a)
  <1>1. /\ q.st = "connecting" /\ q.pos = pos /\ q.left = r.left - pos /\ q.resumed = pos
        /\ q.sent = r.sent
    BY DEF RcvRec
  <1>2. r.sent = 0 /\ r.left = Size /\ Size \in Nat /\ Len(f) \in Nat /\ NoNet.by = 0
        /\ NoNet.sopen = 0 /\ NoNet.ropen = 0
    BY DccAssumption DEF Order, ReceiverAt, NoNet
  <1>3. Counts(q)
    BY <1>1, <1>2 DEF Counts
  <1>4. ReceiverAt(s, q, NoNet, f, a)
    BY <1>1, <1>2, <1>3 DEF ReceiverAt
  <1>5. Connection(s, q, NoNet, a) /\ Joined(s, q, NoNet, a)
    BY <1>2 DEF Order, Connection, Joined
  <1> QED
    BY <1>4, <1>5 DEF Order

\* dcc_recv_connect, for the attempt that has the connection.
LEMMA UpOrder ==
  ASSUME NEW s \in SndRec, NEW r \in RcvRec, NEW c \in NetRec, NEW f, NEW a,
         Order(s, r, c, f, a), r.st = "connecting", c.by = a, c.by # 0, c.sopen = 1, NEW q,
         q = [r EXCEPT !.st = "up", !.timer = 0]
  PROVE  Order(s, q, c, f, a)
  <1>1. q.st = "up" /\ q.pos = r.pos /\ q.left = r.left /\ q.resumed = r.resumed /\ q.sent = r.sent
    BY DEF RcvRec
  <1>2. c.ropen = 1 /\ Live(s)
    BY DEF Order, Connection
  <1>3. Agree(s, r, c) /\ Counts(r) /\ r.pos \in 0 .. Len(f)
    BY <1>2 DEF Order, Joined, ReceiverAt
  <1>4. Agree(s, q, c) /\ Counts(q)
    BY <1>1, <1>3 DEF Agree, Counts
  <1>5. ReceiverAt(s, q, c, f, a)
    BY <1>1, <1>3, <1>4 DEF ReceiverAt, Agree
  <1>6. Connection(s, q, c, a) /\ Joined(s, q, c, a)
    BY <1>2, <1>4 DEF Order, Connection, Joined
  <1> QED
    BY <1>5, <1>6 DEF Order

\* dcc_recv_connect, for one that is put behind another.
LEMMA QueuedOrder ==
  ASSUME NEW s \in SndRec, NEW r \in RcvRec, NEW c \in NetRec, NEW f, NEW a,
         Order(s, r, c, f, a), r.st = "connecting", c.by # a, c.by # 0, NEW q,
         q = [r EXCEPT !.st = "queued", !.timer = 0]
  PROVE  Order(s, q, c, f, a)
  <1>1. q.st = "queued" /\ q.pos = r.pos
    BY DEF RcvRec
  <1> QED
    BY <1>1 DEF Order, ReceiverAt, Connection, Joined

\* The receiver's connection reaches the listener.
LEMMA ConnectOrder ==
  ASSUME NEW s \in SndRec, NEW r \in RcvRec, NEW f, NEW a \in Nat, a >= 1,
         Order(s, r, NoNet, f, a), r.st = "connecting", s.st = "listen",
         NEW k \in Nat, NEW d, d = [NoNet EXCEPT !.by = a, !.cap = k, !.sopen = 1, !.ropen = 1]
  PROVE  Order(s, r, d, f, a)
  <1>1. d.by = a /\ d.cap = k /\ d.sopen = 1 /\ d.ropen = 1 /\ d.data = <<>> /\ d.acks = <<>>
    BY DEF NoNet
  <1>2. NoNet.by = 0
    BY DEF NoNet
  <1>3. Counts(r) /\ r.resumed = s.resumed /\ r.sent = 0 /\ s.sent = 0 /\ r.pos \in Int
    BY <1>2 DEF Order, ReceiverAt, SenderAt, RcvRec
  <1>4. Blocks(r.pos, 0) = <<>> /\ Len(<<>>) = 0
    BY <1>3, NoBlocks
  <1>5. Agree(s, r, d)
    BY <1>1, <1>3, <1>4 DEF Agree
  <1>6. ReceiverAt(s, r, d, f, a)
    BY <1>1, <1>2, <1>3 DEF Order, ReceiverAt
  <1>7. Connection(s, r, d, a) /\ Joined(s, r, d, a)
    BY <1>1, <1>5 DEF Connection, Joined, Live
  <1>8. SenderAt(s, d)
    BY <1>1 DEF Order, SenderAt
  <1> QED
    BY <1>6, <1>7, <1>8 DEF Order

\* The connection breaks.
LEMMA ResetOrder ==
  ASSUME NEW s \in SndRec, NEW r \in RcvRec, NEW c \in NetRec, NEW f, NEW a,
         Order(s, r, c, f, a), NEW d,
         d = [c EXCEPT !.sopen = 0, !.ropen = 0, !.data = <<>>, !.acks = <<>>]
  PROVE  Order(s, r, d, f, a)
  <1>1. d.by = c.by /\ d.cap = c.cap /\ d.sopen = 0 /\ d.ropen = 0 /\ d.data = <<>>
    BY DEF NetRec
  <1>2. Len(c.data) \in Nat /\ c.cap \in Int /\ Len(c.data) <= c.cap /\ r.pos \in Int
    BY DEF NetRec, RcvRec, Order, Connection
  <1>3. Blocks(r.pos, 0) = <<>> /\ Len(<<>>) = 0
    BY <1>2, NoBlocks
  <1>4. ReceiverAt(s, r, d, f, a)
    BY <1>1, <1>3 DEF Order, ReceiverAt
  <1>5. Connection(s, r, d, a)
    BY <1>1, <1>2, <1>3 DEF Order, Connection
  <1>6. SenderAt(s, d) /\ Joined(s, r, d, a)
    BY <1>1 DEF Order, SenderAt, Joined
  <1> QED
    BY <1>4, <1>5, <1>6 DEF Order

LEMMA WrittenType ==
  ASSUME NEW f \in Seq(Int), NEW pos \in Int, NEW blocks \in Seq(Int)
  PROVE  /\ Written(f, pos, blocks) \in Seq(Int)
         /\ Len(Written(f, pos, blocks)) = IF Len(f) < pos + Len(blocks) THEN pos + Len(blocks)
                                           ELSE Len(f)
         /\ \A i \in 1 .. Len(Written(f, pos, blocks)) :
              Written(f, pos, blocks)[i] = IF i > pos /\ i <= pos + Len(blocks) THEN blocks[i - pos]
                                           ELSE IF i <= Len(f) THEN f[i] ELSE 0
  <1> DEFINE k == Len(f)
             n == Len(blocks)
             e == pos + n
             m == Max({k, e})
             V(i) == IF i > pos /\ i <= pos + n THEN blocks[i - pos]
                     ELSE IF i <= k THEN f[i] ELSE 0
             g == [i \in 1 .. m |-> V(i)]
  <1>1. k \in Nat /\ n \in Nat /\ e \in Int
    OBVIOUS
  <1>2. m = IF k < e THEN e ELSE k
    <2> HIDE DEF k, e
    <2> QED
      BY <1>1, MaxPair
  <1>3. m \in Nat /\ m >= k /\ m >= e
    <2> HIDE DEF k, e, m
    <2> QED
      BY <1>1, <1>2
  <1> HIDE DEF m
  <1>4. ASSUME NEW i \in 1 .. m PROVE V(i) \in Int
    <2>1. CASE i > pos /\ i <= pos + n
      <3>1. i - pos \in 1 .. n
        BY <1>1, <1>3, <2>1
      <3>2. blocks[i - pos] \in Int
        BY <3>1
      <3> QED
        BY <2>1, <3>2
    <2>2. CASE ~ (i > pos /\ i <= pos + n) /\ i <= k
      BY <1>3, <2>2
    <2>3. CASE ~ (i > pos /\ i <= pos + n) /\ ~ i <= k
      BY <2>3
    <2> QED
      BY <2>1, <2>2, <2>3
  <1> HIDE DEF V
  <1>5. g \in Seq(Int) /\ Len(g) = m /\ \A i \in 1 .. m : g[i] = V(i)
    BY <1>3, <1>4
  <1>6. Written(f, pos, blocks) = g
    BY DEF Written, V, m
  <1> HIDE DEF g
  <1> QED
    BY <1>2, <1>5, <1>6 DEF V

LEMMA WrittenFaithful ==
  ASSUME NEW f \in Seq(Int), Faithful(f), NEW pos \in 0 .. Len(f), NEW n \in Nat,
         NEW blocks \in Seq(Int), IsRun(blocks, pos, n)
  PROVE  Faithful(Written(f, pos, blocks)) /\ pos + n \in 0 .. Len(Written(f, pos, blocks))
  <1> DEFINE g == Written(f, pos, blocks)
  <1>1. pos \in Int /\ Len(f) \in Nat
    OBVIOUS
  <1>2. Len(blocks) = n /\ \A i \in 1 .. n : blocks[i] = pos + i
    BY DEF IsRun
  <1>3. /\ g \in Seq(Int) /\ Len(g) = IF Len(f) < pos + n THEN pos + n ELSE Len(f)
        /\ \A i \in 1 .. Len(g) :
             g[i] = IF i > pos /\ i <= pos + n THEN blocks[i - pos]
                    ELSE IF i <= Len(f) THEN f[i] ELSE 0
    BY <1>1, <1>2, WrittenType
  <1> HIDE DEF g
  <1>5. Len(g) \in Nat /\ Len(g) >= Len(f) /\ Len(g) >= pos + n
    BY <1>1, <1>3
  <1>6. ASSUME NEW i \in 1 .. Len(g) PROVE g[i] = i
    <2>1. CASE i > pos /\ i <= pos + n
      <3>1. i - pos \in 1 .. n
        BY <1>1, <1>5, <2>1
      <3>2. blocks[i - pos] = pos + (i - pos)
        BY <1>2, <3>1
      <3> QED
        BY <1>1, <1>3, <1>5, <2>1, <3>2
    <2>2. CASE ~ (i > pos /\ i <= pos + n)
      <3>1. i <= Len(f) /\ i \in DOMAIN f
        BY <1>1, <1>3, <2>2, SMTT(30)
      <3> QED
        BY <1>3, <2>2, <3>1 DEF Faithful
    <2> QED
      BY <2>1, <2>2
  <1>7. Faithful(g)
    BY <1>3, <1>6 DEF Faithful
  <1>8. pos + n \in 0 .. Len(g)
    BY <1>1, <1>3, <1>5
  <1> QED
    BY <1>7, <1>8 DEF g

\* What a read of n blocks leaves behind.
After(r, n) == [r EXCEPT !.pos = @ + n, !.sent = @ + n, !.left = @ - n]
Drained(c, n, sent) ==
  LET d == [c EXCEPT !.data = SubSeq(@, n + 1, Len(@))]
  IN  [d EXCEPT !.acks = IF d.sopen = 1 THEN Append(@, sent + n) ELSE @]

LEMMA AfterTypes ==
  ASSUME NEW r \in RcvRec, NEW n \in Nat
  PROVE  LET q == After(r, n)
         IN  /\ q \in RcvRec /\ q.st = r.st /\ q.resumed = r.resumed
             /\ q.pos = r.pos + n /\ q.sent = r.sent + n /\ q.left = r.left - n
  <1>1. r.pos + n \in Int /\ r.sent + n \in Int /\ r.left - n \in Int
    BY DEF RcvRec
  <1>2. ASSUME NEW x \in Int, NEW y \in Int, NEW z \in Int,
               x = r.pos + n, y = r.sent + n, z = r.left - n, NEW q, q = After(r, n)
        PROVE  q \in RcvRec /\ q.st = r.st /\ q.resumed = r.resumed /\ q.pos = x /\ q.sent = y /\ q.left = z
    <2>1. q = [r EXCEPT !.pos = x, !.sent = y, !.left = z]
      BY <1>2 DEF After
    <2> QED
      BY <2>1 DEF RcvRec
  <1> QED
    BY <1>1, <1>2

LEMMA DrainedTypes ==
  ASSUME NEW c \in NetRec, NEW n \in 1 .. Len(c.data), NEW sent \in Int
  PROVE  LET d == Drained(c, n, sent)
         IN  /\ d \in NetRec /\ SameConn(c, d) /\ d.data = SubSeq(c.data, n + 1, Len(c.data))
             /\ d.acks = IF c.sopen = 1 THEN Append(c.acks, sent + n) ELSE c.acks
  <1> DEFINE x == SubSeq(c.data, n + 1, Len(c.data))
             e == [c EXCEPT !.data = x]
             y == IF c.sopen = 1 THEN Append(c.acks, sent + n) ELSE c.acks
             d == Drained(c, n, sent)
  <1>1. c.data \in Seq(Int) /\ c.acks \in Seq(Int)
    BY DEF NetRec
  <1>2. x \in Seq(Int) /\ y \in Seq(Int)
    BY <1>1
  <1>3. /\ d = [e EXCEPT !.acks = IF e.sopen = 1 THEN Append(e.acks, sent + n) ELSE e.acks]
    BY DEF Drained
  <1> HIDE DEF x, y, d
  <1>4. e \in NetRec /\ SameConn(c, e) /\ e.acks = c.acks /\ e.data = x
    BY <1>2, DataSet
  <1> HIDE DEF e
  <1>5. d = [e EXCEPT !.acks = y]
    BY <1>3, <1>4 DEF y, SameConn
  <1>6. d \in NetRec /\ SameConn(e, d) /\ d.acks = y /\ d.data = x
    BY <1>2, <1>4, <1>5, AcksSet
  <1>7. SameConn(c, d)
    BY <1>4, <1>6 DEF SameConn
  <1> QED
    BY <1>6, <1>7 DEF d, x, y

\* dcc_recv_read.
LEMMA WriteOrder ==
  ASSUME NEW s \in SndRec, NEW r \in RcvRec, NEW c \in NetRec, NEW f \in Seq(Int), NEW a,
         Order(s, r, c, f, a), r.st = "up", NEW n \in 1 .. Len(c.data), NEW g, NEW d, NEW q,
         g = Written(f, r.pos, SubSeq(c.data, 1, n)), d = Drained(c, n, r.sent), q = After(r, n)
  PROVE  Faithful(g) /\ Order(s, q, d, g, a)
  <1> DEFINE p == r.pos
             k == Len(c.data)
  <1>1. /\ c.data \in Seq(Int) /\ c.acks \in Seq(Int) /\ k \in Nat /\ n \in Nat /\ n \in 0 .. k
        /\ p \in Int /\ r.sent \in Int /\ r.resumed \in Int /\ c.cap \in Int
        /\ c.sopen \in {0, 1} /\ r.left \in Int
    BY DEF NetRec, RcvRec
  <1>2. /\ c.by = a /\ c.data = Blocks(p, k) /\ Counts(r) /\ p \in 0 .. Len(f) /\ Faithful(f)
        /\ k <= c.cap
    BY DEF Order, ReceiverAt, Connection
  <1>3. /\ q.st = "up" /\ q.resumed = r.resumed
        /\ q.pos = p + n /\ q.sent = r.sent + n /\ q.left = r.left - n
    BY <1>1, AfterTypes
  <1>4. /\ d \in NetRec /\ SameConn(c, d) /\ d.data = SubSeq(c.data, n + 1, k)
        /\ d.acks = IF c.sopen = 1 THEN Append(c.acks, r.sent + n) ELSE c.acks
    BY <1>1, DrainedTypes
  <1> HIDE DEF p, k
  <1>5. SubSeq(c.data, 1, n) = Blocks(p, n) /\ d.data = Blocks(p + n, k - n)
    <2>1. p \in Int /\ k \in Nat /\ n \in 0 .. k /\ c.data = Blocks(p, k)
      BY <1>1, <1>2
    <2> QED
      BY <1>4, <2>1, SplitBlocks, ZenonT(40)
  <1>6. Len(d.data) = k - n /\ d.data = Blocks(p + n, Len(d.data))
    <2>1. ASSUME NEW x \in Int, NEW m \in Nat PROVE Len(Blocks(x, m)) = m
      BY <2>1, BlocksLen
    <2>2. p + n \in Int /\ k - n \in Nat
      BY <1>1
    <2>3. Len(Blocks(p + n, k - n)) = k - n
      BY <2>1, <2>2
    <2> QED
      BY <1>5, <2>3
  <1>7. Faithful(g) /\ p + n \in 0 .. Len(g)
    <2> DEFINE b == SubSeq(c.data, 1, n)
    <2>1. b = Blocks(p, n) /\ g = Written(f, p, b)
      BY <1>5 DEF p
    <2> HIDE DEF b
    <2>2. IsRun(b, p, n)
      BY <1>1, <2>1, RunsAreBlocks
    <2>3. b \in Seq(Int)
      BY <2>2 DEF IsRun
    <2> QED
      BY <1>1, <1>2, <2>1, <2>2, <2>3, WrittenFaithful
  <1>8. Counts(q)
    <2>1. r.sent \in Nat /\ r.resumed \in Nat /\ r.sent + r.left + r.resumed = Size
          /\ p = r.resumed + r.sent
      BY <1>2 DEF Counts, p
    <2>2. q.sent \in Nat /\ q.resumed \in Nat
      BY <1>1, <1>3, <2>1, SMTT(30)
    <2>3. (r.sent + n) + (r.left - n) + r.resumed = Size
      BY <1>1, <2>1
    <2>4. p + n = r.resumed + (r.sent + n)
      BY <1>1, <2>1
    <2> QED
      BY <1>3, <2>2, <2>3, <2>4 DEF Counts
  <1>9. ReceiverAt(s, q, d, g, a)
    BY <1>2, <1>3, <1>4, <1>6, <1>7, <1>8 DEF ReceiverAt, SameConn
  <1>10. SenderAt(s, d)
    <2>1. s.st \notin {"none", "listen", "accepted"}
      BY <1>1 DEF Order, SenderAt, k
    <2> QED
      BY <2>1 DEF Order, SenderAt
  <1>11. Connection(s, q, d, a)
    <2>1. Len(d.data) <= d.cap
      BY <1>1, <1>2, <1>4, <1>6 DEF SameConn
    <2>2. c.ropen # 0
      BY <1>1 DEF Order, Connection, k
    <2> QED
      BY <1>3, <1>4, <2>1, <2>2 DEF Order, Connection, SameConn
  <1>12. Joined(s, q, d, a)
    <2> SUFFICES ASSUME Live(s), d.ropen = 1 PROVE Agree(s, q, d)
      BY DEF Joined
    <2>1. /\ s.sent = r.sent + k /\ s.resumed = r.resumed
          /\ \A i \in DOMAIN c.acks : c.acks[i] <= s.sent
      BY <1>2, <1>4 DEF Order, Joined, Agree, SameConn, k
    <2>2. s.sent = (r.sent + n) + (k - n)
      BY <1>1, <2>1
    <2>3. \A i \in DOMAIN d.acks : d.acks[i] <= s.sent
      <3>1. r.sent + n <= s.sent /\ r.sent + n \in Int
        BY <1>1, <2>1
      <3> DEFINE x == Append(c.acks, r.sent + n)
      <3>2. \A i \in DOMAIN x : (i \in DOMAIN c.acks /\ x[i] = c.acks[i]) \/ x[i] = r.sent + n
        BY <1>1, <3>1, SMTT(30)
      <3> HIDE DEF x
      <3>3. \A i \in DOMAIN x : x[i] <= s.sent
        BY <2>1, <3>1, <3>2
      <3> QED
        BY <1>4, <2>1, <3>3 DEF x
    <2> QED
      BY <1>3, <1>6, <2>1, <2>2, <2>3 DEF Agree
  <1> QED
    BY <1>7, <1>9, <1>10, <1>11, <1>12 DEF Order

-----------------------------------------------------------------------------
(* Steps that send and take no messages                                    *)

LEMMA TypesOf ==
  ASSUME DccTypes
  PROVE  /\ snd \in SndRec /\ rcv \in RcvRec /\ net \in NetRec /\ file \in Seq(Int)
         /\ toSnd \in Seq(Resume) /\ toRcv \in Seq(Reply) /\ attempts \in Nat \cup {-1}
         /\ Len(file) \in Nat
  BY DEF DccTypes

LEMMA ResumeFields ==
  ASSUME NEW q \in Seq(Resume)
  PROVE  \A i \in DOMAIN q : q[i] \in Resume /\ q[i].pos \in 1 .. Size /\ q[i].pos \in Nat
                             /\ q[i].by \in Nat /\ q[i].by # 0
  <1>1. \A m \in Resume : m.pos \in 1 .. Size /\ m.by \in Nat /\ m.by # 0
    BY DEF Resume
  <1>2. \A x \in 1 .. Size : x \in Nat
    BY DccAssumption
  <1>3. \A i \in DOMAIN q : q[i] \in Resume
    OBVIOUS
  <1> QED
    BY <1>1, <1>2, <1>3

LEMMA ReplyFields ==
  ASSUME NEW q \in Seq(Reply)
  PROVE  \A i \in DOMAIN q : q[i] \in Reply /\ q[i].pos \in 0 .. Size /\ q[i].pos \in Nat
                             /\ q[i].by \in Nat /\ q[i].t \in {"send", "accept"}
  <1>1. \A m \in Reply : m.pos \in 0 .. Size /\ m.by \in Nat /\ m.t \in {"send", "accept"}
    BY DEF Reply
  <1>2. \A x \in 0 .. Size : x \in Nat
    BY DccAssumption
  <1>3. \A i \in DOMAIN q : q[i] \in Reply
    OBVIOUS
  <1> QED
    BY <1>1, <1>2, <1>3

\* Connected or connecting: the messages have done their work.
Engaged == net.by # 0 \/ rcv.st \in {"connecting", "dead"}

QuietHyps ==
  /\ toSnd' = toSnd /\ toRcv' = toRcv /\ attempts' = attempts
  /\ snd' \in SndRec /\ rcv' \in RcvRec /\ net' \in NetRec /\ file' \in Seq(Int)
  /\ Len(file') >= Len(file)
  /\ snd'.resumers = snd.resumers /\ snd'.resumed = snd.resumed
  /\ snd'.st = "none" => snd.st = "none"
  /\ rcv'.st # "none" => rcv.st # "none"
  /\ Holder' = Holder /\ net'.leaked = net.leaked
  /\ net'.by \in 0 .. attempts \/ net'.by = 0
  /\ net'.by = 0 => net' = NoNet
  /\ snd'.st \in {"accepted", "up"} => net'.by # 0
  /\ Engaged' => Engaged

LEMMA QuietStep ==
  ASSUME IInv, QuietHyps, Fair /\ Transfer => Order(snd, rcv, net, file, attempts)'
  PROVE  IInv'
  <1>1. DccTypes /\ History
    BY DEF IInv
  <1>2. DccTypes'
    BY <1>1, TypesOf DEF DccTypes, QuietHyps
  <1>3. Accepts' = Accepts /\ Offers' = Offers
    BY DEF Accepts, Offers, QuietHyps
  <1>4. Asked'
    <2>1. \A i \in DOMAIN toSnd : toSnd[i].pos \in Nat
      BY <1>1, TypesOf, ResumeFields
    <2>2. Len(file) \in Nat /\ Len(file') \in Nat /\ Len(file') >= Len(file)
      BY <1>1, TypesOf DEF QuietHyps
    <2>3. \A x \in Nat : x <= Len(file) => x <= Len(file')
      BY <2>2
    <2> QED
      BY <1>1, <2>1, <2>3 DEF History, Asked, QuietHyps
  <1>5. Answered'
    <2>1. \A i \in Accepts : toRcv[i].pos \in Nat
      BY <1>1, TypesOf, ReplyFields DEF Accepts
    <2>2. Len(file) \in Nat /\ Len(file') \in Nat /\ Len(file') >= Len(file)
      BY <1>1, TypesOf DEF QuietHyps
    <2>3. \A x \in Nat : x <= Len(file) => x <= Len(file')
      BY <2>2
    <2> QED
      BY <1>1, <1>3, <2>1, <2>3 DEF History, Answered, QuietHyps
  <1>6. Offered'
    BY <1>1, <1>3 DEF History, Offered, QuietHyps
  <1>7. Fair' <=> Fair
    BY DEF Fair, QuietHyps
  <1>8. Settled => Settled'
    BY <1>3 DEF Settled, QuietHyps, Engaged
  <1>9. Fair' => Transfer'
    BY <1>7, <1>8 DEF IInv, Transfer
  <1> QED
    BY <1>2, <1>4, <1>5, <1>6, <1>9 DEF IInv, History

LEMMA NoNetType ==
  /\ NoNet \in NetRec /\ NoNet.by = 0 /\ NoNet.sopen = 0 /\ NoNet.ropen = 0 /\ NoNet.acks = <<>>
  /\ NoNet.data = <<>> /\ NoNet.leaked = 0
  <1>1. <<>> \in Seq(Int)
    OBVIOUS
  <1> QED
    BY <1>1 DEF NoNet, NetRec

LEMMA NoNetCloses == SenderCloses(NoNet) = NoNet /\ ReceiverCloses(NoNet) = NoNet
  <1>2. \A c \in NetRec : c.sopen = 0 /\ c.acks = <<>> => SenderCloses(c) = c
    BY DEF SenderCloses, NetRec
  <1>3. \A c \in NetRec : c.ropen = 0 /\ c.data = <<>> => ReceiverCloses(c) = c
    BY DEF ReceiverCloses, NetRec
  <1> QED
    BY <1>2, <1>3, NoNetType

\* A step of the sender that leaves the receiver alone.
LEMMA SenderStep ==
  ASSUME IInv, snd.st # "none", UNCHANGED <<rcv, file, toSnd, toRcv, attempts>>,
         snd' \in SndRec, snd'.st # "none", snd'.resumers = snd.resumers, snd'.resumed = snd.resumed,
         net' \in NetRec, net'.by = net.by, net'.leaked = net.leaked,
         net.by = 0 => net' = net, snd'.st \in {"accepted", "up"} => net.by # 0,
         Fair /\ Transfer => Order(snd', rcv, net', file, attempts)
  PROVE  IInv'
  <1>1. DccTypes /\ Offered
    BY DEF IInv, History
  <1>2. QuietHyps
    BY <1>1, TypesOf DEF QuietHyps, Holder, Engaged, Offered
  <1>3. Fair /\ Transfer => Order(snd, rcv, net, file, attempts)'
    OBVIOUS
  <1> QED
    BY <1>2, <1>3, QuietStep

\* The sockbuf of the send is deleted.
LEMMA SendEnds ==
  ASSUME IInv, Live(snd), UNCHANGED <<rcv, file, toSnd, toRcv, attempts>>,
         NEW told \in {"nothing", "timeout", "eof"},
         snd' = dcc_send_delete(snd, told), net' = SenderCloses(net)
  PROVE  IInv'
  <1>1. snd \in SndRec /\ rcv \in RcvRec /\ net \in NetRec /\ (net.by = 0 => net = NoNet)
    BY TypesOf DEF IInv, History, Offered
  <1>2. /\ snd' \in SndRec /\ snd'.st = "ended" /\ snd'.resumers = snd.resumers
        /\ snd'.resumed = snd.resumed
    BY <1>1, DeleteTypes
  <1>3. net' \in NetRec /\ net'.by = net.by /\ net'.leaked = net.leaked
    BY <1>1, SenderClosesTypes
  <1>4. net.by = 0 => net' = net
    BY <1>1, NoNetCloses
  <1>5. Transfer => Order(snd', rcv, net', file, attempts)
    BY <1>1, DeleteOrder DEF Transfer
  <1> QED
    BY <1>2, <1>3, <1>4, <1>5, SenderStep DEF Live

LEMMA ListenTimeout ==
  ASSUME IInv, dcc_listen_timeout
  PROVE  IInv'
  BY SendEnds DEF dcc_listen_timeout, Live

LEMMA SendEof ==
  ASSUME IInv, dcc_send_eof
  PROVE  IInv'
  BY SendEnds DEF dcc_send_eof, Live

LEMMA SendKilled ==
  ASSUME IInv, KillSend
  PROVE  IInv'
  BY SendEnds, LivesOn DEF KillSend

LEMMA NewClient ==
  ASSUME IInv, dcc_listen_newclient
  PROVE  IInv'
  <1>1. snd \in SndRec /\ rcv \in RcvRec /\ net \in NetRec
    BY TypesOf DEF IInv
  <1>2. /\ snd.st = "listen" /\ net.by # 0 /\ net' = net
        /\ snd' = [dcc_listen_delete(snd) EXCEPT !.st = "accepted"]
        /\ UNCHANGED <<rcv, file, toSnd, toRcv, attempts>>
    BY DEF dcc_listen_newclient
  <1>3. /\ snd' \in SndRec /\ snd'.st = "accepted" /\ snd'.told = snd.told
        /\ snd'.resumed = snd.resumed /\ snd'.resumers = snd.resumers /\ snd'.pos = snd.pos
        /\ snd'.sent = snd.sent /\ snd'.left = snd.left /\ snd'.buf = snd.buf
    BY <1>1, <1>2 DEF dcc_listen_delete, SndRec
  <1>4. Transfer => Order(snd', rcv, net', file, attempts)
    <2> DEFINE t == snd'
    <2>1. /\ t \in SndRec /\ t.st = "accepted" /\ t.told = snd.told
          /\ t.resumed = snd.resumed /\ t.resumers = snd.resumers /\ t.pos = snd.pos
          /\ t.sent = snd.sent /\ t.left = snd.left /\ t.buf = snd.buf
      BY <1>3
    <2> HIDE DEF t
    <2>2. Transfer => Order(t, rcv, net, file, attempts)
      BY <1>1, <1>2, <2>1, PromoteOrder DEF Transfer
    <2> QED
      BY <1>2, <2>2 DEF t
  <1> QED
    BY <1>1, <1>2, <1>3, <1>4, SenderStep

\* A step of the sender that writes w blocks, from s on, and may be done.
LEMMA SendsStep ==
  ASSUME IInv, snd.st \in {"accepted", "up"}, UNCHANGED <<rcv, file, toSnd, toRcv, attempts>>,
         NEW s \in SndRec, s.st = "up", s.told = snd.told, s.resumed = snd.resumed,
         s.resumers = snd.resumers, s.pos = snd.pos, s.sent = snd.sent, s.left = snd.left,
         s.buf = snd.buf, NEW r, NEW w, Advances(s, net, r.s, r.c, w), NEW done, Sends(r, done),
         done /\ Transfer /\ Order(s, rcv, net, file, attempts) => r.s.sent + r.s.resumed = Size
  PROVE  IInv'
  <1>1. snd \in SndRec /\ rcv \in RcvRec /\ net \in NetRec /\ net.by # 0
    BY TypesOf DEF IInv, History, Offered
  <1>2. /\ r.s \in SndRec /\ r.c \in NetRec /\ r.s.st = "up"
        /\ r.s.resumers = snd.resumers /\ r.s.resumed = snd.resumed
        /\ r.c.by = net.by /\ r.c.leaked = net.leaked
    BY DEF Advances, SameConn
  <1>3. Transfer => Order(s, rcv, net, file, attempts)
    <2>1. CASE snd.st = "accepted"
      BY <1>1, <2>1, PromoteOrder DEF Transfer
    <2>2. CASE snd.st = "up"
      <3>1. At(snd) => At(s)
        BY DEF At
      <3> QED
        BY <2>2, <3>1 DEF Transfer, Order, SenderAt, ReceiverAt, Connection, Joined, Told, Live, Agree
    <2> QED
      BY <2>1, <2>2
  <1>4. Transfer => Order(r.s, rcv, r.c, file, attempts)
    BY <1>1, <1>2, <1>3, AdvanceOrder
  <1>5. CASE ~ done /\ snd' = r.s /\ net' = r.c
    BY <1>1, <1>2, <1>4, <1>5, SenderStep
  <1>6. CASE done /\ snd' = dcc_send_delete(r.s, "Success") /\ net' = SenderCloses(r.c)
    <2>1. /\ snd' \in SndRec /\ snd'.st = "ended" /\ snd'.resumers = snd.resumers
          /\ snd'.resumed = snd.resumed
      BY <1>2, <1>6, DeleteTypes
    <2>2. net' \in NetRec /\ net'.by = net.by /\ net'.leaked = net.leaked
      BY <1>2, <1>6, SenderClosesTypes
    <2>3. Transfer => Order(snd', rcv, net', file, attempts)
      BY <1>1, <1>2, <1>3, <1>4, <1>6, DeleteOrder
    <2> QED
      BY <1>1, <2>1, <2>2, <2>3, SenderStep
  <1>7. CASE snd' = dcc_send_delete(snd, "eof") /\ net' = SenderCloses(net)
    BY <1>7, SendEnds DEF Live
  <1> QED
    BY <1>5, <1>6, <1>7 DEF Sends

LEMMA SendConnect ==
  ASSUME IInv, dcc_send_connect
  PROVE  IInv'
  <1> DEFINE s == [snd EXCEPT !.st = "up"]
             r == dcc_send_bytes(s, net)
             w == r.s.sent - s.sent
  <1>1. snd \in SndRec /\ net \in NetRec
    BY TypesOf DEF IInv
  <1>2. snd.st = "accepted" /\ Sends(r, r.eof) /\ UNCHANGED <<rcv, file, toSnd, toRcv, attempts>>
    BY DEF dcc_send_connect
  <1>3. /\ s \in SndRec /\ s.st = "up" /\ s.told = snd.told /\ s.resumed = snd.resumed
        /\ s.resumers = snd.resumers /\ s.pos = snd.pos /\ s.sent = snd.sent
        /\ s.left = snd.left /\ s.buf = snd.buf
    BY <1>1 DEF SndRec
  <1> HIDE DEF s
  <1>4. /\ Advances(s, net, r.s, r.c, w)
        /\ At(s) /\ Len(net.data) <= net.cap /\ s.buf = <<>> /\ r.eof => r.s.sent + r.s.resumed = Size
    BY <1>1, <1>3, SendBytes
  <1> HIDE DEF r, w
  <1>5. Transfer => snd.buf = <<>>
    BY <1>2 DEF Transfer, Order, SenderAt
  <1>6. Order(s, rcv, net, file, attempts) => At(s) /\ Len(net.data) <= net.cap
    BY <1>3 DEF Order, SenderAt, Connection
  <1>7. r.eof /\ Transfer /\ Order(s, rcv, net, file, attempts) => r.s.sent + r.s.resumed = Size
    BY <1>3, <1>4, <1>5, <1>6
  <1> QED
    BY <1>2, <1>3, <1>4, <1>7, SendsStep

\* What is sent ends at the end of the file when nothing is left.
LEMMA SendWritten ==
  ASSUME IInv, dcc_send_written
  PROVE  IInv'
  <1> DEFINE n == Low(Len(snd.buf), net.cap - Len(net.data))
             s == Flushed(snd, n)
             c == Push(net, SubSeq(snd.buf, 1, n))
             r == dcc_send_bytes(s, c)
             w == r.s.sent - s.sent
             done == SendComplete(r.s, r.eof)
  <1>1. snd \in SndRec /\ net \in NetRec /\ snd.buf \in Seq(Int) /\ net.data \in Seq(Int)
        /\ net.cap \in Int /\ snd.resumed \in Int /\ snd.sent \in Int
    BY TypesOf DEF IInv, SndRec, NetRec
  <1>2. /\ snd.st = "up" /\ n > 0 /\ Sends(r, done)
        /\ UNCHANGED <<rcv, file, toSnd, toRcv, attempts>>
    BY DEF dcc_send_written, Flushed
  <1>3. n \in 1 .. Len(snd.buf) /\ n <= net.cap - Len(net.data)
    <2>1. Len(snd.buf) \in Nat /\ net.cap - Len(net.data) \in Int
      BY <1>1
    <2> QED
      BY <1>2, <2>1, LowerOf
  <1> HIDE DEF n
  <1>4. Advances(snd, net, s, c, n)
    BY <1>1, <1>3, Flush
  <1>5. s \in SndRec /\ c \in NetRec
    BY <1>4 DEF Advances
  <1> HIDE DEF s, c
  <1>6. Advances(s, c, r.s, r.c, w)
    BY <1>5, SendBytes
  <1> HIDE DEF r, w
  <1>7. Advances(snd, net, r.s, r.c, n + w)
    BY <1>1, <1>4, <1>5, <1>6, AdvancesTwice
  <1>8. done /\ Transfer => r.s.sent + r.s.resumed = Size
    <2>1. Transfer => At(r.s)
      BY <1>2, <1>7 DEF Transfer, Order, SenderAt, Connection, Advances
    <2>2. r.s \in SndRec /\ Len(r.s.buf) \in Nat /\ r.s.left \in Int
      BY <1>7 DEF Advances, SndRec
    <2>3. done => r.s.left <= 0
      BY DEF SendComplete
    <2> HIDE DEF done
    <2> QED
      BY <2>1, <2>2, <2>3, SMTT(30) DEF At
  <1>9. done /\ Transfer /\ Order(snd, rcv, net, file, attempts) => r.s.sent + r.s.resumed = Size
    BY <1>8
  <1> HIDE DEF done
  <1> QED
    BY <1>1, <1>2, <1>7, <1>9, SendsStep

LEMMA SendRead ==
  ASSUME IInv, dcc_send_read
  PROVE  IInv'
  <1>1. snd \in SndRec /\ rcv \in RcvRec /\ net \in NetRec /\ net.by # 0 /\ net.acks \in Seq(Int)
    BY TypesOf DEF IInv, History, Offered, dcc_send_read, NetRec
  <1>2. PICK n \in DOMAIN net.acks : net' = [net EXCEPT !.acks = SubSeq(@, n + 1, Len(@))]
    BY DEF dcc_send_read
  <1>3. /\ snd.st = "up" /\ snd' = [snd EXCEPT !.acked = Head(net.acks)]
        /\ UNCHANGED <<rcv, file, toSnd, toRcv, attempts>>
    BY DEF dcc_send_read
  <1>4. Head(net.acks) \in Int /\ SubSeq(net.acks, n + 1, Len(net.acks)) \in Seq(Int)
    BY <1>1
  <1>5. /\ snd' \in SndRec /\ snd'.st = "up" /\ snd'.resumers = snd.resumers
        /\ snd'.resumed = snd.resumed
    BY <1>1, <1>3, <1>4 DEF SndRec
  <1>6. net' \in NetRec /\ net'.by = net.by /\ net'.leaked = net.leaked
    BY <1>1, <1>2, <1>4 DEF NetRec
  <1>7. Transfer => Order(snd', rcv, net', file, attempts)
    BY <1>1, <1>2, <1>3, ReadOrder DEF Transfer
  <1> QED
    BY <1>1, <1>3, <1>5, <1>6, <1>7, SenderStep

-----------------------------------------------------------------------------
(* The steps of the receiver and of the connection                         *)

\* A step that leaves the sender and the messages alone.
LEMMA ReceiverStep ==
  ASSUME IInv, UNCHANGED <<snd, toSnd, toRcv, attempts>>,
         rcv' \in RcvRec, rcv.st # "none" \/ rcv'.st = "none",
         rcv'.st \in {"connecting", "dead"} => rcv.st \in {"connecting", "dead"},
         file' \in Seq(Int), Len(file') >= Len(file),
         net' \in NetRec, net'.by = net.by, net'.leaked = net.leaked,
         net.by = 0 => net' = net,
         Fair /\ Transfer => Order(snd, rcv', net', file', attempts)
  PROVE  IInv'
  <1>1. DccTypes /\ Offered
    BY DEF IInv, History
  <1>2. QuietHyps
    BY <1>1, TypesOf DEF QuietHyps, Holder, Engaged, Offered
  <1>3. Fair /\ Transfer => Order(snd, rcv, net, file, attempts)'
    OBVIOUS
  <1> QED
    BY <1>2, <1>3, QuietStep

\* The sockbuf of the receiver is deleted, perhaps after it wrote to the file.
LEMMA ReceiveEnds ==
  ASSUME IInv, dcc_recv_delete, UNCHANGED <<snd, toSnd, toRcv, attempts>>,
         file' \in Seq(Int), Len(file') >= Len(file), Transfer => Faithful(file')
  PROVE  IInv'
  <1>1. snd \in SndRec /\ rcv \in RcvRec /\ net \in NetRec /\ (net.by = 0 => net = NoNet)
    BY TypesOf DEF IInv, History, Offered
  <1>2. rcv' = NoRecv /\ net' \in {net, ReceiverCloses(net)}
    BY DEF dcc_recv_delete
  <1>3. rcv' \in RcvRec /\ rcv'.st = "none"
    BY <1>2, RecvRecord
  <1>4. net' \in NetRec /\ net'.by = net.by /\ net'.leaked = net.leaked
    BY <1>1, <1>2, ReceiverClosesTypes
  <1>5. net.by = 0 => net' = net
    BY <1>1, <1>2, NoNetCloses
  <1>6. Transfer => Order(snd, rcv', net', file', attempts)
    <2> DEFINE d == net'
               g == file'
    <2>1. d \in {net, ReceiverCloses(net)} /\ (Transfer => Faithful(g))
      BY <1>2
    <2> HIDE DEF d, g
    <2>2. Transfer => Order(snd, NoRecv, d, g, attempts)
      BY <1>1, <2>1, GoneOrder DEF Transfer
    <2> QED
      BY <1>2, <2>2 DEF d, g
  <1> QED
    BY <1>3, <1>4, <1>5, <1>6, ReceiverStep

\* The sockbuf of the receiver is deleted and the file stays.
LEMMA ReceiveStops ==
  ASSUME IInv, dcc_recv_delete, UNCHANGED <<snd, file, toSnd, toRcv, attempts>>
  PROVE  IInv'
  <1>1. file' \in Seq(Int) /\ Len(file') >= Len(file)
    BY TypesOf DEF IInv
  <1>2. Transfer => Faithful(file')
    BY DEF Transfer, Order
  <1> QED
    BY <1>1, <1>2, ReceiveEnds

LEMMA RecvStops ==
  ASSUME IInv, dcc_recv_timeout \/ dcc_recv_eof \/ KillRecv
  PROVE  IInv'
  BY ReceiveStops DEF dcc_recv_timeout, dcc_recv_eof, KillRecv

LEMMA RecvConnect ==
  ASSUME IInv, dcc_recv_connect
  PROVE  IInv'
  <1>1. snd \in SndRec /\ rcv \in RcvRec /\ net \in NetRec /\ file \in Seq(Int) /\ attempts >= 1
    BY TypesOf DEF IInv, History, Offered, dcc_recv_connect
  <1>2. rcv.st = "connecting" /\ UNCHANGED <<snd, file, net, toSnd, toRcv, attempts>>
    BY DEF dcc_recv_connect
  <1>3. /\ rcv' \in RcvRec /\ rcv'.st \notin {"connecting", "dead"}
    BY <1>1 DEF dcc_recv_connect, RcvRec
  <1>4. Transfer => Order(snd, rcv', net, file, attempts)
    <2>1. CASE /\ net.by = attempts /\ net.sopen = 1
               /\ rcv' = [rcv EXCEPT !.st = "up", !.timer = 0]
      <3>1. net.by # 0
        BY <1>1, <2>1
      <3> QED
        BY <1>1, <1>2, <2>1, <3>1, UpOrder DEF Transfer
    <2>2. CASE /\ net.by # 0 /\ (net.by # attempts \/ net.leaked = 1)
               /\ rcv' = [rcv EXCEPT !.st = "queued", !.timer = 0]
      <3>1. Transfer => net.by # attempts
        BY <2>2 DEF Transfer, Settled
      <3> QED
        BY <1>1, <1>2, <2>2, <3>1, QueuedOrder DEF Transfer
    <2> QED
      BY <2>1, <2>2 DEF dcc_recv_connect
  <1>5. Len(file) >= Len(file)
    BY <1>1
  <1> QED
    BY <1>1, <1>2, <1>3, <1>4, <1>5, ReceiverStep

LEMMA RecvRead ==
  ASSUME IInv, dcc_recv_read
  PROVE  IInv'
  <1>1. /\ snd \in SndRec /\ rcv \in RcvRec /\ net \in NetRec /\ file \in Seq(Int)
        /\ (net.by = 0 => net = NoNet)
    BY TypesOf DEF IInv, History, Offered
  <1>2. rcv.st = "up" /\ net.data # <<>> /\ UNCHANGED <<snd, toSnd, toRcv, attempts>>
    BY DEF dcc_recv_read
  <1>3. net.by # 0
    BY <1>1, <1>2 DEF NoNet
  <1>4. net.data \in Seq(Int) /\ Len(net.data) \in Nat /\ rcv.pos \in Int /\ rcv.sent \in Int
    BY <1>1 DEF NetRec, RcvRec
  <1>5. PICK n \in 1 .. Low(Chunk, Len(net.data)) :
          /\ file' = Written(file, rcv.pos, SubSeq(net.data, 1, n))
          /\ \/ rcv' = After(rcv, n) /\ net' = Drained(net, n, rcv.sent)
             \/ dcc_recv_delete
    BY DEF dcc_recv_read, After, Drained
  <1>6. n \in 1 .. Len(net.data) /\ n \in Nat
    BY <1>4, <1>5, LowerOf, DccAssumption
  <1>7. file' \in Seq(Int) /\ Len(file') >= Len(file)
    <2>1. SubSeq(net.data, 1, n) \in Seq(Int)
      BY <1>4, <1>6
    <2> DEFINE b == SubSeq(net.data, 1, n)
               g == Written(file, rcv.pos, b)
    <2>2. Len(file) \in Nat /\ Len(b) \in Nat /\ b \in Seq(Int)
      BY <1>1, <2>1
    <2> HIDE DEF b
    <2>3. /\ g \in Seq(Int)
          /\ Len(g) = IF Len(file) < rcv.pos + Len(b) THEN rcv.pos + Len(b) ELSE Len(file)
      BY <1>1, <1>4, <2>2, WrittenType
    <2> HIDE DEF g
    <2>4. Len(g) >= Len(file)
      BY <1>4, <2>2, <2>3
    <2> QED
      BY <1>5, <2>3, <2>4 DEF b, g
  <1>8. Transfer => /\ Faithful(file')
                    /\ Order(snd, After(rcv, n), Drained(net, n, rcv.sent), file', attempts)
    BY <1>1, <1>2, <1>5, <1>6, WriteOrder DEF Transfer
  <1>9. CASE rcv' = After(rcv, n) /\ net' = Drained(net, n, rcv.sent)
    <2>1. rcv' \in RcvRec /\ rcv'.st = "up"
      BY <1>1, <1>2, <1>6, <1>9, AfterTypes
    <2>2. net' \in NetRec /\ net'.by = net.by /\ net'.leaked = net.leaked
      BY <1>1, <1>4, <1>6, <1>9, DrainedTypes DEF SameConn
    <2> QED
      BY <1>2, <1>3, <1>7, <1>8, <1>9, <2>1, <2>2, ReceiverStep
  <1>10. CASE dcc_recv_delete
    BY <1>2, <1>7, <1>8, <1>10, ReceiveEnds
  <1> QED
    BY <1>5, <1>9, <1>10

\* A connection is opened.
Opened(c, a, x) == [c EXCEPT !.by = a, !.cap = x, !.sopen = 1, !.ropen = 1]
LEMMA Opens ==
  ASSUME NEW c \in NetRec, NEW a \in Nat, NEW x \in Int
  PROVE  /\ Opened(c, a, x) \in NetRec /\ Opened(c, a, x).by = a
         /\ Opened(c, a, x).leaked = c.leaked
  BY DEF NetRec, Opened

LEMMA ConnectsStep ==
  ASSUME IInv, Connects
  PROVE  IInv'
  <1>1. /\ snd \in SndRec /\ rcv \in RcvRec /\ net = NoNet /\ file \in Seq(Int) /\ attempts \in Nat
        /\ attempts >= 1
    BY TypesOf DEF IInv, History, Offered, Connects
  <1>2. PICK k \in Capacities : net' = NewNet(k)
    BY DEF Connects
  <1>3. k \in Nat
    BY DccAssumption
  <1>4. rcv.st = "connecting" /\ snd.st = "listen" /\ UNCHANGED <<snd, rcv, file, toSnd, toRcv, attempts>>
    BY DEF Connects
  <1>5. net' \in NetRec /\ net'.by = attempts /\ net'.leaked = 0
    <2> DEFINE e == Opened(NoNet, attempts, k)
    <2>1. net' = e
      BY <1>2 DEF NewNet, Opened
    <2>2. attempts \in Nat /\ k \in Int
      BY <1>1, <1>3
    <2>3. e \in NetRec /\ e.by = attempts /\ e.leaked = NoNet.leaked
      BY <2>2, NoNetType, Opens
    <2> HIDE DEF e
    <2> QED
      BY <2>1, <2>3, NoNetType
  <1>6. Transfer => Order(snd, rcv, net', file, attempts)
    BY <1>1, <1>2, <1>3, <1>4, ConnectOrder DEF Transfer, NewNet
  <1>7. QuietHyps
    <2>1. net.by = 0 /\ net.leaked = 0 /\ Len(file) >= Len(file)
      BY <1>1 DEF NoNet
    <2> QED
      BY <1>1, <1>4, <1>5, <2>1 DEF QuietHyps, Holder, Engaged
  <1>8. Fair /\ Transfer => Order(snd, rcv, net, file, attempts)'
    BY <1>4, <1>6
  <1> QED
    BY <1>7, <1>8, QuietStep

LEMMA ResetStep ==
  ASSUME IInv, Reset
  PROVE  IInv'
  <1>1. /\ snd \in SndRec /\ rcv \in RcvRec /\ net \in NetRec /\ file \in Seq(Int)
        /\ (net.by = 0 => net = NoNet)
    BY TypesOf DEF IInv, History, Offered
  <1>2. /\ net.sopen = 1 /\ UNCHANGED <<snd, rcv, file, toSnd, toRcv, attempts>>
        /\ net' = [net EXCEPT !.sopen = 0, !.ropen = 0, !.data = <<>>, !.acks = <<>>]
    BY DEF Reset
  <1>3. net.by # 0
    BY <1>1, <1>2 DEF NoNet
  <1>4. net' \in NetRec /\ net'.by = net.by /\ net'.leaked = net.leaked
    <2>1. <<>> \in Seq(Int)
      OBVIOUS
    <2> QED
      BY <1>1, <1>2, <2>1 DEF NetRec
  <1>5. Transfer => Order(snd, rcv, net', file, attempts)
    BY <1>1, <1>2, ResetOrder DEF Transfer
  <1>6. Len(file) >= Len(file)
    BY <1>1
  <1> QED
    BY <1>1, <1>2, <1>3, <1>4, <1>5, <1>6, ReceiverStep

-----------------------------------------------------------------------------
(* The messages                                                            *)

LEMMA TailOf ==
  ASSUME NEW S, NEW q \in Seq(S), q # <<>>
  PROVE  /\ Tail(q) \in Seq(S) /\ Head(q) = q[1] /\ 1 \in DOMAIN q
         /\ \A i \in DOMAIN Tail(q) : i + 1 \in DOMAIN q /\ i + 1 # 1 /\ Tail(q)[i] = q[i + 1]
         /\ \A i, j \in DOMAIN Tail(q) : i + 1 = j + 1 => i = j
  <1>1. Len(q) \in Nat \ {0} /\ DOMAIN q = 1 .. Len(q)
    OBVIOUS
  <1>2. Tail(q) \in Seq(S) /\ Len(Tail(q)) = Len(q) - 1 /\ DOMAIN Tail(q) = 1 .. (Len(q) - 1)
    BY <1>1
  <1>3. \A i \in 1 .. (Len(q) - 1) : Tail(q)[i] = q[i + 1]
    BY <1>1
  <1> QED
    BY <1>1, <1>2, <1>3

LEMMA AppendOf ==
  ASSUME NEW S, NEW q \in Seq(S), NEW m \in S
  PROVE  /\ Append(q, m) \in Seq(S)
         /\ \A i \in DOMAIN Append(q, m) : \/ i \in DOMAIN q /\ Append(q, m)[i] = q[i]
                                           \/ i = Len(q) + 1 /\ Append(q, m)[i] = m
         /\ \A i \in DOMAIN q : i \in DOMAIN Append(q, m) /\ Append(q, m)[i] = q[i]
         /\ Len(q) + 1 \notin DOMAIN q
  <1>1. Len(q) \in Nat /\ DOMAIN q = 1 .. Len(q)
    OBVIOUS
  <1>2. /\ Append(q, m) \in Seq(S) /\ Len(Append(q, m)) = Len(q) + 1
        /\ DOMAIN Append(q, m) = 1 .. (Len(q) + 1)
    BY <1>1
  <1>3. Append(q, m)[Len(q) + 1] = m /\ \A i \in 1 .. Len(q) : Append(q, m)[i] = q[i]
    BY <1>1
  <1> QED
    BY <1>1, <1>2, <1>3

\* A message to the sender is lost, or nobody there wants it.
LEMMA LosesToSender ==
  ASSUME IInv, toSnd # <<>>, toSnd' = Tail(toSnd),
         UNCHANGED <<snd, rcv, file, net, toRcv, attempts>>
  PROVE  IInv'
  <1>1. DccTypes /\ History
    BY DEF IInv
  <1>2. /\ toSnd' \in Seq(Resume)
        /\ \A i \in DOMAIN toSnd' : i + 1 \in DOMAIN toSnd /\ toSnd'[i] = toSnd[i + 1]
        /\ \A i, j \in DOMAIN toSnd' : i + 1 = j + 1 => i = j
    BY <1>1, TypesOf, TailOf
  <1>3. DccTypes'
    BY <1>1, <1>2 DEF DccTypes
  <1>4. Accepts' = Accepts /\ Offers' = Offers /\ Holder' = Holder
    BY DEF Accepts, Offers, Holder
  <1>5. Asked'
    BY <1>1, <1>2 DEF History, Asked
  <1>6. Answered' /\ Offered'
    BY <1>1, <1>4 DEF History, Answered, Offered
  <1>7. Fair' <=> Fair
    BY <1>4 DEF Fair
  <1>8. Settled => Settled'
    BY <1>2, <1>4 DEF Settled
  <1>9. Order(snd, rcv, net, file, attempts)' <=> Order(snd, rcv, net, file, attempts)
    BY DEF Order
  <1>10. Fair' => Transfer'
    BY <1>7, <1>8, <1>9 DEF IInv, Transfer
  <1> QED
    BY <1>3, <1>5, <1>6, <1>10 DEF IInv, History

\* The messages to the receiver lose the first.
Shorter ==
  /\ toRcv # <<>> /\ toRcv' = Tail(toRcv)
LEMMA ShorterMeans ==
  ASSUME DccTypes, Shorter
  PROVE  /\ toRcv' \in Seq(Reply) /\ Head(toRcv) = toRcv[1] /\ 1 \in DOMAIN toRcv
         /\ \A i \in Accepts' : i + 1 \in Accepts /\ i + 1 # 1 /\ toRcv'[i] = toRcv[i + 1]
         /\ \A i \in Offers' : i + 1 \in Offers /\ i + 1 # 1 /\ toRcv'[i] = toRcv[i + 1]
         /\ \A i, j \in Accepts' : i + 1 = j + 1 => i = j
         /\ \A i, j \in Offers' : i + 1 = j + 1 => i = j
  <1>1. /\ toRcv' \in Seq(Reply) /\ Head(toRcv) = toRcv[1] /\ 1 \in DOMAIN toRcv
        /\ \A i \in DOMAIN toRcv' : i + 1 \in DOMAIN toRcv /\ i + 1 # 1 /\ toRcv'[i] = toRcv[i + 1]
        /\ \A i, j \in DOMAIN toRcv' : i + 1 = j + 1 => i = j
    BY TypesOf, TailOf DEF Shorter
  <1> QED
    BY <1>1 DEF Accepts, Offers

\* A message to the receiver is lost, or nobody there wants it.
LEMMA LosesToReceiver ==
  ASSUME IInv, Shorter, UNCHANGED <<snd, rcv, file, net, toSnd, attempts>>
  PROVE  IInv'
  <1>1. DccTypes /\ History
    BY DEF IInv
  <1>2. /\ toRcv' \in Seq(Reply) /\ toRcv # <<>>
        /\ \A i \in Accepts' : i + 1 \in Accepts /\ toRcv'[i] = toRcv[i + 1]
        /\ \A i \in Offers' : i + 1 \in Offers /\ toRcv'[i] = toRcv[i + 1]
        /\ \A i, j \in Accepts' : i + 1 = j + 1 => i = j
        /\ \A i, j \in Offers' : i + 1 = j + 1 => i = j
    BY <1>1, ShorterMeans DEF Shorter
  <1>3. DccTypes'
    BY <1>1, <1>2 DEF DccTypes
  <1>4. Holder' = Holder
    BY DEF Holder
  <1>5. Asked'
    BY <1>1 DEF History, Asked
  <1>6. Answered'
    BY <1>1, <1>2 DEF History, Answered
  <1>a. Offered'
    BY <1>1, <1>2 DEF History, Offered
  <1>7. Fair' <=> Fair
    BY <1>4 DEF Fair
  <1>8. Settled => Settled'
    BY <1>2, <1>4 DEF Settled
  <1>9. Order(snd, rcv, net, file, attempts)' <=> Order(snd, rcv, net, file, attempts)
    BY DEF Order
  <1>10. Fair' => Transfer'
    BY <1>7, <1>8, <1>9 DEF IInv, Transfer
  <1> QED
    BY <1>3, <1>5, <1>6, <1>a, <1>10 DEF IInv, History

LEMMA LoseStep ==
  ASSUME IInv, Lose
  PROVE  IInv'
  BY LosesToSender, LosesToReceiver DEF Lose, Shorter

\* Before there is an attempt nothing has happened.
LEMMA Before ==
  ASSUME IInv, attempts = -1
  PROVE  /\ snd.resumers = {} /\ DOMAIN toSnd = {} /\ net = NoNet /\ net.by = 0 /\ rcv.st = "none"
         /\ Accepts = {} /\ Transfer
  <1>1. DccTypes /\ History
    BY DEF IInv
  <1>2. snd.resumers = {} /\ DOMAIN toSnd = {}
    <2>1. 1 .. -1 = {}
      OBVIOUS
    <2> QED
      BY <1>1, <2>1 DEF History, Asked
  <1>3. net.by = 0 /\ net = NoNet
    BY <1>1 DEF History, Offered
  <1>4. rcv.st = "none"
    BY <1>1 DEF History, Offered
  <1>5. Accepts = {}
    BY <1>1, <1>2 DEF History, Answered
  <1>6. Transfer
    BY <1>2 DEF IInv, Fair
  <1> QED
    BY <1>2, <1>3, <1>4, <1>5, <1>6

LEMMA NoSendType ==
  NoSend \in SndRec /\ NoSend.st = "none" /\ NoSend.resumers = {} /\ NoSend.resumed = 0
  <1>1. <<>> \in Seq(Int) /\ Size \in Int
    BY DccAssumption
  <1> QED
    BY <1>1 DEF NoSend, SndRec
LEMMA Listens ==
  ASSUME NEW t \in {0, 1}
  PROVE  /\ dcc_listen(t) \in SndRec /\ dcc_listen(t).st = "listen"
         /\ dcc_listen(t).resumers = {} /\ dcc_listen(t).resumed = 0
  <1>1. ASSUME NEW s \in SndRec
        PROVE  LET d == [s EXCEPT !.st = "listen", !.timer = t]
               IN  /\ d \in SndRec /\ d.st = "listen" /\ d.resumers = s.resumers
                   /\ d.resumed = s.resumed
    BY DEF SndRec
  <1> QED
    BY <1>1, NoSendType DEF dcc_listen

\* The offer is made.
LEMMA StartSend ==
  ASSUME IInv, dcc_start_send
  PROVE  IInv'
  <1>1. DccTypes /\ History
    BY DEF IInv
  <1>2. snd.st = "none" /\ UNCHANGED <<rcv, file, net, toSnd, attempts>>
    BY DEF dcc_start_send
  <1>3. toRcv = <<>> /\ attempts = -1
    BY <1>1, <1>2 DEF History, Offered
  <1>4. /\ DOMAIN toSnd = {} /\ net = NoNet /\ net.by = 0 /\ rcv.st = "none" /\ Transfer
    BY <1>3, Before
  <1>5. PICK t \in Timeouts : snd' = dcc_listen(t)
    BY DEF dcc_start_send
  <1>6. /\ snd' \in SndRec /\ snd'.st = "listen" /\ snd'.resumers = {} /\ snd'.resumed = 0
    <2>1. t \in {0, 1}
      BY DccAssumption
    <2> QED
      BY <1>5, <2>1, Listens
  <1> DEFINE m == [t |-> "send", pos |-> 0, by |-> 0]
  <1>7. m \in Reply /\ m.t = "send"
    BY DccAssumption DEF Reply
  <1>8. toRcv' = Append(toRcv, m)
    BY DEF dcc_start_send
  <1> HIDE DEF m
  <1>9. toRcv' \in Seq(Reply) /\ DOMAIN toRcv' = {1} /\ toRcv'[1] = m
    BY <1>3, <1>7, <1>8
  <1>10. Accepts' = {} /\ Offers' = {1}
    BY <1>7, <1>9 DEF Accepts, Offers
  <1>11. DccTypes'
    BY <1>1, <1>2, <1>6, <1>9 DEF DccTypes
  <1>12. Asked' /\ Answered'
    BY <1>2, <1>4, <1>6, <1>10 DEF Asked, Answered
  <1>13. Offered'
    BY <1>2, <1>3, <1>4, <1>6, <1>10 DEF Offered
  <1>14. Settled'
    BY <1>2, <1>4, <1>10, NoNetType DEF Settled
  <1>15. Order(snd, rcv, net, file, attempts)'
    <2> DEFINE u == snd'
    <2>1. u = dcc_listen(t) /\ snd \in SndRec /\ rcv \in RcvRec
      BY <1>1, <1>5, TypesOf
    <2> HIDE DEF u
    <2>2. Order(u, rcv, NoNet, file, attempts)
      BY <1>4, <2>1, StartOrder DEF Transfer
    <2> QED
      BY <1>2, <1>4, <2>2 DEF u
  <1> QED
    BY <1>11, <1>12, <1>13, <1>14, <1>15 DEF IInv, History, Transfer

\* The offer is heard.
LEMMA GotSend ==
  ASSUME IInv, got_send
  PROVE  IInv'
  <1>1. DccTypes /\ History
    BY DEF IInv
  <1>2. Shorter /\ Head(toRcv).t = "send" /\ attempts' = 0 /\ UNCHANGED <<snd, rcv, file, net, toSnd>>
    BY DEF got_send, Shorter
  <1>3. /\ toRcv' \in Seq(Reply) /\ 1 \in Offers /\ toRcv # <<>>
        /\ \A i \in Accepts' : i + 1 \in Accepts
        /\ \A i \in Offers' : i + 1 \in Offers /\ i + 1 # 1
    BY <1>1, <1>2, ShorterMeans DEF Offers, Shorter
  <1>4. attempts = -1 /\ Offers' = {}
    BY <1>1, <1>3 DEF History, Offered
  <1>5. /\ snd.resumers = {} /\ DOMAIN toSnd = {} /\ net = NoNet /\ net.by = 0 /\ rcv.st = "none"
        /\ Accepts = {} /\ Transfer
    BY <1>4, Before
  <1>6. Accepts' = {} /\ snd.st # "none"
    BY <1>1, <1>3, <1>5 DEF History, Offered
  <1>7. DccTypes'
    BY <1>1, <1>2, <1>3 DEF DccTypes
  <1>8. Asked' /\ Answered'
    BY <1>2, <1>5, <1>6 DEF Asked, Answered
  <1>9. Offered'
    BY <1>1, <1>2, <1>4, <1>5, <1>6 DEF History, Offered
  <1>10. Settled'
    BY <1>2, <1>5, <1>6, NoNetType DEF Settled
  <1>11. Order(snd, rcv, net, file, 0)
    BY <1>5 DEF Transfer, Order, ReceiverAt, Connection, Joined
  <1>12. Order(snd, rcv, net, file, attempts)'
    BY <1>2, <1>11
  <1> QED
    BY <1>7, <1>8, <1>9, <1>10, <1>12 DEF IInv, History, Transfer

\* The sender follows a RESUME and answers it.
Followed(s, m) ==
  [s EXCEPT !.pos = m.pos, !.left = @ - m.pos, !.resumed = m.pos, !.resumers = @ \cup {m.by}]
LEMMA FollowTypes ==
  ASSUME NEW s \in SndRec, NEW m \in Resume
  PROVE  /\ Followed(s, m) \in SndRec /\ Followed(s, m).st = s.st
         /\ Followed(s, m).resumed = m.pos /\ Followed(s, m).resumers = s.resumers \cup {m.by}
  <1> DEFINE p == m.pos
             x == s.left - p
             R == s.resumers \cup {m.by}
             d == [s EXCEPT !.pos = p, !.left = x, !.resumed = p, !.resumers = R]
  <1>1. p \in Int /\ m.by \in Nat /\ s.left \in Int /\ s.resumers \in SUBSET Nat
    BY DccAssumption DEF Resume, SndRec
  <1>2. x \in Int /\ R \in SUBSET Nat
    BY <1>1
  <1>3. Followed(s, m) = d
    BY DEF Followed
  <1> HIDE DEF p, x, R
  <1>4. d \in SndRec /\ d.st = s.st /\ d.resumed = p /\ d.resumers = R
    BY <1>1, <1>2 DEF SndRec
  <1> HIDE DEF d
  <1> QED
    BY <1>3, <1>4 DEF p, R

LEMMA GotResume ==
  ASSUME IInv, got_resume
  PROVE  IInv'
  <1>1. DccTypes /\ History
    BY DEF IInv
  <1>2. toSnd # <<>> /\ toSnd' = Tail(toSnd) /\ UNCHANGED <<rcv, file, net, attempts>>
    BY DEF got_resume
  <1>3. CASE ~ Sending
    BY <1>2, <1>3, LosesToSender DEF got_resume
  <1>4. CASE Sending
    <2> DEFINE m == toSnd[1]
               a == [t |-> "accept", pos |-> m.pos, by |-> m.by]
    <2>1. /\ toSnd' \in Seq(Resume) /\ Head(toSnd) = m /\ 1 \in DOMAIN toSnd
          /\ \A i \in DOMAIN toSnd' : i + 1 \in DOMAIN toSnd /\ i + 1 # 1 /\ toSnd'[i] = toSnd[i + 1]
          /\ \A i, j \in DOMAIN toSnd' : i + 1 = j + 1 => i = j
      BY <1>1, <1>2, TypesOf, TailOf
    <2>2. m \in Resume /\ m.pos \in 1 .. Size /\ m.by \in Nat
      BY <1>1, <2>1, TypesOf, ResumeFields
    <2>3. /\ m.by \in 1 .. attempts /\ m.by \notin snd.resumers
          /\ m.by = attempts => m.pos <= Len(file)
          /\ \A i \in DOMAIN toSnd' : toSnd'[i].by # m.by
      BY <1>1, <2>1 DEF History, Asked
    <2>4. snd' = Followed(snd, m) /\ toRcv' = Append(toRcv, a)
      BY <1>4, <2>1 DEF got_resume, Followed
    <2>5. a \in Reply /\ a.t = "accept" /\ a.pos = m.pos /\ a.by = m.by
      BY <2>2, DccAssumption DEF Reply
    <2> HIDE DEF m, a
    <2>6. /\ snd' \in SndRec /\ snd'.st = snd.st
          /\ snd'.resumed = m.pos /\ snd'.resumers = snd.resumers \cup {m.by}
      BY <1>1, <2>2, <2>4, TypesOf, FollowTypes
    <2>7. /\ toRcv' \in Seq(Reply)
          /\ \A i \in DOMAIN toRcv' : \/ i \in DOMAIN toRcv /\ toRcv'[i] = toRcv[i]
                                      \/ i = Len(toRcv) + 1 /\ toRcv'[i] = a
          /\ Len(toRcv) + 1 \notin DOMAIN toRcv
          /\ \A i \in DOMAIN toRcv : i \in DOMAIN toRcv' /\ toRcv'[i] = toRcv[i]
      BY <1>1, <2>4, <2>5, TypesOf, AppendOf
    <2>8. /\ Offers' = Offers
          /\ \A i \in Accepts' : \/ i \in Accepts /\ toRcv'[i] = toRcv[i]
                                 \/ i = Len(toRcv) + 1 /\ toRcv'[i] = a
      BY <2>5, <2>7 DEF Offers, Accepts
    <2>9. DccTypes'
      BY <1>1, <1>2, <2>1, <2>6, <2>7 DEF DccTypes
    <2>10. Asked'
      BY <1>1, <1>2, <2>1, <2>3, <2>6 DEF History, Asked
    <2>11. Answered'
      <3>1. \A i \in Accepts : toRcv[i].by # m.by
        BY <1>1, <2>3 DEF History, Answered
      <3>2. \A i, j \in Accepts' : toRcv'[i].by = toRcv'[j].by => i = j
        BY <1>1, <2>5, <2>8, <3>1 DEF History, Answered
      <3>3. \A i \in Accepts' : /\ toRcv'[i].by \in snd'.resumers
                                /\ toRcv'[i].by = attempts => toRcv'[i].pos <= Len(file)
        BY <1>1, <2>3, <2>5, <2>6, <2>8 DEF History, Answered
      <3> QED
        BY <1>2, <3>2, <3>3 DEF Answered
    <2>12. Offered'
      BY <1>1, <1>2, <1>4, <2>6, <2>8 DEF History, Offered, Sending
    <2>13. ASSUME Fair' PROVE Transfer'
      <3>1. Holder' = Holder
        BY <1>2 DEF Holder
      <3>2. m.by = Holder /\ snd.resumers = {}
        BY <2>3, <2>6, <2>13, <3>1 DEF Fair
      <3>3. Transfer /\ Accepts = {}
        BY <1>1, <3>2 DEF IInv, Fair, History, Answered
      <3>4. net.by = 0 /\ rcv.st \notin {"connecting", "dead"} /\ net = NoNet
        BY <1>1, <2>1, <3>2, <3>3 DEF Transfer, Settled, History, Offered, m
      <3>5. rcv.st # "up"
        BY <1>1, <3>3, <3>4 DEF Transfer, Order, ReceiverAt, History, Offered
      <3>6. Settled'
        BY <1>2, <2>5, <2>6, <2>8, <3>3, <3>4, NoNetType DEF Settled
      <3>7. Order(snd, rcv, net, file, attempts)'
        <4> DEFINE p == m.pos
                   b == m.by
                   u == snd'
        <4>1. /\ snd \in SndRec /\ rcv \in RcvRec /\ Live(snd)
              /\ u = [snd EXCEPT !.pos = p, !.left = @ - p, !.resumed = p, !.resumers = @ \cup {b}]
          BY <1>1, <1>4, <2>4, TypesOf, LivesOn DEF Followed
        <4>2. p \in 1 .. Size
          BY <2>2
        <4> HIDE DEF p, b, u
        <4>3. Order(u, rcv, NoNet, file, attempts)
          BY <3>2, <3>3, <3>4, <3>5, <4>1, <4>2, ResumeOrder DEF Transfer
        <4> QED
          BY <1>2, <3>4, <4>3 DEF u
      <3> QED
        BY <3>6, <3>7 DEF Transfer
    <2> QED
      BY <2>9, <2>10, <2>11, <2>12, <2>13 DEF IInv, History
  <1> QED
    BY <1>3, <1>4

\* The receiver follows an ACCEPT.
Moved(r, p) == [r EXCEPT !.st = "connecting", !.pos = p, !.left = @ - p, !.resumed = p]
LEMMA MoveTypes ==
  ASSUME NEW r \in RcvRec, NEW p \in Int
  PROVE  Moved(r, p) \in RcvRec /\ Moved(r, p).st = "connecting"
  <1> DEFINE x == r.left - p
             d == [r EXCEPT !.st = "connecting", !.pos = p, !.left = x, !.resumed = p]
  <1>1. x \in Int
    BY DEF RcvRec
  <1>2. Moved(r, p) = d
    BY DEF Moved
  <1> HIDE DEF x
  <1>3. d \in RcvRec /\ d.st = "connecting"
    BY <1>1 DEF RcvRec
  <1> HIDE DEF d
  <1> QED
    BY <1>2, <1>3

LEMMA GotAccept ==
  ASSUME IInv, got_accept
  PROVE  IInv'
  <1>1. DccTypes /\ History
    BY DEF IInv
  <1>2. Shorter /\ Head(toRcv).t = "accept" /\ UNCHANGED <<snd, file, toSnd, attempts>>
    BY DEF got_accept, Shorter
  <1>3. CASE rcv.st = "none"
    BY <1>2, <1>3, LosesToReceiver DEF got_accept
  <1>4. CASE rcv.st # "none"
    <2> DEFINE m == toRcv[1]
    <2>1. /\ toRcv' \in Seq(Reply) /\ Head(toRcv) = m /\ 1 \in Accepts /\ toRcv # <<>>
          /\ \A i \in Accepts' : i + 1 \in Accepts /\ i + 1 # 1 /\ toRcv'[i] = toRcv[i + 1]
          /\ \A i \in Offers' : i + 1 \in Offers /\ toRcv'[i] = toRcv[i + 1]
          /\ \A i, j \in Accepts' : i + 1 = j + 1 => i = j
          /\ \A i, j \in Offers' : i + 1 = j + 1 => i = j
      BY <1>1, <1>2, ShorterMeans DEF Accepts, Shorter
    <2>2. m \in Reply /\ m.pos \in 0 .. Size /\ m.by \in Nat /\ m.pos \in Int
      BY <1>1, <2>1, TypesOf, ReplyFields DEF Accepts
    <2>3. /\ m.by \in snd.resumers /\ (m.by = attempts => m.pos <= Len(file))
          /\ \A i \in Accepts' : toRcv'[i].by # m.by
      BY <1>1, <2>1 DEF History, Answered
    <2>4. rcv' = Moved(rcv, m.pos)
      BY <1>4, <2>1 DEF got_accept, Moved
    <2>5. \/ net.by = attempts /\ net' = [net EXCEPT !.leaked = 1]
          \/ net' = net
          \/ /\ rcv.st = "connecting" /\ snd.st = "listen" /\ net.by = 0
             /\ \E k \in Capacities : net' = [NewNet(k) EXCEPT !.leaked = 1]
      BY <1>4 DEF got_accept
    <2> HIDE DEF m
    <2>6. rcv' \in RcvRec /\ rcv'.st = "connecting"
      BY <1>1, <2>2, <2>4, TypesOf, MoveTypes
    <2>7. attempts \in Nat /\ attempts >= 1 /\ net \in NetRec
      BY <1>1, <1>4, TypesOf DEF History, Offered
    <2>8. /\ net' \in NetRec /\ Holder' = Holder
          /\ net'.by \in {net.by, attempts} /\ (net'.by = 0 => net' = net)
      <3>2. CASE net.by = attempts /\ net' = [net EXCEPT !.leaked = 1]
        <4>1. net' \in NetRec /\ net'.by = net.by
          BY <2>7, <3>2 DEF NetRec
        <4> QED
          BY <1>2, <2>7, <3>2, <4>1 DEF Holder
      <3>3. CASE net' = net
        BY <1>2, <2>7, <3>3 DEF Holder
      <3>4. CASE net.by = 0 /\ \E k \in Capacities : net' = [NewNet(k) EXCEPT !.leaked = 1]
        <4>1. PICK k \in Capacities : net' = [NewNet(k) EXCEPT !.leaked = 1]
          BY <3>4
        <4> DEFINE e == Opened(NoNet, attempts, k)
        <4>2. k \in Int /\ net' = [e EXCEPT !.leaked = 1]
          BY <4>1, DccAssumption DEF NewNet, Opened
        <4>3. e \in NetRec /\ e.by = attempts
          BY <2>7, <4>2, NoNetType, Opens
        <4> HIDE DEF e
        <4>4. net' \in NetRec /\ net'.by = attempts
          BY <4>2, <4>3 DEF NetRec
        <4> QED
          BY <1>2, <2>7, <3>4, <4>4 DEF Holder
      <3> QED
        BY <2>5, <3>2, <3>3, <3>4
    <2>9. DccTypes'
      BY <1>1, <1>2, <2>1, <2>6, <2>8 DEF DccTypes
    <2>10. Asked'
      BY <1>1, <1>2 DEF History, Asked
    <2>11. Answered'
      BY <1>1, <1>2, <2>1 DEF History, Answered
    <2>12. Offered'
      <3>1. /\ Offers' # {} => attempts' = -1
            /\ \A i, j \in Offers' : i = j
        BY <1>1, <1>2, <2>1 DEF History, Offered
      <3>2. snd.st # "none"
        BY <1>1, <2>1 DEF History, Offered
      <3>3. net'.by \in 0 .. attempts \/ net'.by = 0
        BY <1>1, <2>7, <2>8 DEF History, Offered
      <3>4. /\ net'.by = 0 => net' = NoNet
            /\ snd.st \in {"accepted", "up"} => net'.by # 0
        BY <1>1, <2>7, <2>8 DEF History, Offered
      <3> QED
        BY <1>2, <2>7, <3>1, <3>2, <3>3, <3>4 DEF Offered
    <2>13. ASSUME Fair' PROVE Transfer'
      <3>1. Fair /\ Transfer
        BY <1>2, <2>8, <2>13 DEF Fair, IInv
      <3>2. net.by = 0 /\ net = NoNet /\ rcv.st \notin {"connecting", "dead"}
        BY <1>1, <2>1, <3>1 DEF Transfer, Settled, History, Offered
      <3>3. net' = NoNet /\ Holder = attempts /\ m.by = attempts
        BY <2>3, <2>5, <2>7, <3>1, <3>2 DEF Fair, Holder
      <3>4. rcv.st = "resume"
        BY <1>1, <1>4, <2>7, <3>1, <3>2, TypesOf DEF Transfer, Order, ReceiverAt, RcvRec
      <3>5. Accepts' = {}
        BY <1>1, <2>1, <2>3, <3>1, <3>3 DEF History, Answered, Fair
      <3>6. \A i \in DOMAIN toSnd : toSnd[i].by # attempts
        BY <1>1, <2>3, <3>3 DEF History, Asked
      <3>7. Settled'
        BY <1>2, <2>8, <3>3, <3>5, <3>6, NoNetType DEF Settled
      <3>8. Order(snd, rcv, net, file, attempts)'
        <4> DEFINE p == m.pos
                   q == rcv'
        <4>1. q = [rcv EXCEPT !.st = "connecting", !.pos = p, !.left = @ - p, !.resumed = p]
          BY <2>4 DEF Moved
        <4>2. p \in 0 .. Size /\ p = snd.resumed /\ p <= Len(file)
          BY <2>1, <2>2, <2>3, <3>1, <3>3 DEF Transfer, Settled, m
        <4> HIDE DEF p, q
        <4>3. Order(snd, q, NoNet, file, attempts)
          BY <1>1, <2>7, <3>1, <3>2, <3>4, <4>1, <4>2, TypesOf, AcceptOrder DEF Transfer
        <4> QED
          BY <1>2, <3>3, <4>3 DEF q
      <3> QED
        BY <3>7, <3>8 DEF Transfer
    <2> QED
      BY <2>9, <2>10, <2>11, <2>12, <2>13 DEF IInv, History
  <1> QED
    BY <1>3, <1>4

\* A receive begins.
LEMMA BeginsWithin ==
  ASSUME NEW resume \in Resumes, file \in Seq(Int)
  PROVE  Begin(resume) \in 0 .. Size
  <1>1. Size \in Nat \ {0} /\ resume \in -1 .. Size /\ Len(file) \in Nat
    BY DccAssumption
  <1> QED
    BY <1>1 DEF Begin

New(from, t, st) == [[NoRecv EXCEPT !.timer = t, !.pos = from] EXCEPT !.st = st]
LEMMA NewTypes ==
  ASSUME NEW from \in Int, NEW t \in {0, 1}, NEW st \in {"resume", "connecting", "dead"}
  PROVE  LET q == New(from, t, st)
         IN  /\ q \in RcvRec /\ q.st = st /\ q.pos = from /\ q.sent = 0 /\ q.left = Size
             /\ q.resumed = 0
  <1>1. ASSUME NEW r \in RcvRec
        PROVE  LET q == [[r EXCEPT !.timer = t, !.pos = from] EXCEPT !.st = st]
               IN  /\ q \in RcvRec /\ q.st = st /\ q.pos = from /\ q.sent = r.sent
                   /\ q.left = r.left /\ q.resumed = r.resumed
    BY DEF RcvRec
  <1> QED
    BY <1>1, RecvRecord DEF New

LEMMA AcceptSend ==
  ASSUME IInv, NEW resume \in Resumes, NEW timeout \in Timeouts, dcc_accept_send(resume, timeout)
  PROVE  IInv'
  <1> DEFINE from == Begin(resume)
             m == [t |-> "resume", pos |-> from, by |-> attempts + 1]
  <1>1. DccTypes /\ History
    BY DEF IInv
  <1>2. /\ rcv.st = "none" /\ attempts \in 0 .. MaxAttempts - 1 /\ from <= Len(file)
        /\ attempts' = attempts + 1 /\ UNCHANGED <<snd, net, toRcv>>
    BY DEF dcc_accept_send
  <1>3. \/ /\ from > 0 /\ rcv' = New(from, timeout, "resume")
           /\ toSnd' = Append(toSnd, m) /\ file' = file
        \/ /\ from = 0 /\ (\E st \in {"connecting", "dead"} : rcv' = New(from, timeout, st))
           /\ file' = <<>> /\ toSnd' = toSnd
    BY <1>2 DEF dcc_accept_send, New
  <1>4. /\ attempts \in Nat /\ attempts + 1 \in Nat \ {0} /\ from \in 0 .. Size /\ timeout \in {0, 1}
        /\ from \in Int
    BY <1>1, <1>2, TypesOf, BeginsWithin, DccAssumption
  <1> HIDE DEF from
  <1>5. PICK st \in {"resume", "connecting", "dead"} :
          /\ rcv' = New(from, timeout, st)
          /\ from > 0 => st = "resume" /\ toSnd' = Append(toSnd, m) /\ file' = file
          /\ from = 0 => st # "resume" /\ toSnd' = toSnd /\ file' = <<>>
    BY <1>3, <1>4
  <1>6. /\ rcv' \in RcvRec /\ rcv'.st = st /\ rcv'.pos = from /\ rcv'.sent = 0
        /\ rcv'.left = Size /\ rcv'.resumed = 0
    BY <1>4, <1>5, NewTypes
  <1>7. from > 0 => m \in Resume /\ m.by = attempts + 1 /\ m.pos = from
    BY <1>4 DEF Resume
  <1> HIDE DEF m
  <1>8. /\ toSnd' \in Seq(Resume)
        /\ \A i \in DOMAIN toSnd' : \/ i \in DOMAIN toSnd /\ toSnd'[i] = toSnd[i]
                                    \/ i = Len(toSnd) + 1 /\ toSnd'[i] = m /\ from > 0
    <2>1. CASE from > 0
      <3>1. m \in Resume /\ toSnd \in Seq(Resume) /\ toSnd' = Append(toSnd, m)
        BY <1>1, <1>5, <1>7, <2>1, TypesOf
      <3>2. /\ Append(toSnd, m) \in Seq(Resume)
            /\ \A i \in DOMAIN Append(toSnd, m) :
                 \/ i \in DOMAIN toSnd /\ Append(toSnd, m)[i] = toSnd[i]
                 \/ i = Len(toSnd) + 1 /\ Append(toSnd, m)[i] = m
        BY <3>1, AppendOf
      <3> QED
        BY <2>1, <3>1, <3>2
    <2>2. CASE from = 0
      BY <1>1, <1>5, <2>2, TypesOf
    <2> QED
      BY <1>4, <2>1, <2>2
  <1>9. file' \in Seq(Int) /\ file' \in {file, <<>>} /\ (from > 0 => file' = file)
    <2>1. from > 0 \/ from = 0
      BY <1>4
    <2>2. file \in Seq(Int) /\ <<>> \in Seq(Int)
      BY <1>1, TypesOf
    <2> QED
      BY <1>5, <2>1, <2>2
  <1>10. DccTypes'
    BY <1>1, <1>2, <1>4, <1>6, <1>8, <1>9 DEF DccTypes
  <1>11. snd.resumers \subseteq 1 .. attempts /\ attempts + 1 \notin snd.resumers
    BY <1>1, <1>4 DEF History, Asked
  <1>12. \A i \in DOMAIN toSnd : toSnd[i].by \in 1 .. attempts /\ toSnd[i].by # attempts + 1
    BY <1>1, <1>4 DEF History, Asked
  <1>13. 1 .. attempts \subseteq 1 .. (attempts + 1) /\ attempts + 1 \in 1 .. (attempts + 1)
    BY <1>4
  <1>14. Asked'
    <2>1. snd'.resumers \subseteq 1 .. attempts'
      BY <1>2, <1>11, <1>13
    <2>2. \A i \in DOMAIN toSnd' :
            /\ toSnd'[i].by \in 1 .. attempts' /\ toSnd'[i].by \notin snd'.resumers
            /\ toSnd'[i].by = attempts' => toSnd'[i].pos <= Len(file')
      BY <1>1, <1>2, <1>7, <1>8, <1>9, <1>11, <1>12, <1>13 DEF History, Asked
    <2>3. \A i, j \in DOMAIN toSnd' : toSnd'[i].by = toSnd'[j].by => i = j
      BY <1>1, <1>7, <1>8, <1>12 DEF History, Asked
    <2> QED
      BY <2>1, <2>2, <2>3 DEF Asked
  <1>15. Accepts' = Accepts /\ Offers' = Offers
    BY <1>2 DEF Accepts, Offers
  <1>16. Answered'
    <2>1. \A i \in Accepts : toRcv[i].by # attempts + 1
      BY <1>1, <1>11 DEF History, Answered
    <2> QED
      BY <1>1, <1>2, <1>15, <2>1 DEF History, Answered
  <1>17. Offers = {} /\ snd.st # "none" /\ (net.by \in 0 .. attempts)
         /\ net.by # attempts + 1
    BY <1>1, <1>4 DEF History, Offered
  <1>18. Offered'
    <2>1. net.by \in 0 .. (attempts + 1) /\ attempts + 1 >= 1
      BY <1>4, <1>17
    <2> QED
      BY <1>1, <1>2, <1>15, <1>17, <2>1 DEF History, Offered
  <1>19. ASSUME Fair' PROVE Transfer'
    <2>1. Holder' = IF net.by = 0 THEN attempts + 1 ELSE net.by
      BY <1>2 DEF Holder
    <2>2. net.by = 0 => snd.resumers = {}
      BY <1>2, <1>11, <1>19, <2>1 DEF Fair
    <2>3. Fair /\ Transfer
      BY <1>2, <1>19, <2>1, <2>2 DEF Fair, Holder, IInv
    <2>4. net.by = 0 => Accepts = {}
      BY <1>1, <2>2 DEF History, Answered
    <2>5. Settled'
      <3>1. net'.leaked = 0 /\ \A i \in Accepts' : toRcv'[i].pos = snd'.resumed
        BY <1>2, <1>15, <2>3 DEF Transfer, Settled
      <3>2. net.by # 0 => Accepts = {} /\ \A i \in DOMAIN toSnd : toSnd[i].by # net.by
        BY <2>3 DEF Transfer, Settled, Holder
      <3>3. net.by # 0 => \A i \in DOMAIN toSnd' : toSnd'[i].by # net.by
        BY <1>7, <1>8, <1>17, <3>2
      <3>4. from = 0 => \A i \in DOMAIN toSnd' : toSnd'[i].by # attempts + 1
        BY <1>5, <1>12
      <3>5. rcv'.st \in {"connecting", "dead"} => from = 0
        BY <1>4, <1>5, <1>6
      <3> QED
        BY <1>2, <1>15, <2>1, <2>4, <3>1, <3>2, <3>3, <3>4, <3>5 DEF Settled
    <2>6. Order(snd, rcv, net, file, attempts)'
      <3> DEFINE q == rcv'
                 g == file'
      <3>1. /\ q \in RcvRec /\ q.st \in {"resume", "connecting", "dead"} /\ q.pos = from
            /\ q.sent = 0 /\ q.left = Size /\ q.resumed = 0
            /\ g \in {file, <<>>} /\ (from > 0 => q.st = "resume" /\ g = file)
        BY <1>5, <1>6, <1>9
      <3>2. from \in 0 .. Len(file) /\ file \in Seq(Int) /\ snd \in SndRec /\ rcv \in RcvRec
            /\ net \in NetRec
        BY <1>1, <1>2, <1>4, TypesOf
      <3> HIDE DEF q, g
      <3>3. Order(snd, q, net, g, attempts + 1)
        BY <1>4, <1>17, <2>2, <2>3, <3>1, <3>2, BeginOrder DEF Transfer
      <3> QED
        BY <1>2, <3>3 DEF q, g
    <2> QED
      BY <2>5, <2>6 DEF Transfer
  <1> QED
    BY <1>10, <1>14, <1>16, <1>18, <1>19 DEF IInv, History

-----------------------------------------------------------------------------
(* The file is faithful                                                    *)

LEMMA InitIInv ==
  ASSUME Init
  PROVE  IInv
  <1>1. snd = NoSend /\ rcv = NoRecv /\ net = NoNet /\ toSnd = <<>> /\ toRcv = <<>> /\ attempts = -1
    BY DEF Init
  <1>2. PICK n \in Lengths : file = [i \in 1 .. n |-> i]
    BY DEF Init
  <1>3. n \in Nat
    BY DccAssumption
  <1>4. file \in Seq(Int) /\ Faithful(file)
    BY <1>2, <1>3 DEF Faithful
  <1>5. DOMAIN toSnd = {} /\ DOMAIN toRcv = {} /\ Accepts = {} /\ Offers = {}
    BY <1>1 DEF Accepts, Offers
  <1>6. DccTypes
    BY <1>1, <1>4, NoSendType, RecvRecord, NoNetType DEF DccTypes
  <1>7. History
    BY <1>1, <1>5, NoSendType, RecvRecord, NoNetType DEF History, Asked, Answered, Offered
  <1>8. Settled
    BY <1>1, <1>5, RecvRecord, NoNetType DEF Settled
  <1>9. /\ snd.st = "none" /\ snd.resumed = 0 /\ snd.sent = 0 /\ snd.left = Size /\ snd.pos = 0
        /\ snd.buf = <<>> /\ snd.told = "nothing"
    BY <1>1 DEF NoSend
  <1>10. At(snd)
    <2>1. Blocks(0, 0) = <<>> /\ Len(<<>>) = 0
      BY NoBlocks
    <2>2. Size \in Nat
      BY DccAssumption
    <2> QED
      BY <1>9, <2>1, <2>2 DEF At
  <1>11. SenderAt(snd, net) /\ Told(snd)
    BY <1>1, <1>9, <1>10, NoNetType DEF SenderAt, Told
  <1>12. ReceiverAt(snd, rcv, net, file, attempts) /\ Joined(snd, rcv, net, attempts)
    BY <1>1, RecvRecord DEF ReceiverAt, Joined
  <1>13. Connection(snd, rcv, net, attempts)
    <2>1. NoNet.cap = 0 /\ Len(<<>>) = 0
      BY DEF NoNet
    <2> QED
      BY <1>1, <1>9, <2>1, RecvRecord, NoNetType DEF Connection
  <1> QED
    BY <1>4, <1>6, <1>7, <1>8, <1>11, <1>12, <1>13 DEF IInv, Transfer, Order

LEMMA NextIInv ==
  ASSUME IInv, [Next]_vars
  PROVE  IInv'
  <1>1. CASE Sender
    BY <1>1, StartSend, GotResume, ListenTimeout, NewClient, SendConnect, SendWritten, SendRead,
       SendEof, SendKilled DEF Sender
  <1>2. CASE Receiver
    BY <1>2, GotSend, GotAccept, RecvStops, RecvConnect, RecvRead, AcceptSend DEF Receiver
  <1>3. CASE Connects \/ Reset \/ Lose
    BY <1>3, ConnectsStep, ResetStep, LoseStep
  <1>4. CASE UNCHANGED vars
    BY <1>4 DEF vars, IInv, DccTypes, History, Asked, Answered, Offered, Offers, Accepts, Holder,
                Fair, Transfer, Settled
  <1> QED
    BY <1>1, <1>2, <1>3, <1>4 DEF Next

LEMMA IInvIsFaithful ==
  ASSUME IInv
  PROVE  FileFaithful
  <1> SUFFICES ASSUME OwnResume
               PROVE  /\ \A i \in DOMAIN file : file[i] = i
                      /\ snd.st = "up" /\ rcv.st = "up" /\ net.by = attempts /\ net.sopen = 1
                         /\ net.ropen = 1 =>
                           /\ snd.sent = rcv.sent + Len(net.data)
                           /\ snd.resumed = rcv.resumed
                           /\ snd.sent + snd.left + snd.resumed = Size
                           /\ rcv.sent + rcv.left + rcv.resumed = Size
                           /\ rcv.pos = rcv.resumed + rcv.sent
                           /\ \A i \in DOMAIN net.acks : net.acks[i] <= snd.sent
                      /\ snd.told = "Success" => snd.sent + snd.resumed = Size
    BY DEF FileFaithful
  <1>1. Transfer
    <2>1. 0 \notin snd.resumers
      BY DEF IInv, History, Asked
    <2> QED
      BY <2>1 DEF IInv, Fair, OwnResume, Holder
  <1> QED
    BY <1>1 DEF Transfer, Order, Faithful, Told, Joined, Agree, Live, SenderAt, At, ReceiverAt, Counts

\* Whatever is lost, times out, breaks or is killed: the receiver's file is a
\* beginning of the sender's, both ends count alike while both are there, and
\* dcc_send_done reports success only when the whole file was handed over.
THEOREM FileIsFaithful == Spec => []FileFaithful
  <1>1. Init => IInv
    BY InitIInv
  <1>2. IInv /\ [Next]_vars => IInv'
    BY NextIInv
  <1>3. IInv => FileFaithful
    BY IInvIsFaithful
  <1> QED
    BY <1>1, <1>2, <1>3, PTL DEF Spec
=============================================================================
