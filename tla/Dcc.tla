-------------------------------- MODULE Dcc --------------------------------
(***************************************************************************)
(* A file sent from one bot to another, both running modules/server/dcc.c. *)
(*                                                                         *)
(* The sender listens and offers the file by a private message through the *)
(* IRC network; the receiver connects at once, or asks by RESUME to begin  *)
(* later in the file and connects when ACCEPT comes.  Messages may be slow *)
(* or lost and both ends give up by timers of their own, so a RESUME may   *)
(* belong to an attempt that was given up.  The file goes over a TCP       *)
(* connection of bounded capacity through the sender's sockbuf; the        *)
(* receiver answers what it read with the number of bytes it has.          *)
(*                                                                         *)
(* The file is 1 .. Size, one number for a block of bytes.                 *)
(***************************************************************************)
EXTENDS Integers, Sequences, SequencesExt, FiniteSetsExt

CONSTANTS
  Size,       \* length of the file
  Chunk,      \* what dcc_send_bytes and a read of a sockbuf take at a time
  Capacities, \* what a connection may hold
  Lengths,    \* how much of the file the receiver may have at first
  Resumes,    \* what scripts pass to dcc_accept_send as resume
  Timeouts,   \* whether they ask for a timeout: 0 or 1
  MaxAttempts \* bound: calls of dcc_accept_send

ASSUME DccAssumption ==
  /\ Size \in Nat \ {0} /\ Chunk \in Nat \ {0} /\ Capacities \subseteq Nat \ {0}
  /\ Lengths \subseteq 0 .. Size /\ Resumes \subseteq -1 .. Size
  /\ Timeouts \subseteq {0, 1} /\ MaxAttempts \in Nat

VARIABLES
  snd,      \* the sender's dcc_send_t, its listener and its sockbuf
  rcv,      \* the receiver's dcc_send_t and its sockbuf
  file,     \* what the receiver has on disk
  net,      \* the connection
  toSnd,    \* private messages on their way
  toRcv,
  attempts  \* calls of dcc_accept_send so far, -1 before there is an offer
vars == <<snd, rcv, file, net, toSnd, toRcv, attempts>>

\* st: "listen", "accepted" until on_connect, "up" and "ended"; buf: output of
\* the sockbuf that is blocked; resumers: attempts whose RESUME was followed;
\* told: what the user's handler heard last.
NoSend == [st |-> "none", timer |-> 0, pos |-> 0, sent |-> 0, left |-> Size, acked |-> 0,
           resumed |-> 0, buf |-> <<>>, resumers |-> {}, told |-> "nothing"]
\* st: "resume" until ACCEPT, "connecting", "dead" when connecting failed before
\* the filter was attached, "queued" behind an earlier connection, and "up".
NoRecv == [st |-> "none", timer |-> 0, pos |-> 0, sent |-> 0, left |-> Size, resumed |-> 0]
\* by: the attempt that made it, 0 when there is none; cap: what it holds; sopen
\* and ropen: its ends; leaked: the receiver's end was replaced in its sockbuf
\* and is not read.
NoNet == [by |-> 0, cap |-> 0, data |-> <<>>, acks |-> <<>>, sopen |-> 0, ropen |-> 0, leaked |-> 0]

Init ==
  /\ snd = NoSend /\ rcv = NoRecv /\ net = NoNet
  /\ \E n \in Lengths : file = [i \in 1 .. n |-> i]
  /\ toSnd = <<>> /\ toRcv = <<>> /\ attempts = -1

NewNet(k) == [NoNet EXCEPT !.by = attempts, !.cap = k, !.sopen = 1, !.ropen = 1]

Sending == snd.st \in {"listen", "accepted", "up"}
Low(a, b) == IF a < b THEN a ELSE b

-----------------------------------------------------------------------------
\* The sender.

\* dcc_listen, with a timer if the caller or the configuration wants one.
dcc_listen(timeout) == [NoSend EXCEPT !.st = "listen", !.timer = timeout]
dcc_listen_delete(s) == [s EXCEPT !.timer = 0]

\* The sockbuf of the send is deleted, and with it the listener.
dcc_send_delete(s, told) ==
  [dcc_listen_delete(s) EXCEPT !.st = "ended", !.buf = <<>>, !.told = told]
SenderCloses(c) == [c EXCEPT !.sopen = 0, !.acks = <<>>]

dcc_start_send ==
  /\ snd.st = "none"
  /\ \E t \in Timeouts : snd' = dcc_listen(t)
  /\ toRcv' = Append(toRcv, [t |-> "send", pos |-> 0, by |-> 0])
  /\ UNCHANGED <<rcv, file, net, toSnd, attempts>>

\* got_resume; another RESUME is followed as well, whatever the state.
got_resume ==
  /\ toSnd # <<>> /\ toSnd' = Tail(toSnd)
  /\ LET m == Head(toSnd)
     IN  IF Sending
           THEN /\ snd' = [snd EXCEPT !.pos = m.pos, !.left = @ - m.pos, !.resumed = m.pos,
                                      !.resumers = @ \cup {m.by}]
                /\ toRcv' = Append(toRcv, [t |-> "accept", pos |-> m.pos, by |-> m.by])
           ELSE UNCHANGED <<snd, toRcv>>
  /\ UNCHANGED <<rcv, file, net, attempts>>

\* dcc_listen_timeout: whoever is connecting is turned away.
dcc_listen_timeout ==
  /\ snd.st = "listen" /\ snd.timer = 1
  /\ snd' = dcc_send_delete(snd, "timeout") /\ net' = SenderCloses(net)
  /\ UNCHANGED <<rcv, file, toSnd, toRcv, attempts>>

\* dcc_listen_newclient: the listener gives its socket to the waiting sockbuf.
dcc_listen_newclient ==
  /\ snd.st = "listen" /\ net.by # 0
  /\ snd' = [dcc_listen_delete(snd) EXCEPT !.st = "accepted"]
  /\ UNCHANGED <<rcv, file, net, toSnd, toRcv, attempts>>

\* What n blocks of the file from pos on are.
Blocks(pos, n) == [i \in 1 .. n |-> pos + i]

\* A write by the kernel; nobody reads what is sent to a closed end.
Push(c, blocks) == IF c.ropen = 1 THEN [c EXCEPT !.data = @ \o blocks] ELSE c

\* Mutant: the rest of a chunk that did not fit is read again later, when
\* nothing waits in the sockbuf and so nothing asks for more.
BugRereadsRest(s, c) ==
  LET n == Low(Size - s.pos, c.cap - Len(c.data))
  IN  [s |-> [s EXCEPT !.pos = @ + n, !.sent = @ + n, !.left = @ - n],
       c |-> Push(c, Blocks(s.pos, n)), eof |-> s.pos + n = Size]

\* dcc_send_bytes: chunks are written until one does not fit, and what is left
\* of that one waits in the sockbuf.  While the sockbuf is blocked one more
\* chunk is put behind what waits.
dcc_send_bytes(s, c) ==
  LET avail == Size - s.pos
      room == IF s.buf = <<>> THEN c.cap - Len(c.data) ELSE 0
      wrote == Low(avail, room)
      took == IF avail <= room THEN avail ELSE Low(avail, (room \div Chunk + 1) * Chunk)
  IN  [s |-> [s EXCEPT !.pos = @ + took, !.sent = @ + wrote, !.left = @ - wrote,
                       !.buf = @ \o Blocks(s.pos + wrote, took - wrote)],
       c |-> Push(c, Blocks(s.pos, wrote)),
       eof |-> avail <= room]

\* A step of the sender that may end with dcc_send_done; a write to an end that
\* is closed may fail, which deletes the sockbuf.
Sends(r, done) ==
  \/ /\ ~ done /\ snd' = r.s /\ net' = r.c
  \/ /\ done /\ snd' = dcc_send_delete(r.s, "Success") /\ net' = SenderCloses(r.c)
  \/ /\ net.ropen = 0 /\ snd' = dcc_send_delete(snd, "eof") /\ net' = SenderCloses(net)

\* dcc_send_connect.
dcc_send_connect ==
  /\ snd.st = "accepted"
  /\ LET r == dcc_send_bytes([snd EXCEPT !.st = "up"], net) IN Sends(r, r.eof)
  /\ UNCHANGED <<rcv, file, toSnd, toRcv, attempts>>

\* Mutant: done when the file has been read to its end.
BugDoneAtEof(s, eof) == eof
\* When dcc_send_written ends the transfer.
SendComplete(s, eof) == eof /\ s.left <= 0 /\ s.acked >= s.sent

\* sockbuf_got_writable and dcc_send_written.
dcc_send_written ==
  LET n == Low(Len(snd.buf), net.cap - Len(net.data))
      s == [snd EXCEPT !.buf = SubSeq(@, n + 1, Len(@)), !.sent = @ + n, !.left = @ - n]
      r == dcc_send_bytes(s, Push(net, SubSeq(snd.buf, 1, n)))
  IN  /\ snd.st = "up" /\ snd.buf # <<>> /\ n > 0
      /\ Sends(r, SendComplete(r.s, r.eof))
      /\ UNCHANGED <<rcv, file, toSnd, toRcv, attempts>>

\* dcc_send_read: of all the answers read at once the first counts.
dcc_send_read ==
  /\ snd.st = "up"
  /\ \E n \in DOMAIN net.acks : net' = [net EXCEPT !.acks = SubSeq(@, n + 1, Len(@))]
  /\ snd' = [snd EXCEPT !.acked = Head(net.acks)]
  /\ UNCHANGED <<rcv, file, toSnd, toRcv, attempts>>

\* dcc_send_eof: the connection was closed, or broke.
dcc_send_eof ==
  /\ snd.st \in {"accepted", "up"} /\ net.ropen = 0 /\ net.acks = <<>>
  /\ snd' = dcc_send_delete(snd, "eof") /\ net' = SenderCloses(net)
  /\ UNCHANGED <<rcv, file, toSnd, toRcv, attempts>>

\* A script or an unload deletes the idx of the send.
KillSend ==
  /\ Sending
  /\ snd' = dcc_send_delete(snd, "nothing") /\ net' = SenderCloses(net)
  /\ UNCHANGED <<rcv, file, toSnd, toRcv, attempts>>

-----------------------------------------------------------------------------
\* The receiver.

ReceiverCloses(c) == [c EXCEPT !.ropen = IF c.leaked = 1 THEN @ ELSE 0,
                               !.data = IF c.leaked = 1 THEN @ ELSE <<>>]
\* The sockbuf of the receiver is deleted.
dcc_recv_delete == rcv' = NoRecv /\ net' = IF net.by = attempts THEN ReceiverCloses(net) ELSE net

\* got_send tells the scripts, which may call dcc_accept_send, now or later.
got_send ==
  /\ toRcv # <<>> /\ Head(toRcv).t = "send"
  /\ toRcv' = Tail(toRcv) /\ attempts' = 0
  /\ UNCHANGED <<snd, rcv, file, net, toSnd>>

\* Where dcc_accept_send begins.
Begin(resume) ==
  LET from == IF resume < 0 THEN Len(file) ELSE resume
  IN  IF from >= Size THEN 0 ELSE from

\* dcc_accept_send: by RESUME, or by connecting, which may fail at once.
dcc_accept_send(resume, timeout) ==
  LET from == Begin(resume)
      new == [NoRecv EXCEPT !.timer = timeout, !.pos = from]
  IN  /\ rcv.st = "none" /\ attempts \in 0 .. MaxAttempts - 1 /\ from <= Len(file)
      /\ attempts' = attempts + 1
      /\ \/ /\ from > 0
            /\ rcv' = [new EXCEPT !.st = "resume"]
            /\ toSnd' = Append(toSnd, [t |-> "resume", pos |-> from, by |-> attempts'])
            /\ file' = file
         \/ /\ from = 0
            /\ \E st \in {"connecting", "dead"} : rcv' = [new EXCEPT !.st = st]
            /\ file' = <<>> /\ toSnd' = toSnd
      /\ UNCHANGED <<snd, net, toRcv>>

\* got_accept: any receive from that port is moved and connected, also one that
\* has a connection, which then stays open and is not read.
got_accept ==
  /\ toRcv # <<>> /\ Head(toRcv).t = "accept"
  /\ toRcv' = Tail(toRcv)
  /\ LET m == Head(toRcv)
         mine == net.by = attempts
     IN  IF rcv.st = "none" THEN UNCHANGED <<rcv, net>>
         ELSE /\ rcv' = [rcv EXCEPT !.st = "connecting", !.pos = m.pos, !.left = @ - m.pos,
                                    !.resumed = m.pos]
              /\ \/ mine /\ net' = [net EXCEPT !.leaked = 1]
                 \/ ~ mine /\ net' = net
                 \/ /\ rcv.st = "connecting" /\ snd.st = "listen" /\ net.by = 0
                    /\ \E k \in Capacities : net' = [NewNet(k) EXCEPT !.leaked = 1]
  /\ UNCHANGED <<snd, file, toSnd, attempts>>

\* dcc_recv_timeout.
dcc_recv_timeout ==
  /\ rcv.timer = 1 /\ dcc_recv_delete
  /\ UNCHANGED <<snd, file, toSnd, toRcv, attempts>>

\* dcc_recv_connect destroys the timer.
dcc_recv_connect ==
  /\ rcv.st = "connecting"
  /\ \/ net.by = attempts /\ net.leaked = 0 /\ net.sopen = 1 /\ rcv' = [rcv EXCEPT !.st = "up", !.timer = 0]
     \/ /\ snd.st = "listen" /\ net.by # 0 /\ (net.by # attempts \/ net.leaked = 1)
        /\ rcv' = [rcv EXCEPT !.st = "queued", !.timer = 0]
  /\ UNCHANGED <<snd, file, net, toSnd, toRcv, attempts>>

\* The file with these blocks written at pos.
Written(f, pos, blocks) ==
  [i \in 1 .. Max({Len(f), pos + Len(blocks)}) |->
     IF i > pos /\ i <= pos + Len(blocks) THEN blocks[i - pos]
     ELSE IF i <= Len(f) THEN f[i] ELSE 0]

\* dcc_recv_read: to the disk first, then the answer, which may fail when the
\* sender has closed its end: the rest is then lost.
dcc_recv_read ==
  /\ rcv.st = "up" /\ net.data # <<>>
  /\ \E n \in 1 .. Low(Chunk, Len(net.data)) :
       LET c == [net EXCEPT !.data = SubSeq(@, n + 1, Len(@))]
       IN  /\ file' = Written(file, rcv.pos, SubSeq(net.data, 1, n))
           /\ \/ /\ rcv' = [rcv EXCEPT !.pos = @ + n, !.sent = @ + n, !.left = @ - n]
                 /\ net' = [c EXCEPT !.acks = IF c.sopen = 1 THEN Append(@, rcv.sent + n) ELSE @]
              \/ net.sopen = 0 /\ dcc_recv_delete
  /\ UNCHANGED <<snd, toSnd, toRcv, attempts>>

\* dcc_recv_eof: the connection is refused, closed or breaks.
dcc_recv_eof ==
  /\ \/ rcv.st = "connecting" /\ snd.st # "listen"
        /\ (net.by # attempts \/ net.leaked = 1 \/ net.sopen = 0)
     \/ rcv.st = "queued" /\ snd.st # "listen"
     \/ rcv.st = "up" /\ net.data = <<>> /\ net.sopen = 0
  /\ dcc_recv_delete
  /\ UNCHANGED <<snd, file, toSnd, toRcv, attempts>>

KillRecv ==
  /\ rcv.st # "none" /\ dcc_recv_delete
  /\ UNCHANGED <<snd, file, toSnd, toRcv, attempts>>

-----------------------------------------------------------------------------
\* The networks.

\* The receiver's connection reaches the listener.
Connects ==
  /\ rcv.st = "connecting" /\ snd.st = "listen" /\ net.by = 0
  /\ \E k \in Capacities : net' = NewNet(k)
  /\ UNCHANGED <<snd, rcv, file, toSnd, toRcv, attempts>>

\* The connection breaks.
Reset ==
  /\ net.sopen = 1 /\ net.ropen = 1
  /\ net' = [net EXCEPT !.sopen = 0, !.ropen = 0, !.data = <<>>, !.acks = <<>>]
  /\ UNCHANGED <<snd, rcv, file, toSnd, toRcv, attempts>>

\* A private message is lost.
Lose ==
  /\ \/ toSnd # <<>> /\ toSnd' = Tail(toSnd) /\ toRcv' = toRcv
     \/ toRcv # <<>> /\ toRcv' = Tail(toRcv) /\ toSnd' = toSnd
  /\ UNCHANGED <<snd, rcv, file, net, attempts>>

Sender == \/ dcc_start_send \/ got_resume \/ dcc_listen_timeout \/ dcc_listen_newclient
          \/ dcc_send_connect \/ dcc_send_written \/ dcc_send_read \/ dcc_send_eof \/ KillSend
Receiver == \/ got_send \/ got_accept \/ dcc_recv_timeout \/ dcc_recv_connect
            \/ dcc_recv_read \/ dcc_recv_eof \/ KillRecv
            \/ \E r \in Resumes, t \in Timeouts : dcc_accept_send(r, t)
Next == Sender \/ Receiver \/ Connects \/ Reset \/ Lose

\* The main loops of both bots run, and so do their timers; scripts, the IRC
\* network and the handshake of a connection promise nothing.
Fairness ==
  /\ WF_vars(dcc_listen_timeout) /\ WF_vars(dcc_listen_newclient) /\ WF_vars(dcc_send_connect)
  /\ WF_vars(dcc_send_written) /\ WF_vars(dcc_send_eof)
  /\ WF_vars(dcc_recv_timeout) /\ WF_vars(dcc_recv_connect)
  /\ WF_vars(dcc_recv_read) /\ WF_vars(dcc_recv_eof)

Spec == Init /\ [][Next]_vars /\ Fairness

-----------------------------------------------------------------------------
\* No RESUME was followed but those of the attempt that got the connection.
OwnResume == snd.resumers \subseteq {net.by}

\* Unless the sender followed a RESUME of an attempt that was given up, the
\* receiver's file is the sender's as far as it goes, what was sent is what was
\* received or is on its way, both ends count alike, and a sender that reports
\* success has handed over the whole file (dcc_send_bytes, dcc_recv_read).
FileFaithful == OwnResume =>
  /\ \A i \in DOMAIN file : file[i] = i
  /\ snd.st = "up" /\ rcv.st = "up" /\ net.by = attempts /\ net.sopen = 1 /\ net.ropen = 1 =>
       /\ snd.sent = rcv.sent + Len(net.data)
       /\ snd.resumed = rcv.resumed
       /\ snd.sent + snd.left + snd.resumed = Size
       /\ rcv.sent + rcv.left + rcv.resumed = Size
       /\ rcv.pos = rcv.resumed + rcv.sent
       /\ \A i \in DOMAIN net.acks : net.acks[i] <= snd.sent
  /\ snd.told = "Success" => snd.sent + snd.resumed = Size

\* An offer with a timeout is given up or the whole file is written to the
\* connection, and a receive with a timeout is given up or connects, whatever
\* is lost; only a connection that a late ACCEPT replaced may be left hanging.
OffersProgress ==
  /\ snd.st = "listen" /\ snd.timer = 1 ~>
       snd.st = "ended" \/ (snd.st = "up" /\ snd.pos = Size /\ snd.buf = <<>>) \/ net.leaked = 1
  /\ rcv.timer = 1 ~> rcv.timer = 0
=============================================================================
