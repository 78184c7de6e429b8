------------------------------ MODULE Sockbuf ------------------------------
(***************************************************************************)
(* The socket buffers of lib/eggdrop/sockbuf.c: the table of slots that    *)
(* the rest of the program knows by index (idx), the poll array, the       *)
(* output buffers and sockbuf_update_all, the pass over the poll array     *)
(* that reads revents and calls the event handlers.                        *)
(*                                                                         *)
(* Handlers run in the middle of the pass and may create, connect, write   *)
(* to, close and delete any sockbuf, the one being served included, so the *)
(* arrays shift and grow under the loop.  They also run in the middle of a *)
(* deletion, from the on_delete callbacks, and may begin further ones.     *)
(* Filters are part of "the handler" here.  The kernel is an actor of its  *)
(* own.  Data is a stream of numbered bytes per socket.                    *)
(***************************************************************************)
EXTENDS Integers, Sequences, FiniteSets, SequencesExt

CONSTANTS
  NSlots,      \* bound: slots 0 .. NSlots-1 (the code grows the table by five)
  Socks,       \* kernel sockets, each used for one connection
  MaxSent,     \* bound: bytes written to one socket
  MaxWrite,    \* bound: bytes in one sockbuf_write
  Garbage,     \* what revents can hold in a poll entry that was just appended
  Interrupts,  \* TRUE: a signal may interrupt poll
  None

Events == {"out", "in", "err"}

ASSUME BoundsAssumption == NSlots \in Nat \ {0} /\ MaxSent \in Nat /\ MaxWrite \in Nat
ASSUME GarbageAssumption == Garbage # {} /\ Garbage \subseteq SUBSET Events
ASSUME InterruptsAssumption == Interrupts \in BOOLEAN
ASSUME NoneAssumption == None \notin Socks

Slots == 0 .. NSlots - 1

VARIABLES
  slot,      \* sockbufs[]: flags, socket and output buffer of every idx
  poll,      \* pollfds and idx_array, entry by entry
  ndeleted,  \* ndeleted_sockbufs
  deleting,  \* calls of sockbuf_delete whose callbacks run, innermost last
  phase,     \* "idle", "pass", "entry" or "handler"
  i, n,      \* the loop variables of sockbuf_update_all
  cur,       \* the entry being served: idx, revents left to look at, flags
  ksock,     \* kernel: the state of every socket
  unread,    \* kernel: 1 if a read (or accept) would not block
  wire,      \* history: the bytes the kernel took, in order
  sent       \* history: how many bytes were accepted for a socket

loopVars == <<phase, i, n, cur>>
kernel == <<ksock, unread>>
vars == <<slot, poll, ndeleted, deleting, phase, i, n, cur, ksock, unread, wire, sent>>

FreeSlot == [flag |-> "avail", sock |-> None, connecting |-> FALSE, server |-> FALSE,
             block |-> FALSE, data |-> <<>>]

\* sockbuf_isvalid
Valid(idx) == slot[idx].flag = "valid"

\* Polled with POLLIN always; out says whether POLLOUT is in events.
PollEntry(idx, s, out, revents) ==
  [idx |-> idx, sock |-> s, out |-> out, revents |-> revents, polled |-> FALSE]

\* The poll array with idx's events changed, as sockbuf_block/unblock do.
WithOut(p, idx, out) ==
  [k \in DOMAIN p |-> IF p[k].idx = idx THEN [p[k] EXCEPT !.out = out] ELSE p[k]]

\* The poll array without idx's entry: those behind it move up.
Without(p, idx) ==
  LET first(k) == p[k].idx = idx /\ \A j \in 1 .. k - 1 : p[j].idx # idx
  IN  IF \A k \in DOMAIN p : p[k].idx # idx THEN p
      ELSE RemoveAt(p, CHOOSE k \in DOMAIN p : first(k))

-----------------------------------------------------------------------------
(* Operations of the interface, callable when code outside runs.           *)

Init ==
  /\ slot = [x \in Slots |-> FreeSlot]
  /\ poll = <<>>
  /\ ndeleted = 0
  /\ deleting = <<>>
  /\ phase = "idle" /\ i = 0 /\ n = 0 /\ cur = None
  /\ ksock = [s \in Socks |-> "unused"]
  /\ unread = [s \in Socks |-> 0]
  /\ wire = [s \in Socks |-> <<>>]
  /\ sent = [s \in Socks |-> 0]

ClientRuns == phase \in {"idle", "handler"}

\* sockbuf_new hands out the first available slot.
FirstAvail(idx) ==
  /\ slot[idx].flag = "avail"
  /\ \A x \in Slots : x < idx => slot[x].flag # "avail"

\* Callers only give a socket to a sockbuf that never had one; SOCKBUF_BLOCK is
\* set by sockbuf_new and cleared with the first socket.
Fresh(idx) == Valid(idx) /\ slot[idx].sock = None /\ slot[idx].block

NewSlot == [FreeSlot EXCEPT !.flag = "valid", !.block = TRUE]

sockbuf_new ==
  /\ ClientRuns
  /\ \E idx \in Slots : FirstAvail(idx) /\ slot' = [slot EXCEPT ![idx] = NewSlot]
  /\ UNCHANGED <<poll, ndeleted, deleting, loopVars, kernel, wire, sent>>

\* sockbuf_set_sock with a socket: sets the flags and appends a poll entry
\* whose revents nobody initialises.
SetSock(idx, s, connecting, server) ==
  /\ slot' = [slot EXCEPT ![idx].sock = s, ![idx].connecting = connecting,
                          ![idx].server = server, ![idx].block = FALSE]
  /\ \E g \in Garbage : poll' = Append(poll, PollEntry(idx, s, connecting, g))

\* egg_client and egg_server put a new socket into a fresh sockbuf.
Connect(idx, s) ==
  /\ ClientRuns
  /\ Fresh(idx)
  /\ ksock[s] = "unused"
  /\ \E server \in BOOLEAN :
       /\ SetSock(idx, s, ~ server, server)
       /\ ksock' = [ksock EXCEPT ![s] = IF server THEN "listen" ELSE "connecting"]
  /\ UNCHANGED <<ndeleted, deleting, loopVars, unread, wire, sent>>

\* The proxies and DCC chat move a socket from their own sockbuf to the user's
\* and drop theirs.
MoveSock(from, to) ==
  LET s == slot[from].sock
      moved == [slot[to] EXCEPT !.sock = s, !.connecting = FALSE, !.block = FALSE]
  IN  /\ ClientRuns
      /\ from # to /\ Valid(from) /\ Fresh(to)
      /\ s # None /\ ~ slot[from].server /\ ~ slot[from].connecting
      /\ slot[from].data = <<>>
      /\ slot' = [slot EXCEPT ![from].sock = None, ![from].block = FALSE, ![to] = moved]
      /\ \E g \in Garbage : poll' = Append(Without(poll, from), PollEntry(to, s, FALSE, g))
      /\ UNCHANGED <<ndeleted, deleting, loopVars, kernel, wire, sent>>

\* sockbuf_close: the descriptor is closed and the entry leaves the poll array.
CloseSlot(idx) == [slot[idx] EXCEPT !.sock = None, !.connecting = FALSE,
                                    !.server = FALSE, !.block = FALSE]

ClosedKernel(s) == IF s = None THEN ksock ELSE [ksock EXCEPT ![s] = "closed"]

\* What sockbuf_got_eof does before it calls on_eof.
CloseNow(idx) ==
  /\ slot' = IF Valid(idx) THEN [slot EXCEPT ![idx] = CloseSlot(idx)] ELSE slot
  /\ poll' = IF Valid(idx) THEN Without(poll, idx) ELSE poll
  /\ ksock' = IF Valid(idx) THEN ClosedKernel(slot[idx].sock) ELSE ksock

sockbuf_close(idx) ==
  /\ ClientRuns
  /\ Valid(idx) /\ slot[idx].sock # None
  /\ CloseNow(idx)
  /\ UNCHANGED <<ndeleted, deleting, loopVars, unread, wire, sent>>

\* sockbuf_delete: the slot is invalid from here on; its socket and its poll
\* entry stay while the on_delete callbacks of filters and owner run.
sockbuf_delete(idx) ==
  /\ ClientRuns
  /\ Valid(idx)
  /\ slot' = [slot EXCEPT ![idx].flag = "deleted"]
  /\ deleting' = Append(deleting, idx)
  /\ UNCHANGED <<poll, ndeleted, loopVars, kernel, wire, sent>>

\* Mutant: a deleted slot can be handed out again at once.
BugAvailAtOnce(idx) ==
  /\ deleting # <<>> /\ idx = Last(deleting)
  /\ deleting' = Front(deleting)
  /\ slot' = [slot EXCEPT ![idx] = FreeSlot]
  /\ poll' = Without(poll, idx)
  /\ ksock' = ClosedKernel(slot[idx].sock)
  /\ UNCHANGED <<ndeleted, loopVars, unread, wire, sent>>

\* Mutant: the poll entry stays behind.
BugEntryStays(idx) ==
  /\ deleting # <<>> /\ idx = Last(deleting)
  /\ deleting' = Front(deleting)
  /\ slot' = [slot EXCEPT ![idx] = [FreeSlot EXCEPT !.flag = "deleted"]]
  /\ ndeleted' = ndeleted + 1
  /\ ksock' = ClosedKernel(slot[idx].sock)
  /\ UNCHANGED <<poll, loopVars, unread, wire, sent>>

\* The callbacks have returned: everything is freed.  The slot is not available
\* before the end of the pass.
DeleteEnds(idx) ==
  /\ deleting # <<>> /\ idx = Last(deleting)
  /\ deleting' = Front(deleting)
  /\ slot' = [slot EXCEPT ![idx] = [FreeSlot EXCEPT !.flag = "deleted"]]
  /\ poll' = Without(poll, idx)
  /\ ndeleted' = ndeleted + 1
  /\ ksock' = ClosedKernel(slot[idx].sock)
  /\ UNCHANGED <<loopVars, unread, wire, sent>>

\* The next len bytes of a stream of which count were accepted.
Bytes(count, len) == [k \in 1 .. len |-> count + k]

\* How many bytes the kernel may take of a write: none while connecting or
\* when its buffer is full (EAGAIN).
Taken(s, len) == IF ksock[s] \in {"open", "fin"} THEN 0 .. len ELSE {0}

\* Mutant: a blocked socket is written to all the same.
BugIgnoresBlock(idx, len) ==
  LET s == slot[idx].sock
      bytes == Bytes(sent[s], len)
  IN  \E k \in Taken(s, len) :
        LET rest == SubSeq(bytes, k + 1, len)
            full == slot[idx].block \/ k < len
        IN  /\ wire' = [wire EXCEPT ![s] = @ \o SubSeq(bytes, 1, k)]
            /\ slot' = [slot EXCEPT ![idx].data = @ \o rest, ![idx].block = full]
            /\ poll' = IF full THEN WithOut(poll, idx, TRUE) ELSE poll
            /\ UNCHANGED ksock

\* sockbuf_real_write on a socket without error: what is not taken is kept
\* behind what is kept already, and POLLOUT is asked for.
RealWrite(idx, len) ==
  LET s == slot[idx].sock
      bytes == Bytes(sent[s], len)
  IN  \E k \in IF slot[idx].block THEN {0} ELSE Taken(s, len) :
        LET rest == SubSeq(bytes, k + 1, len)
            full == slot[idx].block \/ k < len
        IN  /\ wire' = [wire EXCEPT ![s] = @ \o SubSeq(bytes, 1, k)]
            /\ slot' = [slot EXCEPT ![idx].data = @ \o rest, ![idx].block = full]
            /\ poll' = IF full THEN WithOut(poll, idx, TRUE) ELSE poll
            /\ UNCHANGED ksock

\* A client writes.  With no socket the data is dropped; on a dead socket the
\* sockbuf is closed and on_eof is called.
sockbuf_write(idx, len) ==
  LET s == slot[idx].sock
  IN  /\ ClientRuns
      /\ Valid(idx) /\ s # None /\ ~ slot[idx].server
      /\ sent[s] + len <= MaxSent
      /\ IF ksock[s] = "dead" /\ ~ slot[idx].block
           THEN CloseNow(idx) /\ UNCHANGED <<wire, sent>>
           ELSE RealWrite(idx, len) /\ sent' = [sent EXCEPT ![s] = @ + len]
      /\ UNCHANGED <<ndeleted, deleting, loopVars, unread>>

-----------------------------------------------------------------------------
(* sockbuf_update_all                                                      *)

\* What poll reports for an entry.
Ready(e) ==
  LET s == e.sock
      dead == ksock[s] = "dead"
  IN  {ev \in Events :
         \/ ev = "out" /\ e.out /\ ksock[s] \in {"open", "fin", "dead"}
         \/ ev = "in" /\ (unread[s] = 1 \/ ksock[s] \in {"fin", "dead"})
         \/ ev = "err" /\ dead}

\* poll returns with the sockets that are ready.
Poll ==
  /\ phase = "idle" /\ deleting = <<>>
  /\ poll' = [k \in DOMAIN poll |-> [poll[k] EXCEPT !.revents = Ready(poll[k]), !.polled = TRUE]]
  /\ n' = Cardinality({k \in DOMAIN poll : Ready(poll[k]) # {}})
  /\ i' = 1
  /\ phase' = "pass"
  /\ UNCHANGED <<slot, ndeleted, deleting, cur, kernel, wire, sent>>

\* A signal handler ran: poll fails, revents is what the last pass left there.
PollInterrupted ==
  /\ Interrupts
  /\ phase = "idle" /\ deleting = <<>>
  /\ poll' = [k \in DOMAIN poll |-> [poll[k] EXCEPT !.polled = FALSE]]
  /\ n' = Len(poll)
  /\ i' = 1
  /\ phase' = "pass"
  /\ UNCHANGED <<slot, ndeleted, deleting, cur, kernel, wire, sent>>

\* Mutant: the loop ends one entry early.
BugSkipsLast(k) ==
  /\ k \in i .. Len(poll) - 1
  /\ poll[k].revents # {}
  /\ \A j \in i .. k - 1 : poll[j].revents = {}

\* The first entry from i on that has revents.
NextActive(k) ==
  /\ k \in i .. Len(poll)
  /\ poll[k].revents # {}
  /\ \A j \in i .. k - 1 : poll[j].revents = {}

\* The loop reaches an entry; flags are read once, before any handler runs.
ServeEntry ==
  /\ phase = "pass"
  /\ n # 0
  /\ \E k \in DOMAIN poll :
       /\ NextActive(k)
       /\ i' = k
       /\ cur' = [idx |-> poll[k].idx, sock |-> poll[k].sock,
                  revents |-> poll[k].revents, polled |-> poll[k].polled,
                  connecting |-> slot[poll[k].idx].connecting,
                  server |-> slot[poll[k].idx].server]
  /\ phase' = "entry"
  /\ UNCHANGED <<slot, poll, ndeleted, deleting, n, kernel, wire, sent>>

\* POLLOUT is looked at first, then POLLIN, then the errors.
Looking(ev) ==
  /\ phase = "entry"
  /\ ev \in cur.revents
  /\ ev = "in" => "out" \notin cur.revents
  /\ ev = "err" => cur.revents = {"err"}
  /\ cur' = [cur EXCEPT !.revents = @ \ {ev}]
  /\ UNCHANGED <<i, n>>

Here == slot[cur.idx]

\* sockbuf_got_eof: close, then on_eof.
GotEof ==
  /\ CloseNow(cur.idx)
  /\ phase' = IF Valid(cur.idx) THEN "handler" ELSE "entry"
  /\ UNCHANGED <<ndeleted, deleting, unread, wire, sent>>

\* sockbuf_got_writable_client
GotWritableClient ==
  /\ Looking("out")
  /\ cur.connecting
  /\ \/ ksock[Here.sock] = "dead" /\ GotEof
     \/ /\ ksock[Here.sock] # "dead"
        /\ slot' = [slot EXCEPT ![cur.idx].connecting = FALSE,
                                ![cur.idx].block = IF Here.data = <<>> THEN FALSE ELSE @]
        /\ poll' = IF Here.data = <<>> THEN WithOut(poll, cur.idx, FALSE) ELSE poll
        /\ phase' = "handler"
        /\ UNCHANGED <<ndeleted, deleting, kernel, wire, sent>>

\* sockbuf_got_writable: writes from the front of the output buffer.  A write
\* that fails, EAGAIN included, is an eof.
GotWritable ==
  /\ Looking("out")
  /\ ~ cur.connecting
  /\ \/ ksock[Here.sock] = "dead" /\ GotEof
     \/ ksock[Here.sock] # "dead" /\ Here.data # <<>> /\ GotEof
     \/ /\ ksock[Here.sock] # "dead"
        /\ \E k \in 0 .. Len(Here.data) :
             /\ k = 0 => Here.data = <<>>
             /\ LET rest == SubSeq(Here.data, k + 1, Len(Here.data))
                    done == k > 0 /\ rest = <<>>
                IN  /\ wire' = [wire EXCEPT ![Here.sock] = @ \o SubSeq(Here.data, 1, k)]
                    /\ slot' = [slot EXCEPT ![cur.idx].data = rest,
                                            ![cur.idx].block = IF done THEN FALSE ELSE @]
                    /\ poll' = IF done THEN WithOut(poll, cur.idx, FALSE) ELSE poll
                    /\ phase' = IF k > 0 THEN "handler" ELSE "entry"
        /\ UNCHANGED <<ndeleted, deleting, kernel, sent>>

\* sockbuf_got_readable: anything but data, EAGAIN included, is an eof.
GotReadable ==
  /\ Looking("in")
  /\ ~ cur.server
  /\ \/ /\ Here.sock = None
        /\ phase' = "entry"
        /\ UNCHANGED <<slot, poll, ndeleted, deleting, kernel, wire, sent>>
     \/ /\ Here.sock # None
        /\ unread[Here.sock] = 1
        /\ unread' = [unread EXCEPT ![Here.sock] = 0]
        /\ phase' = "handler"
        /\ UNCHANGED <<slot, poll, ndeleted, deleting, ksock, wire, sent>>
     \/ /\ Here.sock # None
        /\ unread[Here.sock] = 0
        /\ GotEof

\* sockbuf_got_readable_server: accept may find nothing or fail.
GotReadableServer ==
  /\ Looking("in")
  /\ cur.server
  /\ \/ /\ phase' = "entry"
        /\ UNCHANGED <<slot, poll, ndeleted, deleting, kernel, wire, sent>>
     \/ /\ Here.sock # None
        /\ unread[Here.sock] = 1
        /\ \E newidx \in Slots, s \in Socks :
             /\ FirstAvail(newidx)
             /\ ksock[s] = "unused"
             /\ slot' = [slot EXCEPT ![newidx] = [NewSlot EXCEPT !.sock = s, !.block = FALSE]]
             /\ \E g \in Garbage : poll' = Append(poll, PollEntry(newidx, s, FALSE, g))
             /\ ksock' = [ksock EXCEPT ![s] = "open"]
        /\ unread' = [unread EXCEPT ![Here.sock] = 0]
        /\ phase' = "handler"
        /\ UNCHANGED <<ndeleted, deleting, wire, sent>>

\* The error bits: another sockbuf_got_eof, also after one for POLLIN; on a
\* deleted sockbuf it does nothing.
GotError == Looking("err") /\ GotEof

HandlerReturns ==
  /\ phase = "handler" /\ deleting = <<>>
  /\ phase' = "entry"
  /\ UNCHANGED <<slot, poll, ndeleted, deleting, i, n, cur, kernel, wire, sent>>

EntryDone ==
  /\ phase = "entry"
  /\ cur.revents = {}
  /\ n' = n - 1
  /\ i' = i + 1
  /\ cur' = None
  /\ phase' = "pass"
  /\ UNCHANGED <<slot, poll, ndeleted, deleting, kernel, wire, sent>>

\* The end of the pass: deleted slots become available.
PassDone ==
  /\ phase = "pass"
  /\ n = 0 \/ \A k \in DOMAIN poll : ~ NextActive(k)
  /\ slot' = IF ndeleted = 0 THEN slot
             ELSE [x \in Slots |-> IF slot[x].flag = "deleted" THEN FreeSlot ELSE slot[x]]
  /\ ndeleted' = 0
  /\ phase' = "idle"
  /\ i' = 0 /\ n' = 0
  /\ UNCHANGED <<poll, deleting, cur, kernel, wire, sent>>

-----------------------------------------------------------------------------
(* The kernel and the peers.                                               *)

KernelStep(s) ==
  /\ \/ /\ ksock[s] = "connecting"
        /\ \E r \in {"open", "dead"} : ksock' = [ksock EXCEPT ![s] = r]
        /\ UNCHANGED unread
     \/ /\ ksock[s] = "open"
        /\ \E r \in {"fin", "dead"} : ksock' = [ksock EXCEPT ![s] = r]
        /\ UNCHANGED unread
     \/ /\ ksock[s] \in {"open", "listen"}
        /\ unread[s] = 0
        /\ unread' = [unread EXCEPT ![s] = 1]
        /\ UNCHANGED ksock
  /\ UNCHANGED <<slot, poll, ndeleted, deleting, loopVars, wire, sent>>

Client ==
  \/ sockbuf_new
  \/ \E x \in Slots, s \in Socks : Connect(x, s)
  \/ \E x, y \in Slots : MoveSock(x, y)
  \/ \E x \in Slots : sockbuf_close(x) \/ sockbuf_delete(x) \/ DeleteEnds(x)
  \/ \E x \in Slots, len \in 1 .. MaxWrite : sockbuf_write(x, len)

Serve == \/ GotWritableClient \/ GotWritable \/ GotReadable \/ GotReadableServer \/ GotError

Next ==
  \/ Client
  \/ Poll \/ PollInterrupted \/ ServeEntry \/ Serve
  \/ HandlerReturns \/ EntryDone \/ PassDone
  \/ \E s \in Socks : KernelStep(s)

\* The main loop calls sockbuf_update_all again and again, signals do not
\* interrupt every poll, handlers and callbacks return.
Fairness == /\ SF_vars(Poll) /\ WF_vars(ServeEntry) /\ WF_vars(Serve)
            /\ WF_vars(HandlerReturns) /\ WF_vars(EntryDone) /\ WF_vars(PassDone)
            /\ \A x \in Slots : WF_vars(DeleteEnds(x))

Spec == Init /\ [][Next]_vars

FairSpec == Spec /\ Fairness

-----------------------------------------------------------------------------

TypeOK ==
  /\ slot \in [Slots -> [flag : {"avail", "valid", "deleted"}, sock : Socks \cup {None},
                         connecting : BOOLEAN, server : BOOLEAN, block : BOOLEAN,
                         data : Seq(1 .. MaxSent)]]
  /\ \A k \in DOMAIN poll : poll[k].idx \in Slots /\ poll[k].sock \in Socks
  /\ deleting \in Seq(Slots)
  /\ phase \in {"idle", "pass", "entry", "handler"}
  /\ n \in 0 .. NSlots
  /\ ksock \in [Socks -> {"unused", "listen", "connecting", "open", "fin", "dead", "closed"}]

\* The poll array and the slots tell the same story however handlers shift and
\* grow it: one entry for every open sockbuf, with its socket, and no other; only
\* while the callbacks of a deletion run is there an entry for an invalid one.
\* No deleted slot is forgotten: "If ndeleted_sockbufs isn't 0, then we somehow
\* lost track of an idx. That can't happen" (sockbuf.c:844).
SlotsPolled ==
  /\ \A k \in DOMAIN poll :
       /\ slot[poll[k].idx].sock = poll[k].sock
       /\ Valid(poll[k].idx) \/ \E d \in DOMAIN deleting : deleting[d] = poll[k].idx
  /\ \A j, k \in DOMAIN poll : poll[j].idx = poll[k].idx => j = k
  /\ \A x \in Slots : slot[x].sock # None => \E k \in DOMAIN poll : poll[k].idx = x
  /\ ndeleted + Len(deleting) = Cardinality({x \in Slots : slot[x].flag = "deleted"})

\* POLLOUT is asked for exactly while a connection is pending or output is
\* buffered: never forgotten (stuck output) and never left on (a busy loop).
PolloutIffPending ==
  \A k \in DOMAIN poll :
    LET b == slot[poll[k].idx]
    IN  poll[k].out <=> (b.connecting \/ b.data # <<>>)

\* What poll is asked is what the sockbufs need.
PollMatchesSlots == SlotsPolled /\ PolloutIffPending

\* The bytes a peer gets are the bytes written, in order, each once: what the
\* kernel took followed by the output buffer is everything that was accepted.
InOrder ==
  /\ \A x \in Slots : LET s == slot[x].sock
                      IN  s # None => wire[s] \o slot[x].data = Bytes(0, sent[s])
  /\ \A s \in Socks : IsPrefix(wire[s], Bytes(0, sent[s]))

\* What is left of an entry's events after a handler ran is never applied to
\* another connection that got the same idx.
OwnEvents == phase \in {"entry", "handler"} => slot[cur.idx].sock \in {cur.sock, None}

\* The pass itself, not a client, ends the connection of a socket that works.
EndsLive == \E s \in Socks : phase = "entry" /\ ksock[s] = "open" /\ ksock'[s] = "closed"

\* "sockbuf_update_all() might trigger invalid events for it" (sockbuf.h:33) is
\* what the deleted state is there to exclude: events are never applied to
\* another connection, and a connection that works is only ended when a write to
\* it fails, or when no poll of this pass filled in what its entry holds: after a
\* signal, or for an entry appended during the pass.
NoInvalidEvents ==
  [][OwnEvents' /\ (EndsLive => "out" \in cur.revents \/ ~ cur.polled)]_vars

\* "That's ok, because we'll pick up those events next time." (sockbuf.c:812):
\* data that is there to be read is read, or the connection goes, although a
\* deletion makes the loop skip an entry.
EventsPickedUp ==
  \A s \in Socks :
    (unread[s] = 1 /\ ksock[s] = "open") ~> (unread[s] = 0 \/ ksock[s] # "open")

=============================================================================
