-------------------------------- MODULE Net --------------------------------
(***************************************************************************)
(* lib/eggdrop/net.c on top of Dns: outgoing connections.  egg_connect     *)
(* makes an idx, attaches a connect_info to it as a filter, starts the     *)
(* connect timer and looks the host up; lookup, timer, socket and the      *)
(* caller, who may delete the idx at any time, then race to end the        *)
(* attempt.  Each of them holds a pointer to the connect_info.             *)
(* Callers are those of this repository: their on_eof deletes the idx, and *)
(* they set their handler when egg_connect has returned.  Scripts make     *)
(* lookups of their own, which go when the script goes (script.c).         *)
(***************************************************************************)
EXTENDS Dns

CONSTANTS Conns, Scripts, NoHost
ASSUME NetAssumption == NoHost \notin Hosts /\ Conns \cap Scripts = {}

VARIABLES
  att,     \* [Conns -> record]: an idx and its connect_info
  script   \* [Scripts -> 0..1]: 1 while a script waits for a lookup
netvars == <<queries, query_id, cache, dns_idx, wire, att, script>>

\* idx: 1 while the sockbuf exists.  info: the connect_info.  dns: its dns_id.
\* timer: 1 while the connect timer is in the timer list.  handler: 1 once the
\* caller has set its handler.  heard: reports the caller has had.
Unused == [idx |-> 0, info |-> "none", dns |-> NoId, timer |-> 0, sock |-> "none",
           host |-> NoHost, peer |-> NoHost, handler |-> 0, heard |-> 0]

Attempts == [idx : {0, 1}, info : {"none", "live", "freed"}, dns : {NoId} \cup Nat,
             timer : {0, 1}, sock : {"none", "connecting", "up"},
             host : Hosts \cup {NoHost}, peer : Hosts \cup {NoHost},
             handler : {0, 1}, heard : Nat]

Queries == [id : Nat, host : Hosts, cd : Conns \cup Scripts, left : {1, 2},
            got : Answers]

NetInit == /\ DnsInit
           /\ att = [c \in Conns |-> Unused]
           /\ script = [s \in Scripts |-> 0]

-----------------------------------------------------------------------------
\* Steps of one attempt a, as functions of its record.

\* sockbuf_new and attach.
attach(h, t) == [Unused EXCEPT !.idx = 1, !.info = "live", !.timer = t, !.host = h]

\* Mutant: the timer is not destroyed.
BugDetachKeepsTimer(a) == [a EXCEPT !.info = "freed"]

\* detach: the timer is destroyed, the filter taken off, the connect_info freed.
detach(a) == [a EXCEPT !.timer = 0, !.info = "freed"]

\* sockbuf_on_eof: the caller's on_eof deletes the idx; a new idx has no handler
\* and the event is lost.
on_eof(a) == IF a.handler = 1 THEN [Unused EXCEPT !.heard = a.heard + 1] ELSE a

\* Mutant: the caller is not told.
BugFailedUnreported(a) == detach([a EXCEPT !.dns = NoId])

\* connect_host_resolved with the addresses ans.
failed(a) == on_eof(detach([a EXCEPT !.dns = NoId]))
connecting(a, ip) == [a EXCEPT !.dns = NoId, !.sock = "connecting", !.peer = ip]

\* The first address is used; creating the socket may fail.
connect_host_resolved(a, ans) == {failed(a)} \cup {connecting(a, ip) : ip \in ans}

\* egg_on_connect, up to the caller's handler.
connected(a) == [detach(a) EXCEPT !.sock = "up", !.heard = @ + a.handler]

\* egg_client returns: the id of the lookup is stored and the caller sets its
\* handler.  After a lookup that failed at once the id is stored in the freed
\* connect_info, and the idx stays with nothing under way.
returned(a, id) == [a EXCEPT !.dns = id, !.handler = 1]

Set(c, a) == att' = [att EXCEPT ![c] = a]

-----------------------------------------------------------------------------
\* egg_connect, with a timeout or (t = 0) without one.
egg_connect(c, h, t) ==
  /\ att[c].idx = 0
  /\ \/ /\ \E ans \in AtOnce(h) : \E a \in connect_host_resolved(attach(h, t), ans) :
             Set(c, returned(a, NoId))
        /\ UNCHANGED dnsvars
     \/ Ask(h, c) /\ Set(c, returned(attach(h, t), query_id))
  /\ UNCHANGED script

\* The name server answers.
NameReply(p) ==
  \/ StrayReply(p) /\ UNCHANGED <<att, script>>
  \/ \E q \in Asked(p), ans \in Said(p) :
       \/ PartReply(p, q, ans) /\ UNCHANGED <<att, script>>
       \/ /\ LastReply(p, q, ans)
          /\ \/ /\ q.cd \in Conns
                /\ \E a \in connect_host_resolved(att[q.cd], q.got \cup ans) : Set(q.cd, a)
                /\ UNCHANGED script
             \/ /\ q.cd \in Scripts
                /\ script' = [script EXCEPT ![q.cd] = 0]
                /\ UNCHANGED att

\* Mutant: the lookup is cancelled without its callback.
BugTimeoutNoCallback(c) ==
  /\ att[c].timer = 1
  /\ IF att[c].dns # NoId
     THEN Cancel(att[c].dns) /\ Set(c, [att[c] EXCEPT !.timer = 0])
     ELSE UNCHANGED dnsvars /\ Set(c, failed(att[c]))
  /\ UNCHANGED script

\* egg_connect_timeout: a pending lookup is cancelled with its callback, which
\* fails the attempt; otherwise the attempt is failed here.
egg_connect_timeout(c) ==
  /\ att[c].timer = 1
  /\ IF att[c].dns # NoId
     THEN /\ Cancel(att[c].dns)
          /\ IF \E q \in queries : q.id = att[c].dns
             THEN Set(c, failed([att[c] EXCEPT !.timer = 0]))
             ELSE Set(c, [att[c] EXCEPT !.timer = 0])
     ELSE UNCHANGED dnsvars /\ Set(c, failed([att[c] EXCEPT !.timer = 0]))
  /\ UNCHANGED script

\* egg_on_connect: the socket is connected.
egg_on_connect(c) ==
  /\ att[c].sock = "connecting"
  /\ Set(c, connected(att[c]))
  /\ UNCHANGED <<queries, query_id, cache, dns_idx, wire, script>>

\* egg_on_eof: the connection is refused.
egg_on_eof(c) ==
  /\ att[c].sock = "connecting"
  /\ Set(c, on_eof(detach(att[c])))
  /\ UNCHANGED <<queries, query_id, cache, dns_idx, wire, script>>

\* The caller deletes the idx; its filter, while attached, cancels the lookup
\* without a callback and destroys the timer (egg_on_delete).  This is also how
\* a connection ends that is up.
egg_on_delete(c) ==
  /\ att[c].idx = 1
  /\ IF att[c].info = "live" /\ att[c].dns # NoId THEN Cancel(att[c].dns)
                                                  ELSE UNCHANGED dnsvars
  /\ Set(c, [Unused EXCEPT !.heard = att[c].heard])
  /\ UNCHANGED script

\* A script looks a host up; an answer at once is given before it returns.
script_dns_query(s, h) ==
  /\ script[s] = 0
  /\ Ask(h, s)
  /\ script' = [script EXCEPT ![s] = 1]
  /\ UNCHANGED att

\* A script cancels its lookup, or is unloaded with its owner.
script_kill_by_owner(s) ==
  /\ script[s] = 1
  /\ CancelAll(s)
  /\ script' = [script EXCEPT ![s] = 0]
  /\ UNCHANGED att

NetNext ==
  \/ \E c \in Conns : \/ \E h \in Hosts, t \in {0, 1} : egg_connect(c, h, t)
                      \/ egg_connect_timeout(c)
                      \/ egg_on_connect(c)
                      \/ egg_on_eof(c)
                      \/ egg_on_delete(c)
  \/ \E p \in wire : NameReply(p)
  \/ \E s \in Scripts : \/ \E h \in Hosts : script_dns_query(s, h)
                        \/ script_kill_by_owner(s)
  \/ /\ DnsOnEof \/ Lose \/ ExpireQueries
     /\ UNCHANGED <<att, script>>

NetSpec == NetInit /\ [][NetNext]_netvars

\* timer_run calls due timers again and again (module Timer).
NetFairSpec == NetSpec /\ \A c \in Conns : WF_netvars(egg_connect_timeout(c))

-----------------------------------------------------------------------------
\* Type invariant.
NetTypeOK ==
  /\ queries \subseteq Queries
  /\ query_id \in Nat
  /\ cache \subseteq [host : Hosts, ans : Answers]
  /\ dns_idx \in {"open", "closed"}
  /\ wire \subseteq Packets
  /\ att \in [Conns -> Attempts]
  /\ script \in [Scripts -> {0, 1}]

Owned(q) == \/ q.cd \in Conns /\ att[q.cd].info = "live" /\ att[q.cd].dns = q.id
            \/ q.cd \in Scripts /\ script[q.cd] = 1

\* No callback that is still to come has a pointer to freed memory: a lookup
\* belongs to the connect_info that stores its id, or to a script that waits
\* for it; the timer and the filter belong to a connect_info that is in use;
\* and no two lookups share an id or an owner.
NoDangling ==
  /\ \A q \in queries : Owned(q)
  /\ \A c \in Conns : /\ att[c].timer = 1 => att[c].info = "live"
                      /\ att[c].info = "live" => att[c].idx = 1
  /\ \A q, r \in queries : q.id = r.id \/ q.cd = r.cd => q = r
  /\ \A q \in queries : q.id < query_id

\* An attempt whose connect_info is in use has something under way that will
\* end it: a lookup or a socket, not both.  One that has none was told of its end, or
\* failed before egg_connect returned and is not told at all.
UnderWay ==
  \A c \in Conns :
    /\ att[c].sock = "connecting" => att[c].info = "live"
    /\ att[c].idx = 1 =>
         /\ att[c].info = "live" => \/ att[c].sock = "connecting" /\ att[c].dns = NoId
                                    \/ /\ att[c].sock = "none"
                                       /\ \E q \in queries : q.id = att[c].dns /\ q.cd = c
         /\ att[c].sock = "up" => att[c].info = "freed" /\ att[c].heard = 1
         /\ att[c].handler = 1 /\ (att[c].info = "live" => att[c].heard = 0)

\* A connection goes to an address of the host that was asked for, as long as
\* the ids in packets have not been used up.  (Afterwards an answer may be
\* taken for that to a question 65536 earlier which is still waiting.)
RightPeer ==
  NoWrap => /\ \A c \in Conns : att[c].sock # "none" => att[c].peer = att[c].host
            /\ \A e \in cache : e.ans \subseteq {e.host}

\* An attempt with a timeout ends: the caller hears of it or deletes it.
Decided == \A c \in Conns :
  (att[c].timer = 1) ~> (att[c].sock = "up" \/ att[c].idx = 0)

-----------------------------------------------------------------------------
Phase(a) == IF a.idx = 0 THEN "idle"
            ELSE IF a.info = "live" THEN "trying"
            ELSE IF a.sock = "up" THEN "connected"
            ELSE "silent"

A == INSTANCE Attempt WITH phase <- [c \in Conns |-> Phase(att[c])],
                           heard <- [c \in Conns |-> att[c].heard]

\* net.c keeps the promise of Attempt.
OneResult == A!AttemptSpec
=============================================================================
