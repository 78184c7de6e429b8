-------------------------------- MODULE Dns --------------------------------
(***************************************************************************)
(* lib/eggdrop/dns.c: the resolver.  A lookup is answered at once (the     *)
(* argument is an address, the cache or the hosts file knows it) or a      *)
(* query is sent to a name server over UDP, which loses, repeats and       *)
(* reorders.  Addresses are named after the host they belong to: the       *)
(* answer to a question about h is {h}, or {} when there is none.          *)
(* Operators here are the part of a step that dns.c does itself; callbacks *)
(* belong to the modules that ask.                                         *)
(***************************************************************************)
EXTENDS Integers, FiniteSets

CONSTANTS
  Hosts,        \* names and addresses that are asked for
  Ips,          \* those socket_valid_ip accepts
  HostsFile,    \* those listed in /etc/hosts or .hosts
  IdSpace,      \* ids that fit in a packet: 65536 in the code
  MaxQueries,   \* bound: queries sent in a behaviour
  Replies       \* answers a query waits for: 2 in a build with IPV6, else 1

ASSUME DnsAssumption ==
  /\ Ips \subseteq Hosts /\ HostsFile \subseteq Hosts
  /\ IdSpace \in Nat \ {0} /\ MaxQueries \in Nat /\ Replies \in {1, 2}

VARIABLES
  queries,      \* query_head: a set of records
  query_id,     \* the next id, an int
  cache,        \* a set of [host, ans]; a host may be in it twice
  dns_idx,      \* "open" or "closed"
  wire          \* packets that the name server may still answer, or not

dnsvars == <<queries, query_id, cache, dns_idx, wire>>

NoId == -1
Answers == SUBSET Hosts
Packets == [id : Nat, host : Hosts, kind : {1, 2}]

DnsInit == /\ queries = {} /\ query_id = 0 /\ cache = {}
           /\ dns_idx = "closed" /\ wire = {}

-----------------------------------------------------------------------------
Cached(h) == {e \in cache : e.host = h}

\* Answers that egg_dns_lookup can give before it returns.  cache_find takes
\* the first entry, which any of them may be, since cache_del moves the last
\* entry to the place of a deleted one.
AtOnce(h) ==
  IF h \in Ips THEN {{h}}
  ELSE IF Cached(h) # {} THEN {e.ans : e \in Cached(h)}
  ELSE IF h \in HostsFile THEN {{h}}
  ELSE {}

\* egg_dns_send: without a socket get_dns_idx tries to open one; when that
\* fails the packet is dropped and nobody is told.
Send(packets) ==
  \/ dns_idx' = "open" /\ wire' = wire \cup packets
  \/ dns_idx = "closed" /\ UNCHANGED <<dns_idx, wire>>

\* The dns_query_t for the client data cd, and its packets: an id has 16 bits.
NewQuery(h, cd) == [id |-> query_id, host |-> h, cd |-> cd, left |-> Replies, got |-> {}]
NewPackets(h) == {[id |-> query_id % IdSpace, host |-> h, kind |-> k] : k \in 1..Replies}

\* The rest of egg_dns_lookup.
Ask(h, cd) ==
  /\ AtOnce(h) = {}
  /\ query_id < MaxQueries
  /\ queries' = queries \cup {NewQuery(h, cd)}
  /\ query_id' = query_id + 1
  /\ Send(NewPackets(h))
  /\ UNCHANGED cache

\* Mutant: any later query takes the reply.
BugAskedByRank(p) == {q \in queries : q.id >= p.id}

\* parse_reply looks for the id of the packet among the ids of the queries.
Asked(p) == {q \in queries : q.id = p.id}

\* What a reply to packet p may say.
Said(p) == {{}, {p.host}}

\* A packet stays on the wire when its answer is repeated.
Heard(p) == wire' \in {wire, wire \ {p}}

\* parse_reply, no such query: the reply is dropped.
StrayReply(p) ==
  /\ Asked(p) = {}
  /\ Heard(p)
  /\ UNCHANGED <<queries, query_id, cache, dns_idx>>

\* parse_reply, q->remaining is still positive: the answers are kept.
more(q, ans) == [q EXCEPT !.left = @ - 1, !.got = @ \cup ans]

PartReply(p, q, ans) ==
  /\ q \in Asked(p) /\ q.left > 1
  /\ queries' = (queries \ {q}) \cup {more(q, ans)}
  /\ Heard(p)
  /\ UNCHANGED <<query_id, cache, dns_idx>>

\* parse_reply, the last reply: the query is unlinked and its answers, even
\* none at all, are cached before the callback is made.
LastReply(p, q, ans) ==
  /\ q \in Asked(p) /\ q.left = 1
  /\ queries' = queries \ {q}
  /\ cache' = cache \cup {[host |-> q.host, ans |-> q.got \cup ans]}
  /\ Heard(p)
  /\ UNCHANGED <<query_id, dns_idx>>

\* egg_dns_cancel, up to its callback.
Cancel(id) ==
  /\ queries' = {q \in queries : q.id # id}
  /\ UNCHANGED <<query_id, cache, dns_idx, wire>>

\* egg_dns_cancel_by_owner, for an owner whose client data is cd.
CancelAll(cd) ==
  /\ queries' = {q \in queries : q.cd # cd}
  /\ UNCHANGED <<query_id, cache, dns_idx, wire>>

-----------------------------------------------------------------------------
\* dns_on_eof: the next query opens a new socket; those sent are not repeated.
DnsOnEof ==
  /\ dns_idx = "open"
  /\ dns_idx' = "closed" /\ wire' = {}
  /\ UNCHANGED <<queries, query_id, cache>>

\* A packet or its answer is lost.
Lose == /\ \E p \in wire : wire' = wire \ {p}
        /\ UNCHANGED <<queries, query_id, cache, dns_idx>>

\* expire_queries, every second: entries whose ttl is over are removed.
ExpireQueries ==
  /\ cache # {}
  /\ \E old \in SUBSET cache : old # {} /\ cache' = cache \ old
  /\ UNCHANGED <<queries, query_id, dns_idx, wire>>

\* No id was handed out twice in the 16 bits of a packet.
NoWrap == query_id =< IdSpace
=============================================================================
