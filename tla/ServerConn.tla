----------------------------- MODULE ServerConn -----------------------------
(***************************************************************************)
(* The connection to the IRC server: modules/server/server.c (the work     *)
(* done every second), servsock.c (connecting, disconnecting and the       *)
(* socket's events), serverlist.c, nicklist.c and the replies of input.c   *)
(* that drive them.  The output queues are the sequences of QueueSpec.     *)
(*                                                                         *)
(* A second is a step of server_secondly.  The socket, the IRC server and  *)
(* the users and scripts that edit the lists act in between.               *)
(***************************************************************************)
EXTENDS Integers, Sequences, FiniteSets, SequencesExt

CONSTANTS
  Servers,        \* servers that may be put on the list, each at most once
  NickNames,      \* nicks that may be put on the list, each at most once
  InitServers,    \* the server list of the configuration file
  InitNicks,      \* its nick list
  CycleDelay,     \* server.cycle_delay, in seconds
  PingTimeout,    \* server.ping_timeout, in seconds
  PingIntervals,  \* what random() can make of the time to the next ping
  JumpNums,       \* numbers a script may pass to jump
  MaxQueued,      \* bound: messages that wait
  None

ASSUME TimesAssumption ==
  CycleDelay \in Nat /\ PingTimeout \in Nat \ {0} /\ PingIntervals \subseteq Nat \ {0}
ASSUME NumsAssumption == JumpNums \subseteq Int
ASSUME ListsAssumption == InitServers \in Seq(Servers) /\ InitNicks \in Seq(NickNames)
ASSUME NoneAssumption == None \notin Servers \cup NickNames \cup Int

VARIABLES
  server_list, server_list_index,
  nick_list, nick_list_index, nick_list_cycled,
  sock,          \* the sockbuf of current_server.idx; "none": idx is -1
  registered,    \* current_server.registered
  time_to_ping,  \* current_server.time_to_ping
  pinged,        \* seconds since last_ping_sent; None: that is still zero
  cycle_delay,
  queues,        \* the output queues
  asked,         \* IRC server: NICK commands it has not answered
  tried,         \* history: nicks tried on this connection; None: the list was cut
  want,          \* history: the server the last jump named (None: nowhere), and
                 \* whether the entry at the index, just before it, went since
  loaded,        \* history: no connection has ended since the module was loaded
  faults         \* history: what the properties exclude

servers == <<server_list, server_list_index>>
nicks == <<nick_list, nick_list_index, nick_list_cycled>>
current_server == <<sock, registered, time_to_ping, pinged>>
vars == <<servers, nicks, current_server, cycle_delay, queues, asked,
          tried, want, loaded, faults>>

Msgs == {<<"NICK">>, <<"WHOIS">>, <<"MSG">>}

Queue == INSTANCE QueueSpec WITH
           Readings <- [m \in Msgs |-> {m}], Other <- None, Nothing <- None,
           offered <- None, out <- None

NoJump == [server |-> None, passed |-> FALSE]

QUICK == 0
NORMAL == 1

Waiting == {q \in 0 .. 5 : queues[q] # <<>>}

\* The bound on waiting messages.
Room == FoldLeft(+, 0, [q \in 1 .. 6 |-> Len(queues[q - 1])]) < MaxQueued

Put(q, m) == queues' = [queues EXCEPT ![q] = Append(@, m)]

-----------------------------------------------------------------------------
(* Lists                                                                   *)

\* Mutant: stays at the position that was set.
BugNoAdvance(index, len) == IF index < 0 \/ index >= len THEN 0 ELSE index

\* server_get_next moves to the next position, round the list.
server_get_next(index, len) == IF index + 1 >= len THEN 0 ELSE index + 1

\* Mutant: as if every entry that goes stood behind the position.
BugIndexStays(index, num) == index

\* server_del and nick_del adjust the position when an entry before it goes.
IndexAfterDel(index, num) == IF num < index THEN index - 1 ELSE index

NextNick(index, cycled, found) == [index |-> index, cycled |-> cycled, found |-> found]

\* Mutant: the last nick of the list is never reached.
BugLastNick(index, cycled) ==
  IF Len(nick_list) <= 1 THEN NextNick(index, cycled, FALSE)
  ELSE IF index + 1 < Len(nick_list) - 1 THEN NextNick(index + 1, cycled, TRUE)
  ELSE IF cycled THEN NextNick(index + 1, TRUE, FALSE)
  ELSE NextNick(0, TRUE, TRUE)

\* nick_get_next: twice round the list, then NULL.
nick_get_next(index, cycled) ==
  IF nick_list = <<>> THEN NextNick(index, cycled, FALSE)
  ELSE IF index + 1 < Len(nick_list) THEN NextNick(index + 1, cycled, TRUE)
  ELSE IF cycled THEN NextNick(index + 1, TRUE, FALSE)
  ELSE NextNick(0, TRUE, TRUE)

\* A random nick although a nick of an uncut list was not tried.
Skipped(before) == None \notin before /\ ~ ToSet(nick_list) \subseteq before

\* try_next_nick, from a position in the list: the next nick or a random one.
try_next_nick(index, cycled, before) ==
  LET r == nick_get_next(index, cycled)
  IN  /\ Put(QUICK, <<"NICK">>)
      /\ nick_list_index' = r.index /\ nick_list_cycled' = r.cycled
      /\ IF r.found
           THEN tried' = before \cup {nick_list[r.index + 1]} /\ UNCHANGED faults
           ELSE /\ tried' = before
                /\ faults' = IF Skipped(before) THEN faults \cup {"nick"} ELSE faults
      /\ UNCHANGED nick_list

-----------------------------------------------------------------------------
(* Connecting and disconnecting                                            *)

\* The server module was just loaded: current_server is all zero but for idx.
Init ==
  /\ server_list = InitServers /\ server_list_index = -1
  /\ nick_list = InitNicks /\ nick_list_index = -1 /\ nick_list_cycled = FALSE
  /\ sock = "none" /\ registered = FALSE
  /\ time_to_ping = 0 /\ pinged = None
  /\ cycle_delay = 0
  /\ queues = [q \in 0 .. 5 |-> <<>>]
  /\ asked = 0 /\ tried = {} /\ want = NoJump /\ loaded = TRUE /\ faults = {}

\* disconnect_server, and kill_server after its QUIT; the output queues keep
\* what they hold.
disconnect_server ==
  /\ cycle_delay' = CycleDelay
  /\ sock' = "none" /\ registered' = FALSE
  /\ time_to_ping' = -1 /\ pinged' = None
  /\ asked' = 0 /\ loaded' = FALSE

\* Entry `at` is where the last jump leads: the server it named, or the next
\* one round the list when the entry before that was deleted at the index.
LeadsTo(at) ==
  LET named == IF ~ want.passed THEN at
               ELSE IF at = 1 THEN Len(server_list) ELSE at - 1
  IN  server_list[named] = want.server

\* connect_to_next_server; cycle_delay is -1 by then.  A failure inside
\* egg_connect is reported before the handler is set, so nobody hears of it.
connect_to_next_server ==
  LET index == server_get_next(server_list_index, Len(server_list))
      at == IF index < 0 THEN 1 ELSE index + 1
  IN  IF server_list = <<>>
      THEN UNCHANGED <<server_list_index, sock, want, faults>>
      ELSE /\ server_list_index' = index
           /\ sock' \in {"pending", "hung"}
           /\ faults' = IF want.server = None \/ LeadsTo(at) THEN faults ELSE faults \cup {"jump"}
           /\ want' = NoJump

\* server_on_connect: nick_list_on_connect starts the nicks again.  A
\* "connect-server" bind may leave the server at once.
server_on_connect ==
  /\ sock = "pending"
  /\ \/ /\ Room
        /\ sock' = "open"
        /\ time_to_ping' \in PingIntervals
        /\ try_next_nick(-1, FALSE, {})
        /\ UNCHANGED <<registered, pinged, cycle_delay, asked, loaded>>
     \/ /\ disconnect_server
        /\ nick_list_index' = -1 /\ nick_list_cycled' = FALSE /\ tried' = {}
        /\ UNCHANGED <<nick_list, queues, faults>>
  /\ UNCHANGED <<servers, want>>

\* server_on_eof: refused, timed out, reset or closed.
server_on_eof ==
  /\ sock \in {"pending", "open"}
  /\ disconnect_server
  /\ UNCHANGED <<servers, nicks, queues, tried, want, faults>>

-----------------------------------------------------------------------------
(* Every second                                                            *)

\* server_secondly while there is no connection and a delay is running.
CountDown ==
  /\ sock = "none" /\ cycle_delay >= 0
  /\ IF cycle_delay - 1 > 0
       THEN cycle_delay' = cycle_delay - 1 /\ UNCHANGED <<server_list_index, sock, want, faults>>
       ELSE cycle_delay' = -1 /\ connect_to_next_server
  /\ UNCHANGED <<server_list, nicks, registered, time_to_ping, pinged, queues, asked,
                 tried, loaded>>

\* dequeue_messages; also without a connection that could take the message.
\* A NICK that is written will be answered.
dequeue_messages ==
  \/ Waiting = {} /\ UNCHANGED queues /\ asked' = asked
  \/ \E q \in Waiting :
       /\ Queue!Served(queues, q)
       /\ queues' = [queues EXCEPT ![q] = Tail(@)]
       /\ asked' = IF sock # "none" /\ Head(queues[q]) = <<"NICK">> THEN asked + 1 ELSE asked

\* Mutant: a second too early.
BugTooEarly == pinged # None => pinged + 2 >= PingTimeout

\* The last ping was sent ping_timeout seconds ago; if none was sent, that is
\* measured from the year 1970.
PingedOut == pinged # None => pinged + 1 >= PingTimeout

\* Mutant: never comes to zero.
BugStopsAtOne == IF time_to_ping > 1 THEN time_to_ping - 1 ELSE time_to_ping

NextTimeToPing == IF time_to_ping > 0 THEN time_to_ping - 1 ELSE time_to_ping

\* server_secondly otherwise: one message, then the ping.
KeepUp ==
  /\ sock # "none" \/ cycle_delay < 0
  /\ ~ (sock # "none" /\ time_to_ping = 0 /\ PingedOut)
  /\ dequeue_messages
  /\ IF sock = "none" THEN UNCHANGED <<time_to_ping, pinged>>
     ELSE /\ time_to_ping' = NextTimeToPing
          /\ pinged' = IF time_to_ping = 0 THEN pinged + 1
                       ELSE IF time_to_ping = 1 THEN 0 ELSE pinged
  /\ UNCHANGED <<servers, nicks, sock, registered, cycle_delay, tried, want, loaded, faults>>

\* A ping timeout that no unanswered ping of this connection justifies.
Unearned == pinged = None \/ pinged + 1 < PingTimeout

\* server_secondly when the ping was not answered in time: one message, then
\* kill_server.
PingTimeoutStep ==
  /\ sock # "none" /\ time_to_ping = 0 /\ PingedOut
  /\ \/ Waiting = {} /\ UNCHANGED queues
     \/ \E q \in Waiting : Queue!Served(queues, q) /\ queues' = [queues EXCEPT ![q] = Tail(@)]
  /\ disconnect_server
  /\ faults' = IF (IF pinged = None THEN ~ loaded ELSE Unearned)
               THEN faults \cup {"ping"} ELSE faults
  /\ UNCHANGED <<servers, nicks, tried, want>>

server_secondly == CountDown \/ KeepUp \/ PingTimeoutStep

-----------------------------------------------------------------------------
(* What the IRC server sends                                               *)

\* An "init-server" bind may leave the server.
got001 ==
  /\ sock = "open" /\ asked > 0 /\ ~ registered
  /\ \/ /\ Room
        /\ registered' = TRUE
        /\ asked' = asked - 1
        /\ Put(QUICK, <<"WHOIS">>)
        /\ UNCHANGED <<sock, time_to_ping, pinged, cycle_delay, loaded>>
     \/ disconnect_server /\ UNCHANGED queues
  /\ UNCHANGED <<servers, nicks, tried, want, faults>>

\* Bound: nick_list_index counts on with every refusal after the last nick.
MaxNickIndex == Cardinality(NickNames)

\* got433 and got437: taken; the next one unless we are registered.
got433 ==
  /\ sock = "open" /\ asked > 0 /\ Room
  /\ nick_list_index < MaxNickIndex
  /\ asked' = asked - 1
  /\ IF registered THEN UNCHANGED <<queues, nicks, tried, faults>>
     ELSE try_next_nick(nick_list_index, nick_list_cycled, tried)
  /\ UNCHANGED <<servers, current_server, cycle_delay, want, loaded>>

\* got432: invalid; a random one unless we are registered.
got432 ==
  /\ sock = "open" /\ asked > 0 /\ Room
  /\ asked' = asked - 1
  /\ IF registered THEN UNCHANGED queues ELSE Put(QUICK, <<"NICK">>)
  /\ UNCHANGED <<servers, nicks, current_server, cycle_delay, tried, want, loaded, faults>>

\* got451 and goterror leave the server.
goterror ==
  /\ sock = "open"
  /\ disconnect_server
  /\ UNCHANGED <<servers, nicks, queues, tried, want, faults>>

\* gotpong with the id of the outstanding ping.
gotpong ==
  /\ sock = "open" /\ pinged # None /\ time_to_ping = 0
  /\ time_to_ping' \in PingIntervals
  /\ UNCHANGED <<servers, nicks, sock, registered, pinged, cycle_delay, queues, asked,
                 tried, want, loaded, faults>>

IrcServer == got001 \/ got433 \/ got432 \/ goterror \/ gotpong

-----------------------------------------------------------------------------
(* What users and scripts do                                               *)

connection == <<current_server, cycle_delay, queues, asked, loaded, faults>>

putserv ==
  /\ Room
  /\ Put(NORMAL, <<"MSG">>)
  /\ UNCHANGED <<servers, nicks, current_server, cycle_delay, asked, tried, want, loaded, faults>>

\* jump with a number, of a server or not, or to the next server.
jump(num) ==
  /\ server_list_index' = IF num = None THEN server_list_index ELSE num - 1
  /\ want' = IF num # None /\ num + 1 \in DOMAIN server_list
             THEN [server |-> server_list[num + 1], passed |-> FALSE] ELSE NoJump
  /\ disconnect_server
  /\ UNCHANGED <<server_list, nicks, queues, tried, faults>>

server_add(h) ==
  /\ h \notin ToSet(server_list)
  /\ server_list' = Append(server_list, h)
  /\ UNCHANGED <<server_list_index, nicks, tried, want, connection>>

\* The jump is off when its target goes.  When the entry at the index goes,
\* the target takes its place and will be passed over.
server_del(num) ==
  /\ server_list' = RemoveAt(server_list, num + 1)
  /\ server_list_index' = IndexAfterDel(server_list_index, num)
  /\ want' = IF want.server \in {None, server_list[num + 1]} THEN NoJump
             ELSE [want EXCEPT !.passed = @ \/ num = server_list_index]
  /\ UNCHANGED <<nicks, tried, connection>>

server_clear ==
  /\ server_list' = <<>> /\ server_list_index' = -1
  /\ want' = NoJump
  /\ UNCHANGED <<nicks, tried, connection>>

\* After both rounds the index is past the end, and may be past the new nick.
nick_add(n) ==
  /\ n \notin ToSet(nick_list)
  /\ nick_list' = Append(nick_list, n)
  /\ tried' = IF nick_list_index >= Len(nick_list) THEN tried \cup {None} ELSE tried
  /\ UNCHANGED <<servers, nick_list_index, nick_list_cycled, want, connection>>

\* Deleting the nick at the index makes nick_get_next step over the next one.
nick_del(num) ==
  /\ nick_list' = RemoveAt(nick_list, num + 1)
  /\ nick_list_index' = IndexAfterDel(nick_list_index, num)
  /\ tried' = IF num = nick_list_index THEN tried \cup {None} ELSE tried
  /\ UNCHANGED <<servers, nick_list_cycled, want, connection>>

\* nick_clear leaves nick_list_index alone.
nick_clear ==
  /\ nick_list' = <<>>
  /\ tried' = tried \cup {None}
  /\ UNCHANGED <<servers, nick_list_index, nick_list_cycled, want, connection>>

Jump == \E num \in {None} \cup JumpNums : jump(num)

User ==
  \/ putserv \/ server_clear \/ nick_clear \/ Jump
  \/ \E num \in 0 .. Len(server_list) - 1 : server_del(num)
  \/ \E num \in 0 .. Len(nick_list) - 1 : nick_del(num)
  \/ \E h \in Servers : server_add(h)
  \/ \E n \in NickNames : nick_add(n)

Next == server_secondly \/ server_on_connect \/ server_on_eof \/ IrcServer \/ User

Spec == Init /\ [][Next]_vars

\* The main loop calls server_secondly every second; a pending connection is
\* made, refused or ended by the connect timeout.
FairSpec ==
  /\ Spec
  /\ WF_vars(server_secondly)
  /\ WF_vars(sock = "pending" /\ (server_on_connect \/ server_on_eof))

-----------------------------------------------------------------------------

TypeOK ==
  /\ server_list \in Seq(Servers) /\ server_list_index \in Int
  /\ nick_list \in Seq(NickNames) /\ nick_list_index \in -1 .. MaxNickIndex
  /\ nick_list_cycled \in BOOLEAN /\ registered \in BOOLEAN
  /\ sock \in {"none", "pending", "open", "hung"}
  /\ time_to_ping \in Nat \cup {-1} /\ pinged \in Nat \cup {None}
  /\ cycle_delay \in -1 .. CycleDelay /\ asked \in Nat

\* "Jumps the bot to the server corresponding to the given server number."
\* (doc/SCRIPTING-COMMANDS:189): also when servers are added and deleted
\* before the delay is over, and also when the target moves.  Not when the
\* entry just before it is deleted (serverlist.c:109): the index, which stood
\* there, then stands at the target, and the jump leads to the server after it.
JumpTarget == "jump" \notin faults

\* A server is only left for a ping timeout when a ping was sent on this
\* connection and not answered for ping_timeout seconds; the first connection
\* after the module was loaded is the exception.
PingTimeoutEarned == "ping" \notin faults

\* "Using random nick because none of the defined nicks are valid"
\* (nicklist.c:38): a random nick is only used when every nick of the list was
\* tried on this connection (but see nick_add and nick_del).
NicksTried == "nick" \notin faults

\* Cycling reaches every server: once the list is left alone and nobody jumps,
\* a bot that keeps connecting (and whose failures the handler hears of) tries
\* each server of the list again and again, wherever the edits left the index.
ServersCycled ==
  \A h \in Servers :
    \/ ~ <>[](h \in ToSet(server_list) /\ sock # "hung")
    \/ ~ <>[][UNCHANGED server_list /\ ~ Jump]_vars
    \/ ~ []<>(sock = "pending")
    \/ []<>(sock = "pending" /\ \E i \in DOMAIN server_list :
                                  i = server_list_index + 1 /\ server_list[i] = h)

\* A connection is watched: a ping is sent again and again, and one that is
\* not answered ends the connection.
Watched ==
  /\ (sock = "open") ~> (sock # "open" \/ time_to_ping = 0)
  /\ (sock = "open" /\ time_to_ping = 0) ~> (sock # "open" \/ time_to_ping # 0)

=============================================================================
