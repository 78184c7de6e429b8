------------------------------ MODULE BotLink ------------------------------
(***************************************************************************)
(* lib/eggdrop/botnet.c and modules/botnet/botnet.c: several bots that run *)
(* this code link to one another, keep the tree of the bots they know and  *)
(* tell each other of bots that come and go.  A connection has two ends    *)
(* with a session (bot_t) each, and carries what is written to it in order *)
(* until an end closes it, the network breaks it or a bot dies.            *)
(* Handlers are functions on the world w = [bot, conn]; one event is       *)
(* handled at a time.  A lost bot is marked, and freed when the garbage is *)
(* collected at the end of the pass.                                       *)
(***************************************************************************)
EXTENDS Integers, Sequences, FiniteSets, SequencesExt

CONSTANTS
  Bots,     \* every bot has a user record for every other
  Secret,   \* Secret[x][y]: the bot.password x has for y, 0 is none
  Prio,     \* Prio[x][y]: the bot.link-priority x has for y, 0 is none
  NoAddress,\* pairs <<x, y>>: the address x has for y is not valid
  Slots,    \* bound: connections at a time, 1..n
  MaxWire,  \* bound: no attempt begins while more messages are on a wire
  MaxTrouble\* bound: commands, ping ticks, failures and crashes in a behaviour

ASSUME BotLinkAssumption ==
  /\ Secret \in [Bots -> [Bots -> Nat]] /\ Prio \in [Bots -> [Bots -> Nat]]
  /\ NoAddress \subseteq Bots \X Bots /\ Slots \subseteq Nat /\ MaxWire \in Nat
  /\ MaxTrouble \in Nat

VARIABLES
  bot,    \* [Bots -> what a bot knows]
  conn,   \* [Slots -> connections]
  trouble \* those bounded by MaxTrouble so far
vars == <<bot, conn, trouble>>
world == [bot |-> bot, conn |-> conn]

Ends == {"out", "in"}
Other(e) == IF e = "out" THEN "in" ELSE "out"
NoBot == "none"

\* A bot: its process, the bots of its list with uplink (itself for a bot that
\* is linked directly) and direction, the names marked as deleted in this pass,
\* the names in the list that the hash table has no entry for, the users flagged
\* LINKING and LINKED, linking_bots, and the priority botnet_autolink remembers.
Fresh(run) == [run |-> run, bots |-> <<>>, marked |-> {}, missing |-> {},
               linking |-> {}, linked |-> {}, count |-> 0, priority |-> 0]

\* Those botnet_lookup finds.
Found(b) == DOMAIN b.bots \ b.missing

\* A connection: who is at each end, the state of the session there, the
\* messages on their way to it and its idle counter (0, 1 and 2 for -1).
NoConn == [at |-> [e \in Ends |-> NoBot], st |-> [e \in Ends |-> "gone"],
           wire |-> [e \in Ends |-> <<>>], idle |-> [e \in Ends |-> 0]]
LoginStates == {"connecting", "hello", "pass", "new", "passreq", "passok"}

Msg(t) == [type |-> t, up |-> NoBot, name |-> NoBot]
NewBot(n, up) == [type |-> "newbot", up |-> up, name |-> n]
BQuit(n) == [type |-> "bquit", up |-> NoBot, name |-> n]

\* Some bots may be off for good.
Init == /\ bot \in [Bots -> {Fresh("down"), Fresh("off")}]
        /\ conn = [c \in Slots |-> NoConn]
        /\ trouble \in 0..MaxTrouble

Direct(w, x) == {n \in DOMAIN w.bot[x].bots : w.bot[x].bots[n].up = x}

\* Bound: a new attempt needs a free connection and short wires.
Full(w) == \/ \A c \in Slots : w.conn[c] # NoConn
           \/ \E c \in Slots, e \in Ends : Len(w.conn[c].wire[e]) > MaxWire

Send(w, c, e, m) ==
  IF w.conn[c].st[e] = "gone" THEN w
  ELSE [w EXCEPT !.conn[c].wire[e] = Append(@, m)]

\* sockbuf_delete: the other end reads what is on its way, then the end of file.
CloseEnd(w, c, e) ==
  LET v == Send(w, c, Other(e), Msg("eof"))
  IN IF w.conn[c].st[Other(e)] = "gone"
     THEN [v EXCEPT !.conn[c] = NoConn]
     ELSE [v EXCEPT !.conn[c].st[e] = "gone", !.conn[c].wire[e] = <<>>,
                    !.conn[c].idle[e] = 0]

\* Calls on_new_bot or on_lost_bot of the bots in peers that x is linked to.
Tell(w, x, peers, m) ==
  [w EXCEPT !.conn =
     [c \in Slots |->
        [@[c] EXCEPT !.wire =
           [e \in Ends |->
              IF /\ w.conn[c].at[Other(e)] = x /\ w.conn[c].st[Other(e)] = "linked"
                 /\ w.conn[c].at[e] \in peers /\ w.conn[c].st[e] # "gone"
              THEN Append(@[e], m) ELSE @[e]]]]]

-----------------------------------------------------------------------------
\* Linking: flags and count are raised first, then the module is asked.
botnet_link(w, x, y) ==
  IF y \in w.bot[x].linking \cup Found(w.bot[x]) \/ Full(w) THEN w
  ELSE LET v == [w EXCEPT !.bot[x].linking = @ \cup {y}, !.bot[x].count = @ + 1]
           c == Min({d \in Slots : w.conn[d] = NoConn})
       IN IF <<x, y>> \in NoAddress THEN v
          ELSE [v EXCEPT !.conn[c] =
                  [NoConn EXCEPT !.at = [e \in Ends |-> IF e = "out" THEN x ELSE y],
                                 !.st["out"] = "connecting"]]

botnet_autolink(w, x) ==
  LET b == w.bot[x]
      idle == Bots \ ({x} \cup b.linking \cup b.linked \cup Found(b))
      next == {Prio[x][y] : y \in idle} \ 0..b.priority
      v == [w EXCEPT !.bot[x].count = IF b.linking \ b.linked # {} THEN 1 ELSE 0,
                     !.bot[x].priority = IF next = {} THEN 0 ELSE Min(next)]
  IN IF b.count # 0 THEN w
     ELSE FoldSet(LAMBDA y, u : botnet_link(u, x, y), v,
                  {y \in idle : next # {} /\ Prio[x][y] = Min(next)})

WhenNone(w, x) == IF w.bot[x].count = 0 THEN botnet_autolink(w, x) ELSE w

botnet_link_failed(w, x, y) ==
  WhenNone([w EXCEPT !.bot[x].count = @ - 1, !.bot[x].linking = @ \ {y}], x)

botnet_link_success(w, x, y) ==
  WhenNone([w EXCEPT !.bot[x].count =
                       IF @ > 0 /\ y \in w.bot[x].linking THEN @ - 1 ELSE @,
                     !.bot[x].linking = @ \ {y}, !.bot[x].linked = @ \cup {y}], x)

\* Mutant: nobody is told that the attempt failed.
BugDeleteSilent(w, c, e) == CloseEnd(w, c, e)

\* The session of x at end e is deleted while no bot hangs on it.
idx_on_delete(w, c, e) ==
  LET x == w.conn[c].at[e]  y == w.conn[c].at[Other(e)]  v == CloseEnd(w, c, e)
  IN IF e = "out" /\ y \in v.bot[x].linking THEN botnet_link_failed(v, x, y) ELSE v

\* The bots of list l that are reached through n, and n itself.
Subtree(l, n) ==
  {m \in DOMAIN l : \A S \in SUBSET DOMAIN l :
     n \in S /\ (\A k \in DOMAIN l : l[k].up \in S => k \in S) => m \in S}

\* Mutant: the bots behind the lost one stay.
BugOnlyItself(w, x, n) ==
  [w EXCEPT !.bot[x].bots = [m \in DOMAIN @ \ {n} |-> @[m]],
            !.bot[x].marked = @ \cup {n}, !.bot[x].linked = @ \ {n}]

\* The bots are marked; botnet_lookup does not give them any more.
botnet_recursive_delete(w, x, n) ==
  LET lost == Subtree(w.bot[x].bots, n)
  IN [w EXCEPT !.bot[x].bots = [m \in DOMAIN @ \ lost |-> @[m]],
               !.bot[x].marked = @ \cup lost, !.bot[x].missing = @ \ lost,
               !.bot[x].linked = @ \ (lost \cap Direct(w, x))]

\* The session of x that the direct bot n hangs on (client_data).
SessionOf(w, x, n) ==
  CHOOSE p \in Slots \X Ends : /\ w.conn[p[1]].at[p[2]] = x
                               /\ w.conn[p[1]].at[Other(p[2])] = n
                               /\ w.conn[p[1]].st[p[2]] = "linked"

\* Mutant: the other bots are not told.
BugLostQuietly(w, x, n) ==
  LET v == botnet_recursive_delete(w, x, n)  p == SessionOf(w, x, n)
  IN IF w.bot[x].bots[n].up = x THEN idx_on_delete(v, p[1], p[2]) ELSE v

\* on_delete of a direct bot deletes its session, which may report the attempt
\* as failed and start another before the flag is looked at again.
botnet_delete(w, x, n) ==
  LET l == w.bot[x].bots
      v == botnet_recursive_delete(Tell(w, x, Direct(w, x) \ {l[n].dir}, BQuit(n)), x, n)
      p == SessionOf(w, x, n)
      u == IF l[n].up = x THEN idx_on_delete(v, p[1], p[2]) ELSE v
  IN IF l[n].up = x /\ n \in u.bot[x].linking THEN botnet_link_failed(u, x, n) ELSE u

botnet_new(w, x, n, up) ==
  LET dir == IF up = x THEN n ELSE w.bot[x].bots[up].dir
      v == [w EXCEPT !.bot[x].bots =
              [m \in DOMAIN @ \cup {n} |->
                 IF m = n THEN [up |-> up, dir |-> dir] ELSE @[m]]]
  IN Tell(v, x, Direct(v, x) \ {dir}, NewBot(n, up))

\* The bots of list l but n, each after its uplink.
ReplayOrder(l, n) ==
  CHOOSE s \in SetToSeqs(DOMAIN l \ {n}) :
    \A i, j \in 1..Len(s) : l[s[j]].up = s[i] => i < j

\* botnet_replay_net and the end of the login.
Replay(w, c, e) ==
  LET x == w.conn[c].at[e]  l == w.bot[x].bots  s == ReplayOrder(l, w.conn[c].at[Other(e)])
  IN [w EXCEPT !.conn[c].wire[Other(e)] =
        IF w.conn[c].st[Other(e)] = "gone" THEN @
        ELSE @ \o [i \in DOMAIN s |-> NewBot(s[i], l[s[i]].up)] \o <<Msg("el")>>]

\* The process of x is gone and the kernel closes its connections.
Dead(w, x, how) ==
  LET mine(v, c, e) == v.conn[c].at[e] = x /\ v.conn[c].st[e] # "gone"
      gone == {p \in Slots \X Ends : mine(w, p[1], p[2])}
  IN [FoldSet(LAMBDA p, v : CloseEnd(v, p[1], p[2]), w, gone) EXCEPT !.bot[x] = Fresh(how)]

\* THISBOT is accepted: botnet_new refuses a name that is linked already, and
\* botnet_replay_net follows the NULL it returned.  A name that is linked but not
\* found gets a second bot; such a process is not followed further.
Linked(w, c, e) ==
  LET x == w.conn[c].at[e]  y == w.conn[c].at[Other(e)]
      v == [w EXCEPT !.conn[c].st[e] = "linked"]
  IN IF y \in Found(w.bot[x]) THEN Dead(w, x, "null")
     ELSE IF y \in w.bot[x].missing THEN Dead(w, x, "twice")
     ELSE Replay(botnet_new(v, x, y, x), c, e)

\* Answers m and goes on to state st.
Answer(w, c, e, m, st) == Send([w EXCEPT !.conn[c].st[e] = st], c, Other(e), Msg(m))

recving_login(w, c, type) ==
  LET x == w.conn[c].at["in"]  y == w.conn[c].at["out"]  st == w.conn[c].st["in"]
      b == w.bot[x]
      known == y \in Found(b) \cup b.linking \cup b.linked
  IN CASE type = "hello" /\ st = "new" /\ ~known ->
            IF Secret[x][y] = 0 THEN Answer(w, c, "in", "thisbot5", "passok")
                                ELSE Answer(w, c, "in", "passreq", "passreq")
       [] type = "pass" /\ st = "passreq" /\ Secret[y][x] = Secret[x][y] ->
            Answer(w, c, "in", "thisbot", "passok")
       [] type = "thisbot" /\ st = "passok" -> Linked(w, c, "in")
       [] OTHER -> idx_on_delete(w, c, "in")

\* A bot without a password answers HELLO with five words after THISBOT.
sending_login(w, c, type) ==
  LET x == w.conn[c].at["out"]  y == w.conn[c].at["in"]  st == w.conn[c].st["out"]
  IN CASE type = "passreq" /\ st = "hello" /\ Secret[x][y] # 0 ->
            Answer(w, c, "out", "pass", "pass")
       [] type = "thisbot" -> Linked(Answer(w, c, "out", "thisbot", st), c, "out")
       [] OTHER -> idx_on_delete(w, c, "out")

got_newbot(w, x, y, m) ==
  IF m.name \in Found(w.bot[x]) \cup {x} THEN botnet_delete(w, x, y)
  ELSE IF m.name \in w.bot[x].missing THEN Dead(w, x, "twice")
  ELSE botnet_new(w, x, m.name, m.up)

\* The source of m must be a bot in the direction of y.
From(w, x, y, m) ==
  LET src == IF m.type = "bquit" THEN m.name ELSE m.up
  IN src \in Found(w.bot[x]) /\ w.bot[x].bots[src].dir = y

idx_on_eof(w, c, e) ==
  IF w.conn[c].st[e] = "linked"
  THEN botnet_delete(w, w.conn[c].at[e], w.conn[c].at[Other(e)])
  ELSE idx_on_delete(w, c, e)

idx_on_read(w, c, e, m) ==
  LET x == w.conn[c].at[e]  y == w.conn[c].at[Other(e)]
  IN CASE m.type = "eof" -> idx_on_eof(w, c, e)
       [] w.conn[c].st[e] # "linked" /\ m.type # "eof" ->
            IF e = "in" THEN recving_login(w, c, m.type) ELSE sending_login(w, c, m.type)
       [] w.conn[c].st[e] = "linked" /\ m.type = "el" -> botnet_link_success(w, x, y)
       [] w.conn[c].st[e] = "linked" /\ m.type = "newbot" ->
            IF From(w, x, y, m) THEN got_newbot(w, x, y, m) ELSE w
       [] w.conn[c].st[e] = "linked" /\ m.type = "bquit" ->
            IF From(w, x, y, m) THEN botnet_delete(w, x, m.name) ELSE w
       [] OTHER -> w

-----------------------------------------------------------------------------
Becomes(w) == bot' = w.bot /\ conn' = w.conn
Calm == UNCHANGED trouble
Trouble == trouble < MaxTrouble /\ trouble' = trouble + 1
Up(x) == bot[x].run = "up"

\* While x is in a pass in which bots were deleted, the other processes wait:
\* what they do meanwhile they could have done before the pass.
Passing(x) == bot[x].marked # {}
Turn(x) == Up(x) /\ \A y \in Bots \ {x} : ~Passing(y)
NoPass == \A x \in Bots : ~Passing(x)

\* botnet_cleanup, at the end of the pass.  Entries are removed from the hash
\* table by name, the newest first: one who came back in the pass loses it.
\* The entry that stays points to freed memory; a lookup that reads it misses,
\* or the process dies (Crash).
botnet_cleanup(x) ==
  /\ Passing(x)
  /\ Becomes([world EXCEPT !.bot[x].marked = {},
                          !.bot[x].missing = @ \cup (bot[x].marked \cap DOMAIN bot[x].bots)])

\* The bot starts, and starts to link.
Start(x) == /\ NoPass /\ bot[x].run \in {"down", "null", "twice"}
            /\ Becomes(botnet_autolink([world EXCEPT !.bot[x] = Fresh("up")], x))

\* Every five minutes.
FiveMinutely(x) == NoPass /\ Up(x) /\ bot[x].count = 0 /\ Becomes(botnet_autolink(world, x))

party_link(x, y) == /\ Turn(x) /\ x # y /\ y \notin bot[x].linking /\ ~Full(world)
                    /\ Becomes(botnet_link(world, x, y))

\* .unlink of a direct bot.
party_unlink(x, y) == /\ Turn(x) /\ y \in Direct(world, x)
                      /\ Becomes(botnet_delete(Tell(world, x, {y}, BQuit(y)), x, y))

\* The connection is made, the peer accepts it and hello is sent.
idx_on_connect(c) ==
  /\ NoPass /\ conn[c].st["out"] = "connecting" /\ Up(conn[c].at["in"])
  /\ Becomes(Answer([world EXCEPT !.conn[c].st["in"] = "new"], c, "out", "hello", "hello"))

\* There is no such connection: refused, unreachable, no such host.
Refused(c) == /\ conn[c].st["out"] = "connecting" /\ Turn(conn[c].at["out"])
              /\ Becomes(idx_on_eof(world, c, "out"))

Read(c, e) ==
  /\ conn[c].wire[e] # <<>> /\ Turn(conn[c].at[e])
  /\ Becomes(idx_on_read([world EXCEPT !.conn[c].wire[e] = Tail(@)], c, e,
                         Head(conn[c].wire[e])))

\* The socktimer of 30 seconds, which runs until the login is complete.
LoginTimeout(c, e) == /\ NoPass /\ conn[c].st[e] \in LoginStates
                      /\ Becomes(idx_on_delete(world, c, e))

\* Nothing but the timer will go on with connection c.
Stuck(c) == /\ \A e \in Ends : conn[c].wire[e] = <<>>
            /\ conn[c].st["out"] = "connecting" => ~Up(conn[c].at["in"])

\* The socktimer of 90 seconds.  What a ping and its answer do is nothing, so
\* they are not on the wire.
do_ping(c, e) ==
  /\ NoPass /\ conn[c].st[e] = "linked"
  /\ IF conn[c].idle[e] = 2
     THEN Becomes(botnet_delete(world, conn[c].at[e], conn[c].at[Other(e)]))
     ELSE Becomes([world EXCEPT !.conn[c].idle[e] = @ + 1])

\* External: the network loses what is on its way and both ends learn of it.
Break(c) == /\ NoPass /\ conn[c].st["out"] # "gone" /\ conn[c].st["in"] # "gone"
            /\ Becomes([world EXCEPT !.conn[c].wire = [e \in Ends |-> <<Msg("eof")>>]])

\* External: the process of x ends.
Crash(x) == Turn(x) /\ Becomes(Dead(world, x, "down"))

Next == \/ /\ Calm
           /\ \/ \E x \in Bots : Start(x) \/ FiveMinutely(x) \/ botnet_cleanup(x)
              \/ \E c \in Slots : idx_on_connect(c)
              \/ \E c \in Slots, e \in Ends : Read(c, e) \/ (Stuck(c) /\ LoginTimeout(c, e))
        \/ /\ Trouble
           /\ \/ \E x \in Bots : Crash(x)
              \/ \E x, y \in Bots : party_link(x, y) \/ party_unlink(x, y)
              \/ \E c \in Slots : Refused(c) \/ Break(c)
              \/ \E c \in Slots, e \in Ends : do_ping(c, e) \/ LoginTimeout(c, e)

Spec == Init /\ [][Next]_vars

-----------------------------------------------------------------------------
\* Types of the bots' data and of the connections.
TypeOK ==
  /\ \A x \in Bots :
       /\ bot[x].run \in {"off", "down", "up", "null", "twice"}
       /\ bot[x].missing \subseteq DOMAIN bot[x].bots /\ bot[x].marked \subseteq Bots \ {x}
       /\ DOMAIN bot[x].bots \subseteq Bots \ {x}
       /\ \A n \in DOMAIN bot[x].bots : bot[x].bots[n] \in [up : Bots, dir : Bots]
       /\ bot[x].linking \subseteq Bots \ {x} /\ bot[x].linked \subseteq Bots \ {x}
       /\ bot[x].count \in Nat /\ bot[x].priority \in Nat
  /\ \A c \in Slots, e \in Ends :
       /\ conn[c].at[e] \in Bots \cup {NoBot} /\ conn[c].idle[e] \in 0..2
       /\ conn[c].st[e] \in LoginStates \cup {"linked", "gone"}

\* The sessions of x with y in one of the states sts.
Sessions(x, y, sts) == {p \in Slots \X Ends : /\ conn[p[1]].at[p[2]] = x
                                              /\ conn[p[1]].at[Other(p[2])] = y
                                              /\ conn[p[1]].st[p[2]] \in sts}

\* However attempts end (by the timer, the peer, the network, a link the other
\* bot made, or inside the deletion of a link), linking_bots counts the users
\* flagged LINKING, and a user is flagged only while a session lives whose end
\* clears the flag, so that "the last of this connection attempts has succeded
\* or failed" (botnet.c:719) is always reached, unless the module accepted the
\* request and then found the address not valid.
AttemptUnderWay ==
  \A x \in Bots :
    /\ bot[x].count = Cardinality(bot[x].linking)
    /\ \A y \in {z \in bot[x].linking : <<x, z>> \notin NoAddress} :
         Sessions(x, y, {"linked"}) # {} \/ \E p \in Sessions(x, y, LoginStates) : p[2] = "out"

\* The list of bots is a forest: a direct bot has exactly one session and a
\* session one bot, a remote bot is reached through its uplink, whose direction
\* it has, and whoever is flagged LINKED is direct.
ForestSound ==
  \A x \in Bots :
    LET l == bot[x].bots
    IN /\ \A n \in DOMAIN l :
            \/ l[n].up = x /\ l[n].dir = n /\ Cardinality(Sessions(x, n, {"linked"})) = 1
            \/ /\ l[n].up \in DOMAIN l \ {n} /\ l[n].dir = l[l[n].up].dir
               /\ n \in Subtree(l, l[n].dir)
       /\ \A y \in Bots : Sessions(x, y, {"linked"}) # {} => y \in Direct(world, x)
       /\ bot[x].linked \subseteq Direct(world, x)

Quiet == /\ \A c \in Slots, e \in Ends : /\ conn[c].wire[e] = <<>>
                                         /\ conn[c].st[e] \notin LoginStates
         /\ \A x \in Bots : bot[x].run \in {"up", "off"} /\ ~Passing(x)

\* When nothing is on its way all bots agree on who is linked to whom, although
\* news of links and of losses crossed and rings were cut by whoever saw them,
\* unless a bot came back before the garbage of its loss was collected: as long as
\* its entry is missing, news that come from it are refused.
Agreement ==
  Quiet /\ (\A x \in Bots : bot[x].missing = {}) =>
    \A x \in Bots : \A y \in DOMAIN bot[x].bots :
      /\ DOMAIN bot[x].bots \cup {x} = DOMAIN bot[y].bots \cup {y}
      /\ y \in Direct(world, x) => x \in Direct(world, y) /\ y \in bot[x].linked
=============================================================================
