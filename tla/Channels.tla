------------------------------ MODULE Channels ------------------------------
(***************************************************************************)
(* modules/server/channels.c, channel_events.c and uhost_cache.c: what the *)
(* bot knows of its channels, next to what is true on the server.  The     *)
(* server is external: it changes the truth, tells the bot what a client   *)
(* on the channel is told, and answers the bot's requests in their order,  *)
(* later.  A handler runs when its line is read; since lines are read in   *)
(* the order they were sent, truth and handler change in one step.         *)
(* Handlers are functions on the bot's data b.                             *)
(***************************************************************************)
EXTENDS Integers, Sequences, FiniteSets, SequencesExt

CONSTANTS
  Users,      \* with their hosts: a user is its own user@host
  Bot,        \* the user that is the bot
  Nicks, Chans, Masks,
  NoNick,     \* the nick of a user who is not connected
  NoUhost,     \* a uhost that is not known
  Garbage,    \* what an uninitialised pointer may hold: "null", "wild"
  MaxChanges, \* bound: joins and connections of the bot, commands to it, nick
              \* and mode changes and new users in a behaviour
  MaxSent     \* bound: requests waiting for an answer

ASSUME ChannelsAssumption ==
  /\ Bot \in Users /\ NoNick \notin Nicks /\ NoUhost \notin Users
  /\ IsFiniteSet(Users) /\ IsFiniteSet(Chans) /\ IsFiniteSet(Masks)
  /\ Garbage \subseteq {"null", "wild"}

VARIABLES
  nickOf,   \* [Users -> Nicks \cup {NoNick}], one user per nick
  on, ops,  \* [Chans -> SUBSET Users]: who is on a channel, who is opped
  bans,     \* [Chans -> SUBSET Masks]
  sent,     \* requests to the server, oldest first
  changes,  \* those bounded by MaxChanges so far
  b         \* [chan : [Chans -> channel_t], cache : [Nicks -> entries],
            \*  down : 0..2, late : 0..1]; down is 1 after a member was not found
            \*  and 2 after an unset pointer was followed
truth == <<nickOf, on, ops, bans>>
channelsVars == <<nickOf, on, ops, bans, sent, changes, b>>

me == nickOf[Bot]
Online == {u \in Users : nickOf[u] # NoNick}
FreeNicks == Nicks \ {nickOf[u] : u \in Users}

\* A channel_t.  loading is "null" while lists is NULL.  stray remembers that
\* an answer arrived for a channel the bot had left, and late that one did since
\* the bot connected (no variables of the code).
Offline(known, static) == [known |-> known, static |-> static, joined |-> 0, members |-> <<>>,
                           masks |-> <<>>, loading |-> "null", stray |-> 0]
NoChannel == Offline(0, 0)

\* The bot is started: it is not connected and has the channels of its channel
\* file; the network may be in any state.
ChannelsInit ==
        /\ nickOf \in [Users -> Nicks \cup {NoNick}]
        /\ nickOf[Bot] = NoNick
        /\ \A u, v \in Users : u # v /\ nickOf[u] = nickOf[v] => nickOf[u] = NoNick
        /\ on \in [Chans -> SUBSET Online] /\ ops \in [Chans -> SUBSET Online]
        /\ \A c \in Chans : ops[c] \subseteq on[c]
        /\ bans \in [Chans -> SUBSET Masks]
        /\ sent = <<>> /\ changes = 0
        /\ \E file \in SUBSET Chans :
             b = [chan |-> [c \in Chans |-> IF c \in file THEN Offline(1, 1) ELSE NoChannel],
                  cache |-> [n \in Nicks |-> <<>>], down |-> 0, late |-> 0]

-----------------------------------------------------------------------------
\* uhost_cache.c.  A nick may have several entries; the newest is found first.

\* The newest entry is counted up or down.
Recounted(l, d) == [l EXCEPT ![1].refs = @ + d]

\* Mutant: only the first member is counted.
BugAddrefNewOnly(x, n, h) ==
  [x EXCEPT !.cache[n] = IF @ = <<>> THEN <<[host |-> h, refs |-> 1]>> ELSE @]

uhost_cache_addref(x, n, h) ==
  [x EXCEPT !.cache[n] = IF @ = <<>> THEN <<[host |-> h, refs |-> 1]>>
                                     ELSE Recounted(@, 1)]

uhost_cache_decref(x, n) ==
  IF n = me \/ x.cache[n] = <<>> THEN x
  ELSE [x EXCEPT !.cache[n] = IF @[1].refs > 1 THEN Recounted(@, -1) ELSE Tail(@)]

\* Without an entry for the old nick, hash_table_remove leaves the pointer unset,
\* and what it happens to hold is followed unless it is null.
uhost_cache_swap(x, old, new) ==
  IF x.cache[old] # <<>>
  THEN {[x EXCEPT !.cache[old] = Tail(@),
                  !.cache[new] = <<Head(x.cache[old])>> \o @]}
  ELSE {[x EXCEPT !.down = IF g = "null" THEN @ ELSE 2] : g \in Garbage}

-----------------------------------------------------------------------------
\* The member list of a channel.
Places(l, n) == {i \in DOMAIN l : l[i].nick = n}
Place(l, n) == CHOOSE i \in Places(l, n) : \A j \in Places(l, n) : i =< j
NicksIn(l) == {l[i].nick : i \in DOMAIN l}
Listed(c) == NicksIn(b.chan[c].members)

\* channel_add_member; the caller raises flags of the member it gets.
NewMember(n) == [nick |-> n, uhost |-> NoUhost, op |-> 0, bot |-> 0]
FillHost(m, h) == [m EXCEPT !.uhost = IF @ = NoUhost THEN h ELSE @]

Raise(m, flags) == [m EXCEPT !.op = IF "op" \in flags THEN 1 ELSE @,
                               !.bot = IF "bot" \in flags THEN 1 ELSE @]

Enter(l, n, h, flags) ==
  LET grown == IF Places(l, n) = {} THEN <<NewMember(n)>> \o l ELSE l
      place == Place(grown, n)
  IN  [grown EXCEPT ![place] = Raise(FillHost(grown[place], h), flags)]

channel_add_member(x, c, n, h, flags) ==
  uhost_cache_addref([x EXCEPT !.chan[c].members = Enter(@, n, h, flags)], n, h)

Status(c, u) == IF u \in ops[c] THEN {"op"} ELSE {}

\* Mutant: the members go, their counts and the flags stay.
BugFreeOnlineKeepsStatus(x, c) ==
  [x EXCEPT !.chan[c].members = <<>>, !.chan[c].masks = <<>>, !.chan[c].loading = "null"]

\* channel_free_online
Forgotten(x, l) == LET forget(y, m) == uhost_cache_decref(y, m.nick) IN FoldLeft(forget, x, l)
channel_free_online(x, c) ==
  [Forgotten(x, x.chan[c].members) EXCEPT !.chan[c] = Offline(x.chan[c].known, x.chan[c].static)]

channel_free(x, c) == [channel_free_online(x, c) EXCEPT !.chan[c] = NoChannel]

channel_on_leave(x, c, n) ==
  LET y == uhost_cache_decref(x, n)
      l == y.chan[c].members
  IN  IF x.chan[c].known = 0 THEN x
      ELSE IF Places(l, n) = {} THEN y
      ELSE LET z == [y EXCEPT !.chan[c].members = RemoveAt(@, Place(l, n))]
           IN  IF n # me THEN z
               ELSE IF z.chan[c].static = 1 THEN channel_free_online(z, c)
               ELSE channel_free(z, c)

channel_on_quit(x, n) ==
  LET leave(y, c) == channel_on_leave(y, c, n)
  IN  FoldLeft(leave, x, SetToSeq(Chans))

\* channel_on_nick; only the first member with the old nick is renamed.
channel_on_nick(x, old, new) ==
  {[y EXCEPT !.chan = [c \in Chans |->
      IF Places(y.chan[c].members, old) = {} THEN y.chan[c]
      ELSE [y.chan[c] EXCEPT !.members[Place(y.chan[c].members, old)].nick = new]]]
     : y \in uhost_cache_swap(x, old, new)}

\* got353 and got352 for every user of a channel, as the server lists them;
\* only the latter tells their hosts.
ListedAll(x, c, us, hosts) ==
  LET add(y, u) == channel_add_member(y, c, nickOf[u], hosts[u], Status(c, u))
  IN  FoldLeft(add, x, SetToSeq(us))
got353(x, c, us) == ListedAll(x, c, us, [u \in Users |-> NoUhost])
got352(x, c, us) == IF x.chan[c].known = 0 THEN x ELSE ListedAll(x, c, us, [u \in Users |-> u])

\* channel_on_join
channel_on_join(x, c, u) ==
  LET y == [x EXCEPT !.chan[c].known = 1]
  IN  IF u # Bot THEN channel_add_member(y, c, nickOf[u], u, {})
      ELSE [channel_add_member(y, c, me, u, {"bot"}) EXCEPT
              !.chan[c].joined = 1,
              !.chan[c].loading = IF @ = "null" THEN @ ELSE "yes"]

\* channel_get_mask_list makes the lists when there are none.
channel_get_mask_list(x, c) ==
  [x EXCEPT !.chan[c].loading = IF @ = "null" THEN "no" ELSE @]

channel_add_mask(x, c, m) ==
  [channel_get_mask_list(x, c) EXCEPT !.chan[c].masks = <<m>> \o @]

\* Mutant: the mask stays.
BugDelMaskKeeps(x, c, m) == channel_get_mask_list(x, c)

channel_del_mask(x, c, m) ==
  LET l == x.chan[c].masks
      found == {i \in DOMAIN l : l[i] = m}
      first == CHOOSE i \in found : \A j \in found : i =< j
  IN  IF found = {} THEN channel_get_mask_list(x, c)
      ELSE [channel_get_mask_list(x, c) EXCEPT !.chan[c].masks = RemoveAt(@, first)]

\* got_list_item for every ban, then got_list_end.
got_list(x, c, ms) ==
  LET y == channel_get_mask_list(x, c)
  IN  IF x.chan[c].known = 0 THEN x
      ELSE [y EXCEPT !.chan[c].loading = "no",
                     !.chan[c].masks = IF y.chan[c].loading = "yes"
                                       THEN SetToSeq(ms) \o @ ELSE @]

\* The part of parse_chan_mode for +o and -o: the member is not checked.
mode_o(x, c, n, plus) ==
  LET l == x.chan[c].members
  IN  IF x.chan[c].known = 0 THEN x
      ELSE IF Places(l, n) = {} THEN [x EXCEPT !.down = 1]
      ELSE [x EXCEPT !.chan[c].members[Place(l, n)].op = plus]

-----------------------------------------------------------------------------
Request(kind, c) == [kind |-> kind, chan |-> c]
Queue(reqs) == Len(sent \o reqs) =< MaxSent /\ sent' = sent \o reqs
Answered(kind, c) == sent # <<>> /\ Head(sent) = Request(kind, c)
Up == b.down = 0

\* The server lets the bot in; after 005 channel_on_connect asks for the
\* channels that are not set inactive.
channel_on_connect ==
  /\ Up /\ changes < MaxChanges /\ me = NoNick
  /\ \E n \in FreeNicks : nickOf' = [nickOf EXCEPT ![Bot] = n]
  /\ \E active \in SUBSET {c \in Chans : b.chan[c].known = 1} :
       LET ask(c) == Request("JOIN", c)
       IN  Queue([i \in DOMAIN SetToSeq(active) |-> ask(SetToSeq(active)[i])])
  /\ UNCHANGED <<on, ops, bans, b>>
  /\ changes' = changes + 1

\* The bot's JOIN succeeds: gotjoin, then the names that come with it.
gotjoin_bot(c) ==
  /\ Up /\ Answered("JOIN", c) /\ Bot \notin on[c] /\ changes < MaxChanges
  /\ on' = [on EXCEPT ![c] = @ \cup {Bot}]
  /\ b' = got353(channel_on_join(b, c, Bot), c, on[c] \cup {Bot})
  /\ Len(sent) + 1 =< MaxSent
  /\ sent' = Tail(sent) \o <<Request("WHO", c), Request("BANS", c)>>
  /\ changes' = changes + 1
  /\ UNCHANGED <<nickOf, ops, bans>>

\* The JOIN is refused, or the bot is there already.
JoinRefused(c) ==
  /\ Up /\ Answered("JOIN", c)
  /\ sent' = Tail(sent)
  /\ UNCHANGED <<nickOf, on, ops, bans, changes, b>>

\* A user joins; the bot is told when it is on the channel.
gotjoin(c, u) ==
  /\ Up /\ u # Bot /\ u \in Online \ on[c]
  /\ on' = [on EXCEPT ![c] = @ \cup {u}]
  /\ b' = IF Bot \in on[c] THEN channel_on_join(b, c, u) ELSE b
  /\ UNCHANGED <<nickOf, ops, bans, sent, changes>>

Off(c, u) == /\ on' = [on EXCEPT ![c] = @ \ {u}]
             /\ ops' = [ops EXCEPT ![c] = @ \ {u}]

\* gotpart and gotkick, of a user or of the bot.
gotpart(c, u) ==
  /\ Up /\ u \in on[c]
  /\ Off(c, u)
  /\ b' = IF Bot \in on[c] THEN channel_on_leave(b, c, nickOf[u]) ELSE b
  /\ UNCHANGED <<nickOf, bans, sent, changes>>

\* The bot's PART is answered; it is ignored when the bot is not there.
PartDone(c) ==
  /\ Up /\ Answered("PART", c)
  /\ sent' = Tail(sent)
  /\ IF Bot \in on[c] THEN Off(c, Bot) /\ b' = channel_on_leave(b, c, me)
                      ELSE UNCHANGED <<on, ops, b>>
  /\ UNCHANGED <<nickOf, bans, changes>>

Visible(u) == \E c \in Chans : {u, Bot} \subseteq on[c]
Gone(S) == /\ on' = [c \in Chans |-> on[c] \ S]
           /\ ops' = [c \in Chans |-> ops[c] \ S]

\* gotquit
gotquit(u) ==
  /\ Up /\ u \in Online \ {Bot}
  /\ nickOf' = [nickOf EXCEPT ![u] = NoNick]
  /\ Gone({u})
  /\ b' = IF Visible(u) THEN channel_on_quit(b, nickOf[u]) ELSE b
  /\ UNCHANGED <<bans, sent, changes>>

\* A user comes to the network.
UserConnects(u) ==
  /\ Up /\ changes < MaxChanges /\ u \in Users \ (Online \cup {Bot})
  /\ \E n \in FreeNicks : nickOf' = [nickOf EXCEPT ![u] = n]
  /\ UNCHANGED <<on, ops, bans, sent, b>>
  /\ changes' = changes + 1

\* gotnick, of a user the bot sees or of the bot itself.
gotnick(u) ==
  /\ Up /\ changes < MaxChanges /\ u \in Online
  /\ \E n \in FreeNicks :
       /\ nickOf' = [nickOf EXCEPT ![u] = n]
       /\ b' \in IF u = Bot \/ Visible(u) THEN channel_on_nick(b, nickOf[u], n) ELSE {b}
  /\ UNCHANGED <<on, ops, bans, sent>>
  /\ changes' = changes + 1

\* gotmode: an op is given or taken, a ban is set or removed.
gotmode_o(c, u) ==
  /\ Up /\ changes < MaxChanges /\ u \in on[c]
  /\ ops' = [ops EXCEPT ![c] = IF u \in @ THEN @ \ {u} ELSE @ \cup {u}]
  /\ b' = IF Bot \in on[c] THEN mode_o(b, c, nickOf[u], IF u \in ops[c] THEN 0 ELSE 1) ELSE b
  /\ UNCHANGED <<nickOf, on, bans, sent>>
  /\ changes' = changes + 1

gotmode_b(c, m) ==
  /\ Up /\ changes < MaxChanges /\ on[c] # {}
  /\ bans' = [bans EXCEPT ![c] = IF m \in @ THEN @ \ {m} ELSE @ \cup {m}]
  /\ b' = IF Bot \notin on[c] THEN b
          ELSE IF m \in bans[c] THEN channel_del_mask(b, c, m) ELSE channel_add_mask(b, c, m)
  /\ UNCHANGED <<nickOf, on, ops, sent>>
  /\ changes' = changes + 1

\* An answer for a channel the bot has left but still has in its list.
Stray(x, c) ==
  IF x.chan[c].known = 1 /\ Bot \notin on[c] THEN [x EXCEPT !.chan[c].stray = 1, !.late = 1] ELSE x

\* The answer to WHO; one who is not on the channel is told too, unless the
\* channel is secret.
WhoReply(c) ==
  /\ Up /\ Answered("WHO", c)
  /\ sent' = Tail(sent)
  /\ \/ b' = Stray(got352(b, c, on[c]), c)
     \/ Bot \notin on[c] /\ UNCHANGED b
  /\ UNCHANGED <<nickOf, on, ops, bans, changes>>

\* The answer to MODE b.
BanReply(c) ==
  /\ Up /\ Answered("BANS", c)
  /\ sent' = Tail(sent)
  /\ b' = Stray(got_list(b, c, bans[c]), c)
  /\ UNCHANGED <<nickOf, on, ops, bans, changes>>

-----------------------------------------------------------------------------
\* The connection is lost: channel_reset.
Cut(x) == /\ nickOf' = [nickOf EXCEPT ![Bot] = NoNick]
          /\ Gone({Bot})
          /\ sent' = <<>>
          /\ b' = [chan |-> [c \in Chans |-> channel_free_online(x, c).chan[c]],
                   cache |-> [n \in Nicks |-> <<>>], down |-> x.down, late |-> 0]
          /\ UNCHANGED <<bans, changes>>

channel_reset == Up /\ me # NoNick /\ Cut(b)

\* got_error: the channels are left first, then the connection is closed.
got_error == Up /\ me # NoNick /\ Cut(channel_on_quit(b, me))

\* +chan
party_pls_chan(c) ==
  /\ Up /\ changes < MaxChanges /\ b.chan[c].static = 0
  /\ b' = [b EXCEPT !.chan[c].known = 1, !.chan[c].static = 1]
  /\ IF b.chan[c].known = 0 /\ me # NoNick THEN Queue(<<Request("JOIN", c)>>) ELSE UNCHANGED sent
  /\ UNCHANGED <<nickOf, on, ops, bans>>
  /\ changes' = changes + 1

\* -chan, also for a channel that is not permanent.
party_minus_chan(c) ==
  /\ Up /\ changes < MaxChanges /\ b.chan[c].known = 1
  /\ b' = [b EXCEPT !.chan[c].static = 0]
  /\ IF me # NoNick THEN Queue(<<Request("PART", c)>>) ELSE UNCHANGED sent
  /\ UNCHANGED <<nickOf, on, ops, bans>>
  /\ changes' = changes + 1

\* The script command channel_set makes the channel it is given.
script_schan_set(c) ==
  /\ Up /\ changes < MaxChanges /\ b.chan[c].known = 0
  /\ b' = [b EXCEPT !.chan[c].known = 1]
  /\ UNCHANGED <<nickOf, on, ops, bans, sent>>
  /\ changes' = changes + 1

ChannelsNext ==
  \/ channel_on_connect \/ channel_reset \/ got_error
  \/ \E c \in Chans :
       \/ gotjoin_bot(c) \/ JoinRefused(c) \/ PartDone(c) \/ WhoReply(c) \/ BanReply(c)
       \/ party_pls_chan(c) \/ party_minus_chan(c) \/ script_schan_set(c)
       \/ \E u \in Users : gotjoin(c, u) \/ gotpart(c, u) \/ gotmode_o(c, u)
       \/ \E m \in Masks : gotmode_b(c, m)
  \/ \E u \in Users : gotquit(u) \/ UserConnects(u) \/ gotnick(u)

ChannelsSpec == ChannelsInit /\ [][ChannelsNext]_channelsVars

-----------------------------------------------------------------------------
Clear(c) == b.chan[c].joined = 1 /\ b.chan[c].stray = 0
NicksOn(c) == {nickOf[u] : u \in on[c]}

\* The member list of a joined channel is the list of who is on it, each once,
\* unless an answer arrived while the bot was off the channel.  Even then nobody
\* who is on it is missing, so that no event is about a member not found.
ListsAgree ==
  /\ \A c \in Chans : b.chan[c].joined = 1 <=> Bot \in on[c]
  /\ \A c \in Chans : Clear(c) =>
       Listed(c) = NicksOn(c) /\ Len(b.chan[c].members) = Cardinality(on[c])
  /\ b.down = 0
  /\ \A c \in Chans : b.chan[c].joined = 1 => NicksOn(c) \subseteq Listed(c)

\* Who is opped, and chan->bot for the bot itself (BOT_ISOP).
OpsAgree ==
  \A c \in Chans : Clear(c) =>
    \A i \in DOMAIN b.chan[c].members :
      LET m == b.chan[c].members[i]
      IN  /\ m.op = 1 <=> \E u \in ops[c] : nickOf[u] = m.nick
          /\ m.bot = 1 <=> m.nick = me

\* When the answer to WHO has been read every host is known, and right.
HostsKnown ==
  \A c \in Chans : Clear(c) =>
    \A i \in DOMAIN b.chan[c].members, u \in on[c] :
      LET m == b.chan[c].members[i]
      IN  m.nick = nickOf[u] =>
            m.uhost = u \/ (m.uhost = NoUhost /\ Request("WHO", c) \in Range(sent))

\* What the bot has noted of a channel's members is what the server's events,
\* read in order, say of them; after an unset pointer was followed nothing is
\* promised.
MembersAgree == b.down # 2 => ListsAgree /\ OpsAgree /\ HostsKnown

\* As long as no answer arrived for a channel the bot had left, whoever is on
\* a channel with the bot, and the bot itself, has an entry in the cache, counted
\* for each of the channels at least.
EntriesCover == b.late = 0 =>
  \A n \in Nicks :
    LET cs == {c \in Chans : b.chan[c].joined = 1 /\ n \in NicksOn(c)}
    IN  cs # {} => b.cache[n] # <<>> /\ b.cache[n][1].refs >= Cardinality(cs)

\* So the pointer that uhost_cache_swap leaves unset is followed only after such
\* an answer, or when the bot changes its nick while it is on no channel.
CacheCovers ==
  /\ b.down # 2 => EntriesCover
  /\ b.down = 2 => b.late = 1 \/ \A c \in Chans : b.chan[c].joined = 0

\* No mask in the list of a channel is missing on the server.
MasksSound == b.down # 2 =>
  \A c \in Chans : Clear(c) =>
    /\ Range(b.chan[c].masks) \subseteq bans[c]
    /\ Len(b.chan[c].masks) = Cardinality(Range(b.chan[c].masks))

=============================================================================
