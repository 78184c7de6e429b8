------------------------------- MODULE Party -------------------------------
(***************************************************************************)
(* The party line: lib/eggdrop/partymember.c, partychan.c and partyline.c  *)
(* with the telnet sessions of modules/telnetparty that bring local users  *)
(* and a linked bot that brings remote ones.                               *)
(*                                                                         *)
(* Whatever happens on the party line is written to the sockets of those   *)
(* who are on the channel, and a write to a peer that is gone ends that    *)
(* peer's session at once, inside the loop that is telling everybody.  So  *)
(* a handler is a function on the world w, and Write, sockbuf_delete and   *)
(* partymember_delete call one another.  What is deleted is freed when the *)
(* main loop runs the garbage, after any number of further events.  When   *)
(* memory that is free is used the process is undefined: w.fault says      *)
(* where, and only a restart is left.                                      *)
(***************************************************************************)
EXTENDS Integers, Sequences, FiniteSets, SequencesExt

CONSTANTS
  Sessions,   \* telnet connections at a time
  Bot,        \* a bot that may link directly
  Slots,      \* bound: party members in memory at a time
  Chans,      \* channels
  Main,       \* the channel "*"
  Stealth,    \* values of telnet_config.stealth
  MaxRetries, \* telnet_config.max_retries
  MaxBreaks,  \* bound: connections that break in a behaviour
  MaxMoves,   \* bound: connections, moves, joins and parts in a behaviour
  MaxEntries  \* bound: entries of a channel's list, deleted ones included

ASSUME PartyAssumption ==
  /\ Main \in Chans /\ Bot \notin Sessions /\ Stealth \subseteq {0, 1} /\ Slots \in Nat
  /\ MaxRetries \in Nat /\ MaxBreaks \in Nat /\ MaxMoves \in Nat /\ MaxEntries \in Nat

VARIABLES
  w,      \* the process
  breaks, \* how many connections broke
  moves   \* how many connections, moves, joins and parts there were
vars == <<w, breaks, moves>>

None == "none"
Members == 1 .. Slots
Conns == Sessions \cup {Bot}

\* A session: its state, the member it became (0: none), how many of its two
\* lookups are not answered (for a stealth login, the only one that waits for
\* them), the login timer and the passwords that were wrong.
NoSession == [st |-> "none", party |-> 0, lookups |-> 0, timer |-> 0, count |-> 0]
\* A member: where it is (a session or the bot) and its channels.
NoMember == [st |-> "free", at |-> None, chans |-> <<>>]

\* sock: "up", "broken" when the peer is gone and nobody noticed, "closed" when
\* that was noticed and "none" when there is no sockbuf.  chan: the member
\* lists, with entries marked as deleted.  partys: the members the bot brought,
\* newest first; dangling: that list begins with one that is free.  shown[m]:
\* which local members m was told are where; known: what the bot was told of
\* our members (both only record).
Fresh == [sock |-> [x \in Conns |-> "none"], sess |-> [s \in Sessions |-> NoSession],
          mem |-> [m \in Members |-> NoMember], n |-> 0,
          chan |-> [c \in Chans |-> <<>>], partys |-> <<>>, dangling |-> 0,
          shown |-> [m \in Members |-> {}], known |-> {}, fault |-> None]

Init == w = Fresh /\ breaks = 0 /\ moves = 0

Local(y, m) == y.mem[m].at \in Sessions
Live(y, m) == y.mem[m].st = "live"
Linked(y) == y.sock[Bot] # "none"
Fault(y, where) == [y EXCEPT !.fault = IF @ = None THEN where ELSE @]
Entry(m) == [p |-> m, del |-> 0]
Pairs(m) == {m} \X Chans

\* The entries of a channel that are not deleted.
Listed(y, c) == SelectSeq(y.chan[c], LAMBDA e : e.del = 0)
\* Mutant: only the first entry is looked at.
BugFirstEntry(y, c, m) == Listed(y, c) # <<>> /\ Head(Listed(y, c)) = Entry(m)
Ison(y, c, m) == Contains(Listed(y, c), Entry(m))

\* Local members on one of the channels, each once.
Common(y, chans) ==
  LET entries == FlattenSeq([i \in DOMAIN chans |-> Listed(y, chans[i])])
      fits(e) == Live(y, e.p) /\ Local(y, e.p)
      add(l, e) == IF fits(e) /\ ~ Contains(l, e.p) THEN Append(l, e.p) ELSE l
  IN  FoldLeft(add, <<>>, entries)
\* Mutant: the loop over the channels ends with the first.
BugFirstChannel(y, m) ==
  Common(y, IF y.mem[m].chans = <<>> THEN <<>> ELSE <<Head(y.mem[m].chans)>>)
partychan_get_common(y, m) == Common(y, y.mem[m].chans)

RECURSIVE Write(_, _)
RECURSIVE sockbuf_delete(_, _)
RECURSIVE partymember_delete(_, _, _)

\* A handler of m is called: it writes to the idx of its session.
Tell(y, m) == IF y.sess[y.mem[m].at].st = "none" THEN Fault(y, "handler")
              ELSE Write(y, y.mem[m].at)

\* chan_msg without the bots: everybody on c is written to, which shows when
\* a peer is gone.
chan_msg(y, c) ==
  LET tell(z, e) == IF Live(z, e.p) /\ Local(z, e.p) THEN Tell(z, e.p) ELSE z
      next(z, i) == IF z.chan[c][i].del = 1 THEN z ELSE tell(z, z.chan[c][i])
  IN  IF \A x \in Conns : y.sock[x] # "broken" THEN y
      ELSE FoldLeft(next, y, [i \in DOMAIN y.chan[c] |-> i])

\* putlog with the channel "*", as on_putlog passes it on.
on_putlog(y) == chan_msg(y, Main)

\* botnet_recursive_delete, botnet_delete and idx_on_eof of the bot's link.
botnet_delete(y) ==
  LET lose(z, m) == partymember_delete(z, m, 1)
      lost == IF y.dangling = 1 THEN Fault(y, "partys") ELSE FoldLeft(lose, y, y.partys)
      gone == [lost EXCEPT !.sock[Bot] = "none", !.known = {}, !.partys = <<>>]
  IN  on_putlog(gone)

\* Write to a socket: sockbuf_real_write, sockbuf_got_eof and the on_eof of
\* whoever owns it.
Write(y, x) ==
  LET z == [y EXCEPT !.sock[x] = "closed"]
  IN  IF y.sock[x] # "broken" THEN y
      ELSE IF x = Bot THEN botnet_delete(on_putlog(z))
      ELSE IF z.sess[x].party # 0 THEN partymember_delete(z, z.sess[x].party, 0)
      ELSE sockbuf_delete(z, x)

\* sockbuf_delete with telnet_on_delete and kill_session.
sockbuf_delete(y, s) ==
  LET z == [y EXCEPT !.sock[s] = "none"]
      p == z.sess[s].party
      quit == IF p = 0 THEN z ELSE partymember_delete(z, p, 0)
  IN  IF y.sock[s] = "none" THEN y ELSE [quit EXCEPT !.sess[s] = NoSession]

\* A bot that is linked hears of our members.
Announce(y, change) ==
  IF Linked(y) THEN Write([y EXCEPT !.known = change], Bot) ELSE y
\* Mutant: the quit is not passed on.
BugQuitUntold(y, m) == y
botnet_member_quit(y, m) == Announce(y, y.known \ Pairs(m))

\* telnet's on_quit, which deletes the sockbuf.
\* Mutant: the connection is left open.
BugStaysOpen(y, s) == Write(y, s)
on_quit(y, s) == IF y.sess[s].st = "none" THEN Fault(y, "quit")
                 ELSE sockbuf_delete(Write(y, s), s)

\* Everybody who shares a channel with m hears that it quits; those of a lost
\* bot quit unseen.
TellQuit(y, m, lost) ==
  LET hear(z, q) == IF ~ Live(z, q) THEN z
                    ELSE LET told == [z EXCEPT !.shown[q] = @ \ Pairs(m)]
                         IN  IF lost = 1 THEN told ELSE Tell(told, q)
  IN  FoldLeft(hear, y, partychan_get_common(y, m))
\* A list in which the entry of m is deleted.
Marked(l, m) == [i \in DOMAIN l |-> IF l[i] = Entry(m) THEN [l[i] EXCEPT !.del = 1] ELSE l[i]]
\* Off all channels.
LeaveAll(y, m) ==
  [y EXCEPT !.chan = [c \in Chans |-> IF Contains(y.mem[m].chans, c) THEN Marked(@[c], m) ELSE @[c]],
            !.mem[m].chans = <<>>, !.shown[m] = {}]
\* The member itself is told, and its owner deletes the sockbuf.
OwnQuit(y, m) == IF y.mem[m].at = Bot THEN y ELSE on_quit(y, y.mem[m].at)

\* partymember_delete: to the bots, to everybody else, off the channels, and to
\* the member itself.
partymember_delete(y, m, lost) ==
  LET quit == IF lost = 0 /\ y.mem[m].chans # <<>> /\ Local(y, m)
                THEN botnet_member_quit(y, m) ELSE y
      marked == [quit EXCEPT !.mem[m].st = "deleted", !.n = @ - 1]
  IN  IF ~ Live(y, m) THEN y
      ELSE OwnQuit(LeaveAll(TellQuit(marked, m, lost), m), m)

\* partychan_join, which ignores member 0; with linking set nobody is told.
partychan_join(y, c, m, linking) ==
  LET added == [y EXCEPT !.chan[c] = Append(@, Entry(m)), !.mem[m].chans = Append(@, c)]
      tell(z, q) == Tell([z EXCEPT !.shown[q] = IF Local(z, m) THEN @ \cup {<<m, c>>} ELSE @], q)
      next(z, i) == LET e == z.chan[c][i]
                    IN  IF e.del = 1 \/ ~ Live(z, e.p) \/ ~ Local(z, e.p) \/ linking = 1
                          THEN z ELSE tell(z, e.p)
      told == FoldLeft(next, added, [i \in DOMAIN added.chan[c] |-> i])
      \* A bot does not know a member whose quit it was told first.
      known == IF Live(told, m) THEN told.known \cup {<<m, c>>} ELSE told.known
  IN  IF m = 0 \/ Ison(y, c, m) THEN y
      ELSE IF Local(y, m) THEN Announce(told, known) ELSE told

\* partychan_part, of a live member, who need not be on the channel.
partychan_part(y, c, m) ==
  LET off == [y EXCEPT !.mem[m].chans = SelectSeq(@, LAMBDA d : d # c),
                       !.chan[c] = Marked(@, m),
                       !.shown[m] = {q \in @ : q[2] # c}]
      own == IF Local(off, m) THEN Tell(off, m) ELSE off
      next(z, i) == LET e == z.chan[c][i]
                    IN  IF e.del = 1 \/ ~ Live(z, e.p) \/ ~ Local(z, e.p) THEN z
                        ELSE Tell([z EXCEPT !.shown[e.p] = @ \ {<<m, c>>}], e.p)
      told == FoldLeft(next, own, [i \in DOMAIN own.chan[c] |-> i])
  IN  IF Local(y, m) THEN Announce(told, told.known \ {<<m, c>>}) ELSE told

\* Where memory for a member comes from.
NextSlot(y) == {m \in Members : y.mem[m].st = "free" /\ \A k \in 1 .. m - 1 : y.mem[k].st # "free"}

\* partymember_new for a session or the bot.  It makes no member, here m = 0,
\* for a user that is a bot.
partymember_new(y, m, at) ==
  LET new == [y EXCEPT !.mem[m] = [st |-> "live", at |-> at, chans |-> <<>>], !.n = @ + 1]
  IN  IF m = 0 THEN y
      ELSE IF at = Bot THEN [new EXCEPT !.partys = <<m>> \o @] ELSE Announce(new, new.known)

-----------------------------------------------------------------------------
\* Events.  A handler that goes on with a session that is gone is undefined.
Becomes(y) == w.fault = None /\ w' = y /\ UNCHANGED breaks
Step(y) == Becomes(y) /\ UNCHANGED moves
Move(y) == Becomes(y) /\ moves < MaxMoves /\ moves' = moves + 1
Room(c) == Len(w.chan[c]) < MaxEntries
Session(s, st) == w.sess[s].st = st
Uses(y, s, where) == IF y.sess[s].st = "none" THEN Fault(y, where) ELSE y

\* process_results once both lookups have answered; known: the host is a user's.
process_results(y, s, known) ==
  IF y.sess[s].lookups > 0 \/ y.sess[s].st # "resolve" THEN y
  ELSE IF known = 0 THEN sockbuf_delete(y, s)
  ELSE LET z == Uses(Write(y, s), s, "resolve")
       IN  IF z.fault # None THEN z ELSE [z EXCEPT !.sess[s].st = "nick"]

\* telnet_on_newclient; a lookup may end before the call that starts it returns.
telnet_on_newclient(s) ==
  /\ w.sock[s] = "none"
  /\ \E stealth \in Stealth, known \in {0, 1} : \E lookups \in 0 .. 2 * stealth :
       LET new == [w EXCEPT !.sock[s] = "up",
                            !.sess[s] = [NoSession EXCEPT !.lookups = lookups, !.timer = 1,
                                           !.st = IF stealth = 1 THEN "resolve" ELSE "nick"]]
       IN  Move(Uses(process_results(new, s, known), s, "newclient"))

\* ident_result and dns_result.
LookupResult(s) ==
  /\ w.sess[s].lookups > 0
  /\ \E known \in {0, 1} : Step(process_results([w EXCEPT !.sess[s].lookups = @ - 1], s, known))

\* telnet_on_read while logging in.
ReadNick(s) ==
  /\ Session(s, "nick")
  /\ Step(Uses(Write([w EXCEPT !.sess[s].st = "pass"], s), s, "nick"))

\* A login is not refused when its user is a bot: it goes on without a member.
ReadPassword(s) ==
  LET y == Uses(Write(w, s), s, "password")
      again == [y EXCEPT !.sess[s].count = @ + 1, !.sess[s].st = "nick"]
      enter(m) == LET new == partymember_new([y EXCEPT !.sess[s].timer = 0], m, s)
                  IN  partychan_join([new EXCEPT !.sess[s].party = m, !.sess[s].st = "party"], Main, m, 0)
  IN  /\ Session(s, "pass")
      /\ \/ y.fault # None /\ Step(y)
         \/ y.fault = None /\ y.sess[s].count < MaxRetries /\ Step(again)
         \/ y.fault = None /\ y.sess[s].count >= MaxRetries /\ Step(sockbuf_delete(again, s))
         \/ y.fault = None /\ Room(Main) /\ \E m \in NextSlot(w) \cup {0} : Step(enter(m))

\* The login timer of socktimer.c.
LoginTimeout(s) == w.sess[s].timer = 1 /\ Step(sockbuf_delete(w, s))

\* partyline_on_input: text, or one of the commands of core_party.c.
Input(s, p) == Session(s, "party") /\ w.sess[s].party = p

PublicText(s, p) ==
  /\ Input(s, p) /\ w.mem[p].chans # <<>>
  /\ LET told == chan_msg(w, Last(w.mem[p].chans)) IN Step(Announce(told, told.known))
party_join(s, p, c) == Input(s, p) /\ Room(c) /\ Move(partychan_join(w, c, p, 0))
party_part(s, p, c) == Input(s, p) /\ Move(partychan_part(w, c, p))
party_quit(s, p) == Input(s, p) /\ Step(partymember_delete(Tell(w, p), p, 0))

\* party_minus_user and on_udelete: every login of a user is deleted.
party_minus_user(s, p, ms) ==
  LET del(y, m) == partymember_delete(y, m, 0)
  IN  /\ Input(s, p) /\ \A m \in ms : Live(w, m) /\ Local(w, m)
      /\ Step(FoldLeft(del, Tell(w, p), SetToSeq(ms)))

\* poll reports that the peer is gone.
Eof(x) == w.sock[x] = "broken" /\ Step(Write(w, x))

\* The network: a peer goes away.
Break(x) ==
  /\ w.fault = None /\ w.sock[x] = "up" /\ breaks < MaxBreaks
  /\ w' = [w EXCEPT !.sock[x] = "broken"] /\ breaks' = breaks + 1
  /\ UNCHANGED moves

\* botnet_new and botnet_replay_net.
BotLinks ==
  /\ w.sock[Bot] = "none"
  /\ LET told == on_putlog(w)
         burst == {q \in Members \X Chans :
                     Live(told, q[1]) /\ Local(told, q[1]) /\ Contains(told.mem[q[1]].chans, q[2])}
     IN  Step([told EXCEPT !.sock[Bot] = "up", !.known = burst])

\* What the bot says of a member it brought; the list of its members is
\* searched first.
Searched(y) == IF w.dangling = 1 THEN Fault(w, "partys") ELSE y
FromBot(y) == Linked(w) /\ Step(Searched(y))
Remote(m) == Live(w, m) /\ w.mem[m].at = Bot

got_login == Linked(w) /\ \E m \in NextSlot(w) : Move(Searched(partymember_new(w, m, Bot)))
got_join(m, c, netburst) == Remote(m) /\ Room(c) /\ Linked(w) /\ Move(Searched(partychan_join(w, c, m, netburst)))
got_part(m, c) == Remote(m) /\ Linked(w) /\ Move(Searched(partychan_part(w, c, m)))
got_quit(m) == Remote(m) /\ w.mem[m].chans # <<>> /\ FromBot(partymember_delete(w, m, 0))
got_nick(m) ==
  LET hear(y, q) == IF Live(y, q) THEN Tell(y, q) ELSE y
  IN  Remote(m) /\ FromBot(FoldLeft(hear, w, partychan_get_common(w, m)))

partychan_cleanup(y) == [c \in Chans |-> Listed(y, c)]

\* garbage_run: partymember_cleanup and partychan_cleanup.  A member that is
\* the first of its bot lost its bot before, so the list still begins with it.
garbage_run ==
  LET dead == {m \in Members : w.mem[m].st = "deleted"}
      Kept(l) == SelectSeq(l, LAMBDA m : m \notin dead)
  IN  /\ dead # {} \/ \E c \in Chans : \E i \in DOMAIN w.chan[c] : w.chan[c][i].del = 1
      /\ Step([w EXCEPT !.mem = [m \in Members |-> IF m \in dead THEN NoMember ELSE @[m]],
                        !.chan = partychan_cleanup(w),
                        !.dangling = IF w.partys # <<>> /\ Head(w.partys) \in dead THEN 1 ELSE @,
                        !.partys = Kept(@)])

Restart == w.fault # None /\ w' = Fresh /\ UNCHANGED <<breaks, moves>>

Next ==
  \/ \E s \in Sessions :
       \/ telnet_on_newclient(s) \/ LookupResult(s)
       \/ ReadNick(s) \/ ReadPassword(s) \/ LoginTimeout(s)
       \/ \E p \in Members :
            \/ PublicText(s, p) \/ party_quit(s, p)
            \/ \E c \in Chans : party_join(s, p, c) \/ party_part(s, p, c)
            \/ \E ms \in SUBSET Members : ms # {} /\ party_minus_user(s, p, ms)
  \/ \E x \in Conns : Eof(x) \/ Break(x)
  \/ BotLinks \/ got_login
  \/ \E m \in Members :
       \/ got_quit(m) \/ got_nick(m)
       \/ \E c \in Chans : got_part(m, c) \/ \E netburst \in {0, 1} : got_join(m, c, netburst)
  \/ garbage_run \/ Restart

Spec == Init /\ [][Next]_vars

-----------------------------------------------------------------------------
\* Outside of a handler, a member is on the list of a channel exactly when the
\* channel is on its own list, once, and npartymembers, which partymember_who
\* allocates by, counts the members (partymember.c, partychan.c).
MembershipMutual == w.fault = None =>
  /\ \A m \in Members, c \in Chans :
       LET mine == Cardinality({i \in DOMAIN w.mem[m].chans : w.mem[m].chans[i] = c})
           theirs == Cardinality({i \in DOMAIN w.chan[c] : w.chan[c][i] = Entry(m)})
       IN  mine = theirs /\ mine <= 1 /\ (mine = 1 => Live(w, m))
  /\ w.n = Cardinality({m \in Members : Live(w, m)})

\* A session that logged in has the member made for it, none when its user is a
\* bot, and a member its session, however they end: by quitting, by a failing
\* write inside somebody else's message, by a deleted user or a timeout; one that
\* has not logged in has a timer (telnetparty.c).
SessionsMatch == w.fault = None =>
  \A s \in Sessions :
    LET x == w.sess[s]
    IN  /\ {m \in Members : Live(w, m) /\ w.mem[m].at = s} =
             IF x.st = "party" THEN {x.party} \ {0} ELSE {}
        /\ (x.st = "none") = (w.sock[s] = "none")
        /\ w.sock[s] # "closed"
        /\ (x.timer = 1) = (x.st \in {"resolve", "nick", "pass"})

\* A local member whom a user was told to be on a channel, and not told to have
\* left, is there, whatever fails while everybody is being told.
ShownAreThere == w.fault = None =>
  \A q \in Members : Live(w, q) /\ Local(w, q) =>
    \A x \in w.shown[q] : Live(w, x[1]) /\ Contains(w.mem[x[1]].chans, x[2])

\* A bot that is linked has been told of exactly the channels our members are on.
BotsTold == w.fault = None /\ Linked(w) =>
  w.known = {x \in Members \X Chans :
               Live(w, x[1]) /\ Local(w, x[1]) /\ Contains(w.mem[x[1]].chans, x[2])}
=============================================================================
