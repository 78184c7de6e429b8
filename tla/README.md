# Eggdrop 1.9 in TLA+

Eggdrop is an IRC bot. One process runs one thread. Its main loop
(`src/main.c:486-503`) reads the clock, runs the timers that are due, waits in
`poll`, delivers socket events to handlers and finally runs the clean-ups that
handlers put off. Nothing runs in parallel, but nearly everything runs
*re-entrantly*: a timer callback, a socket handler or a bind may call back into
the component that called it, destroy the object being served or start another
operation of the same kind. That, and a network that answers at once, late or
never, is what is hard about this code and what these modules look at.

Paths below are relative to `src/`. Line numbers in `PROJECT.json` ("map") give
the code of each definition.

## Inventory

| part | source | state | operations | what is hard |
|---|---|---|---|---|
| timers | `lib/eggdrop/timer.c` | sorted list, next id | create, destroy (one, all, by owner), run, shortest | callbacks change the list while it is run; carry of microseconds; overflow of ids |
| socket buffers | `lib/eggdrop/sockbuf.c` | slots, poll array, output buffers, filter chains | new, set_sock, write, close, delete, update_all | handlers delete and create sockets during the pass; slots are reused; partial writes; signals |
| bind tables | `lib/eggdrop/binds.c` | tables and entries | add, delete, modify, check | callbacks change the table being walked; popular entries move |
| garbage | `lib/eggdrop/garbage.c` | list of procedures | add, run | last in, first out; must not run under a callback |
| modules | `lib/eggdrop/module.c` | active and closed modules | load, unload, cleanup | code is unmapped while something may still call it |
| server connection | `modules/server/{server,servsock,serverlist,nicklist,input}.c` | current server, lists and positions, ping and delay counters | every second: connect, send, ping; socket events; replies; jump; list edits | late and missing answers; lists edited between a decision and its use |
| output queues | `modules/server/{output,scriptcmds}.c` | six queues and a free list | print, dequeue, script access | entries recycled among seven lists |
| outgoing connections | `lib/eggdrop/{net,socket}.c` | connect_info per attempt | connect, listen, timeout | lookup, timer and socket end one another; failure before the call returns |
| name lookups | `lib/eggdrop/dns.c` | pending queries, cache, hosts | lookup, cancel, answer | lost answers, 16 bit ids, cancellation from callbacks |
| ident | `lib/eggdrop/ident.c` | pending lookups | lookup, cancel, result | as above |
| socket filters | `lib/eggdrop/{linemode,netstring,socktimer,throttle}.c` | buffer or timer per socket | on, off, events | a filter removed by the event it passes on |
| party line | `lib/eggdrop/{partymember,partychan,partyline}.c` | members, channels, common lists | join, part, nick, delete, messages | mutual pointers, deletion in two phases |
| botnet | `lib/eggdrop/botnet.c`, `modules/{botnet,oldbotnet}` | tree of bots, links being made | link, unlink, route | subtrees vanish; flags and counts must match |
| party interfaces | `modules/{telnet,irc,dcc}party` | login state per connection | login, text, close | several asynchronous lookups per login |
| server channels | `modules/server/{channels,channel_events,uhost_cache}.c` | channels, members, host cache | join, leave, nick, mode, lists | shared counts over all channels |
| dcc | `modules/server/dcc.c` | transfers | send, accept, resume, ack | acknowledgements and timeouts |
| users | `lib/eggdrop/{users,ircmasks,flags}.c` | records, ids, list of masks, host cache, user file | add, delete, masks, flags, look up, save, load | cache and list point at records that are freed; binds inside a change; a crash while saving |
| scripting | `lib/eggdrop/script.c`, `modules/{script,tclscript,...}` | lists of commands, interpreters | create, link, load | owners of callbacks disappear |
| configuration, logs, help, helpers | `lib/eggdrop/config.c`, `src/logfile.c`, ... | trees, files | read, write | nothing over time |

The main loop calls timers and socket buffers; socket buffers call filters and
handlers; handlers parse lines and check binds; binds call modules and scripts;
scripts call everything. Deferred deletion ties the parts together: what a
callback deletes is marked, and freed by `garbage_run` at the end of the loop.

What makes each part correct:

* timers: no due timer is left behind, the wait never oversleeps a timer,
  ids name one timer;
* socket buffers: the poll array agrees with the slots, bytes leave in order
  and once, no event reaches a connection it is not about, none is lost;
* binds: a check calls each entry once and never touches freed memory;
* modules: no code is unmapped while something can call it, and the list of
  active modules is right;
* server: the bot comes back after every failure, keeps to its lists, leaves a
  server that is silent and only such a one;
* queues: messages leave in order of priority, first in first out, each once;
* outgoing connections and lookups: an attempt is reported once, as made or as
  failed, whichever of lookup, timer, socket and caller comes first; it is
  decided in the end; the peer is the one asked for; nobody keeps a pointer to
  what is freed;
* server channels: who is on a channel, who has op, which masks are set and
  which host a nick has agree with the server once its answers are read;
* botnet: the bots a bot knows form a tree whose top links are its own
  connections, two linked bots agree on what lies behind them, and the count
  and flags that hold back further attempts belong to attempts under way;
* party line: members and channels point at each other, a session and its
  member end together, users and bots are told of everything that changes,
  although telling may fail in the middle;
* dcc: what the receiver has on disk is a beginning of the file that was
  offered, and an offer is used or given up;
* users: a host finds a user who has a mask for it, whatever was cached; ids are
  permanent, through overflow and restarts; USER_BOT repeats the flag +b.

## Modules

| module | models | state and actions |
|---|---|---|
| `Timer` | timer.c and the main loop's use of it | `list`, `running` (unlinked while its callback runs), `now`, `next_id`, `wraparound`; an action per function of the interface, `RunHead`/`CallbackReturns`/`RunReturns` for the loop of `timer_run` |
| `TimerProofs` | theorems about `Timer` | |
| `SequenceLemmas` | lemmas on sequences, folds and least elements that the proofs share | |
| `Sockbuf` | sockbuf.c with the kernel as an actor | `slot` = `sockbufs[]`, `poll` = `pollfds` and `idx_array`, `i`, `n`, `cur` the local variables of `sockbuf_update_all`; between two handler calls the client actions run |
| `OutputProofs` | theorems about `Sockbuf` and `OutputQueue`, its refinement of `QueueSpec` included | |
| `QueueSpec` | what the output queues promise | six sequences |
| `OutputQueue` | output.c and the queue commands of scriptcmds.c, pointer by pointer | `queue`, `next`, `prev`, `msg`; refines `QueueSpec` |
| `ServerConn` | the rest of the connection to the IRC server | `server_list`, `nick_list`, their positions, `sock`, ping and delay counters; uses the order of `QueueSpec` |
| `Binds` | binds.c and garbage.c | `table`, `entry`, `frames` (the stack of running checks), `garbage` |
| `Modules` | module.c, composed with `Binds` | `head`, `next`, `prev`, `closed`, `mapped`; `module_load`/`module_unload` with the binds a module makes and removes, `garbage_run` |
| `ModulesProofs` | theorems about `Binds` and `Modules` together | |
| `Attempt` | what `egg_connect` promises its callers | `phase` and `heard` of each idx |
| `Dns` | dns.c and a name server that loses, repeats and reorders | `queries`, `query_id`, `cache`, `dns_idx`, `wire`; the steps dns.c takes itself |
| `Net` | net.c, composed with `Dns` | `att`: idx, connect_info, lookup, timer, socket of an attempt; refines `Attempt` |
| `ConnectionProofs` | theorems about `ServerConn` and `Net` | |
| `Channels` | channels.c, channel_events.c and uhost_cache.c next to the truth on the server | `nickOf`, `on`, `ops`, `bans` are the truth, `b` the bot's data, `sent` its unanswered requests; an action per event, which changes truth and data in one step since lines are read in order, and one per answer |
| `ChannelsProofs` | theorems about `Channels` | |
| `BotLink` | botnet.c and modules/botnet/botnet.c, several bots of this code | `bot[x]`: the list with uplinks and directions, flags and `linking_bots`; `conn`: both ends' sessions and the lines between them |
| `Party` | partymember.c, partychan.c, partyline.c, modules/telnetparty and the party part of a linked bot | `w`: sockets, sessions, members, channel lists, the bot's own list |
| `Dcc` | both ends of a file transfer of modules/server/dcc.c | `snd`, `rcv` (the `dcc_send_t` of each end), `file`, `net` (a TCP connection of bounded capacity), messages over IRC that may be late or lost |
| `DccProofs` | the theorem about `Dcc` | |
| `Users` | users.c and ircmasks.c with the user file | `user` = records by place in memory, `ircmask_list`, `irchost_cache`, `g_uid`, `uid_wraparound`, `frames` = changes of flags whose binds are running, `disk`; an action per function, `FlagsChecked` for the return of the binds, `Crash` and the two ways to start |
| `UsersProofs` | theorems about `Users` | |

`MC*` modules hold the small instances for TLC. Operators named `Bug...` are
plausible mistakes: putting one in the place of the definition behind it makes
a property fail, which shows that the property can tell the difference.

In `BotLink` and `Party` one event sets off a cascade: a line is told to
everybody, a write to a peer that is gone ends that peer's session inside the
loop, which is news to be told again. There a handler is a recursive operator
from the world before to the world after, with the names of the C functions,
and an action is one event of the main loop with everything it sets off. What
is deleted stays until `garbage_run`, which is an action of its own in `Party`
and `Modules`, since further events come first.

When memory that was freed is used the process is undefined. `Party`,
`Channels` and `Users` then stop following the code (`w.fault` names the place,
`b.down` and `run` likewise) and only a restart is left; their properties speak of the time before.
The places are listed under the observations.

Abstractions. Timer: names and client data are left out, a callback is any
sequence of client calls. Sockbuf: filters are part of "the handler"; data is
numbered bytes; the table has a fixed number of slots where the code grows it;
`poll` may report any state of the kernel's sockets. Binds: masks and user
flags are the set of names that fit an event; tables with partial matches are
not modelled. Modules: a start function that fails and reference counts are
left out (they only forbid steps). ServerConn: a step of `server_secondly` is
a second; a failure inside `egg_connect` is the state "hung", since it is
reported before the handler is set (`Attempt` calls it "silent"); nick text and
005 parsing are left out. QUIT at shutdown and the sockbuf below the connection
are not modelled. Dns: an address is named after its host. Net: the
callers are those of the repository, whose `on_eof` deletes the idx.
Channels: a user is its own user@host; `stray` remembers that an answer came for
a channel the bot had left, `late` that one did since the bot connected. BotLink: a line arrives or its connection
breaks; what bots say to each other about party members is in `Party`. Party:
texts are left out, the two lookups of a login only count down. Dcc: a number stands
for a block of bytes; acknowledgements carry how many there are.
Users: of the flags only +b; what wild_match says is a constant; users of linked
bots, which cannot be deleted or change +b, are left out.

History variables (`wire` and `sent` of `Sockbuf`; `tried`,
`want`, `loaded`, `faults` of `ServerConn`; `todo`, `done`, `moved` of a frame; `stray`;
`shown` and `known` of `Party`; `resumers`, `told`, `by` of `Dcc`; `owed` and
`clash` of `Users`) only record;
no guard reads them.

## Runs

| run | question | instance |
|---|---|---|
| `timer` | order by instant, nothing due left, wake-up, termination, unique ids | 2 timers in the list and one running, ids 1..3 so that the id overflows, clock 0..2 in either direction, whole seconds, a module as owner |
| `sockbuf_safety` | poll array and POLLOUT agree with the slots, bytes in order and once | 2 slots, 2 sockets, 2 bytes, interrupts, garbage in new entries |
| `sockbuf_live` | data that can be read is read; no stale event | 2 slots, 2 sockets, no interrupts, zeroed memory |
| `queue_lists` | refinement of `QueueSpec`, no entry leaked | 3 entries, 2 messages, insertion only at the end |
| `server_conn` | jumps, pings, nicks, cycling, a silent server is left | 2 servers, 2 nicks, delays of 2 s, ping every second, 1 waiting message |
| `modules` | checks under re-entrancy, clean-up, mapped code, the list of modules | 2 entries, 2 names, 1 table, 2 modules, checks nested twice; users unload the newest module |
| `net` | one result per attempt, no dangling pointer, somebody at work, right peer, decided in the end | an address, a host of the hosts file, two names; 2 ids, 3 queries, a connection and a script |
| `channels` | members, ops, hosts and masks against the truth | the bot and a user, 3 nicks, 2 channels (symmetric), 1 mask, 5 changes, 3 requests waiting |
| `botlink` | count and flags, attempts under way, the tree, agreement of two ends | 3 bots in a line of priorities; two of them with 4 troubles (commands, ticks, failures, crashes), or three with one |
| `party` | mutual pointers, sessions and members, what users and bots were told | 2 sessions (symmetric), a bot, 3 members, 2 channels, 2 breaking connections, 3 moves; from nothing, or from two users and the bot on the party line |
| `dcc` | the file, and that an offer is used or given up | 4 blocks in chunks of 2, a connection that holds 1 or 3, 0 or 2 blocks there before, with and without timeout, 2 attempts |
| `users` | masks and cache find their users, saved users keep their ids, USER_BOT | memory for 2 users, 2 handles (symmetric), masks `*`, `*!*@*.net`, `joe!*@*.net`, 2 hosts, an int of -3..2, 2 changes of flags at a time, 5 changes, saves and crashes; from an empty bot or from one whose ids have wrapped around |

Why these bounds suffice to show the interesting cases. Order in a list needs
two elements and a third on its way in. Reuse of a slot needs one that is
deleted and another that takes its number. Queue corruption needs an entry in a
list, one in the free list and one moving. A list position goes wrong when an
entry before, at or behind it is removed, which two or three entries show. Hits
only matter by comparison. Two nested checks already reorder a table under the
outer one. Two ids for three queries make an id wrap while an old answer is on
its way. Members shared by two channels need two channels; a nick that changes hands
needs three nicks for two users. A ring of links needs three bots, a race of
two bots that call each other two. A quit that comes back to the one who quits
needs two broken connections, one of them the bot's. A chunk that is split and
one that goes out whole are a capacity below and one above a chunk. A save, a
crash and a restart leave three changes for what comes before and after; a bot
whose ids have wrapped around need not count there first. What the
bounds exclude: effects that need three of a kind at once (three-way reordering
of a table, four bots in a ring).

Fairness. `timer` and `sockbuf_live` assume weak fairness of the steps of
the main loop and of the return of callbacks: the loop has no exit but
shutdown, and C callbacks return. Nothing is assumed of clients, the kernel or
peers. `server_conn` assumes that `server_secondly` is called again and again
(a repeating timer; `Timer` shows it is kept) and that a pending connection is
made, refused or timed out, which is what `Decided` of `Net` shows. `net`
assumes only that a connect timer that is due is run. `dcc` assumes the loop
steps and timers of the two bots, and nothing of scripts, of the IRC network or
of the TCP handshake. Pongs, replies and answers are never assumed.

Deadlock is checked except in `channels`, `party`, `dcc` and `users`,
where the bound on changes, moves or attempts lets a behaviour end.

## What is proved

Every theorem holds for all values of the constants that satisfy the named
assumptions of its module: any number of timers, slots, sockets, entries,
tables, modules, hosts, connections, servers, nicks, blocks, attempts, and any
length of what is a list. Where the code keeps a promise only under a
condition, the condition is a hypothesis of the theorem and is the one the run
of the same property uses; the observations below say what goes wrong without
it.

| theorem | says | under |
|---|---|---|
| `TimerProofs!TypeCorrect` | `[]TypeOK`; not only types, since `timer_run` carries at most one second and so `usec` may not reach two | |
| `TimerProofs!ListSorted` | the list is sorted field by field after every operation, re-insertion after a callback included | |
| `TimerProofs!IdsUnique` | `UniqueBeforeWrap`: live ids are distinct until `timer_next_id` overflows | |
| `TimerProofs!NoneDue` | `NoneDueAfterRun`, although `timer_run` only looks at the head | |
| `TimerProofs!ListInOrderOfTime` | `SortedByInstant` | `WholeDelays`: delays are whole seconds |
| `TimerProofs!PollWakes` | `PollWakesInTime` | `WholeDelays` |
| `OutputProofs!PollArrayMatches` | `PollMatchesSlots` | |
| `OutputProofs!StreamsInOrder` | `InOrder` | |
| `OutputProofs!OnlyOwnEvents` | `NoInvalidEvents` | `Zeroed`: new poll entries are zeroed, no signal interrupts `poll` |
| `OutputProofs!NoEntryLost` | `EntriesAccounted` | no insertion before a waiting message |
| `OutputProofs!ListsImplementQueues` | `Implements`: the pointers implement the six sequences of `QueueSpec` | no insertion before a waiting message |
| `ConnectionProofs!JumpsLand` | `JumpTarget` | |
| `ConnectionProofs!PingsEarned` | `PingTimeoutEarned` | |
| `ConnectionProofs!NoNickSkipped` | `NicksTried` | |
| `ModulesProofs!DeletionIsDeferred` | `DeletionDeferred` | |
| `ModulesProofs!EveryEntryOnce` | `EachOnce` | |
| `ModulesProofs!LoadedAreFound` | `ModulesFound` | the newest module is unloaded first, no module forgets its binds |
| `ModulesProofs!NoCallIntoUnmapped` | `CallableMapped` | as above |
| `ConnectionProofs!TypeCorrect` | the types of the state of dns.c and net.c | |
| `ConnectionProofs!NoDanglingPointers` | `NoDangling` | |
| `ConnectionProofs!AlwaysUnderWay` | `UnderWay` | |
| `ConnectionProofs!Refinement` | `OneResult`: net.c on top of dns.c implements `Attempt` | |
| `ConnectionProofs!HeardAtMostOnce` | by the refinement, a caller hears of an attempt at most once, and of none that is under way | |
| `ConnectionProofs!PeersRight` | `RightPeer`, which speaks of the time before the 16 bits of an id are used up | |
| `DccProofs!FileIsFaithful` | `FileFaithful`, which speaks of the attempts whose own RESUME was followed | |
| `UsersProofs!UsersTypeCorrect` | the types of the state of users.c: list, cache and waiting changes point at records | |
| `UsersProofs!UsersKeepTheirIds` | `RecordsKept` | |
| `UsersProofs!BotFlagFollows` | `BotFlagAgrees` | |
| `UsersProofs!MasksAreFound` | `MasksFound`, which speaks of behaviours in which no two users share a mask and none has `*` | |
| `ChannelsProofs!ChannelsStaySound` | `ChannelsInv`: what the bot noted of each channel fits the server, as far as requests that are not answered yet allow | `Garbage = {"null"}`: the pointer that `uhost_cache_swap` leaves unset is null |
| `ChannelsProofs!MembersStayInAgreement` | `MembersAgree`, whose exact part speaks of channels no late answer was read for | as above |
| `ChannelsProofs!CacheStaysCovering` | `CacheCovers`, which speaks of the time before the first late answer | as above |
| `ChannelsProofs!MasksStaySound` | `MasksSound`, which speaks of channels no late answer was read for | as above |

None of these invariants is inductive as it stands. The arguments:

* Timers. `IInv == TypeOK /\ Sorted /\ FreshIds`. A fresh id is `next_id`, and
  nothing in "ids are distinct" says that it is not taken; `FreshIds` adds that
  it is above every live id while no overflow has happened. `NoneDue` follows
  from the guard of `RunReturns` and `Sorted`. With whole delays no trigger time
  has a `usec` of a second or more (`TrueTimes`), so the order by fields is the
  order by instants and `timer_get_shortest` sees the true minimum.
* Socket buffers. `Table` is about slots, poll array, kernel and streams, and
  every function of sockbuf.c is shown to keep it wherever it is called from:
  the poll array and the slots agree in both directions (`Agrees`), a socket is
  in one slot at most (`Held`), output waits only in a blocked sockbuf or one
  without a socket (`SlotOK`), and what the kernel took and what waits make
  together what was accepted (`Streams`). `CurInv` says that what the pass read
  of an entry is still true until a handler runs. For the events, `EventInv`
  adds that revents are only found in entries that were polled and that the
  slot being served keeps its socket or loses it for good.
* Output queues. The invariant is that there are seven sequences of entries,
  apart from each other, which the pointers represent and which together hold
  all that was allocated. Each operation of the list is shown to turn sequences
  into sequences; what QueueSpec sees is their texts, so the refinement is the
  same lemma. A walk along the pointers finds what the sequence holds
  (`WalkAlong`).
* Server. `ConnInv` adds to the properties why they stay true: a jump leaves the
  index one before its server and every edit of the list moves it along
  (`JumpInv`), a ping is outstanding whenever its time has run out (`PingInv`),
  and all nicks up to the index were tried (`NickInv`).
* Binds and modules. `BindInv`: an entry is in one list and there once
  (`Lists`); what a running check holds on to is in its table (`Held`), entries
  called are ahead of its next one and those still due are not (`Progress`);
  whatever is marked as deleted has its clean-up scheduled (`Pending`); garbage
  runs under no check (`Phases`). `ModInv`: the active modules form a list that
  is exactly what is loaded and not closed, closed modules have their clean-up
  scheduled, and the code of every entry is mapped and will stay unless the
  entry is removed before it (`Codes`).
* Connections. `IInv == NetTypeOK /\ NoDangling /\ UnderWay`; each part needs
  the others. The refinement maps idx, connect_info, socket and handler to a
  phase, and every action is one step of `Attempt` or a stutter. For the peer,
  `PeerInv` follows an address from the packet through the query and the cache
  to the attempt that asked.
* Dcc. `IInv == DccTypes /\ History /\ (Fair => Transfer)`. `History` is about
  the private messages: an attempt asks once, what is answered was followed, an
  ACCEPT of the last attempt is for a place its file reaches. `Fair` says that
  the sender followed nobody but the attempt that has the connection or may
  still get it; it is weaker than the condition of `FileFaithful` while nobody
  is connected, and a step that makes it true has kept it all along. `Transfer`
  says that the messages of an attempt are used up once it connects
  (`Settled`), and that what is in the sender's sockbuf, in the connection and
  in the file are runs of blocks that meet (`Order`).
* Users. `UsersInv == TypeInv /\ IdsInv /\ BotInv /\ MasksInv`. `IdsInv` is about
  the records and the file alike: as long as ids have not wrapped around every
  id is below the next one, in memory (`NextIsNew`) and in the file
  (`FileNextIsNew`), which is why `uid_wraparound` has to be saved; afterwards
  the search finds a free id because there are more ids than users
  (`FreeIdExists`). What is owed is in the file whether the bot is up or not
  (`OwedInFile`). `MasksInv` counts: the list holds a mask with its user as often
  as the user has it (`Complete`), which `ircmask_list_del`, blind to the user,
  keeps only because nobody else has the mask (`OwnMasks`, also of the file a
  crash leaves). `user_delete` is a fold of such removals and `user_load` one of
  insertions, so both go through their stages (`FoldStages`). Who is cached fits
  and nobody is cached only where nobody fits (`CacheRight`); a bot that is down
  has no cache.

* Channels. `ChannelsInv` has four parts. `Truth`: a nick belongs to one user at
  a time, who is on a channel has one, and ops are on their channel; without it
  a list that holds the right nicks could hold the wrong users. `DataType`, with
  the fact that the bot has a nick whenever a request is under way. `Sound`, of
  each channel: the bot believes to be on it exactly when it is (`Settled`),
  whoever is on it is listed even after late answers (`Reached`), and without
  them every entry is of a user who is there, with the right flags and a host
  that is right or still to be told by WHO (`AllRight`), and masks are listed
  once and set (`Masked`). `Counted`: until the first late answer no channel is
  astray and the cache counts a nick for each channel the bot sees it on. The
  count is the part that nothing local explains: an event that removes a user
  from several channels takes as many counts as channels listed him, which needs
  `AllRight` on all of them, and a change of nick moves the whole count to a
  nick nobody had, which needs `Truth`. Under the hypothesis on `Garbage` a
  change of nick whose old nick is not cached does nothing to the cache; with
  any other value of that pointer nothing can be said of what is read through
  it. Each action is a change of the truth together with a fold over the
  channels or over an answer's names, so each is proved in two halves: what the
  truth becomes, and, by `FoldStages`, what the data becomes channel by channel.

Facts that need induction over a list are proved by a least counterexample
(`LeastNat` of `SequenceLemmas`), since the induction theorems of the library
take an operator as a parameter, which the provers cannot instantiate.

Each inductive invariant was model-checked on an instance like that of the
component's run before it was proved.

Only model-checked: liveness (`RunTerminates`, `EventsPickedUp`,
`ServersCycled`, `Watched`, `Decided`, `OffersProgress`), which is beyond
the prover; and `BotLink` and `Party`, whose recursive handlers the prover cannot take.

## Differences between code and documentation, and other observations

Shown by other values of the constants of a run's instance:

* Timer, a script that destroys its own repeating timer in the callback: it is
  linked again and goes on (doc/internals/timers.txt:72). Delays with
  fractions: `timer_create_complex` adds microseconds without a carry
  (timer.c:175), so the list is not in the order of time and `SortedByInstant`
  fails; a repeating delay of 0 keeps `timer_run` from returning. After an
  overflow an id can be handed out that the running timer has, since only the
  list is searched.
* Sockbuf with interrupts or garbage in `sockbuf_live`: an interrupted poll
  serves old revents (sockbuf.c:807), and an entry appended by a handler has
  uninitialised `revents` (sockbuf.c:508); `NoInvalidEvents` fails.
* OutputQueue with insertion before a waiting message: `q->prev = q` should be
  `q->prev = newq` (scriptcmds.c:356); `Implements` fails.
* Modules with any order of unloading: `module_load` does not set `prev` of the
  old head (module.c:169), newer modules are lost and `ModulesFound` fails. With
  a module that, like `server`, leaves entries in another's table on close (its
  `bind_rem_list` is commented out) `CallableMapped` fails.
* BotLink with an address that is not valid: the linking count is raised
  before the attempt is refused and autolinking stops; `AttemptUnderWay` fails.
  With priorities in both directions a bot can come in while it is called and
  the handshake goes on with a NULL bot (modules/botnet/botnet.c:605).
* Channels with `Garbage = {"null", "wild"}`: `uhost_cache_swap` uses a pointer
  nobody set.
* Channels, `CacheCovers` without its condition on late answers, with nine changes
  and three channels: a member listed by a WHO that is answered after the bot left
  gives the nick back when the channel is freed, and after a change of nicks
  that takes the count of somebody who is still on a channel with the bot.
* Users, `MasksFound` without its condition on masks: `ircmask_list_del` takes
  the first entry with the mask, whosever it is, and `user_delete` also removes
  a mask `*`; the list then points at a user who is freed.
* Dcc, `FileFaithful` without its condition on whose RESUME was followed: the
  sender looks at no state when a RESUME comes, so one of an attempt that was
  given up moves its position and spoils the file.

Met while reading, and respected by the model or stated in a comment:

* Queues: `get_queue_entry` numbers the second half of a queue backwards;
  slow messages wait as long as there are others; "fast" of the documentation
  is "quick" in the code.
* Server: `start()` leaves `time_to_ping` at 0, so the first connection is
  ended as a ping timeout when it takes longer than a second (`loaded` is the
  exception in `PingTimeoutEarned`). Deleting the server or nick at the
  position makes the next one be skipped. An empty server list is looked at
  once; a server added later does not start a connection. Messages dequeued
  without a connection are lost, others survive to the next one and may be
  written before `USER`.
* Binds: a check of an exact table inside a callback of a check of the same
  table may reorder it so that the outer check calls an entry twice or not at
  all (`moved` in `EachOnce`). Adding to a table that is marked as deleted adds
  to a table about to be freed.
* Modules: `module_get_api` counts a reference that nobody gives back, so a
  module with a user of its API can never be unloaded. chanserv schedules a
  garbage procedure of its own; as garbage runs last in, first out, its code may
  be gone by then.
* Connections: when a lookup fails before `egg_connect` returns, the
  connect_info is freed and then written to (net.c). Query ids count up as an
  int but have 16 bits on the wire, so after 65536 lookups no answer is
  recognised. Negative answers are cached.
* Channels: a NAMES or WHO reply counts a member again who is already in the host
  cache (channel_events.c:143), and leaving counts one down, so the entry
  outlives the user and `get_uhost` answers with it for the next user of the
  nick, where doc/SCRIPTING-COMMANDS:250 promises "The uhost for the given nick".
  A WHO answered after the bot left adds members nobody removes.
  A NAMES reply makes cache entries without a host which the WHO reply does not
  fill in (uhost_cache.c:59), so no host is found for users who were there first.
  Ban lists are not loaded on the first join, which doc/SCRIPTING-COMMANDS:51-53
  suggests. The end of WHO does not clear its flag. `parse_chan_mode` reads
  `hasarg` before it is set for some modes.
* Botnet: the ping counter is never reset, so a link is dropped at the third
  tick. A link without password is always dropped, as five arguments are
  expected where four come. A bot that links again before `garbage_run` loses its new entry
  in the hash table. `got_unlink` calls `botnet_link`. The second loop of
  `botnet_delete_by_owner` follows the wrong list.
* Party: a remote member that quits loses its bot at once (partymember.c:230),
  so the bot's list goes on pointing at it (fault "partys"). Telnet handlers go
  on with a session that a failing write has ended (faults "newclient",
  "resolve", "nick", "password"). A member deleted while its own and the bot's
  connection are broken is deleted twice. A member without channels quits
  unannounced. `PARTY_SELECTED` hides quits nested in a change of nick.
  `partymember_shutdown` never ends while there is a member. `partychan_new`
  does not enter the channel in `cid_ht`.
* Dcc: a late ACCEPT replaces the socket of a live connection, which leaks. The
  end of a file is tested right after a write, when it cannot hold, and not when
  acknowledgements come, so a transfer that blocked once stays open at both
  ends; one that fits the connection is closed at once, and a failing
  acknowledgement at the receiver then loses the rest although the sender
  reported success. Of several acknowledgements read at once the first counts.
  A second RESUME subtracts again. `dcc_start_send` tests `!fd`. Between accept
  and `on_connect` `send->serv` may name an idx that was used again.

* Users: the list of masks is ordered by length and the cache by the strength
  wild_match gives, so a host that is looked up again may belong to another user
  than the cache said. `user_change_handle` frees the new handle instead of the
  old one. A bind that adds a channel setting to the user whose flags are being
  changed moves the array `user_set_flags` writes to. `xml_save_file` writes over
  the old file; after a crash in between the bot starts without users and the
  next save makes the loss permanent. The script command that loads users saves
  them (scriptuser.c:179). A change of flags to owner with +d leaves +d with +o.

## Not modelled

Reasons are with each component in `PROJECT.json`. In short: text handling,
parsing, hashing, dates, XML and logging are pure functions or output;
script-language modules are glue to interpreters outside the repository;
`modules/{channels,filesys,uptime}` are not built; `lib/adns`, `lib/compat` and
`intl` are third-party. Those parts are most of the lines of the repository.
Within the modelled parts: proxies, listening sockets, the line, netstring and
throttle filters (throttle.c:128 takes an entry out of the list its timer is
walking), topics and channel settings, the old botnet protocol, the ircparty and
dccparty interfaces, which are built like telnetparty, and dcc chats.

## Plan

In this order; done: 1-10 without filters, ident and proxies, and 12.

1. `Timer` with proofs. 2. `Sockbuf`. 3. `QueueSpec`, `OutputQueue`.
4. `ServerConn`. 5. `Binds`, `Modules`.
6. `Attempt`, `Dns`, `Net` with proofs. 7. `Channels`. 8. `Party`.
9. `BotLink`. 10. `Dcc`, `Users`; then socket filters, ident and proxies on top of `Net`.
11. Liveness of `BotLink`: bots that can reach each other are linked in the end.
12. Proofs: `Timer`, `Sockbuf`, `OutputQueue`, `ServerConn`, `Binds`, `Modules`,
    `Net`, `Dcc`, `Users` and `Channels` are done, every invariant of their runs
    included. `BotLink` and `Party` would need handlers without recursion.
