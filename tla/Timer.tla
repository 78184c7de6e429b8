------------------------------- MODULE Timer -------------------------------
(***************************************************************************)
(* The timers of lib/eggdrop/timer.c and the part of the main loop         *)
(* (src/main.c) that drives them:                                          *)
(*                                                                         *)
(*   timer_update_now -> timer_run -> timer_get_shortest -> poll           *)
(*                                                                         *)
(* timer_run unlinks the head of the list BEFORE it calls the callback and *)
(* links a repeating timer again after the callback returned, so the       *)
(* callback runs while its own timer is in no list.  Callbacks, and the    *)
(* socket handlers that run while the loop is in poll, may call every      *)
(* function of the interface.  A time is a pair of seconds and             *)
(* microseconds; a trigger time is made by adding the fields separately,   *)
(* and scripts may ask for any number of either.                           *)
(***************************************************************************)
EXTENDS Integers, Sequences, SequencesExt

CONSTANTS
  Usec,       \* microseconds in a second (1000000)
  MaxId,      \* the largest int
  MaxSec,     \* bound: the clock shows seconds 0 .. MaxSec
  MaxTimers,  \* bound: timers in the list
  Howlongs,   \* the delays callers ask for
  Modules,    \* modules that own timers
  Scripts,    \* scripts within a module
  None        \* the NULL pointer

ASSUME UsecAssumption == Usec \in Nat \ {0}
ASSUME MaxIdAssumption == MaxId \in Nat \ {0}
ASSUME BoundsAssumption == MaxSec \in Nat /\ MaxTimers \in Nat
ASSUME HowlongsAssumption == Howlongs \subseteq [sec : Int, usec : Int]

VARIABLES
  now,         \* the program's idea of the time
  list,        \* timer_list_head and what hangs off it
  running,     \* the timer whose callback runs, unlinked, or None
  phase,       \* where the main loop is: "run", "callback" or "poll"
  next_id,     \* timer_next_id; 0 stands for the negative values after overflow
  wraparound   \* the static flag of timer_create_complex

vars == <<now, list, running, phase, next_id, wraparound>>

Ids == 1 .. MaxId

Times == [sec : 0 .. MaxSec, usec : 0 .. Usec - 1]

\* The flag of a timer that is linked again after it ran.
TIMER_REPEAT == 1

Owners == (Modules \X (Scripts \cup {None})) \cup {None}

Timers == [id : Ids, trigger : [sec : Int, usec : Int],
           howlong : Howlongs, flags : {0, TIMER_REPEAT}, owner : Owners]

ASSUME NoneAssumption == None \notin Timers

\* The order the list is kept in: seconds first, then microseconds.
Before(a, b) == \/ a.sec < b.sec
                \/ a.sec = b.sec /\ a.usec < b.usec

\* The instant a time really denotes, also when usec is a second or more.
Instant(a) == a.sec * Usec + a.usec

\* timer_run's test on the head of the list.
Due(t) == ~ Before(now, t.trigger)

timer_diff(from, to) ==
  CASE to.sec < from.sec -> [sec |-> 0, usec |-> 0]
    [] to.sec >= from.sec /\ to.usec >= from.usec ->
         [sec |-> to.sec - from.sec, usec |-> to.usec - from.usec]
    [] to.sec = from.sec /\ to.usec < from.usec -> [sec |-> 0, usec |-> 0]
    [] OTHER -> [sec |-> to.sec - from.sec - 1, usec |-> to.usec - from.usec + Usec]

\* Mutant: links at the head whatever the times are.
BugLinksFirst(l, t, new) == new = InsertAt(l, 1, t)

\* new is l with t linked in before the first timer that triggers later.
timer_add_to_list(l, t, new) ==
  \E p \in 1 .. Len(l) + 1 :
    /\ \A i \in 1 .. p - 1 : ~ Before(t.trigger, l[i].trigger)
    /\ p <= Len(l) => Before(t.trigger, l[p].trigger)
    /\ new = InsertAt(l, p, t)

\* new is what is left of l, in l's order, when only the positions keep stay.
Keeps(l, keep, new) ==
  \E n \in 0 .. Len(l) :
    \E f \in [1 .. n -> 1 .. Len(l)] :
      /\ \A i, j \in 1 .. n : i < j => f[i] < f[j]
      /\ {f[i] : i \in 1 .. n} = keep
      /\ new = [i \in 1 .. n |-> l[f[i]]]

-----------------------------------------------------------------------------

\* The state in which the main loop is first entered: no timer, clock read.
Init ==
  /\ now \in Times
  /\ list = <<>>
  /\ running = None
  /\ phase = "poll"
  /\ next_id = 1
  /\ wraparound = 0

\* The phases in which code outside timer.c runs and may call it.
ClientRuns == phase \in {"callback", "poll"}

\* The loop comes back from poll and reads the clock, which may also have
\* been set back.
timer_update_now ==
  /\ phase = "poll"
  /\ now' \in Times
  /\ phase' = "run"
  /\ UNCHANGED <<list, running, next_id, wraparound>>

\* The k-th id tried from next_id on, past INT_MAX back to 1.
Candidate(from, k) == IF from + k <= MaxId THEN from + k ELSE from + k - MaxId

InList(id) == \E i \in 1 .. Len(list) : list[i].id = id

\* Mutant: does not search the list after an overflow.
BugNoSearch(id) == id = IF next_id < 1 THEN 1 ELSE next_id

\* The id a new timer gets; only after an overflow is the list searched.
NewId(id) ==
  LET from == IF next_id < 1 THEN 1 ELSE next_id
  IN  IF wraparound = 1 \/ next_id < 1
        THEN \E k \in 0 .. MaxId - 1 :
               /\ id = Candidate(from, k)
               /\ ~ InList(id)
               /\ \A j \in 0 .. k - 1 : InList(Candidate(from, j))
        ELSE id = from

timer_create_complex(howlong, flags, owner) ==
  /\ ClientRuns
  /\ Len(list) < MaxTimers
  /\ \E id \in Ids :
       LET at == [sec |-> now.sec + howlong.sec, usec |-> now.usec + howlong.usec]
           t == [id |-> id, trigger |-> at, howlong |-> howlong,
                 flags |-> flags, owner |-> owner]
       IN  /\ NewId(id)
           /\ timer_add_to_list(list, t, list')
           /\ next_id' = IF id = MaxId THEN 0 ELSE id + 1
  /\ wraparound' = IF next_id < 1 THEN 1 ELSE wraparound
  /\ UNCHANGED <<now, running, phase>>

\* Unlinks the first timer with this id.  A timer whose callback runs is not
\* found, and nothing changes.
timer_destroy(id) ==
  /\ ClientRuns
  /\ \E p \in DOMAIN list :
       /\ list[p].id = id
       /\ \A i \in 1 .. p - 1 : list[i].id # id
       /\ Keeps(list, DOMAIN list \ {p}, list')
  /\ UNCHANGED <<now, running, phase, next_id, wraparound>>

timer_destroy_all ==
  /\ ClientRuns
  /\ list' = <<>>
  /\ UNCHANGED <<now, running, phase, next_id, wraparound>>

\* A module (script = None) or one script of a module is unloaded.
timer_destroy_by_owner(module, script) ==
  LET mine == {i \in DOMAIN list :
                 /\ list[i].owner # None
                 /\ list[i].owner[1] = module
                 /\ script = None \/ list[i].owner[2] = script}
  IN  /\ ClientRuns
      /\ Keeps(list, DOMAIN list \ mine, list')
      /\ UNCHANGED <<now, running, phase, next_id, wraparound>>

\* timer_run unlinks a due head and calls its callback.
RunHead ==
  /\ phase = "run"
  /\ list # <<>>
  /\ Due(Head(list))
  /\ running' = Head(list)
  /\ list' = Tail(list)
  /\ phase' = "callback"
  /\ UNCHANGED <<now, next_id, wraparound>>

\* Mutant: not advanced at all.
BugNotAdvanced(t) == t.trigger

\* The next trigger time of a repeating timer.
NextTrigger(t) ==
  LET sec == t.trigger.sec + t.howlong.sec
      usec == t.trigger.usec + t.howlong.usec
  IN  IF usec >= Usec THEN [sec |-> sec + 1, usec |-> usec - Usec]
                      ELSE [sec |-> sec, usec |-> usec]

\* The callback returns: a repeating timer is linked again, another is freed.
CallbackReturns ==
  /\ phase = "callback"
  /\ IF running.flags = TIMER_REPEAT
       THEN timer_add_to_list(list, [running EXCEPT !.trigger = NextTrigger(running)], list')
       ELSE list' = list
  /\ running' = None
  /\ phase' = "run"
  /\ UNCHANGED <<now, next_id, wraparound>>

\* Mutant: looks at the timer at the wrong end of the list.
BugLastTimer(l) ==
  IF l = <<>> THEN [sec |-> 1, usec |-> 0] ELSE timer_diff(now, Last(l).trigger)

\* timer_get_shortest; main.c waits one second when there is no timer.
timer_get_shortest(l) ==
  IF l = <<>> THEN [sec |-> 1, usec |-> 0] ELSE timer_diff(now, Head(l).trigger)

\* No due timer is left at the head: timer_run returns and the loop polls.
RunReturns ==
  /\ phase = "run"
  /\ list # <<>> => ~ Due(Head(list))
  /\ phase' = "poll"
  /\ UNCHANGED <<now, list, running, next_id, wraparound>>

Client ==
  \/ \E h \in Howlongs, f \in {0, TIMER_REPEAT}, o \in Owners : timer_create_complex(h, f, o)
  \/ \E id \in Ids : timer_destroy(id)
  \/ timer_destroy_all
  \/ \E m \in Modules, s \in Scripts \cup {None} : timer_destroy_by_owner(m, s)

Loop == timer_update_now \/ RunHead \/ CallbackReturns \/ RunReturns

Next == Client \/ Loop

\* The main loop never stops on its own and callbacks return.
Fairness == /\ WF_vars(timer_update_now)
            /\ WF_vars(RunHead)
            /\ WF_vars(CallbackReturns)
            /\ WF_vars(RunReturns)

Spec == Init /\ [][Next]_vars

FairSpec == Spec /\ Fairness

-----------------------------------------------------------------------------

TypeOK ==
  /\ now \in Times
  /\ list \in Seq(Timers)
  /\ running \in Timers \cup {None}
  /\ phase \in {"run", "callback", "poll"}
  /\ (phase = "callback") <=> (running # None)
  /\ next_id \in 0 .. MaxId
  /\ wraparound \in {0, 1}

\* A list in which no timer stands behind one that triggers later.
SortedList(l) == \A i, j \in 1 .. Len(l) : i < j => ~ Before(l[j].trigger, l[i].trigger)

\* No two timers of a list have one id.
DistinctIds(l) == \A i, j \in 1 .. Len(l) : i # j => l[i].id # l[j].id

\* The list is sorted field by field, through every insertion by a callback
\* and every re-insertion of a repeating timer.
Sorted == SortedList(list)

\* How far a time's microseconds lie above, and below, the field they belong in.
Over(a) == IF a.usec > Usec THEN a.usec - Usec ELSE 0
Under(a) == IF a.usec < 0 THEN - a.usec ELSE 0

\* "We keep a sorted list of active timers" (timer.c:32), by the instants the
\* trigger times denote: true but for the microseconds that timer_create_complex
\* (timer.c:175) added without a carry, and no timer is further out of place
\* than by those.  A timer that asked for whole seconds never has any.
SortedByInstant ==
  /\ \A i, j \in DOMAIN list : i < j =>
       Instant(list[i].trigger) <= Instant(list[j].trigger) + Over(list[i].trigger) + Under(list[j].trigger)
  /\ \A i \in DOMAIN list : list[i].howlong.usec = 0 => list[i].trigger.usec \in 0 .. Usec - 1

\* "Make sure the timer uid is really unique" (timer.c:147): no two live
\* timers, the running one included, have one id.
UniqueIds ==
  /\ DistinctIds(list)
  /\ running # None => ~ InList(running.id)

\* Why ids are unique before an overflow: timer_next_id is above every live id.
FreshIds ==
  wraparound = 0 =>
    /\ UniqueIds
    /\ next_id # 0 =>
         /\ \A i \in 1 .. Len(list) : list[i].id < next_id
         /\ running # None => running.id < next_id

\* The inductive invariant of the proofs.
IInv == TypeOK /\ Sorted /\ FreshIds

\* Before timer_next_id overflows all live ids are unique.  After it they stay
\* so, although the search for a free id (timer.c:151-162) sees the list only,
\* but for one case: a callback creates a timer that gets the id of the timer
\* it runs for, which is in no list.  Only when that timer is linked again are
\* there two of one id in the list.
IdsStayUnique ==
  /\ [](wraparound = 0 => UniqueIds)
  /\ [][UniqueIds => /\ DistinctIds(list')
                     /\ UniqueIds' \/ (phase = "callback" /\ wraparound' = 1)]_vars

\* When timer_run returns, no timer anywhere in the list is due.
NoneDueAfterRun ==
  [][phase = "run" /\ phase' = "poll" => \A i \in DOMAIN list : ~ Due(list[i])]_vars

\* The wait computed from the head alone ends no later than any timer, but for
\* the microseconds that were added without a carry to the head's time.
PollWakesInTime ==
  [][phase = "run" /\ phase' = "poll" =>
       \A i \in DOMAIN list :
         Instant(now) + Instant(timer_get_shortest(list)) <=
           Instant(list[i].trigger) + Over(list[1].trigger) + Under(list[i].trigger)]_vars

\* timer_run returns although repeating timers are linked again at once.
RunTerminates == phase = "run" ~> phase = "poll"

=============================================================================
