---------------------------- MODULE OutputQueue ----------------------------
(***************************************************************************)
(* The output queues of modules/server/output.c as the doubly linked lists *)
(* they are, with the entries that are recycled through unused_queue, and  *)
(* the script commands of scriptcmds.c that look into them.                *)
(***************************************************************************)
EXTENDS Integers, Sequences, FiniteSets

CONSTANTS
  Bodies,   \* what lines say, apart from the ':' marks in them
  Entries,  \* bound: queue entries that calloc can hand out
  Nil,      \* NULL, and no line
  Other     \* a line a "server_output" bind made up

\* A line is "marked" when it says what it says only because of a ':', the one
\* of its prefix or the one before a last argument that has no space in it and
\* is empty or begins with ':' itself; "stripped" is such a line without that ':'.
Msgs == [body : Bodies, form : {"sound", "marked", "stripped"}]

\* The lines the program and its scripts send.
Lines == {m \in Msgs : m.form # "stripped"}

ASSUME NilAssumption == Nil \notin Entries /\ Nil \notin Msgs
ASSUME EntriesAssumption == IsFiniteSet(Entries)

QueueNums == 0 .. 5
Unused == 6

SERVER_NOQUEUE == 1
SERVER_QUICK == 2
SERVER_NORMAL == 3
SERVER_SLOW == 4
SERVER_NEXT == 8

VARIABLES
  queue,     \* output_queues and unused_queue: head, tail and len
  next, prev,
  msg,       \* q->msg of every entry
  alloc,     \* the entries calloc has returned
  offered,   \* the last line handed to do_output, and to the binds
  out,       \* what do_output then handed to sockbuf_write
  ring       \* history: an entry was inserted in front of one that had been
             \* inserted in front of before, and the list has become a ring

links == <<queue, next, prev>>
lines == <<offered, out>>
queueVars == <<queue, next, prev, msg, alloc, offered, out, ring>>

\* The lists as a value, for operations that do several things to them.
Lists == [queue |-> queue, next |-> next, prev |-> prev]

Become(l) == queue' = l.queue /\ next' = l.next /\ prev' = l.prev

QueueInit ==
  /\ queue = [q \in QueueNums \cup {Unused} |-> [head |-> Nil, tail |-> Nil, len |-> 0]]
  /\ next = [e \in Entries |-> Nil]
  /\ prev = [e \in Entries |-> Nil]
  /\ msg = [e \in Entries |-> Nil]
  /\ alloc = {}
  /\ offered = Nil
  /\ out = Nil
  /\ ring = FALSE

queue_append(l, q, e) ==
  LET tail == l.queue[q].tail
  IN  [queue |-> [l.queue EXCEPT ![q].head = IF tail = Nil THEN e ELSE @, ![q].tail = e,
                                 ![q].len = @ + 1],
       next |-> [x \in Entries |-> IF x = e THEN Nil ELSE IF x = tail THEN e ELSE l.next[x]],
       prev |-> [l.prev EXCEPT ![e] = tail]]

\* Mutant: the tail is left dangling when the last entry goes.
BugTailStays(l, q, e) ==
  LET n == l.next[e]
      p == l.prev[e]
  IN  [queue |-> [l.queue EXCEPT ![q].head = IF p = Nil THEN n ELSE @, ![q].len = @ - 1],
       next |-> IF p = Nil THEN l.next ELSE [l.next EXCEPT ![p] = n],
       prev |-> IF n = Nil THEN l.prev ELSE [l.prev EXCEPT ![n] = p]]

queue_unlink(l, q, e) ==
  LET n == l.next[e]
      p == l.prev[e]
  IN  [queue |-> [l.queue EXCEPT ![q].tail = IF n = Nil THEN p ELSE @,
                                 ![q].head = IF p = Nil THEN n ELSE @, ![q].len = @ - 1],
       next |-> IF p = Nil THEN l.next ELSE [l.next EXCEPT ![p] = n],
       prev |-> IF n = Nil THEN l.prev ELSE [l.prev EXCEPT ![n] = p]]

\* queue_new: a recycled entry if there is one.
queue_new(l, e) ==
  LET spare == queue[Unused].head
  IN  \/ spare # Nil /\ e = spare /\ l = queue_unlink(Lists, Unused, e) /\ UNCHANGED alloc
      \/ spare = Nil /\ e \notin alloc /\ l = Lists /\ alloc' = alloc \cup {e}

\* The lists a queue_new leaves behind, for entry e.
AfterNew(e) == IF queue[Unused].head = Nil THEN Lists ELSE queue_unlink(Lists, Unused, e)

queue_get_by_priority(priority) ==
  LET p == priority % SERVER_NEXT
      qnum == IF p < SERVER_QUICK \/ p > SERVER_SLOW THEN SERVER_SLOW ELSE p
  IN  qnum - SERVER_QUICK + (IF priority >= SERVER_NEXT THEN 3 ELSE 0)

queue_server(priority, m) ==
  \E e \in Entries :
    LET l == AfterNew(e)
    IN  /\ queue_new(l, e)
        /\ Become(queue_append(l, queue_get_by_priority(priority), e))
        /\ msg' = [msg EXCEPT ![e] = m]
        /\ UNCHANGED lines

\* A "server_output" bind may suppress the line, or replace it by way of
\* global_output_string, with nothing when it sets the empty string.
do_output(m) == offered' = m /\ out' \in {m, Other, Nil}

\* What queue_entry_to_text makes of the entry queue_entry_from_text filled: only
\* a last argument with a space gets its ':' back, and a prefix never does.
Reread(m) == IF m.form = "marked" THEN [m EXCEPT !.form = "stripped"] ELSE m

printserv(priority, m) ==
  \/ /\ priority % SERVER_NEXT = SERVER_NOQUEUE
     /\ do_output(m)
     /\ UNCHANGED <<links, msg, alloc, ring>>
  \/ /\ priority % SERVER_NEXT # SERVER_NOQUEUE
     /\ queue_server(priority, m)
     /\ UNCHANGED ring

\* The words a script may give, in either order; Nil for the ones left out.
Words == {"noqueue", "quick", "fast", "normal", "slow", "next", Nil}

QueuePriority(word) ==
  CASE word = "noqueue" -> SERVER_NOQUEUE
    [] word = "slow" -> SERVER_SLOW
    [] word = "quick" -> SERVER_QUICK
    [] OTHER -> SERVER_NORMAL

name_to_priority(first, second) ==
  CASE second = Nil -> SERVER_NORMAL
    [] first = Nil /\ second = "next" -> SERVER_NORMAL + SERVER_NEXT
    [] first = Nil /\ second # "next" -> QueuePriority(second)
    [] first = "next" -> QueuePriority(second) + SERVER_NEXT
    [] OTHER -> QueuePriority(first) + SERVER_NEXT

\* The priorities of script_putserv.  Arguments are filled from the right: without
\* a second word there is no first.
Priorities == {name_to_priority(w[1], w[2]) : w \in {v \in Words \X Words : v[2] = Nil => v[1] = Nil}}

script_putserv(m) == \E priority \in Priorities : printserv(priority, m)

\* Mutant: 'next' messages are looked at after the others.
BugNextLast(r, q) == r % 3 < q % 3 \/ (r % 3 = q % 3 /\ r < q)

\* The order in which dequeue_messages tries the queues.
TriedBefore(r, q) == r % 3 < q % 3 \/ (r % 3 = q % 3 /\ r > q)

\* The head is unlinked, written out and kept for later use.
dequeue_messages ==
  \E q \in QueueNums :
    LET e == queue[q].head
    IN  /\ e # Nil
        /\ \A r \in QueueNums : TriedBefore(r, q) => queue[r].head = Nil
        /\ Become(queue_append(queue_unlink(Lists, q, e), Unused, e))
        /\ do_output(Reread(msg[e]))
        /\ msg' = [msg EXCEPT ![e] = Nil]
        /\ UNCHANGED <<alloc, ring>>

\* The k-th entry in one direction.
Step(link, e) == IF e = Nil THEN Nil ELSE link[e]
Walk(link, start, k) ==
  LET w[j \in 0 .. k] == IF j = 0 THEN start ELSE Step(link, w[j - 1])
  IN  w[k]

\* get_queue_entry walks from the nearer end.
get_queue_entry(q, num) ==
  LET half == queue[q].len \div 2
  IN  IF num < half THEN Walk(next, queue[q].head, num)
      ELSE IF num < queue[q].len THEN Walk(prev, queue[q].tail, num - half)
      ELSE Nil

script_queue_set(q, num, m) ==
  /\ get_queue_entry(q, num) # Nil
  /\ msg' = [msg EXCEPT ![get_queue_entry(q, num)] = m]
  /\ UNCHANGED <<links, alloc, lines, ring>>

\* The new entry goes in front of e; e->prev ends up pointing to e itself.
LinkBefore(l, q, e, new) ==
  LET p == l.prev[e]
  IN  [queue |-> [l.queue EXCEPT ![q].len = @ + 1, ![q].head = IF p = Nil THEN new ELSE @],
       next |-> [x \in Entries |-> IF x = p THEN new ELSE IF x = new THEN e ELSE l.next[x]],
       prev |-> [l.prev EXCEPT ![new] = p, ![e] = e]]

script_queue_insert(q, num, m) ==
  LET e == get_queue_entry(q, num)
  IN  /\ \E new \in Entries :
           LET l == AfterNew(new)
           IN  /\ queue_new(l, new)
               /\ Become(IF e = Nil THEN queue_append(l, q, new) ELSE LinkBefore(l, q, e, new))
               /\ msg' = [msg EXCEPT ![new] = m]
      /\ ring' = (ring \/ (e # Nil /\ prev[e] = e))
      /\ UNCHANGED lines

Positions == 0 .. Cardinality(Entries)

QueueNext ==
  \/ dequeue_messages
  \/ \E m \in Lines : script_putserv(m)
  \/ \E m \in Lines, q \in QueueNums, num \in Positions :
       script_queue_set(q, num, m) \/ script_queue_insert(q, num, m)

OutputQueueSpec == QueueInit /\ [][QueueNext]_queueVars

-----------------------------------------------------------------------------

QueueTypeOK ==
  /\ queue \in [QueueNums \cup {Unused} ->
                 [head : Entries \cup {Nil}, tail : Entries \cup {Nil},
                  len : 0 .. Cardinality(Entries)]]
  /\ next \in [Entries -> Entries \cup {Nil}]
  /\ prev \in [Entries -> Entries \cup {Nil}]
  /\ msg \in [Entries -> Lines \cup {Nil}]
  /\ alloc \subseteq Entries
  /\ offered \in Msgs \cup {Nil}
  /\ out \in Msgs \cup {Other, Nil}
  /\ ring \in BOOLEAN

\* The messages that wait in a queue, as a walk from its head finds them.
Contents(q) ==
  [k \in 1 .. queue[q].len |-> LET e == Walk(next, queue[q].head, k - 1)
                               IN  IF e = Nil THEN Nil ELSE msg[e]]

Abs == INSTANCE QueueSpec WITH Nothing <- Nil, Readings <- [m \in Msgs |-> {m, Reread(m)}],
                               queues <- [q \in QueueNums |-> Contents(q)]

\* The linked lists behave as six sequences: messages are offered to the binds
\* and leave in the order of their priority, first in first out, each once, and
\* unchanged but for a ':' (Reread), however entries are recycled and messages
\* overwritten or inserted in front of others: "The message that was previously
\* at <msgnum> will be moved back in the queue" (doc/SCRIPTING-COMMANDS:239).
\* That ends with the step that makes a ring of a list.
Implements == Abs!SpecInit /\ [][Abs!SpecNext \/ ring']_(Abs!specVars)

Members(q) == {Walk(next, queue[q].head, k) : k \in 0 .. queue[q].len - 1}

\* Until then every entry that was ever allocated is in exactly one list, so none
\* leaks and none is handed out twice; length and tail agree with the walk from
\* the head, and an entry's predecessor is the one before it, or the entry itself
\* once another was inserted in front of it.
EntriesAccounted ==
  \/ ring
  \/ /\ UNION {Members(q) : q \in DOMAIN queue} = alloc
     /\ \A q, r \in DOMAIN queue : q # r => Members(q) \cap Members(r) = {}
     /\ \A q \in DOMAIN queue :
          LET w(k) == Walk(next, queue[q].head, k)
              last == queue[q].len - 1
          IN  /\ Cardinality(Members(q)) = queue[q].len
              /\ queue[q].tail = IF last < 0 THEN Nil ELSE w(last)
              /\ \A k \in 0 .. last :
                   prev[w(k)] \in IF k = 0 THEN {Nil} ELSE {w(k - 1), w(k)}

=============================================================================
