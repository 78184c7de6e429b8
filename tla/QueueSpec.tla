----------------------------- MODULE QueueSpec -----------------------------
(***************************************************************************)
(* What the output queues of the server module promise: six sequences of   *)
(* messages, one for each combination of priority and 'next', from which   *)
(* dequeue_messages takes one message at a time.  OutputQueue implements   *)
(* this with linked lists and recycled entries.                            *)
(***************************************************************************)
EXTENDS Integers, Sequences, SequencesExt

CONSTANTS
  Msgs,      \* the messages (text of an IRC line)
  Readings,  \* what may be left of a message that has waited
  Other,     \* a line a "server_output" bind puts in the place of another
  Nothing    \* no line: such a bind suppressed it

VARIABLES
  queues,    \* queue number -> messages, the oldest first
  offered,   \* the last line shown to the binds
  out        \* what was then handed to the socket

lines == <<offered, out>>
specVars == <<queues, offered, out>>

QueueNums == 0 .. 5

\* Quick, normal, slow; within a priority the queue of 'next' (3 .. 5) first.
ServedBefore(r, q) == r % 3 < q % 3 \/ (r % 3 = q % 3 /\ r > q)

\* The queue the next message is taken from.
Served(qs, q) ==
  /\ qs[q] # <<>>
  /\ \A r \in QueueNums : ServedBefore(r, q) => qs[r] = <<>>

SpecInit == queues = [q \in QueueNums |-> <<>>] /\ offered = Nothing /\ out = Nothing

Enqueue(q, m) == queues' = [queues EXCEPT ![q] = Append(@, m)] /\ UNCHANGED lines

\* A line goes to the binds, and as they leave it to the socket.
Output(m) == offered' = m /\ out' \in {m, Other, Nothing}

Bypass(m) == Output(m) /\ UNCHANGED queues

Dequeue ==
  \E q \in QueueNums :
    /\ Served(queues, q)
    /\ \E m \in Readings[Head(queues[q])] : Output(m)
    /\ queues' = [queues EXCEPT ![q] = Tail(@)]

\* A script overwrites a waiting message,
Overwrite(q, m) ==
  \E k \in DOMAIN queues[q] : queues' = [queues EXCEPT ![q][k] = m] /\ UNCHANGED lines

\* or inserts one: "The message that was previously at <msgnum> will be moved
\* back in the queue."
Insert(q, m) ==
  \E k \in 1 .. Len(queues[q]) + 1 :
    queues' = [queues EXCEPT ![q] = InsertAt(@, k, m)] /\ UNCHANGED lines

SpecNext ==
  \/ \E q \in QueueNums, m \in Msgs : Enqueue(q, m) \/ Overwrite(q, m) \/ Insert(q, m)
  \/ \E m \in Msgs : Bypass(m)
  \/ Dequeue

=============================================================================
