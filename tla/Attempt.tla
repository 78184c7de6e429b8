------------------------------ MODULE Attempt ------------------------------
(***************************************************************************)
(* What egg_connect promises its callers, for every idx it hands out: an   *)
(* attempt is reported as connected or as failed once and never both, a    *)
(* failed one is over, and an idx that was reported may only be closed.    *)
(* The exception is an attempt that fails before egg_connect returns:      *)
(* nobody is told, and the idx is there ("silent") until it is deleted.    *)
(***************************************************************************)
EXTENDS Naturals

CONSTANT Conns        \* the idxs that can be handed out

VARIABLES
  phase,    \* [Conns -> {"idle", "trying", "silent", "connected"}]
  heard     \* [Conns -> Nat]: reports the caller has had of the attempt

Phases == {"idle", "trying", "silent", "connected"}

AttemptInit == /\ phase = [c \in Conns |-> "idle"]
               /\ heard = [c \in Conns |-> 0]

\* egg_connect returns; only an attempt that is still trying is reported later.
Begin(c) == /\ phase[c] = "idle"
            /\ \E p \in {"trying", "silent"} : phase' = [phase EXCEPT ![c] = p]
            /\ heard' = [heard EXCEPT ![c] = 0]

\* The caller's on_connect is called.
Connected(c) == /\ phase[c] = "trying"
                /\ phase' = [phase EXCEPT ![c] = "connected"]
                /\ heard' = [heard EXCEPT ![c] = @ + 1]

\* The caller's on_eof is called; it deletes the idx.
Failed(c) == /\ phase[c] = "trying"
             /\ phase' = [phase EXCEPT ![c] = "idle"]
             /\ heard' = [heard EXCEPT ![c] = @ + 1]

\* The connection ends, or the caller deletes the idx at any time.
Over(c) == /\ phase[c] # "idle"
           /\ phase' = [phase EXCEPT ![c] = "idle"]
           /\ UNCHANGED heard

AttemptNext == \E c \in Conns : Begin(c) \/ Connected(c) \/ Failed(c) \/ Over(c)

AttemptSpec == AttemptInit /\ [][AttemptNext]_<<phase, heard>>

\* Nobody hears twice of one attempt, and nothing is heard of one that is under
\* way or that failed before egg_connect returned.
HeardOnce == \A c \in Conns : /\ heard[c] \in {0, 1}
                              /\ phase[c] \in {"trying", "silent"} => heard[c] = 0
=============================================================================
