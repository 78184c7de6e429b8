------------------------------ MODULE MCUsers ------------------------------
(* Masks "*", "*!*@*.net" and "joe!*@*.net" with the hosts joe!j@x.net and   *)
(* ann!a@x.net; wild_match gives both masks the same strength for the first. *)
EXTENDS Users
CONSTANTS a, b
Matching == [m \in Masks |-> [h \in Hosts |->
  IF m = "*" THEN 1 ELSE IF m = "net" \/ h = "joe" THEN 6 ELSE 0]]
Letters == [m \in Masks |-> CASE m = "*" -> 0 [] m = "net" -> 6 [] m = "joe.net" -> 9]
Smallest == -3
HandleSymmetry == Permutations(Handles)

\* A bot without users, or one that has been used for so long that ids begin
\* again and the next one is just below that of a user.
MCInit ==
  \/ Init
  \/ /\ run = "up" /\ frames = <<>> /\ owed = {} /\ clash = 0 /\ changes = 0 /\ disk = Empty
     /\ \E h \in Handles :
          user = [u \in Slots |-> IF u = 1 THEN [NoUser EXCEPT !.st = "live", !.handle = h, !.uid = 2, !.nset = 1]
                                  ELSE NoUser]
     /\ ircmask_list = <<>> /\ irchost_cache = NoCache
     /\ g_uid = 1 /\ uid_wraparound = 1
MCSpec == MCInit /\ [][Next]_vars
=============================================================================
