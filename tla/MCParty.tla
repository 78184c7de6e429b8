------------------------------ MODULE MCParty ------------------------------
(* Two sessions and one bot; from nothing with little trouble, or from two   *)
(* users and the bot on the party line with more.                            *)
EXTENDS Party
CONSTANTS s1, s2, rb
\* Sessions are alike.
Symm == Permutations(Sessions)

Enter(y, s, m) ==
  partychan_join([partymember_new([y EXCEPT !.sock[s] = "up"], m, s)
                    EXCEPT !.sess[s] = [NoSession EXCEPT !.st = "party", !.party = m]], Main, m, 0)
TwoUsers == Enter(Enter(Fresh, s1, 1), s2, 2)
AndBot == [TwoUsers EXCEPT !.sock[Bot] = "up", !.known = {<<1, Main>>, <<2, Main>>}]

MCInit == \/ w = Fresh /\ breaks = MaxBreaks - 1 /\ moves = 0
          \/ w = AndBot /\ breaks = 0 /\ moves = 0
MCSpec == MCInit /\ [][Next]_vars
=============================================================================
