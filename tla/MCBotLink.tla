----------------------------- MODULE MCBotLink -----------------------------
(* Instances of BotLink: bots BotA, BotB and BotC, or two of them. *)
EXTENDS BotLink
CONSTANTS BotA, BotB, BotC

Pairs(S) == [x \in Bots |-> [y \in Bots |-> IF <<x, y>> \in S THEN 1 ELSE 0]]

\* Every two bots share a password.
Shared == Pairs(Bots \X Bots)
\* BotA wants to link to BotB, and BotB to BotC: a ring needs a command.
Line == Pairs({<<BotA, BotB>>, <<BotB, BotC>>})

\* BotC has an address for BotA that is not valid.
Misdirected == {<<BotC, BotA>>}

\* Two bots with much trouble, or three with little.
MCInit == /\ Init
          /\ \/ trouble = 0 /\ {x \in Bots : bot[x].run = "off"} = {BotA}
             \/ trouble = MaxTrouble - 1 /\ \A x \in Bots : bot[x].run = "down"
MCSpec == MCInit /\ [][Next]_vars
=============================================================================
