---------------------------- MODULE MCChannels ----------------------------
(* Small instances of Channels for TLC. *)
EXTENDS Channels

CONSTANTS bot, u1, c1, c2

\* Channels are interchangeable.
ChanSymmetry == Permutations(Chans)

=============================================================================
