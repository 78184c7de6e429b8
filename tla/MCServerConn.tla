---------------------------- MODULE MCServerConn ----------------------------
(* Small instances of ServerConn for TLC. *)
EXTENDS ServerConn, TLC

CONSTANTS h1, h2, h3, n1, n2

ThreeServers == <<h1, h2, h3>>
TwoNicks == <<n1, n2>>

\* A number before the list, those of its servers and one behind it.
NumsAround == -1 .. 3

\* Bound: the two lists do not affect each other, and only one is edited.
OneListEdited == server_list = InitServers \/ nick_list = InitNicks

=============================================================================
