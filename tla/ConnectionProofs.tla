-------------------------- MODULE ConnectionProofs --------------------------
(***************************************************************************)
(* Theorems about Net, for every set of connections, hosts and scripts and *)
(* every bound, and about ServerConn, for every set of servers and nicks,  *)
(* every list of the configuration file and every delay and timeout:       *)
(* attempts end as Attempt promises and reach their own host; jumps lead   *)
(* where they should, a server is only left for a ping timeout that was    *)
(* earned, and no nick is passed over.                                     *)
(***************************************************************************)
EXTENDS Net, ServerConn, SequenceLemmas, TLAPS

-----------------------------------------------------------------------------
\* The connection to an irc server.

USE NoneAssumption, NumsAssumption, ListsAssumption, TimesAssumption

JumpType ==
  /\ server_list_index \in Int
  /\ want \in [server : Servers \cup {None}, passed : BOOLEAN]

\* The types the proofs need; the lists may be of any length.
ListTypes ==
  /\ server_list \in Seq(Servers) /\ JumpType
  /\ nick_list \in Seq(NickNames) /\ nick_list_index \in Nat \cup {-1}
  /\ time_to_ping \in Nat \cup {-1} /\ pinged \in Nat \cup {None}

\* Where a pending jump has its server: just behind the index, so that
\* server_get_next moves to it, or at the index, so that it is passed over.
TargetAt == IF want.passed THEN server_list_index + 1 ELSE server_list_index + 2

\* That is where it is.
JumpInv ==
  want.server # None =>
    /\ TargetAt \in DOMAIN server_list
    /\ server_list[TargetAt] = want.server

\* Once a connection has ended, a ping is outstanding whenever time_to_ping is
\* zero.
PingInv == time_to_ping = 0 /\ pinged = None => loaded

\* All nicks up to the index were tried, in the second round too.
NickInv ==
  None \notin tried =>
    \A k \in DOMAIN nick_list : k <= nick_list_index + 1 => nick_list[k] \in tried

\* The inductive invariant.
ConnInv == /\ ListTypes /\ JumpInv /\ PingInv /\ NickInv
        /\ JumpTarget /\ PingTimeoutEarned /\ NicksTried

-----------------------------------------------------------------------------

\* The position after an entry was deleted still is a position.
LEMMA IndexAfterDelType ==
  ASSUME NEW index \in Int, NEW num \in Nat
  PROVE  /\ IndexAfterDel(index, num) \in Int
         /\ index \in Nat \cup {-1} => IndexAfterDel(index, num) \in Nat \cup {-1}
  BY DEF IndexAfterDel

\* What trying the next nick leaves behind, from any position up to which all
\* nicks were tried.
LEMMA NextNickTried ==
  ASSUME nick_list \in Seq(NickNames), NEW index \in Nat \cup {-1}, NEW cycled,
         NEW before, "nick" \notin faults,
         None \notin before =>
           \A k \in DOMAIN nick_list : k <= index + 1 => nick_list[k] \in before,
         try_next_nick(index, cycled, before)
  PROVE  /\ nick_list' = nick_list
         /\ nick_list_index' \in Nat \cup {-1}
         /\ NickInv' /\ faults' = faults
  <1> DEFINE r == nick_get_next(index, cycled)
  <1>1. /\ nick_list' = nick_list /\ nick_list_index' = r.index /\ nick_list_cycled' = r.cycled
        /\ r.found => tried' = before \cup {nick_list[r.index + 1]} /\ faults' = faults
        /\ ~ r.found => tried' = before /\
                        faults' = IF Skipped(before) THEN faults \cup {"nick"} ELSE faults
    BY DEF try_next_nick
  <1>2. CASE nick_list = <<>>
    <2>1. r.index = index /\ ~ r.found
      BY <1>2 DEF nick_get_next, NextNick
    <2>2. ~ Skipped(before)
      BY <1>2 DEF Skipped, ToSet
    <2> QED
      BY <1>1, <1>2, <2>1, <2>2 DEF NickInv
  <1>3. CASE nick_list # <<>> /\ index + 1 < Len(nick_list)
    <2>1. r.index = index + 1 /\ r.found
      BY <1>3 DEF nick_get_next, NextNick
    <2>2. NickInv'
      BY <1>1, <2>1 DEF NickInv
    <2> QED
      BY <1>1, <2>1, <2>2
  <1>4. CASE nick_list # <<>> /\ Len(nick_list) <= index + 1 /\ cycled
    <2>1. r.index = index + 1 /\ ~ r.found
      BY <1>4 DEF nick_get_next, NextNick
    <2>2. None \notin before => \A k \in DOMAIN nick_list : nick_list[k] \in before
      BY <1>4
    <2>3. ~ Skipped(before)
      BY <2>2 DEF Skipped, ToSet
    <2>4. NickInv'
      BY <1>1, <2>1, <2>2 DEF NickInv
    <2> QED
      BY <1>1, <2>1, <2>3, <2>4
  <1>5. CASE nick_list # <<>> /\ Len(nick_list) <= index + 1 /\ ~ cycled
    <2>1. r.index = 0 /\ r.found
      BY <1>5 DEF nick_get_next, NextNick
    <2>2. NickInv'
      BY <1>1, <2>1 DEF NickInv
    <2> QED
      BY <1>1, <2>1, <2>2
  <1> QED
    BY <1>2, <1>3, <1>4, <1>5

-----------------------------------------------------------------------------

LEMMA InitInv == Init => ConnInv
  <1> SUFFICES ASSUME Init PROVE ConnInv
    OBVIOUS
  <1>1. ListTypes
    BY DEF Init, ListTypes, JumpType, NoJump
  <1>2. NickInv
    <2>1. \A k \in DOMAIN InitNicks : ~ (k <= -1 + 1)
      OBVIOUS
    <2> QED
      BY <2>1 DEF Init, NickInv
  <1>3. JumpInv /\ PingInv
    BY DEF Init, JumpInv, NoJump, PingInv
  <1> QED
    BY <1>1, <1>2, <1>3 DEF Init, ConnInv, JumpTarget, PingTimeoutEarned, NicksTried

\* A step that does not touch the lists, the jump and the history.
LEMMA ListsUntouched ==
  ASSUME ConnInv, UNCHANGED <<servers, nicks, tried, want, faults>>,
         time_to_ping' \in Nat \cup {-1}, pinged' \in Nat \cup {None}, PingInv'
  PROVE  ConnInv'
  BY DEF ConnInv, ListTypes, JumpType, JumpInv, TargetAt, NickInv, JumpTarget,
         PingTimeoutEarned, NicksTried, servers, nicks

\* The connection goes down: whoever calls disconnect_server, what is said of
\* pings holds again.
LEMMA Disconnected ==
  ASSUME disconnect_server
  PROVE  time_to_ping' = -1 /\ pinged' = None /\ PingInv'
  BY DEF disconnect_server, PingInv

\* connect_to_next_server goes where the last jump leads.
LEMMA ConnectInv ==
  ASSUME ListTypes, JumpInv, connect_to_next_server, UNCHANGED server_list
  PROVE  JumpInv' /\ JumpType' /\ faults' = faults
  <1>1. CASE server_list = <<>>
    BY <1>1 DEF connect_to_next_server, JumpInv, TargetAt, ListTypes, JumpType
  <1>2. CASE server_list # <<>>
    <2> DEFINE index == server_get_next(server_list_index, Len(server_list))
               at == IF index < 0 THEN 1 ELSE index + 1
    <2>1. index \in Int /\ Len(server_list) \in Nat
      BY DEF server_get_next, ListTypes, JumpType
    <2>2. /\ server_list_index' = index /\ want' = NoJump
          /\ faults' = IF want.server = None \/ LeadsTo(at) THEN faults ELSE faults \cup {"jump"}
      BY <1>2 DEF connect_to_next_server
    <2>3. ASSUME want.server # None PROVE LeadsTo(at)
      <3>1. /\ want.passed \in BOOLEAN /\ TargetAt \in 1 .. Len(server_list)
            /\ server_list[TargetAt] = want.server
        BY <2>3 DEF JumpInv, TargetAt, ListTypes, JumpType
      <3>2. CASE want.passed
        <4>1. /\ server_list_index + 1 \in 1 .. Len(server_list)
              /\ server_list[server_list_index + 1] = want.server
          BY <3>1, <3>2 DEF TargetAt
        <4>2. at = IF server_list_index + 1 = Len(server_list) THEN 1 ELSE server_list_index + 2
          BY <2>1, <4>1 DEF server_get_next, ListTypes, JumpType
        <4>3. (IF at = 1 THEN Len(server_list) ELSE at - 1) = server_list_index + 1
          BY <2>1, <4>1, <4>2 DEF ListTypes, JumpType
        <4> QED
          BY <3>2, <4>1, <4>3 DEF LeadsTo
      <3>3. CASE ~ want.passed
        <4>1. /\ server_list_index + 2 \in 1 .. Len(server_list)
              /\ server_list[server_list_index + 2] = want.server
          BY <3>1, <3>3 DEF TargetAt
        <4>2. at = server_list_index + 2
          BY <2>1, <4>1 DEF server_get_next, ListTypes, JumpType
        <4> QED
          BY <3>3, <4>1, <4>2 DEF LeadsTo
      <3> QED
        BY <3>2, <3>3
    <2> HIDE DEF at
    <2> QED
      <3>1. want'.server = None /\ want' \in [server : Servers \cup {None}, passed : BOOLEAN]
        BY <2>2 DEF NoJump
      <3> QED
        BY <2>1, <2>2, <2>3, <3>1 DEF JumpInv, JumpType
  <1> QED
    BY <1>1, <1>2

\* A server is deleted: a pending jump keeps its server where it is looked for.
LEMMA ServerDelInv ==
  ASSUME ListTypes, JumpInv, NEW num \in 0 .. Len(server_list) - 1, server_del(num)
  PROVE  JumpInv' /\ JumpType' /\ server_list' \in Seq(Servers)
  <1> USE DEF ListTypes, JumpType
  <1>1. num \in Nat /\ num + 1 \in 1 .. Len(server_list)
    OBVIOUS
  <1>2. /\ server_list' = RemoveAt(server_list, num + 1)
        /\ server_list_index' = IndexAfterDel(server_list_index, num)
        /\ want' = IF want.server \in {None, server_list[num + 1]} THEN NoJump
                   ELSE [want EXCEPT !.passed = @ \/ num = server_list_index]
    BY DEF server_del
  <1>3. /\ server_list' \in Seq(Servers) /\ Len(server_list') = Len(server_list) - 1
        /\ \A j \in 1 .. Len(server_list) - 1 :
             server_list'[j] = IF j < num + 1 THEN server_list[j] ELSE server_list[j + 1]
    BY <1>1, <1>2, RemoveAtProperties
  <1>4. JumpType'
    <2>1. server_list_index' \in Int
      BY <1>1, <1>2, IndexAfterDelType
    <2>2. want' \in [server : Servers \cup {None}, passed : BOOLEAN]
      BY <1>2 DEF NoJump
    <2> QED
      BY <2>1, <2>2 DEF JumpType
  <1>5. ASSUME want'.server # None
        PROVE  /\ TargetAt' \in DOMAIN server_list'
               /\ server_list'[TargetAt'] = want'.server
    <2>1. /\ want.server # None /\ want.server # server_list[num + 1]
          /\ TargetAt \in 1 .. Len(server_list) /\ server_list[TargetAt] = want.server
      BY <1>2, <1>5 DEF JumpInv, NoJump
    <2>2. /\ want'.server = want.server
          /\ want'.passed = (want.passed \/ num = server_list_index)
      BY <1>2, <2>1
    <2>3. TargetAt # num + 1
      BY <2>1
    <2>4. TargetAt' = IF num + 1 < TargetAt THEN TargetAt - 1 ELSE TargetAt
      <3>1. /\ server_list_index' = IF num < server_list_index THEN server_list_index - 1
                                    ELSE server_list_index
            /\ server_list_index \in Int
        BY <1>2 DEF IndexAfterDel
      <3>2. TargetAt' = IF want'.passed THEN server_list_index' + 1 ELSE server_list_index' + 2
        BY DEF TargetAt
      <3>3. CASE want.passed
        <4>1. TargetAt = server_list_index + 1 /\ want'.passed
          BY <2>2, <3>3 DEF TargetAt
        <4> QED
          BY <1>1, <2>3, <3>1, <3>2, <4>1
      <3>4. CASE ~ want.passed
        <4>1. TargetAt = server_list_index + 2
          BY <3>4 DEF TargetAt
        <4>2. CASE num = server_list_index
          <5>1. want'.passed
            BY <2>2, <4>2
          <5> QED
            BY <1>1, <2>3, <3>1, <3>2, <4>1, <4>2, <5>1
        <4>3. CASE num # server_list_index
          <5>1. ~ want'.passed
            BY <2>2, <3>4, <4>3
          <5> QED
            BY <1>1, <2>3, <3>1, <3>2, <4>1, <4>3, <5>1
        <4> QED
          BY <4>2, <4>3
      <3> QED
        BY <3>3, <3>4
    <2>5. /\ TargetAt' \in 1 .. Len(server_list) - 1
          /\ server_list'[TargetAt'] = server_list[TargetAt]
      <3> HIDE DEF TargetAt
      <3>1. CASE num + 1 < TargetAt
        <4>1. TargetAt' = TargetAt - 1
          BY <2>4, <3>1
        <4>2. TargetAt - 1 \in 1 .. Len(server_list) - 1 /\ ~ TargetAt - 1 < num + 1
          BY <1>1, <2>1, <3>1
        <4> QED
          BY <1>3, <2>1, <4>1, <4>2
      <3>2. CASE ~ num + 1 < TargetAt
        <4>1. TargetAt' = TargetAt /\ TargetAt \in 1 .. Len(server_list) - 1 /\ TargetAt < num + 1
          BY <1>1, <2>1, <2>3, <2>4, <3>2
        <4> QED
          BY <1>3, <4>1
      <3> QED
        BY <3>1, <3>2
    <2> QED
      BY <1>3, <2>1, <2>2, <2>5
  <1> QED
    BY <1>3, <1>4, <1>5 DEF JumpInv, TargetAt

\* A nick is deleted: those up to the index were tried still, unless it was
\* the nick at the index.
LEMMA NickDelInv ==
  ASSUME ListTypes, NickInv, NEW num \in 0 .. Len(nick_list) - 1, nick_del(num)
  PROVE  /\ NickInv'
         /\ nick_list' \in Seq(NickNames) /\ nick_list_index' \in Nat \cup {-1}
  <1> USE DEF ListTypes
  <1>1. num \in Nat /\ num + 1 \in 1 .. Len(nick_list)
    OBVIOUS
  <1>2. /\ nick_list' = RemoveAt(nick_list, num + 1)
        /\ nick_list_index' = IndexAfterDel(nick_list_index, num)
        /\ tried' = IF num = nick_list_index THEN tried \cup {None} ELSE tried
    BY DEF nick_del
  <1>3. /\ nick_list' \in Seq(NickNames) /\ Len(nick_list') = Len(nick_list) - 1
        /\ \A j \in 1 .. Len(nick_list) - 1 :
             nick_list'[j] = IF j < num + 1 THEN nick_list[j] ELSE nick_list[j + 1]
    BY <1>1, <1>2, RemoveAtProperties
  <1>4. nick_list_index' \in Nat \cup {-1}
    <2>1. nick_list_index \in Int /\ nick_list_index \in Nat \cup {-1}
      OBVIOUS
    <2> QED
      BY <1>1, <1>2, <2>1, IndexAfterDelType
  <1>5. ASSUME None \notin tried', NEW k \in DOMAIN nick_list', k <= nick_list_index' + 1
        PROVE  nick_list'[k] \in tried'
    <2>1. /\ tried' = tried /\ num # nick_list_index /\ None \notin tried
          /\ \A j \in 1 .. Len(nick_list) : j <= nick_list_index + 1 => nick_list[j] \in tried
      BY <1>2, <1>5 DEF NickInv
    <2>2. k \in 1 .. Len(nick_list) - 1
      BY <1>3
    <2>3. CASE num < nick_list_index
      <3>1. nick_list_index' = nick_list_index - 1
        BY <1>2, <2>3 DEF IndexAfterDel
      <3>2. k \in Nat /\ k <= nick_list_index
        <4>1. k \in Nat /\ nick_list_index \in Int /\ k <= nick_list_index' + 1
          BY <1>5, <2>2
        <4> QED
          BY <3>1, <4>1
      <3>3. nick_list[k] \in tried /\ nick_list[k + 1] \in tried
        BY <2>1, <2>2, <3>2
      <3> QED
        BY <1>3, <2>1, <2>2, <3>3
    <2>4. CASE num > nick_list_index
      <3>1. nick_list_index' = nick_list_index
        BY <1>2, <2>4 DEF IndexAfterDel
      <3>2. k <= nick_list_index + 1 /\ k < num + 1 /\ k \in 1 .. Len(nick_list)
        BY <1>1, <1>5, <2>2, <2>4, <3>1
      <3>3. nick_list'[k] = nick_list[k]
        BY <1>3, <2>2, <3>2
      <3> QED
        BY <2>1, <3>2, <3>3
    <2> QED
      BY <1>1, <2>1, <2>3, <2>4
  <1> QED
    BY <1>3, <1>4, <1>5 DEF NickInv

-----------------------------------------------------------------------------

\* The inductive invariant again, from its parts: for the steps that touch
\* neither want, tried nor faults.
LEMMA FaultsUntouched ==
  ASSUME ConnInv, faults' = faults
  PROVE  JumpTarget' /\ PingTimeoutEarned' /\ NicksTried'
  BY DEF ConnInv, JumpTarget, PingTimeoutEarned, NicksTried

\* server_secondly.
LEMMA SecondlyInv ==
  ASSUME ConnInv, server_secondly
  PROVE  ConnInv'
  <1>1. CASE CountDown
    <2>1. /\ UNCHANGED <<server_list, nick_list, nick_list_index, time_to_ping, pinged,
                         tried, loaded>>
      BY <1>1 DEF CountDown, nicks
    <2>2. JumpInv' /\ JumpType' /\ faults' = faults
      <3>1. CASE cycle_delay - 1 > 0
        BY <1>1, <2>1, <3>1 DEF CountDown, ConnInv, JumpInv, TargetAt, ListTypes, JumpType
      <3>2. CASE ~ (cycle_delay - 1 > 0)
        <4>1. connect_to_next_server
          BY <1>1, <3>2 DEF CountDown
        <4> QED
          BY <2>1, <4>1, ConnectInv DEF ConnInv
      <3> QED
        BY <3>1, <3>2
    <2>3. ListTypes' /\ PingInv' /\ NickInv'
      BY <2>1, <2>2 DEF ConnInv, ListTypes, JumpType, PingInv, NickInv
    <2> QED
      BY <2>2, <2>3, FaultsUntouched DEF ConnInv
  <1>2. CASE KeepUp
    <2>1. UNCHANGED <<servers, nicks, tried, want, faults, loaded>>
      BY <1>2 DEF KeepUp
    <2>2. CASE sock = "none"
      <3>1. UNCHANGED <<time_to_ping, pinged>>
        BY <1>2, <2>2 DEF KeepUp
      <3> QED
        BY <2>1, <3>1, ListsUntouched DEF ConnInv, ListTypes, JumpType, PingInv
    <2>3. CASE sock # "none"
      <3>1. /\ time_to_ping' = IF time_to_ping > 0 THEN time_to_ping - 1 ELSE time_to_ping
            /\ pinged' = IF time_to_ping = 0 THEN pinged + 1
                         ELSE IF time_to_ping = 1 THEN 0 ELSE pinged
            /\ time_to_ping = 0 => pinged # None
        BY <1>2, <2>3 DEF KeepUp, NextTimeToPing, PingedOut
      <3>2. time_to_ping' \in Nat \cup {-1} /\ pinged' \in Nat \cup {None}
        BY <3>1 DEF ConnInv, ListTypes, JumpType
      <3>3. PingInv'
        BY <3>1 DEF ConnInv, ListTypes, JumpType, PingInv
      <3> QED
        BY <2>1, <3>2, <3>3, ListsUntouched
    <2> QED
      BY <2>2, <2>3
  <1>3. CASE PingTimeoutStep
    <2>1. /\ disconnect_server /\ UNCHANGED <<servers, nicks, tried, want>>
          /\ time_to_ping = 0 /\ PingedOut
          /\ faults' = IF (IF pinged = None THEN ~ loaded ELSE Unearned)
                       THEN faults \cup {"ping"} ELSE faults
      BY <1>3 DEF PingTimeoutStep
    <2>2. faults' = faults
      <3>1. CASE pinged = None
        BY <2>1, <3>1 DEF ConnInv, PingInv
      <3>2. CASE pinged # None
        <4>1. ~ Unearned
          BY <2>1, <3>2 DEF PingedOut, Unearned, ConnInv, ListTypes, JumpType
        <4> QED
          BY <2>1, <3>2, <4>1
      <3> QED
        BY <3>1, <3>2
    <2> QED
      BY <2>1, <2>2, Disconnected, ListsUntouched
  <1> QED
    BY <1>1, <1>2, <1>3 DEF server_secondly

\* server_on_connect starts the nicks again.
LEMMA ConnectedInv ==
  ASSUME ConnInv, server_on_connect
  PROVE  ConnInv'
  <1>1. UNCHANGED <<server_list, server_list_index, want>>
    BY DEF server_on_connect, servers
  <1>2. /\ time_to_ping' \in Nat \cup {-1} /\ pinged' \in Nat \cup {None} /\ PingInv'
        /\ nick_list' = nick_list /\ nick_list_index' \in Nat \cup {-1} /\ NickInv'
        /\ faults' = faults
    <2>1. CASE /\ time_to_ping' \in PingIntervals
               /\ try_next_nick(-1, FALSE, {})
               /\ pinged' = pinged
      <3>1. \A k \in DOMAIN nick_list : ~ (k <= -1 + 1)
        BY DEF ConnInv, ListTypes, JumpType
      <3>2. nick_list' = nick_list /\ nick_list_index' \in Nat \cup {-1} /\ NickInv' /\ faults' = faults
        <4>1. -1 \in Nat \cup {-1} /\ nick_list \in Seq(NickNames) /\ "nick" \notin faults
          BY DEF ConnInv, ListTypes, JumpType, NicksTried
        <4> QED
          BY <2>1, <3>1, <4>1, NextNickTried
      <3>3. time_to_ping' \in Nat \ {0}
        BY <2>1
      <3> QED
        BY <2>1, <3>2, <3>3 DEF ConnInv, ListTypes, JumpType, PingInv
    <2>2. CASE /\ disconnect_server
               /\ nick_list_index' = -1 /\ tried' = {}
               /\ UNCHANGED <<nick_list, faults>>
      <3>1. \A k \in DOMAIN nick_list : ~ (k <= -1 + 1)
        BY DEF ConnInv, ListTypes, JumpType
      <3>2. NickInv'
        BY <2>2, <3>1 DEF NickInv
      <3> QED
        BY <2>2, <3>2, Disconnected
    <2> QED
      BY <2>1, <2>2 DEF server_on_connect
  <1>3. ListTypes' /\ JumpInv'
    BY <1>1, <1>2 DEF ConnInv, ListTypes, JumpType, JumpInv, TargetAt
  <1> QED
    BY <1>2, <1>3, FaultsUntouched DEF ConnInv

\* What the IRC server sends.
LEMMA IrcServerInv ==
  ASSUME ConnInv, IrcServer
  PROVE  ConnInv'
  <1>1. CASE got001
    <2>1. UNCHANGED <<servers, nicks, tried, want, faults>>
      BY <1>1 DEF got001
    <2>2. CASE disconnect_server
      BY <2>1, <2>2, Disconnected, ListsUntouched
    <2>3. CASE UNCHANGED <<time_to_ping, pinged, loaded>>
      BY <2>1, <2>3, ListsUntouched DEF ConnInv, ListTypes, JumpType, PingInv
    <2> QED
      BY <1>1, <2>2, <2>3 DEF got001
  <1>2. CASE got433
    <2>1. UNCHANGED <<server_list, server_list_index, time_to_ping, pinged, want, loaded>>
      BY <1>2 DEF got433, servers, current_server
    <2>2. /\ nick_list' = nick_list /\ nick_list_index' \in Nat \cup {-1}
          /\ NickInv' /\ faults' = faults
      <3>1. CASE registered
        BY <1>2, <3>1 DEF got433, nicks, ConnInv, ListTypes, JumpType, NickInv
      <3>2. CASE ~ registered
        <4>1. try_next_nick(nick_list_index, nick_list_cycled, tried)
          BY <1>2, <3>2 DEF got433
        <4>2. /\ nick_list_index \in Nat \cup {-1} /\ nick_list \in Seq(NickNames)
              /\ "nick" \notin faults /\ NickInv
          BY DEF ConnInv, ListTypes, JumpType, NicksTried
        <4> QED
          BY <4>1, <4>2, NextNickTried DEF NickInv
      <3> QED
        BY <3>1, <3>2
    <2>3. ListTypes' /\ JumpInv' /\ PingInv'
      BY <2>1, <2>2 DEF ConnInv, ListTypes, JumpType, JumpInv, TargetAt, PingInv
    <2> QED
      BY <2>2, <2>3, FaultsUntouched DEF ConnInv
  <1>3. CASE got432
    BY <1>3, ListsUntouched DEF got432, current_server, ConnInv, ListTypes, JumpType, PingInv
  <1>4. CASE goterror
    BY <1>4, Disconnected, ListsUntouched DEF goterror
  <1>5. CASE gotpong
    <2>1. time_to_ping' \in Nat \ {0} /\ pinged' = pinged
      BY <1>5 DEF gotpong
    <2>2. PingInv'
      BY <2>1 DEF PingInv
    <2> QED
      BY <1>5, <2>1, <2>2, ListsUntouched DEF gotpong, ConnInv, ListTypes, JumpType
  <1> QED
    BY <1>1, <1>2, <1>3, <1>4, <1>5 DEF IrcServer

\* A jump: the index goes just before the target, if the number has one.
LEMMA UserJumpInv ==
  ASSUME ConnInv, Jump
  PROVE  ConnInv'
  <1>1. PICK num \in {None} \cup JumpNums : jump(num)
    BY DEF Jump
  <1>2. /\ server_list_index' = IF num = None THEN server_list_index ELSE num - 1
        /\ want' = IF num # None /\ num + 1 \in DOMAIN server_list
                   THEN [server |-> server_list[num + 1], passed |-> FALSE] ELSE NoJump
        /\ UNCHANGED <<server_list, nick_list, nick_list_index, tried, faults>>
    BY <1>1 DEF jump, nicks
  <1>3. time_to_ping' = -1 /\ pinged' = None /\ PingInv'
    BY <1>1, Disconnected DEF jump
  <1>4. JumpType'
    BY <1>2 DEF ConnInv, ListTypes, JumpType, NoJump
  <1>5. JumpInv'
    <2>1. CASE want'.server = None
      BY <2>1 DEF JumpInv, TargetAt
    <2>2. CASE want'.server # None
      <3>1. /\ num \in Int /\ num + 1 \in 1 .. Len(server_list) /\ server_list' = server_list
            /\ want' = [server |-> server_list[num + 1], passed |-> FALSE]
            /\ server_list_index' = num - 1 /\ server_list \in Seq(Servers)
        <4>1. num # None /\ num + 1 \in DOMAIN server_list
          BY <1>2, <2>2 DEF NoJump
        <4>2. num \in Int /\ server_list \in Seq(Servers)
          BY <4>1 DEF ConnInv, ListTypes
        <4> QED
          BY <1>2, <4>1, <4>2
      <3>2. TargetAt' = num + 1
        BY <3>1 DEF TargetAt
      <3> QED
        BY <3>1, <3>2 DEF JumpInv
    <2> QED
      BY <2>1, <2>2
  <1>6. ListTypes' /\ NickInv'
    BY <1>2, <1>3, <1>4 DEF ConnInv, ListTypes, JumpType, NickInv
  <1> QED
    BY <1>2, <1>3, <1>5, <1>6, FaultsUntouched DEF ConnInv

\* The other things users and scripts do.
LEMMA UserInv ==
  ASSUME ConnInv, User
  PROVE  ConnInv'
  <1>1. CASE putserv
    BY <1>1, ListsUntouched DEF putserv, current_server, ConnInv, ListTypes, JumpType, PingInv
  <1>2. CASE server_clear
    <2>1. UNCHANGED <<nick_list, nick_list_index, tried, time_to_ping, pinged, loaded, faults>>
      BY <1>2 DEF server_clear, nicks, connection, current_server
    <2>2. ListTypes' /\ JumpInv' /\ PingInv' /\ NickInv'
      BY <1>2, <2>1 DEF server_clear, ConnInv, ListTypes, JumpType, JumpInv, NoJump, PingInv,
                         NickInv
    <2> QED
      BY <2>1, <2>2, FaultsUntouched DEF ConnInv
  <1>3. CASE nick_clear
    <2>1. UNCHANGED <<servers, nick_list_index, want, time_to_ping, pinged, loaded, faults>>
      BY <1>3 DEF nick_clear, connection, current_server
    <2>2. ListTypes' /\ JumpInv' /\ PingInv' /\ NickInv'
      BY <1>3, <2>1 DEF nick_clear, servers, ConnInv, ListTypes, JumpType, JumpInv,
                         TargetAt, PingInv, NickInv
    <2> QED
      BY <2>1, <2>2, FaultsUntouched DEF ConnInv
  <1>4. CASE Jump
    BY <1>4, UserJumpInv
  <1>5. ASSUME NEW num \in 0 .. Len(server_list) - 1, server_del(num) PROVE ConnInv'
    <2>1. UNCHANGED <<nick_list, nick_list_index, tried, time_to_ping, pinged, loaded, faults>>
      BY <1>5 DEF server_del, nicks, connection, current_server
    <2>2. JumpInv' /\ JumpType' /\ server_list' \in Seq(Servers)
      BY <1>5, ServerDelInv DEF ConnInv
    <2>3. ListTypes' /\ PingInv' /\ NickInv'
      BY <2>1, <2>2 DEF ConnInv, ListTypes, JumpType, PingInv, NickInv
    <2> QED
      BY <2>1, <2>2, <2>3, FaultsUntouched DEF ConnInv
  <1>6. ASSUME NEW num \in 0 .. Len(nick_list) - 1, nick_del(num) PROVE ConnInv'
    <2>1. UNCHANGED <<server_list, server_list_index, want, time_to_ping, pinged, loaded, faults>>
      BY <1>6 DEF nick_del, servers, connection, current_server
    <2>2. NickInv' /\ nick_list' \in Seq(NickNames) /\ nick_list_index' \in Nat \cup {-1}
      BY <1>6, NickDelInv DEF ConnInv
    <2>3. ListTypes' /\ JumpInv' /\ PingInv'
      BY <2>1, <2>2 DEF ConnInv, ListTypes, JumpType, JumpInv, TargetAt, PingInv
    <2> QED
      BY <2>1, <2>2, <2>3, FaultsUntouched DEF ConnInv
  <1>7. ASSUME NEW h \in Servers, server_add(h) PROVE ConnInv'
    <2>1. UNCHANGED <<server_list_index, nick_list, nick_list_index, tried, want,
                      time_to_ping, pinged, loaded, faults>>
      BY <1>7 DEF server_add, nicks, connection, current_server
    <2>2. /\ server_list' \in Seq(Servers) /\ Len(server_list') = Len(server_list) + 1
          /\ \A i \in DOMAIN server_list : server_list'[i] = server_list[i]
      BY <1>7 DEF server_add, ConnInv, ListTypes, JumpType
    <2>3. ListTypes' /\ JumpInv' /\ PingInv' /\ NickInv'
      BY <2>1, <2>2, SMTT(30) DEF ConnInv, ListTypes, JumpType, JumpInv, TargetAt, PingInv, NickInv
    <2> QED
      BY <2>1, <2>3, FaultsUntouched DEF ConnInv
  <1>8. ASSUME NEW n \in NickNames, nick_add(n) PROVE ConnInv'
    <2>1. UNCHANGED <<servers, nick_list_index, want, time_to_ping, pinged, loaded, faults>>
      BY <1>8 DEF nick_add, connection, current_server
    <2>2. /\ nick_list' \in Seq(NickNames) /\ Len(nick_list') = Len(nick_list) + 1
          /\ \A i \in DOMAIN nick_list : nick_list'[i] = nick_list[i]
      BY <1>8 DEF nick_add, ConnInv, ListTypes, JumpType
    <2>3. NickInv'
      <3>1. CASE nick_list_index >= Len(nick_list)
        BY <1>8, <3>1 DEF nick_add, NickInv
      <3>2. CASE ~ (nick_list_index >= Len(nick_list))
        <4>1. tried' = tried
          BY <1>8, <3>2 DEF nick_add
        <4>2. \A k \in DOMAIN nick_list' : k <= nick_list_index + 1 => k \in DOMAIN nick_list
          BY <2>2, <3>2 DEF ConnInv, ListTypes, JumpType
        <4> QED
          BY <2>1, <2>2, <4>1, <4>2 DEF NickInv, ConnInv
      <3> QED
        BY <3>1, <3>2
    <2>4. ListTypes' /\ JumpInv' /\ PingInv'
      BY <2>1, <2>2 DEF servers, ConnInv, ListTypes, JumpType, JumpInv, TargetAt, PingInv
    <2> QED
      BY <2>1, <2>3, <2>4, FaultsUntouched DEF ConnInv
  <1> QED
    BY <1>1, <1>2, <1>3, <1>4, <1>5, <1>6, <1>7, <1>8 DEF User

LEMMA NextInv == ConnInv /\ [Next]_vars => ConnInv'
  <1> SUFFICES ASSUME ConnInv, [Next]_vars PROVE ConnInv'
    OBVIOUS
  <1>1. CASE server_on_eof
    BY <1>1, Disconnected, ListsUntouched DEF server_on_eof
  <1>2. CASE UNCHANGED vars
    BY <1>2, ListsUntouched DEF vars, current_server, ConnInv, ListTypes, JumpType, PingInv
  <1> QED
    BY <1>1, <1>2, SecondlyInv, ConnectedInv, IrcServerInv, UserInv DEF Next

LEMMA Inductive == Spec => []ConnInv
  BY InitInv, NextInv, PTL DEF Spec

\* serverlist.c and the "jump" command: a jump to a server number leads to
\* that server, however the list is edited while the bot waits to connect.
THEOREM JumpsLand == Spec => []JumpTarget
  <1>1. ConnInv => JumpTarget
    BY DEF ConnInv
  <1> QED
    BY <1>1, Inductive, PTL

\* server_secondly leaves a server for a ping timeout only when a ping of this
\* connection was not answered for ping_timeout seconds, except on the first
\* connection after the module was loaded.
THEOREM PingsEarned == Spec => []PingTimeoutEarned
  <1>1. ConnInv => PingTimeoutEarned
    BY DEF ConnInv
  <1> QED
    BY <1>1, Inductive, PTL

\* nicklist.c: a random nick is used only when every nick of the list was tried
\* on this connection, in whichever order nicks were added and deleted.
THEOREM NoNickSkipped == Spec => []NicksTried
  <1>1. ConnInv => NicksTried
    BY DEF ConnInv
  <1> QED
    BY <1>1, Inductive, PTL

HIDE TimesAssumption
HIDE ListsAssumption
HIDE NumsAssumption
HIDE NoneAssumption

-----------------------------------------------------------------------------
\* Outgoing connections.

USE NetAssumption, DnsAssumption

\* What the functions on the record of an attempt return.
LEMMA Records ==
  ASSUME NEW a \in Attempts
  PROVE  /\ detach(a) \in Attempts
         /\ on_eof(a) \in Attempts
         /\ failed(a) \in Attempts
         /\ \A ip \in Hosts : connecting(a, ip) \in Attempts
         /\ \A id \in {NoId} \cup Nat : returned(a, id) \in Attempts
         /\ \A h \in Hosts, t \in {0, 1} : attach(h, t) \in Attempts
         /\ Unused \in Attempts
  <1> USE DEF Attempts, NoId
  <1>1. detach(a) \in Attempts
    BY DEF detach
  <1>2. Unused \in Attempts
    BY DEF Unused
  <1>3. \A b \in Attempts : on_eof(b) \in Attempts
    BY DEF on_eof, Unused
  <1>4. failed(a) \in Attempts
    <2>1. [a EXCEPT !.dns = NoId] \in Attempts
      OBVIOUS
    <2>2. detach([a EXCEPT !.dns = NoId]) \in Attempts
      BY <2>1 DEF detach
    <2> QED
      BY <2>2, <1>3 DEF failed
  <1>5. \A ip \in Hosts : connecting(a, ip) \in Attempts
    BY DEF connecting
  <1>6. \A id \in {NoId} \cup Nat : returned(a, id) \in Attempts
    BY DEF returned
  <1>7. \A h \in Hosts, t \in {0, 1} : attach(h, t) \in Attempts
    BY DEF attach, Unused
  <1> QED
    BY <1>1, <1>2, <1>3, <1>4, <1>5, <1>6, <1>7

LEMMA SetAttempt ==
  ASSUME att \in [Conns -> Attempts], NEW c \in Conns, NEW a \in Attempts, Set(c, a)
  PROVE  /\ att' \in [Conns -> Attempts]
         /\ att'[c] = a
         /\ \A d \in Conns : d # c => att'[d] = att[d]
  BY DEF Set

\* What the resolver's steps do to its own variables.
LEMMA AskTypes ==
  ASSUME NetTypeOK, NEW h \in Hosts, NEW cd \in Conns \cup Scripts, Ask(h, cd)
  PROVE  /\ queries' \subseteq Queries
         /\ query_id' \in Nat
         /\ dns_idx' \in {"open", "closed"}
         /\ wire' \subseteq Packets
         /\ cache' = cache
  <1>1. query_id % IdSpace \in Nat
    BY DEF NetTypeOK
  <1>2. NewPackets(h) \subseteq Packets
    <2> SUFFICES ASSUME NEW k \in 1..Replies
                 PROVE  [id |-> query_id % IdSpace, host |-> h, kind |-> k] \in Packets
      BY DEF NewPackets
    <2>1. k \in {1, 2}
      OBVIOUS
    <2> QED
      BY <1>1, <2>1 DEF Packets
  <1>3. NewQuery(h, cd) \in Queries
    BY DEF NetTypeOK, Answers, Queries, NewQuery
  <1>4. queries' \subseteq Queries
    BY <1>3 DEF NetTypeOK, Ask
  <1>5. wire' \subseteq Packets /\ dns_idx' \in {"open", "closed"}
    BY <1>2 DEF NetTypeOK, Ask, Send
  <1> QED
    BY <1>4, <1>5 DEF NetTypeOK, Ask

LEMMA ReplyTypes ==
  ASSUME NetTypeOK, NEW p \in wire, NEW q \in Asked(p), NEW ans \in Said(p)
  PROVE  /\ q \in queries /\ q \in Queries /\ q.id = p.id
         /\ ans \in Answers /\ q.got \cup ans \in Answers
         /\ q.got \cup ans \subseteq Hosts
         /\ [host |-> q.host, ans |-> q.got \cup ans] \in [host : Hosts, ans : Answers]
         /\ q.left > 1 => more(q, ans) \in Queries
         /\ more(q, ans).id = q.id /\ more(q, ans).cd = q.cd /\ more(q, ans).host = q.host
         /\ more(q, ans).got = q.got \cup ans
  <1>1. q \in queries /\ q \in Queries /\ q.id = p.id
    BY DEF Asked, NetTypeOK
  <1>2. p \in Packets
    BY DEF NetTypeOK
  <1>3. ans \subseteq Hosts
    BY <1>2 DEF Said, Packets
  <1>4. q.got \cup ans \in Answers
    BY <1>1, <1>3 DEF Queries, Answers
  <1>5. q.left > 1 => more(q, ans) \in Queries
    <2> SUFFICES ASSUME q.left > 1
                 PROVE  more(q, ans) \in Queries
      OBVIOUS
    <2>1. q.left \in {1, 2}
      BY <1>1 DEF Queries
    <2>2. q.left - 1 \in {1, 2}
      BY <2>1
    <2> DEFINE l == q.left - 1
               g == q.got \cup ans
    <2>3. l \in {1, 2} /\ g \in Answers
      BY <2>2, <1>4
    <2> HIDE DEF l, g
    <2>4. [q EXCEPT !.left = l, !.got = g] \in Queries
      BY <1>1, <2>3 DEF Queries
    <2> QED
      BY <2>4 DEF l, g, more
  <1>6. /\ more(q, ans).id = q.id /\ more(q, ans).cd = q.cd /\ more(q, ans).host = q.host
        /\ more(q, ans).got = q.got \cup ans
    BY <1>1 DEF more, Queries
  <1> QED
    BY <1>1, <1>3, <1>4, <1>5, <1>6 DEF Answers, Queries

-----------------------------------------------------------------------------
\* The inductive invariant: types, who owns a lookup, what ends an attempt.
IInv == NetTypeOK /\ NoDangling /\ UnderWay

\* The record of an attempt that has no lookup.
Local(a) ==
  /\ a.timer = 1 => a.info = "live"
  /\ a.info = "live" => a.idx = 1 /\ a.sock = "connecting" /\ a.dns = NoId /\ a.heard = 0
  /\ a.sock = "up" /\ a.idx = 1 => a.info = "freed" /\ a.heard = 1
  /\ a.sock = "connecting" => a.info = "live"
  /\ a.idx = 1 => a.handler = 1

\* Most steps leave one attempt without a lookup and the others as they were.
LEMMA LookupOver ==
  ASSUME IInv, NEW c \in Conns, NEW a \in Attempts, Local(a), Set(c, a),
         queries' = {q \in queries : q.cd # c},
         script' = script, query_id' = query_id
  PROVE  NoDangling' /\ UnderWay'
  <1>1. /\ att'[c] = a
        /\ \A d \in Conns : d # c => att'[d] = att[d]
    BY SetAttempt DEF IInv, NetTypeOK
  <1>2. NoDangling'
    BY <1>1, NetAssumption DEF IInv, NoDangling, Local, Owned
  <1>3. UnderWay'
    <2> SUFFICES ASSUME NEW d \in Conns
                 PROVE  /\ att'[d].sock = "connecting" => att'[d].info = "live"
                        /\ att'[d].idx = 1 =>
                           /\ att'[d].info = "live" =>
                                \/ att'[d].sock = "connecting" /\ att'[d].dns = NoId
                                \/ /\ att'[d].sock = "none"
                                   /\ \E q \in queries' : q.id = att'[d].dns /\ q.cd = d
                           /\ att'[d].sock = "up" => att'[d].info = "freed" /\ att'[d].heard = 1
                           /\ att'[d].handler = 1 /\ (att'[d].info = "live" => att'[d].heard = 0)
      BY DEF UnderWay
    <2>1. CASE d = c
      BY <2>1, <1>1 DEF Local
    <2>2. CASE d # c
      BY <2>2, <1>1 DEF IInv, UnderWay
    <2> QED
      BY <2>1, <2>2
  <1> QED
    BY <1>2, <1>3

\* The lookups of an attempt are those its connect_info knows.
LEMMA Owner ==
  ASSUME IInv, NEW c \in Conns, NEW q \in queries, q.cd = c
  PROVE  att[c].info = "live" /\ att[c].idx = 1 /\ att[c].dns = q.id /\ q.id \in Nat
  BY NetAssumption DEF IInv, NoDangling, Owned, NetTypeOK, Queries

LEMMA CancelOwn ==
  ASSUME IInv, NEW c \in Conns, att[c].info = "live"
  PROVE  {q \in queries : q.id # att[c].dns} = {q \in queries : q.cd # c}
  <1>1. ASSUME NEW q \in queries, q.cd = c
        PROVE  q.id = att[c].dns
    BY <1>1, Owner
  <1>2. ASSUME NEW q \in queries, q.id = att[c].dns
        PROVE  q.cd = c
    <2>1. att[c].dns \in Nat
      BY <1>2 DEF IInv, NetTypeOK, Queries
    <2>2. PICK r \in queries : r.id = att[c].dns /\ r.cd = c
      BY <2>1 DEF IInv, UnderWay, NoDangling, NoId
    <2> QED
      BY <1>2, <2>2 DEF IInv, NoDangling
  <1> QED
    BY <1>1, <1>2

\* What the record of an attempt is after it failed.
LEMMA FailedLocal ==
  ASSUME NEW a \in Attempts
  PROVE  /\ a.handler = 1 => failed(a) = [Unused EXCEPT !.heard = a.heard + 1]
         /\ a.handler = 0 => failed(a) = [a EXCEPT !.dns = NoId, !.timer = 0, !.info = "freed"]
  BY DEF failed, on_eof, detach, Attempts

LEMMA Fields ==
  ASSUME NEW a \in Attempts, a.handler = 1
  PROVE  /\ Local(failed(a))
         /\ failed(a).idx = 0 /\ failed(a).heard = a.heard + 1
         /\ Local(on_eof(detach(a)))
         /\ on_eof(detach(a)).idx = 0 /\ on_eof(detach(a)).heard = a.heard + 1
         /\ Local([Unused EXCEPT !.heard = a.heard])
         /\ [Unused EXCEPT !.heard = a.heard] \in Attempts
  BY DEF failed, on_eof, detach, Attempts, Local, Unused, NoId

LEMMA Fields2 ==
  ASSUME NEW a \in Attempts
  PROVE  /\ connected(a) \in Attempts
         /\ connected(a).idx = a.idx /\ connected(a).timer = 0 /\ connected(a).info = "freed"
         /\ connected(a).sock = "up" /\ connected(a).heard = a.heard + a.handler
         /\ connected(a).handler = a.handler
  <1>1. detach(a) \in Attempts /\ detach(a).heard = a.heard /\ a.handler \in {0, 1}
    BY DEF detach, Attempts
  <1>2. a.heard + a.handler \in Nat
    BY DEF Attempts
  <1> QED
    BY <1>1, <1>2 DEF connected, detach, Attempts

-----------------------------------------------------------------------------
\* Types.
LEMMA TypeStep ==
  ASSUME IInv, [NetNext]_netvars
  PROVE  NetTypeOK'
  <1> USE DEF IInv
  <1>1. ASSUME NEW c \in Conns, NEW h \in Hosts, NEW t \in {0, 1}, egg_connect(c, h, t)
        PROVE  NetTypeOK'
    <2>1. attach(h, t) \in Attempts /\ query_id \in {NoId} \cup Nat /\ NoId \in {NoId} \cup Nat
      BY Records DEF NetTypeOK
    <2>2. ASSUME NEW ans \in AtOnce(h), NEW a \in connect_host_resolved(attach(h, t), ans),
                 Set(c, returned(a, NoId)), UNCHANGED dnsvars
          PROVE  NetTypeOK'
      <3>1. ans \subseteq Hosts
        BY DEF AtOnce, Cached, NetTypeOK, Answers
      <3>2. a \in Attempts
        BY <3>1, <2>1, Records DEF connect_host_resolved
      <3>3. returned(a, NoId) \in Attempts
        BY <3>2, <2>1, Records
      <3> QED
        BY <1>1, <2>2, <3>3, SetAttempt DEF NetTypeOK, dnsvars, egg_connect
    <2>3. ASSUME Ask(h, c), Set(c, returned(attach(h, t), query_id))
          PROVE  NetTypeOK'
      <3>1. returned(attach(h, t), query_id) \in Attempts
        BY <2>1, Records
      <3> QED
        BY <1>1, <2>3, <3>1, AskTypes, SetAttempt DEF NetTypeOK, egg_connect
    <2> QED
      BY <1>1, <2>2, <2>3 DEF egg_connect
  <1>2. ASSUME NEW c \in Conns, egg_connect_timeout(c)
        PROVE  NetTypeOK'
    <2>1. [att[c] EXCEPT !.timer = 0] \in Attempts
      BY DEF NetTypeOK, Attempts
    <2>2. failed([att[c] EXCEPT !.timer = 0]) \in Attempts
      BY <2>1, Records
    <2> QED
      BY <1>2, <2>1, <2>2, SetAttempt DEF NetTypeOK, egg_connect_timeout, Cancel, dnsvars
  <1>3. ASSUME NEW c \in Conns, egg_on_connect(c)
        PROVE  NetTypeOK'
    <2>1. connected(att[c]) \in Attempts
      BY Fields2 DEF NetTypeOK
    <2> QED
      BY <1>3, <2>1, SetAttempt DEF NetTypeOK, egg_on_connect
  <1>4. ASSUME NEW c \in Conns, egg_on_eof(c)
        PROVE  NetTypeOK'
    <2>1. att[c] \in Attempts
      BY DEF NetTypeOK
    <2>2. on_eof(detach(att[c])) \in Attempts
      BY <2>1, Records
    <2> QED
      BY <1>4, <2>2, SetAttempt DEF NetTypeOK, egg_on_eof
  <1>5. ASSUME NEW c \in Conns, egg_on_delete(c)
        PROVE  NetTypeOK'
    <2>1. [Unused EXCEPT !.heard = att[c].heard] \in Attempts
      BY DEF NetTypeOK, Attempts, Unused, NoId
    <2> QED
      BY <1>5, <2>1, SetAttempt DEF NetTypeOK, egg_on_delete, Cancel, dnsvars
  <1>6. ASSUME NEW p \in wire, NameReply(p)
        PROVE  NetTypeOK'
    <2>1. wire' \subseteq Packets /\ query_id' = query_id /\ dns_idx' = dns_idx
      BY <1>6 DEF NameReply, StrayReply, PartReply, LastReply, Heard, NetTypeOK
    <2>2. CASE StrayReply(p) /\ UNCHANGED <<att, script>>
      BY <2>1, <2>2 DEF StrayReply, NetTypeOK
    <2>3. ASSUME NEW q \in Asked(p), NEW ans \in Said(p), PartReply(p, q, ans),
                 UNCHANGED <<att, script>>
          PROVE  NetTypeOK'
      <3>2. more(q, ans) \in Queries
        BY <2>3, ReplyTypes DEF PartReply
      <3>1. queries' \subseteq Queries
        BY <2>3, <3>2 DEF PartReply, NetTypeOK
      <3> QED
        BY <2>1, <2>3, <3>1 DEF PartReply, NetTypeOK
    <2>4. ASSUME NEW q \in Asked(p), NEW ans \in Said(p), LastReply(p, q, ans), q.cd \in Conns,
                 NEW a \in connect_host_resolved(att[q.cd], q.got \cup ans), Set(q.cd, a),
                 UNCHANGED script
          PROVE  NetTypeOK'
      <3>1. att[q.cd] \in Attempts
        BY <2>4 DEF NetTypeOK
      <3>5. q.got \cup ans \subseteq Hosts
        BY <2>4, ReplyTypes
      <3>2. a \in Attempts
        BY <3>1, <3>5, Records DEF connect_host_resolved
      <3>3. att' \in [Conns -> Attempts]
        BY <3>2, <2>4, SetAttempt DEF NetTypeOK
      <3>6. [host |-> q.host, ans |-> q.got \cup ans] \in [host : Hosts, ans : Answers]
        BY <2>4, ReplyTypes
      <3>4. cache' \subseteq [host : Hosts, ans : Answers]
        BY <2>4, <3>6 DEF LastReply, NetTypeOK
      <3> QED
        BY <2>1, <2>4, <3>3, <3>4 DEF LastReply, NetTypeOK
    <2>5. ASSUME NEW q \in Asked(p), NEW ans \in Said(p), LastReply(p, q, ans), q.cd \in Scripts,
                 script' = [script EXCEPT ![q.cd] = 0], UNCHANGED att
          PROVE  NetTypeOK'
      <3>6. [host |-> q.host, ans |-> q.got \cup ans] \in [host : Hosts, ans : Answers]
        BY <2>5, ReplyTypes
      <3>1. cache' \subseteq [host : Hosts, ans : Answers]
        BY <2>5, <3>6 DEF LastReply, NetTypeOK
      <3> QED
        BY <2>1, <2>5, <3>1 DEF LastReply, NetTypeOK
    <2> QED
      BY <1>6, <2>2, <2>3, <2>4, <2>5 DEF NameReply
  <1>7. ASSUME NEW sc \in Scripts, NEW h \in Hosts, script_dns_query(sc, h)
        PROVE  NetTypeOK'
    BY <1>7, AskTypes DEF NetTypeOK, script_dns_query
  <1>8. ASSUME NEW sc \in Scripts, script_kill_by_owner(sc)
        PROVE  NetTypeOK'
    BY <1>8 DEF NetTypeOK, script_kill_by_owner, CancelAll
  <1>9. CASE (DnsOnEof \/ Lose \/ ExpireQueries) /\ UNCHANGED <<att, script>>
    BY <1>9 DEF NetTypeOK, DnsOnEof, Lose, ExpireQueries
  <1>10. CASE UNCHANGED netvars
    BY <1>10 DEF NetTypeOK, netvars
  <1> QED
    BY <1>1, <1>2, <1>3, <1>4, <1>5, <1>6, <1>7, <1>8, <1>9, <1>10 DEF NetNext

-----------------------------------------------------------------------------
\* An idx that is free has no lookup.
LEMMA FreeIdx ==
  ASSUME IInv, NEW c \in Conns, att[c].idx = 0
  PROVE  queries = {q \in queries : q.cd # c}
  BY Owner

\* Answers before egg_client returns leave a failed or a connecting attempt.
LEMMA AtOnceLocal ==
  ASSUME NEW h \in Hosts, NEW t \in {0, 1}, NEW ans \in SUBSET Hosts,
         NEW a \in connect_host_resolved(attach(h, t), ans)
  PROVE  /\ returned(a, NoId) \in Attempts
         /\ Local(returned(a, NoId))
         /\ returned(a, NoId).idx = 1 /\ returned(a, NoId).heard = 0
         /\ returned(a, NoId).sock # "up"
  <1>0. attach(h, t) \in Attempts
    BY DEF attach, Unused, Attempts, NoId
  <1>4. /\ attach(h, t).handler = 0 /\ attach(h, t).idx = 1 /\ attach(h, t).heard = 0
        /\ attach(h, t).sock = "none"
    BY DEF attach, Unused
  <1>1. CASE a = failed(attach(h, t))
    <2>1. a = [attach(h, t) EXCEPT !.dns = NoId, !.timer = 0, !.info = "freed"]
      BY <1>1, <1>0, <1>4, FailedLocal
    <2> HIDE DEF attach
    <2>2. /\ a \in Attempts
          /\ a.idx = 1 /\ a.heard = 0 /\ a.sock = "none" /\ a.timer = 0 /\ a.info = "freed"
      BY <2>1, <1>0, <1>4 DEF Attempts, NoId
    <2>3. returned(a, NoId) \in Attempts
      BY <2>2 DEF returned, Attempts, NoId
    <2>4. /\ returned(a, NoId).idx = 1 /\ returned(a, NoId).heard = 0
          /\ returned(a, NoId).sock = "none" /\ returned(a, NoId).timer = 0
          /\ returned(a, NoId).info = "freed" /\ returned(a, NoId).handler = 1
      BY <2>2 DEF returned, Attempts
    <2> QED
      BY <2>3, <2>4 DEF Local
  <1>2. ASSUME NEW ip \in ans, a = connecting(attach(h, t), ip)
        PROVE  /\ returned(a, NoId) \in Attempts
               /\ Local(returned(a, NoId))
               /\ returned(a, NoId).idx = 1 /\ returned(a, NoId).heard = 0
               /\ returned(a, NoId).sock # "up"
    BY <1>2 DEF connecting, attach, Unused, returned, Attempts, Local, NoId
  <1> QED
    BY <1>1, <1>2 DEF connect_host_resolved

\* connect_host_resolved for an attempt whose caller has its handler set.
LEMMA ResolvedLocal ==
  ASSUME NEW a \in Attempts, a.handler = 1, a.idx = 1, a.info = "live", a.heard = 0,
         NEW ans \in SUBSET Hosts, NEW b \in connect_host_resolved(a, ans)
  PROVE  b \in Attempts /\ Local(b)
  <1>1. CASE b = failed(a)
    BY <1>1, Fields, Records
  <1>2. ASSUME NEW ip \in ans, b = connecting(a, ip)
        PROVE  b \in Attempts /\ Local(b)
    BY <1>2 DEF connecting, Attempts, Local, NoId
  <1> QED
    BY <1>1, <1>2 DEF connect_host_resolved

\* A new lookup gets an id that no other has.
LEMMA AskOwned ==
  ASSUME IInv, NEW h \in Hosts, NEW cd \in Conns \cup Scripts, Ask(h, cd),
         \A q \in queries : q.cd # cd,
         att' \in [Conns -> Attempts], script' \in [Scripts -> {0, 1}],
         \A d \in Conns : d # cd => att'[d] = att[d],
         \A d \in Scripts : d # cd => script'[d] = script[d],
         cd \in Conns => /\ att'[cd].info = "live" /\ att'[cd].dns = query_id
                         /\ att'[cd].idx = 1 /\ att'[cd].handler = 1
                         /\ att'[cd].heard = 0 /\ att'[cd].sock = "none",
         cd \in Scripts => script'[cd] = 1
  PROVE  NoDangling' /\ UnderWay'
  <1>1. /\ queries' = queries \cup {NewQuery(h, cd)}
        /\ query_id' = query_id + 1
        /\ NewQuery(h, cd).id = query_id /\ NewQuery(h, cd).cd = cd
        /\ query_id \in Nat
    BY DEF Ask, NewQuery, IInv, NetTypeOK
  <1>2. \A q \in queries : q.id \in Nat /\ q.id < query_id /\ q.id # query_id
    BY DEF IInv, NoDangling, NetTypeOK, Queries
  <1>3. \A q \in queries' : q.id < query_id'
    BY <1>1, <1>2
  <1>4. \A q, r \in queries' : q.id = r.id \/ q.cd = r.cd => q = r
    BY <1>1, <1>2 DEF IInv, NoDangling
  <1>5. \A q \in queries' : Owned(q)'
    <2> SUFFICES ASSUME NEW q \in queries' PROVE Owned(q)'
      OBVIOUS
    <2>1. CASE q \in queries
      BY <2>1 DEF IInv, NoDangling, Owned
    <2>2. CASE q = NewQuery(h, cd)
      BY <2>2, <1>1 DEF Owned
    <2> QED
      BY <2>1, <2>2, <1>1
  <1>6. \A d \in Conns : /\ att'[d].timer = 1 => att'[d].info = "live"
                         /\ att'[d].info = "live" => att'[d].idx = 1
    BY DEF IInv, NoDangling
  <1>7. UnderWay'
    <2> SUFFICES ASSUME NEW d \in Conns
                 PROVE  /\ att'[d].sock = "connecting" => att'[d].info = "live"
                        /\ att'[d].idx = 1 =>
                           /\ att'[d].info = "live" =>
                                \/ att'[d].sock = "connecting" /\ att'[d].dns = NoId
                                \/ /\ att'[d].sock = "none"
                                   /\ \E q \in queries' : q.id = att'[d].dns /\ q.cd = d
                           /\ att'[d].sock = "up" => att'[d].info = "freed" /\ att'[d].heard = 1
                           /\ att'[d].handler = 1 /\ (att'[d].info = "live" => att'[d].heard = 0)
      BY DEF UnderWay
    <2>1. CASE d = cd
      BY <2>1, <1>1
    <2>2. CASE d # cd
      BY <2>2, <1>1 DEF IInv, UnderWay
    <2> QED
      BY <2>1, <2>2
  <1> QED
    BY <1>3, <1>4, <1>5, <1>6, <1>7 DEF NoDangling

-----------------------------------------------------------------------------
\* The inductive step for the rest of the invariant, one lemma per group of
\* actions.
LEMMA ConnectStep ==
  ASSUME IInv, NEW c \in Conns, NEW h \in Hosts, NEW t \in {0, 1}, egg_connect(c, h, t)
  PROVE  NoDangling' /\ UnderWay'
  <1>1. att[c].idx = 0 /\ script' = script
    BY DEF egg_connect
  <1>2. queries = {q \in queries : q.cd # c}
    BY <1>1, FreeIdx
  <1>3. ASSUME NEW ans \in AtOnce(h), NEW a \in connect_host_resolved(attach(h, t), ans),
               Set(c, returned(a, NoId)), UNCHANGED dnsvars
        PROVE  NoDangling' /\ UnderWay'
    <2>1. ans \in SUBSET Hosts
      BY DEF AtOnce, Cached, IInv, NetTypeOK, Answers
    <2>2. returned(a, NoId) \in Attempts /\ Local(returned(a, NoId))
      BY <2>1, AtOnceLocal
    <2>3. queries' = {q \in queries : q.cd # c} /\ query_id' = query_id
      BY <1>2, <1>3 DEF dnsvars
    <2> QED
      BY <1>1, <1>3, <2>2, <2>3, LookupOver
  <1>4. ASSUME Ask(h, c), Set(c, returned(attach(h, t), query_id))
        PROVE  NoDangling' /\ UnderWay'
    <2> DEFINE b == returned(attach(h, t), query_id)
    <2>1. attach(h, t) \in Attempts /\ query_id \in Nat
      BY DEF attach, Unused, Attempts, NoId, IInv, NetTypeOK
    <2>2. b \in Attempts /\ b.info = "live" /\ b.dns = query_id /\ b.idx = 1
          /\ b.handler = 1 /\ b.heard = 0 /\ b.sock = "none"
      BY <2>1 DEF attach, Unused, Attempts, NoId, returned
    <2> HIDE DEF b
    <2>3. Set(c, b)
      BY <1>4 DEF b
    <2>4. /\ att' \in [Conns -> Attempts] /\ att'[c] = b
          /\ \A d \in Conns : d # c => att'[d] = att[d]
      BY <2>2, <2>3, SetAttempt DEF IInv, NetTypeOK
    <2>5. script' \in [Scripts -> {0, 1}] /\ c \notin Scripts
      BY <1>1 DEF IInv, NetTypeOK
    <2>6. \A q \in queries : q.cd # c
      BY <1>2
    <2> QED
      BY <1>1, <1>4, <2>2, <2>4, <2>5, <2>6, AskOwned
  <1> QED
    BY <1>3, <1>4 DEF egg_connect

\* Steps that end an attempt or its lookup.
LEMMA EndStep ==
  ASSUME IInv, NEW c \in Conns,
         \/ egg_connect_timeout(c) \/ egg_on_connect(c) \/ egg_on_eof(c) \/ egg_on_delete(c)
  PROVE  NoDangling' /\ UnderWay'
  <1> DEFINE a == att[c]
  <1>1. a \in Attempts
    BY DEF IInv, NetTypeOK
  <1>2. a.sock = "connecting" => a.info = "live" /\ a.idx = 1 /\ a.dns = NoId
    BY DEF IInv, UnderWay, NoDangling
  <1>3. a.idx = 1 => a.handler = 1
    BY DEF IInv, UnderWay
  <1>4. a.info = "live" => a.idx = 1 /\ a.heard = 0
    BY DEF IInv, UnderWay, NoDangling
  <1>5. a.info = "live" => {q \in queries : q.id # a.dns} = {q \in queries : q.cd # c}
    BY CancelOwn
  <1>6. a.dns = NoId => queries = {q \in queries : q.cd # c}
    BY Owner DEF NoId
  <1>11. a.info # "live" => queries = {q \in queries : q.cd # c}
    BY Owner
  <1>7. CASE egg_connect_timeout(c)
    <2> DEFINE b == [a EXCEPT !.timer = 0]
    <2>1. a.info = "live" /\ a.idx = 1 /\ a.handler = 1
      BY <1>7, <1>3, <1>4 DEF egg_connect_timeout, IInv, NoDangling
    <2>2. b \in Attempts /\ b.handler = 1 /\ b.dns = a.dns
      BY <1>1, <2>1 DEF Attempts
    <2>3. failed(b) \in Attempts /\ Local(failed(b))
      BY <2>2, Records, Fields
    <2>4. Set(c, failed(b)) /\ script' = script /\ query_id' = query_id
      <3>1. a.dns # NoId => \E q \in queries : q.id = a.dns
        BY <2>1 DEF IInv, UnderWay
      <3> QED
        BY <1>7, <3>1 DEF egg_connect_timeout, Cancel, dnsvars
    <2>5. queries' = {q \in queries : q.cd # c}
      BY <1>7, <1>5, <1>6, <2>1 DEF egg_connect_timeout, Cancel, dnsvars
    <2> QED
      BY <2>3, <2>4, <2>5, LookupOver
  <1>8. CASE egg_on_connect(c)
    <2>1. a.info = "live" /\ a.idx = 1 /\ a.handler = 1 /\ a.dns = NoId /\ a.heard = 0
      BY <1>8, <1>2, <1>3, <1>4 DEF egg_on_connect
    <2>2. connected(a) \in Attempts /\ Local(connected(a))
      BY <1>1, <2>1, Fields2 DEF Local
    <2>3. /\ queries' = {q \in queries : q.cd # c} /\ Set(c, connected(a))
          /\ script' = script /\ query_id' = query_id
      BY <1>8, <1>6, <2>1 DEF egg_on_connect
    <2> QED
      BY <2>2, <2>3, LookupOver
  <1>9. CASE egg_on_eof(c)
    <2>1. a.info = "live" /\ a.idx = 1 /\ a.handler = 1 /\ a.dns = NoId
      BY <1>9, <1>2, <1>3 DEF egg_on_eof
    <2>2. on_eof(detach(a)) \in Attempts /\ Local(on_eof(detach(a)))
      BY <1>1, <2>1, Records, Fields
    <2>3. /\ queries' = {q \in queries : q.cd # c} /\ Set(c, on_eof(detach(a)))
          /\ script' = script /\ query_id' = query_id
      BY <1>9, <1>6, <2>1 DEF egg_on_eof
    <2> QED
      BY <2>2, <2>3, LookupOver
  <1>10. CASE egg_on_delete(c)
    <2>1. a.idx = 1 /\ a.handler = 1
      BY <1>10, <1>3 DEF egg_on_delete
    <2>2. [Unused EXCEPT !.heard = a.heard] \in Attempts /\ Local([Unused EXCEPT !.heard = a.heard])
      BY <1>1, <2>1, Fields
    <2>3. Set(c, [Unused EXCEPT !.heard = a.heard]) /\ script' = script /\ query_id' = query_id
      BY <1>10 DEF egg_on_delete, Cancel, dnsvars
    <2>4. queries' = {q \in queries : q.cd # c}
      BY <1>10, <1>5, <1>6, <1>11 DEF egg_on_delete, Cancel, dnsvars
    <2> QED
      BY <2>2, <2>3, <2>4, LookupOver
  <1> QED
    BY <1>7, <1>8, <1>9, <1>10

\* The lookups change but each keeps its id and its owner, who stays.
LEMMA SameLookups ==
  ASSUME IInv, UNCHANGED <<att, script, query_id>>,
         \A q \in queries' : \E r \in queries : r.id = q.id /\ r.cd = q.cd,
         \A r \in queries : \E q \in queries' : r.id = q.id /\ r.cd = q.cd,
         \A q, r \in queries' : q.id = r.id \/ q.cd = r.cd => q = r
  PROVE  NoDangling' /\ UnderWay'
  <1>1. \A q \in queries' : Owned(q)' /\ q.id < query_id'
    BY DEF IInv, NoDangling, Owned
  <1>2. NoDangling'
    BY <1>1 DEF IInv, NoDangling
  <1>3. UnderWay'
    BY DEF IInv, UnderWay
  <1> QED
    BY <1>2, <1>3

\* A script's lookups end.
LEMMA ScriptOver ==
  ASSUME IInv, NEW s \in Scripts, script' = [script EXCEPT ![s] = 0],
         UNCHANGED <<att, query_id>>, queries' = {q \in queries : q.cd # s}
  PROVE  NoDangling' /\ UnderWay'
  <1>1. \A d \in Scripts : d # s => script'[d] = script[d]
    BY DEF IInv, NetTypeOK
  <1>2. NoDangling'
    BY <1>1 DEF IInv, NoDangling, Owned
  <1>3. \A q \in queries : q.cd \in Conns => q \in queries'
    OBVIOUS
  <1>4. UnderWay'
    BY <1>3 DEF IInv, UnderWay
  <1> QED
    BY <1>2, <1>4

LEMMA ReplyStep ==
  ASSUME IInv, NEW p \in wire, NameReply(p)
  PROVE  NoDangling' /\ UnderWay'
  <1>0. NetTypeOK
    BY DEF IInv
  <1>1. CASE StrayReply(p) /\ UNCHANGED <<att, script>>
    BY <1>1, SameLookups DEF StrayReply, IInv, NoDangling
  <1>2. ASSUME NEW q \in Asked(p), NEW ans \in Said(p), PartReply(p, q, ans),
               UNCHANGED <<att, script>>
        PROVE  NoDangling' /\ UnderWay'
    <2>1. q \in queries /\ more(q, ans).id = q.id /\ more(q, ans).cd = q.cd
      <3>1. q \in queries /\ q \in Queries
        BY <1>0, <1>2 DEF Asked, NetTypeOK
      <3> QED
        BY <3>1 DEF more, Queries
    <2>4. queries' = (queries \ {q}) \cup {more(q, ans)} /\ query_id' = query_id
      BY <1>2 DEF PartReply
    <2>2. \A r, u \in queries : r.id = u.id \/ r.cd = u.cd => r = u
      BY DEF IInv, NoDangling
    <2>3. \A r, u \in queries' : r.id = u.id \/ r.cd = u.cd => r = u
      BY <2>1, <2>2, <2>4
    <2> QED
      BY <1>2, <2>1, <2>3, <2>4, SameLookups
  <1>3. ASSUME NEW q \in Asked(p), NEW ans \in Said(p), LastReply(p, q, ans)
        PROVE  /\ q \in queries /\ queries' = queries \ {q} /\ query_id' = query_id
               /\ q.got \cup ans \in SUBSET Hosts
    BY <1>0, <1>3, ReplyTypes DEF LastReply
  <1>4. ASSUME NEW q \in Asked(p), NEW ans \in Said(p), LastReply(p, q, ans), q.cd \in Conns,
               NEW b \in connect_host_resolved(att[q.cd], q.got \cup ans), Set(q.cd, b),
               UNCHANGED script
        PROVE  NoDangling' /\ UnderWay'
    <2>1. att[q.cd].info = "live" /\ att[q.cd].idx = 1 /\ att[q.cd].dns = q.id
      BY <1>3, <1>4, Owner
    <2>2. att[q.cd] \in Attempts /\ att[q.cd].handler = 1 /\ att[q.cd].heard = 0
      BY <1>4, <2>1 DEF IInv, NetTypeOK, UnderWay
    <2>3. b \in Attempts /\ Local(b)
      BY <1>3, <1>4, <2>1, <2>2, ResolvedLocal
    <2>4. queries' = {r \in queries : r.cd # q.cd}
      <3>1. \A r \in queries : r.cd = q.cd => r = q
        BY <1>3, <1>4, <2>1, Owner DEF IInv, NoDangling
      <3> QED
        BY <1>3, <1>4, <3>1
    <2> QED
      BY <1>3, <1>4, <2>3, <2>4, LookupOver
  <1>5. ASSUME NEW q \in Asked(p), NEW ans \in Said(p), LastReply(p, q, ans), q.cd \in Scripts,
               script' = [script EXCEPT ![q.cd] = 0], UNCHANGED att
        PROVE  NoDangling' /\ UnderWay'
    <2>1. queries' = {r \in queries : r.cd # q.cd}
      BY <1>3, <1>5 DEF IInv, NoDangling
    <2> QED
      BY <1>3, <1>5, <2>1, ScriptOver
  <1> QED
    BY <1>1, <1>2, <1>4, <1>5 DEF NameReply

\* The invariant is inductive.
LEMMA InvInit == NetInit => IInv
  BY DEF NetInit, DnsInit, IInv, NetTypeOK, NoDangling, UnderWay, Unused, Attempts, NoId, Owned

LEMMA InvStep == IInv /\ [NetNext]_netvars => IInv'
  <1> SUFFICES ASSUME IInv, [NetNext]_netvars
               PROVE  NoDangling' /\ UnderWay'
    BY TypeStep DEF IInv
  <1>1. ASSUME NEW c \in Conns, NEW h \in Hosts, NEW t \in {0, 1}, egg_connect(c, h, t)
        PROVE  NoDangling' /\ UnderWay'
    BY <1>1, ConnectStep
  <1>2. ASSUME NEW c \in Conns,
               \/ egg_connect_timeout(c) \/ egg_on_connect(c) \/ egg_on_eof(c) \/ egg_on_delete(c)
        PROVE  NoDangling' /\ UnderWay'
    BY <1>2, EndStep
  <1>3. ASSUME NEW p \in wire, NameReply(p)
        PROVE  NoDangling' /\ UnderWay'
    BY <1>3, ReplyStep
  <1>4. ASSUME NEW s \in Scripts, NEW h \in Hosts, script_dns_query(s, h)
        PROVE  NoDangling' /\ UnderWay'
    <2>1. /\ att' = att /\ script'[s] = 1 /\ s \notin Conns
          /\ script' \in [Scripts -> {0, 1}] /\ att' \in [Conns -> Attempts]
          /\ \A d \in Scripts : d # s => script'[d] = script[d]
      BY <1>4 DEF script_dns_query, IInv, NetTypeOK
    <2>2. \A q \in queries : q.cd # s
      BY <1>4 DEF script_dns_query, IInv, NoDangling, Owned
    <2>3. Ask(h, s)
      BY <1>4 DEF script_dns_query
    <2> QED
      BY <2>1, <2>2, <2>3, AskOwned
  <1>5. ASSUME NEW s \in Scripts, script_kill_by_owner(s)
        PROVE  NoDangling' /\ UnderWay'
    BY <1>5, ScriptOver DEF script_kill_by_owner, CancelAll
  <1>6. CASE UNCHANGED <<queries, query_id, att, script>>
    <2>1. \A q, r \in queries' : q.id = r.id \/ q.cd = r.cd => q = r
      BY <1>6 DEF IInv, NoDangling
    <2> QED
      BY <1>6, <2>1, SameLookups
  <1>7. CASE (DnsOnEof \/ Lose \/ ExpireQueries) /\ UNCHANGED <<att, script>>
    BY <1>6, <1>7 DEF DnsOnEof, Lose, ExpireQueries
  <1>8. CASE UNCHANGED netvars
    BY <1>6, <1>8 DEF netvars
  <1> QED
    BY <1>1, <1>2, <1>3, <1>4, <1>5, <1>7, <1>8 DEF NetNext

LEMMA Invariance == NetSpec => []IInv
  BY InvInit, InvStep, PTL DEF NetSpec

-----------------------------------------------------------------------------
\* Every variable of net.c and dns.c keeps its type, for any number of
\* connections, hosts, scripts and lookups.
THEOREM TypeCorrect == NetSpec => []NetTypeOK
  <1>1. IInv => NetTypeOK
    BY DEF IInv
  <1> QED
    BY <1>1, Invariance, PTL

\* Lookups, timers and filters never outlive what they point to, whichever of
\* answer, timeout, connection, refusal and deletion comes first.
THEOREM NoDanglingPointers == NetSpec => []NoDangling
  <1>1. IInv => NoDangling
    BY DEF IInv
  <1> QED
    BY <1>1, Invariance, PTL

\* An attempt that has not ended has exactly one thing left to wait for.
THEOREM AlwaysUnderWay == NetSpec => []UnderWay
  <1>1. IInv => UnderWay
    BY DEF IInv
  <1> QED
    BY <1>1, Invariance, PTL

\* The initial state maps to the abstract one.
LEMMA RefineInit == NetInit => A!AttemptInit
  BY DEF NetInit, A!AttemptInit, Phase, Unused

\* A step that sets one attempt and leaves the others: the abstract variables
\* change at that attempt only.
LEMMA OneMoves ==
  ASSUME att \in [Conns -> Attempts], NEW c \in Conns, NEW a \in Attempts, Set(c, a)
  PROVE  /\ [d \in Conns |-> Phase(att[d])]' =
              [[d \in Conns |-> Phase(att[d])] EXCEPT ![c] = Phase(a)]
         /\ [d \in Conns |-> att[d].heard]' =
              [[d \in Conns |-> att[d].heard] EXCEPT ![c] = a.heard]
  <1>1. /\ att'[c] = a
        /\ \A d \in Conns : d # c => att'[d] = att[d]
    BY SetAttempt
  <1>2. \A d \in Conns : Phase(att[d])' = IF d = c THEN Phase(a) ELSE Phase(att[d])
    BY <1>1 DEF Phase
  <1> QED
    BY <1>1, <1>2

\* How the new record of an attempt decides which abstract step is taken.
LEMMA Steps ==
  ASSUME att \in [Conns -> Attempts], NEW c \in Conns, NEW a \in Attempts, Set(c, a)
  PROVE  /\ att[c].idx = 0 /\ a.idx = 1 /\ a.sock # "up" /\ a.heard = 0 => A!Begin(c)
         /\ Phase(att[c]) = "trying" /\ Phase(a) = "connected" /\ a.heard = att[c].heard + 1
              => A!Connected(c)
         /\ Phase(att[c]) = "trying" /\ a.idx = 0 /\ a.heard = att[c].heard + 1 => A!Failed(c)
         /\ att[c].idx = 1 /\ a.idx = 0 /\ a.heard = att[c].heard => A!Over(c)
         /\ Phase(a) = Phase(att[c]) /\ a.heard = att[c].heard
              => /\ [d \in Conns |-> Phase(att[d])]' = [d \in Conns |-> Phase(att[d])]
                 /\ [d \in Conns |-> att[d].heard]' = [d \in Conns |-> att[d].heard]
  <1> DEFINE ph == [d \in Conns |-> Phase(att[d])]
             hd == [d \in Conns |-> att[d].heard]
  <1>1. ph' = [ph EXCEPT ![c] = Phase(a)] /\ hd' = [hd EXCEPT ![c] = a.heard]
    BY OneMoves
  <1>2. ph[c] = Phase(att[c]) /\ hd[c] = att[c].heard
    OBVIOUS
  <1>3. att[c].idx \in {0, 1} /\ a.idx \in {0, 1}
    BY DEF Attempts
  <1>4. att[c].idx = 0 /\ a.idx = 1 /\ a.sock # "up" /\ a.heard = 0 => A!Begin(c)
    <2>1. a.idx = 1 /\ a.sock # "up" => Phase(a) \in {"trying", "silent"}
      BY DEF Phase
    <2>2. att[c].idx = 0 => Phase(att[c]) = "idle"
      BY DEF Phase
    <2> QED
      BY <1>1, <1>2, <2>1, <2>2 DEF A!Begin
  <1>5. Phase(att[c]) = "trying" /\ Phase(a) = "connected" /\ a.heard = att[c].heard + 1
          => A!Connected(c)
    BY <1>1, <1>2 DEF A!Connected
  <1>6. a.idx = 0 => Phase(a) = "idle"
    BY DEF Phase
  <1>7. Phase(att[c]) = "trying" /\ a.idx = 0 /\ a.heard = att[c].heard + 1 => A!Failed(c)
    BY <1>1, <1>2, <1>6 DEF A!Failed
  <1>8. att[c].idx = 1 => Phase(att[c]) # "idle"
    BY DEF Phase
  <1>9. att[c].idx = 1 /\ a.idx = 0 /\ a.heard = att[c].heard => A!Over(c)
    <2> SUFFICES ASSUME att[c].idx = 1, a.idx = 0, a.heard = att[c].heard
                 PROVE  A!Over(c)
      OBVIOUS
    <2>1. hd' = hd
      BY <1>1, <1>2
    <2> QED
      BY <1>1, <1>2, <1>6, <1>8, <2>1 DEF A!Over
  <1>10. Phase(a) = Phase(att[c]) /\ a.heard = att[c].heard => ph' = ph /\ hd' = hd
    BY <1>1, <1>2, ZenonT(40)
  <1> QED
    BY <1>4, <1>5, <1>7, <1>9, <1>10

\* What the abstract specification allows.
Allowed == \/ A!AttemptNext
           \/ /\ [d \in Conns |-> Phase(att[d])]' = [d \in Conns |-> Phase(att[d])]
              /\ [d \in Conns |-> att[d].heard]' = [d \in Conns |-> att[d].heard]

LEMMA RefineConnect ==
  ASSUME IInv, NEW c \in Conns, NEW h \in Hosts, NEW t \in {0, 1}, egg_connect(c, h, t)
  PROVE  A!Begin(c)
  <1>0. att \in [Conns -> Attempts] /\ att[c].idx = 0
    BY DEF IInv, NetTypeOK, egg_connect
  <1>1. ASSUME NEW ans \in AtOnce(h), NEW a \in connect_host_resolved(attach(h, t), ans),
               Set(c, returned(a, NoId))
        PROVE  A!Begin(c)
    <2>1. ans \in SUBSET Hosts
      BY DEF AtOnce, Cached, IInv, NetTypeOK, Answers
    <2>2. /\ returned(a, NoId) \in Attempts /\ returned(a, NoId).idx = 1
          /\ returned(a, NoId).heard = 0 /\ returned(a, NoId).sock # "up"
      BY <2>1, AtOnceLocal
    <2> QED
      BY <1>0, <1>1, <2>2, Steps
  <1>2. ASSUME Set(c, returned(attach(h, t), query_id))
        PROVE  A!Begin(c)
    <2> DEFINE b == returned(attach(h, t), query_id)
    <2>1. attach(h, t) \in Attempts /\ query_id \in Nat
      BY DEF attach, Unused, Attempts, NoId, IInv, NetTypeOK
    <2>2. b \in Attempts /\ b.idx = 1 /\ b.heard = 0 /\ b.sock # "up"
      BY <2>1, ZenonT(40) DEF attach, Unused, Attempts, NoId, returned
    <2> QED
      BY <1>0, <1>2, <2>2, Steps
  <1> QED
    BY <1>1, <1>2 DEF egg_connect

LEMMA RefineEnd ==
  ASSUME IInv, NEW c \in Conns,
         \/ egg_connect_timeout(c) \/ egg_on_connect(c) \/ egg_on_eof(c) \/ egg_on_delete(c)
  PROVE  A!Connected(c) \/ A!Failed(c) \/ A!Over(c)
  <1> DEFINE a == att[c]
  <1>1. a \in Attempts /\ att \in [Conns -> Attempts]
    BY DEF IInv, NetTypeOK
  <1>2. a.sock = "connecting" => a.info = "live"
    BY DEF IInv, UnderWay
  <1>3. a.timer = 1 => a.info = "live"
    BY DEF IInv, NoDangling
  <1>4. a.info = "live" => a.idx = 1 /\ a.handler = 1 /\ Phase(a) = "trying"
    BY DEF IInv, UnderWay, NoDangling, Phase
  <1>5. CASE egg_connect_timeout(c)
    <2> DEFINE b == [a EXCEPT !.timer = 0]
    <2>1. a.info = "live"
      BY <1>5, <1>3 DEF egg_connect_timeout
    <2>2. b \in Attempts /\ b.handler = 1 /\ b.heard = a.heard
      BY <1>1, <1>4, <2>1 DEF Attempts
    <2>3. failed(b) \in Attempts /\ failed(b).idx = 0 /\ failed(b).heard = a.heard + 1
      BY <2>2, Records, Fields
    <2>4. Set(c, failed(b))
      <3>1. a.dns # NoId => \E q \in queries : q.id = a.dns
        BY <1>4, <2>1 DEF IInv, UnderWay
      <3> QED
        BY <1>5, <3>1 DEF egg_connect_timeout
    <2> QED
      BY <1>1, <1>4, <2>1, <2>3, <2>4, Steps
  <1>6. CASE egg_on_connect(c)
    <2>1. a.idx = 1 /\ a.handler = 1 /\ Phase(a) = "trying"
      BY <1>6, <1>2, <1>4 DEF egg_on_connect
    <2>2. /\ connected(a) \in Attempts /\ connected(a).heard = a.heard + 1
          /\ Phase(connected(a)) = "connected"
      BY <1>1, <2>1, Fields2 DEF Phase
    <2> QED
      BY <1>1, <1>6, <2>1, <2>2, Steps DEF egg_on_connect
  <1>7. CASE egg_on_eof(c)
    <2>1. a.idx = 1 /\ a.handler = 1 /\ Phase(a) = "trying"
      BY <1>7, <1>2, <1>4 DEF egg_on_eof
    <2>2. /\ on_eof(detach(a)) \in Attempts /\ on_eof(detach(a)).heard = a.heard + 1
          /\ on_eof(detach(a)).idx = 0
      BY <1>1, <2>1, Records, Fields
    <2> QED
      BY <1>1, <1>7, <2>1, <2>2, Steps DEF egg_on_eof
  <1>8. CASE egg_on_delete(c)
    <2>1. a.idx = 1 /\ a.handler = 1
      BY <1>8 DEF egg_on_delete, IInv, UnderWay
    <2> DEFINE b == [Unused EXCEPT !.heard = a.heard]
    <2>2. b \in Attempts /\ b.idx = 0 /\ b.heard = a.heard
      BY <1>1 DEF Unused, Attempts, NoId
    <2>3. Set(c, b)
      BY <1>8 DEF egg_on_delete
    <2> QED
      BY <1>1, <2>1, <2>2, <2>3, Steps
  <1> QED
    BY <1>5, <1>6, <1>7, <1>8

LEMMA RefineReply ==
  ASSUME IInv, NEW p \in wire, NameReply(p)
  PROVE  Allowed
  <1>0. att \in [Conns -> Attempts] /\ NetTypeOK
    BY DEF IInv, NetTypeOK
  <1>1. CASE UNCHANGED att
    BY <1>1 DEF Allowed, Phase
  <1>2. ASSUME NEW q \in Asked(p), NEW ans \in Said(p), LastReply(p, q, ans), q.cd \in Conns,
               NEW b \in connect_host_resolved(att[q.cd], q.got \cup ans), Set(q.cd, b)
        PROVE  Allowed
    <2> DEFINE a == att[q.cd]
    <2>1. q \in queries
      BY DEF Asked
    <2>2. a.info = "live" /\ a.idx = 1
      BY <1>2, <2>1, Owner
    <2>3. a \in Attempts /\ a.handler = 1 /\ a.heard = 0 /\ Phase(a) = "trying"
      BY <1>0, <1>2, <2>2 DEF IInv, UnderWay, Phase
    <2>4. CASE b = failed(a)
      <3>1. b \in Attempts /\ b.idx = 0 /\ b.heard = a.heard + 1
        BY <2>3, <2>4, Records, Fields
      <3>2. A!Failed(q.cd)
        BY <1>0, <1>2, <2>3, <3>1, Steps
      <3> QED
        BY <1>2, <3>2 DEF Allowed, A!AttemptNext
    <2>5. ASSUME NEW ip \in q.got \cup ans, b = connecting(a, ip)
          PROVE  Allowed
      <3>1. ip \in Hosts
        BY <1>0, <1>2, ReplyTypes
      <3>2. b \in Attempts
        BY <2>3, <2>5, <3>1, Records
      <3>3. b.heard = a.heard /\ Phase(b) = Phase(a)
        BY <2>2, <2>3, <2>5 DEF connecting, Phase, Attempts
      <3> QED
        BY <1>0, <1>2, <3>2, <3>3, Steps DEF Allowed
    <2> QED
      BY <1>2, <2>4, <2>5 DEF connect_host_resolved
  <1> QED
    BY <1>1, <1>2 DEF NameReply

LEMMA RefineStep == IInv /\ [NetNext]_netvars => Allowed
  <1> SUFFICES ASSUME IInv, [NetNext]_netvars
               PROVE  Allowed
    OBVIOUS
  <1>1. ASSUME NEW c \in Conns, NEW h \in Hosts, NEW t \in {0, 1}, egg_connect(c, h, t)
        PROVE  Allowed
    BY <1>1, RefineConnect DEF Allowed, A!AttemptNext
  <1>2. ASSUME NEW c \in Conns,
               \/ egg_connect_timeout(c) \/ egg_on_connect(c) \/ egg_on_eof(c) \/ egg_on_delete(c)
        PROVE  Allowed
    BY <1>2, RefineEnd DEF Allowed, A!AttemptNext
  <1>3. ASSUME NEW p \in wire, NameReply(p)
        PROVE  Allowed
    BY <1>3, RefineReply
  <1>4. CASE UNCHANGED att
    BY <1>4 DEF Allowed, Phase
  <1> QED
    BY <1>1, <1>2, <1>3, <1>4
    DEF NetNext, netvars, script_dns_query, script_kill_by_owner

\* net.c implements Attempt: whatever the resolver, the timer, the socket and
\* the caller do, an attempt is reported once, as connected or as failed.
THEOREM Refinement == NetSpec => OneResult
  <1>1. IInv /\ [NetNext]_netvars
          => [A!AttemptNext]_<<[c \in Conns |-> Phase(att[c])], [c \in Conns |-> att[c].heard]>>
    BY RefineStep DEF Allowed
  <1> QED
    BY <1>1, RefineInit, Invariance, PTL DEF NetSpec, OneResult, A!AttemptSpec

\* An invariant of the abstract specification, in its own terms.
Reports ==
  /\ [c \in Conns |-> Phase(att[c])] \in [Conns -> A!Phases]
  /\ [c \in Conns |-> att[c].heard] \in [Conns -> Nat]
  /\ A!HeardOnce

LEMMA HeardInit == A!AttemptInit => Reports
  BY DEF A!AttemptInit, Reports, A!HeardOnce, A!Phases

LEMMA HeardStep ==
  ASSUME Reports,
         [A!AttemptNext]_<<[c \in Conns |-> Phase(att[c])], [c \in Conns |-> att[c].heard]>>
  PROVE  Reports'
  <1> DEFINE phase == [c \in Conns |-> Phase(att[c])]
             heard == [c \in Conns |-> att[c].heard]
  <1>1. /\ phase \in [Conns -> A!Phases] /\ heard \in [Conns -> Nat]
        /\ \A c \in Conns : heard[c] \in {0, 1} /\ (phase[c] \in {"trying", "silent"} => heard[c] = 0)
    BY DEF Reports, A!HeardOnce
  <1>2. /\ phase' \in [Conns -> A!Phases] /\ heard' \in [Conns -> Nat]
        /\ \A c \in Conns : heard'[c] \in {0, 1} /\ (phase'[c] \in {"trying", "silent"} => heard'[c] = 0)
        => Reports'
    BY DEF Reports, A!HeardOnce
  <1>3. ASSUME NEW c \in Conns, A!Begin(c) \/ A!Connected(c) \/ A!Failed(c) \/ A!Over(c)
        PROVE  Reports'
    <2>1. \E p \in A!Phases, n \in {0, 1} :
            /\ phase' = [phase EXCEPT ![c] = p] /\ heard' = [heard EXCEPT ![c] = n]
            /\ p \in {"trying", "silent"} => n = 0
      <3>1. heard[c] \in {0, 1} /\ (phase[c] = "trying" => heard[c] = 0)
        BY <1>1
      <3>2. heard = [heard EXCEPT ![c] = heard[c]]
        BY <1>1
      <3>3. CASE A!Begin(c)
        BY <3>3 DEF A!Begin, A!Phases
      <3>4. CASE A!Connected(c)
        <4>1. /\ phase[c] = "trying" /\ phase' = [phase EXCEPT ![c] = "connected"]
              /\ heard' = [heard EXCEPT ![c] = heard[c] + 1]
          BY <3>4 DEF A!Connected
        <4> HIDE DEF phase, heard
        <4>2. heard[c] + 1 = 1
          BY <3>1, <4>1
        <4> QED
          BY <4>1, <4>2 DEF A!Phases
      <3>5. CASE A!Failed(c)
        <4>1. /\ phase[c] = "trying" /\ phase' = [phase EXCEPT ![c] = "idle"]
              /\ heard' = [heard EXCEPT ![c] = heard[c] + 1]
          BY <3>5 DEF A!Failed
        <4> HIDE DEF phase, heard
        <4>2. heard[c] + 1 = 1
          BY <3>1, <4>1
        <4> QED
          BY <4>1, <4>2 DEF A!Phases
      <3>6. CASE A!Over(c)
        BY <3>1, <3>2, <3>6 DEF A!Over, A!Phases
      <3> QED
        BY <1>3, <3>3, <3>4, <3>5, <3>6
    <2> HIDE DEF phase, heard
    <2>2. /\ phase' \in [Conns -> A!Phases] /\ heard' \in [Conns -> Nat]
          /\ \A d \in Conns : heard'[d] \in {0, 1} /\ (phase'[d] \in {"trying", "silent"} => heard'[d] = 0)
      BY <1>1, <2>1
    <2> QED
      BY <1>2, <2>2
  <1>4. CASE UNCHANGED <<phase, heard>>
    BY <1>1, <1>2, <1>4
  <1> QED
    BY <1>3, <1>4 DEF A!AttemptNext

\* Nobody hears twice of one attempt, and nothing is heard of one that is under
\* way or that failed before egg_connect returned: it follows from what Attempt
\* promises, and so it holds of net.c.
THEOREM HeardAtMostOnce == NetSpec => []A!HeardOnce
  <1>1. Reports => A!HeardOnce
    BY DEF Reports
  <1>2. A!AttemptSpec => []Reports
    BY HeardInit, HeardStep, PTL DEF A!AttemptSpec
  <1> QED
    BY <1>1, <1>2, Refinement, PTL DEF OneResult

-----------------------------------------------------------------------------
(* The right peer                                                          *)

\* Replies can only be taken for answers to the question they answer,
PacketsMatch ==
  \A p \in wire : p.id < query_id /\ \A q \in queries : q.id = p.id => q.host = p.host
\* what a lookup has gathered and what is cached belongs to its host,
AnswersMatch == \A q \in queries : q.got \subseteq {q.host}
CacheMatches == \A e \in cache : e.ans \subseteq {e.host}
\* and a lookup is for the host its attempt wants.
AskersMatch == \A q \in queries : q.cd \in Conns => att[q.cd].host = q.host

Peer(a) == a.sock # "none" => a.peer = a.host

ResolverInv == PacketsMatch /\ AnswersMatch /\ CacheMatches
PeerInv == NoWrap => ResolverInv /\ AskersMatch /\ \A c \in Conns : Peer(att[c])

LEMMA AskMatches ==
  ASSUME NetTypeOK, NoDangling, ResolverInv, NoWrap', NEW h \in Hosts, NEW cd, Ask(h, cd)
  PROVE  ResolverInv'
  <1>1. query_id \in Nat /\ query_id' = query_id + 1 /\ query_id < IdSpace
    BY DEF NetTypeOK, Ask, NoWrap
  <1>2. query_id % IdSpace = query_id
    BY <1>1
  <1>3. /\ queries' = queries \cup {NewQuery(h, cd)} /\ cache' = cache
        /\ wire' \subseteq wire \cup NewPackets(h)
    BY DEF Ask, Send
  <1>4. NewQuery(h, cd).id = query_id /\ NewQuery(h, cd).host = h /\ NewQuery(h, cd).got = {}
    BY DEF NewQuery
  <1>5. \A p \in NewPackets(h) : p.id = query_id /\ p.host = h
    BY <1>2 DEF NewPackets
  <1>6. /\ \A q \in queries : q.id < query_id /\ q.id \in Nat
        /\ \A p \in wire : p.id \in Nat
    BY DEF NoDangling, NetTypeOK, Queries, Packets
  <1>7. PacketsMatch'
    <2>1. ASSUME NEW p \in wire' PROVE p.id < query_id'
      BY <1>1, <1>3, <1>5, <1>6 DEF ResolverInv, PacketsMatch
    <2>2. ASSUME NEW p \in wire', NEW q \in queries', q.id = p.id PROVE q.host = p.host
      <3> HIDE DEF Ask
      <3>1. CASE p \in wire /\ q \in queries
        BY <2>2, <3>1 DEF ResolverInv, PacketsMatch
      <3>2. CASE p \in NewPackets(h) /\ q \in queries
        BY <1>1, <1>5, <1>6, <2>2, <3>2
      <3>3. CASE p \in wire /\ q = NewQuery(h, cd)
        BY <1>1, <1>4, <1>6, <2>2, <3>3 DEF ResolverInv, PacketsMatch
      <3>4. CASE p \in NewPackets(h) /\ q = NewQuery(h, cd)
        BY <1>4, <1>5, <3>4
      <3> QED
        BY <1>3, <3>1, <3>2, <3>3, <3>4
    <2> QED
      BY <2>1, <2>2 DEF PacketsMatch
  <1>8. AnswersMatch' /\ CacheMatches'
    BY <1>3, <1>4 DEF ResolverInv, AnswersMatch, CacheMatches
  <1> QED
    BY <1>7, <1>8 DEF ResolverInv

\* Steps that only forget lookups, packets or cached answers.
LEMMA LessMatches ==
  ASSUME ResolverInv, queries' \subseteq queries, wire' \subseteq wire, cache' \subseteq cache,
         query_id' = query_id
  PROVE  ResolverInv'
  BY DEF ResolverInv, PacketsMatch, AnswersMatch, CacheMatches

LEMMA ReplyMatches ==
  ASSUME NetTypeOK, ResolverInv, NEW p \in wire, NEW q \in Asked(p), NEW ans \in Said(p)
  PROVE  /\ q.got \cup ans \subseteq {q.host}
         /\ PartReply(p, q, ans) => ResolverInv'
         /\ LastReply(p, q, ans) => ResolverInv'
  <1>1. /\ q \in queries /\ q.id = p.id /\ more(q, ans).id = q.id
        /\ more(q, ans).host = q.host /\ more(q, ans).got = q.got \cup ans
    <2>1. q \in queries /\ q.id = p.id /\ q \in Queries
      BY DEF Asked, NetTypeOK
    <2> QED
      BY <2>1 DEF more, Queries
  <1>2. q.got \cup ans \subseteq {q.host}
    <2>1. q.host = p.host /\ q.got \subseteq {q.host}
      BY <1>1 DEF ResolverInv, PacketsMatch, AnswersMatch
    <2>2. ans \subseteq {p.host}
      BY DEF Said
    <2> QED
      BY <2>1, <2>2
  <1>3. ASSUME PartReply(p, q, ans) PROVE ResolverInv'
    <2>1. /\ queries' = (queries \ {q}) \cup {more(q, ans)} /\ wire' \subseteq wire
          /\ query_id' = query_id /\ cache' = cache
      BY <1>3 DEF PartReply, Heard
    <2>2. PacketsMatch'
      BY <1>1, <2>1 DEF ResolverInv, PacketsMatch
    <2>3. AnswersMatch' /\ CacheMatches'
      BY <1>1, <1>2, <2>1 DEF ResolverInv, AnswersMatch, CacheMatches
    <2> QED
      BY <2>2, <2>3 DEF ResolverInv
  <1>4. ASSUME LastReply(p, q, ans) PROVE ResolverInv'
    <2>1. /\ queries' \subseteq queries /\ wire' \subseteq wire /\ query_id' = query_id
          /\ cache' = cache \cup {[host |-> q.host, ans |-> q.got \cup ans]}
      BY <1>4 DEF LastReply, Heard
    <2>2. PacketsMatch' /\ AnswersMatch'
      BY <2>1 DEF ResolverInv, PacketsMatch, AnswersMatch
    <2>3. CacheMatches'
      BY <1>2, <2>1 DEF ResolverInv, CacheMatches
    <2> QED
      BY <2>2, <2>3 DEF ResolverInv
  <1> QED
    BY <1>2, <1>3, <1>4

LEMMA ResolverKept ==
  ASSUME IInv, ResolverInv, NoWrap', NetNext
  PROVE  ResolverInv'
  <1>0. NetTypeOK /\ NoDangling
    BY DEF IInv
  <1>1. ASSUME NEW h \in Hosts, NEW cd, Ask(h, cd) PROVE ResolverInv'
    BY <1>0, <1>1, AskMatches
  <1>2. ASSUME NEW id, Cancel(id) PROVE ResolverInv'
    <2>1. queries' \subseteq queries /\ wire' = wire /\ cache' = cache /\ query_id' = query_id
      BY <1>2 DEF Cancel
    <2> QED
      BY <2>1, LessMatches
  <1>3. ASSUME NEW cd, CancelAll(cd) PROVE ResolverInv'
    <2>1. queries' \subseteq queries /\ wire' = wire /\ cache' = cache /\ query_id' = query_id
      BY <1>3 DEF CancelAll
    <2> QED
      BY <2>1, LessMatches
  <1>4. CASE UNCHANGED dnsvars
    <2>1. queries' = queries /\ wire' = wire /\ cache' = cache /\ query_id' = query_id
      BY <1>4 DEF dnsvars
    <2> QED
      BY <2>1, LessMatches
  <1>5. ASSUME NEW p \in wire, NameReply(p) PROVE ResolverInv'
    <2>1. CASE StrayReply(p)
      <3>1. queries' = queries /\ wire' \subseteq wire /\ cache' = cache /\ query_id' = query_id
        BY <2>1 DEF StrayReply, Heard
      <3> QED
        BY <3>1, LessMatches
    <2>2. ASSUME NEW q \in Asked(p), NEW ans \in Said(p), PartReply(p, q, ans) \/ LastReply(p, q, ans)
          PROVE  ResolverInv'
      BY <1>0, <2>2, ReplyMatches
    <2> QED
      BY <1>5, <2>1, <2>2 DEF NameReply
  <1>6. CASE DnsOnEof \/ Lose \/ ExpireQueries
    <2>1. queries' = queries /\ wire' \subseteq wire /\ cache' \subseteq cache /\ query_id' = query_id
      BY <1>6 DEF DnsOnEof, Lose, ExpireQueries
    <2> QED
      BY <2>1, LessMatches
  <1>7. ASSUME NEW c \in Conns, NEW h \in Hosts, NEW t \in {0, 1}, egg_connect(c, h, t)
        PROVE  ResolverInv'
    BY <1>1, <1>4, <1>7 DEF egg_connect
  <1>8. ASSUME NEW c \in Conns,
               egg_connect_timeout(c) \/ egg_on_connect(c) \/ egg_on_eof(c) \/ egg_on_delete(c)
        PROVE  ResolverInv'
    BY <1>2, <1>4, <1>8
    DEF egg_connect_timeout, egg_on_connect, egg_on_eof, egg_on_delete, dnsvars
  <1>9. ASSUME NEW s \in Scripts, (\E h \in Hosts : script_dns_query(s, h)) \/ script_kill_by_owner(s)
        PROVE  ResolverInv'
    BY <1>1, <1>3, <1>9 DEF script_dns_query, script_kill_by_owner
  <1> QED
    BY <1>5, <1>6, <1>7, <1>8, <1>9 DEF NetNext

\* What the functions on the record of an attempt do to its host and peer.
LEMMA PeerRecords ==
  ASSUME NEW a \in Attempts, Peer(a)
  PROVE  /\ Peer(failed(a)) /\ failed(a).info # "live"
         /\ Peer(on_eof(detach(a))) /\ on_eof(detach(a)).info # "live"
         /\ Peer([Unused EXCEPT !.heard = a.heard]) /\ [Unused EXCEPT !.heard = a.heard].info # "live"
         /\ a.sock # "none" => Peer(connected(a)) /\ connected(a).info # "live"
         /\ \A id : Peer([a EXCEPT !.dns = id, !.handler = 1])
         /\ \A t : Peer([a EXCEPT !.timer = t]) /\ [a EXCEPT !.timer = t].host = a.host
         /\ \A ip : ip = a.host => Peer(connecting(a, ip)) /\ connecting(a, ip).host = a.host
  <1>1. Peer(failed(a)) /\ failed(a).info # "live"
    BY DEF failed, on_eof, detach, Attempts, Peer, Unused
  <1>2. Peer(on_eof(detach(a))) /\ on_eof(detach(a)).info # "live"
    BY DEF on_eof, detach, Attempts, Peer, Unused
  <1>3. Peer([Unused EXCEPT !.heard = a.heard]) /\ [Unused EXCEPT !.heard = a.heard].info # "live"
    BY DEF Peer, Unused
  <1>4. a.sock # "none" => Peer(connected(a)) /\ connected(a).info # "live"
    BY DEF connected, detach, Attempts, Peer
  <1>5. /\ \A id : Peer([a EXCEPT !.dns = id, !.handler = 1])
        /\ \A t : Peer([a EXCEPT !.timer = t]) /\ [a EXCEPT !.timer = t].host = a.host
    BY DEF Attempts, Peer
  <1>6. \A ip : ip = a.host => Peer(connecting(a, ip)) /\ connecting(a, ip).host = a.host
    BY DEF connecting, Attempts, Peer
  <1> QED
    BY <1>1, <1>2, <1>3, <1>4, <1>5, <1>6

\* One attempt is set to a record that has the right peer and either the host
\* it had or no lookup.
LEMMA PeerSet ==
  ASSUME IInv, IInv', AskersMatch, \A d \in Conns : Peer(att[d]), NEW c \in Conns,
         NEW a, Set(c, a), Peer(a), a.info # "live" \/ a.host = att[c].host,
         \A q \in queries' : q.cd \in Conns => \E r \in queries : r.cd = q.cd /\ r.host = q.host
  PROVE  AskersMatch' /\ \A d \in Conns : Peer(att'[d])
  <1>1. att'[c] = a /\ \A d \in Conns : d # c => att'[d] = att[d]
    BY DEF Set, IInv, NetTypeOK
  <1>2. \A d \in Conns : Peer(att'[d])
    BY <1>1
  <1>3. ASSUME NEW q \in queries', q.cd \in Conns PROVE att'[q.cd].host = q.host
    <2>1. att'[q.cd].info = "live"
      BY <1>3, NetAssumption DEF IInv, NoDangling, Owned
    <2>2. att[q.cd].host = q.host
      BY <1>3 DEF AskersMatch
    <2> QED
      BY <1>1, <1>3, <2>1, <2>2
  <1> QED
    BY <1>2, <1>3 DEF AskersMatch

LEMMA PeerConnect ==
  ASSUME IInv, IInv', ResolverInv, AskersMatch, \A d \in Conns : Peer(att[d]),
         NEW c \in Conns, NEW h \in Hosts, NEW t \in {0, 1}, egg_connect(c, h, t)
  PROVE  AskersMatch' /\ \A d \in Conns : Peer(att'[d])
  <1>0. \A q \in queries : q.cd # c
    BY DEF egg_connect, IInv, NoDangling, Owned
  <1> DEFINE b == attach(h, t)
  <1>1. b \in Attempts /\ Peer(b) /\ b.host = h
    BY DEF attach, Unused, Attempts, Peer, NoId
  <1> HIDE DEF b
  <1>2. ASSUME NEW ans \in AtOnce(h), NEW a \in connect_host_resolved(b, ans),
               Set(c, returned(a, NoId)), UNCHANGED dnsvars
        PROVE  AskersMatch' /\ \A d \in Conns : Peer(att'[d])
    <2>1. ans \subseteq {h}
      BY DEF AtOnce, Cached, ResolverInv, CacheMatches
    <2>2. a \in Attempts /\ Peer(a)
      <3>1. CASE a = failed(b)
        BY <1>1, <3>1, PeerRecords, Records
      <3>2. ASSUME NEW ip \in ans, a = connecting(b, ip) PROVE a \in Attempts /\ Peer(a)
        BY <1>1, <2>1, <3>2, PeerRecords, Records
      <3> QED
        BY <1>2, <3>1, <3>2 DEF connect_host_resolved
    <2>3. Peer(returned(a, NoId))
      BY <2>2, PeerRecords DEF returned
    <2>4. att'[c] = returned(a, NoId) /\ \A d \in Conns : d # c => att'[d] = att[d]
      BY <1>2 DEF Set, IInv, NetTypeOK
    <2>5. queries' = queries
      BY <1>2 DEF dnsvars
    <2> QED
      BY <1>0, <2>3, <2>4, <2>5 DEF AskersMatch
  <1>3. ASSUME Ask(h, c), Set(c, returned(b, query_id))
        PROVE  AskersMatch' /\ \A d \in Conns : Peer(att'[d])
    <2>1. Peer(returned(b, query_id)) /\ returned(b, query_id).host = h
      BY <1>1, PeerRecords DEF returned, Attempts
    <2>2. att'[c] = returned(b, query_id) /\ \A d \in Conns : d # c => att'[d] = att[d]
      BY <1>3 DEF Set, IInv, NetTypeOK
    <2>3. /\ queries' = queries \cup {NewQuery(h, c)}
          /\ NewQuery(h, c).cd = c /\ NewQuery(h, c).host = h
      BY <1>3 DEF Ask, NewQuery
    <2> QED
      BY <1>0, <2>1, <2>2, <2>3 DEF AskersMatch
  <1> QED
    BY <1>2, <1>3 DEF egg_connect, b

LEMMA PeerEnd ==
  ASSUME IInv, IInv', AskersMatch, \A d \in Conns : Peer(att[d]), NEW c \in Conns,
         egg_connect_timeout(c) \/ egg_on_connect(c) \/ egg_on_eof(c) \/ egg_on_delete(c)
  PROVE  AskersMatch' /\ \A d \in Conns : Peer(att'[d])
  <1> DEFINE a == att[c]
             b == [a EXCEPT !.timer = 0]
  <1>1. a \in Attempts /\ Peer(a)
    BY DEF IInv, NetTypeOK
  <1>2. queries' \subseteq queries
    BY DEF egg_connect_timeout, egg_on_connect, egg_on_eof, egg_on_delete, Cancel, dnsvars
  <1>3. b \in Attempts /\ Peer(b) /\ b.host = a.host
    BY <1>1, PeerRecords DEF Attempts
  <1>4. CASE egg_connect_timeout(c)
    <2>1. Set(c, failed(b)) \/ Set(c, b)
      BY <1>4 DEF egg_connect_timeout
    <2> HIDE DEF b
    <2>2. Peer(failed(b)) /\ failed(b).info # "live"
      BY <1>3, PeerRecords
    <2> QED
      BY <1>2, <1>3, <2>1, <2>2, PeerSet
  <1>5. CASE egg_on_connect(c)
    <2>1. a.sock # "none" /\ Set(c, connected(a))
      BY <1>5 DEF egg_on_connect
    <2>2. Peer(connected(a)) /\ connected(a).info # "live"
      BY <1>1, <2>1, PeerRecords
    <2> QED
      BY <1>2, <2>1, <2>2, PeerSet
  <1>6. CASE egg_on_eof(c)
    <2>1. Set(c, on_eof(detach(a)))
      BY <1>6 DEF egg_on_eof
    <2>2. Peer(on_eof(detach(a))) /\ on_eof(detach(a)).info # "live"
      BY <1>1, PeerRecords
    <2> QED
      BY <1>2, <2>1, <2>2, PeerSet
  <1>7. CASE egg_on_delete(c)
    <2> DEFINE z == [Unused EXCEPT !.heard = a.heard]
    <2>1. Set(c, z)
      BY <1>7 DEF egg_on_delete
    <2>2. Peer(z) /\ z.info # "live"
      BY <1>1, PeerRecords
    <2> HIDE DEF z
    <2> QED
      BY <1>2, <2>1, <2>2, PeerSet
  <1> QED
    BY <1>4, <1>5, <1>6, <1>7

LEMMA PeerReply ==
  ASSUME IInv, IInv', ResolverInv, AskersMatch, \A d \in Conns : Peer(att[d]),
         NEW p \in wire, NameReply(p)
  PROVE  AskersMatch' /\ \A d \in Conns : Peer(att'[d])
  <1>0. NetTypeOK
    BY DEF IInv
  <1>1. CASE UNCHANGED att
    <2>1. \A q \in queries' : q.cd \in Conns => \E r \in queries : r.cd = q.cd /\ r.host = q.host
      <3>1. \A q \in Asked(p) : \A ans :
              q \in queries /\ more(q, ans).cd = q.cd /\ more(q, ans).host = q.host
        BY <1>0 DEF Asked, NetTypeOK, more, Queries
      <3>2. CASE queries' \subseteq queries
        BY <3>2
      <3>3. ASSUME NEW q \in Asked(p), NEW ans \in Said(p), PartReply(p, q, ans)
            PROVE  \A r \in queries' : r.cd \in Conns => \E o \in queries : o.cd = r.cd /\ o.host = r.host
        <4>1. queries' = (queries \ {q}) \cup {more(q, ans)}
          BY <3>3 DEF PartReply
        <4> QED
          BY <3>1, <4>1
      <3> QED
        BY <3>2, <3>3 DEF NameReply, StrayReply, LastReply
    <2> QED
      BY <1>1, <2>1 DEF AskersMatch
  <1>2. ASSUME NEW q \in Asked(p), NEW ans \in Said(p), LastReply(p, q, ans), q.cd \in Conns,
               NEW b \in connect_host_resolved(att[q.cd], q.got \cup ans), Set(q.cd, b)
        PROVE  AskersMatch' /\ \A d \in Conns : Peer(att'[d])
    <2> DEFINE a == att[q.cd]
    <2>1. a \in Attempts /\ Peer(a) /\ q \in queries /\ a.host = q.host
      BY <1>0, <1>2 DEF NetTypeOK, Asked, AskersMatch
    <2>2. q.got \cup ans \subseteq {q.host}
      BY <1>0, ReplyMatches
    <2>3. queries' \subseteq queries
      BY <1>2 DEF LastReply
    <2>4. CASE b = failed(a)
      BY <1>2, <2>1, <2>3, <2>4, PeerRecords, PeerSet
    <2>5. ASSUME NEW ip \in q.got \cup ans, b = connecting(a, ip)
          PROVE  AskersMatch' /\ \A d \in Conns : Peer(att'[d])
      <3>1. ip = a.host
        BY <2>1, <2>2
      <3>2. Peer(b) /\ b.host = a.host
        BY <2>1, <2>5, <3>1, PeerRecords
      <3> QED
        BY <1>2, <2>3, <3>2, PeerSet
    <2> QED
      BY <1>2, <2>4, <2>5 DEF connect_host_resolved
  <1> QED
    BY <1>1, <1>2 DEF NameReply

LEMMA PeerStep == IInv /\ IInv' /\ PeerInv /\ [NetNext]_netvars => PeerInv'
  <1> SUFFICES ASSUME IInv, IInv', PeerInv, [NetNext]_netvars, NoWrap'
               PROVE  ResolverInv' /\ AskersMatch' /\ \A c \in Conns : Peer(att'[c])
    BY DEF PeerInv
  <1>1. CASE UNCHANGED netvars
    BY <1>1 DEF netvars, PeerInv, NoWrap, ResolverInv, PacketsMatch, AnswersMatch, CacheMatches,
                AskersMatch
  <1>2. CASE NetNext
    <2>1. query_id' \in Nat /\ query_id \in Nat /\ query_id <= query_id'
      <3>1. query_id' = query_id \/ query_id' = query_id + 1
        BY <1>2 DEF NetNext, egg_connect, egg_connect_timeout, egg_on_connect, egg_on_eof,
                    egg_on_delete, NameReply, StrayReply, PartReply, LastReply, script_dns_query,
                    script_kill_by_owner, Ask, Cancel, CancelAll, DnsOnEof, Lose, ExpireQueries,
                    dnsvars
      <3> QED
        BY <3>1 DEF IInv, NetTypeOK
    <2>2. NoWrap
      BY <2>1 DEF NoWrap
    <2>3. ResolverInv /\ AskersMatch /\ \A c \in Conns : Peer(att[c])
      BY <2>2 DEF PeerInv
    <2>4. ResolverInv'
      BY <1>2, <2>3, ResolverKept
    <2> DEFINE G == AskersMatch' /\ \A c \in Conns : Peer(att'[c])
    <2>5. ASSUME NEW c \in Conns, NEW h \in Hosts, NEW t \in {0, 1}, egg_connect(c, h, t) PROVE G
      BY <2>3, <2>5, PeerConnect
    <2>6. ASSUME NEW c \in Conns,
                 egg_connect_timeout(c) \/ egg_on_connect(c) \/ egg_on_eof(c) \/ egg_on_delete(c)
          PROVE  G
      BY <2>3, <2>6, PeerEnd
    <2>7. ASSUME NEW p \in wire, NameReply(p) PROVE G
      BY <2>3, <2>7, PeerReply
    <2>8. ASSUME UNCHANGED att,
                 \A q \in queries' : q.cd \in Conns => q \in queries
          PROVE  G
      BY <2>3, <2>8 DEF AskersMatch
    <2>9. ASSUME NEW s \in Scripts, (\E h \in Hosts : script_dns_query(s, h)) \/ script_kill_by_owner(s)
          PROVE  G
      <3>1. UNCHANGED att /\ \A q \in queries' : q.cd \in Conns => q \in queries
        BY <2>9, NetAssumption DEF script_dns_query, script_kill_by_owner, Ask, NewQuery, CancelAll
      <3> QED
        BY <2>8, <3>1
    <2>10. ASSUME DnsOnEof \/ Lose \/ ExpireQueries, UNCHANGED <<att, script>> PROVE G
      <3>1. UNCHANGED att /\ queries' = queries
        BY <2>10 DEF DnsOnEof, Lose, ExpireQueries
      <3> QED
        BY <2>8, <3>1
    <2>11. G
      BY <1>2, <2>5, <2>6, <2>7, <2>9, <2>10 DEF NetNext
    <2> QED
      BY <2>4, <2>11 DEF G
  <1> QED
    BY <1>1, <1>2

LEMMA PeerInit == NetInit => PeerInv
  BY DEF NetInit, DnsInit, PeerInv, ResolverInv, PacketsMatch, AnswersMatch, CacheMatches,
         AskersMatch, Peer, Unused

\* Until the 16 bits of a packet's id are used up, every connection that
\* connect_host_resolved makes goes to an address of the host egg_connect was
\* given, and the cache holds no answer under another host's name, whatever is
\* lost, repeated or late.
THEOREM PeersRight == NetSpec => []RightPeer
  <1>1. PeerInv => RightPeer
    BY DEF PeerInv, RightPeer, ResolverInv, CacheMatches, Peer
  <1>2. NetSpec => []PeerInv
    BY PeerInit, PeerStep, InvStep, InvInit, PTL DEF NetSpec
  <1> QED
    BY <1>1, <1>2, PTL
=============================================================================
