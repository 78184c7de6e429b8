--------------------------- MODULE ChannelsProofs ---------------------------
(***************************************************************************)
(* Theorems about Channels, for any users, nicks, channels and masks and   *)
(* any bounds, whatever the pointer holds that uhost_cache_swap leaves     *)
(* unset: until it is followed the lists of members agree with the server, *)
(* the cache covers whoever shares a channel with the bot, and no mask is  *)
(* listed that is not set; and it is followed only after a late answer or  *)
(* while the bot is on no channel.                                         *)
(***************************************************************************)
EXTENDS Channels, SequenceLemmas, SequenceTheorems, FiniteSetTheorems, FunctionTheorems

Uhosts == Users \cup {NoUhost}
Bit == {0, 1}
Member == [nick : Nicks, uhost : Uhosts, op : Bit, bot : Bit]
Channel == [known : Bit, static : Bit, joined : Bit, members : Seq(Member), masks : Seq(Masks),
            loading : {"null", "no", "yes"}, stray : Bit]
CacheEntry == [host : Uhosts, refs : Nat]
Data == [chan : [Chans -> Channel], cache : [Nicks -> Seq(CacheEntry)], down : 0 .. 2, late : Bit]
Requests == [kind : {"JOIN", "WHO", "BANS", "PART"}, chan : Chans]

\* The truth: one user per nick, who is on a channel has one, ops are on their
\* channels.
Named(nk) ==
  /\ nk \in [Users -> Nicks \cup {NoNick}]
  /\ \A u, v \in Users : u # v /\ nk[u] = nk[v] => nk[u] = NoNick
There(nk, os, opped) ==
  os \in SUBSET Users /\ opped \in SUBSET os /\ \A u \in os : nk[u] \in Nicks
Truth ==
  /\ Named(nickOf)
  /\ on \in [Chans -> SUBSET Users] /\ ops \in [Chans -> SUBSET Users]
  /\ \A c \in Chans : There(nickOf, on[c], ops[c])
  /\ bans \in [Chans -> SUBSET Masks]
DataType ==
  b \in Data /\ b.down = 0 /\ sent \in Seq(Requests) /\ (sent # <<>> => me \in Nicks)

-----------------------------------------------------------------------------
\* What holds of the bot's data ch of a channel that has the users os with the
\* nicks nk, of whom some are opped, and some masks banned.

\* The channel is joined when the bot is on it, and empty when it is not and no
\* answer came late.
Settled(ch, os) ==
  /\ ch.joined = 1 <=> Bot \in os
  /\ ch.joined = 1 => ch.known = 1
  /\ ch.joined = 0 /\ ch.stray = 0 => ch.members = <<>> /\ ch.masks = <<>> /\ ch.loading = "null"

\* Whoever is on a joined channel is listed.
Reached(ch, os, nk) == ch.joined = 1 => \A u \in os : nk[u] \in NicksIn(ch.members)

\* Without late answers nobody else is listed, nobody twice, and the notes of
\* each are right; a host may be unknown while the answer to WHO is awaited.
IsClear(ch) == ch.joined = 1 /\ ch.stray = 0
NoTwice(l) == \A i, j \in DOMAIN l : l[i].nick = l[j].nick => i = j
Right(m, os, nk, opped, unknown) ==
  \E u \in os :
    /\ m.nick = nk[u] /\ (m.op = 1 <=> u \in opped) /\ (m.bot = 1 <=> u = Bot)
    /\ m.uhost = u \/ m.uhost \in unknown
AllRight(l, os, nk, opped, unknown) ==
  NoTwice(l) /\ \A i \in DOMAIN l : Right(l[i], os, nk, opped, unknown)

\* Its masks: those that are set when it is joined are not listed, later ones
\* are kept as they are set and removed.
Once(l) == \A i, j \in DOMAIN l : l[i] = l[j] => i = j
Masked(ch, banned) ==
  ch.loading # "yes" /\ Once(ch.masks) /\ \A i \in DOMAIN ch.masks : ch.masks[i] \in banned

Sound(ch, os, nk, opped, banned, unknown) ==
  /\ Settled(ch, os) /\ Reached(ch, os, nk)
  /\ IsClear(ch) => AllRight(ch.members, os, nk, opped, unknown) /\ Masked(ch, banned)

Unknown(c) == {h \in {NoUhost} : Contains(sent, Request("WHO", c))}
ChannelInv(c) == Sound(b.chan[c], on[c], nickOf, ops[c], bans[c], Unknown(c))

-----------------------------------------------------------------------------
\* The cache counts a nick once for each channel the bot sees it on.
Refs(x, n) == IF x.cache[n] = <<>> THEN 0 ELSE x.cache[n][1].refs
SeenOn(n) == {c \in Chans : Bot \in on[c] /\ n \in NicksOn(c)}
Covered(n) == Refs(b, n) >= Cardinality(SeenOn(n))
Counted == b.late = 0 => (\A c \in Chans : b.chan[c].stray = 0) /\ (\A n \in Nicks : Covered(n))

ChannelsInv == Truth /\ DataType /\ (\A c \in Chans : ChannelInv(c)) /\ Counted

\* The unset pointer was followed, and nothing happens any more.
Astray == b.down = 2 /\ (b.late = 1 \/ \A c \in Chans : b.chan[c].joined = 0)

-----------------------------------------------------------------------------
\* As many different elements as there are are all.
LEMMA AllThere ==
  ASSUME NEW L, IsFiniteSet(L), NEW s \in [1 .. Cardinality(L) -> L],
         \A i, j \in 1 .. Cardinality(L) : s[i] = s[j] => i = j
  PROVE  \A x \in L : \E i \in 1 .. Cardinality(L) : s[i] = x
  <1> DEFINE n == Cardinality(L)
  <1>1. n \in Nat
    BY FS_CardinalityType
  <1>2. IsFiniteSet(1 .. n) /\ Cardinality(1 .. n) = n
    BY <1>1, FS_Interval
  <1>3. s \in Injection(1 .. n, L)
    BY Fun_IsInj
  <1> HIDE DEF n
  <1>4. s \in Surjection(1 .. n, L)
    BY <1>2, <1>3, FS_Injection DEF n
  <1>5. \A x \in L : \E i \in 1 .. n : s[i] = x
    BY <1>4 DEF Surjection
  <1> QED
    BY <1>5 DEF n

\* A set as a sequence: each element once.
LEMMA SetInSequence ==
  ASSUME NEW S, IsFiniteSet(S)
  PROVE  /\ SetToSeq(S) \in Seq(S) /\ Len(SetToSeq(S)) \in Nat
         /\ \A x \in S : \E i \in 1 .. Len(SetToSeq(S)) : SetToSeq(S)[i] = x
         /\ \A i, j \in 1 .. Len(SetToSeq(S)) : SetToSeq(S)[i] = SetToSeq(S)[j] => i = j
  <1> DEFINE n == Cardinality(S)
             F == {f \in [1 .. n -> S] : IsInjective(f)}
  <1>1. n \in Nat /\ ExistsBijection(1 .. n, S)
    BY FS_CardinalityType
  <1>2. F # {}
    <2>1. PICK f \in Bijection(1 .. n, S) : TRUE
      BY <1>1 DEF ExistsBijection
    <2>2. f \in [1 .. n -> S] /\ \A i, j \in 1 .. n : f[i] = f[j] => i = j
      <3> HIDE DEF n
      <3> QED
        BY <2>1 DEF Bijection, Injection, IsInjective
    <2>3. IsInjective(f)
      BY <2>2 DEF IsInjective
    <2> QED
      BY <2>2, <2>3
  <1> DEFINE s == SetToSeq(S)
  <1>3. s \in F
    <2>1. s = CHOOSE f \in [1 .. n -> S] : IsInjective(f)
      BY DEF SetToSeq
    <2> HIDE DEF s, n
    <2> QED
      BY <1>2, <2>1
  <1>4. s \in [1 .. n -> S] /\ \A i, j \in 1 .. n : s[i] = s[j] => i = j
    <2> HIDE DEF s, n
    <2> QED
      BY <1>3 DEF IsInjective
  <1>5. s \in Seq(S) /\ Len(s) = n
    <2> HIDE DEF s, n
    <2> QED
      BY <1>1, <1>4
  <1>6. \A x \in S : \E i \in 1 .. n : s[i] = x
    <2> HIDE DEF s
    <2> QED
      BY <1>4, AllThere
  <1> HIDE DEF s, n
  <1> QED
    BY <1>1, <1>4, <1>5, <1>6 DEF s

-----------------------------------------------------------------------------
\* Members and lists of members.

Flags == SUBSET {"op", "bot"}

LEMMA MemberFields ==
  ASSUME NEW m \in Member, NEW h \in Uhosts, NEW flags \in Flags
  PROVE  /\ FillHost(m, h) \in Member /\ Raise(m, flags) \in Member
         /\ FillHost(m, h).nick = m.nick /\ FillHost(m, h).op = m.op /\ FillHost(m, h).bot = m.bot
         /\ FillHost(m, h).uhost = IF m.uhost = NoUhost THEN h ELSE m.uhost
         /\ Raise(m, flags).nick = m.nick /\ Raise(m, flags).uhost = m.uhost
         /\ Raise(m, flags).op = IF "op" \in flags THEN 1 ELSE m.op
         /\ Raise(m, flags).bot = IF "bot" \in flags THEN 1 ELSE m.bot
  BY DEF Member, Uhosts, Bit, FillHost, Raise

LEMMA NewMemberFields ==
  ASSUME NEW n \in Nicks
  PROVE  /\ NewMember(n) \in Member
         /\ NewMember(n).nick = n /\ NewMember(n).uhost = NoUhost
         /\ NewMember(n).op = 0 /\ NewMember(n).bot = 0
  BY DEF Member, Uhosts, Bit, NewMember

LEMMA PlaceFound ==
  ASSUME NEW l \in Seq(Member), NEW n, Places(l, n) # {}
  PROVE  Place(l, n) \in 1 .. Len(l) /\ l[Place(l, n)].nick = n
  <1>1. Places(l, n) \in SUBSET Nat /\ DOMAIN l = 1 .. Len(l)
    BY DEF Places
  <1>2. \E i \in Places(l, n) : \A j \in Places(l, n) : i =< j
    BY <1>1, LeastNat
  <1>3. Place(l, n) \in Places(l, n)
    BY <1>2 DEF Place
  <1> QED
    BY <1>1, <1>3 DEF Places

LEMMA ListedPlaces ==
  ASSUME NEW l \in Seq(Member), NEW n
  PROVE  Places(l, n) # {} <=> n \in NicksIn(l)
  BY DEF Places, NicksIn

\* The list before the member found or made gets its host and flags.
Grown(l, n) == IF Places(l, n) = {} THEN <<NewMember(n)>> \o l ELSE l

LEMMA GrownList ==
  ASSUME NEW l \in Seq(Member), NEW n \in Nicks
  PROVE  /\ Grown(l, n) \in Seq(Member)
         /\ NicksIn(Grown(l, n)) = NicksIn(l) \cup {n}
         /\ NoTwice(l) => NoTwice(Grown(l, n))
         /\ \A i \in 1 .. Len(Grown(l, n)) :
              \/ Grown(l, n)[i] = NewMember(n) /\ n \notin NicksIn(l)
              \/ \E j \in 1 .. Len(l) : Grown(l, n)[i] = l[j]
  <1> DEFINE g == Grown(l, n)
             N == NewMember(n)
  <1>1. CASE Places(l, n) # {}
    <2>1. g = l /\ n \in NicksIn(l)
      BY <1>1, ListedPlaces DEF Grown
    <2> QED
      BY <2>1
  <1>2. CASE Places(l, n) = {}
    <2>1. N \in Member /\ N.nick = n
      BY NewMemberFields
    <2>2. g = <<N>> \o l /\ n \notin NicksIn(l)
      BY <1>2, ListedPlaces DEF Grown
    <2> HIDE DEF N
    <2>3. /\ g \in Seq(Member) /\ Len(g) = Len(l) + 1 /\ g[1] = N
          /\ \A i \in 2 .. Len(l) + 1 : g[i] = l[i - 1]
      BY <2>1, <2>2
    <2> HIDE DEF g
    <2>4. \A j \in 1 .. Len(l) : j + 1 \in 2 .. Len(l) + 1 /\ g[j + 1] = l[j]
      <3> SUFFICES ASSUME NEW j \in 1 .. Len(l)
                   PROVE  j + 1 \in 2 .. Len(l) + 1 /\ g[j + 1] = l[j]
        OBVIOUS
      <3>1. j + 1 \in 2 .. Len(l) + 1 /\ (j + 1) - 1 = j
        OBVIOUS
      <3> QED
        BY <2>3, <3>1
    <2>5. \A i \in 1 .. Len(l) + 1 : i = 1 \/ (i \in 2 .. Len(l) + 1 /\ i - 1 \in 1 .. Len(l))
      OBVIOUS
    <2>6. DOMAIN g = 1 .. Len(l) + 1 /\ DOMAIN l = 1 .. Len(l) /\ 1 \in 1 .. Len(l) + 1
      BY <2>3
    <2>7. NicksIn(g) = NicksIn(l) \cup {n}
      <3>1. ASSUME NEW j \in 1 .. Len(l)
            PROVE  l[j].nick \in NicksIn(g)
        <4>1. j + 1 \in 1 .. Len(l) + 1 /\ g[j + 1] = l[j]
          BY <2>4
        <4> QED
          BY <2>6, <4>1 DEF NicksIn
      <3>2. n \in NicksIn(g)
        BY <2>1, <2>3, <2>6 DEF NicksIn
      <3>3. ASSUME NEW i \in 1 .. Len(l) + 1
            PROVE  g[i].nick \in NicksIn(l) \cup {n}
        <4>1. CASE i = 1
          BY <2>1, <2>3, <4>1
        <4>2. CASE i \in 2 .. Len(l) + 1 /\ i - 1 \in 1 .. Len(l)
          <5>1. g[i] = l[i - 1]
            BY <2>3, <4>2
          <5> QED
            BY <2>6, <4>2, <5>1 DEF NicksIn
        <4> QED
          BY <2>5, <4>1, <4>2
      <3>4. NicksIn(l) \cup {n} \subseteq NicksIn(g)
        BY <2>6, <3>1, <3>2 DEF NicksIn
      <3>5. NicksIn(g) \subseteq NicksIn(l) \cup {n}
        <4> SUFFICES ASSUME NEW x \in NicksIn(g)
                     PROVE  x \in NicksIn(l) \cup {n}
          OBVIOUS
        <4>1. PICK i \in DOMAIN g : x = g[i].nick
          BY DEF NicksIn
        <4> QED
          BY <2>6, <3>3, <4>1
      <3> QED
        BY <3>4, <3>5
    <2>8. ASSUME NoTwice(l), NEW i \in 1 .. Len(l) + 1, NEW j \in 1 .. Len(l) + 1, g[i].nick = g[j].nick
          PROVE  i = j
      <3>1. \A k \in 2 .. Len(l) + 1 : g[k].nick # n
        <4> SUFFICES ASSUME NEW k \in 2 .. Len(l) + 1
                     PROVE  g[k].nick # n
          OBVIOUS
        <4>1. k - 1 \in 1 .. Len(l) /\ g[k] = l[k - 1]
          BY <2>3
        <4>2. l[k - 1].nick \in NicksIn(l)
          BY <2>6, <4>1 DEF NicksIn
        <4> QED
          BY <2>2, <4>1, <4>2
      <3>2. CASE i = 1 \/ j = 1
        BY <2>1, <2>3, <2>5, <2>8, <3>1, <3>2
      <3>3. CASE i # 1 /\ j # 1
        <4>1. i - 1 = j - 1
          BY <2>3, <2>5, <2>6, <2>8, <3>3 DEF NoTwice
        <4> QED
          BY <4>1
      <3> QED
        BY <3>2, <3>3
    <2>9. NoTwice(l) => NoTwice(g)
      BY <2>6, <2>8 DEF NoTwice
    <2>10. \A i \in 1 .. Len(l) + 1 : g[i] = N \/ \E j \in 1 .. Len(l) : g[i] = l[j]
      BY <2>3, <2>5
    <2> QED
      BY <2>2, <2>3, <2>7, <2>9, <2>10 DEF g, N
  <1> QED
    BY <1>1, <1>2

\* A member that another of the same nick takes the place of.
LEMMA Replaced ==
  ASSUME NEW l \in Seq(Member), NEW p \in 1 .. Len(l), NEW m \in Member, m.nick = l[p].nick
  PROVE  /\ [l EXCEPT ![p] = m] \in Seq(Member) /\ Len([l EXCEPT ![p] = m]) = Len(l)
         /\ NicksIn([l EXCEPT ![p] = m]) = NicksIn(l)
         /\ NoTwice(l) => NoTwice([l EXCEPT ![p] = m])
         /\ \A i \in 1 .. Len(l) : [l EXCEPT ![p] = m][i] = IF i = p THEN m ELSE l[i]
  <1> DEFINE r == [l EXCEPT ![p] = m]
  <1>1. /\ r \in Seq(Member) /\ Len(r) = Len(l) /\ DOMAIN r = 1 .. Len(l) /\ DOMAIN l = 1 .. Len(l)
        /\ \A i \in 1 .. Len(l) : r[i] = IF i = p THEN m ELSE l[i]
    OBVIOUS
  <1> HIDE DEF r
  <1>2. \A i \in 1 .. Len(l) : r[i].nick = l[i].nick
    BY <1>1
  <1>3. NicksIn(r) = NicksIn(l)
    BY <1>1, <1>2 DEF NicksIn
  <1>4. NoTwice(l) => NoTwice(r)
    BY <1>1, <1>2 DEF NoTwice
  <1> QED
    BY <1>1, <1>3, <1>4 DEF r

\* What Enter makes of a member m0 of the list, or of a new one.
Entered(l, n, h, flags, m) ==
  \E m0 \in Member :
    /\ m0.nick = n
    /\ (m0 = NewMember(n) /\ n \notin NicksIn(l)) \/ \E j \in 1 .. Len(l) : m0 = l[j]
    /\ m.nick = n
    /\ m.uhost = IF m0.uhost = NoUhost THEN h ELSE m0.uhost
    /\ m.op = IF "op" \in flags THEN 1 ELSE m0.op
    /\ m.bot = IF "bot" \in flags THEN 1 ELSE m0.bot

LEMMA EnterList ==
  ASSUME NEW l \in Seq(Member), NEW n \in Nicks, NEW h \in Uhosts, NEW flags \in Flags
  PROVE  /\ Enter(l, n, h, flags) \in Seq(Member)
         /\ NicksIn(Enter(l, n, h, flags)) = NicksIn(l) \cup {n}
         /\ NoTwice(l) =>
              /\ NoTwice(Enter(l, n, h, flags))
              /\ \A i \in 1 .. Len(Enter(l, n, h, flags)) :
                   \/ Entered(l, n, h, flags, Enter(l, n, h, flags)[i])
                   \/ Enter(l, n, h, flags)[i].nick # n /\ \E j \in 1 .. Len(l) : Enter(l, n, h, flags)[i] = l[j]
  <1> DEFINE g == Grown(l, n)
             p == Place(g, n)
             m0 == g[p]
             m == Raise(FillHost(m0, h), flags)
             r == [g EXCEPT ![p] = m]
  <1>1. Enter(l, n, h, flags) = r
    BY DEF Enter, Grown
  <1>2. /\ g \in Seq(Member) /\ NicksIn(g) = NicksIn(l) \cup {n} /\ (NoTwice(l) => NoTwice(g))
        /\ \A i \in 1 .. Len(g) : (g[i] = NewMember(n) /\ n \notin NicksIn(l)) \/ \E j \in 1 .. Len(l) : g[i] = l[j]
    BY GrownList
  <1>3. p \in 1 .. Len(g) /\ m0.nick = n /\ m0 \in Member
    <2>1. n \in NicksIn(g)
      BY <1>2
    <2> HIDE DEF g
    <2>2. Places(g, n) # {}
      BY <1>2, <2>1, ListedPlaces
    <2>3. p \in 1 .. Len(g) /\ g[p].nick = n
      BY <1>2, <2>2, PlaceFound
    <2> QED
      BY <1>2, <2>3
  <1>4. /\ m \in Member /\ m.nick = n
        /\ m.uhost = IF m0.uhost = NoUhost THEN h ELSE m0.uhost
        /\ m.op = IF "op" \in flags THEN 1 ELSE m0.op
        /\ m.bot = IF "bot" \in flags THEN 1 ELSE m0.bot
    <2> DEFINE f == FillHost(m0, h)
    <2>1. f \in Member /\ f.nick = n /\ f.op = m0.op /\ f.bot = m0.bot
          /\ f.uhost = IF m0.uhost = NoUhost THEN h ELSE m0.uhost
      <3> HIDE DEF m0
      <3> QED
        BY <1>3, MemberFields
    <2> HIDE DEF f, m0
    <2>2. /\ Raise(f, flags) \in Member /\ Raise(f, flags).nick = f.nick /\ Raise(f, flags).uhost = f.uhost
          /\ Raise(f, flags).op = (IF "op" \in flags THEN 1 ELSE f.op)
          /\ Raise(f, flags).bot = (IF "bot" \in flags THEN 1 ELSE f.bot)
      BY <2>1, MemberFields
    <2>3. m = Raise(f, flags)
      BY DEF f
    <2> HIDE DEF m
    <2> QED
      BY <2>1, <2>2, <2>3
  <1>5. Entered(l, n, h, flags, m)
    <2>1. (m0 = NewMember(n) /\ n \notin NicksIn(l)) \/ \E j \in 1 .. Len(l) : m0 = l[j]
      BY <1>2, <1>3
    <2> HIDE DEF m, m0
    <2> QED
      BY <1>3, <1>4, <2>1 DEF Entered
  <1>6. /\ r \in Seq(Member) /\ Len(r) = Len(g) /\ NicksIn(r) = NicksIn(g) /\ (NoTwice(g) => NoTwice(r))
        /\ \A i \in 1 .. Len(g) : r[i] = IF i = p THEN m ELSE g[i]
    <2> HIDE DEF g, p, m
    <2> QED
      BY <1>2, <1>3, <1>4, Replaced
  <1>7. ASSUME NoTwice(l), NEW i \in 1 .. Len(g)
        PROVE  Entered(l, n, h, flags, r[i]) \/ (r[i].nick # n /\ \E j \in 1 .. Len(l) : r[i] = l[j])
    <2>1. CASE i = p
      <3>1. r[i] = m
        BY <1>6, <2>1
      <3> HIDE DEF m, r
      <3> QED
        BY <1>5, <3>1
    <2>2. CASE i # p
      <3> HIDE DEF m, p, r, g
      <3>1. r[i] = g[i] /\ NoTwice(g) /\ DOMAIN g = 1 .. Len(g)
        BY <1>2, <1>6, <1>7, <2>2
      <3>2. g[i].nick # n
        BY <1>3, <2>2, <3>1 DEF NoTwice, m0
      <3>3. g[i] # NewMember(n)
        BY <3>2, NewMemberFields
      <3> QED
        BY <1>2, <3>1, <3>2, <3>3
    <2> QED
      BY <2>1, <2>2
  <1> HIDE DEF r, g, m, p
  <1> QED
    BY <1>1, <1>2, <1>6, <1>7

-----------------------------------------------------------------------------
\* The data of one channel is replaced, or an entry list of the cache.

With(x, c, ch) == [x EXCEPT !.chan[c] = ch]
WithCache(x, n, l) == [x EXCEPT !.cache[n] = l]

LEMMA WithFields ==
  ASSUME NEW x \in Data, NEW c \in Chans, NEW ch \in Channel
  PROVE  /\ With(x, c, ch) \in Data
         /\ With(x, c, ch).cache = x.cache /\ With(x, c, ch).down = x.down /\ With(x, c, ch).late = x.late
         /\ With(x, c, ch).chan[c] = ch
         /\ \A d \in Chans : d # c => With(x, c, ch).chan[d] = x.chan[d]
  BY DEF With, Data

LEMMA WithCacheFields ==
  ASSUME NEW x \in Data, NEW n \in Nicks, NEW l \in Seq(CacheEntry)
  PROVE  /\ WithCache(x, n, l) \in Data
         /\ WithCache(x, n, l).chan = x.chan /\ WithCache(x, n, l).down = x.down /\ WithCache(x, n, l).late = x.late
         /\ WithCache(x, n, l).cache[n] = l
         /\ \A k \in Nicks : k # n => WithCache(x, n, l).cache[k] = x.cache[k]
  BY DEF WithCache, Data

LEMMA DataFields ==
  ASSUME NEW x \in Data
  PROVE  /\ x.down \in 0 .. 2 /\ x.late \in Bit
         /\ \A c \in Chans : x.chan[c] \in Channel
         /\ \A n \in Nicks : x.cache[n] \in Seq(CacheEntry)
         /\ \A n \in Nicks : x.cache[n] # <<>> => x.cache[n][1] \in CacheEntry
         /\ \A n \in Nicks : Refs(x, n) \in Nat
  <1>1. /\ x.down \in 0 .. 2 /\ x.late \in Bit
        /\ \A c \in Chans : x.chan[c] \in Channel
        /\ \A n \in Nicks : x.cache[n] \in Seq(CacheEntry)
    BY DEF Data
  <1>2. ASSUME NEW n \in Nicks, x.cache[n] # <<>>
        PROVE  x.cache[n][1] \in CacheEntry
    <2> DEFINE l == x.cache[n]
    <2>1. l \in Seq(CacheEntry) /\ l # <<>>
      BY <1>1, <1>2
    <2> HIDE DEF l
    <2>2. l[1] \in CacheEntry
      BY <2>1
    <2> QED
      BY <2>2 DEF l
  <1>3. ASSUME NEW n \in Nicks
        PROVE  Refs(x, n) \in Nat
    BY <1>2 DEF Refs, CacheEntry
  <1> QED
    BY <1>1, <1>2, <1>3

\* What is said of y and z when only the cache differs.
SameChannels(y, x) == y.chan = x.chan /\ y.down = x.down /\ y.late = x.late

LEMMA RecountedList ==
  ASSUME NEW l \in Seq(CacheEntry), l # <<>>, NEW d \in Int, l[1].refs + d \in Nat
  PROVE  Recounted(l, d) \in Seq(CacheEntry) /\ Recounted(l, d) # <<>> /\ Recounted(l, d)[1].refs = l[1].refs + d
  <1> DEFINE n == l[1].refs + d
             e == [l[1] EXCEPT !.refs = n]
             r == [l EXCEPT ![1] = e]
  <1>1. l[1] \in CacheEntry /\ 1 \in 1 .. Len(l)
    OBVIOUS
  <1>2. e \in CacheEntry /\ e.refs = n
    <2>1. n \in Nat
      OBVIOUS
    <2> HIDE DEF n
    <2> QED
      BY <1>1, <2>1 DEF CacheEntry
  <1>3. Recounted(l, d) = r
    BY DEF Recounted
  <1> HIDE DEF e, n
  <1>4. r \in Seq(CacheEntry) /\ r[1] = e /\ Len(r) = Len(l)
    BY <1>1, <1>2
  <1> HIDE DEF r
  <1>5. r # <<>>
    BY <1>1, <1>4
  <1> QED
    BY <1>2, <1>3, <1>4, <1>5 DEF n

LEMMA Addref ==
  ASSUME NEW x \in Data, NEW n \in Nicks, NEW h \in Uhosts
  PROVE  /\ uhost_cache_addref(x, n, h) \in Data /\ SameChannels(uhost_cache_addref(x, n, h), x)
         /\ Refs(uhost_cache_addref(x, n, h), n) = Refs(x, n) + 1
         /\ \A k \in Nicks : k # n => Refs(uhost_cache_addref(x, n, h), k) = Refs(x, k)
  <1> DEFINE l == x.cache[n]
             new == IF l = <<>> THEN <<[host |-> h, refs |-> 1]>> ELSE Recounted(l, 1)
  <1>1. uhost_cache_addref(x, n, h) = WithCache(x, n, new)
    BY DEF uhost_cache_addref, WithCache
  <1>2. l \in Seq(CacheEntry) /\ (l # <<>> => l[1] \in CacheEntry)
    BY DataFields
  <1> DEFINE first == IF l = <<>> THEN 0 ELSE l[1].refs
  <1>3. new \in Seq(CacheEntry) /\ new # <<>> /\ new[1].refs = first + 1
    <2> HIDE DEF l
    <2>1. CASE l = <<>>
      <3>1. [host |-> h, refs |-> 1] \in CacheEntry
        BY DEF CacheEntry
      <3> QED
        BY <2>1, <3>1
    <2>2. CASE l # <<>>
      <3>1. l[1].refs + 1 \in Nat
        BY <1>2, <2>2 DEF CacheEntry
      <3> QED
        BY <1>2, <2>2, <3>1, RecountedList
    <2> QED
      BY <2>1, <2>2
  <1>4. Refs(x, n) = first
    BY DEF Refs
  <1> DEFINE y == WithCache(x, n, new)
  <1> HIDE DEF new, l, first
  <1>5. /\ y \in Data /\ y.chan = x.chan /\ y.down = x.down /\ y.late = x.late
        /\ y.cache[n] = new /\ \A k \in Nicks : k # n => y.cache[k] = x.cache[k]
    BY <1>3, WithCacheFields
  <1> HIDE DEF y
  <1>6. Refs(y, n) = Refs(x, n) + 1 /\ \A k \in Nicks : k # n => Refs(y, k) = Refs(x, k)
    BY <1>3, <1>4, <1>5 DEF Refs
  <1> QED
    BY <1>1, <1>5, <1>6 DEF SameChannels, y

LEMMA Decref ==
  ASSUME NEW x \in Data, NEW n \in Nicks
  PROVE  /\ uhost_cache_decref(x, n) \in Data /\ SameChannels(uhost_cache_decref(x, n), x)
         /\ Refs(uhost_cache_decref(x, n), n) >= Refs(x, n) - 1
         /\ \A k \in Nicks : k # n => Refs(uhost_cache_decref(x, n), k) = Refs(x, k)
  <1> DEFINE l == x.cache[n]
             new == IF l[1].refs > 1 THEN Recounted(l, -1) ELSE Tail(l)
  <1>0. \A k \in Nicks : Refs(x, k) \in Nat
    BY DataFields
  <1>1. CASE uhost_cache_decref(x, n) = x
    BY <1>0, <1>1 DEF SameChannels
  <1>2. CASE uhost_cache_decref(x, n) # x
    <2>1. l # <<>> /\ uhost_cache_decref(x, n) = WithCache(x, n, new)
      BY <1>2 DEF uhost_cache_decref, WithCache
    <2>2. l \in Seq(CacheEntry) /\ l[1] \in CacheEntry
      BY <2>1, DataFields
    <2> DEFINE left == IF new = <<>> THEN 0 ELSE new[1].refs
    <2>3. new \in Seq(CacheEntry) /\ left >= l[1].refs - 1
      <3> HIDE DEF l
      <3>1. CASE l[1].refs > 1
        <4>1. l[1].refs + -1 \in Nat /\ l[1].refs + -1 = l[1].refs - 1
          BY <2>2, <3>1 DEF CacheEntry
        <4>2. new \in Seq(CacheEntry) /\ new # <<>> /\ new[1].refs = l[1].refs - 1
          BY <2>1, <2>2, <3>1, <4>1, RecountedList
        <4>3. l[1].refs \in Nat
          BY <2>2 DEF CacheEntry
        <4> QED
          BY <4>2, <4>3
      <3>2. CASE ~ l[1].refs > 1
        <4>1. new = Tail(l) /\ new \in Seq(CacheEntry) /\ l[1].refs \in Nat
          BY <2>1, <2>2, <3>2 DEF CacheEntry
        <4> HIDE DEF new
        <4>2. new = <<>> \/ new[1] \in CacheEntry
          BY <4>1
        <4>3. left \in Nat
          BY <4>2 DEF CacheEntry
        <4> HIDE DEF left
        <4> QED
          BY <3>2, <4>1, <4>3
      <3> QED
        BY <3>1, <3>2
    <2>4. Refs(x, n) = l[1].refs
      BY <2>1 DEF Refs
    <2> DEFINE y == WithCache(x, n, new)
    <2> HIDE DEF new, l
    <2>5. /\ y \in Data /\ y.chan = x.chan /\ y.down = x.down /\ y.late = x.late
          /\ y.cache[n] = new /\ \A k \in Nicks : k # n => y.cache[k] = x.cache[k]
      BY <2>3, WithCacheFields
    <2> HIDE DEF y
    <2>6. Refs(y, n) >= Refs(x, n) - 1 /\ \A k \in Nicks : k # n => Refs(y, k) = Refs(x, k)
      BY <2>3, <2>4, <2>5 DEF Refs
    <2> QED
      BY <2>1, <2>5, <2>6 DEF SameChannels, y
  <1> QED
    BY <1>1, <1>2

\* The entry found for a nick moves to another one; without one nothing does,
\* unless the pointer is followed.
LEMMA Swap ==
  ASSUME NEW x \in Data, NEW old \in Nicks, NEW new \in Nicks, old # new,
         NEW y \in uhost_cache_swap(x, old, new), x.down # 2, y.down # 2
  PROVE  /\ y \in Data /\ SameChannels(y, x)
         /\ Refs(y, new) >= Refs(x, old)
         /\ \A k \in Nicks : k # old /\ k # new => Refs(y, k) = Refs(x, k)
  <1>0. \A k \in Nicks : Refs(x, k) \in Nat
    BY DataFields
  <1>1. CASE x.cache[old] = <<>>
    <2>1. PICK g \in Garbage : y = [x EXCEPT !.down = IF g = "null" THEN x.down ELSE 2]
      BY <1>1 DEF uhost_cache_swap
    <2>2. y = [x EXCEPT !.down = x.down] /\ [x EXCEPT !.down = x.down] = x
      BY <2>1 DEF Data
    <2>3. y = x /\ Refs(x, old) = 0
      BY <1>1, <2>1, <2>2 DEF Refs
    <2> QED
      BY <1>0, <2>3 DEF SameChannels
  <1>2. CASE x.cache[old] # <<>>
    <2> DEFINE l == x.cache[old]
               rest == Tail(l)
               m == x.cache[new]
               grown == <<Head(l)>> \o m
               z == WithCache(x, old, rest)
               w == WithCache(z, new, grown)
    <2>1. l \in Seq(CacheEntry) /\ l # <<>> /\ m \in Seq(CacheEntry) /\ l[1] \in CacheEntry
      BY <1>2, DataFields
    <2>2. rest \in Seq(CacheEntry)
      <3> HIDE DEF l
      <3> QED
        BY <2>1
    <2>3. grown \in Seq(CacheEntry) /\ grown # <<>> /\ grown[1] = l[1]
      <3> HIDE DEF l, m
      <3> QED
        BY <2>1
    <2>4. y = w
      BY <1>2 DEF uhost_cache_swap, WithCache
    <2> HIDE DEF rest, grown
    <2>5. /\ z \in Data /\ z.chan = x.chan /\ z.down = x.down /\ z.late = x.late
          /\ z.cache[old] = rest /\ \A k \in Nicks : k # old => z.cache[k] = x.cache[k]
      BY <2>2, WithCacheFields
    <2> HIDE DEF z
    <2>6. /\ w \in Data /\ w.chan = z.chan /\ w.down = z.down /\ w.late = z.late
          /\ w.cache[new] = grown /\ \A k \in Nicks : k # new => w.cache[k] = z.cache[k]
      BY <2>3, <2>5, WithCacheFields
    <2> HIDE DEF w
    <2>7. Refs(w, new) = l[1].refs /\ Refs(x, old) = l[1].refs
      BY <2>1, <2>3, <2>6 DEF Refs
    <2>8. \A k \in Nicks : k # old /\ k # new => Refs(w, k) = Refs(x, k)
      BY <2>5, <2>6 DEF Refs
    <2> QED
      BY <1>0, <2>4, <2>5, <2>6, <2>7, <2>8 DEF SameChannels
  <1> QED
    BY <1>1, <1>2

-----------------------------------------------------------------------------
\* The data of one channel.

LEMMA ChannelFields ==
  ASSUME NEW ch \in Channel
  PROVE  /\ ch.known \in Bit /\ ch.static \in Bit /\ ch.joined \in Bit /\ ch.stray \in Bit
         /\ ch.members \in Seq(Member) /\ ch.masks \in Seq(Masks) /\ ch.loading \in {"null", "no", "yes"}
  BY DEF Channel

LEMMA OfflineChannel ==
  ASSUME NEW k \in Bit, NEW s \in Bit
  PROVE  /\ Offline(k, s) \in Channel /\ Offline(k, s).joined = 0 /\ Offline(k, s).stray = 0
         /\ Offline(k, s).known = k /\ Offline(k, s).static = s
         /\ Offline(k, s).members = <<>> /\ Offline(k, s).masks = <<>> /\ Offline(k, s).loading = "null"
  BY DEF Offline, Channel, Bit

\* Other members.
WithMembers(ch, l) == [ch EXCEPT !.members = l]

LEMMA MembersFields ==
  ASSUME NEW ch \in Channel, NEW l \in Seq(Member)
  PROVE  /\ WithMembers(ch, l) \in Channel /\ WithMembers(ch, l).members = l
         /\ WithMembers(ch, l).known = ch.known /\ WithMembers(ch, l).static = ch.static
         /\ WithMembers(ch, l).joined = ch.joined /\ WithMembers(ch, l).stray = ch.stray
         /\ WithMembers(ch, l).masks = ch.masks /\ WithMembers(ch, l).loading = ch.loading
  BY DEF WithMembers, Channel

\* What the handlers do to the data, in these terms.
LEMMA AddMember ==
  ASSUME NEW x \in Data, NEW c \in Chans, NEW n \in Nicks, NEW h \in Uhosts, NEW flags \in Flags
  PROVE  LET y == channel_add_member(x, c, n, h, flags)
         IN  /\ y \in Data /\ y.down = x.down /\ y.late = x.late
             /\ y.chan[c] = WithMembers(x.chan[c], Enter(x.chan[c].members, n, h, flags))
             /\ \A d \in Chans : d # c => y.chan[d] = x.chan[d]
             /\ Refs(y, n) = Refs(x, n) + 1
             /\ \A k \in Nicks : k # n => Refs(y, k) = Refs(x, k)
  <1> DEFINE l == Enter(x.chan[c].members, n, h, flags)
             ch == WithMembers(x.chan[c], l)
             z == With(x, c, ch)
             y == uhost_cache_addref(z, n, h)
  <1>1. channel_add_member(x, c, n, h, flags) = y
    BY DEF channel_add_member, With, WithMembers
  <1>2. l \in Seq(Member) /\ x.chan[c] \in Channel
    BY DataFields, ChannelFields, EnterList
  <1>3. ch \in Channel
    <2> HIDE DEF l
    <2> QED
      BY <1>2, MembersFields
  <1> HIDE DEF ch
  <1>4. /\ z \in Data /\ z.cache = x.cache /\ z.down = x.down /\ z.late = x.late /\ z.chan[c] = ch
        /\ \A d \in Chans : d # c => z.chan[d] = x.chan[d]
    BY <1>3, WithFields
  <1>5. \A k \in Nicks : Refs(z, k) = Refs(x, k)
    BY <1>4 DEF Refs
  <1> HIDE DEF z
  <1>6. /\ y \in Data /\ SameChannels(y, z) /\ Refs(y, n) = Refs(z, n) + 1
        /\ \A k \in Nicks : k # n => Refs(y, k) = Refs(z, k)
    BY <1>4, Addref
  <1> HIDE DEF y
  <1> QED
    BY <1>1, <1>4, <1>5, <1>6 DEF SameChannels, ch, l

-----------------------------------------------------------------------------
\* Forgetting the members of a list, one after the other.
LEMMA ForgottenStages ==
  ASSUME NEW x \in Data, NEW l \in Seq(Member)
  PROVE  \E g \in [0 .. Len(l) -> Data] :
           /\ g[0] = x /\ Forgotten(x, l) = g[Len(l)]
           /\ \A k \in 1 .. Len(l) : g[k] = uhost_cache_decref(g[k - 1], l[k].nick)
  <1> DEFINE n == Len(l)
             step == [k \in 1 .. n |-> [v \in Data |-> uhost_cache_decref(v, l[k].nick)]]
             Is(f) == f = [s \in SUBSET (1 .. n) |->
                             IF s = {} THEN x
                             ELSE uhost_cache_decref(f[s \ {Max(s)}], l[Max(s)].nick)]
             it == CHOOSE f : Is(f)
  <1>0. /\ n \in Nat /\ DOMAIN l = 1 .. n /\ x \in Data
        /\ \A k \in 1 .. n : l[k].nick \in Nicks
    <2>1. n \in Nat /\ DOMAIN l = 1 .. n /\ \A k \in 1 .. n : l[k] \in Member
      OBVIOUS
    <2> HIDE DEF n
    <2> QED
      BY <2>1 DEF Member
  <1>1. \A v \in Data, k \in 1 .. n : uhost_cache_decref(v, l[k].nick) \in Data
    <2> HIDE DEF n
    <2> QED
      BY <1>0, Decref
  <1>2. step \in [1 .. n -> [Data -> Data]]
    <2> HIDE DEF n
    <2> QED
      BY <1>1
  <1>3. \E f : Is(f)
    <2>1. PICK f : LastFirst(f, n, Data, x, step)
      <3>1. n \in Nat /\ x \in Data
        BY <1>0
      <3> HIDE DEF step, n
      <3> QED
        BY <3>1, <1>2, LastFirstExists
    <2>2. ASSUME NEW s \in SUBSET (1 .. n), s # {}
          PROVE  f[s] = uhost_cache_decref(f[s \ {Max(s)}], l[Max(s)].nick)
      <3>1. Max(s) \in 1 .. n
        <4>1. n \in Nat
          BY <1>0
        <4> HIDE DEF n
        <4> QED
          BY <4>1, <2>2, MaxOfNumbers
      <3>2. f[s \ {Max(s)}] \in Data
        BY <2>1 DEF LastFirst
      <3>3. f[s] = step[Max(s)][f[s \ {Max(s)}]]
        BY <2>1, <2>2 DEF LastFirst
      <3> HIDE DEF n
      <3> QED
        BY <3>1, <3>2, <3>3
    <2>3. f = [s \in SUBSET (1 .. n) |-> f[s]]
      BY <2>1 DEF LastFirst
    <2>4. f[{}] = x
      BY <2>1 DEF LastFirst
    <2>5. Is(f)
      <3> HIDE DEF n, step
      <3> QED
        BY <2>2, <2>3, <2>4
    <2> QED
      BY <2>5
  <1>4. Is(it)
    <2> HIDE DEF Is
    <2> QED
      BY <1>3
  <1>5. Forgotten(x, l) = it[1 .. n]
    <2>1. Forgotten(x, l) = it[DOMAIN l]
      BY <1>0 DEF Forgotten, FoldLeft, MapThenFoldSet
    <2> HIDE DEF it
    <2> QED
      BY <1>0, <2>1
  <1>6. it[{}] = x
    <2> HIDE DEF n, it
    <2> QED
      BY <1>4
  <1>7. ASSUME NEW k \in 1 .. n
        PROVE  it[1 .. k] = uhost_cache_decref(it[1 .. k - 1], l[k].nick)
    <2> HIDE DEF it
    <2>1. 1 .. k \in SUBSET (1 .. n) /\ k \in Nat /\ k > 0
      BY <1>0
    <2>2. Max(1 .. k) = k /\ (1 .. k) \ {k} = 1 .. k - 1 /\ 1 .. k # {}
      BY <2>1, TopOfInterval
    <2> QED
      BY <1>4, <2>1, <2>2
  <1>8. PICK g : Stages(g, it, n, Data, x, step)
    <2>1. Unfolds(it, n, Data, x, step)
      <3>1. ASSUME NEW k \in 1 .. n, it[1 .. k - 1] \in Data
            PROVE  it[1 .. k] = step[k][it[1 .. k - 1]]
        <4> HIDE DEF it, n
        <4> QED
          BY <1>7, <3>1
      <3> HIDE DEF it, step, n
      <3> QED
        BY <1>6, <3>1 DEF Unfolds
    <2>2. n \in Nat /\ x \in Data
      BY <1>0
    <2> HIDE DEF it, step, n
    <2> QED
      BY <1>2, <2>1, <2>2, FoldStages
  <1>9. ASSUME NEW k \in 1 .. n
        PROVE  g[k] = uhost_cache_decref(g[k - 1], l[k].nick)
    <2>1. g[k - 1] \in Data
      <3>1. n \in Nat
        BY <1>0
      <3> HIDE DEF n, step, it
      <3> QED
        BY <3>1, <1>8 DEF Stages
    <2>2. g[k] = step[k][g[k - 1]]
      <3> HIDE DEF n, step, it
      <3> QED
        BY <1>8 DEF Stages
    <2> HIDE DEF n
    <2> QED
      BY <2>1, <2>2
  <1>10. g \in [0 .. n -> Data] /\ g[0] = x /\ g[n] = it[1 .. n]
    <2> HIDE DEF n, step, it
    <2> QED
      BY <1>8 DEF Stages
  <1> HIDE DEF it
  <1> QED
    BY <1>5, <1>9, <1>10


LEMMA ForgottenEffect ==
  ASSUME NEW x \in Data, NEW l \in Seq(Member)
  PROVE  /\ Forgotten(x, l) \in Data /\ SameChannels(Forgotten(x, l), x)
         /\ \A n \in Nicks : n \notin NicksIn(l) => Refs(Forgotten(x, l), n) = Refs(x, n)
         /\ NoTwice(l) => \A n \in Nicks : Refs(Forgotten(x, l), n) >= Refs(x, n) - 1
  <1> DEFINE N == Len(l)
             Before_(n, k) == \E j \in 1 .. k : l[j].nick = n
  <1>1. PICK g \in [0 .. N -> Data] :
          /\ g[0] = x /\ Forgotten(x, l) = g[N]
          /\ \A k \in 1 .. N : g[k] = uhost_cache_decref(g[k - 1], l[k].nick)
    BY ForgottenStages
  <1>2. N \in Nat /\ DOMAIN l = 1 .. N /\ \A k \in 1 .. N : l[k].nick \in Nicks
    BY DEF Member
  <1> HIDE DEF N
  <1> DEFINE Kept(k) ==
               /\ SameChannels(g[k], x)
               /\ \A n \in Nicks : ~ Before_(n, k) => Refs(g[k], n) = Refs(x, n)
               /\ NoTwice(l) => \A n \in Nicks : Refs(g[k], n) >= Refs(x, n) - 1
             A == {k \in 0 .. N : Kept(k)}
  <1>3. 0 \in A
    <2>1. g[0] = x /\ SameChannels(x, x) /\ \A n \in Nicks : Refs(x, n) \in Nat
      BY <1>1, DataFields DEF SameChannels
    <2>2. Kept(0)
      BY <2>1
    <2> HIDE DEF Kept
    <2> QED
      BY <1>2, <2>2
  <1>4. ASSUME NEW k \in 0 .. N - 1, k \in A
        PROVE  k + 1 \in A
    <2> DEFINE m == l[k + 1].nick
               y == g[k]
               z == g[k + 1]
    <2>0. k + 1 \in 1 .. N /\ (k + 1) - 1 = k /\ k \in 0 .. N /\ k + 1 \in 0 .. N /\ k \in Nat
      BY <1>2
    <2>1. y \in Data /\ m \in Nicks /\ Kept(k)
      BY <1>2, <1>4, <2>0
    <2>2. z = uhost_cache_decref(y, m)
      BY <1>1, <2>0
    <2>3. /\ SameChannels(z, y) /\ Refs(z, m) >= Refs(y, m) - 1
          /\ \A n \in Nicks : n # m => Refs(z, n) = Refs(y, n)
      <3> HIDE DEF y, m, z, Kept
      <3> QED
        BY <2>1, <2>2, Decref
    <2>4. \A n : Before_(n, k + 1) <=> Before_(n, k) \/ n = m
      <3>1. 1 .. k + 1 = (1 .. k) \cup {k + 1}
        BY <2>0
      <3> QED
        BY <3>1
    <2>5. SameChannels(z, x)
      BY <2>1, <2>3 DEF SameChannels
    <2>6. ASSUME NEW n \in Nicks, ~ Before_(n, k + 1)
          PROVE  Refs(z, n) = Refs(x, n)
      <3>1. n # m /\ ~ Before_(n, k)
        BY <2>4, <2>6
      <3> QED
        BY <2>1, <2>3, <3>1
    <2>7. ASSUME NoTwice(l), NEW n \in Nicks
          PROVE  Refs(z, n) >= Refs(x, n) - 1
      <3>1. CASE n # m
        <4>1. Refs(z, n) = Refs(y, n) /\ Refs(y, n) >= Refs(x, n) - 1
          BY <2>1, <2>3, <2>7, <3>1
        <4> QED
          BY <4>1
      <3>2. CASE n = m
        <4>1. ~ Before_(n, k)
          BY <1>2, <2>0, <2>7, <3>2 DEF NoTwice
        <4>2. Refs(y, n) = Refs(x, n)
          BY <2>1, <4>1
        <4> HIDE DEF y, z, m
        <4> QED
          BY <2>3, <3>2, <4>2
      <3> QED
        BY <3>1, <3>2
    <2>8. Kept(k + 1)
      <3> HIDE DEF Before_
      <3> QED
        BY <2>5, <2>6, <2>7
    <2> HIDE DEF Kept
    <2> QED
      BY <2>0, <2>8
  <1>5. N \in A
    <2> HIDE DEF A
    <2>1. \A k \in 0 .. N : k \in A
      BY <1>2, <1>3, <1>4, UpTo
    <2> QED
      BY <1>2, <2>1
  <1>6. \A n : Before_(n, N) <=> n \in NicksIn(l)
    BY <1>2 DEF NicksIn
  <1>7. Kept(N) /\ g[N] \in Data
    BY <1>2, <1>5
  <1> HIDE DEF Before_
  <1> QED
    BY <1>1, <1>6, <1>7

\* The members of a channel go.
LEMMA FreeOnline ==
  ASSUME NEW x \in Data, NEW c \in Chans
  PROVE  LET y == channel_free_online(x, c)
         IN  /\ y \in Data /\ y.down = x.down /\ y.late = x.late
             /\ y.chan[c] = Offline(x.chan[c].known, x.chan[c].static)
             /\ \A d \in Chans : d # c => y.chan[d] = x.chan[d]
             /\ \A n \in Nicks : n \notin NicksIn(x.chan[c].members) => Refs(y, n) = Refs(x, n)
             /\ NoTwice(x.chan[c].members) => \A n \in Nicks : Refs(y, n) >= Refs(x, n) - 1
  <1> DEFINE l == x.chan[c].members
             z == Forgotten(x, l)
             o == Offline(x.chan[c].known, x.chan[c].static)
             y == With(z, c, o)
  <1>1. channel_free_online(x, c) = y
    BY DEF channel_free_online, With
  <1>2. x.chan[c] \in Channel
    BY DataFields
  <1>3. l \in Seq(Member) /\ x.chan[c].known \in Bit /\ x.chan[c].static \in Bit
    BY <1>2, ChannelFields
  <1>4. o \in Channel
    BY <1>3, OfflineChannel
  <1> HIDE DEF l, o
  <1>5. /\ z \in Data /\ SameChannels(z, x)
        /\ \A n \in Nicks : n \notin NicksIn(l) => Refs(z, n) = Refs(x, n)
        /\ NoTwice(l) => \A n \in Nicks : Refs(z, n) >= Refs(x, n) - 1
    BY <1>3, ForgottenEffect
  <1> HIDE DEF z
  <1>6. /\ y \in Data /\ y.cache = z.cache /\ y.down = z.down /\ y.late = z.late /\ y.chan[c] = o
        /\ \A d \in Chans : d # c => y.chan[d] = z.chan[d]
    BY <1>4, <1>5, WithFields
  <1>7. \A n \in Nicks : Refs(y, n) = Refs(z, n)
    BY <1>6 DEF Refs
  <1> HIDE DEF y
  <1>8. /\ y \in Data /\ y.down = x.down /\ y.late = x.late /\ y.chan[c] = o
        /\ \A d \in Chans : d # c => y.chan[d] = x.chan[d]
        /\ \A n \in Nicks : n \notin NicksIn(l) => Refs(y, n) = Refs(x, n)
        /\ NoTwice(l) => \A n \in Nicks : Refs(y, n) >= Refs(x, n) - 1
    BY <1>5, <1>6, <1>7 DEF SameChannels
  <1> QED
    BY <1>1, <1>8 DEF l, o

\* A member is taken out of a list.
LEMMA MemberOut ==
  ASSUME NEW l \in Seq(Member), NEW n, Places(l, n) # {}
  PROVE  LET r == RemoveAt(l, Place(l, n))
         IN  /\ r \in Seq(Member)
             /\ NicksIn(l) \subseteq NicksIn(r) \cup {n}
             /\ \A i \in 1 .. Len(r) : \E j \in 1 .. Len(l) : r[i] = l[j]
             /\ NoTwice(l) => NoTwice(r) /\ n \notin NicksIn(r)
  <1> DEFINE p == Place(l, n)
             r == RemoveAt(l, p)
  <1>1. p \in 1 .. Len(l) /\ l[p].nick = n
    BY PlaceFound
  <1>2. Len(l) \in Nat /\ DOMAIN l = 1 .. Len(l)
    OBVIOUS
  <1> HIDE DEF p
  <1>3. /\ r \in Seq(Member) /\ Len(r) = Len(l) - 1
        /\ \A j \in 1 .. Len(l) - 1 : r[j] = IF j < p THEN l[j] ELSE l[j + 1]
    BY <1>1, RemoveAtProperties
  <1> HIDE DEF r
  <1>4. DOMAIN r = 1 .. Len(r)
    BY <1>3
  <1> DEFINE from(j) == IF j < p THEN j ELSE j + 1
  <1>5. \A j \in 1 .. Len(r) : from(j) \in 1 .. Len(l) /\ from(j) # p /\ r[j] = l[from(j)]
    BY <1>1, <1>2, <1>3
  <1>6. \A i, j \in 1 .. Len(r) : from(i) = from(j) => i = j
    BY <1>1, <1>2, <1>3
  <1>7. \A i \in 1 .. Len(l) : i # p => \E j \in 1 .. Len(r) : r[j] = l[i]
    <2> SUFFICES ASSUME NEW i \in 1 .. Len(l), i # p
                 PROVE  \E j \in 1 .. Len(r) : r[j] = l[i]
      OBVIOUS
    <2>1. CASE i < p
      BY <1>1, <1>2, <1>3, <2>1
    <2>2. CASE i > p
      <3>1. i - 1 \in 1 .. Len(r) /\ ~ i - 1 < p /\ (i - 1) + 1 = i
        BY <1>1, <1>2, <1>3, <2>2
      <3> QED
        BY <1>3, <3>1
    <2> QED
      BY <1>1, <1>2, <2>1, <2>2
  <1> HIDE DEF from
  <1>8. NicksIn(l) \subseteq NicksIn(r) \cup {n}
    <2> SUFFICES ASSUME NEW i \in 1 .. Len(l)
                 PROVE  l[i].nick \in NicksIn(r) \cup {n}
      BY <1>2 DEF NicksIn
    <2>1. CASE i = p
      BY <1>1, <2>1
    <2>2. CASE i # p
      BY <1>4, <1>7, <2>2 DEF NicksIn
    <2> QED
      BY <2>1, <2>2
  <1>9. \A i \in 1 .. Len(r) : \E j \in 1 .. Len(l) : r[i] = l[j]
    BY <1>5
  <1>10. ASSUME NoTwice(l)
         PROVE  NoTwice(r) /\ n \notin NicksIn(r)
    <2>1. NoTwice(r)
      <3> SUFFICES ASSUME NEW i \in 1 .. Len(r), NEW j \in 1 .. Len(r), r[i].nick = r[j].nick
                   PROVE  i = j
        BY <1>4 DEF NoTwice
      <3>1. from(i) = from(j)
        BY <1>2, <1>5, <1>10 DEF NoTwice
      <3> QED
        BY <1>6, <3>1
    <2>2. ASSUME NEW i \in 1 .. Len(r)
          PROVE  r[i].nick # n
      BY <1>1, <1>2, <1>5, <1>10 DEF NoTwice
    <2> QED
      BY <1>4, <2>1, <2>2 DEF NicksIn
  <1> QED
    BY <1>3, <1>8, <1>9, <1>10 DEF r, p

\* What is left of a channel when a nick leaves it that is not the bot's.
Left(ch, n) ==
  IF ch.known = 0 \/ Places(ch.members, n) = {} THEN ch
  ELSE WithMembers(ch, RemoveAt(ch.members, Place(ch.members, n)))

LEMMA LeftChannel ==
  ASSUME NEW ch \in Channel, NEW n
  PROVE  Left(ch, n) \in Channel /\ Left(ch, n).stray = ch.stray
  <1>1. ch.members \in Seq(Member)
    BY ChannelFields
  <1>2. CASE ch.known = 0 \/ Places(ch.members, n) = {}
    BY <1>2 DEF Left
  <1>3. CASE ~ (ch.known = 0 \/ Places(ch.members, n) = {})
    <2>1. RemoveAt(ch.members, Place(ch.members, n)) \in Seq(Member)
      BY <1>1, <1>3, MemberOut
    <2> QED
      BY <1>3, <2>1, MembersFields DEF Left
  <1> QED
    BY <1>2, <1>3

LEMMA Leave ==
  ASSUME NEW x \in Data, NEW c \in Chans, NEW n \in Nicks, n # me
  PROVE  LET y == channel_on_leave(x, c, n)
         IN  /\ y \in Data /\ y.down = x.down /\ y.late = x.late
             /\ y.chan[c] = Left(x.chan[c], n)
             /\ \A d \in Chans : d # c => y.chan[d] = x.chan[d]
             /\ Refs(y, n) >= Refs(x, n) - 1
             /\ \A k \in Nicks : k # n => Refs(y, k) = Refs(x, k)
  <1> DEFINE y == channel_on_leave(x, c, n)
             z == uhost_cache_decref(x, n)
             ch == Left(x.chan[c], n)
             w == With(z, c, ch)
  <1>0. x.chan[c] \in Channel /\ \A k \in Nicks : Refs(x, k) \in Nat
    BY DataFields
  <1>1. ch \in Channel
    BY <1>0, LeftChannel
  <1>2. /\ z \in Data /\ SameChannels(z, x) /\ Refs(z, n) >= Refs(x, n) - 1
        /\ \A k \in Nicks : k # n => Refs(z, k) = Refs(x, k)
    BY Decref
  <1>3. CASE x.chan[c].known = 0
    <2>1. y = x /\ ch = x.chan[c]
      BY <1>3 DEF channel_on_leave, Left
    <2> HIDE DEF y, ch
    <2> QED
      BY <1>0, <2>1 DEF y, ch
  <1>4. CASE x.chan[c].known # 0 /\ Places(x.chan[c].members, n) = {}
    <2>1. y = z /\ ch = x.chan[c]
      BY <1>2, <1>4 DEF channel_on_leave, Left, SameChannels
    <2> HIDE DEF y, ch
    <2> QED
      BY <1>2, <2>1 DEF y, ch, SameChannels
  <1>5. CASE x.chan[c].known # 0 /\ Places(x.chan[c].members, n) # {}
    <2>1. z.chan[c] = x.chan[c]
      BY <1>2 DEF SameChannels
    <2>2. y = [z EXCEPT !.chan[c].members = RemoveAt(z.chan[c].members, Place(z.chan[c].members, n))]
      <3> HIDE DEF z
      <3> QED
        BY <1>5, <2>1 DEF channel_on_leave, z
    <2>3. ch = WithMembers(x.chan[c], RemoveAt(x.chan[c].members, Place(x.chan[c].members, n)))
      BY <1>5 DEF Left
    <2>4. y = w
      <3> HIDE DEF y, z, ch
      <3> QED
        BY <2>1, <2>2, <2>3 DEF With, WithMembers
    <2> HIDE DEF z, ch
    <2>5. /\ w \in Data /\ w.cache = z.cache /\ w.down = z.down /\ w.late = z.late /\ w.chan[c] = ch
          /\ \A d \in Chans : d # c => w.chan[d] = z.chan[d]
      BY <1>1, <1>2, WithFields
    <2> HIDE DEF w
    <2>6. \A k \in Nicks : Refs(w, k) = Refs(z, k)
      BY <2>5 DEF Refs
    <2> HIDE DEF y
    <2> QED
      BY <1>2, <2>4, <2>5, <2>6 DEF SameChannels, y, ch
  <1> QED
    BY <1>3, <1>4, <1>5

LEMMA BotLeaves ==
  ASSUME NEW x \in Data, NEW c \in Chans, me \in Nicks, x.chan[c].known = 1, Places(x.chan[c].members, me) # {}
  PROVE  LET y == channel_on_leave(x, c, me)
         IN  /\ y \in Data /\ y.down = x.down /\ y.late = x.late
             /\ \E k \in Bit, s \in Bit : y.chan[c] = Offline(k, s)
             /\ \A d \in Chans : d # c => y.chan[d] = x.chan[d]
             /\ \A n \in Nicks : n \notin NicksIn(x.chan[c].members) => Refs(y, n) = Refs(x, n)
             /\ NoTwice(x.chan[c].members) => \A n \in Nicks : Refs(y, n) >= Refs(x, n) - 1
  <1> DEFINE y == channel_on_leave(x, c, me)
             l == x.chan[c].members
             r == RemoveAt(l, Place(l, me))
             ch == WithMembers(x.chan[c], r)
             z == With(x, c, ch)
             f == channel_free_online(z, c)
             g == With(f, c, NoChannel)
  <1>1. x.chan[c] \in Channel /\ l \in Seq(Member)
    <2>1. x.chan[c] \in Channel
      BY DataFields
    <2> QED
      BY <2>1, ChannelFields
  <1>2. uhost_cache_decref(x, me) = x
    BY DEF uhost_cache_decref
  <1>3. y = IF z.chan[c].static = 1 THEN f ELSE g
    <2>1. z = [x EXCEPT !.chan[c].members = RemoveAt(x.chan[c].members, Place(x.chan[c].members, me))]
      BY DEF With, WithMembers
    <2>2. g = channel_free(z, c)
      BY DEF channel_free, With
    <2> HIDE DEF g, f
    <2>3. y = IF z.chan[c].static = 1 THEN f ELSE channel_free(z, c)
      <3> HIDE DEF z
      <3> QED
        BY <1>2, <2>1 DEF channel_on_leave, f
    <2> HIDE DEF z, y
    <2> QED
      BY <2>2, <2>3
  <1>4. r \in Seq(Member) /\ (NoTwice(l) => NoTwice(r))
    <2> HIDE DEF l
    <2> QED
      BY <1>1, MemberOut DEF l
  <1>5. NicksIn(r) \subseteq NicksIn(l)
    <2>1. DOMAIN l = 1 .. Len(l) /\ DOMAIN r = 1 .. Len(r)
      <3> HIDE DEF l, r
      <3> QED
        BY <1>1, <1>4
    <2>2. \A i \in 1 .. Len(r) : \E j \in 1 .. Len(l) : r[i] = l[j]
      <3> HIDE DEF l
      <3> QED
        BY <1>1, MemberOut DEF l
    <2> HIDE DEF l, r
    <2> QED
      BY <2>1, <2>2 DEF NicksIn
  <1>6. ch \in Channel /\ ch.members = r /\ ch.known = x.chan[c].known /\ ch.static = x.chan[c].static
    <2> HIDE DEF r
    <2> QED
      BY <1>1, <1>4, MembersFields
  <1> HIDE DEF ch, r, l
  <1>7. /\ z \in Data /\ z.cache = x.cache /\ z.down = x.down /\ z.late = x.late /\ z.chan[c] = ch
        /\ \A d \in Chans : d # c => z.chan[d] = x.chan[d]
    BY <1>6, WithFields
  <1>8. \A n \in Nicks : Refs(z, n) = Refs(x, n)
    BY <1>7 DEF Refs
  <1> HIDE DEF z
  <1>9. /\ f \in Data /\ f.down = z.down /\ f.late = z.late
        /\ f.chan[c] = Offline(z.chan[c].known, z.chan[c].static)
        /\ \A d \in Chans : d # c => f.chan[d] = z.chan[d]
        /\ \A n \in Nicks : n \notin NicksIn(z.chan[c].members) => Refs(f, n) = Refs(z, n)
        /\ NoTwice(z.chan[c].members) => \A n \in Nicks : Refs(f, n) >= Refs(z, n) - 1
    BY <1>7, FreeOnline
  <1> HIDE DEF f
  <1>10. /\ f \in Data /\ f.down = x.down /\ f.late = x.late
         /\ f.chan[c] = Offline(z.chan[c].known, z.chan[c].static)
         /\ \A d \in Chans : d # c => f.chan[d] = x.chan[d]
         /\ \A n \in Nicks : n \notin NicksIn(l) => Refs(f, n) = Refs(x, n)
         /\ NoTwice(l) => \A n \in Nicks : Refs(f, n) >= Refs(x, n) - 1
    BY <1>4, <1>5, <1>6, <1>7, <1>8, <1>9
  <1>11. z.chan[c].known \in Bit /\ z.chan[c].static \in Bit
    <2>1. z.chan[c] \in Channel
      BY <1>6, <1>7
    <2> QED
      BY <2>1, ChannelFields
  <1>12. NoChannel \in Channel /\ NoChannel = Offline(0, 0) /\ 0 \in Bit
    BY OfflineChannel DEF NoChannel, Bit
  <1>13. /\ g \in Data /\ g.cache = f.cache /\ g.down = f.down /\ g.late = f.late /\ g.chan[c] = NoChannel
         /\ \A d \in Chans : d # c => g.chan[d] = f.chan[d]
    BY <1>10, <1>12, WithFields
  <1>14. \A n \in Nicks : Refs(g, n) = Refs(f, n)
    BY <1>13 DEF Refs
  <1> HIDE DEF g
  <1>15. \E k \in Bit, s \in Bit : f.chan[c] = Offline(k, s)
    BY <1>10, <1>11
  <1>16. \E k \in Bit, s \in Bit : g.chan[c] = Offline(k, s)
    BY <1>12, <1>13
  <1>17. CASE y = f
    <2> HIDE DEF y
    <2> QED
      BY <1>10, <1>15, <1>17 DEF y, l
  <1>18. CASE y = g
    <2>1. /\ g \in Data /\ g.down = x.down /\ g.late = x.late
          /\ \A d \in Chans : d # c => g.chan[d] = x.chan[d]
          /\ \A n \in Nicks : n \notin NicksIn(l) => Refs(g, n) = Refs(x, n)
          /\ NoTwice(l) => \A n \in Nicks : Refs(g, n) >= Refs(x, n) - 1
      BY <1>10, <1>13, <1>14
    <2> HIDE DEF y
    <2> QED
      BY <1>16, <1>18, <2>1 DEF y, l
  <1>19. y = f \/ y = g
    <2> HIDE DEF y
    <2> QED
      BY <1>3
  <1> QED
    BY <1>17, <1>18, <1>19

LEMMA LeaveType ==
  ASSUME NEW x \in Data, NEW c \in Chans, NEW n \in Nicks
  PROVE  /\ channel_on_leave(x, c, n) \in Data
         /\ channel_on_leave(x, c, n).down = x.down /\ channel_on_leave(x, c, n).late = x.late
  <1>1. CASE n # me
    BY <1>1, Leave
  <1>2. CASE n = me /\ x.chan[c].known = 0
    BY <1>2 DEF channel_on_leave
  <1>3. CASE n = me /\ Places(x.chan[c].members, n) = {}
    <2>1. uhost_cache_decref(x, n) = x
      BY <1>3 DEF uhost_cache_decref
    <2> QED
      BY <1>3, <2>1 DEF channel_on_leave
  <1>4. CASE n = me /\ x.chan[c].known # 0 /\ Places(x.chan[c].members, n) # {}
    <2>1. x.chan[c] \in Channel
      BY DataFields
    <2>2. x.chan[c].known = 1
      BY <1>4, <2>1, ChannelFields DEF Bit
    <2> QED
      BY <1>4, <2>2, BotLeaves
  <1> QED
    BY <1>1, <1>2, <1>3, <1>4

\* A nick leaves the channels, one after the other.
LEMMA QuitStages ==
  ASSUME NEW x \in Data, NEW who \in Nicks
  PROVE  \E g \in [0 .. Len(SetToSeq(Chans)) -> Data] :
           /\ g[0] = x /\ channel_on_quit(x, who) = g[Len(SetToSeq(Chans))]
           /\ \A k \in 1 .. Len(SetToSeq(Chans)) : g[k] = channel_on_leave(g[k - 1], SetToSeq(Chans)[k], who)
  <1> DEFINE n == Len(SetToSeq(Chans))
             step == [k \in 1 .. n |-> [v \in Data |-> channel_on_leave(v, SetToSeq(Chans)[k], who)]]
             Is(f) == f = [s \in SUBSET (1 .. n) |->
                             IF s = {} THEN x
                             ELSE channel_on_leave(f[s \ {Max(s)}], SetToSeq(Chans)[Max(s)], who)]
             it == CHOOSE f : Is(f)
  <1>0. /\ n \in Nat /\ DOMAIN SetToSeq(Chans) = 1 .. n /\ x \in Data
        /\ \A k \in 1 .. n : SetToSeq(Chans)[k] \in Chans
    <2> DEFINE s == SetToSeq(Chans)
    <2>1. s \in Seq(Chans) /\ Len(s) \in Nat
      BY ChannelsAssumption, SetInSequence
    <2> HIDE DEF s
    <2> QED
      BY <2>1 DEF s
  <1>1. \A v \in Data, k \in 1 .. n : channel_on_leave(v, SetToSeq(Chans)[k], who) \in Data
    <2> HIDE DEF n
    <2> QED
      BY <1>0, LeaveType
  <1>2. step \in [1 .. n -> [Data -> Data]]
    <2> HIDE DEF n
    <2> QED
      BY <1>1
  <1>3. \E f : Is(f)
    <2>1. PICK f : LastFirst(f, n, Data, x, step)
      <3>1. n \in Nat /\ x \in Data
        BY <1>0
      <3> HIDE DEF step, n
      <3> QED
        BY <3>1, <1>2, LastFirstExists
    <2>2. ASSUME NEW s \in SUBSET (1 .. n), s # {}
          PROVE  f[s] = channel_on_leave(f[s \ {Max(s)}], SetToSeq(Chans)[Max(s)], who)
      <3>1. Max(s) \in 1 .. n
        <4>1. n \in Nat
          BY <1>0
        <4> HIDE DEF n
        <4> QED
          BY <4>1, <2>2, MaxOfNumbers
      <3>2. f[s \ {Max(s)}] \in Data
        BY <2>1 DEF LastFirst
      <3>3. f[s] = step[Max(s)][f[s \ {Max(s)}]]
        BY <2>1, <2>2 DEF LastFirst
      <3> HIDE DEF n
      <3> QED
        BY <3>1, <3>2, <3>3
    <2>3. f = [s \in SUBSET (1 .. n) |-> f[s]]
      BY <2>1 DEF LastFirst
    <2>4. f[{}] = x
      BY <2>1 DEF LastFirst
    <2>5. Is(f)
      <3> HIDE DEF n, step
      <3> QED
        BY <2>2, <2>3, <2>4
    <2> QED
      BY <2>5
  <1>4. Is(it)
    <2> HIDE DEF Is
    <2> QED
      BY <1>3
  <1>5. channel_on_quit(x, who) = it[1 .. n]
    <2>1. channel_on_quit(x, who) = it[DOMAIN SetToSeq(Chans)]
      BY <1>0 DEF channel_on_quit, FoldLeft, MapThenFoldSet
    <2> HIDE DEF it
    <2> QED
      BY <1>0, <2>1
  <1>6. it[{}] = x
    <2> HIDE DEF n, it
    <2> QED
      BY <1>4
  <1>7. ASSUME NEW k \in 1 .. n
        PROVE  it[1 .. k] = channel_on_leave(it[1 .. k - 1], SetToSeq(Chans)[k], who)
    <2> HIDE DEF it
    <2>1. 1 .. k \in SUBSET (1 .. n) /\ k \in Nat /\ k > 0
      BY <1>0
    <2>2. Max(1 .. k) = k /\ (1 .. k) \ {k} = 1 .. k - 1 /\ 1 .. k # {}
      BY <2>1, TopOfInterval
    <2> QED
      BY <1>4, <2>1, <2>2
  <1>8. PICK g : Stages(g, it, n, Data, x, step)
    <2>1. Unfolds(it, n, Data, x, step)
      <3>1. ASSUME NEW k \in 1 .. n, it[1 .. k - 1] \in Data
            PROVE  it[1 .. k] = step[k][it[1 .. k - 1]]
        <4> HIDE DEF it, n
        <4> QED
          BY <1>7, <3>1
      <3> HIDE DEF it, step, n
      <3> QED
        BY <1>6, <3>1 DEF Unfolds
    <2>2. n \in Nat /\ x \in Data
      BY <1>0
    <2> HIDE DEF it, step, n
    <2> QED
      BY <1>2, <2>1, <2>2, FoldStages
  <1>9. ASSUME NEW k \in 1 .. n
        PROVE  g[k] = channel_on_leave(g[k - 1], SetToSeq(Chans)[k], who)
    <2>1. g[k - 1] \in Data
      <3>1. n \in Nat
        BY <1>0
      <3> HIDE DEF n, step, it
      <3> QED
        BY <3>1, <1>8 DEF Stages
    <2>2. g[k] = step[k][g[k - 1]]
      <3> HIDE DEF n, step, it
      <3> QED
        BY <1>8 DEF Stages
    <2> HIDE DEF n
    <2> QED
      BY <2>1, <2>2
  <1>10. g \in [0 .. n -> Data] /\ g[0] = x /\ g[n] = it[1 .. n]
    <2> HIDE DEF n, step, it
    <2> QED
      BY <1>8 DEF Stages
  <1> HIDE DEF it
  <1> QED
    BY <1>5, <1>9, <1>10


\* Each channel is left once.
LEMMA QuitEffect ==
  ASSUME NEW x \in Data, NEW n \in Nicks
  PROVE  LET y == channel_on_quit(x, n)
         IN  /\ y \in Data /\ y.down = x.down /\ y.late = x.late
             /\ n # me => /\ \A c \in Chans : y.chan[c] = Left(x.chan[c], n)
                          /\ \A k \in Nicks : k # n => Refs(y, k) = Refs(x, k)
  <1> DEFINE s == SetToSeq(Chans)
             N == Len(s)
  <1>1. PICK g \in [0 .. N -> Data] :
          /\ g[0] = x /\ channel_on_quit(x, n) = g[N]
          /\ \A k \in 1 .. N : g[k] = channel_on_leave(g[k - 1], s[k], n)
    BY QuitStages
  <1>2. /\ N \in Nat /\ \A k \in 1 .. N : s[k] \in Chans
        /\ \A c \in Chans : \E k \in 1 .. N : s[k] = c
        /\ \A i, j \in 1 .. N : s[i] = s[j] => i = j
    <2>1. /\ s \in Seq(Chans) /\ N \in Nat
          /\ \A c \in Chans : \E k \in 1 .. N : s[k] = c
          /\ \A i, j \in 1 .. N : s[i] = s[j] => i = j
      BY ChannelsAssumption, SetInSequence
    <2> HIDE DEF s
    <2> QED
      BY <2>1
  <1> HIDE DEF N, s
  <1> DEFINE Was(c, k) == \E j \in 1 .. k : s[j] = c
             Kept(k) ==
               /\ g[k].down = x.down /\ g[k].late = x.late
               /\ n # me => /\ \A c \in Chans : g[k].chan[c] = IF Was(c, k) THEN Left(x.chan[c], n) ELSE x.chan[c]
                            /\ \A m \in Nicks : m # n => Refs(g[k], m) = Refs(x, m)
             A == {k \in 0 .. N : Kept(k)}
  <1>3. 0 \in A
    <2>1. Kept(0)
      BY <1>1
    <2> HIDE DEF Kept
    <2> QED
      BY <1>2, <2>1
  <1>4. ASSUME NEW k \in 0 .. N - 1, k \in A
        PROVE  k + 1 \in A
    <2> DEFINE c0 == s[k + 1]
               y == g[k]
               z == g[k + 1]
    <2>0. k + 1 \in 1 .. N /\ (k + 1) - 1 = k /\ k \in 0 .. N /\ k + 1 \in 0 .. N /\ k \in Nat
      BY <1>2
    <2>1. y \in Data /\ c0 \in Chans /\ Kept(k)
      BY <1>2, <1>4, <2>0
    <2>2. z = channel_on_leave(y, c0, n)
      BY <1>1, <2>0
    <2>3. z.down = y.down /\ z.late = y.late
      <3> HIDE DEF y, c0, z, Kept
      <3> QED
        BY <2>1, <2>2, LeaveType
    <2>4. n # me => /\ z.chan[c0] = Left(y.chan[c0], n)
                    /\ \A d \in Chans : d # c0 => z.chan[d] = y.chan[d]
                    /\ \A m \in Nicks : m # n => Refs(z, m) = Refs(y, m)
      <3> HIDE DEF y, c0, z, Kept
      <3> QED
        BY <2>1, <2>2, Leave
    <2>5. \A c : Was(c, k + 1) <=> Was(c, k) \/ c = c0
      <3>1. 1 .. k + 1 = (1 .. k) \cup {k + 1}
        BY <2>0
      <3> QED
        BY <3>1
    <2>6. ~ Was(c0, k)
      BY <1>2, <2>0
    <2> HIDE DEF Was
    <2>7. ASSUME n # me, NEW c \in Chans
          PROVE  z.chan[c] = IF Was(c, k + 1) THEN Left(x.chan[c], n) ELSE x.chan[c]
      <3>1. y.chan[c] = IF Was(c, k) THEN Left(x.chan[c], n) ELSE x.chan[c]
        BY <2>1, <2>7
      <3> HIDE DEF y, z, c0, Kept
      <3> QED
        BY <2>4, <2>5, <2>6, <2>7, <3>1
    <2>8. ASSUME n # me, NEW m \in Nicks, m # n
          PROVE  Refs(z, m) = Refs(x, m)
      BY <2>1, <2>4, <2>8
    <2>9. Kept(k + 1)
      BY <2>1, <2>3, <2>7, <2>8
    <2> HIDE DEF Kept
    <2> QED
      BY <2>0, <2>9
  <1>5. N \in A
    <2> HIDE DEF A
    <2>1. \A k \in 0 .. N : k \in A
      BY <1>2, <1>3, <1>4, UpTo
    <2> QED
      BY <1>2, <2>1
  <1>6. \A c \in Chans : Was(c, N)
    BY <1>2
  <1>7. Kept(N) /\ g[N] \in Data
    BY <1>2, <1>5
  <1> HIDE DEF Was
  <1> QED
    BY <1>1, <1>6, <1>7

-----------------------------------------------------------------------------
\* The users of a channel are listed.

LEMMA MembersTwice ==
  ASSUME NEW ch \in Channel, NEW l \in Seq(Member), NEW m \in Seq(Member)
  PROVE  WithMembers(WithMembers(ch, l), m) = WithMembers(ch, m) /\ WithMembers(ch, ch.members) = ch
  BY DEF WithMembers, Channel

\* What the list l has become when the users us were entered.
Placed(l, e, us, hosts, c) ==
  \/ \E u \in us : Entered(l, nickOf[u], hosts[u], Status(c, u), e)
  \/ (\E j \in 1 .. Len(l) : e = l[j]) /\ \A u \in us : e.nick # nickOf[u]
Extended(l, m, us, hosts, c) ==
  /\ m \in Seq(Member)
  /\ \A n : n \in NicksIn(m) <=> n \in NicksIn(l) \/ \E u \in us : n = nickOf[u]
  /\ NoTwice(l) => NoTwice(m) /\ \A i \in 1 .. Len(m) : Placed(l, m[i], us, hosts, c)

LEMMA StatusFlags ==
  ASSUME NEW c, NEW u
  PROVE  Status(c, u) \in Flags
  BY DEF Status, Flags

LEMMA Extend ==
  ASSUME Named(nickOf), NEW us \in SUBSET Users, NEW u \in Users, u \notin us, nickOf[u] \in Nicks,
         NEW hosts \in [Users -> Uhosts], NEW c \in Chans,
         NEW l \in Seq(Member), NEW m, Extended(l, m, us, hosts, c)
  PROVE  Extended(l, Enter(m, nickOf[u], hosts[u], Status(c, u)), us \cup {u}, hosts, c)
  <1> DEFINE n == nickOf[u]
             h == hosts[u]
             f == Status(c, u)
             r == Enter(m, n, h, f)
             all == us \cup {u}
  <1>1. m \in Seq(Member) /\ n \in Nicks /\ h \in Uhosts /\ f \in Flags /\ n # NoNick
    BY ChannelsAssumption, StatusFlags DEF Extended
  <1>2. \A v \in us : nickOf[v] # n
    BY <1>1 DEF Named
  <1> HIDE DEF h, f
  <1>3. /\ r \in Seq(Member) /\ NicksIn(r) = NicksIn(m) \cup {n}
        /\ NoTwice(m) =>
             /\ NoTwice(r)
             /\ \A i \in 1 .. Len(r) :
                  \/ Entered(m, n, h, f, r[i])
                  \/ r[i].nick # n /\ \E j \in 1 .. Len(m) : r[i] = m[j]
    <2> DEFINE made == Enter(m, n, h, f)
    <2> HIDE DEF n
    <2>1. made \in Seq(Member) /\ NicksIn(made) = NicksIn(m) \cup {n}
      BY <1>1, EnterList
    <2>2. NoTwice(m) => NoTwice(made)
      BY <1>1, EnterList
    <2>3. NoTwice(m) => \A i \in 1 .. Len(made) :
            \/ Entered(m, n, h, f, made[i])
            \/ made[i].nick # n /\ \E j \in 1 .. Len(m) : made[i] = m[j]
      BY <1>1, EnterList
    <2>4. r = made
      OBVIOUS
    <2> HIDE DEF r, made
    <2> QED
      BY <2>1, <2>2, <2>3, <2>4
  <1>4. \A k : k \in NicksIn(r) <=> k \in NicksIn(l) \/ \E v \in all : k = nickOf[v]
    BY <1>3 DEF Extended
  <1> HIDE DEF r
  <1>5. ASSUME NoTwice(l), NEW i \in 1 .. Len(r)
        PROVE  Placed(l, r[i], all, hosts, c)
    <2> DEFINE e == r[i]
    <2>1. NoTwice(m) /\ \A j \in 1 .. Len(m) : Placed(l, m[j], us, hosts, c)
      BY <1>5 DEF Extended
    <2>2. CASE Entered(m, n, h, f, e)
      <3> HIDE DEF e, n
      <3>1. PICK m0 \in Member :
              /\ m0.nick = n
              /\ (m0 = NewMember(n) /\ n \notin NicksIn(m)) \/ \E j \in 1 .. Len(m) : m0 = m[j]
              /\ e.nick = n
              /\ e.uhost = IF m0.uhost = NoUhost THEN h ELSE m0.uhost
              /\ e.op = IF "op" \in f THEN 1 ELSE m0.op
              /\ e.bot = IF "bot" \in f THEN 1 ELSE m0.bot
        BY <2>2 DEF Entered
      <3>2. (m0 = NewMember(n) /\ n \notin NicksIn(l)) \/ \E j \in 1 .. Len(l) : m0 = l[j]
        <4>1. CASE m0 = NewMember(n) /\ n \notin NicksIn(m)
          BY <4>1 DEF Extended
        <4>2. CASE \E j \in 1 .. Len(m) : m0 = m[j]
          <5>1. Placed(l, m0, us, hosts, c)
            BY <2>1, <4>2
          <5>2. ~ \E v \in us : Entered(l, nickOf[v], hosts[v], Status(c, v), m0)
            BY <1>2, <3>1 DEF Entered
          <5> QED
            BY <5>1, <5>2 DEF Placed
        <4> QED
          BY <3>1, <4>1, <4>2
      <3>3. Entered(l, n, h, f, e)
        BY <3>1, <3>2 DEF Entered
      <3>4. u \in all
        OBVIOUS
      <3>5. Entered(l, nickOf[u], hosts[u], Status(c, u), e)
        BY <3>3 DEF n, h, f
      <3> HIDE DEF all
      <3>6. Placed(l, e, all, hosts, c)
        BY <3>4, <3>5 DEF Placed
      <3> QED
        BY <3>6 DEF e
    <2>3. CASE e.nick # n /\ \E j \in 1 .. Len(m) : e = m[j]
      <3> HIDE DEF e
      <3>1. Placed(l, e, us, hosts, c)
        BY <2>1, <2>3
      <3>2. CASE \E v \in us : Entered(l, nickOf[v], hosts[v], Status(c, v), e)
        <4>1. \E v \in all : Entered(l, nickOf[v], hosts[v], Status(c, v), e)
          BY <3>2
        <4> HIDE DEF all
        <4>2. Placed(l, e, all, hosts, c)
          BY <4>1 DEF Placed
        <4> QED
          BY <4>2 DEF e
      <3>3. CASE (\E j \in 1 .. Len(l) : e = l[j]) /\ \A v \in us : e.nick # nickOf[v]
        <4>1. \A v \in all : e.nick # nickOf[v]
          BY <2>3, <3>3
        <4> HIDE DEF all
        <4>2. Placed(l, e, all, hosts, c)
          BY <3>3, <4>1 DEF Placed
        <4> QED
          BY <4>2 DEF e
      <3> QED
        BY <3>1, <3>2, <3>3 DEF Placed
    <2> HIDE DEF e
    <2>4. Entered(m, n, h, f, e) \/ (e.nick # n /\ \E j \in 1 .. Len(m) : e = m[j])
      BY <1>3, <2>1 DEF e
    <2> QED
      BY <2>2, <2>3, <2>4
  <1> HIDE DEF all
  <1>6. NoTwice(l) => NoTwice(r)
    BY <1>3 DEF Extended
  <1>7. Extended(l, r, all, hosts, c)
    BY <1>3, <1>4, <1>5, <1>6 DEF Extended
  <1> QED
    BY <1>7 DEF r, all, n, h, f

\* Listing users, one after the other.
LEMMA ListedStages ==
  ASSUME NEW x \in Data, NEW c \in Chans, NEW us \in SUBSET Users, IsFiniteSet(us),
         \A u \in us : nickOf[u] \in Nicks, NEW hosts \in [Users -> Uhosts]
  PROVE  \E g \in [0 .. Len(SetToSeq(us)) -> Data] :
           /\ g[0] = x /\ ListedAll(x, c, us, hosts) = g[Len(SetToSeq(us))]
           /\ \A k \in 1 .. Len(SetToSeq(us)) : g[k] = channel_add_member(g[k - 1], c, nickOf[SetToSeq(us)[k]], hosts[SetToSeq(us)[k]], Status(c, SetToSeq(us)[k]))
  <1> DEFINE n == Len(SetToSeq(us))
             step == [k \in 1 .. n |-> [v \in Data |-> channel_add_member(v, c, nickOf[SetToSeq(us)[k]], hosts[SetToSeq(us)[k]], Status(c, SetToSeq(us)[k]))]]
             Is(f) == f = [s \in SUBSET (1 .. n) |->
                             IF s = {} THEN x
                             ELSE channel_add_member(f[s \ {Max(s)}], c, nickOf[SetToSeq(us)[Max(s)]], hosts[SetToSeq(us)[Max(s)]], Status(c, SetToSeq(us)[Max(s)]))]
             it == CHOOSE f : Is(f)
  <1>0. /\ n \in Nat /\ DOMAIN SetToSeq(us) = 1 .. n /\ x \in Data
        /\ \A k \in 1 .. n : nickOf[SetToSeq(us)[k]] \in Nicks /\ hosts[SetToSeq(us)[k]] \in Uhosts /\ Status(c, SetToSeq(us)[k]) \in Flags
    <2> DEFINE s == SetToSeq(us)
    <2>1. s \in Seq(us) /\ Len(s) \in Nat
      BY SetInSequence
    <2> HIDE DEF s
    <2>2. DOMAIN s = 1 .. Len(s) /\ \A k \in 1 .. Len(s) : s[k] \in us
      BY <2>1
    <2>3. \A u : Status(c, u) \in Flags
      BY DEF Status, Flags
    <2> QED
      BY <2>1, <2>2, <2>3 DEF s
  <1>1. \A v \in Data, k \in 1 .. n : channel_add_member(v, c, nickOf[SetToSeq(us)[k]], hosts[SetToSeq(us)[k]], Status(c, SetToSeq(us)[k])) \in Data
    <2> HIDE DEF n
    <2> QED
      BY <1>0, AddMember
  <1>2. step \in [1 .. n -> [Data -> Data]]
    <2> HIDE DEF n
    <2> QED
      BY <1>1
  <1>3. \E f : Is(f)
    <2>1. PICK f : LastFirst(f, n, Data, x, step)
      <3>1. n \in Nat /\ x \in Data
        BY <1>0
      <3> HIDE DEF step, n
      <3> QED
        BY <3>1, <1>2, LastFirstExists
    <2>2. ASSUME NEW s \in SUBSET (1 .. n), s # {}
          PROVE  f[s] = channel_add_member(f[s \ {Max(s)}], c, nickOf[SetToSeq(us)[Max(s)]], hosts[SetToSeq(us)[Max(s)]], Status(c, SetToSeq(us)[Max(s)]))
      <3>1. Max(s) \in 1 .. n
        <4>1. n \in Nat
          BY <1>0
        <4> HIDE DEF n
        <4> QED
          BY <4>1, <2>2, MaxOfNumbers
      <3>2. f[s \ {Max(s)}] \in Data
        BY <2>1 DEF LastFirst
      <3>3. f[s] = step[Max(s)][f[s \ {Max(s)}]]
        BY <2>1, <2>2 DEF LastFirst
      <3> HIDE DEF n
      <3> QED
        BY <3>1, <3>2, <3>3
    <2>3. f = [s \in SUBSET (1 .. n) |-> f[s]]
      BY <2>1 DEF LastFirst
    <2>4. f[{}] = x
      BY <2>1 DEF LastFirst
    <2>5. Is(f)
      <3> HIDE DEF n, step
      <3> QED
        BY <2>2, <2>3, <2>4
    <2> QED
      BY <2>5
  <1>4. Is(it)
    <2> HIDE DEF Is
    <2> QED
      BY <1>3
  <1>5. ListedAll(x, c, us, hosts) = it[1 .. n]
    <2>1. ListedAll(x, c, us, hosts) = it[DOMAIN SetToSeq(us)]
      BY <1>0 DEF ListedAll, FoldLeft, MapThenFoldSet
    <2> HIDE DEF it
    <2> QED
      BY <1>0, <2>1
  <1>6. it[{}] = x
    <2> HIDE DEF n, it
    <2> QED
      BY <1>4
  <1>7. ASSUME NEW k \in 1 .. n
        PROVE  it[1 .. k] = channel_add_member(it[1 .. k - 1], c, nickOf[SetToSeq(us)[k]], hosts[SetToSeq(us)[k]], Status(c, SetToSeq(us)[k]))
    <2> HIDE DEF it
    <2>1. 1 .. k \in SUBSET (1 .. n) /\ k \in Nat /\ k > 0
      BY <1>0
    <2>2. Max(1 .. k) = k /\ (1 .. k) \ {k} = 1 .. k - 1 /\ 1 .. k # {}
      BY <2>1, TopOfInterval
    <2> QED
      BY <1>4, <2>1, <2>2
  <1>8. PICK g : Stages(g, it, n, Data, x, step)
    <2>1. Unfolds(it, n, Data, x, step)
      <3>1. ASSUME NEW k \in 1 .. n, it[1 .. k - 1] \in Data
            PROVE  it[1 .. k] = step[k][it[1 .. k - 1]]
        <4> HIDE DEF it, n
        <4> QED
          BY <1>7, <3>1
      <3> HIDE DEF it, step, n
      <3> QED
        BY <1>6, <3>1 DEF Unfolds
    <2>2. n \in Nat /\ x \in Data
      BY <1>0
    <2> HIDE DEF it, step, n
    <2> QED
      BY <1>2, <2>1, <2>2, FoldStages
  <1>9. ASSUME NEW k \in 1 .. n
        PROVE  g[k] = channel_add_member(g[k - 1], c, nickOf[SetToSeq(us)[k]], hosts[SetToSeq(us)[k]], Status(c, SetToSeq(us)[k]))
    <2>1. g[k - 1] \in Data
      <3>1. n \in Nat
        BY <1>0
      <3> HIDE DEF n, step, it
      <3> QED
        BY <3>1, <1>8 DEF Stages
    <2>2. g[k] = step[k][g[k - 1]]
      <3> HIDE DEF n, step, it
      <3> QED
        BY <1>8 DEF Stages
    <2> HIDE DEF n
    <2> QED
      BY <2>1, <2>2
  <1>10. g \in [0 .. n -> Data] /\ g[0] = x /\ g[n] = it[1 .. n]
    <2> HIDE DEF n, step, it
    <2> QED
      BY <1>8 DEF Stages
  <1> HIDE DEF it
  <1> QED
    BY <1>5, <1>9, <1>10


LEMMA ListedEffect ==
  ASSUME NEW x \in Data, NEW c \in Chans, NEW us \in SUBSET Users, Named(nickOf),
         \A u \in us : nickOf[u] \in Nicks, NEW hosts \in [Users -> Uhosts]
  PROVE  LET y == ListedAll(x, c, us, hosts)
         IN  /\ y \in Data /\ y.down = x.down /\ y.late = x.late
             /\ y.chan[c] = WithMembers(x.chan[c], y.chan[c].members)
             /\ Extended(x.chan[c].members, y.chan[c].members, us, hosts, c)
             /\ \A d \in Chans : d # c => y.chan[d] = x.chan[d]
             /\ \A u \in us : Refs(y, nickOf[u]) = Refs(x, nickOf[u]) + 1
             /\ \A n \in Nicks : (\A u \in us : n # nickOf[u]) => Refs(y, n) = Refs(x, n)
  <1> DEFINE s == SetToSeq(us)
             N == Len(s)
             l == x.chan[c].members
  <1>0. IsFiniteSet(us) /\ x.chan[c] \in Channel /\ l \in Seq(Member) /\ l = x.chan[c].members
    <2>1. IsFiniteSet(us)
      BY ChannelsAssumption, FS_Subset
    <2>2. x.chan[c] \in Channel
      BY DataFields
    <2> QED
      BY <2>1, <2>2, ChannelFields
  <1>1. PICK g \in [0 .. N -> Data] :
          /\ g[0] = x /\ ListedAll(x, c, us, hosts) = g[N]
          /\ \A k \in 1 .. N : g[k] = channel_add_member(g[k - 1], c, nickOf[s[k]], hosts[s[k]], Status(c, s[k]))
    BY <1>0, ListedStages
  <1>2. /\ N \in Nat /\ \A k \in 1 .. N : s[k] \in us
        /\ \A u \in us : \E k \in 1 .. N : s[k] = u
        /\ \A i, j \in 1 .. N : s[i] = s[j] => i = j
    <2>1. /\ s \in Seq(us) /\ N \in Nat
          /\ \A u \in us : \E k \in 1 .. N : s[k] = u
          /\ \A i, j \in 1 .. N : s[i] = s[j] => i = j
      BY <1>0, SetInSequence
    <2> HIDE DEF s
    <2>2. \A k \in 1 .. N : s[k] \in us
      BY <2>1
    <2> HIDE DEF N
    <2> QED
      BY <2>1, <2>2
  <1> HIDE DEF N, s, l
  <1> DEFINE Done(k) == {s[j] : j \in 1 .. k}
             Kept(k) ==
               /\ g[k].down = x.down /\ g[k].late = x.late
               /\ g[k].chan[c] = WithMembers(x.chan[c], g[k].chan[c].members)
               /\ Extended(l, g[k].chan[c].members, Done(k), hosts, c)
               /\ \A d \in Chans : d # c => g[k].chan[d] = x.chan[d]
               /\ \A u \in Done(k) : Refs(g[k], nickOf[u]) = Refs(x, nickOf[u]) + 1
               /\ \A n \in Nicks : (\A u \in Done(k) : n # nickOf[u]) => Refs(g[k], n) = Refs(x, n)
             A == {k \in 0 .. N : Kept(k)}
  <1>3. 0 \in A
    <2>1. Done(0) = {} /\ 1 .. 0 = {}
      OBVIOUS
    <2>2. Extended(l, l, {}, hosts, c)
      <3>1. NoTwice(l) => \A i \in 1 .. Len(l) : Placed(l, l[i], {}, hosts, c)
        BY DEF Placed
      <3> QED
        BY <1>0, <3>1 DEF Extended
    <2> HIDE DEF Done
    <2>3. x.chan[c] = WithMembers(x.chan[c], x.chan[c].members)
      BY <1>0, MembersTwice
    <2>4. Kept(0)
      BY <1>0, <1>1, <2>1, <2>2, <2>3
    <2> HIDE DEF Kept
    <2> QED
      BY <1>2, <2>4
  <1>4. ASSUME NEW k \in 0 .. N - 1, k \in A
        PROVE  k + 1 \in A
    <2> DEFINE u0 == s[k + 1]
               n0 == nickOf[u0]
               y == g[k]
               z == g[k + 1]
               m == y.chan[c].members
               r == Enter(m, n0, hosts[u0], Status(c, u0))
    <2>0. k + 1 \in 1 .. N /\ (k + 1) - 1 = k /\ k \in 0 .. N /\ k + 1 \in 0 .. N /\ k \in Nat
      BY <1>2
    <2>1. y \in Data /\ u0 \in us /\ Kept(k)
      BY <1>2, <1>4, <2>0
    <2>2. z = channel_add_member(y, c, n0, hosts[u0], Status(c, u0))
      BY <1>1, <2>0
    <2>3. Done(k + 1) = Done(k) \cup {u0} /\ u0 \notin Done(k) /\ Done(k) \in SUBSET us
      <3>1. 1 .. k + 1 = (1 .. k) \cup {k + 1}
        BY <2>0
      <3>2. \A j \in 1 .. k : j \in 1 .. N /\ j # k + 1
        BY <1>2, <2>0
      <3> QED
        BY <1>2, <2>0, <3>1, <3>2
    <2> HIDE DEF Done, u0, y, z
    <2>4. n0 \in Nicks /\ hosts[u0] \in Uhosts /\ Status(c, u0) \in Flags /\ u0 \in Users
      BY <2>1, StatusFlags
    <2> HIDE DEF n0
    <2>5. /\ z.down = y.down /\ z.late = y.late
          /\ z.chan[c] = WithMembers(y.chan[c], r)
          /\ \A d \in Chans : d # c => z.chan[d] = y.chan[d]
          /\ Refs(z, n0) = Refs(y, n0) + 1
          /\ \A n \in Nicks : n # n0 => Refs(z, n) = Refs(y, n)
      <3> HIDE DEF Kept
      <3> QED
        BY <2>1, <2>2, <2>4, AddMember
    <2>6. Extended(l, m, Done(k), hosts, c)
      BY <2>1 DEF y
    <2>7. Extended(l, r, Done(k) \cup {u0}, hosts, c)
      <3>1. Done(k) \in SUBSET Users
        BY <2>3
      <3> HIDE DEF Kept, m
      <3> QED
        BY <1>0, <2>3, <2>4, <2>6, <3>1, Extend DEF n0
    <2>8. m \in Seq(Member) /\ r \in Seq(Member)
      BY <2>6, <2>7 DEF Extended
    <2>9. z.chan[c] = WithMembers(x.chan[c], r) /\ z.chan[c].members = r
      <3>1. y.chan[c] = WithMembers(x.chan[c], m)
        BY <2>1 DEF y
      <3> HIDE DEF r, m, Kept
      <3>2. WithMembers(WithMembers(x.chan[c], m), r) = WithMembers(x.chan[c], r)
        BY <1>0, <2>8, MembersTwice
      <3>3. WithMembers(x.chan[c], r).members = r
        BY <1>0, <2>8, MembersFields
      <3> QED
        BY <2>5, <3>1, <3>2, <3>3
    <2> HIDE DEF r, m
    <2>10. \A u \in Done(k) : nickOf[u] # n0 /\ nickOf[u] \in Nicks
      BY <2>3, <2>4, ChannelsAssumption DEF Named, n0
    <2>11. /\ \A u \in Done(k) : Refs(y, nickOf[u]) = Refs(x, nickOf[u]) + 1
           /\ \A n \in Nicks : (\A u \in Done(k) : n # nickOf[u]) => Refs(y, n) = Refs(x, n)
      BY <2>1 DEF y
    <2>12. ASSUME NEW u \in Done(k + 1)
           PROVE  Refs(z, nickOf[u]) = Refs(x, nickOf[u]) + 1
      <3>1. CASE u = u0
        <4>1. Refs(y, n0) = Refs(x, n0) /\ nickOf[u] = n0
          BY <2>4, <2>10, <2>11, <3>1 DEF n0
        <4> QED
          BY <2>5, <4>1
      <3>2. CASE u \in Done(k)
        BY <2>5, <2>10, <2>11, <3>2
      <3> QED
        BY <2>3, <3>1, <3>2
    <2>13. ASSUME NEW n \in Nicks, \A u \in Done(k + 1) : n # nickOf[u]
           PROVE  Refs(z, n) = Refs(x, n)
      <3>1. n # n0 /\ \A u \in Done(k) : n # nickOf[u]
        BY <2>3, <2>13 DEF n0
      <3> QED
        BY <2>5, <2>11, <3>1
    <2>14. Kept(k + 1)
      <3>1. z.down = x.down /\ z.late = x.late /\ \A d \in Chans : d # c => z.chan[d] = x.chan[d]
        BY <2>1, <2>5 DEF y
      <3>2. Extended(l, z.chan[c].members, Done(k + 1), hosts, c)
        BY <2>3, <2>7, <2>9
      <3> QED
        BY <2>9, <2>12, <2>13, <3>1, <3>2 DEF z
    <2> HIDE DEF Kept
    <2> QED
      BY <2>0, <2>14
  <1>5. N \in A
    <2> HIDE DEF A
    <2>1. \A k \in 0 .. N : k \in A
      BY <1>2, <1>3, <1>4, UpTo
    <2> QED
      BY <1>2, <2>1
  <1>6. Done(N) = us
    BY <1>2
  <1>7. Kept(N) /\ g[N] \in Data
    BY <1>2, <1>5
  <1> HIDE DEF Done
  <1> QED
    BY <1>0, <1>1, <1>6, <1>7

-----------------------------------------------------------------------------
\* What each event leaves of Sound, for one channel.

Empty(ch) == ch.members = <<>> /\ ch.masks = <<>> /\ ch.loading = "null"

LEMMA SoundApart ==
  ASSUME NEW ch \in Channel, NEW os, Bot \notin os, NEW nk, NEW opped, NEW banned, NEW unknown
  PROVE  Sound(ch, os, nk, opped, banned, unknown) <=> ch.joined = 0 /\ (ch.stray = 0 => Empty(ch))
  BY ChannelFields DEF Sound, Settled, Reached, IsClear, Empty, Bit

LEMMA SoundJoined ==
  ASSUME NEW ch \in Channel, NEW os, Bot \in os, NEW nk, NEW opped, NEW banned, NEW unknown
  PROVE  Sound(ch, os, nk, opped, banned, unknown) <=>
           /\ ch.joined = 1 /\ ch.known = 1 /\ \A u \in os : nk[u] \in NicksIn(ch.members)
           /\ ch.stray = 0 => AllRight(ch.members, os, nk, opped, unknown) /\ Masked(ch, banned)
  BY DEF Sound, Settled, Reached, IsClear

\* Away from the channel nothing about it matters.
LEMMA Apart ==
  ASSUME NEW ch \in Channel, NEW os, NEW os2, Bot \notin os, Bot \notin os2,
         NEW nk, NEW opped, NEW banned, NEW unknown, Sound(ch, os, nk, opped, banned, unknown),
         NEW nk2, NEW opped2, NEW banned2, NEW unknown2
  PROVE  Sound(ch, os2, nk2, opped2, banned2, unknown2)
  BY SoundApart

LEMMA OfflineSound ==
  ASSUME NEW k \in Bit, NEW s \in Bit, NEW os, Bot \notin os, NEW nk, NEW opped, NEW banned, NEW unknown
  PROVE  Sound(Offline(k, s), os, nk, opped, banned, unknown)
  <1>1. Offline(k, s) \in Channel /\ Offline(k, s).joined = 0 /\ Empty(Offline(k, s))
    BY OfflineChannel DEF Empty
  <1> QED
    BY <1>1, SoundApart

\* A nick of somebody else changes, or requests are sent.
LEMMA Wider ==
  ASSUME NEW ch \in Channel, NEW os, NEW nk, NEW opped, NEW banned, NEW unknown,
         Sound(ch, os, nk, opped, banned, unknown),
         NEW nk2, \A u \in os : nk2[u] = nk[u], NEW unknown2, unknown \subseteq unknown2
  PROVE  Sound(ch, os, nk2, opped, banned, unknown2)
  <1>1. CASE Bot \notin os
    BY <1>1, Apart
  <1>2. CASE Bot \in os
    <2>1. \A m : Right(m, os, nk, opped, unknown) => Right(m, os, nk2, opped, unknown2)
      BY DEF Right
    <2>2. AllRight(ch.members, os, nk, opped, unknown) => AllRight(ch.members, os, nk2, opped, unknown2)
      BY <2>1 DEF AllRight
    <2>3. /\ ch.joined = 1 /\ ch.known = 1 /\ \A u \in os : nk[u] \in NicksIn(ch.members)
          /\ ch.stray = 0 => AllRight(ch.members, os, nk, opped, unknown) /\ Masked(ch, banned)
      BY <1>2, SoundJoined
    <2>4. \A u \in os : nk2[u] \in NicksIn(ch.members)
      BY <2>3
    <2> QED
      BY <1>2, <2>2, <2>3, <2>4, SoundJoined
  <1> QED
    BY <1>1, <1>2

\* Commands change what is known of a channel and that it is permanent.
WithFlags(ch, k, s) == [ch EXCEPT !.known = k, !.static = s]

LEMMA FlagsFields ==
  ASSUME NEW ch \in Channel, NEW k \in Bit, NEW s \in Bit
  PROVE  /\ WithFlags(ch, k, s) \in Channel
         /\ WithFlags(ch, k, s).known = k /\ WithFlags(ch, k, s).static = s
         /\ WithFlags(ch, k, s).joined = ch.joined /\ WithFlags(ch, k, s).stray = ch.stray
         /\ WithFlags(ch, k, s).members = ch.members /\ WithFlags(ch, k, s).masks = ch.masks
         /\ WithFlags(ch, k, s).loading = ch.loading
  BY DEF WithFlags, Channel

LEMMA FlagsSound ==
  ASSUME NEW ch \in Channel, NEW k \in Bit, NEW s \in Bit, ch.known = 1 => k = 1,
         NEW os, NEW nk, NEW opped, NEW banned, NEW unknown, Sound(ch, os, nk, opped, banned, unknown)
  PROVE  Sound(WithFlags(ch, k, s), os, nk, opped, banned, unknown)
  <1> DEFINE w == WithFlags(ch, k, s)
  <1>1. /\ w \in Channel /\ w.known = k /\ w.joined = ch.joined /\ w.stray = ch.stray
        /\ w.members = ch.members /\ w.masks = ch.masks /\ w.loading = ch.loading
    BY FlagsFields
  <1> HIDE DEF w
  <1>2. Masked(ch, banned) => Masked(w, banned)
    BY <1>1 DEF Masked
  <1>3. Sound(w, os, nk, opped, banned, unknown)
    BY <1>1, <1>2 DEF Sound, Settled, Reached, IsClear
  <1> QED
    BY <1>3 DEF w

\* Members of a channel with new ones in their place.
LEMMA MembersSound ==
  ASSUME NEW ch \in Channel, NEW l \in Seq(Member), NEW os, Bot \in os, NEW nk, NEW opped, NEW banned, NEW unknown,
         ch.joined = 1, ch.known = 1, \A u \in os : nk[u] \in NicksIn(l),
         ch.stray = 0 => AllRight(l, os, nk, opped, unknown) /\ Masked(ch, banned)
  PROVE  Sound(WithMembers(ch, l), os, nk, opped, banned, unknown)
  <1> DEFINE w == WithMembers(ch, l)
  <1>1. /\ w \in Channel /\ w.known = ch.known /\ w.joined = ch.joined /\ w.stray = ch.stray
        /\ w.members = l /\ w.masks = ch.masks /\ w.loading = ch.loading
    BY MembersFields
  <1> HIDE DEF w
  <1>2. Masked(ch, banned) => Masked(w, banned)
    BY <1>1 DEF Masked
  <1>3. Sound(w, os, nk, opped, banned, unknown)
    BY <1>1, <1>2, SoundJoined
  <1> QED
    BY <1>3 DEF w

LEMMA OtherJoins ==
  ASSUME NEW ch \in Channel, NEW os, Bot \in os, NEW nk, NEW opped, NEW banned, NEW unknown,
         Sound(ch, os, nk, opped, banned, unknown), Named(nk), There(nk, os, opped),
         NEW u \in Users, u \notin os, nk[u] \in Nicks
  PROVE  Sound(WithMembers(ch, Enter(ch.members, nk[u], u, {})), os \cup {u}, nk, opped, banned, unknown)
  <1> DEFINE n == nk[u]
             l == ch.members
             none == {}
             r == Enter(l, n, u, none)
             all == os \cup {u}
  <1>1. l \in Seq(Member) /\ u \in Uhosts /\ none \in Flags /\ n \in Nicks /\ n # NoNick
    BY ChannelFields, ChannelsAssumption DEF Uhosts, Flags
  <1>2. /\ ch.joined = 1 /\ ch.known = 1 /\ \A v \in os : nk[v] \in NicksIn(l)
        /\ ch.stray = 0 => AllRight(l, os, nk, opped, unknown) /\ Masked(ch, banned)
    BY SoundJoined
  <1>3. \A v \in os : nk[v] # n
    BY <1>1 DEF Named, There
  <1>4. u # Bot /\ u \notin opped
    BY DEF There
  <1> HIDE DEF n, l
  <1>5. /\ r \in Seq(Member) /\ NicksIn(r) = NicksIn(l) \cup {n}
        /\ NoTwice(l) =>
             /\ NoTwice(r)
             /\ \A i \in 1 .. Len(r) :
                  \/ Entered(l, n, u, none, r[i])
                  \/ r[i].nick # n /\ \E j \in 1 .. Len(l) : r[i] = l[j]
    <2> DEFINE made == Enter(l, n, u, none)
    <2> HIDE DEF none
    <2>1. made \in Seq(Member) /\ NicksIn(made) = NicksIn(l) \cup {n}
      BY <1>1, EnterList
    <2>2. NoTwice(l) => NoTwice(made)
      BY <1>1, EnterList
    <2>3. NoTwice(l) => \A i \in 1 .. Len(made) :
            \/ Entered(l, n, u, none, made[i])
            \/ made[i].nick # n /\ \E j \in 1 .. Len(l) : made[i] = l[j]
      BY <1>1, EnterList
    <2>4. r = made
      OBVIOUS
    <2> HIDE DEF r, made
    <2> QED
      BY <2>1, <2>2, <2>3, <2>4
  <1>6. \A v \in all : nk[v] \in NicksIn(r)
    BY <1>2, <1>5 DEF n
  <1>7. ASSUME ch.stray = 0
        PROVE  AllRight(r, all, nk, opped, unknown)
    <2> HIDE DEF r, all
    <2>1. NoTwice(l) /\ DOMAIN l = 1 .. Len(l) /\ DOMAIN r = 1 .. Len(r)
          /\ \A j \in DOMAIN l : Right(l[j], os, nk, opped, unknown)
      BY <1>1, <1>2, <1>5, <1>7 DEF AllRight
    <2>2. ASSUME NEW m \in Member, Entered(l, n, u, none, m)
          PROVE  Right(m, all, nk, opped, unknown)
      <3>1. n \notin NicksIn(l)
        <4> SUFFICES ASSUME NEW j \in DOMAIN l, l[j].nick = n
                     PROVE  FALSE
          BY DEF NicksIn
        <4> QED
          BY <1>3, <2>1 DEF Right
      <3>2. PICK m0 \in Member :
              /\ m0.nick = n
              /\ (m0 = NewMember(n) /\ n \notin NicksIn(l)) \/ \E j \in 1 .. Len(l) : m0 = l[j]
              /\ m.nick = n
              /\ m.uhost = IF m0.uhost = NoUhost THEN u ELSE m0.uhost
              /\ m.op = IF "op" \in none THEN 1 ELSE m0.op
              /\ m.bot = IF "bot" \in none THEN 1 ELSE m0.bot
        BY <2>2 DEF Entered
      <3>3. m0 = NewMember(n)
        BY <2>1, <3>1, <3>2 DEF NicksIn
      <3>4. m.nick = n /\ m.uhost = u /\ m.op = 0 /\ m.bot = 0
        <4>1. m0.uhost = NoUhost /\ m0.op = 0 /\ m0.bot = 0
          BY <1>1, <3>3, NewMemberFields
        <4>2. "op" \notin none /\ "bot" \notin none
          OBVIOUS
        <4> HIDE DEF none
        <4> QED
          BY <3>2, <4>1, <4>2
      <3>5. u \in all
        BY DEF all
      <3> QED
        BY <1>4, <3>4, <3>5 DEF Right, n
    <2>3. ASSUME NEW m, Right(m, os, nk, opped, unknown)
          PROVE  Right(m, all, nk, opped, unknown)
      BY <2>3 DEF Right, all
    <2>4. ASSUME NEW i \in 1 .. Len(r)
          PROVE  Right(r[i], all, nk, opped, unknown)
      <3>1. CASE Entered(l, n, u, none, r[i])
        <4>1. r[i] \in Member
          BY <1>5
        <4> QED
          BY <2>2, <3>1, <4>1
      <3>2. CASE \E j \in 1 .. Len(l) : r[i] = l[j]
        BY <2>1, <2>3, <3>2
      <3> QED
        BY <1>5, <2>1, <3>1, <3>2
    <2> QED
      BY <1>5, <2>1, <2>4 DEF AllRight
  <1> HIDE DEF r, all
  <1>8. Bot \in all
    BY DEF all
  <1>9. Sound(WithMembers(ch, r), all, nk, opped, banned, unknown)
    BY <1>2, <1>5, <1>6, <1>7, <1>8, MembersSound
  <1> QED
    BY <1>9 DEF r, all, n, l

LEMMA OtherLeaves ==
  ASSUME NEW ch \in Channel, NEW os, Bot \in os, NEW nk, NEW opped, NEW banned, NEW unknown,
         Sound(ch, os, nk, opped, banned, unknown), Named(nk), There(nk, os, opped),
         NEW u \in Users, u # Bot, nk[u] \in Nicks
  PROVE  Sound(Left(ch, nk[u]), os \ {u}, nk, opped \ {u}, banned, unknown)
  <1> DEFINE n == nk[u]
             l == ch.members
             r == RemoveAt(l, Place(l, n))
             rest == os \ {u}
             ops2 == opped \ {u}
  <1>1. l \in Seq(Member) /\ n # NoNick
    BY ChannelFields, ChannelsAssumption
  <1>2. /\ ch.joined = 1 /\ ch.known = 1 /\ \A v \in os : nk[v] \in NicksIn(l)
        /\ ch.stray = 0 => AllRight(l, os, nk, opped, unknown) /\ Masked(ch, banned)
    BY SoundJoined
  <1>3. \A v \in os : v # u => nk[v] # n
    BY <1>1 DEF Named, There
  <1>4. Bot \in rest
    OBVIOUS
  <1>5. \A m : Right(m, os, nk, opped, unknown) /\ m.nick # n => Right(m, rest, nk, ops2, unknown)
    BY DEF Right
  <1> HIDE DEF l
  <1>6. CASE Places(l, n) = {}
    <2>1. n \notin NicksIn(l)
      BY <1>1, <1>6, ListedPlaces
    <2>2. ASSUME ch.stray = 0
          PROVE  AllRight(l, rest, nk, ops2, unknown)
      <3>1. \A i \in DOMAIN l : l[i].nick # n
        BY <2>1 DEF NicksIn
      <3> HIDE DEF rest, ops2, n
      <3> QED
        BY <1>2, <1>5, <2>2, <3>1 DEF AllRight
    <2>3. \A v \in rest : nk[v] \in NicksIn(l)
      BY <1>2
    <2>4. Left(ch, n) = ch
      BY <1>6 DEF Left, l
    <2> HIDE DEF rest, ops2
    <2>5. Sound(ch, rest, nk, ops2, banned, unknown)
      BY <1>2, <1>4, <2>2, <2>3, SoundJoined DEF l
    <2> QED
      BY <2>4, <2>5 DEF rest, ops2
  <1>7. CASE Places(l, n) # {}
    <2> HIDE DEF n
    <2>1. /\ r \in Seq(Member)
          /\ NicksIn(l) \subseteq NicksIn(r) \cup {n}
          /\ \A i \in 1 .. Len(r) : \E j \in 1 .. Len(l) : r[i] = l[j]
          /\ NoTwice(l) => NoTwice(r) /\ n \notin NicksIn(r)
      BY <1>1, <1>7, MemberOut
    <2> HIDE DEF r, rest, ops2
    <2>2. \A v \in rest : nk[v] \in NicksIn(r)
      BY <1>2, <1>3, <2>1 DEF rest
    <2>3. ASSUME ch.stray = 0
          PROVE  AllRight(r, rest, nk, ops2, unknown)
      <3>1. /\ DOMAIN r = 1 .. Len(r) /\ DOMAIN l = 1 .. Len(l) /\ NoTwice(l)
            /\ \A j \in DOMAIN l : Right(l[j], os, nk, opped, unknown)
        BY <1>1, <1>2, <2>1, <2>3 DEF AllRight
      <3>2. \A i \in DOMAIN r : r[i].nick # n
        BY <2>1, <3>1 DEF NicksIn
      <3>3. \A i \in DOMAIN r : Right(r[i], os, nk, opped, unknown)
        BY <2>1, <3>1
      <3> QED
        BY <1>5, <2>1, <3>1, <3>2, <3>3 DEF AllRight
    <2>4. Left(ch, n) = WithMembers(ch, r)
      BY <1>2, <1>7 DEF Left, l, r
    <2>5. Sound(WithMembers(ch, r), rest, nk, ops2, banned, unknown)
      BY <1>2, <1>4, <2>1, <2>2, <2>3, MembersSound
    <2> QED
      BY <2>4, <2>5 DEF rest, ops2, n
  <1> QED
    BY <1>6, <1>7

\* Away from the channel the list is empty, or wrong already.
LEMMA ApartMembers ==
  ASSUME NEW ch \in Channel, NEW os, Bot \notin os, NEW nk, NEW opped, NEW banned, NEW unknown,
         Sound(ch, os, nk, opped, banned, unknown), NEW l \in Seq(Member), ch.members = <<>> => l = <<>>,
         NEW os2, Bot \notin os2, NEW nk2, NEW opped2, NEW banned2, NEW unknown2
  PROVE  Sound(WithMembers(ch, l), os2, nk2, opped2, banned2, unknown2)
  <1> DEFINE w == WithMembers(ch, l)
  <1>1. /\ w \in Channel /\ w.joined = ch.joined /\ w.stray = ch.stray
        /\ w.members = l /\ w.masks = ch.masks /\ w.loading = ch.loading
    BY MembersFields
  <1> HIDE DEF w
  <1>2. ch.joined = 0 /\ (ch.stray = 0 => Empty(ch))
    BY SoundApart
  <1>3. w.joined = 0 /\ (w.stray = 0 => Empty(w))
    BY <1>1, <1>2 DEF Empty
  <1>4. Sound(w, os2, nk2, opped2, banned2, unknown2)
    BY <1>1, <1>3, SoundApart
  <1> QED
    BY <1>4 DEF w

LEMMA LeaveApart ==
  ASSUME NEW ch \in Channel, NEW os, Bot \notin os, NEW nk, NEW opped, NEW banned, NEW unknown,
         Sound(ch, os, nk, opped, banned, unknown), NEW n,
         NEW os2, Bot \notin os2, NEW nk2, NEW opped2, NEW banned2, NEW unknown2
  PROVE  Sound(Left(ch, n), os2, nk2, opped2, banned2, unknown2)
  <1> DEFINE l == ch.members
             r == RemoveAt(l, Place(l, n))
  <1>1. CASE ch.known = 0 \/ Places(l, n) = {}
    <2>1. Left(ch, n) = ch
      BY <1>1 DEF Left
    <2> QED
      BY <2>1, Apart
  <1>2. CASE ~ (ch.known = 0 \/ Places(l, n) = {})
    <2>1. Left(ch, n) = WithMembers(ch, r)
      BY <1>2 DEF Left
    <2>2. l \in Seq(Member)
      BY ChannelFields
    <2>3. r \in Seq(Member)
      <3> HIDE DEF l
      <3> QED
        BY <1>2, <2>2, MemberOut
    <2>4. l # <<>>
      BY <1>2 DEF Places
    <2> HIDE DEF r
    <2>5. Sound(WithMembers(ch, r), os2, nk2, opped2, banned2, unknown2)
      BY <2>3, <2>4, ApartMembers
    <2> QED
      BY <2>1, <2>5
  <1> QED
    BY <1>1, <1>2

\* One field of the member of a nick changes.
LEMMA MemberChanged ==
  ASSUME NEW l \in Seq(Member), NEW p \in 1 .. Len(l), NEW m \in Member
  PROVE  LET r == [l EXCEPT ![p] = m]
         IN  /\ r \in Seq(Member) /\ Len(r) = Len(l) /\ DOMAIN r = 1 .. Len(l) /\ DOMAIN l = 1 .. Len(l)
             /\ \A i \in 1 .. Len(l) : r[i] = IF i = p THEN m ELSE l[i]
  OBVIOUS

\* channel_on_nick, for one channel.
Renamed(ch, old, new) ==
  IF Places(ch.members, old) = {} THEN ch
  ELSE [ch EXCEPT !.members[Place(ch.members, old)].nick = new]

\* Its member at p becomes m.
RenamedAt(ch, old, new, p, m) ==
  /\ p \in 1 .. Len(ch.members) /\ m \in Member
  /\ Renamed(ch, old, new) = WithMembers(ch, [ch.members EXCEPT ![p] = m])
  /\ ch.members[p].nick = old /\ m.nick = new /\ m.uhost = ch.members[p].uhost
  /\ m.op = ch.members[p].op /\ m.bot = ch.members[p].bot

LEMMA RenamedMembers ==
  ASSUME NEW ch \in Channel, NEW old, NEW new \in Nicks, Places(ch.members, old) # {}
  PROVE  \E p, m : RenamedAt(ch, old, new, p, m)
  <1> DEFINE l == ch.members
             p == Place(l, old)
             m == [l[p] EXCEPT !.nick = new]
  <1>1. l \in Seq(Member)
    BY ChannelFields
  <1>2. p \in 1 .. Len(l) /\ l[p].nick = old
    <2> HIDE DEF l
    <2> QED
      BY <1>1, PlaceFound DEF l
  <1>3. l[p] \in Member
    <2> HIDE DEF l, p
    <2> QED
      BY <1>1, <1>2
  <1>4. m \in Member /\ m.nick = new /\ m.uhost = l[p].uhost /\ m.op = l[p].op /\ m.bot = l[p].bot
    <2> DEFINE e == l[p]
    <2> HIDE DEF e
    <2>1. [e EXCEPT !.nick = new] \in Member
      BY <1>3 DEF Member, e
    <2>2. e \in Member
      BY <1>3 DEF e
    <2> DEFINE w == [e EXCEPT !.nick = new]
    <2>3. w.nick = new /\ w.uhost = e.uhost /\ w.op = e.op /\ w.bot = e.bot
      BY <2>2 DEF Member
    <2>4. m = w
      BY DEF e
    <2> HIDE DEF m, w
    <2> QED
      BY <2>1, <2>3, <2>4 DEF e, w
  <1>5. Renamed(ch, old, new) = WithMembers(ch, [l EXCEPT ![p] = m])
    BY DEF Renamed, WithMembers
  <1> HIDE DEF m
  <1>6. RenamedAt(ch, old, new, p, m)
    BY <1>2, <1>4, <1>5 DEF RenamedAt
  <1> QED
    BY <1>6

LEMMA RenamedChannel ==
  ASSUME NEW ch \in Channel, NEW old, NEW new \in Nicks
  PROVE  /\ Renamed(ch, old, new) \in Channel /\ Renamed(ch, old, new).stray = ch.stray
  <1>1. CASE Places(ch.members, old) = {}
    BY <1>1 DEF Renamed
  <1>2. CASE Places(ch.members, old) # {}
    <2>0. PICK p, m : RenamedAt(ch, old, new, p, m)
      BY <1>2, RenamedMembers
    <2>1. p \in 1 .. Len(ch.members) /\ m \in Member
          /\ Renamed(ch, old, new) = WithMembers(ch, [ch.members EXCEPT ![p] = m])
      BY <2>0 DEF RenamedAt
    <2>2. ch.members \in Seq(Member)
      BY ChannelFields
    <2>3. [ch.members EXCEPT ![p] = m] \in Seq(Member)
      BY <2>1, <2>2, MemberChanged
    <2> QED
      BY <2>1, <2>3, MembersFields
  <1> QED
    BY <1>1, <1>2

LEMMA Renames ==
  ASSUME NEW ch \in Channel, NEW os, Bot \in os, NEW nk, NEW opped, NEW banned, NEW unknown,
         Sound(ch, os, nk, opped, banned, unknown), Named(nk), There(nk, os, opped),
         NEW u \in Users, nk[u] \in Nicks, NEW new \in Nicks, \A v \in Users : nk[v] # new
  PROVE  Sound(Renamed(ch, nk[u], new), os, [nk EXCEPT ![u] = new], opped, banned, unknown)
  <1> DEFINE n == nk[u]
             l == ch.members
             nk2 == [nk EXCEPT ![u] = new]
  <1>1. l \in Seq(Member) /\ n # NoNick /\ os \in SUBSET Users
    BY ChannelFields, ChannelsAssumption DEF There
  <1>2. /\ ch.joined = 1 /\ ch.known = 1 /\ \A v \in os : nk[v] \in NicksIn(l)
        /\ ch.stray = 0 => AllRight(l, os, nk, opped, unknown) /\ Masked(ch, banned)
    BY SoundJoined
  <1>3. \A v \in os : v # u => nk[v] # n
    BY <1>1 DEF Named, There
  <1>4. \A v \in os : nk2[v] = IF v = u THEN new ELSE nk[v]
    BY <1>1 DEF Named
  <1>5. DOMAIN l = 1 .. Len(l)
    BY <1>1
  <1> HIDE DEF l, nk2
  <1>6. CASE Places(l, n) = {}
    <2>1. n \notin NicksIn(l)
      BY <1>1, <1>6, ListedPlaces
    <2>2. u \notin os
      BY <1>2, <2>1
    <2>3. \A v \in os : nk2[v] = nk[v]
      BY <1>4, <2>2
    <2>4. Renamed(ch, n, new) = ch
      BY <1>6 DEF Renamed, l
    <2>5. Sound(ch, os, nk2, opped, banned, unknown)
      BY <2>3, Wider
    <2> QED
      BY <2>4, <2>5 DEF nk2
  <1>7. CASE Places(l, n) # {}
    <2>0. PICK p, m : RenamedAt(ch, n, new, p, m)
      <3> HIDE DEF n
      <3> QED
        BY <1>7, RenamedMembers DEF l
    <2>1. /\ p \in 1 .. Len(l) /\ m \in Member
          /\ Renamed(ch, n, new) = WithMembers(ch, [l EXCEPT ![p] = m])
          /\ l[p].nick = n /\ m.nick = new /\ m.uhost = l[p].uhost
          /\ m.op = l[p].op /\ m.bot = l[p].bot
      BY <2>0 DEF l, RenamedAt
    <2> DEFINE r == [l EXCEPT ![p] = m]
    <2>2. /\ r \in Seq(Member) /\ Len(r) = Len(l) /\ DOMAIN r = 1 .. Len(l)
          /\ \A i \in 1 .. Len(l) : r[i] = IF i = p THEN m ELSE l[i]
      BY <1>1, <1>5, <2>1, MemberChanged
    <2> HIDE DEF r
    <2>3. ASSUME NEW v \in os
          PROVE  nk2[v] \in NicksIn(r)
      <3>1. CASE v = u
        BY <1>4, <2>1, <2>2, <3>1 DEF NicksIn
      <3>2. CASE v # u
        <4>1. PICK i \in 1 .. Len(l) : l[i].nick = nk[v]
          BY <1>2, <1>5 DEF NicksIn
        <4>2. i # p
          BY <1>3, <2>1, <3>2, <4>1
        <4>3. r[i].nick = nk2[v]
          BY <1>4, <2>2, <3>2, <4>1, <4>2
        <4> QED
          BY <2>2, <4>3 DEF NicksIn
      <3> QED
        BY <3>1, <3>2
    <2>4. ASSUME ch.stray = 0
          PROVE  AllRight(r, os, nk2, opped, unknown)
      <3>1. NoTwice(l) /\ \A i \in 1 .. Len(l) : Right(l[i], os, nk, opped, unknown)
        BY <1>2, <1>5, <2>4 DEF AllRight
      <3>2. \A i \in 1 .. Len(l) : i # p => l[i].nick # n /\ l[i].nick # new
        <4> SUFFICES ASSUME NEW i \in 1 .. Len(l), i # p
                     PROVE  l[i].nick # n /\ l[i].nick # new
          OBVIOUS
        <4>1. l[i].nick # n
          BY <1>5, <2>1, <3>1 DEF NoTwice
        <4>2. PICK v \in os : l[i].nick = nk[v]
          BY <3>1 DEF Right
        <4> QED
          BY <1>1, <4>1, <4>2
      <3>3. NoTwice(r)
        <4> SUFFICES ASSUME NEW i \in 1 .. Len(l), NEW j \in 1 .. Len(l), r[i].nick = r[j].nick
                     PROVE  i = j
          BY <2>2 DEF NoTwice
        <4>1. CASE i = p \/ j = p
          BY <2>1, <2>2, <3>2, <4>1
        <4>2. CASE i # p /\ j # p
          BY <1>5, <2>2, <3>1, <4>2 DEF NoTwice
        <4> QED
          BY <4>1, <4>2
      <3>4. ASSUME NEW i \in 1 .. Len(l)
            PROVE  Right(r[i], os, nk2, opped, unknown)
        <4>1. PICK v \in os :
                /\ l[i].nick = nk[v] /\ (l[i].op = 1 <=> v \in opped) /\ (l[i].bot = 1 <=> v = Bot)
                /\ l[i].uhost = v \/ l[i].uhost \in unknown
          BY <3>1 DEF Right
        <4>2. CASE i = p
          <5>1. v = u
            BY <1>3, <2>1, <4>1, <4>2
          <5> QED
            BY <1>4, <2>1, <2>2, <4>1, <4>2, <5>1 DEF Right
        <4>3. CASE i # p
          <5>1. v # u
            BY <3>2, <4>1, <4>3
          <5> QED
            BY <1>4, <2>2, <4>1, <4>3, <5>1 DEF Right
        <4> QED
          BY <4>2, <4>3
      <3> QED
        BY <2>2, <3>3, <3>4 DEF AllRight
    <2>5. Sound(WithMembers(ch, r), os, nk2, opped, banned, unknown)
      BY <1>2, <2>2, <2>3, <2>4, MembersSound
    <2> QED
      BY <2>1, <2>5 DEF nk2, r
  <1> QED
    BY <1>6, <1>7

LEMMA RenamedApart ==
  ASSUME NEW ch \in Channel, NEW os, Bot \notin os, NEW nk, NEW opped, NEW banned, NEW unknown,
         Sound(ch, os, nk, opped, banned, unknown), NEW old, NEW new \in Nicks, NEW nk2
  PROVE  Sound(Renamed(ch, old, new), os, nk2, opped, banned, unknown)
  <1> DEFINE l == ch.members
  <1>1. CASE Places(l, old) = {}
    <2>1. Renamed(ch, old, new) = ch
      BY <1>1 DEF Renamed
    <2> QED
      BY <2>1, Apart
  <1>2. CASE Places(l, old) # {}
    <2>0. PICK p, m : RenamedAt(ch, old, new, p, m)
      BY <1>2, RenamedMembers
    <2>1. p \in 1 .. Len(l) /\ m \in Member
          /\ Renamed(ch, old, new) = WithMembers(ch, [l EXCEPT ![p] = m])
      BY <2>0 DEF RenamedAt
    <2>2. l \in Seq(Member)
      BY ChannelFields
    <2> DEFINE r == [l EXCEPT ![p] = m]
    <2>3. r \in Seq(Member) /\ l # <<>>
      <3> HIDE DEF l
      <3> QED
        BY <2>1, <2>2, MemberChanged
    <2> HIDE DEF r
    <2>4. Sound(WithMembers(ch, r), os, nk2, opped, banned, unknown)
      BY <2>3, ApartMembers
    <2> QED
      BY <2>1, <2>4 DEF r
  <1> QED
    BY <1>1, <1>2

\* mode_o, for one channel.
OpSet(ch, n, plus) == [ch EXCEPT !.members[Place(ch.members, n)].op = plus]

LEMMA ModeSound ==
  ASSUME NEW ch \in Channel, NEW os, Bot \in os, NEW nk, NEW opped, NEW banned, NEW unknown,
         Sound(ch, os, nk, opped, banned, unknown), Named(nk), There(nk, os, opped),
         NEW u \in os, NEW plus \in Bit, NEW ops2, plus = 1 <=> u \in ops2,
         \A v : v # u => (v \in ops2 <=> v \in opped)
  PROVE  /\ ch.known = 1 /\ Places(ch.members, nk[u]) # {}
         /\ OpSet(ch, nk[u], plus) \in Channel /\ OpSet(ch, nk[u], plus).stray = ch.stray
         /\ Sound(OpSet(ch, nk[u], plus), os, nk, ops2, banned, unknown)
  <1> DEFINE n == nk[u]
             l == ch.members
             p == Place(l, n)
             m == [l[p] EXCEPT !.op = plus]
             r == [l EXCEPT ![p] = m]
  <1>1. l \in Seq(Member) /\ n \in Nicks /\ n # NoNick /\ DOMAIN l = 1 .. Len(l) /\ os \in SUBSET Users
    <2>1. ch.members \in Seq(Member) /\ nk[u] \in Nicks /\ nk[u] # NoNick /\ os \in SUBSET Users
      BY ChannelFields, ChannelsAssumption DEF There
    <2> HIDE DEF n
    <2> QED
      BY <2>1 DEF n
  <1>2. /\ ch.joined = 1 /\ ch.known = 1 /\ \A v \in os : nk[v] \in NicksIn(l)
        /\ ch.stray = 0 => AllRight(l, os, nk, opped, unknown) /\ Masked(ch, banned)
    BY SoundJoined
  <1>3. \A v \in os : v # u => nk[v] # n
    BY <1>1 DEF Named
  <1> HIDE DEF l
  <1>4. Places(l, n) # {}
    <2>1. n \in NicksIn(l)
      BY <1>2
    <2> HIDE DEF n
    <2> QED
      BY <1>1, <2>1, ListedPlaces
  <1>5. p \in 1 .. Len(l) /\ l[p].nick = n
    <2> HIDE DEF n
    <2> QED
      BY <1>1, <1>4, PlaceFound
  <1> HIDE DEF n, p
  <1>6. /\ m \in Member /\ m.nick = n /\ m.op = plus /\ m.bot = l[p].bot /\ m.uhost = l[p].uhost
    <2> DEFINE e == l[p]
    <2>1. e \in Member /\ e.nick = n
      BY <1>1, <1>5
    <2> HIDE DEF e
    <2> DEFINE w == [e EXCEPT !.op = plus]
    <2>2. w \in Member /\ w.nick = e.nick /\ w.op = plus /\ w.bot = e.bot /\ w.uhost = e.uhost
      BY <2>1 DEF Member
    <2>3. m = w
      BY DEF e
    <2> HIDE DEF m, w
    <2> QED
      BY <2>1, <2>2, <2>3 DEF e
  <1>7. OpSet(ch, n, plus) = WithMembers(ch, r)
    BY DEF OpSet, WithMembers, l, p
  <1> HIDE DEF m
  <1>8. /\ r \in Seq(Member) /\ Len(r) = Len(l) /\ NicksIn(r) = NicksIn(l) /\ (NoTwice(l) => NoTwice(r))
        /\ \A i \in 1 .. Len(l) : r[i] = IF i = p THEN m ELSE l[i]
    BY <1>1, <1>5, <1>6, Replaced
  <1> HIDE DEF r
  <1>9. ASSUME ch.stray = 0
        PROVE  AllRight(r, os, nk, ops2, unknown)
    <2>1. NoTwice(l) /\ DOMAIN r = 1 .. Len(l) /\ \A i \in 1 .. Len(l) : Right(l[i], os, nk, opped, unknown)
      BY <1>1, <1>2, <1>8, <1>9 DEF AllRight
    <2>2. ASSUME NEW i \in 1 .. Len(l)
          PROVE  Right(r[i], os, nk, ops2, unknown)
      <3>1. PICK v \in os :
              /\ l[i].nick = nk[v] /\ (l[i].op = 1 <=> v \in opped) /\ (l[i].bot = 1 <=> v = Bot)
              /\ l[i].uhost = v \/ l[i].uhost \in unknown
        BY <2>1 DEF Right
      <3>2. CASE i = p
        <4>1. v = u
          BY <1>3, <1>5, <3>1, <3>2
        <4> QED
          BY <1>5, <1>6, <1>8, <3>1, <3>2, <4>1 DEF Right
      <3>3. CASE i # p
        <4>1. v # u
          BY <1>1, <1>5, <2>1, <3>1, <3>3 DEF NoTwice, n
        <4> QED
          BY <1>8, <3>1, <3>3, <4>1 DEF Right
      <3> QED
        BY <3>2, <3>3
    <2> QED
      BY <1>8, <2>1, <2>2 DEF AllRight
  <1>10. Sound(WithMembers(ch, r), os, nk, ops2, banned, unknown)
    BY <1>2, <1>8, <1>9, MembersSound
  <1>11. WithMembers(ch, r) \in Channel /\ WithMembers(ch, r).stray = ch.stray
    BY <1>8, MembersFields
  <1> QED
    BY <1>2, <1>4, <1>7, <1>10, <1>11 DEF l, n

\* Other masks, and the state of the lists.
WithMasks(ch, l, loading) == [ch EXCEPT !.masks = l, !.loading = loading]

LEMMA MasksFields ==
  ASSUME NEW ch \in Channel, NEW l \in Seq(Masks), NEW loading \in {"null", "no", "yes"}
  PROVE  /\ WithMasks(ch, l, loading) \in Channel
         /\ WithMasks(ch, l, loading).masks = l /\ WithMasks(ch, l, loading).loading = loading
         /\ WithMasks(ch, l, loading).known = ch.known /\ WithMasks(ch, l, loading).static = ch.static
         /\ WithMasks(ch, l, loading).joined = ch.joined /\ WithMasks(ch, l, loading).stray = ch.stray
         /\ WithMasks(ch, l, loading).members = ch.members
  BY DEF WithMasks, Channel

LEMMA MasksKept ==
  ASSUME NEW ch \in Channel, NEW os, Bot \in os, NEW nk, NEW opped, NEW banned, NEW unknown,
         Sound(ch, os, nk, opped, banned, unknown), NEW l \in Seq(Masks), NEW loading \in {"null", "no", "yes"},
         NEW banned2,
         ch.stray = 0 /\ Masked(ch, banned) =>
           loading # "yes" /\ Once(l) /\ \A i \in DOMAIN l : l[i] \in banned2
  PROVE  Sound(WithMasks(ch, l, loading), os, nk, opped, banned2, unknown)
  <1> DEFINE w == WithMasks(ch, l, loading)
  <1>1. /\ w \in Channel /\ w.masks = l /\ w.loading = loading
        /\ w.known = ch.known /\ w.joined = ch.joined /\ w.stray = ch.stray /\ w.members = ch.members
    BY MasksFields
  <1> HIDE DEF w
  <1>2. /\ ch.joined = 1 /\ ch.known = 1 /\ \A v \in os : nk[v] \in NicksIn(ch.members)
        /\ ch.stray = 0 => AllRight(ch.members, os, nk, opped, unknown) /\ Masked(ch, banned)
    BY SoundJoined
  <1>3. ch.stray = 0 => Masked(w, banned2)
    BY <1>1, <1>2 DEF Masked
  <1>4. Sound(w, os, nk, opped, banned2, unknown)
    BY <1>1, <1>2, <1>3, SoundJoined
  <1> QED
    BY <1>4 DEF w

Listing(ch) == IF ch.loading = "null" THEN "no" ELSE ch.loading

LEMMA BanSet ==
  ASSUME NEW ch \in Channel, NEW os, Bot \in os, NEW nk, NEW opped, NEW banned, NEW unknown,
         Sound(ch, os, nk, opped, banned, unknown), NEW m \in Masks, m \notin banned
  PROVE  /\ WithMasks(ch, <<m>> \o ch.masks, Listing(ch)) \in Channel
         /\ Sound(WithMasks(ch, <<m>> \o ch.masks, Listing(ch)), os, nk, opped, banned \cup {m}, unknown)
  <1> DEFINE k == ch.masks
             l == <<m>> \o k
             loading == Listing(ch)
             banned2 == banned \cup {m}
  <1>1. k \in Seq(Masks) /\ loading \in {"null", "no", "yes"}
    BY ChannelFields DEF Listing
  <1>2. l \in Seq(Masks) /\ Len(l) = Len(k) + 1 /\ l[1] = m /\ \A i \in 2 .. Len(k) + 1 : l[i] = k[i - 1]
    <2> HIDE DEF k
    <2> QED
      BY <1>1
  <1>3. ASSUME Masked(ch, banned)
        PROVE  loading # "yes" /\ Once(l) /\ \A i \in DOMAIN l : l[i] \in banned2
    <2>1. ch.loading # "yes" /\ Once(k) /\ \A i \in DOMAIN k : k[i] \in banned
      BY <1>3 DEF Masked
    <2>2. loading # "yes"
      BY <2>1 DEF Listing
    <2>3. DOMAIN k = 1 .. Len(k) /\ Len(k) \in Nat /\ DOMAIN l = 1 .. Len(k) + 1
      <3> HIDE DEF l, k
      <3> QED
        BY <1>1, <1>2
    <2> HIDE DEF l, k, loading
    <2>4. \A i \in 1 .. Len(k) + 1 : i = 1 \/ (i \in 2 .. Len(k) + 1 /\ i - 1 \in 1 .. Len(k))
      BY <2>3
    <2>5. \A i \in 2 .. Len(k) + 1 : l[i] \in banned /\ l[i] # m
      BY <1>2, <2>1, <2>3, <2>4
    <2>6. \A i \in 1 .. Len(k) + 1 : l[i] \in banned2
      BY <1>2, <2>4, <2>5
    <2>7. ASSUME NEW i \in 1 .. Len(k) + 1, NEW j \in 1 .. Len(k) + 1, l[i] = l[j]
          PROVE  i = j
      <3>1. CASE i = 1 \/ j = 1
        BY <1>2, <2>4, <2>5, <2>7, <3>1
      <3>2. CASE i # 1 /\ j # 1
        <4>1. i - 1 = j - 1
          BY <1>2, <2>1, <2>3, <2>4, <2>7, <3>2 DEF Once
        <4> QED
          BY <4>1
      <3> QED
        BY <3>1, <3>2
    <2> QED
      BY <2>2, <2>3, <2>6, <2>7 DEF Once
  <1> HIDE DEF l, loading, banned2
  <1>4. WithMasks(ch, l, loading) \in Channel
    BY <1>1, <1>2, MasksFields
  <1>5. Sound(WithMasks(ch, l, loading), os, nk, opped, banned2, unknown)
    BY <1>1, <1>2, <1>3, MasksKept
  <1> QED
    BY <1>4, <1>5 DEF l, loading, banned2

\* channel_del_mask, for the list of masks.
Unmasked(l, m) ==
  LET found == {i \in DOMAIN l : l[i] = m}
      first == CHOOSE i \in found : \A j \in found : i =< j
  IN  IF found = {} THEN l ELSE RemoveAt(l, first)

LEMMA UnmaskedList ==
  ASSUME NEW l \in Seq(Masks), NEW m
  PROVE  /\ Unmasked(l, m) \in Seq(Masks)
         /\ Once(l) => /\ Once(Unmasked(l, m))
                       /\ \A i \in DOMAIN Unmasked(l, m) : Unmasked(l, m)[i] # m /\ \E j \in DOMAIN l : Unmasked(l, m)[i] = l[j]
  <1> DEFINE found == {i \in DOMAIN l : l[i] = m}
             first == CHOOSE i \in found : \A j \in found : i =< j
             r == RemoveAt(l, first)
  <1>1. DOMAIN l = 1 .. Len(l) /\ Len(l) \in Nat
    OBVIOUS
  <1>2. CASE found = {}
    <2>1. Unmasked(l, m) = l
      BY <1>2 DEF Unmasked
    <2> QED
      BY <1>2, <2>1
  <1>3. CASE found # {}
    <2>1. Unmasked(l, m) = r
      BY <1>3 DEF Unmasked
    <2>2. first \in found
      <3>1. found \in SUBSET Nat
        BY <1>1
      <3> HIDE DEF found
      <3>2. \E i \in found : \A j \in found : i =< j
        BY <1>3, <3>1, LeastNat
      <3> QED
        BY <3>2
    <2>3. first \in 1 .. Len(l) /\ l[first] = m
      BY <1>1, <2>2
    <2> HIDE DEF first
    <2>4. /\ r \in Seq(Masks) /\ Len(r) = Len(l) - 1
          /\ \A j \in 1 .. Len(l) - 1 : r[j] = IF j < first THEN l[j] ELSE l[j + 1]
      BY <2>3, RemoveAtProperties
    <2> HIDE DEF r
    <2> DEFINE from(j) == IF j < first THEN j ELSE j + 1
    <2>5. \A j \in 1 .. Len(r) : from(j) \in 1 .. Len(l) /\ from(j) # first /\ r[j] = l[from(j)]
      BY <1>1, <2>3, <2>4
    <2>6. \A i, j \in 1 .. Len(r) : from(i) = from(j) => i = j
      BY <1>1, <2>3, <2>4
    <2> HIDE DEF from
    <2>7. DOMAIN r = 1 .. Len(r)
      BY <2>4
    <2>8. ASSUME Once(l)
          PROVE  Once(r) /\ \A i \in DOMAIN r : r[i] # m /\ \E j \in DOMAIN l : r[i] = l[j]
      <3>1. \A i, j \in DOMAIN l : l[i] = l[j] => i = j
        BY <2>8 DEF Once
      <3>2. \A i, j \in 1 .. Len(r) : r[i] = r[j] => i = j
        BY <1>1, <2>5, <2>6, <3>1
      <3>3. \A i \in 1 .. Len(r) : r[i] # m /\ \E j \in DOMAIN l : r[i] = l[j]
        BY <1>1, <2>3, <2>5, <3>1
      <3> QED
        BY <2>7, <3>2, <3>3 DEF Once
    <2> QED
      BY <2>1, <2>4, <2>8
  <1> QED
    BY <1>2, <1>3

LEMMA BanRemoved ==
  ASSUME NEW ch \in Channel, NEW os, Bot \in os, NEW nk, NEW opped, NEW banned, NEW unknown,
         Sound(ch, os, nk, opped, banned, unknown), NEW m \in Masks
  PROVE  /\ WithMasks(ch, Unmasked(ch.masks, m), Listing(ch)) \in Channel
         /\ Sound(WithMasks(ch, Unmasked(ch.masks, m), Listing(ch)), os, nk, opped, banned \ {m}, unknown)
  <1> DEFINE k == ch.masks
             l == Unmasked(k, m)
             loading == Listing(ch)
             banned2 == banned \ {m}
  <1>1. k \in Seq(Masks) /\ loading \in {"null", "no", "yes"}
    BY ChannelFields DEF Listing
  <1>2. l \in Seq(Masks)
    <2> HIDE DEF k
    <2> QED
      BY <1>1, UnmaskedList
  <1>3. ASSUME Masked(ch, banned)
        PROVE  loading # "yes" /\ Once(l) /\ \A i \in DOMAIN l : l[i] \in banned2
    <2>1. ch.loading # "yes" /\ Once(k) /\ \A i \in DOMAIN k : k[i] \in banned
      BY <1>3 DEF Masked
    <2>2. loading # "yes"
      BY <2>1 DEF Listing
    <2>3. Once(l) /\ \A i \in DOMAIN l : l[i] # m /\ \E j \in DOMAIN k : l[i] = k[j]
      <3> HIDE DEF k
      <3> QED
        BY <1>1, <2>1, UnmaskedList
    <2> HIDE DEF l, k, loading
    <2> QED
      BY <2>1, <2>2, <2>3
  <1> HIDE DEF l, loading, banned2
  <1>4. WithMasks(ch, l, loading) \in Channel
    BY <1>1, <1>2, MasksFields
  <1>5. Sound(WithMasks(ch, l, loading), os, nk, opped, banned2, unknown)
    BY <1>1, <1>2, <1>3, MasksKept
  <1> QED
    BY <1>4, <1>5 DEF l, loading, banned2

\* What an answer to WHO leaves of a joined channel.
LEMMA HostsTold ==
  ASSUME NEW c \in Chans, NEW os, NEW l \in Seq(Member), NEW m, NEW unknown \in SUBSET {NoUhost},
         Named(nickOf), There(nickOf, os, ops[c]), \A u \in os : nickOf[u] \in NicksIn(l),
         AllRight(l, os, nickOf, ops[c], unknown), Extended(l, m, os, [u \in Users |-> u], c)
  PROVE  AllRight(m, os, nickOf, ops[c], {})
  <1> DEFINE hosts == [u \in Users |-> u]
  <1>1. /\ os \in SUBSET Users /\ \A u \in os : hosts[u] = u /\ nickOf[u] # NoNick
    BY ChannelsAssumption DEF There
  <1> HIDE DEF hosts
  <1>0. \A u, v \in os : nickOf[u] = nickOf[v] => u = v
    BY <1>1 DEF Named
  <1>2. /\ NoTwice(l) /\ DOMAIN l = 1 .. Len(l) /\ \A j \in 1 .. Len(l) : Right(l[j], os, nickOf, ops[c], unknown)
    BY DEF AllRight
  <1>3. /\ m \in Seq(Member) /\ NoTwice(m) /\ \A i \in 1 .. Len(m) : Placed(l, m[i], os, hosts, c)
    BY <1>2 DEF Extended, hosts
  <1>4. ASSUME NEW i \in 1 .. Len(m)
        PROVE  Right(m[i], os, nickOf, ops[c], {})
    <2> DEFINE e == m[i]
    <2>1. Placed(l, e, os, hosts, c)
      BY <1>3
    <2> HIDE DEF e
    <2>2. ~ ((\E j \in 1 .. Len(l) : e = l[j]) /\ \A u \in os : e.nick # nickOf[u])
      BY <1>2 DEF Right
    <2>3. PICK u \in os : Entered(l, nickOf[u], hosts[u], Status(c, u), e)
      BY <2>1, <2>2 DEF Placed
    <2>4. PICK m0 \in Member :
            /\ m0.nick = nickOf[u]
            /\ (m0 = NewMember(nickOf[u]) /\ nickOf[u] \notin NicksIn(l)) \/ \E j \in 1 .. Len(l) : m0 = l[j]
            /\ e.nick = nickOf[u]
            /\ e.uhost = IF m0.uhost = NoUhost THEN u ELSE m0.uhost
            /\ e.op = IF "op" \in Status(c, u) THEN 1 ELSE m0.op
            /\ e.bot = IF "bot" \in Status(c, u) THEN 1 ELSE m0.bot
      BY <1>1, <2>3 DEF Entered
    <2>5. ("op" \in Status(c, u) <=> u \in ops[c]) /\ "bot" \notin Status(c, u)
      BY DEF Status
    <2>6. CASE \E j \in 1 .. Len(l) : m0 = l[j]
      <3>1. PICK v \in os :
              /\ m0.nick = nickOf[v] /\ (m0.op = 1 <=> v \in ops[c]) /\ (m0.bot = 1 <=> v = Bot)
              /\ m0.uhost = v \/ m0.uhost \in unknown
        BY <1>2, <2>6 DEF Right
      <3>2. v = u
        BY <1>0, <2>4, <3>1
      <3>3. e.uhost = u
        BY <2>4, <3>1, <3>2
      <3>4. e.op = 1 <=> u \in ops[c]
        BY <2>4, <2>5, <3>1, <3>2
      <3>5. e.bot = 1 <=> u = Bot
        BY <2>4, <2>5, <3>1, <3>2
      <3> QED
        BY <2>4, <3>3, <3>4, <3>5 DEF Right, e
    <2> QED
      BY <2>4, <2>6
  <1> QED
    BY <1>3, <1>4 DEF AllRight

\* The bot's JOIN and the names that come with it.
WithJoin(ch, l) ==
  [ch EXCEPT !.known = 1, !.members = l, !.joined = 1, !.loading = IF @ = "null" THEN @ ELSE "yes"]

LEMMA JoinFields ==
  ASSUME NEW ch \in Channel, NEW l \in Seq(Member)
  PROVE  /\ WithJoin(ch, l) \in Channel
         /\ WithJoin(ch, l).known = 1 /\ WithJoin(ch, l).joined = 1 /\ WithJoin(ch, l).members = l
         /\ WithJoin(ch, l).loading = (IF ch.loading = "null" THEN "null" ELSE "yes")
         /\ WithJoin(ch, l).static = ch.static /\ WithJoin(ch, l).stray = ch.stray
         /\ WithJoin(ch, l).masks = ch.masks
  BY DEF WithJoin, Channel, Bit

LEMMA NamesTold ==
  ASSUME NEW c \in Chans, NEW os, Bot \in os, NEW m,
         Named(nickOf), There(nickOf, os, ops[c]), Bot \notin ops[c],
         Extended(Enter(<<>>, me, Bot, {"bot"}), m, os, [u \in Users |-> NoUhost], c)
  PROVE  AllRight(m, os, nickOf, ops[c], {NoUhost})
  <1> DEFINE hosts == [u \in Users |-> NoUhost]
             flags == {"bot"}
             none == <<>>
             bn == nickOf[Bot]
             l == Enter(none, bn, Bot, flags)
  <1>1. /\ os \in SUBSET Users /\ \A u \in os : hosts[u] = NoUhost /\ nickOf[u] # NoNick /\ nickOf[u] \in Nicks
        /\ bn \in Nicks /\ Bot \in Uhosts /\ flags \in Flags /\ Bot # NoUhost
    <2>1. os \in SUBSET Users /\ \A u \in os : hosts[u] = NoUhost /\ nickOf[u] # NoNick /\ nickOf[u] \in Nicks
      BY ChannelsAssumption DEF There
    <2>2. Bot \in Uhosts /\ flags \in Flags /\ Bot # NoUhost
      BY ChannelsAssumption DEF Uhosts, Flags
    <2> QED
      BY <2>1, <2>2
  <1>0. \A u, v \in os : nickOf[u] = nickOf[v] => u = v
    BY <1>1 DEF Named
  <1>2. "bot" \in flags /\ "op" \notin flags
    OBVIOUS
  <1>3. none \in Seq(Member) /\ NoTwice(none) /\ Len(none) = 0 /\ NicksIn(none) = {}
    BY DEF NoTwice, NicksIn
  <1>4. Extended(l, m, os, hosts, c)
    BY DEF me
  <1> HIDE DEF hosts, flags, none, bn
  <1>5. l \in Seq(Member) /\ NicksIn(l) = NicksIn(none) \cup {bn}
    <2>0. none \in Seq(Member) /\ bn \in Nicks /\ Bot \in Uhosts /\ flags \in Flags
      BY <1>1, <1>3
    <2>1. l \in Seq(Member)
      BY <2>0, EnterList
    <2>2. NicksIn(l) = NicksIn(none) \cup {bn}
      BY <2>0, EnterList
    <2> QED
      BY <2>1, <2>2
  <1>6. NoTwice(l)
    BY <1>1, <1>3, EnterList
  <1>7. \A i \in 1 .. Len(l) : Entered(none, bn, Bot, flags, l[i])
    <2>1. \A i \in 1 .. Len(l) :
            Entered(none, bn, Bot, flags, l[i]) \/ (l[i].nick # bn /\ \E j \in 1 .. Len(none) : l[i] = none[j])
      <3>1. none \in Seq(Member) /\ bn \in Nicks /\ Bot \in Uhosts /\ flags \in Flags /\ NoTwice(none)
        BY <1>1, <1>3
      <3> QED
        BY <3>1, EnterList
    <2>2. ~ \E j \in 1 .. Len(none) : TRUE
      BY <1>3
    <2> QED
      BY <2>1, <2>2
  <1> HIDE DEF l
  <1>8. ASSUME NEW j \in 1 .. Len(l)
        PROVE  l[j].nick = bn /\ l[j].uhost = Bot /\ l[j].op = 0 /\ l[j].bot = 1
    <2>1. PICK m0 \in Member :
            /\ m0.nick = bn
            /\ (m0 = NewMember(bn) /\ bn \notin NicksIn(none)) \/ \E k \in 1 .. Len(none) : m0 = none[k]
            /\ l[j].nick = bn
            /\ l[j].uhost = IF m0.uhost = NoUhost THEN Bot ELSE m0.uhost
            /\ l[j].op = IF "op" \in flags THEN 1 ELSE m0.op
            /\ l[j].bot = IF "bot" \in flags THEN 1 ELSE m0.bot
      BY <1>7 DEF Entered
    <2>2. m0 = NewMember(bn)
      BY <1>3, <2>1
    <2>3. m0.uhost = NoUhost /\ m0.op = 0
      BY <1>1, <2>2, NewMemberFields
    <2> QED
      BY <1>2, <2>1, <2>3
  <1>9. /\ m \in Seq(Member) /\ NoTwice(m) /\ \A i \in 1 .. Len(m) : Placed(l, m[i], os, hosts, c)
    BY <1>4, <1>6 DEF Extended
  <1>10. ASSUME NEW i \in 1 .. Len(m)
         PROVE  Right(m[i], os, nickOf, ops[c], {NoUhost})
    <2> DEFINE e == m[i]
    <2>1. Placed(l, e, os, hosts, c)
      BY <1>9
    <2> HIDE DEF e
    <2>2. PICK u \in os : Entered(l, nickOf[u], hosts[u], Status(c, u), e)
      <3>1. \A j \in 1 .. Len(l) : l[j].nick = nickOf[Bot]
        BY <1>8 DEF bn
      <3> QED
        BY <2>1, <3>1 DEF Placed
    <2>3. PICK m0 \in Member :
            /\ m0.nick = nickOf[u]
            /\ (m0 = NewMember(nickOf[u]) /\ nickOf[u] \notin NicksIn(l)) \/ \E j \in 1 .. Len(l) : m0 = l[j]
            /\ e.nick = nickOf[u]
            /\ e.uhost = IF m0.uhost = NoUhost THEN NoUhost ELSE m0.uhost
            /\ e.op = IF "op" \in Status(c, u) THEN 1 ELSE m0.op
            /\ e.bot = IF "bot" \in Status(c, u) THEN 1 ELSE m0.bot
      BY <1>1, <2>2 DEF Entered
    <2>4. ("op" \in Status(c, u) <=> u \in ops[c]) /\ "bot" \notin Status(c, u)
      BY DEF Status
    <2>5. CASE \E j \in 1 .. Len(l) : m0 = l[j]
      <3>1. m0.nick = bn /\ m0.uhost = Bot /\ m0.op = 0 /\ m0.bot = 1
        BY <1>8, <2>5
      <3>2. u = Bot
        BY <1>0, <2>3, <3>1 DEF bn
      <3>3. e.uhost = Bot /\ e.op = 0 /\ e.bot = 1
        BY <1>1, <2>3, <2>4, <3>1, <3>2
      <3> QED
        BY <2>3, <3>2, <3>3 DEF Right, e
    <2>6. CASE m0 = NewMember(nickOf[u]) /\ nickOf[u] \notin NicksIn(l)
      <3>1. u # Bot
        BY <1>5, <2>6 DEF bn
      <3>2. m0.uhost = NoUhost /\ m0.op = 0 /\ m0.bot = 0
        BY <1>1, <2>6, NewMemberFields
      <3>3. e.uhost = NoUhost /\ (e.op = 1 <=> u \in ops[c]) /\ e.bot = 0
        BY <2>3, <2>4, <3>2
      <3> QED
        BY <2>3, <3>1, <3>3 DEF Right, e
    <2> QED
      BY <2>3, <2>5, <2>6
  <1> DEFINE unknown == {NoUhost}
  <1>11. \A i \in 1 .. Len(m) : Right(m[i], os, nickOf, ops[c], unknown)
    BY <1>10
  <1> HIDE DEF unknown
  <1>13. DOMAIN m = 1 .. Len(m)
    BY <1>9
  <1>12. AllRight(m, os, nickOf, ops[c], unknown)
    BY <1>9, <1>11, <1>13 DEF AllRight
  <1> QED
    BY <1>12 DEF unknown

NamesRead(ch, m, all, c) ==
  Extended(Enter(ch.members, me, Bot, {"bot"}), m, all, [u \in Users |-> NoUhost], c)

LEMMA BotJoins ==
  ASSUME NEW c \in Chans, NEW ch \in Channel, NEW os, Bot \notin os,
         NEW nk, NEW opped, NEW banned, NEW unknown, Sound(ch, os, nk, opped, banned, unknown),
         NEW all, Bot \in all, Named(nickOf), There(nickOf, all, ops[c]), Bot \notin ops[c], NEW m,
         NamesRead(ch, m, all, c)
  PROVE  /\ WithJoin(ch, m) \in Channel /\ WithJoin(ch, m).stray = ch.stray
         /\ Sound(WithJoin(ch, m), all, nickOf, ops[c], banned, {NoUhost})
  <1> DEFINE w == WithJoin(ch, m)
             one == {NoUhost}
  <1>1. m \in Seq(Member) /\ \A u \in all : nickOf[u] \in NicksIn(m)
    BY DEF Extended, NamesRead
  <1>2. /\ w \in Channel /\ w.known = 1 /\ w.joined = 1 /\ w.members = m
        /\ w.loading = (IF ch.loading = "null" THEN "null" ELSE "yes")
        /\ w.stray = ch.stray /\ w.masks = ch.masks
    BY <1>1, JoinFields
  <1> HIDE DEF w, one
  <1>3. ASSUME ch.stray = 0
        PROVE  AllRight(m, all, nickOf, ops[c], one) /\ Masked(w, banned)
    <2>1. ch.members = <<>> /\ ch.masks = <<>> /\ ch.loading = "null"
      BY <1>3, SoundApart DEF Empty
    <2>2. AllRight(m, all, nickOf, ops[c], one)
      BY <2>1, NamesTold DEF one, NamesRead
    <2>3. Masked(w, banned)
      BY <1>2, <2>1 DEF Masked, Once
    <2> QED
      BY <2>2, <2>3
  <1>4. Sound(w, all, nickOf, ops[c], banned, one)
    BY <1>1, <1>2, <1>3, SoundJoined
  <1> QED
    BY <1>2, <1>4 DEF w, one

-----------------------------------------------------------------------------
\* What the handlers do to all of the data.

\* Nothing but channel c differs.
Only(y, x, c) ==
  /\ y \in Data /\ y.down = x.down /\ y.late = x.late
  /\ \A d \in Chans : d # c => y.chan[d] = x.chan[d]
SameRefs(y, x) == \A n \in Nicks : Refs(y, n) = Refs(x, n)

LEMMA OnlyWith ==
  ASSUME NEW x \in Data, NEW c \in Chans, NEW ch \in Channel
  PROVE  Only(With(x, c, ch), x, c) /\ SameRefs(With(x, c, ch), x) /\ With(x, c, ch).chan[c] = ch
  <1> DEFINE y == With(x, c, ch)
  <1>1. /\ y \in Data /\ y.cache = x.cache /\ y.down = x.down /\ y.late = x.late /\ y.chan[c] = ch
        /\ \A d \in Chans : d # c => y.chan[d] = x.chan[d]
    BY WithFields
  <1> HIDE DEF y
  <1>2. Only(y, x, c) /\ SameRefs(y, x)
    BY <1>1 DEF Only, SameRefs, Refs
  <1> QED
    BY <1>1, <1>2 DEF y

LEMMA OnlyTwice ==
  ASSUME NEW x, NEW y, NEW z, NEW c, Only(y, x, c), Only(z, y, c)
  PROVE  Only(z, x, c)
  BY DEF Only

\* Channels are equal when their fields are.
LEMMA EqualChannels ==
  ASSUME NEW ch \in Channel, NEW ch2 \in Channel,
         ch.known = ch2.known, ch.static = ch2.static, ch.joined = ch2.joined, ch.members = ch2.members,
         ch.masks = ch2.masks, ch.loading = ch2.loading, ch.stray = ch2.stray
  PROVE  ch = ch2
  BY DEF Channel

LEMMA BotJoinsData ==
  ASSUME NEW x \in Data, NEW c \in Chans, NEW all \in SUBSET Users, Bot \in all, Named(nickOf),
         \A u \in all : nickOf[u] \in Nicks
  PROVE  LET y == got353(channel_on_join(x, c, Bot), c, all)
         IN  /\ Only(y, x, c)
             /\ \E m : y.chan[c] = WithJoin(x.chan[c], m) /\ NamesRead(x.chan[c], m, all, c)
             /\ \A u \in all : Refs(y, nickOf[u]) >= Refs(x, nickOf[u]) + 1
             /\ \A n \in Nicks : (\A u \in all : n # nickOf[u]) => Refs(y, n) = Refs(x, n)
  <1> DEFINE ch == x.chan[c]
             y0 == [x EXCEPT !.chan[c].known = 1]
             ch0 == [ch EXCEPT !.known = 1]
             l == Enter(ch.members, me, Bot, {"bot"})
             y1 == channel_add_member(y0, c, me, Bot, {"bot"})
             ch1 == [y1.chan[c] EXCEPT !.joined = 1, !.loading = IF @ = "null" THEN @ ELSE "yes"]
             y2 == With(y1, c, ch1)
             hosts == [u \in Users |-> NoUhost]
             y == ListedAll(y2, c, all, hosts)
             m == y.chan[c].members
  <1>1. me \in Nicks /\ Bot \in Uhosts /\ {"bot"} \in Flags /\ hosts \in [Users -> Uhosts]
    BY ChannelsAssumption DEF me, Uhosts, Flags
  <1>2. ch \in Channel /\ ch.members \in Seq(Member)
    BY DataFields, ChannelFields
  <1> HIDE DEF hosts
  <1>3. ch0 \in Channel /\ ch0.members = ch.members /\ y0 = With(x, c, ch0)
    BY <1>2 DEF Channel, Bit, With
  <1>31. /\ ch0.known = 1 /\ ch0.static = ch.static /\ ch0.stray = ch.stray /\ ch0.masks = ch.masks
         /\ ch0.loading = ch.loading
    BY <1>2 DEF Channel
  <1> HIDE DEF ch0, y0
  <1>4. Only(y0, x, c) /\ SameRefs(y0, x) /\ y0.chan[c] = ch0
    BY <1>2, <1>3, OnlyWith
  <1>5. y0 \in Data
    BY <1>4 DEF Only
  <1> HIDE DEF ch
  <1>6. /\ y1 \in Data /\ y1.down = y0.down /\ y1.late = y0.late
        /\ y1.chan[c] = WithMembers(y0.chan[c], Enter(y0.chan[c].members, me, Bot, {"bot"}))
        /\ \A d \in Chans : d # c => y1.chan[d] = y0.chan[d]
        /\ Refs(y1, me) = Refs(y0, me) + 1
        /\ \A k \in Nicks : k # me => Refs(y1, k) = Refs(y0, k)
    BY <1>1, <1>5, AddMember
  <1>7. channel_on_join(x, c, Bot) = y2
    BY DEF channel_on_join, With, y0
  <1>8. l \in Seq(Member)
    BY <1>1, <1>2, EnterList
  <1> HIDE DEF y1, l
  <1>9. y1.chan[c] = WithMembers(ch0, l)
    BY <1>3, <1>4, <1>6 DEF l
  <1>10. WithMembers(ch0, l) \in Channel
    BY <1>3, <1>8, MembersFields
  <1>11. ch1 \in Channel /\ ch1.members = l /\ ch1.known = 1 /\ ch1.joined = 1 /\ ch1.static = ch.static
         /\ ch1.stray = ch.stray /\ ch1.masks = ch.masks
         /\ ch1.loading = (IF ch.loading = "null" THEN "null" ELSE "yes")
    <2>1. /\ y1.chan[c] \in Channel /\ y1.chan[c].members = l /\ y1.chan[c].known = 1
          /\ y1.chan[c].static = ch.static /\ y1.chan[c].stray = ch.stray /\ y1.chan[c].masks = ch.masks
          /\ y1.chan[c].loading = ch.loading
      BY <1>3, <1>31, <1>8, <1>9, <1>10, MembersFields
    <2> QED
      BY <2>1 DEF Channel, Bit
  <1> HIDE DEF ch1
  <1>12. Only(y2, y1, c) /\ SameRefs(y2, y1) /\ y2.chan[c] = ch1
    BY <1>6, <1>11, OnlyWith
  <1>13. y2 \in Data
    BY <1>12 DEF Only
  <1> HIDE DEF y2
  <1>14. /\ y \in Data /\ y.down = y2.down /\ y.late = y2.late
         /\ y.chan[c] = WithMembers(y2.chan[c], m)
         /\ Extended(y2.chan[c].members, m, all, hosts, c)
         /\ \A d \in Chans : d # c => y.chan[d] = y2.chan[d]
         /\ \A u \in all : Refs(y, nickOf[u]) = Refs(y2, nickOf[u]) + 1
         /\ \A n \in Nicks : (\A u \in all : n # nickOf[u]) => Refs(y, n) = Refs(y2, n)
    BY <1>1, <1>13, ListedEffect
  <1>15. got353(channel_on_join(x, c, Bot), c, all) = y
    BY <1>7 DEF got353, hosts
  <1> HIDE DEF y, m
  <1>16. m \in Seq(Member)
    BY <1>14 DEF Extended
  <1>17. y.chan[c] = WithMembers(ch1, m)
    BY <1>12, <1>14
  <1>18. WithMembers(ch1, m) = WithJoin(ch, m)
    <2>1. ch \in Channel
      BY <1>2 DEF ch
    <2> QED
      BY <1>11, <1>16, <2>1, MembersFields, JoinFields, EqualChannels
  <1>19. Only(y, x, c)
    <2>1. Only(y1, y0, c) /\ Only(y, y2, c)
      BY <1>6, <1>14 DEF Only
    <2> QED
      BY <1>4, <1>12, <2>1, OnlyTwice
  <1>20. \A n \in Nicks : Refs(y2, n) >= Refs(x, n) /\ (n # me => Refs(y2, n) = Refs(x, n))
    <2>1. \A n \in Nicks : Refs(x, n) \in Nat
      BY DataFields
    <2> QED
      BY <1>1, <1>4, <1>6, <1>12, <2>1 DEF SameRefs
  <1>21. \A u \in all : Refs(y, nickOf[u]) >= Refs(x, nickOf[u]) + 1
    <2>1. \A n \in Nicks : Refs(x, n) \in Nat /\ Refs(y2, n) \in Nat
      BY <1>13, DataFields
    <2> QED
      BY <1>14, <1>20, <2>1
  <1>22. \A n \in Nicks : (\A u \in all : n # nickOf[u]) => Refs(y, n) = Refs(x, n)
    BY <1>14, <1>20 DEF me
  <1>23. y.chan[c] = WithJoin(ch, m) /\ Extended(l, m, all, hosts, c)
    BY <1>11, <1>12, <1>14, <1>17, <1>18
  <1> QED
    BY <1>15, <1>19, <1>21, <1>22, <1>23 DEF ch, l, hosts, NamesRead

\* Another user joins a channel the bot is on.
LEMMA OtherJoinsData ==
  ASSUME NEW x \in Data, NEW c \in Chans, x.chan[c].known = 1, NEW u \in Users, u # Bot, nickOf[u] \in Nicks
  PROVE  LET y == channel_on_join(x, c, u)
         IN  /\ Only(y, x, c)
             /\ y.chan[c] = WithMembers(x.chan[c], Enter(x.chan[c].members, nickOf[u], u, {}))
             /\ Refs(y, nickOf[u]) = Refs(x, nickOf[u]) + 1
             /\ \A n \in Nicks : n # nickOf[u] => Refs(y, n) = Refs(x, n)
  <1> DEFINE n0 == nickOf[u]
             y == channel_add_member(x, c, n0, u, {})
  <1>1. [x EXCEPT !.chan[c].known = 1] = x
    BY DEF Data, Channel
  <1>2. channel_on_join(x, c, u) = y
    BY <1>1 DEF channel_on_join
  <1>3. u \in Uhosts /\ {} \in Flags
    BY DEF Uhosts, Flags
  <1> HIDE DEF n0
  <1>4. /\ y \in Data /\ y.down = x.down /\ y.late = x.late
        /\ y.chan[c] = WithMembers(x.chan[c], Enter(x.chan[c].members, n0, u, {}))
        /\ \A d \in Chans : d # c => y.chan[d] = x.chan[d]
        /\ Refs(y, n0) = Refs(x, n0) + 1
        /\ \A k \in Nicks : k # n0 => Refs(y, k) = Refs(x, k)
    BY <1>3, AddMember DEF n0
  <1> HIDE DEF y
  <1> QED
    BY <1>2, <1>4 DEF Only, n0

\* The events about a ban or an op, for a channel that is known.
LEMMA MaskListMade ==
  ASSUME NEW x \in Data, NEW c \in Chans
  PROVE  /\ channel_get_mask_list(x, c) = With(x, c, WithMasks(x.chan[c], x.chan[c].masks, Listing(x.chan[c])))
         /\ channel_get_mask_list(x, c) \in Data
         /\ channel_get_mask_list(x, c).chan[c].masks = x.chan[c].masks
  <1> DEFINE ch == x.chan[c]
             w == WithMasks(ch, ch.masks, Listing(ch))
  <1>1. ch \in Channel
    BY DataFields
  <1>2. channel_get_mask_list(x, c) = With(x, c, w)
    BY <1>1 DEF channel_get_mask_list, With, WithMasks, Listing, Data, Channel
  <1>3. Listing(ch) \in {"null", "no", "yes"} /\ ch.masks \in Seq(Masks)
    BY <1>1, ChannelFields DEF Listing
  <1>4. w \in Channel /\ w.masks = ch.masks
    <2> HIDE DEF ch
    <2> QED
      BY <1>1, <1>3, MasksFields
  <1> HIDE DEF w
  <1>5. With(x, c, w) \in Data /\ With(x, c, w).chan[c] = w
    BY <1>4, WithFields
  <1> QED
    BY <1>2, <1>4, <1>5 DEF w

\* Masks and state of a channel are put in their place.
LEMMA MasksPut ==
  ASSUME NEW x \in Data, NEW c \in Chans, NEW ch \in Channel, NEW l, NEW r, NEW loading, NEW loading2
  PROVE  /\ [With(x, c, WithMasks(ch, l, loading)) EXCEPT !.chan[c].masks = r] = With(x, c, WithMasks(ch, r, loading))
         /\ [With(x, c, WithMasks(ch, l, loading)) EXCEPT !.chan[c].loading = loading2]
              = With(x, c, WithMasks(ch, l, loading2))
  <1> DEFINE w == WithMasks(ch, l, loading)
  <1>1. /\ WithMasks(ch, r, loading) = [w EXCEPT !.masks = r]
        /\ WithMasks(ch, l, loading2) = [w EXCEPT !.loading = loading2]
    BY DEF WithMasks, Channel
  <1> HIDE DEF w
  <1>2. [With(x, c, w) EXCEPT !.chan[c].masks = r] = With(x, c, [w EXCEPT !.masks = r])
    BY DEF With, Data
  <1>3. [With(x, c, w) EXCEPT !.chan[c].loading = loading2] = With(x, c, [w EXCEPT !.loading = loading2])
    BY DEF With, Data
  <1> QED
    BY <1>1, <1>2, <1>3 DEF w

LEMMA LoadedAndPut ==
  ASSUME NEW y \in Data, NEW c \in Chans, NEW v
  PROVE  [y EXCEPT !.chan[c].loading = "no", !.chan[c].masks = v]
           = [[y EXCEPT !.chan[c].loading = "no"] EXCEPT !.chan[c].masks = v]
  <1>1. y.chan[c] \in Channel
    BY DataFields
  <1> QED
    BY <1>1 DEF Data

LEMMA MaskSetData ==
  ASSUME NEW x \in Data, NEW c \in Chans, NEW m \in Masks
  PROVE  channel_add_mask(x, c, m) = With(x, c, WithMasks(x.chan[c], <<m>> \o x.chan[c].masks, Listing(x.chan[c])))
  <1> DEFINE ch == x.chan[c]
             y == channel_get_mask_list(x, c)
             r == <<m>> \o ch.masks
  <1>1. ch \in Channel
    BY DataFields
  <1>2. y = With(x, c, WithMasks(ch, ch.masks, Listing(ch))) /\ y.chan[c].masks = ch.masks
    BY MaskListMade
  <1>3. channel_add_mask(x, c, m) = [y EXCEPT !.chan[c].masks = <<m>> \o y.chan[c].masks]
    BY DEF channel_add_mask
  <1>4. channel_add_mask(x, c, m) = [y EXCEPT !.chan[c].masks = r]
    <2> HIDE DEF y
    <2> QED
      BY <1>2, <1>3
  <1> HIDE DEF y, ch, r
  <1>5. [y EXCEPT !.chan[c].masks = r] = With(x, c, WithMasks(ch, r, Listing(ch)))
    BY <1>1, <1>2, MasksPut
  <1> QED
    BY <1>4, <1>5 DEF ch, r

LEMMA MaskRemovedData ==
  ASSUME NEW x \in Data, NEW c \in Chans, NEW m \in Masks
  PROVE  channel_del_mask(x, c, m) = With(x, c, WithMasks(x.chan[c], Unmasked(x.chan[c].masks, m), Listing(x.chan[c])))
  <1> DEFINE ch == x.chan[c]
             l == ch.masks
             found == {i \in DOMAIN l : l[i] = m}
             first == CHOOSE i \in found : \A j \in found : i =< j
  <1>1. ch \in Channel
    BY DataFields
  <1>2. CASE found = {}
    <2>1. Unmasked(l, m) = l /\ channel_del_mask(x, c, m) = channel_get_mask_list(x, c)
      BY <1>2 DEF Unmasked, channel_del_mask
    <2>2. channel_get_mask_list(x, c) = With(x, c, WithMasks(ch, l, Listing(ch)))
      BY <1>1 DEF channel_get_mask_list, With, WithMasks, Listing, Data, Channel
    <2> QED
      BY <2>1, <2>2
  <1>3. CASE found # {}
    <2>1. /\ Unmasked(l, m) = RemoveAt(l, first)
          /\ channel_del_mask(x, c, m) = [channel_get_mask_list(x, c) EXCEPT !.chan[c].masks = RemoveAt(@, first)]
      BY <1>3 DEF Unmasked, channel_del_mask
    <2> HIDE DEF first
    <2> DEFINE z == channel_get_mask_list(x, c)
               r == RemoveAt(l, first)
    <2>2. z = With(x, c, WithMasks(ch, l, Listing(ch)))
      BY <1>1 DEF channel_get_mask_list, With, WithMasks, Listing, Data, Channel
    <2>3. z.chan[c].masks = l
      BY <1>1, <2>2 DEF With, WithMasks, Data, Channel
    <2>4. channel_del_mask(x, c, m) = [z EXCEPT !.chan[c].masks = r]
      BY <2>1, <2>3
    <2> HIDE DEF z, r
    <2>5. [z EXCEPT !.chan[c].masks = r] = With(x, c, WithMasks(ch, r, Listing(ch)))
      BY <1>1, <2>2 DEF With, WithMasks, Data, Channel
    <2> QED
      BY <2>1, <2>4, <2>5 DEF r
  <1> QED
    BY <1>2, <1>3

\* The answer to MODE b is taken for nothing when the lists are there and not
\* being loaded.
Loaded(ch, ms) == WithMasks(ch, IF ch.loading = "yes" THEN SetToSeq(ms) \o ch.masks ELSE ch.masks, "no")

LEMMA LoadedData ==
  ASSUME NEW x \in Data, NEW c \in Chans, NEW ms
  PROVE  got_list(x, c, ms) = IF x.chan[c].known = 0 THEN x ELSE With(x, c, Loaded(x.chan[c], ms))
  <1>1. x.chan[c] \in Channel
    BY DataFields
  <1> DEFINE y == channel_get_mask_list(x, c)
             l == IF x.chan[c].loading = "yes" THEN SetToSeq(ms) \o x.chan[c].masks ELSE x.chan[c].masks
             r == IF y.chan[c].loading = "yes" THEN SetToSeq(ms) \o y.chan[c].masks ELSE y.chan[c].masks
  <1>2. r = l
    BY <1>1 DEF channel_get_mask_list, Data, Channel
  <1>3. CASE x.chan[c].known # 0
    <2>1. got_list(x, c, ms) = [y EXCEPT !.chan[c].loading = "no", !.chan[c].masks = r]
      BY <1>3 DEF got_list
    <2>2. y \in Data
      BY MaskListMade
    <2>3. y = With(x, c, WithMasks(x.chan[c], x.chan[c].masks, Listing(x.chan[c])))
      BY MaskListMade
    <2> DEFINE z == [y EXCEPT !.chan[c].loading = "no"]
    <2>4. got_list(x, c, ms) = [z EXCEPT !.chan[c].masks = r]
      <3> HIDE DEF y, r
      <3> QED
        BY <2>1, <2>2, LoadedAndPut
    <2> HIDE DEF y, r, l
    <2>5. z = With(x, c, WithMasks(x.chan[c], x.chan[c].masks, "no"))
      BY <1>1, <2>3, MasksPut
    <2> HIDE DEF z
    <2>6. [z EXCEPT !.chan[c].masks = l] = With(x, c, WithMasks(x.chan[c], l, "no"))
      BY <1>1, <2>5, MasksPut
    <2> QED
      BY <1>2, <1>3, <2>4, <2>6 DEF Loaded, l
  <1>4. CASE x.chan[c].known = 0
    BY <1>4 DEF got_list
  <1> QED
    BY <1>3, <1>4

LEMMA LoadedChannel ==
  ASSUME NEW ch \in Channel, NEW ms \in SUBSET Masks
  PROVE  /\ Loaded(ch, ms) \in Channel /\ Loaded(ch, ms).known = ch.known /\ Loaded(ch, ms).stray = ch.stray
         /\ Loaded(ch, ms).joined = ch.joined /\ Loaded(ch, ms).members = ch.members
  <1> DEFINE s == SetToSeq(ms)
             l == IF ch.loading = "yes" THEN s \o ch.masks ELSE ch.masks
  <1>1. s \in Seq(Masks)
    <2>1. IsFiniteSet(ms)
      BY ChannelsAssumption, FS_Subset
    <2>2. s \in Seq(ms)
      BY <2>1, SetInSequence
    <2> HIDE DEF s
    <2> QED
      BY <2>2
  <1> HIDE DEF s
  <1>2. ch.masks \in Seq(Masks)
    BY ChannelFields
  <1>3. l \in Seq(Masks)
    BY <1>1, <1>2
  <1>4. Loaded(ch, ms) = WithMasks(ch, l, "no")
    BY DEF Loaded, s
  <1> HIDE DEF l
  <1> QED
    BY <1>3, <1>4, MasksFields

\* A joined channel without late answers keeps its masks.
LEMMA LoadedSound ==
  ASSUME NEW ch \in Channel, NEW os, Bot \in os, NEW nk, NEW opped, NEW banned \in SUBSET Masks, NEW unknown,
         Sound(ch, os, nk, opped, banned, unknown)
  PROVE  Sound(Loaded(ch, banned), os, nk, opped, banned, unknown)
  <1> DEFINE l == IF ch.loading = "yes" THEN SetToSeq(banned) \o ch.masks ELSE ch.masks
  <1>1. Loaded(ch, banned) = WithMasks(ch, l, "no") /\ Loaded(ch, banned) \in Channel
    BY LoadedChannel DEF Loaded
  <1>2. Loaded(ch, banned).members = ch.members /\ Loaded(ch, banned).stray = ch.stray
        /\ Loaded(ch, banned).known = ch.known /\ Loaded(ch, banned).joined = ch.joined
    BY LoadedChannel
  <1>3. Masked(ch, banned) => Masked(Loaded(ch, banned), banned)
    <2>1. ASSUME Masked(ch, banned)
          PROVE  Loaded(ch, banned).masks = ch.masks /\ Loaded(ch, banned).loading = "no"
      <3>1. l = ch.masks
        BY <2>1 DEF Masked
      <3> HIDE DEF l
      <3> QED
        BY <1>1, <3>1, ChannelFields, MasksFields
    <2> QED
      BY <2>1 DEF Masked
  <1> DEFINE w == Loaded(ch, banned)
  <1> HIDE DEF w
  <1>4. w \in Channel /\ w.members = ch.members /\ w.stray = ch.stray /\ w.known = ch.known
        /\ w.joined = ch.joined /\ (Masked(ch, banned) => Masked(w, banned))
    BY <1>1, <1>2, <1>3 DEF w
  <1>5. Sound(w, os, nk, opped, banned, unknown)
    BY <1>4, SoundJoined
  <1> QED
    BY <1>5 DEF w

LEMMA ModeData ==
  ASSUME NEW x \in Data, NEW c \in Chans, NEW n, NEW plus \in Bit, x.chan[c].known = 1,
         Places(x.chan[c].members, n) # {}
  PROVE  mode_o(x, c, n, plus) = With(x, c, OpSet(x.chan[c], n, plus))
  <1>1. x.chan[c] \in Channel
    BY DataFields
  <1> QED
    BY <1>1 DEF mode_o, With, OpSet, Data, Channel

\* Commands and scripts.
LEMMA FlagsData ==
  ASSUME NEW x \in Data, NEW c \in Chans
  PROVE  /\ [x EXCEPT !.chan[c].known = 1, !.chan[c].static = 1] = With(x, c, WithFlags(x.chan[c], 1, 1))
         /\ [x EXCEPT !.chan[c].static = 0] = With(x, c, WithFlags(x.chan[c], x.chan[c].known, 0))
         /\ [x EXCEPT !.chan[c].known = 1] = With(x, c, WithFlags(x.chan[c], 1, x.chan[c].static))
  <1>1. x.chan[c] \in Channel
    BY DataFields
  <1> QED
    BY <1>1 DEF With, WithFlags, Data, Channel

\* A late answer.
Late(ch) == [ch EXCEPT !.stray = 1]

LEMMA LateFields ==
  ASSUME NEW ch \in Channel
  PROVE  /\ Late(ch) \in Channel /\ Late(ch).stray = 1 /\ Late(ch).joined = ch.joined
         /\ Late(ch).members = ch.members
  BY DEF Late, Channel, Bit

LEMMA StrayData ==
  ASSUME NEW x \in Data, NEW c \in Chans
  PROVE  LET y == Stray(x, c)
         IN  /\ y \in Data /\ y.down = x.down /\ y.cache = x.cache
             /\ \A d \in Chans : d # c => y.chan[d] = x.chan[d]
             /\ (y.chan[c] = x.chan[c] /\ y.late = x.late) \/ (y.chan[c] = Late(x.chan[c]) /\ y.late = 1)
             /\ (x.chan[c].known = 1 /\ Bot \notin on[c]) => (y.chan[c] = Late(x.chan[c]) /\ y.late = 1)
             /\ (x.chan[c].known = 0 \/ Bot \in on[c]) => y = x
  <1>1. x.chan[c] \in Channel
    BY DataFields
  <1>2. CASE x.chan[c].known = 1 /\ Bot \notin on[c]
    <2> DEFINE y == [x EXCEPT !.chan[c].stray = 1, !.late = 1]
    <2>1. Stray(x, c) = y
      BY <1>2 DEF Stray
    <2>2. y = [With(x, c, Late(x.chan[c])) EXCEPT !.late = 1]
      BY <1>1 DEF With, Late, Data, Channel
    <2>3. Only(With(x, c, Late(x.chan[c])), x, c) /\ With(x, c, Late(x.chan[c])).chan[c] = Late(x.chan[c])
          /\ With(x, c, Late(x.chan[c])).cache = x.cache
      BY <1>1, LateFields, OnlyWith, WithFields
    <2> DEFINE z == With(x, c, Late(x.chan[c]))
    <2> HIDE DEF z, y
    <2>4. z \in Data /\ y = [z EXCEPT !.late = 1]
      BY <2>2, <2>3 DEF Only, z
    <2>5. y \in Data /\ y.down = z.down /\ y.cache = z.cache /\ y.chan = z.chan /\ y.late = 1
      BY <2>4 DEF Data, Bit
    <2>6. /\ y \in Data /\ y.down = x.down /\ y.cache = x.cache /\ y.late = 1 /\ y.chan[c] = Late(x.chan[c])
          /\ \A d \in Chans : d # c => y.chan[d] = x.chan[d]
      BY <2>3, <2>5 DEF Only, z
    <2> QED
      BY <1>2, <2>1, <2>6
  <1>3. CASE ~(x.chan[c].known = 1 /\ Bot \notin on[c])
    <2>1. Stray(x, c) = x
      BY <1>3 DEF Stray
    <2> QED
      BY <1>3, <2>1
  <1> QED
    BY <1>2, <1>3

-----------------------------------------------------------------------------
\* Counting the channels a nick is seen on.

\* SeenOn, where the channels have the users os and the users the nicks nk.
SeenAt(os, nk, n) == {c \in Chans : Bot \in os[c] /\ \E u \in os[c] : n = nk[u]}

LEMMA SeenOnAt ==
  ASSUME NEW n
  PROVE  SeenOn(n) = SeenAt(on, nickOf, n)
  <1>1. \A c : n \in NicksOn(c) <=> \E u \in on[c] : n = nickOf[u]
    BY DEF NicksOn
  <1> QED
    BY <1>1 DEF SeenOn, SeenAt

LEMMA Fewer ==
  ASSUME NEW S \in SUBSET Chans, NEW T \in SUBSET S
  PROVE  Cardinality(T) \in Nat /\ Cardinality(S) \in Nat /\ Cardinality(T) =< Cardinality(S)
  <1>1. IsFiniteSet(S)
    BY ChannelsAssumption, FS_Subset
  <1> QED
    BY <1>1, FS_Subset, FS_CardinalityType

LEMMA OneMore ==
  ASSUME NEW S \in SUBSET Chans, NEW c \in Chans, NEW T \in SUBSET (S \cup {c})
  PROVE  Cardinality(T) \in Nat /\ Cardinality(S) \in Nat /\ Cardinality(T) =< Cardinality(S) + 1
  <1>1. IsFiniteSet(S)
    BY ChannelsAssumption, FS_Subset
  <1>2. Cardinality(S \cup {c}) =< Cardinality(S) + 1 /\ Cardinality(S) \in Nat
    <2> DEFINE k == Cardinality(S)
               k2 == Cardinality(S \cup {c})
    <2>1. k \in Nat
      BY <1>1, FS_CardinalityType
    <2>2. k2 = IF c \in S THEN k ELSE k + 1
      BY <1>1, FS_AddElement
    <2> HIDE DEF k, k2
    <2>3. k2 =< k + 1
      BY <2>1, <2>2
    <2> QED
      BY <2>1, <2>3 DEF k, k2
  <1>3. Cardinality(T) \in Nat /\ Cardinality(S \cup {c}) \in Nat /\ Cardinality(T) =< Cardinality(S \cup {c})
    BY Fewer
  <1> QED
    BY <1>2, <1>3

LEMMA OneLess ==
  ASSUME NEW S \in SUBSET Chans, NEW c \in S, NEW T \in SUBSET (S \ {c})
  PROVE  Cardinality(T) \in Nat /\ Cardinality(S) \in Nat /\ Cardinality(T) =< Cardinality(S) - 1
  <1>1. IsFiniteSet(S)
    BY ChannelsAssumption, FS_Subset
  <1>2. Cardinality(S \ {c}) = Cardinality(S) - 1 /\ Cardinality(S) \in Nat
    BY <1>1, FS_RemoveElement, FS_CardinalityType
  <1>3. Cardinality(T) \in Nat /\ Cardinality(S \ {c}) \in Nat /\ Cardinality(T) =< Cardinality(S \ {c})
    BY Fewer
  <1> QED
    BY <1>2, <1>3

LEMMA NobodySeen ==
  Cardinality({}) = 0
  BY FS_EmptySet

-----------------------------------------------------------------------------
\* The requests that wait for an answer.
Asked(s, c) == {h \in {NoUhost} : Contains(s, Request("WHO", c))}

LEMMA AskedUnknown ==
  ASSUME NEW c
  PROVE  Unknown(c) = Asked(sent, c) /\ Unknown(c)' = Asked(sent', c)
  BY DEF Unknown, Asked

LEMMA AskedMore ==
  ASSUME NEW s \in Seq(Requests), NEW r \in Seq(Requests), NEW c
  PROVE  Asked(s, c) \subseteq Asked(s \o r, c)
  <1> DEFINE w == Request("WHO", c)
  <1> HIDE DEF w
  <1>1. \A i \in 1 .. Len(s) : i \in 1 .. Len(s \o r) /\ (s \o r)[i] = s[i]
    OBVIOUS
  <1>2. Contains(s, w) => Contains(s \o r, w)
    BY <1>1 DEF Contains
  <1> QED
    BY <1>2 DEF Asked, w

LEMMA AskedLess ==
  ASSUME NEW s \in Seq(Requests), s # <<>>, NEW c, Head(s) # Request("WHO", c)
  PROVE  Asked(s, c) \subseteq Asked(Tail(s), c)
  <1> DEFINE w == Request("WHO", c)
  <1> HIDE DEF w
  <1>1. \A i \in 1 .. Len(s) : i = 1 \/ (i - 1 \in 1 .. Len(Tail(s)) /\ Tail(s)[i - 1] = s[i])
    OBVIOUS
  <1>2. Head(s) = s[1] /\ Head(s) # w
    BY DEF w
  <1>3. Contains(s, w) => Contains(Tail(s), w)
    BY <1>1, <1>2 DEF Contains
  <1> QED
    BY <1>3 DEF Asked, w

LEMMA RequestSeq ==
  ASSUME NEW s \in Seq(Requests), s # <<>>
  PROVE  Tail(s) \in Seq(Requests) /\ Head(s) \in Requests
  OBVIOUS

-----------------------------------------------------------------------------
\* What the invariant says, and how a step keeps it.

LEMMA InvFacts ==
  ASSUME ChannelsInv
  PROVE  /\ Named(nickOf) /\ nickOf \in [Users -> Nicks \cup {NoNick}]
         /\ on \in [Chans -> SUBSET Users] /\ ops \in [Chans -> SUBSET Users] /\ bans \in [Chans -> SUBSET Masks]
         /\ b \in Data /\ b.down = 0 /\ sent \in Seq(Requests) /\ (sent # <<>> => me \in Nicks)
         /\ \A c \in Chans :
              /\ on[c] \in SUBSET Users /\ ops[c] \in SUBSET on[c] /\ bans[c] \in SUBSET Masks
              /\ There(nickOf, on[c], ops[c]) /\ \A u \in on[c] : nickOf[u] \in Nicks
              /\ b.chan[c] \in Channel /\ b.chan[c].members \in Seq(Member)
              /\ Sound(b.chan[c], on[c], nickOf, ops[c], bans[c], Asked(sent, c))
         /\ \A n \in Nicks : Refs(b, n) \in Nat
  <1>1. b \in Data /\ b.down = 0 /\ sent \in Seq(Requests) /\ (sent # <<>> => me \in Nicks)
    BY DEF ChannelsInv, DataType
  <1>2. /\ Named(nickOf) /\ nickOf \in [Users -> Nicks \cup {NoNick}]
        /\ on \in [Chans -> SUBSET Users] /\ ops \in [Chans -> SUBSET Users] /\ bans \in [Chans -> SUBSET Masks]
        /\ \A c \in Chans : There(nickOf, on[c], ops[c])
    BY DEF ChannelsInv, Truth, Named
  <1>3. \A n \in Nicks : Refs(b, n) \in Nat
    BY <1>1, DataFields
  <1>4. ASSUME NEW c \in Chans
        PROVE  /\ on[c] \in SUBSET Users /\ ops[c] \in SUBSET on[c] /\ bans[c] \in SUBSET Masks
               /\ There(nickOf, on[c], ops[c]) /\ \A u \in on[c] : nickOf[u] \in Nicks
               /\ b.chan[c] \in Channel /\ b.chan[c].members \in Seq(Member)
               /\ Sound(b.chan[c], on[c], nickOf, ops[c], bans[c], Asked(sent, c))
    <2>1. on[c] \in SUBSET Users /\ ops[c] \in SUBSET on[c] /\ bans[c] \in SUBSET Masks
          /\ There(nickOf, on[c], ops[c]) /\ \A u \in on[c] : nickOf[u] \in Nicks
      BY <1>2 DEF There
    <2>2. b.chan[c] \in Channel /\ b.chan[c].members \in Seq(Member)
      BY <1>1, DataFields, ChannelFields
    <2>3. Sound(b.chan[c], on[c], nickOf, ops[c], bans[c], Asked(sent, c))
      BY AskedUnknown DEF ChannelsInv, ChannelInv
    <2> QED
      BY <2>1, <2>2, <2>3
  <1> QED
    BY <1>1, <1>2, <1>3, <1>4

LEMMA SoundAfter ==
  ASSUME NEW c, Sound(b'.chan[c], on'[c], nickOf', ops'[c], bans'[c], Asked(sent', c))
  PROVE  ChannelInv(c)'
  <1>1. Unknown(c)' = Asked(sent', c)
    BY AskedUnknown
  <1> QED
    BY <1>1 DEF ChannelInv

\* A channel the step does not touch.
Untouched(c) ==
  /\ b'.chan[c] = b.chan[c] /\ on'[c] = on[c] /\ ops'[c] = ops[c] /\ bans'[c] = bans[c]
  /\ \A u \in on[c] : nickOf'[u] = nickOf[u]
  /\ Asked(sent, c) \subseteq Asked(sent', c)

LEMMA StaysSound ==
  ASSUME ChannelsInv, NEW c \in Chans, Untouched(c)
  PROVE  ChannelInv(c)'
  <1> DEFINE nk2 == nickOf'
             later == Asked(sent', c)
  <1>1. /\ b.chan[c] \in Channel /\ Sound(b.chan[c], on[c], nickOf, ops[c], bans[c], Asked(sent, c))
        /\ \A u \in on[c] : nk2[u] = nickOf[u]
        /\ Asked(sent, c) \subseteq later
    BY InvFacts DEF Untouched
  <1> HIDE DEF nk2, later
  <1>2. Sound(b.chan[c], on[c], nk2, ops[c], bans[c], later)
    BY <1>1, Wider
  <1>3. Sound(b'.chan[c], on'[c], nickOf', ops'[c], bans'[c], Asked(sent', c))
    BY <1>2 DEF Untouched, nk2, later
  <1> QED
    BY <1>3, SoundAfter

\* What is left to show of a step.
LEMMA InvAfter ==
  ASSUME Truth', DataType', \A c \in Chans : ChannelInv(c)', Counted'
  PROVE  ChannelsInv'
  BY DEF ChannelsInv

\* How Counted is shown for what the channels and the users are after the step.
CountedAt(x, os, nk) ==
  x.late = 0 => /\ \A c \in Chans : x.chan[c].stray = 0
                /\ \A n \in Nicks : Refs(x, n) >= Cardinality(SeenAt(os, nk, n))

LEMMA CountedNow ==
  Counted <=> CountedAt(b, on, nickOf)
  <1>1. \A n : SeenOn(n) = SeenAt(on, nickOf, n)
    BY SeenOnAt
  <1> QED
    BY <1>1 DEF Counted, CountedAt, Covered, me

LEMMA CountedAfter ==
  ASSUME CountedAt(b', on', nickOf')
  PROVE  Counted'
  <1>1. \A n : SeenOn(n)' = SeenAt(on', nickOf', n)
    <2> SUFFICES ASSUME NEW n
                 PROVE  SeenOn(n)' = SeenAt(on', nickOf', n)
      OBVIOUS
    <2>1. \A c : n \in NicksOn(c)' <=> \E u \in on'[c] : n = nickOf'[u]
      BY DEF NicksOn
    <2> QED
      BY <2>1 DEF SeenOn, SeenAt
  <1> QED
    BY <1>1 DEF Counted, CountedAt, Covered, me

-----------------------------------------------------------------------------
\* The truth.

LEMMA NamedChange ==
  ASSUME NEW nk, Named(nk), NEW u \in Users, NEW n \in Nicks \cup {NoNick},
         n = NoNick \/ \A v \in Users : nk[v] # n
  PROVE  Named([nk EXCEPT ![u] = n])
  BY DEF Named

LEMMA ThereChange ==
  ASSUME NEW nk \in [Users -> Nicks \cup {NoNick}], NEW os, NEW opped, There(nk, os, opped),
         NEW u \in Users, NEW n \in Nicks \cup {NoNick}, n = NoNick => u \notin os
  PROVE  There([nk EXCEPT ![u] = n], os, opped)
  BY DEF There

LEMMA ThereLess ==
  ASSUME NEW nk, NEW os, NEW opped, There(nk, os, opped), NEW S
  PROVE  There(nk, os \ S, opped \ S)
  BY DEF There

LEMMA TruthAfter ==
  ASSUME Named(nickOf'), on' \in [Chans -> SUBSET Users], ops' \in [Chans -> SUBSET Users],
         \A c \in Chans : There(nickOf', on'[c], ops'[c]), bans' \in [Chans -> SUBSET Masks]
  PROVE  Truth'
  BY DEF Truth

\* Only the data and the requests change.
LEMMA TruthSame ==
  ASSUME ChannelsInv, UNCHANGED truth
  PROVE  Truth'
  BY DEF ChannelsInv, Truth, truth

\* The nick of a user changes.
LEMMA TruthNick ==
  ASSUME ChannelsInv, NEW u \in Users, NEW n \in FreeNicks, nickOf' = [nickOf EXCEPT ![u] = n],
         UNCHANGED <<on, ops, bans>>
  PROVE  Truth' /\ Named(nickOf')
  <1>1. n \in Nicks /\ \A v \in Users : nickOf[v] # n
    BY DEF FreeNicks
  <1>2. Named(nickOf')
    BY <1>1, InvFacts, NamedChange
  <1>3. n # NoNick
    BY <1>1, ChannelsAssumption
  <1>4. \A c \in Chans : There(nickOf', on[c], ops[c])
    BY <1>1, <1>3, InvFacts, ThereChange
  <1> QED
    BY <1>2, <1>4, InvFacts, TruthAfter

\* Users leave a channel.
LEMMA TruthOff ==
  ASSUME ChannelsInv, NEW c \in Chans, NEW u, Off(c, u), UNCHANGED <<nickOf, bans>>
  PROVE  Truth'
  <1>1. /\ on' \in [Chans -> SUBSET Users] /\ ops' \in [Chans -> SUBSET Users]
        /\ on'[c] = on[c] \ {u} /\ ops'[c] = ops[c] \ {u}
        /\ \A d \in Chans : d # c => on'[d] = on[d] /\ ops'[d] = ops[d]
    BY InvFacts DEF Off
  <1>2. \A d \in Chans : There(nickOf', on'[d], ops'[d])
    <2> SUFFICES ASSUME NEW d \in Chans
                 PROVE  There(nickOf, on'[d], ops'[d])
      OBVIOUS
    <2>1. There(nickOf, on[d], ops[d])
      BY InvFacts
    <2>2. There(nickOf, on[d] \ {u}, ops[d] \ {u})
      BY <2>1, ThereLess
    <2> QED
      BY <1>1, <2>1, <2>2
  <1> QED
    BY <1>1, <1>2, InvFacts, TruthAfter

\* Users leave the network.
LEMMA TruthGone ==
  ASSUME ChannelsInv, NEW u \in Users, Gone({u}), nickOf' = [nickOf EXCEPT ![u] = NoNick], UNCHANGED bans
  PROVE  Truth' /\ Named(nickOf')
  <1>1. /\ on' \in [Chans -> SUBSET Users] /\ ops' \in [Chans -> SUBSET Users]
        /\ \A d \in Chans : on'[d] = on[d] \ {u} /\ ops'[d] = ops[d] \ {u}
    BY InvFacts DEF Gone
  <1>2. Named(nickOf')
    BY InvFacts, NamedChange
  <1>3. \A d \in Chans : There(nickOf', on'[d], ops'[d])
    <2> SUFFICES ASSUME NEW d \in Chans
                 PROVE  There(nickOf', on'[d], ops'[d])
      OBVIOUS
    <2>1. There(nickOf, on[d] \ {u}, ops[d] \ {u})
      BY InvFacts, ThereLess
    <2>2. u \notin on[d] \ {u} /\ nickOf \in [Users -> Nicks \cup {NoNick}]
      BY InvFacts
    <2> DEFINE os == on[d] \ {u}
               opped == ops[d] \ {u}
    <2> HIDE DEF os, opped
    <2>3. There(nickOf, os, opped) /\ u \notin os
      BY <2>1, <2>2 DEF os, opped
    <2>4. There(nickOf', os, opped)
      BY <2>2, <2>3, ThereChange
    <2> QED
      BY <1>1, <2>4 DEF os, opped
  <1> QED
    BY <1>1, <1>2, <1>3, InvFacts, TruthAfter

\* One comes to a channel.
LEMMA TruthJoin ==
  ASSUME ChannelsInv, NEW c \in Chans, NEW u \in Users, nickOf[u] \in Nicks,
         on' = [on EXCEPT ![c] = @ \cup {u}], UNCHANGED <<nickOf, ops, bans>>
  PROVE  Truth'
  <1>1. /\ on' \in [Chans -> SUBSET Users] /\ on'[c] = on[c] \cup {u}
        /\ \A d \in Chans : d # c => on'[d] = on[d]
    BY InvFacts
  <1>2. \A d \in Chans : There(nickOf', on'[d], ops'[d])
    BY <1>1, InvFacts DEF There
  <1> QED
    BY <1>1, <1>2, InvFacts, TruthAfter

\* Ops and bans.
LEMMA TruthOps ==
  ASSUME ChannelsInv, NEW c \in Chans, NEW u \in on[c],
         ops' = [ops EXCEPT ![c] = IF u \in @ THEN @ \ {u} ELSE @ \cup {u}], UNCHANGED <<nickOf, on, bans>>
  PROVE  Truth'
  <1>1. /\ u \in Users /\ ops' \in [Chans -> SUBSET Users]
        /\ ops'[c] = IF u \in ops[c] THEN ops[c] \ {u} ELSE ops[c] \cup {u}
        /\ \A d \in Chans : d # c => ops'[d] = ops[d]
    BY InvFacts
  <1>2. \A d \in Chans : There(nickOf', on'[d], ops'[d])
    BY <1>1, InvFacts DEF There
  <1> QED
    BY <1>1, <1>2, InvFacts, TruthAfter

LEMMA TruthBans ==
  ASSUME ChannelsInv, NEW c \in Chans, NEW m \in Masks,
         bans' = [bans EXCEPT ![c] = IF m \in @ THEN @ \ {m} ELSE @ \cup {m}], UNCHANGED <<nickOf, on, ops>>
  PROVE  Truth'
  <1>1. bans' \in [Chans -> SUBSET Masks]
    BY InvFacts
  <1> QED
    BY <1>1, InvFacts, TruthAfter

-----------------------------------------------------------------------------
\* Each action keeps the invariant.

LEMMA Asking ==
  ASSUME NEW kind \in {"JOIN", "WHO", "BANS", "PART"}, NEW c \in Chans
  PROVE  /\ Request(kind, c) \in Requests /\ <<Request(kind, c)>> \in Seq(Requests)
         /\ kind # "WHO" => \A d : Request(kind, c) # Request("WHO", d)
         /\ \A d : d # c => Request(kind, c) # Request("WHO", d)
  BY DEF Request, Requests

\* The answer read is to another request than WHO for c.
LEMMA AnswerRead ==
  ASSUME ChannelsInv, NEW kind \in {"JOIN", "WHO", "BANS", "PART"}, NEW c \in Chans, Answered(kind, c)
  PROVE  /\ Tail(sent) \in Seq(Requests)
         /\ \A d \in Chans : kind # "WHO" \/ d # c => Asked(sent, d) \subseteq Asked(Tail(sent), d)
  <1>1. sent \in Seq(Requests) /\ sent # <<>> /\ Head(sent) = Request(kind, c)
    BY InvFacts DEF Answered
  <1>2. Tail(sent) \in Seq(Requests)
    BY <1>1
  <1>3. ASSUME NEW d \in Chans, kind # "WHO" \/ d # c
        PROVE  Asked(sent, d) \subseteq Asked(Tail(sent), d)
    <2>1. Head(sent) # Request("WHO", d)
      BY <1>1, <1>3, Asking
    <2> QED
      BY <1>1, <2>1, AskedLess
  <1> QED
    BY <1>2, <1>3

\* Only a request is answered.
LEMMA AnswerKeeps ==
  ASSUME ChannelsInv, NEW c \in Chans, NEW kind \in {"JOIN", "BANS", "PART"}, Answered(kind, c), sent' = Tail(sent),
         UNCHANGED <<nickOf, on, ops, bans, b>>
  PROVE  ChannelsInv'
  <1>1. sent' \in Seq(Requests) /\ \A d \in Chans : Asked(sent, d) \subseteq Asked(sent', d)
    BY AnswerRead
  <1>2. me \in Nicks
    BY InvFacts DEF Answered
  <1>3. Truth'
    BY TruthSame DEF truth
  <1>4. DataType'
    BY <1>1, <1>2, InvFacts DEF DataType, me
  <1>5. \A d \in Chans : ChannelInv(d)'
    BY <1>1, StaysSound DEF Untouched
  <1>6. Counted'
    <2>1. CountedAt(b', on', nickOf')
      BY CountedNow DEF ChannelsInv
    <2> QED
      BY <2>1, CountedAfter
  <1> QED
    BY <1>3, <1>4, <1>5, <1>6, InvAfter

LEMMA JoinRefusedKeeps ==
  ASSUME ChannelsInv, NEW c \in Chans, JoinRefused(c)
  PROVE  ChannelsInv'
  BY AnswerKeeps DEF JoinRefused

\* Who has no nick is nowhere.
LEMMA NoNickNowhere ==
  ASSUME ChannelsInv, NEW u \in Users, nickOf[u] = NoNick
  PROVE  \A c \in Chans : u \notin on[c]
  BY InvFacts, ChannelsAssumption

LEMMA BotAwayCounts ==
  ASSUME NEW x \in Data, x.late = 0 => \A c \in Chans : x.chan[c].stray = 0,
         NEW os, \A c \in Chans : Bot \notin os[c], NEW nk
  PROVE  CountedAt(x, os, nk)
  <1>1. \A n : SeenAt(os, nk, n) = {}
    BY DEF SeenAt
  <1>2. \A n \in Nicks : Refs(x, n) \in Nat
    BY DataFields
  <1> QED
    BY <1>1, <1>2, NobodySeen DEF CountedAt

LEMMA NoStray ==
  ASSUME ChannelsInv, b.late = 0
  PROVE  \A c \in Chans : b.chan[c].stray = 0
  BY DEF ChannelsInv, Counted

LEMMA ConnectKeeps ==
  ASSUME ChannelsInv, channel_on_connect
  PROVE  ChannelsInv'
  <1>1. b' = b /\ UNCHANGED <<on, ops, bans>> /\ nickOf[Bot] = NoNick
    BY DEF channel_on_connect, me
  <1>2. PICK n \in FreeNicks : nickOf' = [nickOf EXCEPT ![Bot] = n]
    BY DEF channel_on_connect
  <1>3. \A c \in Chans : Bot \notin on[c]
    BY <1>1, NoNickNowhere, ChannelsAssumption
  <1>4. sent' \in Seq(Requests) /\ \A c \in Chans : Asked(sent, c) \subseteq Asked(sent', c)
    <2>1. PICK active \in SUBSET {c \in Chans : b.chan[c].known = 1} :
            LET ask(c) == Request("JOIN", c)
            IN  Queue([i \in DOMAIN SetToSeq(active) |-> ask(SetToSeq(active)[i])])
      BY DEF channel_on_connect
    <2> DEFINE s == SetToSeq(active)
               r == [i \in DOMAIN s |-> Request("JOIN", s[i])]
    <2>2. Queue(r)
      BY <2>1
    <2>3. s \in Seq(Chans)
      <3>1. IsFiniteSet(active)
        BY ChannelsAssumption, FS_Subset
      <3>2. s \in Seq(active)
        BY <3>1, SetInSequence
      <3> HIDE DEF s
      <3> QED
        BY <3>2
    <2> HIDE DEF s
    <2>4. r \in Seq(Requests)
      <3>1. DOMAIN s = 1 .. Len(s) /\ Len(s) \in Nat /\ \A i \in 1 .. Len(s) : s[i] \in Chans
        BY <2>3
      <3>2. \A i \in DOMAIN s : Request("JOIN", s[i]) \in Requests
        BY <3>1, Asking
      <3> QED
        BY <3>1, <3>2
    <2> HIDE DEF r
    <2>5. sent' = sent \o r
      BY <2>2 DEF Queue
    <2> QED
      BY <2>4, <2>5, InvFacts, AskedMore
  <1>5. Truth'
    BY <1>1, <1>2, TruthNick, ChannelsAssumption
  <1>6. DataType'
    <2>1. me' \in Nicks
      BY <1>2, InvFacts, ChannelsAssumption DEF me, FreeNicks
    <2> QED
      BY <1>1, <1>4, <2>1, InvFacts DEF DataType
  <1>7. \A c \in Chans : ChannelInv(c)'
    <2>1. \A c \in Chans : \A u \in on[c] : nickOf'[u] = nickOf[u]
      BY <1>2, <1>3, InvFacts
    <2> QED
      BY <1>1, <1>4, <2>1, StaysSound DEF Untouched
  <1>8. Counted'
    <2>1. CountedAt(b, on, nickOf')
      BY <1>3, InvFacts, NoStray, BotAwayCounts
    <2> QED
      BY <1>1, <2>1, CountedAfter
  <1> QED
    BY <1>5, <1>6, <1>7, <1>8, InvAfter

\* Where the users on channels keep their nicks, as many channels are seen.
LEMMA SeenAlike ==
  ASSUME NEW os, NEW nk, NEW nk2, \A c \in Chans : \A u \in os[c] : nk2[u] = nk[u], NEW n
  PROVE  SeenAt(os, nk2, n) = SeenAt(os, nk, n)
  BY DEF SeenAt

LEMMA UserConnectsKeeps ==
  ASSUME ChannelsInv, NEW u \in Users, UserConnects(u)
  PROVE  ChannelsInv'
  <1>1. /\ b' = b /\ UNCHANGED <<on, ops, bans, sent>> /\ nickOf[u] = NoNick /\ u # Bot
    BY DEF UserConnects, Online
  <1>2. PICK n \in FreeNicks : nickOf' = [nickOf EXCEPT ![u] = n]
    BY DEF UserConnects
  <1>3. \A c \in Chans : u \notin on[c]
    BY <1>1, NoNickNowhere
  <1>4. \A c \in Chans : \A v \in on[c] : nickOf'[v] = nickOf[v]
    BY <1>2, <1>3, InvFacts
  <1>5. Truth'
    BY <1>1, <1>2, TruthNick
  <1>6. DataType'
    <2>1. me' = me
      BY <1>1, <1>2, InvFacts DEF me
    <2> QED
      BY <1>1, <2>1, InvFacts DEF DataType
  <1>7. \A c \in Chans : ChannelInv(c)'
    BY <1>1, <1>4, StaysSound DEF Untouched
  <1>8. Counted'
    <2>1. nickOf'[Bot] = nickOf[Bot]
      BY <1>1, <1>2, InvFacts
    <2>2. CountedAt(b, on, nickOf)
      BY CountedNow DEF ChannelsInv
    <2>3. \A n0 : SeenAt(on, nickOf', n0) = SeenAt(on, nickOf, n0)
      BY <1>4, SeenAlike
    <2>4. CountedAt(b, on, nickOf')
      BY <2>1, <2>2, <2>3 DEF CountedAt
    <2> QED
      BY <1>1, <2>4, CountedAfter
  <1> QED
    BY <1>5, <1>6, <1>7, <1>8, InvAfter

\* More users on one channel, each of them counted.
LEMMA CountsMore ==
  ASSUME NEW x \in Data, NEW y \in Data, NEW os, NEW os2, NEW nk, CountedAt(x, os, nk), y.late = x.late,
         \A d \in Chans : y.chan[d].stray = x.chan[d].stray,
         NEW c \in Chans, \A d \in Chans : d # c => os2[d] = os[d],
         \A n \in Nicks : Refs(y, n) >= Refs(x, n),
         \A u \in os2[c] : Bot \in os2[c] /\ nk[u] \in Nicks =>
           \/ Refs(y, nk[u]) >= Refs(x, nk[u]) + 1
           \/ Bot \in os[c] /\ u \in os[c]
  PROVE  CountedAt(y, os2, nk)
  <1> SUFFICES ASSUME y.late = 0, NEW n \in Nicks
               PROVE  Refs(y, n) >= Cardinality(SeenAt(os2, nk, n))
    BY DEF CountedAt
  <1> DEFINE S == SeenAt(os, nk, n)
             T == SeenAt(os2, nk, n)
  <1>1. Refs(x, n) >= Cardinality(S)
    BY DEF CountedAt
  <1>2. Refs(x, n) \in Nat /\ Refs(y, n) \in Nat /\ Refs(y, n) >= Refs(x, n)
    BY DataFields
  <1>3. S \in SUBSET Chans /\ T \in SUBSET (S \cup {c})
    BY DEF SeenAt
  <1>4. c \in T => c \in S \/ Refs(y, n) >= Refs(x, n) + 1
    BY DEF SeenAt
  <1> HIDE DEF S, T
  <1>5. CASE c \in T /\ c \notin S
    <2>1. Cardinality(T) \in Nat /\ Cardinality(S) \in Nat /\ Cardinality(T) =< Cardinality(S) + 1
      BY <1>3, OneMore
    <2> QED
      BY <1>1, <1>2, <1>4, <1>5, <2>1 DEF T
  <1>6. CASE ~(c \in T /\ c \notin S)
    <2>1. T \in SUBSET S
      BY <1>3, <1>6
    <2>2. Cardinality(T) \in Nat /\ Cardinality(S) \in Nat /\ Cardinality(T) =< Cardinality(S)
      BY <1>3, <2>1, Fewer
    <2> QED
      BY <1>1, <1>2, <2>2 DEF T
  <1> QED
    BY <1>5, <1>6

LEMMA BotJoinKeeps ==
  ASSUME ChannelsInv, NEW c \in Chans, gotjoin_bot(c)
  PROVE  ChannelsInv'
  <1> DEFINE all == on[c] \cup {Bot}
             ch == b.chan[c]
             asking == <<Request("WHO", c), Request("BANS", c)>>
  <1>1. /\ Answered("JOIN", c) /\ Bot \notin on[c] /\ UNCHANGED <<nickOf, ops, bans>>
        /\ on' = [on EXCEPT ![c] = @ \cup {Bot}]
        /\ sent' = Tail(sent) \o asking
        /\ b' = got353(channel_on_join(b, c, Bot), c, all)
    BY DEF gotjoin_bot
  <1>2. nickOf[Bot] \in Nicks /\ Bot \in Users
    BY <1>1, InvFacts, ChannelsAssumption DEF Answered, me
  <1>3. /\ all \in SUBSET Users /\ Bot \in all /\ \A u \in all : nickOf[u] \in Nicks
        /\ on'[c] = all /\ \A d \in Chans : d # c => on'[d] = on[d]
    BY <1>1, <1>2, InvFacts
  <1> HIDE DEF all
  <1>4. /\ Only(b', b, c)
        /\ \E m : b'.chan[c] = WithJoin(b.chan[c], m) /\ NamesRead(b.chan[c], m, all, c)
        /\ \A u \in all : Refs(b', nickOf[u]) >= Refs(b, nickOf[u]) + 1
        /\ \A n \in Nicks : (\A u \in all : n # nickOf[u]) => Refs(b', n) = Refs(b, n)
    <2> HIDE DEF ch, asking
    <2>1. b \in Data /\ Named(nickOf)
      BY InvFacts
    <2> QED
      BY <1>1, <1>3, <2>1, BotJoinsData
  <1>5. PICK m : b'.chan[c] = WithJoin(ch, m) /\ NamesRead(ch, m, all, c)
    BY <1>4
  <1>6. ch \in Channel /\ Sound(ch, on[c], nickOf, ops[c], bans[c], Asked(sent, c))
        /\ There(nickOf, all, ops[c]) /\ Bot \notin ops[c] /\ Named(nickOf)
    <2>1. There(nickOf, on[c], ops[c]) /\ ops[c] \in SUBSET on[c]
      BY InvFacts
    <2>2. There(nickOf, all, ops[c]) /\ Bot \notin ops[c]
      BY <1>1, <1>3, <2>1 DEF There, all
    <2> QED
      BY <2>2, InvFacts
  <1>7. /\ WithJoin(ch, m) \in Channel /\ WithJoin(ch, m).stray = ch.stray
        /\ Sound(WithJoin(ch, m), all, nickOf, ops[c], bans[c], {NoUhost})
    <2> HIDE DEF ch, asking
    <2>1. Bot \notin on[c]
      BY <1>1
    <2> QED
      BY <1>3, <1>5, <1>6, <2>1, BotJoins
  <1>8. asking \in Seq(Requests) /\ asking = <<Request("WHO", c)>> \o <<Request("BANS", c)>>
    BY Asking
  <1>9. Tail(sent) \in Seq(Requests) /\ \A d \in Chans : Asked(sent, d) \subseteq Asked(Tail(sent), d)
    BY <1>1, AnswerRead
  <1>10. sent' \in Seq(Requests) /\ \A d \in Chans : Asked(sent, d) \subseteq Asked(sent', d)
    <2> HIDE DEF asking
    <2>1. \A d \in Chans : Asked(Tail(sent), d) \subseteq Asked(sent', d)
      BY <1>1, <1>8, <1>9, AskedMore
    <2> QED
      BY <1>1, <1>8, <1>9, <2>1
  <1>11. {NoUhost} \subseteq Asked(sent', c)
    <2> DEFINE w == Request("WHO", c)
               t == Tail(sent)
               k == Len(t) + 1
    <2>1. asking = <<w, Request("BANS", c)>> /\ t \in Seq(Requests) /\ sent' = t \o asking
      BY <1>1, <1>9
    <2> HIDE DEF w, t
    <2>2. k \in 1 .. Len(sent') /\ sent'[k] = w
      BY <2>1
    <2>3. Contains(sent', w)
      BY <2>2 DEF Contains
    <2> QED
      BY <2>3 DEF Asked, w
  <1> HIDE DEF ch
  <1>12. Truth'
    BY <1>1, <1>2, TruthJoin
  <1>13. DataType'
    <2>1. b' \in Data /\ b'.down = 0
      BY <1>4, InvFacts DEF Only
    <2> QED
      BY <1>1, <1>2, <1>10, <2>1 DEF DataType, me
  <1>14. ASSUME NEW d \in Chans
         PROVE  ChannelInv(d)'
    <2>1. CASE d = c
      <3> DEFINE w == WithJoin(ch, m)
                 later == Asked(sent', c)
                 one == {NoUhost}
      <3> HIDE DEF w, later, one
      <3>1. w \in Channel /\ Sound(w, all, nickOf, ops[c], bans[c], one) /\ one \subseteq later
        BY <1>7, <1>11 DEF w, later, one
      <3>2. Sound(w, all, nickOf, ops[c], bans[c], later)
        BY <3>1, Wider
      <3>3. Sound(b'.chan[c], on'[c], nickOf', ops'[c], bans'[c], Asked(sent', c))
        BY <1>1, <1>3, <1>5, <3>2 DEF w, later
      <3> QED
        BY <2>1, <3>3, SoundAfter
    <2>2. CASE d # c
      BY <1>1, <1>3, <1>4, <1>10, <2>2, StaysSound DEF Untouched, Only
    <2> QED
      BY <2>1, <2>2
  <1>15. Counted'
    <2> DEFINE y == b'
               os2 == on'
    <2>1. y \in Data /\ y.late = b.late /\ \A d \in Chans : y.chan[d].stray = b.chan[d].stray
      BY <1>4, <1>5, <1>7 DEF Only, ch
    <2>2. \A d \in Chans : d # c => os2[d] = on[d]
      BY <1>3
    <2>3. \A n \in Nicks : Refs(y, n) >= Refs(b, n)
      <3>1. \A n \in Nicks : Refs(b, n) \in Nat /\ Refs(y, n) \in Nat
        BY <2>1, InvFacts, DataFields
      <3> QED
        BY <1>4, <3>1
    <2>4. \A u \in os2[c] : Refs(y, nickOf[u]) >= Refs(b, nickOf[u]) + 1
      BY <1>3, <1>4
    <2>5. CountedAt(b, on, nickOf) /\ b \in Data
      BY CountedNow, InvFacts DEF ChannelsInv
    <2> HIDE DEF y, os2
    <2>6. CountedAt(y, os2, nickOf)
      BY <2>1, <2>2, <2>3, <2>4, <2>5, CountsMore
    <2> QED
      BY <1>1, <2>6, CountedAfter DEF y, os2
  <1> QED
    BY <1>12, <1>13, <1>14, <1>15, InvAfter

LEMMA JoinKeeps ==
  ASSUME ChannelsInv, NEW c \in Chans, NEW u \in Users, gotjoin(c, u)
  PROVE  ChannelsInv'
  <1>1. /\ u # Bot /\ u \notin on[c] /\ nickOf[u] \in Nicks
        /\ UNCHANGED <<nickOf, ops, bans, sent>>
        /\ on' = [on EXCEPT ![c] = @ \cup {u}]
        /\ b' = IF Bot \in on[c] THEN channel_on_join(b, c, u) ELSE b
    BY InvFacts DEF gotjoin, Online
  <1>2. on'[c] = on[c] \cup {u} /\ \A d \in Chans : d # c => on'[d] = on[d]
    BY <1>1, InvFacts
  <1> DEFINE ch == b.chan[c]
             all == on[c] \cup {u}
  <1>3. /\ ch \in Channel /\ Sound(ch, on[c], nickOf, ops[c], bans[c], Asked(sent, c))
        /\ There(nickOf, on[c], ops[c]) /\ Named(nickOf)
    BY InvFacts
  <1>4. Truth'
    BY <1>1, TruthJoin
  <1>5. CASE Bot \in on[c]
    <2> DEFINE l == Enter(ch.members, nickOf[u], u, {})
    <2> HIDE DEF ch
    <2>0. ch.known = 1 /\ ch = b.chan[c]
      BY <1>3, <1>5, SoundJoined DEF ch
    <2>1. /\ Only(b', b, c) /\ b'.chan[c] = WithMembers(ch, l)
          /\ Refs(b', nickOf[u]) = Refs(b, nickOf[u]) + 1
          /\ \A n \in Nicks : n # nickOf[u] => Refs(b', n) = Refs(b, n)
      BY <1>1, <1>5, <2>0, InvFacts, OtherJoinsData
    <2>2. Sound(WithMembers(ch, l), all, nickOf, ops[c], bans[c], Asked(sent, c))
      BY <1>1, <1>3, <1>5, OtherJoins
    <2>3. l \in Seq(Member) /\ WithMembers(ch, l).stray = ch.stray
      <3>1. ch.members \in Seq(Member) /\ u \in Uhosts /\ {} \in Flags
        BY <1>3, ChannelFields DEF Uhosts, Flags
      <3>2. l \in Seq(Member)
        BY <1>1, <3>1, EnterList
      <3> HIDE DEF l
      <3> QED
        BY <1>3, <3>2, MembersFields
    <2>4. DataType'
      BY <1>1, <2>1, InvFacts DEF DataType, Only, me
    <2>5. ASSUME NEW d \in Chans
          PROVE  ChannelInv(d)'
      <3>1. CASE d = c
        <4>1. Sound(b'.chan[c], on'[c], nickOf', ops'[c], bans'[c], Asked(sent', c))
          BY <1>1, <1>2, <2>1, <2>2
        <4> QED
          BY <3>1, <4>1, SoundAfter
      <3>2. CASE d # c
        BY <1>1, <1>2, <2>1, <3>2, StaysSound DEF Untouched, Only
      <3> QED
        BY <3>1, <3>2
    <2>6. Counted'
      <3> DEFINE y == b'
                 os2 == on'
      <3>1. y \in Data /\ y.late = b.late /\ \A d \in Chans : y.chan[d].stray = b.chan[d].stray
        BY <2>0, <2>1, <2>3 DEF Only
      <3>2. \A d \in Chans : d # c => os2[d] = on[d]
        BY <1>2
      <3>3. \A n \in Nicks : Refs(y, n) >= Refs(b, n)
        <4>1. \A n \in Nicks : Refs(b, n) \in Nat /\ Refs(y, n) \in Nat
          BY <3>1, InvFacts, DataFields
        <4> QED
          BY <2>1, <4>1
      <3>4. \A v \in os2[c] : Refs(y, nickOf[v]) >= Refs(b, nickOf[v]) + 1 \/ (Bot \in on[c] /\ v \in on[c])
        <4>1. Refs(b, nickOf[u]) \in Nat
          BY <1>1, InvFacts
        <4> QED
          BY <1>2, <1>5, <2>1, <4>1
      <3>5. CountedAt(b, on, nickOf) /\ b \in Data
        BY CountedNow, InvFacts DEF ChannelsInv
      <3> HIDE DEF y, os2
      <3>6. CountedAt(y, os2, nickOf)
        BY <3>1, <3>2, <3>3, <3>4, <3>5, CountsMore
      <3> QED
        BY <1>1, <3>6, CountedAfter DEF y, os2
    <2> QED
      BY <1>4, <2>4, <2>5, <2>6, InvAfter
  <1>6. CASE Bot \notin on[c]
    <2>1. b' = b /\ Bot \notin on'[c]
      BY <1>1, <1>2, <1>6
    <2>2. DataType'
      BY <1>1, <2>1, InvFacts DEF DataType, me
    <2>3. ASSUME NEW d \in Chans
          PROVE  ChannelInv(d)'
      <3>1. CASE d = c
        <4>1. Sound(ch, on'[c], nickOf, ops[c], bans[c], Asked(sent, c))
          <5> DEFINE os2 == on'[c]
          <5> HIDE DEF os2
          <5>1. Bot \notin os2
            BY <2>1 DEF os2
          <5>2. Sound(ch, os2, nickOf, ops[c], bans[c], Asked(sent, c))
            BY <1>3, <1>6, <5>1, Apart
          <5> QED
            BY <5>2 DEF os2
        <4>2. Sound(b'.chan[c], on'[c], nickOf', ops'[c], bans'[c], Asked(sent', c))
          BY <1>1, <2>1, <4>1
        <4> QED
          BY <3>1, <4>2, SoundAfter
      <3>2. CASE d # c
        BY <1>1, <1>2, <2>1, <3>2, StaysSound DEF Untouched
      <3> QED
        BY <3>1, <3>2
    <2>4. Counted'
      <3>1. \A n : SeenAt(on', nickOf, n) = SeenAt(on, nickOf, n)
        BY <1>2, <1>6, <2>1 DEF SeenAt
      <3>2. CountedAt(b, on, nickOf)
        BY CountedNow DEF ChannelsInv
      <3>3. CountedAt(b, on', nickOf)
        BY <3>1, <3>2 DEF CountedAt
      <3> QED
        BY <1>1, <2>1, <3>3, CountedAfter
    <2> QED
      BY <1>4, <2>2, <2>3, <2>4, InvAfter
  <1> QED
    BY <1>5, <1>6

\* Fewer users on a channel, each counted down if it is not seen there any more.
SeenThere(os, nk, c, n) == Bot \in os[c] /\ \E u \in os[c] : n = nk[u]

LEMMA CountsLess ==
  ASSUME NEW x \in Data, NEW y \in Data, NEW os, NEW os2, NEW nk, CountedAt(x, os, nk), y.late = x.late,
         x.late = 0 => \A d \in Chans : y.chan[d].stray = 0,
         NEW c \in Chans, \A d \in Chans : d # c => os2[d] = os[d],
         \A n \in Nicks : SeenThere(os2, nk, c, n) => SeenThere(os, nk, c, n),
         x.late = 0 => \A n \in Nicks :
           \/ Refs(y, n) >= Refs(x, n)
           \/ Refs(y, n) >= Refs(x, n) - 1 /\ SeenThere(os, nk, c, n) /\ ~ SeenThere(os2, nk, c, n)
  PROVE  CountedAt(y, os2, nk)
  <1> SUFFICES ASSUME y.late = 0, NEW n \in Nicks
               PROVE  Refs(y, n) >= Cardinality(SeenAt(os2, nk, n))
    BY DEF CountedAt
  <1> DEFINE S == SeenAt(os, nk, n)
             T == SeenAt(os2, nk, n)
  <1>1. Refs(x, n) >= Cardinality(S)
    BY DEF CountedAt
  <1>2. Refs(x, n) \in Nat /\ Refs(y, n) \in Nat
    BY DataFields
  <1>3. (c \in S <=> SeenThere(os, nk, c, n)) /\ (c \in T <=> SeenThere(os2, nk, c, n))
    BY DEF SeenAt, SeenThere
  <1>4. \A d \in Chans : d # c => (d \in T <=> d \in S)
    BY DEF SeenAt
  <1>5. S \in SUBSET Chans /\ T \in SUBSET Chans
    BY DEF SeenAt
  <1> HIDE DEF S, T
  <1>6. T \in SUBSET S
    BY <1>3, <1>4, <1>5
  <1>7. CASE Refs(y, n) >= Refs(x, n)
    <2>1. Cardinality(T) \in Nat /\ Cardinality(S) \in Nat /\ Cardinality(T) =< Cardinality(S)
      BY <1>5, <1>6, Fewer
    <2> QED
      BY <1>1, <1>2, <1>7, <2>1 DEF T
  <1>8. CASE Refs(y, n) >= Refs(x, n) - 1 /\ c \in S /\ c \notin T
    <2>1. T \in SUBSET (S \ {c}) /\ c \in S
      BY <1>6, <1>8
    <2>2. Cardinality(T) \in Nat /\ Cardinality(S) \in Nat /\ Cardinality(T) =< Cardinality(S) - 1
      BY <1>5, <2>1, OneLess
    <2> QED
      BY <1>1, <1>2, <1>8, <2>2 DEF T
  <1> QED
    BY <1>3, <1>7, <1>8

\* Without late answers only those who are on a channel are listed there, once.
LEMMA ClearList ==
  ASSUME ChannelsInv, NEW c \in Chans, Bot \in on[c], b.chan[c].stray = 0
  PROVE  /\ NoTwice(b.chan[c].members)
         /\ \A n \in NicksIn(b.chan[c].members) : \E u \in on[c] : n = nickOf[u]
  <1> DEFINE ch == b.chan[c]
  <1>1. ch \in Channel /\ Sound(ch, on[c], nickOf, ops[c], bans[c], Asked(sent, c)) /\ ch.members \in Seq(Member)
    BY InvFacts
  <1> HIDE DEF ch
  <1>2. AllRight(ch.members, on[c], nickOf, ops[c], Asked(sent, c))
    BY <1>1, SoundJoined DEF ch
  <1>3. NoTwice(ch.members) /\ \A i \in DOMAIN ch.members : \E u \in on[c] : ch.members[i].nick = nickOf[u]
    BY <1>2 DEF AllRight, Right
  <1>4. \A n \in NicksIn(ch.members) : \E u \in on[c] : n = nickOf[u]
    BY <1>3 DEF NicksIn
  <1> QED
    BY <1>3, <1>4 DEF ch

\* No request for hosts is gone.
Waiting == sent' \in Seq(Requests) /\ \A d \in Chans : Asked(sent, d) \subseteq Asked(sent', d)

LEMMA BotOffKeeps ==
  ASSUME ChannelsInv, NEW c \in Chans, Bot \in on[c], Off(c, Bot), b' = channel_on_leave(b, c, me),
         UNCHANGED <<nickOf, bans>>, Waiting
  PROVE  ChannelsInv'
  <1> DEFINE ch == b.chan[c]
  <1>1. /\ me \in Nicks /\ b \in Data /\ ch \in Channel /\ ch = b.chan[c]
        /\ Sound(ch, on[c], nickOf, ops[c], bans[c], Asked(sent, c)) /\ ch.members \in Seq(Member)
    BY InvFacts DEF me
  <1>2. /\ on'[c] = on[c] \ {Bot} /\ \A d \in Chans : d # c => on'[d] = on[d] /\ ops'[d] = ops[d]
    BY InvFacts DEF Off
  <1>3. ch.known = 1 /\ Places(ch.members, me) # {}
    <2> HIDE DEF ch
    <2>1. ch.known = 1 /\ nickOf[Bot] \in NicksIn(ch.members)
      BY <1>1, SoundJoined
    <2> QED
      BY <1>1, <2>1, ListedPlaces DEF me
  <1>4. /\ b' \in Data /\ b'.down = b.down /\ b'.late = b.late
        /\ \E k \in Bit, s \in Bit : b'.chan[c] = Offline(k, s)
        /\ \A d \in Chans : d # c => b'.chan[d] = b.chan[d]
        /\ \A n \in Nicks : n \notin NicksIn(ch.members) => Refs(b', n) = Refs(b, n)
        /\ NoTwice(ch.members) => \A n \in Nicks : Refs(b', n) >= Refs(b, n) - 1
    BY <1>1, <1>3, BotLeaves
  <1>5. PICK k \in Bit, s \in Bit : b'.chan[c] = Offline(k, s)
    BY <1>4
  <1>6. Truth'
    BY TruthOff
  <1>7. DataType'
    BY <1>1, <1>4, InvFacts DEF DataType, Waiting, me
  <1>8. ASSUME NEW d \in Chans
        PROVE  ChannelInv(d)'
    <2>1. CASE d = c
      <3>1. Bot \notin on'[c]
        BY <1>2
      <3>2. Sound(b'.chan[c], on'[c], nickOf', ops'[c], bans'[c], Asked(sent', c))
        <4> DEFINE os2 == on'[c]
                   nk2 == nickOf'
                   ops2 == ops'[c]
                   bans2 == bans'[c]
                   later == Asked(sent', c)
        <4> HIDE DEF os2, nk2, ops2, bans2, later
        <4>1. Bot \notin os2
          BY <3>1 DEF os2
        <4>2. Sound(Offline(k, s), os2, nk2, ops2, bans2, later)
          BY <4>1, OfflineSound
        <4> QED
          BY <1>5, <4>2 DEF os2, nk2, ops2, bans2, later
      <3> QED
        BY <2>1, <3>2, SoundAfter
    <2>2. CASE d # c
      BY <1>2, <1>4, <2>2, StaysSound DEF Untouched, Waiting
    <2> QED
      BY <2>1, <2>2
  <1>9. Counted'
    <2> DEFINE y == b'
               os2 == on'
    <2>1. y \in Data /\ y.late = b.late /\ (b.late = 0 => \A d \in Chans : y.chan[d].stray = 0)
      BY <1>4, <1>5, OfflineChannel, NoStray
    <2>2. \A d \in Chans : d # c => os2[d] = on[d]
      BY <1>2
    <2>3. \A n \in Nicks : ~ SeenThere(os2, nickOf, c, n)
      BY <1>2 DEF SeenThere
    <2>4. b.late = 0 => \A n \in Nicks :
            \/ Refs(y, n) >= Refs(b, n)
            \/ Refs(y, n) >= Refs(b, n) - 1 /\ SeenThere(on, nickOf, c, n)
      <3> SUFFICES ASSUME b.late = 0, NEW n \in Nicks
                   PROVE  \/ Refs(y, n) >= Refs(b, n)
                          \/ Refs(y, n) >= Refs(b, n) - 1 /\ SeenThere(on, nickOf, c, n)
        OBVIOUS
      <3>1. ch.stray = 0
        BY NoStray
      <3>2. NoTwice(ch.members) /\ \A k2 \in NicksIn(ch.members) : \E u \in on[c] : k2 = nickOf[u]
        BY <3>1, ClearList
      <3>3. CASE n \in NicksIn(ch.members)
        BY <1>4, <3>2, <3>3 DEF SeenThere
      <3>4. CASE n \notin NicksIn(ch.members)
        <4>1. Refs(y, n) = Refs(b, n) /\ Refs(b, n) \in Nat
          BY <1>4, <3>4, InvFacts
        <4> QED
          BY <4>1
      <3> QED
        BY <3>3, <3>4
    <2>5. CountedAt(b, on, nickOf)
      BY CountedNow DEF ChannelsInv
    <2> HIDE DEF y, os2
    <2>6. CountedAt(y, os2, nickOf)
      BY <1>1, <2>1, <2>2, <2>3, <2>4, <2>5, CountsLess
    <2> QED
      BY <2>6, CountedAfter DEF y, os2
  <1> QED
    BY <1>6, <1>7, <1>8, <1>9, InvAfter

LEMMA OtherOffKeeps ==
  ASSUME ChannelsInv, NEW c \in Chans, Bot \in on[c], NEW u \in on[c], u # Bot, Off(c, u),
         b' = channel_on_leave(b, c, nickOf[u]), UNCHANGED <<nickOf, bans, sent>>
  PROVE  ChannelsInv'
  <1> DEFINE ch == b.chan[c]
             n0 == nickOf[u]
  <1>1. /\ b \in Data /\ ch \in Channel /\ ch = b.chan[c]
        /\ Sound(ch, on[c], nickOf, ops[c], bans[c], Asked(sent, c))
        /\ Named(nickOf) /\ There(nickOf, on[c], ops[c]) /\ u \in Users /\ n0 \in Nicks
    BY InvFacts
  <1>2. /\ on'[c] = on[c] \ {u} /\ ops'[c] = ops[c] \ {u}
        /\ \A d \in Chans : d # c => on'[d] = on[d] /\ ops'[d] = ops[d]
    BY InvFacts DEF Off
  <1>3. \A v \in Users : v # u => nickOf[v] # n0
    BY <1>1, ChannelsAssumption DEF Named
  <1>4. n0 # me
    BY <1>3, ChannelsAssumption DEF me
  <1> HIDE DEF ch, n0
  <1>5. /\ b' \in Data /\ b'.down = b.down /\ b'.late = b.late
        /\ b'.chan[c] = Left(ch, n0)
        /\ \A d \in Chans : d # c => b'.chan[d] = b.chan[d]
        /\ Refs(b', n0) >= Refs(b, n0) - 1
        /\ \A n \in Nicks : n # n0 => Refs(b', n) = Refs(b, n)
    <2>1. b' = channel_on_leave(b, c, n0)
      BY DEF n0
    <2> QED
      BY <1>1, <1>4, <2>1, Leave
  <1>6. Truth'
    BY TruthOff
  <1>7. DataType'
    BY <1>1, <1>5, InvFacts DEF DataType, me
  <1>8. ASSUME NEW d \in Chans
        PROVE  ChannelInv(d)'
    <2>1. CASE d = c
      <3>1. Sound(Left(ch, n0), on[c] \ {u}, nickOf, ops[c] \ {u}, bans[c], Asked(sent, c))
        BY <1>1, OtherLeaves DEF n0
      <3>2. Sound(b'.chan[c], on'[c], nickOf', ops'[c], bans'[c], Asked(sent', c))
        BY <1>2, <1>5, <3>1
      <3> QED
        BY <2>1, <3>2, SoundAfter
    <2>2. CASE d # c
      BY <1>2, <1>5, <2>2, StaysSound DEF Untouched
    <2> QED
      BY <2>1, <2>2
  <1>9. Counted'
    <2> DEFINE y == b'
               os2 == on'
    <2>1. y \in Data /\ y.late = b.late /\ (b.late = 0 => \A d \in Chans : y.chan[d].stray = 0)
      BY <1>1, <1>5, LeftChannel, NoStray
    <2>2. \A d \in Chans : d # c => os2[d] = on[d]
      BY <1>2
    <2>3. \A n \in Nicks : SeenThere(os2, nickOf, c, n) => SeenThere(on, nickOf, c, n)
      BY <1>2 DEF SeenThere
    <2>4. SeenThere(on, nickOf, c, n0) /\ ~ SeenThere(os2, nickOf, c, n0)
      <3>1. \A v \in on[c] \ {u} : nickOf[v] # n0
        BY <1>3, InvFacts
      <3> QED
        BY <1>2, <3>1 DEF SeenThere, n0
    <2>5. \A n \in Nicks : n = n0 \/ Refs(y, n) >= Refs(b, n)
      <3>1. \A n \in Nicks : Refs(b, n) \in Nat
        BY InvFacts
      <3> QED
        BY <1>5, <3>1
    <2>6. CountedAt(b, on, nickOf)
      BY CountedNow DEF ChannelsInv
    <2>7. Refs(y, n0) >= Refs(b, n0) - 1
      BY <1>5
    <2> HIDE DEF y, os2
    <2>8. CountedAt(y, os2, nickOf)
      BY <1>1, <2>1, <2>2, <2>3, <2>4, <2>5, <2>6, <2>7, CountsLess
    <2> QED
      BY <2>8, CountedAfter DEF y, os2
  <1> QED
    BY <1>6, <1>7, <1>8, <1>9, InvAfter

\* One leaves a channel the bot is not on.
LEMMA OffApartKeeps ==
  ASSUME ChannelsInv, NEW c \in Chans, Bot \notin on[c], NEW u \in on[c], Off(c, u),
         UNCHANGED <<nickOf, bans, sent, b>>
  PROVE  ChannelsInv'
  <1>1. /\ on'[c] = on[c] \ {u}
        /\ \A d \in Chans : d # c => on'[d] = on[d] /\ ops'[d] = ops[d]
    BY InvFacts DEF Off
  <1>2. Truth'
    BY TruthOff
  <1>3. DataType'
    BY InvFacts DEF DataType, me
  <1>4. ASSUME NEW d \in Chans
        PROVE  ChannelInv(d)'
    <2>1. CASE d = c
      <3>1. b.chan[c] \in Channel /\ Sound(b.chan[c], on[c], nickOf, ops[c], bans[c], Asked(sent, c))
        BY InvFacts
      <3> DEFINE os2 == on'[c]
                 ops2 == ops'[c]
      <3>2. Bot \notin os2
        BY <1>1
      <3> HIDE DEF os2, ops2
      <3>3. Sound(b.chan[c], os2, nickOf, ops2, bans[c], Asked(sent, c))
        BY <3>1, <3>2, Apart
      <3>4. Sound(b'.chan[c], on'[c], nickOf', ops'[c], bans'[c], Asked(sent', c))
        BY <3>3 DEF os2, ops2
      <3> QED
        BY <2>1, <3>4, SoundAfter
    <2>2. CASE d # c
      BY <1>1, <2>2, StaysSound DEF Untouched
    <2> QED
      BY <2>1, <2>2
  <1>5. Counted'
    <2>1. \A n : SeenAt(on', nickOf, n) = SeenAt(on, nickOf, n)
      BY <1>1 DEF SeenAt
    <2>2. CountedAt(b, on, nickOf)
      BY CountedNow DEF ChannelsInv
    <2>3. CountedAt(b, on', nickOf)
      BY <2>1, <2>2 DEF CountedAt
    <2> QED
      BY <2>3, CountedAfter
  <1> QED
    BY <1>2, <1>3, <1>4, <1>5, InvAfter

LEMMA PartKeeps ==
  ASSUME ChannelsInv, NEW c \in Chans, NEW u \in Users, gotpart(c, u)
  PROVE  ChannelsInv'
  <1>1. /\ u \in on[c] /\ Off(c, u) /\ UNCHANGED <<nickOf, bans, sent>>
        /\ b' = IF Bot \in on[c] THEN channel_on_leave(b, c, nickOf[u]) ELSE b
    BY DEF gotpart
  <1>2. CASE Bot \notin on[c]
    BY <1>1, <1>2, OffApartKeeps
  <1>3. CASE Bot \in on[c] /\ u # Bot
    BY <1>1, <1>3, OtherOffKeeps
  <1>4. CASE Bot \in on[c] /\ u = Bot
    <2>1. Waiting
      BY <1>1, InvFacts DEF Waiting
    <2>2. b' = channel_on_leave(b, c, me)
      BY <1>1, <1>4 DEF me
    <2> QED
      BY <1>1, <1>4, <2>1, <2>2, BotOffKeeps
  <1> QED
    BY <1>2, <1>3, <1>4

LEMMA PartDoneKeeps ==
  ASSUME ChannelsInv, NEW c \in Chans, PartDone(c)
  PROVE  ChannelsInv'
  <1>1. Answered("PART", c) /\ sent' = Tail(sent) /\ UNCHANGED <<nickOf, bans>>
    BY DEF PartDone
  <1>2. CASE Bot \in on[c]
    <2>1. Off(c, Bot) /\ b' = channel_on_leave(b, c, me)
      BY <1>2 DEF PartDone
    <2>2. Waiting
      BY <1>1, AnswerRead DEF Waiting
    <2> QED
      BY <1>1, <1>2, <2>1, <2>2, BotOffKeeps
  <1>3. CASE Bot \notin on[c]
    <2>1. UNCHANGED <<on, ops, b>>
      BY <1>3 DEF PartDone
    <2> QED
      BY <1>1, <2>1, AnswerKeeps
  <1> QED
    BY <1>2, <1>3

LEMMA QuitKeeps ==
  ASSUME ChannelsInv, NEW u \in Users, gotquit(u)
  PROVE  ChannelsInv'
  <1> DEFINE n0 == nickOf[u]
             nk2 == [nickOf EXCEPT ![u] = NoNick]
  <1>1. /\ u # Bot /\ n0 \in Nicks /\ nickOf' = nk2 /\ Gone({u}) /\ UNCHANGED <<bans, sent>>
        /\ b' = IF Visible(u) THEN channel_on_quit(b, n0) ELSE b
    BY InvFacts DEF gotquit, Online
  <1>2. /\ \A c \in Chans : on'[c] = on[c] \ {u} /\ ops'[c] = ops[c] \ {u}
    BY <1>1, InvFacts DEF Gone
  <1>3. nk2 \in [Users -> Nicks \cup {NoNick}] /\ nk2[u] = NoNick /\ \A v \in Users : v # u => nk2[v] = nickOf[v]
    BY InvFacts
  <1>4. \A v \in Users : v # u => nickOf[v] # n0
    BY <1>1, InvFacts, ChannelsAssumption DEF Named
  <1>5. n0 # me /\ nk2[Bot] = nickOf[Bot]
    BY <1>1, <1>3, <1>4, ChannelsAssumption DEF me
  <1>6. Truth'
    BY <1>1, TruthGone
  <1> HIDE DEF n0, nk2
  <1>7. /\ b' \in Data /\ b'.down = b.down /\ b'.late = b.late
        /\ \A c \in Chans : b'.chan[c].stray = b.chan[c].stray
        /\ \A k \in Nicks : k # n0 => Refs(b', k) = Refs(b, k)
        /\ Visible(u) => \A c \in Chans : b'.chan[c] = Left(b.chan[c], n0)
    <2>1. CASE Visible(u)
      <3>1. /\ b' \in Data /\ b'.down = b.down /\ b'.late = b.late
            /\ \A c \in Chans : b'.chan[c] = Left(b.chan[c], n0)
            /\ \A k \in Nicks : k # n0 => Refs(b', k) = Refs(b, k)
        <4>1. b' = channel_on_quit(b, n0) /\ b \in Data
          BY <1>1, <2>1, InvFacts
        <4> QED
          BY <1>1, <1>5, <4>1, QuitEffect
      <3> QED
        BY <3>1, InvFacts, LeftChannel
    <2>2. CASE ~ Visible(u)
      BY <1>1, <2>2, InvFacts
    <2> QED
      BY <2>1, <2>2
  <1>8. DataType'
    BY <1>1, <1>5, <1>7, InvFacts DEF DataType, me
  <1>9. ASSUME NEW c \in Chans
        PROVE  ChannelInv(c)'
    <2> DEFINE ch == b.chan[c]
               os2 == on[c] \ {u}
               ops2 == ops[c] \ {u}
               asked == Asked(sent, c)
    <2>1. /\ ch \in Channel /\ Sound(ch, on[c], nickOf, ops[c], bans[c], asked)
          /\ Named(nickOf) /\ There(nickOf, on[c], ops[c]) /\ on[c] \in SUBSET Users /\ ops[c] \in SUBSET on[c]
      BY InvFacts
    <2>2. on'[c] = os2 /\ ops'[c] = ops2
      BY <1>2
    <2>3. \A v \in os2 : nk2[v] = nickOf[v]
      BY <1>3, <2>1
    <2>4. Sound(b'.chan[c], os2, nk2, ops2, bans[c], asked)
      <3>1. CASE Visible(u) /\ Bot \in on[c]
        <4>1. b'.chan[c] = Left(ch, n0)
          BY <1>7, <3>1
        <4>2. Left(ch, n0) \in Channel
          BY <2>1, LeftChannel
        <4>3. Sound(Left(ch, n0), on[c] \ {u}, nickOf, ops[c] \ {u}, bans[c], asked)
          <5> HIDE DEF ch, asked
          <5> QED
            BY <1>1, <2>1, <3>1, OtherLeaves DEF n0
        <4> HIDE DEF ch, asked, os2, ops2
        <4>4. Sound(Left(ch, n0), os2, nickOf, ops2, bans[c], asked)
          BY <4>3 DEF os2, ops2
        <4>5. Sound(Left(ch, n0), os2, nk2, ops2, bans[c], asked)
          BY <2>3, <4>2, <4>4, Wider
        <4> QED
          BY <4>1, <4>5
      <3>2. CASE Visible(u) /\ Bot \notin on[c]
        <4>1. b'.chan[c] = Left(ch, n0) /\ Bot \notin os2
          BY <1>7, <3>2
        <4> HIDE DEF ch, asked, os2, ops2
        <4>2. Sound(Left(ch, n0), os2, nk2, ops2, bans[c], asked)
          BY <2>1, <3>2, <4>1, LeaveApart
        <4> QED
          BY <4>1, <4>2
      <3>3. CASE ~ Visible(u) /\ Bot \in on[c]
        <4>1. b'.chan[c] = ch
          BY <1>1, <3>3
        <4>2. os2 = on[c] /\ ops2 = ops[c]
          BY <2>1, <3>3 DEF Visible
        <4> HIDE DEF ch, asked, os2, ops2
        <4>3. Sound(ch, os2, nk2, ops2, bans[c], asked)
          BY <2>1, <2>3, <4>2, Wider
        <4> QED
          BY <4>1, <4>3
      <3>4. CASE ~ Visible(u) /\ Bot \notin on[c]
        <4>1. b'.chan[c] = ch /\ Bot \notin os2
          BY <1>1, <3>4
        <4> HIDE DEF ch, asked, os2, ops2
        <4>2. Sound(ch, os2, nk2, ops2, bans[c], asked)
          BY <2>1, <3>4, <4>1, Apart
        <4> QED
          BY <4>1, <4>2
      <3> QED
        BY <3>1, <3>2, <3>3, <3>4
    <2>5. Sound(b'.chan[c], on'[c], nickOf', ops'[c], bans'[c], Asked(sent', c))
      BY <1>1, <2>2, <2>4
    <2> QED
      BY <2>5, SoundAfter
  <1>10. Counted'
    <2> DEFINE y == b'
               os2 == on'
    <2>1. ASSUME y.late = 0, NEW n \in Nicks
          PROVE  Refs(y, n) >= Cardinality(SeenAt(os2, nk2, n))
      <3> DEFINE S == SeenAt(on, nickOf, n)
                 T == SeenAt(os2, nk2, n)
      <3>1. Refs(b, n) >= Cardinality(S)
        BY <1>5, <1>7, <2>1, CountedNow DEF ChannelsInv, CountedAt
      <3>2. Refs(b, n) \in Nat /\ Refs(y, n) \in Nat
        BY <1>7, InvFacts, DataFields
      <3>3. \A c \in Chans : \A v \in on'[c] : v \in Users /\ v \in on[c] /\ v # u /\ nk2[v] = nickOf[v]
        BY <1>2, <1>3, InvFacts
      <3>4. T \in SUBSET S /\ S \in SUBSET Chans
        BY <1>2, <3>3 DEF SeenAt
      <3>5. n = n0 => T = {}
        BY <1>4, <3>3 DEF SeenAt
      <3> HIDE DEF S, T
      <3>6. CASE n = n0
        <4>1. Cardinality(T) = 0
          BY <3>5, <3>6, NobodySeen
        <4> QED
          BY <3>2, <4>1 DEF T
      <3>7. CASE n # n0
        <4>1. Refs(y, n) = Refs(b, n)
          BY <1>7, <3>7
        <4>2. Cardinality(T) \in Nat /\ Cardinality(S) \in Nat /\ Cardinality(T) =< Cardinality(S)
          BY <3>4, Fewer
        <4> QED
          BY <3>1, <3>2, <4>1, <4>2 DEF T
      <3> QED
        BY <3>6, <3>7
    <2>2. y.late = 0 => \A c \in Chans : y.chan[c].stray = 0
      BY <1>7, NoStray
    <2> HIDE DEF y, os2
    <2>3. CountedAt(y, os2, nk2)
      BY <2>1, <2>2 DEF CountedAt
    <2> QED
      BY <1>1, <2>3, CountedAfter DEF y, os2
  <1> QED
    BY <1>6, <1>8, <1>9, <1>10, InvAfter

\* A nick changes; its count goes to the new one.
LEMMA CountsNick ==
  ASSUME NEW x \in Data, NEW y \in Data, NEW os \in [Chans -> SUBSET Users], NEW nk, Named(nk),
         CountedAt(x, os, nk), y.late = x.late, x.late = 0 => \A c \in Chans : y.chan[c].stray = 0,
         NEW u \in Users, nk[u] \in Nicks, NEW new \in Nicks, \A v \in Users : nk[v] # new,
         \A k \in Nicks : k # nk[u] /\ k # new => Refs(y, k) = Refs(x, k),
         \/ Refs(y, new) >= Refs(x, nk[u])
         \/ \A c \in Chans : Bot \in os[c] => u \notin os[c]
  PROVE  CountedAt(y, os, [nk EXCEPT ![u] = new])
  <1> DEFINE nk2 == [nk EXCEPT ![u] = new]
             old == nk[u]
  <1>1. /\ nk \in [Users -> Nicks \cup {NoNick}]
        /\ nk2[u] = new /\ \A v \in Users : v # u => nk2[v] = nk[v] /\ nk[v] # old
    BY ChannelsAssumption DEF Named
  <1> HIDE DEF nk2
  <1> SUFFICES ASSUME y.late = 0, NEW n \in Nicks
               PROVE  Refs(y, n) >= Cardinality(SeenAt(os, nk2, n))
    BY DEF CountedAt, nk2
  <1> DEFINE T == SeenAt(os, nk2, n)
  <1>2. Refs(y, n) \in Nat /\ Refs(x, n) \in Nat /\ Refs(x, old) \in Nat
    BY DataFields
  <1>3. T \in SUBSET Chans
    BY DEF SeenAt
  <1>4. CASE n = old
    <2>1. T = {}
      BY <1>1, <1>4 DEF SeenAt
    <2>2. Cardinality(T) = 0
      BY <2>1, NobodySeen
    <2> QED
      BY <1>2, <2>2
  <1>5. CASE n = new /\ \A c \in Chans : Bot \in os[c] => u \notin os[c]
    <2>1. T = {}
      BY <1>1, <1>5 DEF SeenAt
    <2>2. Cardinality(T) = 0
      BY <2>1, NobodySeen
    <2> QED
      BY <1>2, <2>2
  <1>6. CASE n = new /\ Refs(y, new) >= Refs(x, old)
    <2> DEFINE S == SeenAt(os, nk, old)
    <2>2. Refs(x, old) >= Cardinality(S)
      BY DEF CountedAt
    <2>3. T \in SUBSET S /\ S \in SUBSET Chans
      BY <1>1, <1>6 DEF SeenAt
    <2> HIDE DEF S, T
    <2>4. Cardinality(T) \in Nat /\ Cardinality(S) \in Nat /\ Cardinality(T) =< Cardinality(S)
      BY <2>3, Fewer
    <2> QED
      BY <1>2, <1>6, <2>2, <2>4 DEF T
  <1>7. CASE n # old /\ n # new
    <2> DEFINE S == SeenAt(os, nk, n)
    <2>2. Refs(x, n) >= Cardinality(S)
      BY DEF CountedAt
    <2>3. T \in SUBSET S /\ S \in SUBSET Chans
      BY <1>1, <1>7 DEF SeenAt
    <2> HIDE DEF S, T
    <2>4. Cardinality(T) \in Nat /\ Cardinality(S) \in Nat /\ Cardinality(T) =< Cardinality(S)
      BY <2>3, Fewer
    <2> QED
      BY <1>2, <1>7, <2>2, <2>4 DEF T
  <1> QED
    BY <1>4, <1>5, <1>6, <1>7

LEMMA NickData ==
  ASSUME NEW x \in Data, NEW old \in Nicks, NEW new \in Nicks, old # new,
         NEW y \in channel_on_nick(x, old, new), x.down # 2, y.down # 2
  PROVE  /\ y \in Data /\ y.down = x.down /\ y.late = x.late
         /\ \A c \in Chans : y.chan[c] = Renamed(x.chan[c], old, new) /\ y.chan[c].stray = x.chan[c].stray
         /\ Refs(y, new) >= Refs(x, old)
         /\ \A k \in Nicks : k # old /\ k # new => Refs(y, k) = Refs(x, k)
  <1> DEFINE R(z) == [c \in Chans |-> Renamed(z.chan[c], old, new)]
  <1>1. PICK z \in uhost_cache_swap(x, old, new) : y = [z EXCEPT !.chan = R(z)]
    BY DEF channel_on_nick, Renamed
  <1>0. z.down = y.down
    BY <1>1 DEF Data, uhost_cache_swap
  <1>2. /\ z \in Data /\ SameChannels(z, x) /\ Refs(z, new) >= Refs(x, old)
        /\ \A k \in Nicks : k # old /\ k # new => Refs(z, k) = Refs(x, k)
    BY <1>0, Swap
  <1>3. R(z) \in [Chans -> Channel] /\ \A c \in Chans : R(z)[c] = Renamed(x.chan[c], old, new)
    <2>1. \A c \in Chans : x.chan[c] \in Channel /\ z.chan[c] = x.chan[c]
      BY <1>2, DataFields DEF SameChannels
    <2> QED
      BY <2>1, RenamedChannel
  <1> DEFINE r == R(z)
  <1> HIDE DEF r
  <1>4. /\ y \in Data /\ y.chan = r /\ y.cache = z.cache /\ y.down = z.down /\ y.late = z.late
    BY <1>1, <1>2, <1>3 DEF Data, r
  <1>5. \A k \in Nicks : Refs(y, k) = Refs(z, k)
    BY <1>4 DEF Refs
  <1>6. \A c \in Chans : y.chan[c] = Renamed(x.chan[c], old, new)
    BY <1>3, <1>4 DEF r
  <1>7. \A c \in Chans : Renamed(x.chan[c], old, new).stray = x.chan[c].stray
    BY DataFields, RenamedChannel
  <1> QED
    BY <1>2, <1>4, <1>5, <1>6, <1>7 DEF SameChannels

LEMMA NickKeeps ==
  ASSUME ChannelsInv, NEW u \in Users, gotnick(u), b'.down # 2
  PROVE  ChannelsInv'
  <1> DEFINE old == nickOf[u]
             seen == u = Bot \/ Visible(u)
  <1>1. old \in Nicks /\ UNCHANGED <<on, ops, bans, sent>>
    BY InvFacts DEF gotnick, Online
  <1>2. PICK n \in FreeNicks :
          /\ nickOf' = [nickOf EXCEPT ![u] = n]
          /\ b' \in IF seen THEN channel_on_nick(b, old, n) ELSE {b}
    BY DEF gotnick
  <1> DEFINE nk2 == [nickOf EXCEPT ![u] = n]
  <1>3. n \in Nicks /\ \A v \in Users : nickOf[v] # n
    BY DEF FreeNicks
  <1>4. Truth'
    BY <1>1, <1>2, TruthNick
  <1>5. /\ Named(nickOf) /\ nk2 \in [Users -> Nicks \cup {NoNick}] /\ nk2[u] = n
        /\ \A v \in Users : v # u => nk2[v] = nickOf[v]
    BY <1>3, InvFacts
  <1> HIDE DEF old, nk2
  <1>6. old # n
    BY <1>3 DEF old
  <1>7. /\ b' \in Data /\ b'.down = b.down /\ b'.late = b.late
        /\ \A c \in Chans : b'.chan[c].stray = b.chan[c].stray
        /\ seen => \A c \in Chans : b'.chan[c] = Renamed(b.chan[c], old, n)
        /\ seen => Refs(b', n) >= Refs(b, old)
        /\ ~ seen => b' = b
        /\ \A k \in Nicks : k # old /\ k # n => Refs(b', k) = Refs(b, k)
    <2>1. CASE seen
      <3>1. b' \in channel_on_nick(b, old, n) /\ b \in Data
        BY <1>2, <2>1, InvFacts
      <3> HIDE DEF seen
      <3>2. /\ b' \in Data /\ b'.down = b.down /\ b'.late = b.late
            /\ \A c \in Chans : b'.chan[c] = Renamed(b.chan[c], old, n) /\ b'.chan[c].stray = b.chan[c].stray
            /\ Refs(b', n) >= Refs(b, old)
            /\ \A k \in Nicks : k # old /\ k # n => Refs(b', k) = Refs(b, k)
        BY <1>1, <1>3, <1>6, <3>1, InvFacts, NickData
      <3> QED
        BY <2>1, <3>2
    <2>2. CASE ~ seen
      BY <1>2, <2>2, InvFacts
    <2> QED
      BY <2>1, <2>2
  <1>8. DataType'
    <2>1. me \in Nicks => me' \in Nicks
      BY <1>2, <1>3, <1>5, ChannelsAssumption DEF me, nk2
    <2> QED
      BY <1>1, <1>7, <2>1, InvFacts DEF DataType
  <1>9. ASSUME NEW c \in Chans
        PROVE  ChannelInv(c)'
    <2> DEFINE ch == b.chan[c]
               asked == Asked(sent, c)
    <2>1. /\ ch \in Channel /\ Sound(ch, on[c], nickOf, ops[c], bans[c], asked)
          /\ Named(nickOf) /\ There(nickOf, on[c], ops[c]) /\ on[c] \in SUBSET Users
      BY InvFacts
    <2>2. Sound(b'.chan[c], on[c], nk2, ops[c], bans[c], asked)
      <3>1. CASE seen /\ Bot \in on[c]
        <4>1. b'.chan[c] = Renamed(ch, old, n)
          BY <1>7, <3>1
        <4> HIDE DEF ch, asked, seen
        <4>2. Sound(Renamed(ch, nickOf[u], n), on[c], [nickOf EXCEPT ![u] = n], ops[c], bans[c], asked)
          BY <1>1, <1>3, <2>1, <3>1, Renames DEF old
        <4> QED
          BY <4>1, <4>2 DEF old, nk2
      <3>2. CASE seen /\ Bot \notin on[c]
        <4>1. b'.chan[c] = Renamed(ch, old, n)
          BY <1>7, <3>2
        <4> HIDE DEF ch, asked, seen
        <4>2. Sound(Renamed(ch, old, n), on[c], nk2, ops[c], bans[c], asked)
          BY <1>3, <2>1, <3>2, RenamedApart
        <4> QED
          BY <4>1, <4>2
      <3>3. CASE ~ seen /\ Bot \in on[c]
        <4>1. b'.chan[c] = ch
          BY <1>7, <3>3
        <4>2. \A v \in on[c] : nk2[v] = nickOf[v]
          BY <1>5, <2>1, <3>3 DEF Visible
        <4> HIDE DEF ch, asked, seen
        <4>3. Sound(ch, on[c], nk2, ops[c], bans[c], asked)
          BY <2>1, <4>2, Wider
        <4> QED
          BY <4>1, <4>3
      <3>4. CASE ~ seen /\ Bot \notin on[c]
        <4>1. b'.chan[c] = ch
          BY <1>7, <3>4
        <4> HIDE DEF ch, asked, seen
        <4>2. Sound(ch, on[c], nk2, ops[c], bans[c], asked)
          BY <2>1, <3>4, Apart
        <4> QED
          BY <4>1, <4>2
      <3> QED
        BY <3>1, <3>2, <3>3, <3>4
    <2>3. Sound(b'.chan[c], on'[c], nickOf', ops'[c], bans'[c], Asked(sent', c))
      BY <1>1, <1>2, <2>2 DEF nk2
    <2> QED
      BY <2>3, SoundAfter
  <1>10. Counted'
    <2> DEFINE y == b'
    <2>1. y \in Data /\ y.late = b.late /\ (b.late = 0 => \A c \in Chans : y.chan[c].stray = 0)
      BY <1>7, NoStray
    <2>2. Refs(y, n) >= Refs(b, old) \/ \A c \in Chans : Bot \in on[c] => u \notin on[c]
      BY <1>7 DEF Visible
    <2>3. CountedAt(b, on, nickOf) /\ b \in Data /\ on \in [Chans -> SUBSET Users]
      BY CountedNow, InvFacts DEF ChannelsInv
    <2>4. \A k \in Nicks : k # old /\ k # n => Refs(y, k) = Refs(b, k)
      BY <1>7
    <2> HIDE DEF y, seen
    <2>5. CountedAt(y, on, [nickOf EXCEPT ![u] = n])
      BY <1>1, <1>3, <1>5, <2>1, <2>2, <2>3, <2>4, CountsNick DEF old
    <2> QED
      BY <1>1, <1>2, <2>5, CountedAfter DEF y
  <1> QED
    BY <1>4, <1>8, <1>9, <1>10, InvAfter

\* A channel is joined when the bot is on it, and lists whoever else is.
LEMMA InvJoined ==
  ASSUME ChannelsInv, NEW c \in Chans
  PROVE  /\ b.chan[c].joined = 1 <=> Bot \in on[c]
         /\ b.chan[c].joined = 1 => NicksOn(c) \subseteq Listed(c)
  <1> DEFINE ch == b.chan[c]
  <1>1. ch \in Channel /\ Sound(ch, on[c], nickOf, ops[c], bans[c], Asked(sent, c))
    BY InvFacts
  <1> HIDE DEF ch
  <1>2. ch.joined = 1 <=> Bot \in on[c]
    BY <1>1, SoundApart, SoundJoined
  <1>3. ch.joined = 1 => \A u \in on[c] : nickOf[u] \in NicksIn(ch.members)
    BY <1>1, <1>2, SoundJoined
  <1> QED
    BY <1>2, <1>3 DEF ch, NicksOn, Listed

\* What a swap makes of the data when the pointer is followed.
LEMMA SwapStray ==
  ASSUME NEW x \in Data, NEW old, NEW new, NEW y \in channel_on_nick(x, old, new), x.down # 2, y.down = 2
  PROVE  /\ x.cache[old] = <<>> /\ y.late = x.late
         /\ \A c \in Chans : y.chan[c].joined = x.chan[c].joined
  <1>1. PICK z \in uhost_cache_swap(x, old, new) :
          y = [z EXCEPT !.chan = [c \in Chans |-> Renamed(z.chan[c], old, new)]]
    BY DEF channel_on_nick, Renamed
  <1>2. x.cache[old] = <<>>
    BY <1>1 DEF Data, uhost_cache_swap
  <1>3. PICK g \in Garbage : z = [x EXCEPT !.down = IF g = "null" THEN x.down ELSE 2]
    BY <1>1, <1>2 DEF uhost_cache_swap
  <1>4. z.chan = x.chan /\ y.late = x.late
    BY <1>1, <1>3 DEF Data
  <1>5. \A c \in Chans : y.chan[c] = Renamed(x.chan[c], old, new)
    BY <1>1, <1>3, <1>4 DEF Data
  <1>6. \A c \in Chans : Renamed(x.chan[c], old, new).joined = x.chan[c].joined
    BY DataFields DEF Renamed, Channel
  <1> QED
    BY <1>2, <1>4, <1>5, <1>6

\* The pointer is followed only when no entry is owed to the nick.
LEMMA NickStray ==
  ASSUME ChannelsInv, NEW u \in Users, gotnick(u), b'.down = 2
  PROVE  Astray'
  <1> DEFINE old == nickOf[u]
             S == SeenAt(on, nickOf, old)
  <1>1. /\ old \in Nicks /\ b \in Data /\ b.down = 0 /\ UNCHANGED on
        /\ \E n \in FreeNicks : b' \in IF u = Bot \/ Visible(u) THEN channel_on_nick(b, old, n) ELSE {b}
    BY InvFacts DEF gotnick, Online
  <1>2. /\ u = Bot \/ Visible(u)
        /\ \E n \in FreeNicks : b' \in channel_on_nick(b, old, n)
    BY <1>1
  <1> HIDE DEF old
  <1>3. PICK n \in FreeNicks : b' \in channel_on_nick(b, old, n)
    BY <1>2
  <1>4. PICK y : y = b'
    OBVIOUS
  <1>5. /\ b.cache[old] = <<>> /\ y.late = b.late
        /\ \A c \in Chans : y.chan[c].joined = b.chan[c].joined
    BY <1>1, <1>3, <1>4, SwapStray
  <1>6. b.late \in Bit
    BY <1>1, DataFields
  <1>7. ASSUME b.late = 0, NEW c \in Chans, b.chan[c].joined = 1
        PROVE  FALSE
    <2>1. Refs(b, old) = 0
      BY <1>5 DEF Refs
    <2>2. CountedAt(b, on, nickOf)
      BY CountedNow DEF ChannelsInv
    <2>3. 0 >= Cardinality(S)
      BY <1>1, <1>7, <2>1, <2>2 DEF CountedAt
    <2>4. Bot \in on[c] /\ Bot \in Users
      BY <1>7, InvJoined, ChannelsAssumption
    <2>5. S # {}
      BY <1>2, <2>4 DEF SeenAt, Visible, old
    <2>6. S \in SUBSET Chans
      BY DEF SeenAt
    <2> HIDE DEF S
    <2>7. IsFiniteSet(S)
      BY <2>6, ChannelsAssumption, FS_Subset
    <2>8. Cardinality(S) \in Nat /\ Cardinality(S) # 0
      BY <2>5, <2>7, FS_CardinalityType, FS_EmptySet
    <2> QED
      BY <2>3, <2>8
  <1>8. \A c \in Chans : b.chan[c].joined \in Bit
    BY <1>1, DataFields, ChannelFields
  <1>9. y.down = 2
    BY <1>4
  <1>10. y.late = 1 \/ \A c \in Chans : y.chan[c].joined = 0
    BY <1>5, <1>6, <1>7, <1>8 DEF Bit
  <1> QED
    BY <1>4, <1>9, <1>10 DEF Astray

\* Only channel c changes, and neither users nor counts do.
LEMMA OneChanges ==
  ASSUME ChannelsInv, NEW c \in Chans, UNCHANGED <<nickOf, on>>,
         \A d \in Chans : d # c => ops'[d] = ops[d] /\ bans'[d] = bans[d], Truth',
         Only(b', b, c), b'.chan[c].stray = b.chan[c].stray,
         \A n \in Nicks : Refs(b', n) >= Refs(b, n),
         sent' \in Seq(Requests), sent' # <<>> => me \in Nicks,
         \A d \in Chans : d # c => Asked(sent, d) \subseteq Asked(sent', d),
         Sound(b'.chan[c], on[c], nickOf, ops'[c], bans'[c], Asked(sent', c))
  PROVE  ChannelsInv'
  <1>1. DataType'
    BY InvFacts DEF DataType, Only, me
  <1>2. ASSUME NEW d \in Chans
        PROVE  ChannelInv(d)'
    <2>1. CASE d = c
      BY <2>1, SoundAfter
    <2>2. CASE d # c
      BY <2>2, StaysSound DEF Untouched, Only
    <2> QED
      BY <2>1, <2>2
  <1>3. Counted'
    <2> DEFINE y == b'
    <2>1. CountedAt(b, on, nickOf) /\ \A d \in Chans : y.chan[d].stray = b.chan[d].stray
      BY CountedNow DEF ChannelsInv, Only
    <2>2. y.late = b.late /\ b \in Data /\ y \in Data /\ \A n \in Nicks : Refs(y, n) >= Refs(b, n)
      BY InvFacts DEF Only
    <2> HIDE DEF y
    <2>3. CountedAt(y, on, nickOf)
      BY <2>1, <2>2, CountsMore
    <2> QED
      BY <2>3, CountedAfter DEF y
  <1> QED
    BY <1>1, <1>2, <1>3, InvAfter

LEMMA RefsKept ==
  ASSUME ChannelsInv, SameRefs(b', b)
  PROVE  \A n \in Nicks : Refs(b', n) >= Refs(b, n)
  BY InvFacts DEF SameRefs

LEMMA OpModeKeeps ==
  ASSUME ChannelsInv, NEW c \in Chans, NEW u \in Users, gotmode_o(c, u)
  PROVE  ChannelsInv'
  <1> DEFINE plus == IF u \in ops[c] THEN 0 ELSE 1
             ch == b.chan[c]
             asked == Asked(sent, c)
  <1>1. /\ u \in on[c] /\ UNCHANGED <<nickOf, on, bans, sent>>
        /\ ops' = [ops EXCEPT ![c] = IF u \in @ THEN @ \ {u} ELSE @ \cup {u}]
        /\ b' = IF Bot \in on[c] THEN mode_o(b, c, nickOf[u], plus) ELSE b
    BY DEF gotmode_o
  <1>2. Truth'
    BY <1>1, TruthOps
  <1>3. /\ ops'[c] = IF u \in ops[c] THEN ops[c] \ {u} ELSE ops[c] \cup {u}
        /\ \A d \in Chans : d # c => ops'[d] = ops[d]
    BY <1>1, InvFacts
  <1>4. /\ b \in Data /\ ch \in Channel /\ ch = b.chan[c] /\ Sound(ch, on[c], nickOf, ops[c], bans[c], asked)
        /\ Named(nickOf) /\ There(nickOf, on[c], ops[c])
    BY InvFacts
  <1>5. /\ Only(b', b, c) /\ SameRefs(b', b) /\ b'.chan[c].stray = ch.stray
        /\ Sound(b'.chan[c], on[c], nickOf, ops'[c], bans[c], asked)
    <2> DEFINE ops2 == ops'[c]
    <2>1. CASE Bot \in on[c]
      <3>1. plus \in Bit /\ (plus = 1 <=> u \in ops2) /\ \A v : v # u => (v \in ops2 <=> v \in ops[c])
        BY <1>3 DEF Bit
      <3> HIDE DEF plus, ops2, ch, asked
      <3>2. /\ ch.known = 1 /\ Places(ch.members, nickOf[u]) # {}
            /\ OpSet(ch, nickOf[u], plus) \in Channel /\ OpSet(ch, nickOf[u], plus).stray = ch.stray
            /\ Sound(OpSet(ch, nickOf[u], plus), on[c], nickOf, ops2, bans[c], asked)
        BY <1>1, <1>4, <2>1, <3>1, ModeSound
      <3>3. b' = With(b, c, OpSet(ch, nickOf[u], plus))
        BY <1>1, <1>4, <2>1, <3>1, <3>2, ModeData
      <3> DEFINE w == OpSet(ch, nickOf[u], plus)
      <3> HIDE DEF w
      <3>4. Only(b', b, c) /\ SameRefs(b', b) /\ b'.chan[c] = w
        BY <1>4, <3>2, <3>3, OnlyWith DEF w
      <3> QED
        BY <3>2, <3>4 DEF w, ops2
    <2>2. CASE Bot \notin on[c]
      <3>1. b' = b
        BY <1>1, <2>2
      <3> HIDE DEF ops2, ch, asked
      <3>2. Sound(ch, on[c], nickOf, ops2, bans[c], asked)
        BY <1>4, <2>2, Apart
      <3> QED
        BY <1>4, <3>1, <3>2 DEF ops2, Only, SameRefs
    <2> QED
      BY <2>1, <2>2
  <1> HIDE DEF ch, plus
  <1>6. b'.chan[c].stray = b.chan[c].stray
    BY <1>4, <1>5
  <1> QED
    BY <1>1, <1>2, <1>3, <1>5, <1>6, RefsKept, InvFacts, OneChanges

LEMMA BanModeKeeps ==
  ASSUME ChannelsInv, NEW c \in Chans, NEW m \in Masks, gotmode_b(c, m)
  PROVE  ChannelsInv'
  <1> DEFINE ch == b.chan[c]
             asked == Asked(sent, c)
             w == IF m \in bans[c] THEN WithMasks(ch, Unmasked(ch.masks, m), Listing(ch))
                                   ELSE WithMasks(ch, <<m>> \o ch.masks, Listing(ch))
  <1>1. /\ UNCHANGED <<nickOf, on, ops, sent>>
        /\ bans' = [bans EXCEPT ![c] = IF m \in @ THEN @ \ {m} ELSE @ \cup {m}]
        /\ b' = IF Bot \notin on[c] THEN b
                ELSE IF m \in bans[c] THEN channel_del_mask(b, c, m) ELSE channel_add_mask(b, c, m)
    BY DEF gotmode_b
  <1>2. Truth'
    BY <1>1, TruthBans
  <1>3. /\ bans'[c] = IF m \in bans[c] THEN bans[c] \ {m} ELSE bans[c] \cup {m}
        /\ \A d \in Chans : d # c => bans'[d] = bans[d]
    BY <1>1, InvFacts
  <1>4. /\ b \in Data /\ ch \in Channel /\ ch = b.chan[c] /\ Sound(ch, on[c], nickOf, ops[c], bans[c], asked)
    BY InvFacts
  <1>5. /\ Only(b', b, c) /\ SameRefs(b', b) /\ b'.chan[c].stray = ch.stray
        /\ Sound(b'.chan[c], on[c], nickOf, ops[c], bans'[c], asked)
    <2> DEFINE bans2 == bans'[c]
    <2>1. CASE Bot \in on[c]
      <3>1. b' = With(b, c, w)
        BY <1>1, <2>1, InvFacts, MaskSetData, MaskRemovedData
      <3>2. w \in Channel /\ Sound(w, on[c], nickOf, ops[c], bans2, asked)
        <4>1. CASE m \in bans[c]
          <5> DEFINE w1 == WithMasks(ch, Unmasked(ch.masks, m), Listing(ch))
          <5>1. w = w1 /\ bans2 = bans[c] \ {m}
            BY <1>3, <4>1
          <5>2. w1 \in Channel /\ Sound(w1, on[c], nickOf, ops[c], bans[c] \ {m}, asked)
            <6> HIDE DEF ch, asked
            <6> QED
              BY <1>4, <2>1, BanRemoved
          <5> HIDE DEF w1, w
          <5> QED
            BY <5>1, <5>2
        <4>2. CASE m \notin bans[c]
          <5> DEFINE w2 == WithMasks(ch, <<m>> \o ch.masks, Listing(ch))
          <5>1. w = w2 /\ bans2 = bans[c] \cup {m}
            BY <1>3, <4>2
          <5>2. w2 \in Channel /\ Sound(w2, on[c], nickOf, ops[c], bans[c] \cup {m}, asked)
            <6> HIDE DEF ch, asked
            <6> QED
              BY <1>4, <2>1, <4>2, BanSet
          <5> HIDE DEF w2, w
          <5> QED
            BY <5>1, <5>2
        <4> QED
          BY <4>1, <4>2
      <3>3. w.stray = ch.stray
        BY <1>4 DEF WithMasks, Channel
      <3> HIDE DEF w, ch, asked, bans2
      <3>4. Only(b', b, c) /\ SameRefs(b', b) /\ b'.chan[c] = w
        BY <1>4, <3>1, <3>2, OnlyWith
      <3> QED
        BY <3>2, <3>3, <3>4 DEF bans2
    <2>2. CASE Bot \notin on[c]
      <3>1. b' = b
        BY <1>1, <2>2
      <3> HIDE DEF bans2, ch, asked
      <3>2. Sound(ch, on[c], nickOf, ops[c], bans2, asked)
        BY <1>4, <2>2, Apart
      <3> QED
        BY <1>4, <3>1, <3>2 DEF bans2, Only, SameRefs
    <2> QED
      BY <2>1, <2>2
  <1> HIDE DEF ch, w
  <1>6. b'.chan[c].stray = b.chan[c].stray
    BY <1>4, <1>5
  <1> QED
    BY <1>1, <1>2, <1>3, <1>5, <1>6, RefsKept, InvFacts, OneChanges

\* A late answer about a channel the bot is not on.
LEMMA StrayKeeps ==
  ASSUME ChannelsInv, NEW c \in Chans, Bot \notin on[c], UNCHANGED truth,
         NEW x, Only(x, b, c), x.chan[c].known = 1, x.chan[c].joined = 0, b' = Stray(x, c),
         sent' \in Seq(Requests), sent' # <<>> => me \in Nicks,
         \A d \in Chans : d # c => Asked(sent, d) \subseteq Asked(sent', d)
  PROVE  ChannelsInv'
  <1>1. x \in Data /\ x.chan[c] \in Channel /\ x.down = 0
    BY InvFacts, DataFields DEF Only
  <1>2. /\ b' \in Data /\ b'.down = x.down /\ b'.late = 1 /\ b'.chan[c] = Late(x.chan[c])
        /\ \A d \in Chans : d # c => b'.chan[d] = x.chan[d]
    BY <1>1, StrayData
  <1>3. UNCHANGED <<nickOf, on, ops, bans>>
    BY DEF truth
  <1>4. Truth'
    BY TruthSame
  <1>5. DataType'
    BY <1>1, <1>2, <1>3 DEF DataType, me
  <1>6. ASSUME NEW d \in Chans
        PROVE  ChannelInv(d)'
    <2>1. CASE d = c
      <3> DEFINE w == Late(x.chan[c])
                 later == Asked(sent', c)
      <3>1. w \in Channel /\ w.joined = 0 /\ w.stray = 1
        BY <1>1, LateFields
      <3> HIDE DEF w, later
      <3>2. Sound(w, on[c], nickOf, ops[c], bans[c], later)
        BY <3>1, SoundApart
      <3>3. Sound(b'.chan[c], on'[c], nickOf', ops'[c], bans'[c], Asked(sent', c))
        BY <1>2, <1>3, <3>2 DEF w, later
      <3> QED
        BY <2>1, <3>3, SoundAfter
    <2>2. CASE d # c
      BY <1>2, <1>3, <2>2, StaysSound DEF Untouched, Only
    <2> QED
      BY <2>1, <2>2
  <1>7. Counted'
    <2>1. CountedAt(b', on', nickOf')
      BY <1>2 DEF CountedAt
    <2> QED
      BY <2>1, CountedAfter
  <1> QED
    BY <1>4, <1>5, <1>6, <1>7, InvAfter

LEMMA OnlyItself ==
  ASSUME ChannelsInv, NEW c \in Chans
  PROVE  Only(b, b, c) /\ SameRefs(b, b) /\ \A n \in Nicks : Refs(b, n) >= Refs(b, n)
  BY InvFacts DEF Only, SameRefs

LEMMA WhoKeeps ==
  ASSUME ChannelsInv, NEW c \in Chans, WhoReply(c)
  PROVE  ChannelsInv'
  <1> DEFINE ch == b.chan[c]
             hosts == [u \in Users |-> u]
             x == ListedAll(b, c, on[c], hosts)
             m == x.chan[c].members
  <1>1. /\ Answered("WHO", c) /\ sent' = Tail(sent) /\ UNCHANGED <<nickOf, on, ops, bans, changes>>
        /\ b' = Stray(got352(b, c, on[c]), c) \/ (Bot \notin on[c] /\ b' = b)
    BY DEF WhoReply
  <1>2. /\ sent' \in Seq(Requests) /\ me \in Nicks
        /\ \A d \in Chans : d # c => Asked(sent, d) \subseteq Asked(sent', d)
    BY <1>1, AnswerRead, InvFacts DEF Answered
  <1>3. /\ b \in Data /\ ch \in Channel /\ ch = b.chan[c] /\ ch.members \in Seq(Member)
        /\ Sound(ch, on[c], nickOf, ops[c], bans[c], Asked(sent, c))
        /\ Named(nickOf) /\ There(nickOf, on[c], ops[c]) /\ on[c] \in SUBSET Users
        /\ \A u \in on[c] : nickOf[u] \in Nicks
    BY InvFacts
  <1>4. got352(b, c, on[c]) = IF ch.known = 0 THEN b ELSE x
    BY DEF got352
  <1>5. UNCHANGED truth /\ Truth'
    <2>1. UNCHANGED truth
      BY <1>1 DEF truth
    <2> QED
      BY <2>1, TruthSame
  <1>6. /\ Only(x, b, c) /\ x.chan[c] = WithMembers(ch, m) /\ Extended(ch.members, m, on[c], hosts, c)
        /\ \A n \in Nicks : Refs(x, n) >= Refs(b, n)
    <2>1. hosts \in [Users -> Uhosts]
      BY DEF Uhosts
    <2> HIDE DEF hosts
    <2>2. /\ x \in Data /\ x.down = b.down /\ x.late = b.late
          /\ x.chan[c] = WithMembers(b.chan[c], x.chan[c].members)
          /\ Extended(b.chan[c].members, x.chan[c].members, on[c], hosts, c)
          /\ \A d \in Chans : d # c => x.chan[d] = b.chan[d]
          /\ \A u \in on[c] : Refs(x, nickOf[u]) = Refs(b, nickOf[u]) + 1
          /\ \A n \in Nicks : (\A u \in on[c] : n # nickOf[u]) => Refs(x, n) = Refs(b, n)
      BY <1>3, <2>1, ListedEffect
    <2> HIDE DEF x
    <2>3. ASSUME NEW n \in Nicks
          PROVE  Refs(x, n) >= Refs(b, n)
      <3>1. Refs(b, n) \in Nat
        BY InvFacts
      <3>2. Refs(x, n) = Refs(b, n) + 1 \/ Refs(x, n) = Refs(b, n)
        BY <2>2
      <3> QED
        BY <3>1, <3>2
    <2> QED
      BY <2>2, <2>3 DEF Only
  <1> HIDE DEF x, m
  <1>7. m \in Seq(Member) /\ \A u \in on[c] : nickOf[u] \in NicksIn(m)
    BY <1>6 DEF Extended
  <1>8. /\ WithMembers(ch, m).stray = ch.stray /\ WithMembers(ch, m).known = ch.known
        /\ WithMembers(ch, m).joined = ch.joined
    <2> HIDE DEF ch
    <2> QED
      BY <1>3, <1>7, MembersFields
  <1>9. CASE Bot \in on[c]
    <2> HIDE DEF ch
    <2>1. /\ ch.joined = 1 /\ ch.known = 1 /\ \A u \in on[c] : nickOf[u] \in NicksIn(ch.members)
          /\ ch.stray = 0 => /\ AllRight(ch.members, on[c], nickOf, ops[c], Asked(sent, c))
                             /\ Masked(ch, bans[c])
      BY <1>3, <1>9, SoundJoined
    <2>2. x \in Data /\ b' = x
      <3>1. x \in Data /\ b' = Stray(x, c)
        BY <1>1, <1>4, <1>6, <1>9, <2>1 DEF Only
      <3> QED
        BY <1>9, <3>1, StrayData
    <2> DEFINE none == {}
               later == Asked(sent', c)
    <2>3. Sound(WithMembers(ch, m), on[c], nickOf, ops[c], bans[c], none)
      <3>1. ch.stray = 0 => AllRight(m, on[c], nickOf, ops[c], none)
        <4> DEFINE unknown == Asked(sent, c)
        <4>1. unknown \in SUBSET {NoUhost}
          BY DEF Asked
        <4> HIDE DEF unknown
        <4>2. SUFFICES ASSUME ch.stray = 0
                       PROVE  AllRight(m, on[c], nickOf, ops[c], {})
          OBVIOUS
        <4>3. AllRight(ch.members, on[c], nickOf, ops[c], unknown)
          BY <2>1, <4>2 DEF unknown
        <4>4. Extended(ch.members, m, on[c], [u \in Users |-> u], c)
          BY <1>6
        <4> QED
          BY <1>3, <2>1, <4>1, <4>3, <4>4, HostsTold
      <3> HIDE DEF none
      <3> QED
        BY <1>3, <1>7, <1>9, <2>1, <3>1, MembersSound
    <2>4. WithMembers(ch, m) \in Channel
      BY <1>3, <1>7, MembersFields
    <2>5. none \subseteq later
      OBVIOUS
    <2> DEFINE w == WithMembers(ch, m)
    <2> HIDE DEF none, later, w
    <2>6. Sound(w, on[c], nickOf, ops[c], bans[c], later)
      BY <2>3, <2>4, <2>5, Wider DEF w
    <2>7. Sound(b'.chan[c], on[c], nickOf, ops'[c], bans'[c], Asked(sent', c))
      BY <1>1, <1>6, <2>2, <2>6 DEF w, later
    <2>8. b'.chan[c].stray = b.chan[c].stray
      BY <1>3, <1>6, <1>8, <2>2
    <2>9. Only(b', b, c) /\ \A n \in Nicks : Refs(b', n) >= Refs(b, n)
      BY <1>6, <2>2
    <2> QED
      BY <1>1, <1>2, <1>5, <2>7, <2>8, <2>9, OneChanges
  <1>10. CASE Bot \notin on[c] /\ b' = b
    <2> DEFINE later == Asked(sent', c)
    <2> HIDE DEF later, ch
    <2>1. Sound(ch, on[c], nickOf, ops[c], bans[c], later)
      BY <1>3, <1>10, Apart
    <2>2. Sound(b'.chan[c], on[c], nickOf, ops'[c], bans'[c], Asked(sent', c))
      BY <1>1, <1>3, <1>10, <2>1 DEF later
    <2>3. Only(b', b, c) /\ \A n \in Nicks : Refs(b', n) >= Refs(b, n)
      BY <1>10, OnlyItself
    <2>4. b'.chan[c].stray = b.chan[c].stray
      BY <1>10
    <2> QED
      BY <1>1, <1>2, <1>5, <2>2, <2>3, <2>4, OneChanges
  <1>11. CASE Bot \notin on[c] /\ b' # b
    <2>1. b' = Stray(got352(b, c, on[c]), c)
      BY <1>1, <1>11
    <2>2. ch.known = 1 /\ ch.joined = 0
      <3>1. ch.known \in Bit /\ ch.joined = 0
        <4> HIDE DEF ch
        <4> QED
          BY <1>3, <1>11, ChannelFields, SoundApart
      <3>2. CASE ch.known = 0
        <4>1. b' = Stray(b, c)
          BY <1>4, <2>1, <3>2
        <4>2. b' = b
          BY <1>3, <3>2, <4>1, StrayData
        <4> QED
          BY <1>11, <4>2
      <3> QED
        BY <3>1, <3>2 DEF Bit
    <2>3. b' = Stray(x, c)
      BY <1>4, <2>1, <2>2
    <2>4. x.chan[c].known = 1 /\ x.chan[c].joined = 0
      BY <1>6, <1>8, <2>2
    <2> QED
      BY <1>2, <1>5, <1>6, <1>11, <2>3, <2>4, StrayKeeps
  <1> QED
    BY <1>9, <1>10, <1>11

LEMMA BansKeeps ==
  ASSUME ChannelsInv, NEW c \in Chans, BanReply(c)
  PROVE  ChannelsInv'
  <1> DEFINE ch == b.chan[c]
             w == Loaded(ch, bans[c])
             x == With(b, c, w)
  <1>1. /\ Answered("BANS", c) /\ sent' = Tail(sent) /\ UNCHANGED <<nickOf, on, ops, bans, changes>>
        /\ b' = Stray(got_list(b, c, bans[c]), c)
    BY DEF BanReply
  <1>2. /\ sent' \in Seq(Requests) /\ me \in Nicks
        /\ \A d \in Chans : Asked(sent, d) \subseteq Asked(sent', d)
    BY <1>1, AnswerRead, InvFacts DEF Answered
  <1>3. /\ b \in Data /\ ch \in Channel /\ ch = b.chan[c] /\ bans[c] \in SUBSET Masks
        /\ Sound(ch, on[c], nickOf, ops[c], bans[c], Asked(sent, c))
    BY InvFacts
  <1>4. got_list(b, c, bans[c]) = IF ch.known = 0 THEN b ELSE x
    BY <1>3, LoadedData
  <1>5. UNCHANGED truth /\ Truth'
    <2>1. UNCHANGED truth
      BY <1>1 DEF truth
    <2> QED
      BY <2>1, TruthSame
  <1>6. w \in Channel /\ w.known = ch.known /\ w.stray = ch.stray /\ w.joined = ch.joined
    <2> HIDE DEF ch
    <2> QED
      BY <1>3, LoadedChannel
  <1> HIDE DEF w
  <1>7. Only(x, b, c) /\ SameRefs(x, b) /\ x.chan[c] = w
    BY <1>3, <1>6, OnlyWith
  <1> HIDE DEF x
  <1>8. CASE Bot \in on[c]
    <2> HIDE DEF ch
    <2>1. ch.known = 1
      BY <1>3, <1>8, SoundJoined
    <2>2. b' = x
      <3>1. x \in Data /\ b' = Stray(x, c)
        BY <1>1, <1>4, <1>7, <2>1 DEF Only
      <3> QED
        BY <1>8, <3>1, StrayData
    <2> DEFINE asked == Asked(sent, c)
               later == Asked(sent', c)
    <2>3. asked \subseteq later
      BY <1>2
    <2> HIDE DEF asked, later
    <2>4. Sound(w, on[c], nickOf, ops[c], bans[c], asked)
      BY <1>3, <1>8, LoadedSound DEF w, asked
    <2>5. Sound(w, on[c], nickOf, ops[c], bans[c], later)
      BY <1>6, <2>3, <2>4, Wider
    <2>6. Sound(b'.chan[c], on[c], nickOf, ops'[c], bans'[c], Asked(sent', c))
      BY <1>1, <1>7, <2>2, <2>5 DEF later
    <2>7. b'.chan[c].stray = b.chan[c].stray
      BY <1>3, <1>6, <1>7, <2>2
    <2>8. Only(b', b, c) /\ \A n \in Nicks : Refs(b', n) >= Refs(b, n)
      BY <1>7, <2>2, RefsKept
    <2> QED
      BY <1>1, <1>2, <1>5, <2>6, <2>7, <2>8, OneChanges
  <1>9. CASE Bot \notin on[c] /\ ch.known = 0
    <2>1. b' = b
      BY <1>1, <1>3, <1>4, <1>9, StrayData
    <2> QED
      BY <1>1, <2>1, AnswerKeeps
  <1>10. CASE Bot \notin on[c] /\ ch.known # 0
    <2>1. b' = Stray(x, c)
      BY <1>1, <1>4, <1>10
    <2>2. x.chan[c].known = 1 /\ x.chan[c].joined = 0
      <3>1. ch.known \in Bit /\ ch.joined = 0
        <4> HIDE DEF ch
        <4> QED
          BY <1>3, <1>10, ChannelFields, SoundApart
      <3> QED
        BY <1>6, <1>7, <1>10, <3>1 DEF Bit
    <2> QED
      BY <1>2, <1>5, <1>7, <1>10, <2>1, <2>2, StrayKeeps
  <1> QED
    BY <1>8, <1>9, <1>10

\* The connection is lost.
LEMMA CutKeeps ==
  ASSUME ChannelsInv, NEW x \in Data, x.down = 0, Cut(x)
  PROVE  ChannelsInv'
  <1> DEFINE y == [chan |-> [c \in Chans |-> channel_free_online(x, c).chan[c]],
                   cache |-> [n \in Nicks |-> <<>>], down |-> x.down, late |-> 0]
  <1>1. /\ nickOf' = [nickOf EXCEPT ![Bot] = NoNick] /\ Gone({Bot}) /\ sent' = <<>> /\ UNCHANGED bans
        /\ b' = y
    BY DEF Cut
  <1>2. Truth'
    BY <1>1, TruthGone, ChannelsAssumption
  <1>3. \A c \in Chans : /\ channel_free_online(x, c).chan[c] = Offline(x.chan[c].known, x.chan[c].static)
                         /\ x.chan[c].known \in Bit /\ x.chan[c].static \in Bit
    BY FreeOnline, DataFields, ChannelFields
  <1>4. \A c \in Chans : /\ y.chan[c] = Offline(x.chan[c].known, x.chan[c].static)
                         /\ y.chan[c] \in Channel /\ y.chan[c].stray = 0
    <2>1. \A c \in Chans : y.chan[c] = channel_free_online(x, c).chan[c]
      OBVIOUS
    <2> HIDE DEF y
    <2> QED
      BY <1>3, <2>1, OfflineChannel
  <1>5. y \in Data /\ y.down = 0 /\ y.late = 0
    <2>1. [n \in Nicks |-> <<>>] \in [Nicks -> Seq(CacheEntry)]
      OBVIOUS
    <2>2. [c \in Chans |-> channel_free_online(x, c).chan[c]] \in [Chans -> Channel]
      BY <1>4
    <2> QED
      BY <2>1, <2>2 DEF Data, Bit
  <1> HIDE DEF y
  <1>6. DataType'
    BY <1>1, <1>5 DEF DataType
  <1>7. \A c \in Chans : Bot \notin on'[c]
    BY <1>1 DEF Gone
  <1>8. ASSUME NEW c \in Chans
        PROVE  ChannelInv(c)'
    <2> DEFINE os2 == on'[c]
               nk2 == nickOf'
               ops2 == ops'[c]
               bans2 == bans'[c]
               later == Asked(sent', c)
               k == x.chan[c].known
               s == x.chan[c].static
    <2>1. k \in Bit /\ s \in Bit /\ Bot \notin os2 /\ b'.chan[c] = Offline(k, s)
      BY <1>1, <1>3, <1>4, <1>7
    <2> HIDE DEF os2, nk2, ops2, bans2, later, k, s
    <2>2. Sound(Offline(k, s), os2, nk2, ops2, bans2, later)
      BY <2>1, OfflineSound
    <2>3. Sound(b'.chan[c], on'[c], nickOf', ops'[c], bans'[c], Asked(sent', c))
      BY <2>1, <2>2 DEF os2, nk2, ops2, bans2, later
    <2> QED
      BY <2>3, SoundAfter
  <1>9. Counted'
    <2> DEFINE os2 == on'
               nk2 == nickOf'
    <2> HIDE DEF os2, nk2
    <2>1. CountedAt(y, os2, nk2)
      BY <1>4, <1>5, <1>7, BotAwayCounts DEF os2
    <2> QED
      BY <1>1, <2>1, CountedAfter DEF os2, nk2
  <1> QED
    BY <1>2, <1>6, <1>8, <1>9, InvAfter

LEMMA LostKeeps ==
  ASSUME ChannelsInv, channel_reset \/ got_error
  PROVE  ChannelsInv'
  <1>1. CASE channel_reset
    BY <1>1, InvFacts, CutKeeps DEF channel_reset
  <1>2. CASE got_error
    <2> DEFINE x == channel_on_quit(b, me)
    <2>1. me \in Nicks /\ Cut(x)
      BY <1>2, InvFacts, ChannelsAssumption DEF got_error, me
    <2>2. x \in Data /\ x.down = 0
      BY <2>1, InvFacts, QuitEffect
    <2> HIDE DEF x
    <2> QED
      BY <2>1, <2>2, CutKeeps
  <1> QED
    BY <1>1, <1>2

\* A command or a script changes what is known of a channel; a request may be
\* sent.
LEMMA FlagsKeeps ==
  ASSUME ChannelsInv, NEW c \in Chans, NEW k \in Bit, NEW s \in Bit, b.chan[c].known = 1 => k = 1,
         b' = With(b, c, WithFlags(b.chan[c], k, s)), UNCHANGED truth,
         sent' = sent \/ \E kind \in {"JOIN", "PART"} : me # NoNick /\ Queue(<<Request(kind, c)>>)
  PROVE  ChannelsInv'
  <1> DEFINE ch == b.chan[c]
             w == WithFlags(ch, k, s)
  <1>1. /\ b \in Data /\ ch \in Channel /\ ch = b.chan[c] /\ (ch.known = 1 => k = 1)
        /\ Sound(ch, on[c], nickOf, ops[c], bans[c], Asked(sent, c))
    BY InvFacts
  <1>2. sent' \in Seq(Requests) /\ (sent' # <<>> => me \in Nicks)
        /\ \A d \in Chans : Asked(sent, d) \subseteq Asked(sent', d)
    <2>1. CASE sent' = sent
      BY <2>1, InvFacts
    <2>2. ASSUME NEW kind \in {"JOIN", "PART"}, me # NoNick, Queue(<<Request(kind, c)>>)
          PROVE  sent' \in Seq(Requests) /\ (sent' # <<>> => me \in Nicks)
                 /\ \A d \in Chans : Asked(sent, d) \subseteq Asked(sent', d)
      <3> DEFINE r == <<Request(kind, c)>>
      <3>1. r \in Seq(Requests)
        BY Asking
      <3>2. sent' = sent \o r
        BY <2>2 DEF Queue
      <3>3. me \in Nicks
        BY <2>2, InvFacts, ChannelsAssumption DEF me
      <3> HIDE DEF r
      <3> QED
        BY <3>1, <3>2, <3>3, InvFacts, AskedMore
    <2> QED
      BY <2>1, <2>2
  <1>3. w \in Channel /\ w.stray = ch.stray /\ Sound(w, on[c], nickOf, ops[c], bans[c], Asked(sent, c))
    <2> HIDE DEF ch
    <2> QED
      BY <1>1, FlagsFields, FlagsSound
  <1> HIDE DEF w
  <1>4. Only(b', b, c) /\ SameRefs(b', b) /\ b'.chan[c] = w
    <2>1. b' = With(b, c, w)
      BY DEF w
    <2> QED
      BY <1>1, <1>3, <2>1, OnlyWith
  <1>5. UNCHANGED <<nickOf, on, ops, bans>> /\ Truth'
    BY TruthSame DEF truth
  <1> DEFINE later == Asked(sent', c)
  <1>6. Sound(w, on[c], nickOf, ops[c], bans[c], later)
    <2> DEFINE asked == Asked(sent, c)
    <2>1. asked \subseteq later
      BY <1>2
    <2> HIDE DEF asked, later
    <2>2. Sound(w, on[c], nickOf, ops[c], bans[c], asked)
      BY <1>3 DEF asked
    <2> QED
      BY <1>3, <2>1, <2>2, Wider
  <1>7. Sound(b'.chan[c], on[c], nickOf, ops'[c], bans'[c], Asked(sent', c))
    BY <1>4, <1>5, <1>6
  <1>8. b'.chan[c].stray = b.chan[c].stray
    BY <1>3, <1>4
  <1> QED
    BY <1>2, <1>4, <1>5, <1>7, <1>8, RefsKept, OneChanges

LEMMA CommandKeeps ==
  ASSUME ChannelsInv, NEW c \in Chans, party_pls_chan(c) \/ party_minus_chan(c) \/ script_schan_set(c)
  PROVE  ChannelsInv'
  <1> DEFINE ch == b.chan[c]
  <1>0. b \in Data /\ ch \in Channel /\ ch.known \in Bit /\ ch.static \in Bit /\ 0 \in Bit /\ 1 \in Bit
    BY InvFacts, ChannelFields DEF Bit
  <1>1. CASE party_pls_chan(c)
    <2>1. /\ b' = [b EXCEPT !.chan[c].known = 1, !.chan[c].static = 1] /\ UNCHANGED truth
          /\ sent' = sent \/ \E kind \in {"JOIN", "PART"} : me # NoNick /\ Queue(<<Request(kind, c)>>)
      BY <1>1 DEF party_pls_chan, truth
    <2>2. b' = With(b, c, WithFlags(ch, 1, 1))
      BY <1>0, <2>1, FlagsData
    <2> QED
      BY <1>0, <2>1, <2>2, FlagsKeeps
  <1>2. CASE party_minus_chan(c)
    <2>1. /\ b' = [b EXCEPT !.chan[c].static = 0] /\ UNCHANGED truth
          /\ sent' = sent \/ \E kind \in {"JOIN", "PART"} : me # NoNick /\ Queue(<<Request(kind, c)>>)
      BY <1>2 DEF party_minus_chan, truth
    <2>2. b' = With(b, c, WithFlags(ch, ch.known, 0))
      BY <1>0, <2>1, FlagsData
    <2> QED
      BY <1>0, <2>1, <2>2, FlagsKeeps
  <1>3. CASE script_schan_set(c)
    <2>1. /\ b' = [b EXCEPT !.chan[c].known = 1] /\ UNCHANGED truth /\ sent' = sent
      BY <1>3 DEF script_schan_set, truth
    <2>2. b' = With(b, c, WithFlags(ch, 1, ch.static))
      BY <1>0, <2>1, FlagsData
    <2> QED
      BY <1>0, <2>1, <2>2, FlagsKeeps
  <1> QED
    BY <1>1, <1>2, <1>3

-----------------------------------------------------------------------------
\* The invariant holds.

LEMMA ChannelsInvInit ==
  ASSUME ChannelsInit
  PROVE  ChannelsInv
  <1>1. /\ nickOf \in [Users -> Nicks \cup {NoNick}] /\ nickOf[Bot] = NoNick
        /\ \A u, v \in Users : u # v /\ nickOf[u] = nickOf[v] => nickOf[u] = NoNick
        /\ on \in [Chans -> SUBSET Online] /\ ops \in [Chans -> SUBSET Online]
        /\ \A c \in Chans : ops[c] \subseteq on[c]
        /\ bans \in [Chans -> SUBSET Masks] /\ sent = <<>>
    BY DEF ChannelsInit
  <1>2. PICK file \in SUBSET Chans :
          b = [chan |-> [c \in Chans |-> IF c \in file THEN Offline(1, 1) ELSE NoChannel],
               cache |-> [n \in Nicks |-> <<>>], down |-> 0, late |-> 0]
    BY DEF ChannelsInit
  <1>3. Online \in SUBSET Users /\ Bot \notin Online /\ \A u \in Online : nickOf[u] \in Nicks
    BY <1>1 DEF Online
  <1>4. \A c \in Chans : on[c] \in SUBSET Users /\ Bot \notin on[c] /\ There(nickOf, on[c], ops[c])
    BY <1>1, <1>3 DEF There
  <1>5. Truth
    <2>1. on \in [Chans -> SUBSET Users] /\ ops \in [Chans -> SUBSET Users]
      BY <1>1, <1>3
    <2> QED
      BY <1>1, <1>4, <2>1 DEF Truth, Named
  <1>6. \A c \in Chans : \E k \in Bit : b.chan[c] = Offline(k, k)
    <2>1. \A c \in Chans : b.chan[c] = IF c \in file THEN Offline(1, 1) ELSE Offline(0, 0)
      BY <1>2 DEF NoChannel
    <2> QED
      BY <2>1 DEF Bit
  <1>7. \A c \in Chans : b.chan[c] \in Channel /\ b.chan[c].stray = 0
    BY <1>6, OfflineChannel
  <1>8. b \in Data /\ b.down = 0
    <2>1. b.chan = [c \in Chans |-> b.chan[c]] /\ b.down = 0
      BY <1>2
    <2>2. [n \in Nicks |-> <<>>] \in [Nicks -> Seq(CacheEntry)]
      OBVIOUS
    <2>3. [c \in Chans |-> IF c \in file THEN Offline(1, 1) ELSE NoChannel] \in [Chans -> Channel]
      <3>1. Offline(1, 1) \in Channel /\ NoChannel \in Channel
        BY OfflineChannel DEF NoChannel, Bit
      <3> QED
        BY <3>1
    <2> QED
      BY <1>2, <2>1, <2>2, <2>3 DEF Data, Bit
  <1>9. DataType
    BY <1>1, <1>8 DEF DataType
  <1>10. ASSUME NEW c \in Chans
         PROVE  ChannelInv(c)
    <2>1. PICK k \in Bit : b.chan[c] = Offline(k, k)
      BY <1>6
    <2> DEFINE os == on[c]
               opped == ops[c]
               banned == bans[c]
               unknown == Unknown(c)
    <2>2. Bot \notin os
      BY <1>4
    <2> HIDE DEF os, opped, banned, unknown
    <2>3. Sound(Offline(k, k), os, nickOf, opped, banned, unknown)
      BY <2>2, OfflineSound
    <2> QED
      BY <2>1, <2>3 DEF ChannelInv, os, opped, banned, unknown
  <1>11. Counted
    <2>1. CountedAt(b, on, nickOf)
      BY <1>4, <1>7, <1>8, BotAwayCounts
    <2> QED
      BY <2>1, CountedNow
  <1> QED
    BY <1>5, <1>9, <1>10, <1>11 DEF ChannelsInv

LEMMA ChannelsInvStep ==
  ASSUME ChannelsInv, [ChannelsNext]_channelsVars
  PROVE  ChannelsInv' \/ Astray'
  <1>1. CASE channel_on_connect
    BY <1>1, ConnectKeeps
  <1>2. CASE channel_reset \/ got_error
    BY <1>2, LostKeeps
  <1>3. ASSUME NEW c \in Chans, gotjoin_bot(c)
        PROVE  ChannelsInv'
    BY <1>3, BotJoinKeeps
  <1>4. ASSUME NEW c \in Chans, JoinRefused(c)
        PROVE  ChannelsInv'
    BY <1>4, JoinRefusedKeeps
  <1>5. ASSUME NEW c \in Chans, PartDone(c)
        PROVE  ChannelsInv'
    BY <1>5, PartDoneKeeps
  <1>6. ASSUME NEW c \in Chans, WhoReply(c)
        PROVE  ChannelsInv'
    BY <1>6, WhoKeeps
  <1>7. ASSUME NEW c \in Chans, BanReply(c)
        PROVE  ChannelsInv'
    BY <1>7, BansKeeps
  <1>8. ASSUME NEW c \in Chans, party_pls_chan(c) \/ party_minus_chan(c) \/ script_schan_set(c)
        PROVE  ChannelsInv'
    BY <1>8, CommandKeeps
  <1>9. ASSUME NEW c \in Chans, NEW u \in Users, gotjoin(c, u)
        PROVE  ChannelsInv'
    BY <1>9, JoinKeeps
  <1>10. ASSUME NEW c \in Chans, NEW u \in Users, gotpart(c, u)
         PROVE  ChannelsInv'
    BY <1>10, PartKeeps
  <1>11. ASSUME NEW c \in Chans, NEW u \in Users, gotmode_o(c, u)
         PROVE  ChannelsInv'
    BY <1>11, OpModeKeeps
  <1>12. ASSUME NEW c \in Chans, NEW m \in Masks, gotmode_b(c, m)
         PROVE  ChannelsInv'
    BY <1>12, BanModeKeeps
  <1>13. ASSUME NEW u \in Users, gotquit(u)
         PROVE  ChannelsInv'
    BY <1>13, QuitKeeps
  <1>14. ASSUME NEW u \in Users, UserConnects(u)
         PROVE  ChannelsInv'
    BY <1>14, UserConnectsKeeps
  <1>15. ASSUME NEW u \in Users, gotnick(u)
         PROVE  ChannelsInv' \/ Astray'
    BY <1>15, NickKeeps, NickStray
  <1>16. CASE UNCHANGED channelsVars
    <2>1. UNCHANGED truth /\ UNCHANGED <<b, sent>>
      BY <1>16 DEF channelsVars, truth
    <2>2. Truth'
      BY <2>1, TruthSame
    <2>3. UNCHANGED <<nickOf, on, ops, bans, b, sent>>
      BY <2>1 DEF truth
    <2>4. DataType'
      BY <2>3, InvFacts DEF DataType, me
    <2>5. \A c \in Chans : ChannelInv(c)'
      BY <2>3, StaysSound DEF Untouched
    <2>6. Counted'
      <3>1. CountedAt(b', on', nickOf')
        BY <2>3, CountedNow DEF ChannelsInv
      <3> QED
        BY <3>1, CountedAfter
    <2> QED
      BY <2>2, <2>4, <2>5, <2>6, InvAfter
  <1> QED
    BY <1>1, <1>2, <1>3, <1>4, <1>5, <1>6, <1>7, <1>8, <1>9, <1>10, <1>11, <1>12, <1>13, <1>14, <1>15, <1>16
       DEF ChannelsNext

\* Once the pointer was followed no line is read any more.
LEMMA AstrayStays ==
  ASSUME Astray, [ChannelsNext]_channelsVars
  PROVE  Astray'
  <1>1. ~ Up
    BY DEF Astray, Up
  <1>2. ~ channel_on_connect /\ ~ channel_reset /\ ~ got_error
    BY <1>1 DEF channel_on_connect, channel_reset, got_error
  <1>3. \A c \in Chans : ~ gotjoin_bot(c) /\ ~ JoinRefused(c) /\ ~ PartDone(c)
    BY <1>1 DEF gotjoin_bot, JoinRefused, PartDone
  <1>4. \A c \in Chans : ~ WhoReply(c) /\ ~ BanReply(c)
    BY <1>1 DEF WhoReply, BanReply
  <1>5. \A c \in Chans : ~ party_pls_chan(c) /\ ~ party_minus_chan(c) /\ ~ script_schan_set(c)
    BY <1>1 DEF party_pls_chan, party_minus_chan, script_schan_set
  <1>6. \A c \in Chans, u \in Users : ~ gotjoin(c, u) /\ ~ gotpart(c, u) /\ ~ gotmode_o(c, u)
    BY <1>1 DEF gotjoin, gotpart, gotmode_o
  <1>7. \A c \in Chans, m \in Masks : ~ gotmode_b(c, m)
    BY <1>1 DEF gotmode_b
  <1>8. \A u \in Users : ~ gotquit(u) /\ ~ UserConnects(u) /\ ~ gotnick(u)
    BY <1>1 DEF gotquit, UserConnects, gotnick
  <1>9. UNCHANGED channelsVars
    BY <1>2, <1>3, <1>4, <1>5, <1>6, <1>7, <1>8 DEF ChannelsNext
  <1>10. b' = b
    BY <1>9 DEF channelsVars
  <1> QED
    BY <1>10 DEF Astray

\* What holds in every state that can be reached: the bot's notes fit the truth,
\* until the pointer that uhost_cache_swap leaves unset is followed.
THEOREM ChannelsStaySound ==
  ChannelsSpec => [](ChannelsInv \/ Astray)
  <1>1. ChannelsInit => ChannelsInv \/ Astray
    BY ChannelsInvInit
  <1>2. (ChannelsInv \/ Astray) /\ [ChannelsNext]_channelsVars => (ChannelsInv \/ Astray)'
    BY ChannelsInvStep, AstrayStays
  <1> QED
    BY <1>1, <1>2, PTL DEF ChannelsSpec

-----------------------------------------------------------------------------
\* What the runs check follows.

\* A sequence that lists a set, each element once, is as long as the set is big.
LEMMA ListedOnce ==
  ASSUME NEW k \in Nat, NEW S, NEW f \in [1 .. k -> S],
         \A i, j \in 1 .. k : f[i] = f[j] => i = j, \A x \in S : \E i \in 1 .. k : f[i] = x
  PROVE  Cardinality(S) = k
  <1>1. f \in Bijection(1 .. k, S)
    BY DEF Bijection, Injection, Surjection, IsInjective
  <1>2. ExistsBijection(1 .. k, S)
    BY <1>1 DEF ExistsBijection
  <1>3. IsFiniteSet(1 .. k) /\ Cardinality(1 .. k) = k
    BY FS_Interval
  <1> QED
    BY <1>2, <1>3, FS_Bijection

\* What is said of a channel the bot is on, before any late answer.
LEMMA ClearChannel ==
  ASSUME ChannelsInv, NEW c \in Chans, Clear(c)
  PROVE  /\ Bot \in on[c] /\ b.chan[c].stray = 0
         /\ b.chan[c].members \in Seq(Member) /\ b.chan[c].masks \in Seq(Masks)
         /\ \A u \in on[c] : nickOf[u] \in NicksIn(b.chan[c].members)
         /\ AllRight(b.chan[c].members, on[c], nickOf, ops[c], Asked(sent, c))
         /\ Masked(b.chan[c], bans[c])
         /\ \A u \in on[c], v \in on[c] : nickOf[u] = nickOf[v] => u = v
  <1> DEFINE ch == b.chan[c]
  <1>1. ch.joined = 1 /\ ch.stray = 0
    BY DEF Clear
  <1>2. ch \in Channel /\ Sound(ch, on[c], nickOf, ops[c], bans[c], Asked(sent, c))
    BY InvFacts
  <1>3. \A u \in on[c], v \in on[c] : nickOf[u] = nickOf[v] => u = v
    BY InvFacts, ChannelsAssumption DEF Named
  <1> HIDE DEF ch
  <1>4. Bot \in on[c]
    BY <1>1, <1>2, SoundApart
  <1>5. /\ \A u \in on[c] : nickOf[u] \in NicksIn(ch.members)
        /\ AllRight(ch.members, on[c], nickOf, ops[c], Asked(sent, c)) /\ Masked(ch, bans[c])
    BY <1>1, <1>2, <1>4, SoundJoined
  <1>6. ch.members \in Seq(Member) /\ ch.masks \in Seq(Masks)
    BY <1>2, ChannelFields
  <1> QED
    BY <1>1, <1>3, <1>4, <1>5, <1>6 DEF ch

LEMMA InvLists ==
  ASSUME ChannelsInv
  PROVE  ListsAgree
  <1>1. ASSUME NEW c \in Chans, Clear(c)
        PROVE  Listed(c) = NicksOn(c) /\ Len(b.chan[c].members) = Cardinality(on[c])
    <2> DEFINE l == b.chan[c].members
               k == Len(l)
    <2>1. /\ l \in Seq(Member) /\ \A u \in on[c] : nickOf[u] \in NicksIn(l)
          /\ AllRight(l, on[c], nickOf, ops[c], Asked(sent, c))
          /\ \A u \in on[c], v \in on[c] : nickOf[u] = nickOf[v] => u = v
      BY <1>1, ClearChannel
    <2>2. Listed(c) = NicksIn(l)
      BY DEF Listed
    <2> HIDE DEF l
    <2>3. k \in Nat /\ DOMAIN l = 1 .. k
      BY <2>1
    <2> HIDE DEF k
    <2>4. /\ \A i, j \in 1 .. k : l[i].nick = l[j].nick => i = j
          /\ \A i \in 1 .. k : \E u \in on[c] : l[i].nick = nickOf[u]
      BY <2>1, <2>3 DEF AllRight, NoTwice, Right
    <2> DEFINE f == [i \in 1 .. k |-> CHOOSE u \in on[c] : l[i].nick = nickOf[u]]
    <2>5. \A i \in 1 .. k : f[i] \in on[c] /\ l[i].nick = nickOf[f[i]]
      BY <2>4
    <2>6. f \in [1 .. k -> on[c]]
      BY <2>5
    <2> HIDE DEF f
    <2>7. \A i, j \in 1 .. k : f[i] = f[j] => i = j
      BY <2>4, <2>5
    <2>8. \A u \in on[c] : \E i \in 1 .. k : f[i] = u
      <3> SUFFICES ASSUME NEW u \in on[c]
                   PROVE  \E i \in 1 .. k : f[i] = u
        OBVIOUS
      <3>1. PICK i \in 1 .. k : l[i].nick = nickOf[u]
        BY <2>1, <2>3 DEF NicksIn
      <3> QED
        BY <2>1, <2>5, <3>1
    <2>9. Cardinality(on[c]) = k
      BY <2>3, <2>6, <2>7, <2>8, ListedOnce
    <2>10. NicksIn(l) \subseteq NicksOn(c)
      BY <2>3, <2>4 DEF NicksIn, NicksOn
    <2>11. NicksOn(c) \subseteq NicksIn(l)
      BY <2>1 DEF NicksOn
    <2>12. Len(b.chan[c].members) = k
      BY DEF k, l
    <2> QED
      BY <2>2, <2>9, <2>10, <2>11, <2>12
  <1>2. b.down = 0
    BY InvFacts
  <1> QED
    BY <1>1, <1>2, InvJoined DEF ListsAgree

\* Of which user the notes at place i of a list are.
LEMMA NotesOf ==
  ASSUME ChannelsInv, NEW c \in Chans, Clear(c), NEW i \in DOMAIN b.chan[c].members
  PROVE  \E u \in on[c] :
           /\ b.chan[c].members[i].nick = nickOf[u]
           /\ b.chan[c].members[i].op = 1 <=> u \in ops[c]
           /\ b.chan[c].members[i].bot = 1 <=> u = Bot
           /\ b.chan[c].members[i].uhost = u \/ b.chan[c].members[i].uhost \in Asked(sent, c)
           /\ \A v \in on[c] : nickOf[v] = nickOf[u] => v = u
  BY ClearChannel DEF AllRight, Right

LEMMA InvOps ==
  ASSUME ChannelsInv
  PROVE  OpsAgree
  <1> SUFFICES ASSUME NEW c \in Chans, Clear(c), NEW i \in DOMAIN b.chan[c].members
               PROVE  /\ b.chan[c].members[i].op = 1 <=>
                           \E u \in ops[c] : nickOf[u] = b.chan[c].members[i].nick
                      /\ b.chan[c].members[i].bot = 1 <=> b.chan[c].members[i].nick = me
    BY DEF OpsAgree
  <1> DEFINE m == b.chan[c].members[i]
  <1>1. PICK u \in on[c] :
          /\ m.nick = nickOf[u] /\ (m.op = 1 <=> u \in ops[c]) /\ (m.bot = 1 <=> u = Bot)
          /\ \A v \in on[c] : nickOf[v] = nickOf[u] => v = u
    BY NotesOf
  <1>2. ops[c] \subseteq on[c] /\ Bot \in on[c]
    BY InvFacts, ClearChannel
  <1> HIDE DEF m
  <1>3. m.op = 1 <=> \E v \in ops[c] : nickOf[v] = m.nick
    BY <1>1, <1>2
  <1>4. m.bot = 1 <=> m.nick = me
    BY <1>1, <1>2 DEF me
  <1> QED
    BY <1>3, <1>4 DEF m

LEMMA InvHosts ==
  ASSUME ChannelsInv
  PROVE  HostsKnown
  <1> SUFFICES ASSUME NEW c \in Chans, Clear(c), NEW i \in DOMAIN b.chan[c].members, NEW u \in on[c],
                      b.chan[c].members[i].nick = nickOf[u]
               PROVE  \/ b.chan[c].members[i].uhost = u
                      \/ b.chan[c].members[i].uhost = NoUhost /\ Request("WHO", c) \in Range(sent)
    BY DEF HostsKnown
  <1> DEFINE m == b.chan[c].members[i]
             w == Request("WHO", c)
  <1>1. m.nick = nickOf[u]
    OBVIOUS
  <1>2. PICK v \in on[c] :
          /\ m.nick = nickOf[v] /\ (m.uhost = v \/ m.uhost \in Asked(sent, c))
          /\ \A v2 \in on[c] : nickOf[v2] = nickOf[v] => v2 = v
    BY NotesOf
  <1> HIDE DEF m
  <1>3. m.uhost = u \/ m.uhost \in Asked(sent, c)
    BY <1>1, <1>2
  <1>4. ASSUME m.uhost \in Asked(sent, c)
        PROVE  m.uhost = NoUhost /\ w \in Range(sent)
    <2>1. m.uhost = NoUhost /\ Contains(sent, w)
      BY <1>4 DEF Asked
    <2> HIDE DEF w
    <2>2. DOMAIN sent = 1 .. Len(sent)
      BY InvFacts
    <2> QED
      BY <2>1, <2>2 DEF Contains, Range
  <1> QED
    BY <1>3, <1>4 DEF m

LEMMA InvCovers ==
  ASSUME ChannelsInv
  PROVE  EntriesCover
  <1> SUFFICES ASSUME b.late = 0, NEW n \in Nicks,
                      {c \in Chans : b.chan[c].joined = 1 /\ n \in NicksOn(c)} # {}
               PROVE  /\ b.cache[n] # <<>>
                      /\ b.cache[n][1].refs >= Cardinality({c \in Chans : b.chan[c].joined = 1 /\ n \in NicksOn(c)})
    BY DEF EntriesCover
  <1> DEFINE cs == {c \in Chans : b.chan[c].joined = 1 /\ n \in NicksOn(c)}
  <1>1. cs = SeenOn(n)
    BY InvJoined DEF SeenOn
  <1>2. cs # {} /\ IsFiniteSet(cs)
    BY ChannelsAssumption, FS_Subset
  <1> HIDE DEF cs
  <1>3. Cardinality(cs) \in Nat /\ Cardinality(cs) # 0
    BY <1>2, FS_CardinalityType, FS_EmptySet
  <1>4. Refs(b, n) >= Cardinality(cs) /\ Refs(b, n) \in Nat
    BY <1>1, InvFacts DEF ChannelsInv, Counted, Covered
  <1>5. b.cache[n] # <<>>
    BY <1>3, <1>4 DEF Refs
  <1>6. Refs(b, n) = b.cache[n][1].refs
    BY <1>5 DEF Refs
  <1> QED
    BY <1>4, <1>5, <1>6 DEF cs

LEMMA InvMasks ==
  ASSUME ChannelsInv
  PROVE  MasksSound
  <1> SUFFICES ASSUME NEW c \in Chans, Clear(c)
               PROVE  /\ Range(b.chan[c].masks) \subseteq bans[c]
                      /\ Len(b.chan[c].masks) = Cardinality(Range(b.chan[c].masks))
    BY DEF MasksSound
  <1> DEFINE l == b.chan[c].masks
             k == Len(l)
             S == Range(l)
  <1>1. /\ l \in Seq(Masks) /\ \A i, j \in DOMAIN l : l[i] = l[j] => i = j
        /\ \A i \in DOMAIN l : l[i] \in bans[c]
    BY ClearChannel DEF Masked, Once
  <1> HIDE DEF l
  <1>2. k \in Nat /\ DOMAIN l = 1 .. k /\ l = [i \in 1 .. k |-> l[i]]
    BY <1>1
  <1>3. S \subseteq bans[c] /\ l \in [1 .. k -> S] /\ \A x \in S : \E i \in 1 .. k : l[i] = x
    <2> HIDE DEF k
    <2> QED
      BY <1>1, <1>2 DEF Range
  <1> HIDE DEF S, k
  <1>4. Cardinality(S) = k
    BY <1>1, <1>2, <1>3, ListedOnce
  <1> QED
    BY <1>3, <1>4 DEF l, k, S

\* The member list of a channel, its flags and its hosts agree with the server.
THEOREM MembersStayInAgreement ==
  ChannelsSpec => []MembersAgree
  <1>1. ChannelsInv => MembersAgree
    BY InvLists, InvOps, InvHosts DEF MembersAgree
  <1>2. Astray => MembersAgree
    BY DEF Astray, MembersAgree
  <1> QED
    BY <1>1, <1>2, ChannelsStaySound, PTL

\* Whoever is on a channel with the bot is counted in the cache for each of
\* them, and the unset pointer is followed only after a late answer or while the
\* bot is on no channel.
THEOREM CacheStaysCovering ==
  ChannelsSpec => []CacheCovers
  <1>1. ChannelsInv => CacheCovers
    BY InvCovers, InvFacts DEF CacheCovers
  <1>2. Astray => CacheCovers
    BY DEF Astray, CacheCovers
  <1> QED
    BY <1>1, <1>2, ChannelsStaySound, PTL

\* No mask is listed that is not set, and none twice.
THEOREM MasksStaySound ==
  ChannelsSpec => []MasksSound
  <1>1. ChannelsInv => MasksSound
    BY InvMasks DEF MasksSound
  <1>2. Astray => MasksSound
    BY DEF Astray, MasksSound
  <1> QED
    BY <1>1, <1>2, ChannelsStaySound, PTL
=============================================================================
