------------------------------- MODULE Users -------------------------------
(***************************************************************************)
(* lib/eggdrop/users.c with the list of masks of ircmasks.c: the user      *)
(* records, their ids, the cache from irc hosts to users, and the user     *)
(* file, through crashes and restarts.                                     *)
(*                                                                         *)
(* A record is a place in memory; pointers to it are kept in the list of   *)
(* masks and in the cache, and it is freed when the garbage is collected.  *)
(* A change of flags asks the uflags binds, and what these call happens    *)
(* before the change goes on (frames).  When freed memory is used the      *)
(* process is undefined and only a crash is left.                          *)
(* Users of linked bots cannot be deleted; they are left out.              *)
(***************************************************************************)
EXTENDS Integers, Sequences, FiniteSets, SequencesExt

CONSTANTS
  Slots,     \* bound: memory for user records, 1..n
  Handles,   \* valid handles
  Masks,     \* irc masks, with "*"
  Hosts,     \* irc hosts
  Strength,  \* Strength[m][h]: what wild_match returns, 0 for no match
  Length,    \* Length[m]: characters of m that are not "*"
  MinUid, MaxUid, \* the range of an int
  MaxMasks,  \* bound: masks of a user
  MaxNest,   \* bound: changes of flags at a time
  MaxChanges \* bound: changes of records, saves and crashes in a behaviour

ASSUME UsersAssumption ==
  /\ IsFiniteSet(Slots) /\ Slots = 1 .. Cardinality(Slots)
  /\ "*" \in Masks
  /\ Strength \in [Masks -> [Hosts -> Nat]] /\ Length \in [Masks -> Nat]
  /\ \A h \in Hosts : Strength["*"][h] > 0
  /\ MinUid \in Int /\ MaxUid \in Nat \ {0} /\ MinUid + Cardinality(Slots) < 0
  /\ MaxMasks \in Nat /\ MaxNest \in Nat /\ MaxChanges \in Nat

VARIABLES
  run,            \* "up", "down" or "undefined"
  user,           \* [Slots -> user_t]
  ircmask_list,   \* sequence of [mask, u]
  irchost_cache,  \* [Hosts -> Slots, None or Absent]
  g_uid,
  uid_wraparound, \* 1 when it counts anything
  frames,         \* the changes of flags that wait for their binds
  disk,           \* the user file; Torn when writing it was cut short
  owed,           \* history: users of the file that were not deleted since
  clash,          \* history: two users had the same mask, or one had "*"
  changes         \* those bounded by MaxChanges so far
memory == <<user, ircmask_list, irchost_cache, g_uid, uid_wraparound, frames>>
vars == <<run, user, ircmask_list, irchost_cache, g_uid, uid_wraparound, frames, disk, owed, clash, changes>>

None == 0      \* NULL
Absent == -1   \* no entry

\* b is the flag +b of the global setting, bot the flag USER_BOT that repeats
\* it; nset counts the settings, the global one and one for each channel.
NoUser == [st |-> "free", handle |-> "", uid |-> 0, masks |-> <<>>, b |-> 0, bot |-> 0, nset |-> 0]
Alive(u) == user[u].st = "live"
Taken == {user[u].uid : u \in {x \in Slots : Alive(x)}}
FreeSlot == {u \in Slots : user[u].st = "free" /\ \A x \in Slots : x < u => user[x].st # "free"}

\* No pointer that will be followed is to freed memory.
Sane == /\ \A i \in DOMAIN ircmask_list : user[ircmask_list[i].u].st # "free"
        /\ \A h \in Hosts : irchost_cache[h] \in Slots => user[irchost_cache[h]].st # "free"
Up == run = "up" /\ Sane
Change == changes < MaxChanges /\ changes' = changes + 1

Empty == [good |-> 1, users |-> <<>>, next |-> 1, wrap |-> 0]
Torn == [Empty EXCEPT !.good = 0]
NoCache == [h \in Hosts |-> Absent]

Init == /\ run = "up" /\ user = [u \in Slots |-> NoUser]
        /\ ircmask_list = <<>> /\ irchost_cache = NoCache
        /\ g_uid = 1 /\ uid_wraparound = 0 /\ frames = <<>>
        /\ disk = Empty /\ owed = {} /\ clash = 0 /\ changes = 0

-----------------------------------------------------------------------------
\* Masks.

\* ircmask_list_add: before the first that is not longer.
ircmask_list_add(l, m, u) ==
  LET after == {i \in DOMAIN l : Length[l[i].mask] <= Length[m]}
  IN  InsertAt(l, Min(after \cup {Len(l) + 1}), [mask |-> m, u |-> u])

\* ircmask_list_del: the first with this mask, whosever it is.
ircmask_list_del(l, m) ==
  LET at == {i \in DOMAIN l : l[i].mask = m /\ \A j \in 1 .. i - 1 : l[j].mask # m}
  IN  IF at = {} THEN l ELSE RemoveAt(l, CHOOSE i \in at : TRUE)

\* ircmask_list_find: the first that matches.
ircmask_list_find(h) ==
  LET fits == {i \in DOMAIN ircmask_list : Strength[ircmask_list[i].mask][h] > 0}
  IN  IF fits = {} THEN None ELSE ircmask_list[Min(fits)].u

\* cache_check_add for one host: a stronger match takes the entry over.
BestStrength(c, h) ==
  LET s == IF c \in Slots THEN {Strength[user[c].masks[i]][h] : i \in DOMAIN user[c].masks} ELSE {}
  IN  CHOOSE n \in s \cup {0} : \A x \in s : x <= n

\* Mutant: entries that say "nobody" are passed over.
BugNobodyStays(c, h, m, u) ==
  IF c \in Slots /\ Strength[m][h] > BestStrength(c, h) THEN u ELSE c
cache_check_add(c, h, m, u) ==
  IF c # Absent /\ Strength[m][h] > BestStrength(c, h) THEN u ELSE c

\* cache_check_del over the whole cache.
cache_user_del(u, m) ==
  [h \in Hosts |-> IF irchost_cache[h] = u /\ Strength[m][h] > 0 THEN Absent ELSE irchost_cache[h]]

user_add_ircmask(u, m) ==
  /\ Change /\ Up /\ Alive(u) /\ Len(user[u].masks) < MaxMasks
  /\ irchost_cache' = [h \in Hosts |-> cache_check_add(irchost_cache[h], h, m, u)]
  /\ user' = [user EXCEPT ![u].masks = Append(@, m)]
  /\ ircmask_list' = ircmask_list_add(ircmask_list, m, u)
  /\ clash' = IF m = "*" \/ \E x \in Slots \ {u} : Alive(x) /\ Contains(user[x].masks, m)
                THEN 1 ELSE clash
  /\ UNCHANGED <<run, g_uid, uid_wraparound, frames, disk, owed>>

user_del_ircmask(u, m) ==
  /\ Change /\ Up /\ Alive(u) /\ Contains(user[u].masks, m)
  /\ user' = [user EXCEPT ![u].masks = RemoveFirst(@, m)]
  /\ irchost_cache' = cache_user_del(u, m)
  /\ ircmask_list' = ircmask_list_del(ircmask_list, m)
  /\ UNCHANGED <<run, g_uid, uid_wraparound, frames, disk, owed, clash>>

\* What is found is cached, nobody included.
user_lookup_by_irchost(h) ==
  /\ Up /\ irchost_cache[h] = Absent
  /\ irchost_cache' = [irchost_cache EXCEPT ![h] = ircmask_list_find(h)]
  /\ UNCHANGED <<run, user, ircmask_list, g_uid, uid_wraparound, frames, disk, owed, clash, changes>>

\* Every hour each entry is dropped or not by chance.
cache_rand_cleanup ==
  /\ Up
  /\ \E out \in SUBSET {h \in Hosts : irchost_cache[h] # Absent} :
       /\ out # {}
       /\ irchost_cache' = [h \in Hosts |-> IF h \in out THEN Absent ELSE irchost_cache[h]]
  /\ UNCHANGED <<run, user, ircmask_list, g_uid, uid_wraparound, frames, disk, owed, clash, changes>>

-----------------------------------------------------------------------------
\* Users.

\* n counted up k times, as an int.
Span == MaxUid - MinUid + 1
Later(n, k) == MinUid + ((n - MinUid + k) % Span)

Wrapped == IF g_uid <= 0 THEN 1 ELSE uid_wraparound
\* user_get_uid: once ids have wrapped around a free one is searched for.
user_get_uid ==
  LET from == IF g_uid <= 0 THEN 1 ELSE g_uid
      free == {k \in 0 .. Cardinality(Slots) : Later(from, k) \notin Taken}
  IN  IF Wrapped = 0 THEN from ELSE Later(from, CHOOSE k \in free : \A x \in free : k <= x)

NewUser(h) == [st |-> "live", handle |-> h, uid |-> user_get_uid, masks |-> <<>>,
               b |-> 0, bot |-> 0, nset |-> 1]
\* An id is used up even if the handle turns out to be taken.
user_new(h) ==
  /\ Change /\ Up
  /\ g_uid' = Later(user_get_uid, 1) /\ uid_wraparound' = Wrapped
  /\ \/ \E x \in Slots : Alive(x) /\ user[x].handle = h
        /\ UNCHANGED user
     \/ /\ \A x \in Slots : Alive(x) => user[x].handle # h
        /\ \E u \in FreeSlot : user' = [user EXCEPT ![u] = NewUser(h)]
  /\ UNCHANGED <<run, ircmask_list, irchost_cache, frames, disk, owed, clash>>

\* What the udelete binds do is done by later steps; no garbage is collected
\* before they return.
user_delete(u) ==
  /\ Change /\ Up /\ Alive(u)
  /\ user' = [user EXCEPT ![u].st = "deleted"]
  /\ irchost_cache' = cache_user_del(u, "*")
  /\ ircmask_list' = FoldLeft(ircmask_list_del, ircmask_list, <<"*">> \o user[u].masks)
  /\ owed' = {x \in owed : x.uid # user[u].uid}
  /\ UNCHANGED <<run, g_uid, uid_wraparound, frames, disk, clash>>

\* garbage_run with user_really_delete, in the main loop.
user_really_delete ==
  /\ Up /\ frames = <<>> /\ \E u \in Slots : user[u].st = "deleted"
  /\ user' = [u \in Slots |-> IF Alive(u) THEN user[u] ELSE NoUser]
  /\ UNCHANGED <<run, ircmask_list, irchost_cache, g_uid, uid_wraparound, frames, disk, owed, clash, changes>>

\* user_change_handle frees the new handle, which the table of handles and the
\* record go on using.
user_change_handle(u, h) ==
  /\ Change /\ Up /\ Alive(u) /\ \A x \in Slots : Alive(x) => user[x].handle # h
  /\ run' = "undefined"
  /\ UNCHANGED <<memory, disk, owed, clash>>

-----------------------------------------------------------------------------
\* Flags.

\* user_set_flags up to its binds; c is 1 for a channel.  A setting that is
\* added may move those that another change points to.
user_set_flags(u, c, v) ==
  LET grows == c = 1 /\ user[u].nset = 1
      moved == [i \in DOMAIN frames |-> IF grows /\ frames[i].u = u
                                         THEN [frames[i] EXCEPT !.fixed = 0] ELSE frames[i]]
  IN  /\ Change /\ Up /\ Alive(u) /\ Len(frames) < MaxNest
      /\ user' = [user EXCEPT ![u].nset = IF grows THEN 2 ELSE @]
      /\ frames' = Append(moved, [u |-> u, c |-> c, v |-> v, fixed |-> 1])
      /\ UNCHANGED <<run, ircmask_list, irchost_cache, g_uid, uid_wraparound, disk, owed, clash>>

\* check_flag_change after its binds: what happens to the record r.
\* Mutant: the flag is set before it is known whether a bind objects.
BugSetAnyway(r, f, broke) ==
  [r EXCEPT !.bot = IF f.c = 0 THEN f.v ELSE @, !.b = IF f.c = 0 /\ broke = 0 THEN f.v ELSE @]
check_flag_change(r, f, broke) ==
  IF f.c = 1 \/ broke = 1 THEN r ELSE [r EXCEPT !.bot = f.v, !.b = f.v]

\* The binds have returned, and broke says whether one of them objected.
FlagsChecked(broke) ==
  LET f == Last(frames)
  IN  /\ Up /\ frames # <<>>
      /\ frames' = Front(frames)
      /\ \/ /\ f.fixed = 1 \/ broke = 1
            /\ user' = [user EXCEPT ![f.u] = check_flag_change(@, f, broke)]
            /\ UNCHANGED run
         \/ f.fixed = 0 /\ broke = 0 /\ run' = "undefined" /\ UNCHANGED user
      /\ UNCHANGED <<ircmask_list, irchost_cache, g_uid, uid_wraparound, disk, owed, clash, changes>>

-----------------------------------------------------------------------------
\* The user file.

\* save_walker: users in the order of uid_ht.
Saved ==
  LET live == {[handle |-> user[u].handle, uid |-> user[u].uid, masks |-> user[u].masks,
                b |-> user[u].b, nset |-> user[u].nset] : u \in {x \in Slots : Alive(x)}}
  IN  CHOOSE s \in [1 .. Cardinality(live) -> live] :
        \A i, j \in DOMAIN s : i < j => s[i].uid < s[j].uid

user_save ==
  /\ Change /\ Up
  /\ disk' = [good |-> 1, users |-> Saved, next |-> g_uid, wrap |-> uid_wraparound]
  /\ owed' = {[handle |-> x.handle, uid |-> x.uid] : x \in ToSet(Saved)}
  /\ UNCHANGED <<run, memory, clash>>

Wiped == /\ user' = [u \in Slots |-> NoUser]
         /\ ircmask_list' = <<>> /\ irchost_cache' = NoCache
         /\ g_uid' = 1 /\ uid_wraparound' = 0 /\ frames' = <<>>

\* The process ends, perhaps while xml_save_file writes over the old file.
Crash ==
  /\ Change /\ run # "down" /\ run' = "down" /\ Wiped
  /\ \/ UNCHANGED <<disk, owed>>
     \/ run = "up" /\ disk' = Torn /\ owed' = {}
  /\ UNCHANGED clash

\* user_load, with real_user_new and append_setting; a file that cannot be
\* parsed leaves the bot without users.
\* Mutant: uid_wraparound is not read.
BugForgetsWrap == 0
LoadedWrap == disk.wrap
Loaded(x) == [st |-> "live", handle |-> x.handle, uid |-> x.uid, masks |-> x.masks,
              b |-> x.b, bot |-> x.b, nset |-> x.nset]
LoadedMasks(l, u) ==
  LET add(k, m) == ircmask_list_add(k, m, u) IN FoldLeft(add, l, disk.users[u].masks)
LoadedList == FoldLeft(LoadedMasks, <<>>, [u \in DOMAIN disk.users |-> u])
user_load ==
  /\ run = "down" /\ run' = "up" /\ disk.good = 1
  /\ user' = [u \in Slots |-> IF u \in DOMAIN disk.users THEN Loaded(disk.users[u]) ELSE NoUser]
  /\ ircmask_list' = LoadedList
  /\ g_uid' = disk.next /\ uid_wraparound' = LoadedWrap
  /\ UNCHANGED <<irchost_cache, frames, disk, owed, clash, changes>>
LoadFails == run = "down" /\ run' = "up" /\ disk.good = 0 /\ UNCHANGED <<memory, disk, owed, clash, changes>>

Next ==
  \/ \E h \in Handles : user_new(h)
  \/ \E u \in Slots :
       \/ user_delete(u)
       \/ \E m \in Masks : user_add_ircmask(u, m) \/ user_del_ircmask(u, m)
       \/ \E h \in Handles : user_change_handle(u, h)
       \/ \E c, v \in {0, 1} : user_set_flags(u, c, v)
  \/ \E h \in Hosts : user_lookup_by_irchost(h)
  \/ cache_rand_cleanup \/ user_really_delete \/ user_save
  \/ \E broke \in {0, 1} : FlagsChecked(broke)
  \/ Crash \/ user_load \/ LoadFails

Spec == Init /\ [][Next]_vars

-----------------------------------------------------------------------------
Count(s, x) == Cardinality({i \in DOMAIN s : s[i] = x})

\* As long as no two users have the same mask and none has "*", the list holds
\* each mask of each live user, and nothing else, longest first; who is cached
\* for a host has a mask that matches it, and when nobody is cached, nobody has
\* (user_lookup_by_irchost, through additions, deletions and restarts).
MasksFound == run = "up" /\ clash = 0 =>
  /\ \A u \in Slots, m \in Masks :
       Count(ircmask_list, [mask |-> m, u |-> u]) = IF Alive(u) THEN Count(user[u].masks, m) ELSE 0
  /\ \A i \in 1 .. Len(ircmask_list) - 1 : Length[ircmask_list[i].mask] >= Length[ircmask_list[i + 1].mask]
  /\ \A h \in Hosts :
       LET fit == {u \in Slots : Alive(u) /\ \E m \in ToSet(user[u].masks) : Strength[m][h] > 0}
       IN  irchost_cache[h] \in fit \/ irchost_cache[h] = Absent \/ (irchost_cache[h] = None /\ fit = {})

\* Users have different ids and handles, ids that wrapped around included, and
\* every user that was saved is there after a restart, with the same id, unless
\* it was deleted or the file was torn (user_get_uid, user_save, user_load).
RecordsKept == run = "up" =>
  /\ \A u, x \in Slots : u # x /\ Alive(u) /\ Alive(x) =>
       user[u].uid # user[x].uid /\ user[u].handle # user[x].handle
  /\ \A x \in owed : \E u \in Slots : Alive(u) /\ user[u].uid = x.uid /\ user[u].handle = x.handle

\* USER_BOT, which deletion and linking look at, says what the global flags
\* say, also when a bind changes the flags of a user whose flags are being
\* changed, or objects (check_flag_change, append_setting).
BotFlagAgrees == run = "up" => \A u \in Slots : user[u].bot = user[u].b
=============================================================================
