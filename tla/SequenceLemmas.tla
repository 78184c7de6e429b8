--------------------------- MODULE SequenceLemmas ---------------------------
(***************************************************************************)
(* What the operators of SequencesExt that the models use return, element  *)
(* by element, the least-number principle, and a fold over a sequence as   *)
(* the sequence of its stages, in the form the other proofs need.          *)
(***************************************************************************)
EXTENDS Integers, Sequences, SequencesExt, WellFoundedInduction, TLAPS

\* The least-number principle, for a set: what an argument by induction rests
\* on.
LEMMA LeastNat ==
  ASSUME NEW A \in SUBSET Nat, A # {}
  PROVE  \E m \in A : \A j \in A : m <= j
  <1> DEFINE R == {ss \in Nat \X Nat : ss[1] < ss[2]}
  <1>1. IsWellFoundedOn(R, Nat)
    BY NatLessThanWellFounded DEF OpToRel
  <1> HIDE DEF R
  <1>2. PICK m \in A : \A j \in A : ~ (<<j, m>> \in R)
    BY <1>1, WFMin
  <1>3. ASSUME NEW j \in A PROVE ~ j < m
    <2>1. ~ (<<j, m>> \in R)
      BY <1>2
    <2> QED
      BY <2>1 DEF R
  <1> QED
    BY <1>3

\* An entry is taken out: those behind it move up.
LEMMA RemoveAtProperties ==
  ASSUME NEW S, NEW s \in Seq(S), NEW k \in 1 .. Len(s)
  PROVE  /\ RemoveAt(s, k) \in Seq(S)
         /\ Len(RemoveAt(s, k)) = Len(s) - 1
         /\ \A j \in 1 .. Len(s) - 1 : RemoveAt(s, k)[j] = IF j < k THEN s[j] ELSE s[j + 1]
  <1> DEFINE a == SubSeq(s, 1, k - 1)
             b == SubSeq(s, k + 1, Len(s))
  <1>0. Len(s) \in Nat /\ k \in Nat
    OBVIOUS
  <1>1. a \in Seq(S) /\ Len(a) = k - 1 /\ \A j \in 1 .. k - 1 : a[j] = s[j]
    OBVIOUS
  <1>2. b \in Seq(S) /\ Len(b) = Len(s) - k /\ \A j \in 1 .. Len(s) - k : b[j] = s[k + j]
    OBVIOUS
  <1>3. RemoveAt(s, k) = a \o b
    BY DEF RemoveAt
  <1> HIDE DEF a, b
  <1>4. a \o b \in Seq(S) /\ Len(a \o b) = Len(s) - 1
    <2>1. a \in Seq(S) /\ b \in Seq(S)
      BY <1>1, <1>2
    <2>2. a \o b \in Seq(S) /\ Len(a \o b) = Len(a) + Len(b)
      BY <2>1
    <2>3. Len(a) = k - 1 /\ Len(b) = Len(s) - k
      BY <1>1, <1>2
    <2> QED
      BY <1>0, <2>2, <2>3
  <1>5. ASSUME NEW j \in 1 .. Len(s) - 1
        PROVE  (a \o b)[j] = IF j < k THEN s[j] ELSE s[j + 1]
    <2>1. CASE j < k
      BY <1>0, <1>1, <1>2, <2>1
    <2>2. CASE ~ j < k
      <3>1. (a \o b)[j] = b[j - (k - 1)]
        BY <1>0, <1>1, <1>2, <2>2
      <3>2. j - (k - 1) \in 1 .. Len(s) - k /\ k + (j - (k - 1)) = j + 1
        BY <1>0, <2>2
      <3> QED
        BY <1>2, <2>2, <3>1, <3>2
    <2> QED
      BY <2>1, <2>2
  <1> QED
    BY <1>3, <1>4, <1>5

\* An entry is put in: those from its position on move down.
LEMMA InsertAtProperties ==
  ASSUME NEW S, NEW s \in Seq(S), NEW k \in 1 .. Len(s) + 1, NEW e \in S
  PROVE  /\ InsertAt(s, k, e) \in Seq(S)
         /\ Len(InsertAt(s, k, e)) = Len(s) + 1
         /\ \A j \in 1 .. Len(s) + 1 :
              InsertAt(s, k, e)[j] = IF j < k THEN s[j] ELSE IF j = k THEN e ELSE s[j - 1]
  <1> DEFINE a == SubSeq(s, 1, k - 1)
             b == SubSeq(s, k, Len(s))
             c == a \o <<e>>
  <1>0. Len(s) \in Nat /\ k \in Nat
    OBVIOUS
  <1>1. a \in Seq(S) /\ Len(a) = k - 1 /\ \A j \in 1 .. k - 1 : a[j] = s[j]
    OBVIOUS
  <1>2. b \in Seq(S) /\ Len(b) = Len(s) - k + 1
    OBVIOUS
  <1>3. \A j \in 1 .. Len(s) - k + 1 : b[j] = s[k + j - 1]
    OBVIOUS
  <1>4. InsertAt(s, k, e) = c \o b
    BY DEF InsertAt
  <1> HIDE DEF a, b
  <1>5. /\ c \in Seq(S) /\ Len(c) = k
        /\ \A j \in 1 .. k : c[j] = IF j < k THEN s[j] ELSE e
    BY <1>0, <1>1
  <1> HIDE DEF c
  <1>6. c \o b \in Seq(S) /\ Len(c \o b) = Len(s) + 1
    BY <1>0, <1>2, <1>5
  <1>7. ASSUME NEW j \in 1 .. Len(s) + 1
        PROVE  (c \o b)[j] = IF j < k THEN s[j] ELSE IF j = k THEN e ELSE s[j - 1]
    <2>1. CASE j <= k
      BY <1>0, <1>2, <1>5, <2>1
    <2>2. CASE ~ j <= k
      <3>1. (c \o b)[j] = b[j - k]
        BY <1>0, <1>2, <1>5, <2>2
      <3>2. j - k \in 1 .. Len(s) - k + 1 /\ k + (j - k) - 1 = j - 1
        BY <1>0, <2>2
      <3> QED
        BY <1>0, <1>3, <2>2, <3>1, <3>2
    <2> QED
      BY <2>1, <2>2
  <1> QED
    BY <1>4, <1>6, <1>7

-----------------------------------------------------------------------------
\* Folds and the least or greatest of some numbers.

\* Induction up to a bound, for a set.
LEMMA UpTo ==
  ASSUME NEW n \in Nat, NEW A, 0 \in A, \A k \in 0 .. n - 1 : k \in A => k + 1 \in A
  PROVE  \A k \in 0 .. n : k \in A
  <1> DEFINE Out == {k \in Nat : k <= n /\ k \notin A}
  <1> SUFFICES ASSUME Out # {} PROVE FALSE
    OBVIOUS
  <1>1. PICK m \in Out : \A j \in Out : m <= j
    <2>1. Out \in SUBSET Nat
      OBVIOUS
    <2> HIDE DEF Out
    <2> QED
      BY <2>1, LeastNat
  <1>2. m \in Nat /\ m # 0 /\ m <= n /\ m \notin A
    BY <1>1
  <1>3. m - 1 \notin Out /\ m - 1 \in 0 .. n - 1 /\ (m - 1) + 1 = m
    BY <1>1, <1>2
  <1>4. m - 1 \in A
    BY <1>2, <1>3
  <1> QED
    BY <1>2, <1>3, <1>4

\* The least and the greatest of some numbers.
LEMMA MinOfNumbers ==
  ASSUME NEW A \in SUBSET Nat, A # {}
  PROVE  Min(A) \in A /\ \A j \in A : Min(A) <= j
  BY LeastNat DEF Min

LEMMA MaxOfNumbers ==
  ASSUME NEW n \in Nat, NEW A \in SUBSET (1 .. n), A # {}
  PROVE  Max(A) \in A /\ \A j \in A : Max(A) >= j
  <1> DEFINE B == {k \in Nat : \A j \in A : k >= j}
  <1>1. PICK m \in B : \A j \in B : m <= j
    <2>1. B \in SUBSET Nat /\ n \in B
      OBVIOUS
    <2> HIDE DEF B
    <2> QED
      BY <2>1, LeastNat
  <1>2. m \in A
    <2> SUFFICES ASSUME m \notin A PROVE FALSE
      OBVIOUS
    <2>0. m \in Nat /\ \A j \in A : m >= j
      BY <1>1
    <2>1. \A j \in A : j \in Nat /\ j >= 1 /\ m > j
      BY <2>0
    <2>2. m - 1 \in Nat
      <3>1. PICK a \in A : TRUE
        OBVIOUS
      <3> QED
        BY <2>0, <2>1, <3>1
    <2>3. m - 1 \in B
      BY <2>0, <2>1, <2>2
    <2> QED
      BY <1>1, <2>3
  <1> QED
    BY <1>1, <1>2 DEF Max

\* A fold takes the positions of a sequence from the last to the first, as a
\* function f on sets of positions: step[k][v] is what the k-th makes of v.
LastFirst(f, n, W, base, step) ==
  /\ f \in [SUBSET (1 .. n) -> W]
  /\ \A s \in SUBSET (1 .. n) :
       f[s] = IF s = {} THEN base ELSE step[Max(s)][f[s \ {Max(s)}]]

\* There is one.
LEMMA LastFirstExists ==
  ASSUME NEW n \in Nat, NEW W, NEW base \in W, NEW step \in [1 .. n -> [W -> W]]
  PROVE  \E f : LastFirst(f, n, W, base, step)
  <1> DEFINE Good(f, k) == \A s \in SUBSET (1 .. k) :
               f[s] = IF s = {} THEN base ELSE step[Max(s)][f[s \ {Max(s)}]]
             Solved(k) == \E f \in [SUBSET (1 .. k) -> W] : Good(f, k)
             A == {k \in 0 .. n : Solved(k)}
  <1>1. 0 \in A
    <2> DEFINE f == [s \in SUBSET (1 .. 0) |-> base]
    <2>1. f \in [SUBSET (1 .. 0) -> W]
      OBVIOUS
    <2>2. Good(f, 0)
      <3>1. 1 .. 0 = {}
        OBVIOUS
      <3>2. ASSUME NEW s \in SUBSET (1 .. 0) PROVE s = {} /\ f[s] = base
        BY <3>1
      <3> HIDE DEF f
      <3> QED
        BY <3>2
    <2> HIDE DEF f
    <2>3. Solved(0)
      BY <2>1, <2>2
    <2> HIDE DEF Solved
    <2> QED
      BY <2>3
  <1>2. ASSUME NEW k \in 0 .. n - 1, k \in A
        PROVE  k + 1 \in A
    <2>1. PICK f \in [SUBSET (1 .. k) -> W] : Good(f, k)
      BY <1>2
    <2>0. k \in Nat /\ k + 1 \in 0 .. n /\ k + 1 \in 1 .. n /\ k + 1 \in Nat /\ k + 1 \notin 1 .. k
      BY <1>2
    <2> DEFINE g == [s \in SUBSET (1 .. k + 1) |->
                       IF k + 1 \in s THEN step[k + 1][f[s \ {k + 1}]] ELSE f[s]]
    <2>2. \A s \in SUBSET (1 .. k + 1) : s \ {k + 1} \in SUBSET (1 .. k) /\ (k + 1 \notin s => s \in SUBSET (1 .. k))
      BY <2>0
    <2>3. g \in [SUBSET (1 .. k + 1) -> W]
      <3>1. ASSUME NEW s \in SUBSET (1 .. k + 1), k + 1 \in s
            PROVE  step[k + 1][f[s \ {k + 1}]] \in W
        <4>1. f[s \ {k + 1}] \in W
          BY <2>1, <2>2
        <4> QED
          BY <2>0, <4>1
      <3>2. ASSUME NEW s \in SUBSET (1 .. k + 1), k + 1 \notin s
            PROVE  f[s] \in W
        BY <2>1, <2>2, <3>2
      <3> QED
        BY <3>1, <3>2
    <2>4. ASSUME NEW s \in SUBSET (1 .. k + 1)
          PROVE  g[s] = IF s = {} THEN base ELSE step[Max(s)][g[s \ {Max(s)}]]
      <3>1. CASE k + 1 \in s
        <4>1. Max(s) = k + 1
          <5>1. Max(s) \in s /\ \A j \in s : Max(s) >= j
            BY <2>0, <3>1, MaxOfNumbers
          <5>2. Max(s) \in 1 .. k + 1
            BY <5>1
          <5> DEFINE top == Max(s)
          <5>3. top \in 1 .. k + 1 /\ top >= k + 1
            BY <3>1, <5>1, <5>2
          <5> HIDE DEF top
          <5>4. top = k + 1
            BY <2>0, <5>3
          <5> QED
            BY <5>4 DEF top
        <4>2. s \ {k + 1} \in SUBSET (1 .. k + 1) /\ k + 1 \notin s \ {k + 1}
          OBVIOUS
        <4>3. g[s \ {k + 1}] = f[s \ {k + 1}]
          BY <4>2
        <4>4. g[s] = step[k + 1][f[s \ {k + 1}]]
          BY <3>1
        <4> QED
          BY <3>1, <4>1, <4>3, <4>4
      <3>2. CASE k + 1 \notin s
        <4>1. s \in SUBSET (1 .. k)
          BY <2>2, <3>2
        <4>2. CASE s = {}
          BY <2>1, <3>2, <4>1, <4>2
        <4>3. CASE s # {}
          <5>1. Max(s) \in s
            BY <2>0, <4>1, <4>3, MaxOfNumbers
          <5>2. s \ {Max(s)} \in SUBSET (1 .. k + 1) /\ k + 1 \notin s \ {Max(s)}
            BY <3>2
          <5> DEFINE t == s \ {Max(s)}
          <5>3. g[t] = f[t]
            BY <5>2
          <5>4. f[s] = step[Max(s)][f[t]]
            BY <2>1, <4>1, <4>3
          <5>5. g[s] = f[s]
            BY <3>2
          <5> QED
            BY <4>3, <5>3, <5>4, <5>5
        <4> QED
          BY <4>2, <4>3
      <3> QED
        BY <3>1, <3>2
    <2>5. Good(g, k + 1)
      BY <2>4
    <2> HIDE DEF g
    <2>6. Solved(k + 1)
      BY <2>3, <2>5
    <2> HIDE DEF Solved
    <2> QED
      BY <2>0, <2>6
  <1>3. n \in A
    <2> HIDE DEF A
    <2>1. \A k \in 0 .. n : k \in A
      BY <1>1, <1>2, UpTo
    <2> QED
      BY <2>1
  <1> QED
    BY <1>3 DEF LastFirst

LEMMA TopOfInterval ==
  ASSUME NEW k \in Nat, k > 0
  PROVE  Max(1 .. k) = k /\ (1 .. k) \ {k} = 1 .. k - 1 /\ 1 .. k # {}
  <1>1. k \in 1 .. k /\ (1 .. k) \ {k} = 1 .. k - 1
    OBVIOUS
  <1>2. Max(1 .. k) \in 1 .. k /\ \A j \in 1 .. k : Max(1 .. k) >= j
    BY <1>1, MaxOfNumbers
  <1> DEFINE top == Max(1 .. k)
  <1>3. top \in 1 .. k /\ top >= k
    BY <1>1, <1>2
  <1> HIDE DEF top
  <1>4. top = k
    BY <1>3
  <1> QED
    BY <1>1, <1>4 DEF top

\* The values g such a function f goes through, given only what it says of the
\* sets of the first positions.
Unfolds(f, n, W, base, step) ==
  /\ f[{}] = base
  /\ \A k \in 1 .. n : f[1 .. k - 1] \in W => f[1 .. k] = step[k][f[1 .. k - 1]]
Stages(g, f, n, W, base, step) ==
  /\ g \in [0 .. n -> W] /\ g[0] = base /\ g[n] = f[1 .. n]
  /\ \A k \in 1 .. n : g[k] = step[k][g[k - 1]]

LEMMA FoldStages ==
  ASSUME NEW n \in Nat, NEW W, NEW base \in W, NEW step \in [1 .. n -> [W -> W]], NEW f,
         Unfolds(f, n, W, base, step)
  PROVE  \E g : Stages(g, f, n, W, base, step)
  <1> DEFINE A == {k \in 0 .. n : f[1 .. k] \in W}
             g == [k \in 0 .. n |-> f[1 .. k]]
  <1>1. f[1 .. 0] = base
    <2>1. 1 .. 0 = {}
      OBVIOUS
    <2> QED
      BY <2>1 DEF Unfolds
  <1>2. \A k \in 0 .. n - 1 : k \in A => k + 1 \in A
    <2> SUFFICES ASSUME NEW k \in 0 .. n - 1, f[1 .. k] \in W
                 PROVE  k + 1 \in 0 .. n /\ f[1 .. k + 1] \in W
      OBVIOUS
    <2>1. k + 1 \in 1 .. n /\ (k + 1) - 1 = k /\ k + 1 \in 0 .. n
      OBVIOUS
    <2>2. f[1 .. k + 1] = step[k + 1][f[1 .. k]]
      BY <2>1 DEF Unfolds
    <2> QED
      BY <2>1, <2>2
  <1>3. \A k \in 0 .. n : k \in A
    <2>1. 0 \in A
      BY <1>1
    <2> HIDE DEF A
    <2> QED
      BY <1>2, <2>1, UpTo
  <1>4. g \in [0 .. n -> W]
    BY <1>3
  <1>5. ASSUME NEW k \in 1 .. n
        PROVE  g[k] = step[k][g[k - 1]]
    <2>1. k \in 0 .. n /\ k - 1 \in 0 .. n
      OBVIOUS
    <2> QED
      BY <1>3, <2>1 DEF Unfolds
  <1>6. g[0] = base /\ g[n] = f[1 .. n]
    BY <1>1
  <1> HIDE DEF g
  <1> QED
    BY <1>4, <1>5, <1>6 DEF Stages
=============================================================================
