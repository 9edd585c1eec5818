------------------------------ MODULE ProofLemmas ------------------------------
(***************************************************************************)
(* Facts about numbers and sequences that the proofs of several modules    *)
(* need.  Induction is stated for a set, not for a predicate: it follows   *)
(* from the pigeonhole principle for finite sets.  Then division with a    *)
(* remainder, and Selected, the subsequence of the elements in a set.      *)
(***************************************************************************)
EXTENDS Integers, Selection, FiniteSetTheorems, SequenceTheorems, TLAPS

\* A set of numbers up to N that holds 0, and with each number below N the
\* next one, holds N: if it did not, "one more" would map it into itself
\* without 0, although each number has only one predecessor.
LEMMA LastReached ==
  ASSUME NEW N \in Nat, NEW S \in SUBSET (0 .. N), 0 \in S,
         \A n \in S : n < N => n + 1 \in S
  PROVE  N \in S
<1> SUFFICES ASSUME N \notin S PROVE FALSE
  OBVIOUS
<1> DEFINE f == [n \in S |-> n + 1]
<1>1. IsFiniteSet(S)
  <2>1. IsFiniteSet(0 .. N)
    BY FS_Interval
  <2> QED BY <2>1, FS_Subset, Zenon
<1>2. IsFiniteSet(S \ {0}) /\ Cardinality(S \ {0}) < Cardinality(S)
  <2>1. IsFiniteSet(S \ {0}) /\ Cardinality(S \ {0}) = Cardinality(S) - 1
    <3> HIDE DEF f
    <3> QED BY <1>1, FS_RemoveElement
  <2>2. Cardinality(S) \in Nat
    BY <1>1, FS_CardinalityType
  <2> QED BY <2>1, <2>2
<1>3. f \in [S -> S \ {0}]
  OBVIOUS
<1>4. PICK i, j \in S : i # j /\ f[i] = f[j]
  <2> HIDE DEF f
  <2> QED BY <1>1, <1>2, <1>3, FS_PigeonHole
<1> QED BY <1>4

LEMMA InductionOverSet ==
  ASSUME NEW N \in Nat, NEW S, 0 \in S, \A n \in 0 .. N - 1 : n \in S => n + 1 \in S
  PROVE  0 .. N \subseteq S
<1> SUFFICES ASSUME NEW n \in 0 .. N PROVE n \in S
  OBVIOUS
<1> DEFINE T == S \cap (0 .. n)
<1>1. T \in SUBSET (0 .. n) /\ 0 \in T /\ \A k \in T : k < n => k + 1 \in T
  OBVIOUS
<1>2. n \in T
  <2> HIDE DEF T
  <2> QED BY <1>1, LastReached
<1> QED BY <1>2

\* Every set of naturals that is not empty has a least element.
LEMMA LeastElement ==
  ASSUME NEW S \in SUBSET Nat, S # {}
  PROVE  \E n \in S : \A k \in S : n <= k
<1> SUFFICES ASSUME \A n \in S : \E k \in S : k < n PROVE FALSE
  OBVIOUS
<1> DEFINE below == {n \in Nat : \A k \in S : n <= k}
<1>1. 0 \in below /\ \A n \in Nat : n \in below => n + 1 \in below
  OBVIOUS
<1>2. PICK m \in S : TRUE
  OBVIOUS
<1>3. m + 1 \in below
  <2>1. 0 .. (m + 1) \subseteq below
    <3> HIDE DEF below
    <3> QED BY <1>1, InductionOverSet
  <2> QED BY <2>1
<1> QED BY <1>2, <1>3

LEMMA GreatestElement ==
  ASSUME NEW N \in Nat, NEW S \in SUBSET (0 .. N), S # {}
  PROVE  \E m \in S : \A j \in S : j <= m
<1> DEFINE T == {N - k : k \in S}
<1>1. T \in SUBSET Nat /\ T # {}
  <2>1. ASSUME NEW k \in S PROVE N - k \in Nat
    OBVIOUS
  <2> QED BY <2>1
<1>2. PICK n \in T : \A k \in T : n <= k
  <2> HIDE DEF T
  <2> QED BY <1>1, LeastElement
<1>3. PICK m \in S : n = N - m
  BY <1>2
<1>4. ASSUME NEW j \in S PROVE j <= m
  <2>1. n <= N - j
    BY <1>2
  <2> QED BY <1>3, <2>1
<1> QED BY <1>4

-----------------------------------------------------------------------------
(* What Selected picks from a list.  Induction on the places of the list.   *)

\* What is picked once the entry m follows.
Fed(picked, m, those) == IF m \in those THEN Append(picked, m) ELSE picked

LEMMA FedType ==
  ASSUME NEW S, NEW picked \in Seq(S), NEW m \in S, NEW those
  PROVE  Fed(picked, m, those) \in Seq(S)
BY AppendProperties DEF Fed

\* pick[k] is what is picked from the first k entries of q.
Picks(pick, q, those, S) ==
  /\ pick \in [0 .. Len(q) -> Seq(S)]
  /\ pick[0] = <<>>
  /\ \A k \in 1 .. Len(q) :
       pick[k] = Fed(pick[k - 1], q[k], those)

LEMMA PicksExist ==
  ASSUME NEW S, NEW q \in Seq(S), NEW those
  PROVE  \E pick : Picks(pick, q, those, S)
<1> DEFINE upTo(pick, n) ==
             /\ pick \in [0 .. n -> Seq(S)]
             /\ pick[0] = <<>>
             /\ \A k \in 1 .. n : pick[k] = Fed(pick[k - 1], q[k], those)
           done == {n \in Nat : n <= Len(q) => \E pick : upTo(pick, n)}
<1>1. 0 \in done
  <2>1. upTo([k \in 0 .. 0 |-> <<>>], 0)
    BY EmptySeq
  <2> QED BY <2>1
<1>2. ASSUME NEW n \in 0 .. Len(q) - 1, n \in done
      PROVE  n + 1 \in done
  <2>1. n \in Nat /\ n <= Len(q) /\ n + 1 \in 1 .. Len(q)
    OBVIOUS
  <2>2. PICK pick : upTo(pick, n)
    <3> HIDE DEF upTo
    <3> QED BY <1>2, <2>1
  <2> DEFINE last == Fed(pick[n], q[n + 1], those)
             longer == [k \in 0 .. n + 1 |-> IF k <= n THEN pick[k] ELSE last]
  <2>3. q[n + 1] \in S /\ pick[n] \in Seq(S)
    BY <2>1, <2>2
  <2>4. last \in Seq(S)
    BY <2>3, FedType
  <2> HIDE DEF last
  <2>5. /\ longer \in [0 .. n + 1 -> Seq(S)]
        /\ longer[n + 1] = last
        /\ \A k \in 0 .. n : longer[k] = pick[k]
    BY <2>1, <2>2, <2>4
  <2> HIDE DEF longer
  <2>6. ASSUME NEW k \in 1 .. n + 1
        PROVE  longer[k] = Fed(longer[k - 1], q[k], those)
    <3>1. CASE k <= n
      <4>1. longer[k] = pick[k] /\ longer[k - 1] = pick[k - 1] /\ k \in 1 .. n
        BY <2>1, <2>5, <3>1
      <4> QED BY <4>1, <2>2
    <3>2. CASE k = n + 1
      <4>1. longer[k - 1] = pick[n] /\ longer[k] = last
        BY <2>1, <2>5, <3>2
      <4> QED BY <4>1, <3>2 DEF last
    <3> QED BY <3>1, <3>2, <2>1
  <2>7. upTo(longer, n + 1)
    <3>1. longer[0] = <<>>
      BY <2>1, <2>2, <2>5
    <3> QED BY <3>1, <2>5, <2>6
  <2> HIDE DEF upTo
  <2> QED BY <2>1, <2>7
<1>3. 0 .. Len(q) \subseteq done
  <2> HIDE DEF done
  <2> QED BY <1>1, <1>2, InductionOverSet
<1>4. \E pick : upTo(pick, Len(q))
  <2>1. Len(q) \in 0 .. Len(q)
    OBVIOUS
  <2>2. Len(q) \in done
    <3> HIDE DEF done
    <3> QED BY <1>3, <2>1
  <2> HIDE DEF upTo
  <2> QED BY <2>1, <2>2
<1> QED BY <1>4 DEF Picks

LEMMA SelectedIs ==
  ASSUME NEW S, NEW q \in Seq(S), NEW those, NEW pick, Picks(pick, q, those, S)
  PROVE  Selected(q, those) = pick[Len(q)]
<1> DEFINE step(f) == [k \in 0 .. Len(q) |->
                         IF k = 0 THEN <<>> ELSE Fed(f[k - 1], q[k], those)]
           own == CHOOSE f : f = step(f)
           found == {k \in Nat : k <= Len(q) => own[k] = pick[k]}
<1>1. Selected(q, those) = own[Len(q)]
  BY DEF Selected, Fed
<1>2. pick = step(pick)
  <2>1. \A k \in 0 .. Len(q) : pick[k] = step(pick)[k]
    BY DEF Picks
  <2> QED BY <2>1 DEF Picks
<1>3. own = step(own)
  <2> HIDE DEF step
  <2> QED BY <1>2
<1> HIDE DEF own
<1>4. 0 \in found /\ \A k \in 0 .. Len(q) - 1 : k \in found => k + 1 \in found
  <2>1. own[0] = <<>>
    BY <1>3
  <2>2. \A k \in 1 .. Len(q) : own[k] = Fed(own[k - 1], q[k], those)
    BY <1>3
  <2> QED BY <2>1, <2>2 DEF Picks
<1>5. 0 .. Len(q) \subseteq found
  <2> HIDE DEF found
  <2> QED BY <1>4, InductionOverSet
<1> QED BY <1>1, <1>5

\* An entry that is appended is picked last, or is not picked.
LEMMA SelectedAppend ==
  ASSUME NEW S, NEW q \in Seq(S), NEW m \in S, NEW those, NEW others,
         \A k \in 1 .. Len(q) : q[k] \in others <=> q[k] \in those
  PROVE  /\ Selected(q, those) \in Seq(S)
         /\ Selected(q, others) = Selected(q, those)
         /\ Selected(Append(q, m), others) = Fed(Selected(q, those), m, others)
<1>1. PICK pick : Picks(pick, q, those, S)
  BY PicksExist
<1>2. Picks(pick, q, others, S)
  BY <1>1 DEF Picks, Fed
<1> DEFINE r == Append(q, m)
           picked == Selected(q, those)
           last == Fed(picked, m, others)
           longer == [k \in 0 .. Len(q) + 1 |-> IF k <= Len(q) THEN pick[k] ELSE last]
<1>3. picked = pick[Len(q)] /\ Selected(q, others) = pick[Len(q)] /\ picked \in Seq(S)
  <2>1. Selected(q, those) = pick[Len(q)] /\ Selected(q, others) = pick[Len(q)]
    BY <1>1, <1>2, SelectedIs
  <2> QED BY <2>1, <1>1 DEF Picks
<1>4. /\ r \in Seq(S) /\ Len(r) = Len(q) + 1 /\ r[Len(q) + 1] = m
      /\ \A k \in 1 .. Len(q) : r[k] = q[k]
      /\ Len(q) \in Nat
  BY AppendProperties
<1> HIDE DEF r, picked
<1>5. last \in Seq(S)
  BY <1>3, FedType
<1> HIDE DEF last
<1>6. /\ longer \in [0 .. Len(q) + 1 -> Seq(S)]
      /\ longer[Len(q) + 1] = last
      /\ \A k \in 0 .. Len(q) : longer[k] = pick[k]
  BY <1>1, <1>5 DEF Picks
<1> HIDE DEF longer
<1>7. Picks(longer, r, others, S)
  <2>1. longer[0] = <<>>
    BY <1>1, <1>4, <1>6 DEF Picks
  <2>2. ASSUME NEW k \in 1 .. Len(q) + 1
        PROVE  longer[k] = Fed(longer[k - 1], r[k], others)
    <3>1. CASE k <= Len(q)
      <4>1. longer[k] = pick[k] /\ longer[k - 1] = pick[k - 1] /\ k \in 1 .. Len(q) /\ r[k] = q[k]
        <5>1. k \in 1 .. Len(q) /\ k \in 0 .. Len(q) /\ k - 1 \in 0 .. Len(q)
          BY <1>4, <3>1
        <5> QED BY <1>4, <1>6, <5>1
      <4> QED BY <4>1, <1>2 DEF Picks
    <3>2. CASE k = Len(q) + 1
      <4>1. longer[k - 1] = picked /\ longer[k] = last /\ r[k] = m
        BY <1>3, <1>4, <1>6, <3>2
      <4> QED BY <4>1 DEF last
    <3> QED BY <3>1, <3>2, <1>4
  <2> QED BY <1>4, <1>6, <2>1, <2>2 DEF Picks
<1>8. Selected(r, others) = last
  BY <1>4, <1>6, <1>7, SelectedIs
<1> QED BY <1>3, <1>8 DEF r, picked, last

\* An entry that is not picked can be taken out of the list.
LEMMA SelectedOthers ==
  ASSUME NEW S, NEW q \in Seq(S), NEW i \in 1 .. Len(q), NEW those, q[i] \notin those,
         NEW r \in Seq(S), Len(r) = Len(q) - 1,
         \A j \in 1 .. Len(q) - 1 : r[j] = IF j < i THEN q[j] ELSE q[j + 1]
  PROVE  Selected(r, those) = Selected(q, those)
<1>1. PICK pick : Picks(pick, q, those, S)
  BY PicksExist
<1> DEFINE less == [k \in 0 .. Len(q) - 1 |-> IF k < i THEN pick[k] ELSE pick[k + 1]]
<1>2. /\ r \in Seq(S) /\ Len(r) = Len(q) - 1 /\ Len(q) \in Nat
      /\ \A j \in 1 .. Len(q) - 1 : r[j] = IF j < i THEN q[j] ELSE q[j + 1]
  <2> HIDE DEF less
  <2> QED OBVIOUS
<1>3. /\ less \in [0 .. Len(q) - 1 -> Seq(S)]
      /\ \A k \in 0 .. Len(q) - 1 : less[k] = IF k < i THEN pick[k] ELSE pick[k + 1]
  BY <1>1, <1>2 DEF Picks
<1> HIDE DEF less
<1>4. pick[i] = pick[i - 1]
  BY <1>1 DEF Picks, Fed
<1>5. Picks(less, r, those, S)
  <2>1. less[0] = <<>>
    <3>1. 0 \in 0 .. Len(q) - 1 /\ 0 < i
      BY <1>2
    <3>2. less[0] = pick[0]
      BY <1>3, <3>1
    <3> QED BY <1>1, <3>2 DEF Picks
  <2>2. ASSUME NEW k \in 1 .. Len(q) - 1
        PROVE  less[k] = Fed(less[k - 1], r[k], those)
    <3>1. CASE k < i
      <4>1. less[k] = pick[k] /\ less[k - 1] = pick[k - 1] /\ k \in 1 .. Len(q) /\ r[k] = q[k]
        BY <1>2, <1>3, <3>1
      <4> QED BY <4>1, <1>1 DEF Picks
    <3>2. CASE k >= i
      <4>1. less[k] = pick[k + 1] /\ k + 1 \in 1 .. Len(q) /\ (k + 1) - 1 = k /\ r[k] = q[k + 1]
        BY <1>2, <1>3, <3>2
      <4>2. less[k - 1] = pick[k]
        BY <1>2, <1>3, <1>4, <3>2
      <4> QED BY <4>1, <4>2, <1>1 DEF Picks
    <3> QED BY <3>1, <3>2, <1>2
  <2> QED BY <1>2, <1>3, <2>1, <2>2 DEF Picks
<1>6. less[Len(q) - 1] = pick[Len(q)]
  BY <1>2, <1>3, <1>4
<1>7. Selected(q, those) = pick[Len(q)] /\ Selected(r, those) = less[Len(q) - 1]
  <2>1. Selected(q, those) = pick[Len(q)]
    BY <1>1, SelectedIs
  <2>2. Selected(r, those) = less[Len(r)]
    BY <1>2, <1>5, SelectedIs
  <2> QED BY <2>1, <2>2, <1>2
<1> QED BY <1>6, <1>7

LEMMA TailAppend ==
  ASSUME NEW S, NEW s \in Seq(S), NEW x \in S
  PROVE  /\ s # <<>> => Tail(Append(s, x)) = Append(Tail(s), x)
         /\ Tail(Append(<<>>, x)) = <<>>
         /\ Append(s, x) \in Seq(S) /\ Append(s, x) # <<>>
OBVIOUS

LEMMA FedTail ==
  ASSUME NEW S, NEW picked \in Seq(S), NEW m \in S, NEW those
  PROVE  /\ picked # <<>> => /\ Fed(picked, m, those) # <<>>
                             /\ Tail(Fed(picked, m, those)) = Fed(Tail(picked), m, those)
         /\ m \notin those => Fed(picked, m, those) = picked
         /\ m \in those => Fed(picked, m, those) # <<>> /\ Tail(Fed(<<>>, m, those)) = <<>>
BY TailAppend DEF Fed

\* The first entry of "those" is the first that is picked.
LEMMA SelectedFirst ==
  ASSUME NEW S, NEW q \in Seq(S), NEW i \in 1 .. Len(q), NEW those, q[i] \in those,
         \A j \in 1 .. Len(q) : q[j] \in those => i <= j,
         NEW r \in Seq(S), Len(r) = Len(q) - 1,
         \A j \in 1 .. Len(q) - 1 : r[j] = IF j < i THEN q[j] ELSE q[j + 1]
  PROVE  /\ Selected(q, those) # <<>>
         /\ Selected(r, those) = Tail(Selected(q, those))
<1>1. PICK pick : Picks(pick, q, those, S)
  BY PicksExist
<1> DEFINE before == {k \in Nat : k < i => pick[k] = <<>>}
           behind == {k \in Nat : k >= i /\ k <= Len(q) => pick[k] # <<>>}
           less == [k \in 0 .. Len(q) - 1 |-> IF k < i THEN <<>> ELSE Tail(pick[k + 1])]
<1>2. /\ r \in Seq(S) /\ Len(r) = Len(q) - 1 /\ Len(q) \in Nat
      /\ \A j \in 1 .. Len(q) - 1 : r[j] = IF j < i THEN q[j] ELSE q[j + 1]
  <2> HIDE DEF less, before, behind
  <2> QED OBVIOUS
<1>a. \A k \in 1 .. Len(q) : q[k] \in S
  OBVIOUS
<1>b. \A k \in 0 .. Len(q) : pick[k] \in Seq(S)
  BY <1>1 DEF Picks
<1>c. \A k \in 1 .. Len(q) :
        pick[k] = Fed(pick[k - 1], q[k], those)
  BY <1>1 DEF Picks
<1>d. \A k \in 1 .. Len(q) :
        /\ pick[k - 1] # <<>> => /\ pick[k] # <<>>
                                 /\ Tail(pick[k]) = Fed(Tail(pick[k - 1]), q[k], those)
        /\ q[k] \notin those => pick[k] = pick[k - 1]
        /\ q[k] \in those => pick[k] # <<>>
  <2> TAKE k \in 1 .. Len(q)
  <2>1. k - 1 \in 0 .. Len(q)
    BY <1>2
  <2>2. pick[k - 1] \in Seq(S) /\ q[k] \in S
    BY <2>1, <1>a, <1>b
  <2>3. pick[k] = Fed(pick[k - 1], q[k], those)
    BY <1>c
  <2> DEFINE old == pick[k - 1]
             m == q[k]
  <2>4. old \in Seq(S) /\ m \in S
    BY <2>2
  <2> HIDE DEF old, m, less, before, behind
  <2>5. old # <<>> => Fed(old, m, those) # <<>>
    BY <2>4, FedTail
  <2>6. old # <<>> => Tail(Fed(old, m, those)) = Fed(Tail(old), m, those)
    BY <2>4, FedTail
  <2>7. m \notin those => Fed(old, m, those) = old
    BY <2>4, FedTail
  <2>8. m \in those => Fed(old, m, those) # <<>>
    BY <2>4, FedTail
  <2> QED BY <2>3, <2>5, <2>6, <2>7, <2>8 DEF old, m
<1> HIDE DEF less
<1>3. \A k \in 0 .. i - 1 : pick[k] = <<>>
  <2>1. 0 \in before /\ \A k \in 0 .. Len(q) - 1 : k \in before => k + 1 \in before
    <3>1. 0 \in before
      BY <1>1 DEF Picks
    <3>2. ASSUME NEW k \in 0 .. Len(q) - 1, k \in before
          PROVE  k + 1 \in before
      <4>1. k + 1 \in 1 .. Len(q) /\ (k + 1) - 1 = k
        BY <1>2
      <4>2. k + 1 < i => q[k + 1] \notin those /\ pick[k] = <<>>
        BY <1>2, <3>2
      <4> QED BY <4>1, <4>2, <1>d
    <3> QED BY <3>1, <3>2
  <2>2. 0 .. Len(q) \subseteq before
    <3> HIDE DEF before
    <3> QED BY <1>2, <2>1, InductionOverSet
  <2> QED BY <2>2, <1>2
<1>5. \A k \in i .. Len(q) : pick[k] # <<>>
  <2>1. 0 \in behind /\ \A k \in 0 .. Len(q) - 1 : k \in behind => k + 1 \in behind
    <3>1. 0 \in behind
      OBVIOUS
    <3>2. ASSUME NEW k \in 0 .. Len(q) - 1, k \in behind
          PROVE  k + 1 \in behind
      <4>1. k + 1 \in 1 .. Len(q) /\ (k + 1) - 1 = k
        BY <1>2
      <4>2. k + 1 = i \/ k + 1 < i \/ k >= i
        BY <1>2
      <4> QED BY <4>1, <4>2, <3>2, <1>d
    <3> QED BY <3>1, <3>2
  <2>2. 0 .. Len(q) \subseteq behind
    <3> HIDE DEF behind
    <3> QED BY <1>2, <2>1, InductionOverSet
  <2> QED BY <2>2, <1>2
<1>6. pick[i - 1] = <<>> /\ pick[i] = Fed(<<>>, q[i], those)
  BY <1>2, <1>3, <1>c
<1>7. Tail(pick[i]) = <<>>
  <2>1. \A m \in S : m \in those => Tail(Fed(<<>>, m, those)) = <<>>
    BY DEF Fed
  <2> QED BY <1>6, <1>a, <2>1
<1> HIDE DEF before, behind
<1>8. \A k \in i .. Len(q) : Tail(pick[k]) \in Seq(S)
  <2> TAKE k \in i .. Len(q)
  <2>1. pick[k] \in Seq(S) /\ pick[k] # <<>>
    BY <1>2, <1>5, <1>b
  <2> QED BY <2>1
<1>9. /\ less \in [0 .. Len(q) - 1 -> Seq(S)]
      /\ \A k \in 0 .. i - 1 : less[k] = <<>>
      /\ \A k \in i .. Len(q) - 1 : less[k] = Tail(pick[k + 1])
  BY <1>2, <1>8, EmptySeq DEF less
<1>11. less[0] = <<>>
  BY <1>2, <1>9
<1>12. ASSUME NEW k \in 1 .. Len(q) - 1
       PROVE  less[k] = Fed(less[k - 1], r[k], those)
  <2>1. CASE k < i
    <3>1. less[k] = <<>> /\ less[k - 1] = <<>> /\ r[k] = q[k] /\ q[k] \notin those
      BY <2>1, <1>2, <1>9
    <3> QED BY <3>1 DEF Fed
  <2>2. CASE k >= i
    <3>1. less[k] = Tail(pick[k + 1]) /\ r[k] = q[k + 1]
      BY <2>2, <1>2, <1>9
    <3>2. less[k - 1] = Tail(pick[k])
      <4>1. CASE k = i
        <5>1. less[k - 1] = <<>>
          BY <4>1, <1>2, <1>9
        <5> QED BY <4>1, <5>1, <1>7
      <4>2. CASE k > i
        BY <4>2, <1>2, <1>9
      <4> QED BY <4>1, <4>2, <2>2, <1>2
    <3>3. Tail(pick[k + 1]) = Fed(Tail(pick[k]), q[k + 1], those)
      <4>1. k + 1 \in 1 .. Len(q) /\ (k + 1) - 1 = k /\ pick[k] # <<>>
        BY <2>2, <1>2, <1>5
      <4> QED BY <4>1, <1>d
    <3> QED BY <3>1, <3>2, <3>3
  <2> QED BY <2>1, <2>2, <1>2
<1>13. Picks(less, r, those, S)
  BY <1>2, <1>9, <1>11, <1>12 DEF Picks
<1>14. less[Len(q) - 1] = Tail(pick[Len(q)])
  <2>1. CASE i = Len(q)
    <3>1. less[Len(q) - 1] = <<>>
      BY <2>1, <1>2, <1>9
    <3> QED BY <2>1, <3>1, <1>7
  <2>2. CASE i < Len(q)
    BY SMTT(30), <2>2, <1>2, <1>9
  <2> QED BY <2>1, <2>2, <1>2
<1>15. Selected(q, those) = pick[Len(q)] /\ Selected(r, those) = less[Len(q) - 1]
  <2>1. Selected(q, those) = pick[Len(q)]
    BY <1>1, SelectedIs
  <2>2. Selected(r, those) = less[Len(r)]
    BY <1>2, <1>13, SelectedIs
  <2> QED BY <2>1, <2>2, <1>2
<1> QED BY <1>2, <1>5, <1>14, <1>15

\* Nothing else is picked, and not more than there is.
LEMMA SelectedKept ==
  ASSUME NEW S, NEW q \in Seq(S), NEW those
  PROVE  /\ Selected(q, those) \in Seq(S)
         /\ Len(Selected(q, those)) <= Len(q)
         /\ \A i \in 1 .. Len(Selected(q, those)) :
              \E j \in 1 .. Len(q) : Selected(q, those)[i] = q[j] /\ q[j] \in those
<1>1. PICK pick : Picks(pick, q, those, S)
  BY PicksExist
<1> DEFINE from(s, k) == /\ Len(s) <= k
                         /\ \A i \in 1 .. Len(s) : \E j \in 1 .. k : s[i] = q[j] /\ q[j] \in those
           sound == {k \in Nat : k <= Len(q) => from(pick[k], k)}
<1>2. 0 \in sound
  BY <1>1 DEF Picks
<1>3. ASSUME NEW k \in 0 .. Len(q) - 1, k \in sound
      PROVE  k + 1 \in sound
  <2>1. k + 1 \in 1 .. Len(q) /\ (k + 1) - 1 = k /\ k \in 0 .. Len(q) /\ k \in Nat
    OBVIOUS
  <2> DEFINE old == pick[k]
             new == pick[k + 1]
             m == q[k + 1]
  <2>2. old \in Seq(S) /\ m \in S /\ new = Fed(old, m, those) /\ from(old, k)
    <3>1. old \in Seq(S) /\ new = Fed(old, m, those)
      <4> HIDE DEF from
      <4> QED BY <1>1, <2>1 DEF Picks
    <3>2. from(old, k)
      <4> HIDE DEF from
      <4> QED BY <1>3, <2>1
    <3> QED BY <3>1, <3>2, <2>1
  <2> HIDE DEF old, new
  <2>3. CASE m \in those
    <3>1. /\ Len(new) = Len(old) + 1 /\ Len(old) \in Nat
          /\ \A i \in 1 .. Len(old) : new[i] = old[i]
          /\ new[Len(old) + 1] = m
      <4>1. new = Append(old, m)
        BY <2>2, <2>3 DEF Fed
      <4> HIDE DEF m
      <4> QED BY <2>2, <4>1, AppendProperties
    <3>2. ASSUME NEW i \in 1 .. Len(new)
          PROVE  \E j \in 1 .. k + 1 : new[i] = q[j] /\ q[j] \in those
      <4>1. CASE i <= Len(old)
        <5>1. PICK j \in 1 .. k : old[i] = q[j] /\ q[j] \in those
          BY <2>2, <3>1, <4>1
        <5> QED BY <2>1, <3>1, <4>1, <5>1
      <4>2. CASE i = Len(old) + 1
        BY <2>1, <2>3, <3>1, <4>2
      <4> QED BY <3>1, <4>1, <4>2
    <3>3. Len(new) <= k + 1
      BY <2>1, <2>2, <3>1
    <3>4. from(new, k + 1)
      BY <3>2, <3>3
    <3> QED BY <2>1, <3>4 DEF new
  <2>4. CASE m \notin those
    <3>1. new = old
      BY <2>2, <2>4 DEF Fed
    <3>2. Len(old) \in Nat
      BY <2>2
    <3>3. from(new, k + 1)
      BY <2>1, <2>2, <3>1, <3>2
    <3> QED BY <2>1, <3>3 DEF new
  <2> QED BY <2>3, <2>4
<1>4. Len(q) \in sound
  <2>1. 0 .. Len(q) \subseteq sound /\ Len(q) \in 0 .. Len(q)
    <3> HIDE DEF sound
    <3> QED BY <1>2, <1>3, InductionOverSet
  <2> HIDE DEF sound
  <2> QED BY <2>1
<1>5. Selected(q, those) = pick[Len(q)] /\ pick[Len(q)] \in Seq(S)
  <2>1. Selected(q, those) = pick[Len(q)]
    BY <1>1, SelectedIs
  <2>2. pick \in [0 .. Len(q) -> Seq(S)] /\ Len(q) \in 0 .. Len(q)
    BY <1>1 DEF Picks
  <2> QED BY <2>1, <2>2
<1> QED BY <1>4, <1>5

\* Sets that agree on the entries pick the same.
LEMMA SelectedSame ==
  ASSUME NEW S, NEW q \in Seq(S), NEW those, NEW others,
         \A k \in 1 .. Len(q) : q[k] \in others <=> q[k] \in those
  PROVE  Selected(q, others) = Selected(q, those)
<1>1. PICK pick : Picks(pick, q, those, S)
  BY PicksExist
<1>2. Picks(pick, q, others, S)
  BY <1>1 DEF Picks, Fed
<1> QED BY <1>1, <1>2, SelectedIs

-----------------------------------------------------------------------------
\* Taking entry i out of a list keeps the other entries, in their order.
LEMMA EntryLeaves ==
  ASSUME NEW S, NEW q \in Seq(S), NEW i \in 1..Len(q),
         NEW r, r = SubSeq(q, 1, i - 1) \o SubSeq(q, i + 1, Len(q))
  PROVE  /\ r \in Seq(S)
         /\ Len(r) = Len(q) - 1
         /\ \A j \in 1..(Len(q) - 1) :
              r[j] = IF j < i THEN q[j] ELSE q[j + 1]
<1> DEFINE a == SubSeq(q, 1, i - 1)
           b == SubSeq(q, i + 1, Len(q))
<1>1. a \in Seq(S) /\ Len(a) = i - 1 /\ \A j \in 1..(i-1) : a[j] = q[j]
  OBVIOUS
<1>2. b \in Seq(S) /\ Len(b) = Len(q) - i /\ \A j \in 1..(Len(q)-i) : b[j] = q[i + j]
  BY SMTT(30)
<1>3. r = a \o b
  OBVIOUS
<1>4. Len(q) \in Nat /\ i \in 1..Len(q)
  OBVIOUS
<1> HIDE DEF a, b
<1>5. /\ a \o b \in Seq(S)
      /\ Len(a \o b) = Len(a) + Len(b)
      /\ \A j \in 1 .. Len(a) + Len(b) :
           (a \o b)[j] = IF j <= Len(a) THEN a[j] ELSE b[j - Len(a)]
  BY <1>1, <1>2, ConcatProperties
<1>6. Len(a \o b) = Len(q) - 1
  BY <1>1, <1>2, <1>4, <1>5
<1>7. ASSUME NEW j \in 1..(Len(q) - 1)
      PROVE  (a \o b)[j] = IF j < i THEN q[j] ELSE q[j + 1]
  BY <1>1, <1>2, <1>4, <1>5
<1> QED BY <1>3, <1>5, <1>6, <1>7

-----------------------------------------------------------------------------
(* Division and remainder. *)

LEMMA Division ==
  ASSUME NEW C \in Nat \ {0}, NEW n \in Int
  PROVE  /\ n = C * (n \div C) + (n % C)
         /\ n \div C \in Int
         /\ n % C \in 0 .. C - 1
<1>1. n = C * (n \div C) + (n % C)
  OBVIOUS
<1>2. n \div C \in Int
  OBVIOUS
<1>3. n % C \in 0 .. C - 1
  OBVIOUS
<1> QED BY <1>1, <1>2, <1>3

\* A number that differs from a clock value by whole turns is reduced to it.
LEMMA Remainders ==
  ASSUME NEW C \in Nat \ {0}, NEW n \in Int,
         NEW q \in Int, NEW r \in 0 .. C - 1, n = C * q + r
  PROVE  n % C = r
OBVIOUS

-----------------------------------------------------------------------------
(* Recursion over the places of a list. *)

\* A function that is defined step by step, each value from the one before, ...
StepOn(step, n, S) == step \in [S \X (1 .. n) -> S]
Recursion(f, n, S, base, step) ==
  f \in [0 .. n -> S] /\ f[0] = base /\ \A k \in 1 .. n : f[k] = step[<<f[k - 1], k>>]

\* ... and one that is where its values are known to be in the set.
Follows(g, n, S, base, step) ==
  g[0] = base /\ \A k \in 1 .. n : g[k - 1] \in S => g[k] = step[<<g[k - 1], k>>]

LEMMA RecursionExists ==
  ASSUME NEW n \in Nat, NEW S, NEW base \in S, NEW step, StepOn(step, n, S)
  PROVE  \E f : Recursion(f, n, S, base, step)
<1>0. step \in [S \X (1 .. n) -> S]
  BY DEF StepOn
<1> DEFINE upTo(f, m) == /\ f \in [0 .. m -> S] /\ f[0] = base
                         /\ \A k \in 1 .. m : f[k] = step[<<f[k - 1], k>>]
           done == {m \in Nat : m <= n => \E f : upTo(f, m)}
<1>1. 0 \in done
  <2>1. upTo([k \in 0 .. 0 |-> base], 0)
    OBVIOUS
  <2> QED BY <2>1
<1>2. ASSUME NEW m \in 0 .. n - 1, m \in done PROVE m + 1 \in done
  <2>1. m \in Nat /\ m <= n /\ m + 1 \in 1 .. n
    OBVIOUS
  <2>2. PICK f : upTo(f, m)
    <3> HIDE DEF upTo
    <3> QED BY <1>2, <2>1
  <2> DEFINE next == step[<<f[m], m + 1>>]
             g == [k \in 0 .. m + 1 |-> IF k <= m THEN f[k] ELSE next]
  <2>3. next \in S
    BY <1>0, <2>1, <2>2
  <2> HIDE DEF next
  <2>4. /\ g \in [0 .. m + 1 -> S] /\ g[m + 1] = next
        /\ \A k \in 0 .. m : g[k] = f[k]
    BY <2>1, <2>2, <2>3
  <2> HIDE DEF g
  <2>5. ASSUME NEW k \in 1 .. m + 1 PROVE g[k] = step[<<g[k - 1], k>>]
    <3>1. CASE k = m + 1
      <4>1. g[k - 1] = f[m] /\ g[k] = next
        BY <2>1, <2>4, <3>1
      <4> QED BY <3>1, <4>1 DEF next
    <3>2. CASE k \in 1 .. m
      <4>1. g[k - 1] = f[k - 1] /\ g[k] = f[k]
        BY <2>1, <2>4, <3>2
      <4> QED BY <2>2, <3>2, <4>1
    <3> QED BY <2>1, <3>1, <3>2
  <2>6. upTo(g, m + 1)
    BY <2>1, <2>2, <2>4, <2>5
  <2> HIDE DEF upTo
  <2> QED BY <2>1, <2>6
<1>3. \E f : upTo(f, n)
  <2>1. 0 .. n \subseteq done
    <3> HIDE DEF done
    <3> QED BY <1>1, <1>2, InductionOverSet
  <2>2. n \in done
    <3> HIDE DEF done
    <3> QED BY <2>1
  <2> HIDE DEF upTo
  <2> QED BY <2>2
<1> QED BY <1>3 DEF Recursion

\* Two functions that are defined by the same steps are the same.
LEMMA RecursionSame ==
  ASSUME NEW n \in Nat, NEW S, NEW base, NEW step, NEW f, Recursion(f, n, S, base, step),
         NEW g, Follows(g, n, S, base, step)
  PROVE  \A k \in 0 .. n : g[k] = f[k]
<1>0. /\ f \in [0 .. n -> S] /\ g[0] = f[0]
      /\ \A k \in 1 .. n : f[k] = step[<<f[k - 1], k>>]
      /\ \A k \in 1 .. n : g[k - 1] \in S => g[k] = step[<<g[k - 1], k>>]
  BY DEF Recursion, Follows
<1> DEFINE same == {k \in Nat : k <= n => g[k] = f[k]}
<1>1. 0 \in same
  BY <1>0
<1>2. ASSUME NEW k \in 0 .. n - 1, k \in same PROVE k + 1 \in same
  <2>1. k + 1 \in 1 .. n /\ (k + 1) - 1 = k /\ k \in 0 .. n /\ k \in Nat /\ k <= n
    OBVIOUS
  <2>2. g[k] = f[k] /\ f[k] \in S
    BY <1>0, <1>2, <2>1
  <2>3. f[k + 1] = step[<<f[k], k + 1>>] /\ g[k + 1] = step[<<g[k], k + 1>>]
    BY <1>0, <2>1, <2>2
  <2> QED BY <2>2, <2>3
<1>3. 0 .. n \subseteq same
  <2> HIDE DEF same
  <2> QED BY <1>1, <1>2, InductionOverSet
<1> QED BY <1>3

\* A list grows by its entries.
LEMMA PrefixGrows ==
  ASSUME NEW S, NEW q \in Seq(S)
  PROVE  /\ SubSeq(q, 1, 0) = <<>> /\ SubSeq(q, 1, Len(q)) = q
         /\ \A k \in 0 .. Len(q) - 1 :
              /\ SubSeq(q, 1, k) \in Seq(S)
              /\ SubSeq(q, 1, k + 1) = Append(SubSeq(q, 1, k), q[k + 1])
<1>1. SubSeq(q, 1, 0) = <<>>
  OBVIOUS
<1>2. SubSeq(q, 1, Len(q)) = q
  OBVIOUS
<1>3. ASSUME NEW k \in 0 .. Len(q) - 1
      PROVE  /\ SubSeq(q, 1, k) \in Seq(S)
             /\ SubSeq(q, 1, k + 1) = Append(SubSeq(q, 1, k), q[k + 1])
  <2>1. k \in Nat /\ k <= Len(q) /\ k + 1 <= Len(q) /\ Len(q) \in Nat
    OBVIOUS
  <2> DEFINE s == SubSeq(q, 1, k)
             t == SubSeq(q, 1, k + 1)
  <2>2. s \in Seq(S) /\ Len(s) = k /\ \A i \in 1 .. k : s[i] = q[i]
    BY <2>1
  <2>3. t \in Seq(S) /\ Len(t) = k + 1 /\ \A i \in 1 .. k + 1 : t[i] = q[i]
    BY <2>1
  <2>4. q[k + 1] \in S
    BY <2>1
  <2> HIDE DEF s, t
  <2>5. /\ Append(s, q[k + 1]) \in Seq(S) /\ Len(Append(s, q[k + 1])) = k + 1
        /\ Append(s, q[k + 1])[k + 1] = q[k + 1]
        /\ \A i \in 1 .. k : Append(s, q[k + 1])[i] = s[i]
    BY <2>1, <2>2, <2>4, AppendProperties
  <2>6. t = Append(s, q[k + 1])
    BY <2>1, <2>2, <2>3, <2>5, SeqEqual
  <2> QED BY <2>2, <2>6 DEF s, t
<1> QED BY <1>1, <1>2, <1>3

\* Functions that agree at first, and then as long as they agreed before, agree.
InStep(f, g, n) == f[0] = g[0] /\ \A k \in 1 .. n : f[k - 1] = g[k - 1] => f[k] = g[k]

LEMMA StepsAgree ==
  ASSUME NEW n \in Nat, NEW f, NEW g, InStep(f, g, n)
  PROVE  \A k \in 0 .. n : f[k] = g[k]
<1> DEFINE same == {k \in Nat : k <= n => f[k] = g[k]}
<1>1. 0 \in same
  BY DEF InStep
<1>2. ASSUME NEW k \in 0 .. n - 1, k \in same PROVE k + 1 \in same
  <2>1. k + 1 \in 1 .. n /\ (k + 1) - 1 = k /\ k <= n
    OBVIOUS
  <2>2. f[k] = g[k] => f[k + 1] = g[k + 1]
    BY <2>1 DEF InStep
  <2> QED BY <1>2, <2>1, <2>2
<1>3. 0 .. n \subseteq same
  <2> HIDE DEF same
  <2> QED BY <1>1, <1>2, InductionOverSet
<1> QED BY <1>3

\* Numbers that never go down are in order.
LEMMA Ascends ==
  ASSUME NEW n \in Nat, NEW f \in [0 .. n -> Nat], \A k \in 1 .. n : f[k - 1] <= f[k]
  PROVE  \A j, k \in 0 .. n : j <= k => f[j] <= f[k]
<1> SUFFICES ASSUME NEW j \in 0 .. n PROVE \A k \in 0 .. n : j <= k => f[j] <= f[k]
  OBVIOUS
<1> DEFINE above == {k \in Nat : k <= n => (j <= k => f[j] <= f[k])}
<1>1. 0 \in above
  OBVIOUS
<1>2. ASSUME NEW k \in 0 .. n - 1, k \in above PROVE k + 1 \in above
  <2>1. k + 1 \in 1 .. n /\ (k + 1) - 1 = k /\ k \in 0 .. n /\ k + 1 \in 0 .. n /\ k <= n
    OBVIOUS
  <2>2. f[k] <= f[k + 1] /\ {f[k], f[k + 1], f[j]} \subseteq Nat
    BY <2>1
  <2>3. j <= k => f[j] <= f[k]
    BY <1>2, <2>1
  <2>4. j <= k + 1 => f[j] <= f[k + 1]
    BY <2>1, <2>2, <2>3
  <2> QED BY <2>1, <2>4
<1>3. 0 .. n \subseteq above
  <2> HIDE DEF above
  <2> QED BY <1>1, <1>2, InductionOverSet
<1> QED BY <1>3
=============================================================================
