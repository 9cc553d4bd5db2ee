---------------------------- MODULE QueueProofs -----------------------------
(***************************************************************************)
(* Theorems about the system's two queues, the API's JobQueue for every    *)
(* set of jobs and every batch size, and the phone's OfflineSync for every *)
(* number of mutations, attempts, requests under way and incidents.  Both  *)
(* rest on the laws of the subsequences that are taken from a queue.       *)
(***************************************************************************)
EXTENDS JobQueue, OfflineSync, SequenceTheorems, FiniteSetTheorems, TLAPS

-----------------------------------------------------------------------------
(* Subsequences.                                                           *)

Below(P, i) == {k \in P : k <= i}

LEMMA BelowFinite ==
  ASSUME NEW P \in SUBSET Int, IsFiniteSet(P), NEW i \in P
  PROVE  /\ IsFiniteSet(Below(P, i))
         /\ Cardinality(Below(P, i)) \in Nat
         /\ Cardinality(Below(P, i)) <= Cardinality(P)
  <1>1. Below(P, i) \subseteq P
    BY DEF Below
  <1>2. QED
    BY <1>1, FS_Subset, FS_CardinalityType

\* A higher position has more positions at or below it.
LEMMA BelowGrows ==
  ASSUME NEW P \in SUBSET Int, IsFiniteSet(P), NEW i \in P, NEW j \in P, i < j
  PROVE  Cardinality(Below(P, i)) < Cardinality(Below(P, j))
  <1>1. Below(P, i) \subseteq Below(P, j) \ {j}
    <2>1. ASSUME NEW k \in P, k <= i PROVE k <= j /\ k # j
      <3>1. k \in Int /\ i \in Int /\ j \in Int
        OBVIOUS
      <3>2. QED
        BY <2>1, <3>1
    <2>2. QED
      BY <2>1 DEF Below
  <1>2. j \in Below(P, j)
    BY DEF Below
  <1>3. /\ IsFiniteSet(Below(P, j))
        /\ Cardinality(Below(P, j)) \in Nat
    BY BelowFinite
  <1>4. /\ IsFiniteSet(Below(P, j) \ {j})
        /\ Cardinality(Below(P, j) \ {j}) = Cardinality(Below(P, j)) - 1
    BY <1>2, <1>3, FS_RemoveElement
  <1>5. Cardinality(Below(P, i)) <= Cardinality(Below(P, j)) - 1
    BY <1>1, <1>4, FS_Subset
  <1>6. Cardinality(Below(P, i)) \in Nat
    BY BelowFinite
  <1>7. QED
    BY <1>3, <1>5, <1>6

LEMMA BelowPositive ==
  ASSUME NEW P \in SUBSET Int, IsFiniteSet(P), NEW i \in P
  PROVE  Cardinality(Below(P, i)) \in 1 .. Cardinality(P)
  <1>1. i \in Below(P, i)
    BY DEF Below
  <1>2. Cardinality(Below(P, i)) # 0
    BY <1>1, BelowFinite, FS_EmptySet
  <1>3. Cardinality(P) \in Nat
    BY FS_CardinalityType
  <1>4. QED
    BY <1>2, <1>3, BelowFinite

\* Each number up to the size of P is the rank of a position.
LEMMA BelowOnto ==
  ASSUME NEW P \in SUBSET Int, IsFiniteSet(P), NEW n \in 1 .. Cardinality(P)
  PROVE  \E i \in P : Cardinality(Below(P, i)) = n
  <1> DEFINE Ranks == {Cardinality(Below(P, i)) : i \in P}
             f == [i \in P |-> Cardinality(Below(P, i))]
  <1>1. f \in Bijection(P, Ranks)
    <2>1. f \in [P -> Ranks]
      OBVIOUS
    <2>2. ASSUME NEW i \in P, NEW j \in P, f[i] = f[j] PROVE i = j
      <3>1. ~(i < j) /\ ~(j < i)
        BY <2>2, BelowGrows, BelowFinite
      <3>2. QED
        BY <3>1
    <2>3. \A r \in Ranks : \E i \in P : f[i] = r
      OBVIOUS
    <2>4. QED
      BY <2>1, <2>2, <2>3 DEF Bijection, Injection, Surjection, IsInjective
  <1>2. /\ IsFiniteSet(Ranks)
        /\ Cardinality(Ranks) = Cardinality(P)
    BY <1>1, FS_Bijection DEF ExistsBijection
  <1>3. Ranks \subseteq 1 .. Cardinality(P)
    BY BelowPositive
  <1>4. /\ Cardinality(P) \in Nat
        /\ IsFiniteSet(1 .. Cardinality(P))
        /\ Cardinality(1 .. Cardinality(P)) = Cardinality(P)
    BY FS_CardinalityType, FS_Interval
  <1>5. Ranks = 1 .. Cardinality(P)
    BY <1>2, <1>3, <1>4, FS_Subset
  <1>6. QED
    BY <1>5

\* Nth enumerates P.
LEMMA NthLaws ==
  ASSUME NEW P \in SUBSET Int, IsFiniteSet(P)
  PROVE  /\ \A n \in 1 .. Cardinality(P) : Nth(P, n) \in P
         /\ \A a, b \in 1 .. Cardinality(P) : Nth(P, a) = Nth(P, b) => a = b
         /\ \A i \in P : \E n \in 1 .. Cardinality(P) : Nth(P, n) = i
  <1>1. ASSUME NEW n \in 1 .. Cardinality(P)
        PROVE  Nth(P, n) \in P /\ Cardinality(Below(P, Nth(P, n))) = n
    BY BelowOnto DEF Nth, Below
  <1>2. ASSUME NEW i \in P PROVE \E n \in 1 .. Cardinality(P) : Nth(P, n) = i
    <2> DEFINE n == Cardinality(Below(P, i))
    <2>1. n \in 1 .. Cardinality(P)
      BY BelowPositive
    <2>2. Nth(P, n) \in P /\ Cardinality(Below(P, Nth(P, n))) = n
      BY <1>1, <2>1
    <2>3. ~(Nth(P, n) < i) /\ ~(i < Nth(P, n))
      <3>1. n \in Int
        BY <2>1
      <3>2. Nth(P, n) < i => Cardinality(Below(P, Nth(P, n))) < n
        BY <2>2, BelowGrows
      <3>3. i < Nth(P, n) => n < Cardinality(Below(P, Nth(P, n)))
        BY <2>2, BelowGrows
      <3>4. QED
        BY <2>2, <3>1, <3>2, <3>3
    <2>4. Nth(P, n) \in Int /\ i \in Int
      BY <2>2
    <2>5. Nth(P, n) = i
      BY <2>3, <2>4
    <2>6. QED
      BY <2>1, <2>5
  <1>3. QED
    BY <1>1, <1>2

LEMMA SubsequenceLaws ==
  ASSUME NEW S, NEW s \in Seq(S), NEW P \in SUBSET DOMAIN s
  PROVE  /\ IsFiniteSet(P) /\ P \subseteq Int /\ Cardinality(P) \in Nat
         /\ Subsequence(s, P) \in Seq(S)
         /\ Len(Subsequence(s, P)) = Cardinality(P)
         /\ DOMAIN Subsequence(s, P) = 1 .. Cardinality(P)
         /\ \A n \in 1 .. Cardinality(P) : Subsequence(s, P)[n] = s[Nth(P, n)]
  <1>1. DOMAIN s = 1 .. Len(s) /\ Len(s) \in Nat
    BY LenProperties
  <1>0. IsFiniteSet(P) /\ P \subseteq Int /\ Cardinality(P) \in Nat
    <2>1. IsFiniteSet(1 .. Len(s)) /\ P \in SUBSET (1 .. Len(s))
      BY <1>1, FS_Interval
    <2>2. IsFiniteSet(P)
      BY <2>1, FS_Subset
    <2>3. QED
      BY <1>1, <2>2, FS_CardinalityType
  <1>2. ASSUME NEW n \in 1 .. Cardinality(P) PROVE s[Nth(P, n)] \in S
    <2>1. Nth(P, n) \in P
      BY <1>0, NthLaws
    <2>2. QED
      BY <1>1, <2>1, ElementOfSeq
  <1>3. Subsequence(s, P) \in Seq(S)
    <2>1. Subsequence(s, P) \in [1 .. Cardinality(P) -> S]
      BY <1>2 DEF Subsequence
    <2>2. QED
      BY <1>0, <2>1, SeqDef
  <1>4. DOMAIN Subsequence(s, P) = 1 .. Cardinality(P)
    BY DEF Subsequence
  <1>5. Len(Subsequence(s, P)) = Cardinality(P)
    BY <1>0, <1>3, <1>4, LenProperties
  <1>6. QED
    BY <1>0, <1>3, <1>4, <1>5 DEF Subsequence

\* What a subsequence holds, and that it repeats nothing.
LEMMA SubsequenceRange ==
  ASSUME NEW S, NEW s \in Seq(S), NEW P \in SUBSET DOMAIN s
  PROVE  Range(Subsequence(s, P)) = {s[i] : i \in P}
  <1>1. /\ IsFiniteSet(P) /\ P \subseteq Int
        /\ DOMAIN Subsequence(s, P) = 1 .. Cardinality(P)
        /\ \A n \in 1 .. Cardinality(P) : Subsequence(s, P)[n] = s[Nth(P, n)]
    BY SubsequenceLaws
  <1>2. /\ \A n \in 1 .. Cardinality(P) : Nth(P, n) \in P
        /\ \A i \in P : \E n \in 1 .. Cardinality(P) : Nth(P, n) = i
    BY <1>1, NthLaws
  <1>3. ASSUME NEW x PROVE x \in Range(Subsequence(s, P)) <=> \E i \in P : x = s[i]
    BY <1>1, <1>2 DEF Range
  <1>4. QED
    BY <1>3


-----------------------------------------------------------------------------
(* Sequences that repeat nothing.                                          *)

Distinct(s) == \A i, k \in DOMAIN s : s[i] = s[k] => i = k

LEMMA DistinctEmpty ==
  /\ Distinct(<<>>)
  /\ Range(<<>>) = {}
  BY DEF Distinct, Range

LEMMA DistinctAppend ==
  ASSUME NEW S, NEW s \in Seq(S), NEW e \in S
  PROVE  /\ Append(s, e) \in Seq(S)
         /\ Range(Append(s, e)) = Range(s) \cup {e}
         /\ Distinct(s) /\ e \notin Range(s) => Distinct(Append(s, e))
  <1> DEFINE t == Append(s, e)
  <1>1. /\ t \in Seq(S)
        /\ DOMAIN s = 1 .. Len(s) /\ Len(s) \in Nat
        /\ DOMAIN t = 1 .. Len(s) + 1
        /\ \A i \in 1 .. Len(s) : t[i] = s[i]
        /\ t[Len(s) + 1] = e
    BY AppendProperties, LenProperties
  <1> HIDE DEF t
  <1>2. Range(t) = Range(s) \cup {e}
    <2>1. ASSUME NEW x PROVE x \in Range(t) <=> x \in Range(s) \/ x = e
      BY <1>1 DEF Range
    <2>2. QED
      BY <2>1
  <1>3. ASSUME Distinct(s), e \notin Range(s), NEW i \in DOMAIN t, NEW k \in DOMAIN t, t[i] = t[k]
        PROVE  i = k
    <2>1. \A h \in 1 .. Len(s) : t[h] # e
      BY <1>1, <1>3 DEF Range
    <2>2. CASE i = Len(s) + 1
      BY <1>1, <1>3, <2>1, <2>2
    <2>3. CASE k = Len(s) + 1
      BY <1>1, <1>3, <2>1, <2>3
    <2>4. CASE i \in 1 .. Len(s) /\ k \in 1 .. Len(s)
      BY <1>1, <1>3, <2>4 DEF Distinct
    <2>5. QED
      BY <1>1, <2>2, <2>3, <2>4
  <1>4. QED
    BY <1>1, <1>2, <1>3 DEF t, Distinct

LEMMA DistinctTail ==
  ASSUME NEW S, NEW s \in Seq(S), s # <<>>
  PROVE  /\ Tail(s) \in Seq(S)
         /\ Head(s) \in S
         /\ Range(s) = Range(Tail(s)) \cup {Head(s)}
         /\ Distinct(s) => Distinct(Tail(s)) /\ Head(s) \notin Range(Tail(s))
  <1> DEFINE t == Tail(s)
  <1>1. /\ t \in Seq(S) /\ Head(s) \in S /\ Head(s) = s[1]
        /\ DOMAIN s = 1 .. Len(s) /\ Len(s) \in Nat \ {0}
        /\ DOMAIN t = 1 .. Len(s) - 1
        /\ \A i \in 1 .. Len(s) - 1 : t[i] = s[i + 1]
    BY HeadTailProperties, LenProperties, EmptySeq
  <1> HIDE DEF t
  <1>2. ASSUME NEW x PROVE x \in Range(s) <=> x \in Range(t) \/ x = Head(s)
    <2>1. ASSUME x \in Range(s) PROVE x \in Range(t) \/ x = Head(s)
      <3>1. PICK i \in 1 .. Len(s) : x = s[i]
        BY <1>1, <2>1 DEF Range
      <3>2. CASE i = 1
        BY <1>1, <3>1, <3>2
      <3>3. CASE i # 1
        <4>1. i - 1 \in 1 .. Len(s) - 1 /\ (i - 1) + 1 = i
          BY <1>1, <3>1, <3>3
        <4>2. t[i - 1] = x
          BY <1>1, <3>1, <4>1
        <4>3. QED
          BY <1>1, <4>1, <4>2 DEF Range
      <3>4. QED
        BY <3>2, <3>3
    <2>2. ASSUME x \in Range(t) PROVE x \in Range(s)
      BY <1>1, <2>2 DEF Range
    <2>3. Head(s) \in Range(s)
      BY <1>1 DEF Range
    <2>4. QED
      BY <2>1, <2>2, <2>3
  <1>3. ASSUME Distinct(s) PROVE Distinct(t) /\ Head(s) \notin Range(t)
    <2>1. ASSUME NEW i \in 1 .. Len(s) - 1, NEW k \in 1 .. Len(s) - 1, t[i] = t[k]
          PROVE  i = k
      <3>1. i + 1 \in 1 .. Len(s) /\ k + 1 \in 1 .. Len(s) /\ s[i + 1] = s[k + 1]
        BY <1>1, <2>1
      <3>2. i + 1 = k + 1
        BY <1>1, <1>3, <3>1 DEF Distinct
      <3>3. QED
        BY <3>2
    <2>2. ASSUME NEW i \in 1 .. Len(s) - 1, t[i] = s[1] PROVE FALSE
      <3>1. i + 1 \in 1 .. Len(s) /\ 1 \in 1 .. Len(s) /\ s[i + 1] = s[1] /\ i + 1 # 1
        BY <1>1, <2>2
      <3>2. QED
        BY <1>1, <1>3, <3>1 DEF Distinct
    <2>3. QED
      BY <1>1, <2>1, <2>2 DEF Distinct, Range
  <1>4. QED
    BY <1>1, <1>2, <1>3 DEF t

\* The first occurrence leaves, and with it the element if it occurs once.
LEMMA DistinctRemove ==
  ASSUME NEW S, NEW s \in Seq(S), Distinct(s), NEW e \in Range(s)
  PROVE  /\ RemoveFirst(s, e) \in Seq(S)
         /\ Range(RemoveFirst(s, e)) = Range(s) \ {e}
         /\ Distinct(RemoveFirst(s, e))
  <1>1. DOMAIN s = 1 .. Len(s) /\ Len(s) \in Nat
    BY LenProperties
  <1>2. PICK p \in 1 .. Len(s) : s[p] = e
    BY <1>1 DEF Range
  <1>3. \A i \in 1 .. Len(s) : s[i] = e <=> i = p
    BY <1>1, <1>2 DEF Distinct
  <1>4. {i \in 1 .. Len(s) : s[i] = e} = {p}
    BY <1>2, <1>3
  <1>5. Min({p}) = p
    BY DEF Min
  <1>6. SelectInSeq(s, LAMBDA v : v = e) = p
    BY <1>4, <1>5 DEF SelectInSeq
  <1>7. RemoveFirst(s, e) = SubSeq(s, 1, p - 1) \o SubSeq(s, p + 1, Len(s))
    BY <1>2, <1>6 DEF RemoveFirst, RemoveAt
  <1> DEFINE t == RemoveFirst(s, e)
  <1>8. /\ t \in Seq(S)
        /\ DOMAIN t = 1 .. Len(s) - 1
        /\ \A i \in 1 .. Len(s) - 1 : t[i] = IF i < p THEN s[i] ELSE s[i + 1]
    <2> DEFINE u == SubSeq(s, 1, p - 1)
               v == SubSeq(s, p + 1, Len(s))
    <2>1. /\ u \in Seq(S) /\ Len(u) = p - 1
          /\ \A i \in 1 .. p - 1 : u[i] = s[i]
      BY <1>1, SubSeqProperties
    <2>2. /\ v \in Seq(S) /\ Len(v) = Len(s) - p
          /\ \A i \in 1 .. Len(s) - p : v[i] = s[i + p]
      <3>1. /\ p + 1 \in Int /\ Len(s) \in Int
            /\ \A i \in p + 1 .. Len(s) : s[i] \in S
        BY <1>1
      <3>2. /\ v \in Seq(S)
            /\ Len(v) = IF p + 1 <= Len(s) THEN Len(s) - (p + 1) + 1 ELSE 0
            /\ \A i \in 1 .. Len(s) - (p + 1) + 1 : v[i] = s[(p + 1) + i - 1]
        BY <3>1, SubSeqProperties
      <3> HIDE DEF v
      <3>3. Len(s) - (p + 1) + 1 = Len(s) - p
        BY <1>1
      <3>4. Len(v) = Len(s) - p
        <4>1. CASE p + 1 <= Len(s)
          BY <3>2, <3>3, <4>1
        <4>2. CASE ~(p + 1 <= Len(s))
          <5>1. Len(v) = 0
            BY <3>2, <4>2
          <5>2. Len(s) \in Int /\ p \in Int /\ p <= Len(s)
            BY <1>1
          <5>3. Len(s) = p
            BY <4>2, <5>2
          <5>4. QED
            BY <5>1, <5>2, <5>3
        <4>3. QED
          BY <4>1, <4>2
      <3>5. ASSUME NEW i \in 1 .. Len(s) - p PROVE v[i] = s[i + p]
        <4>1. v[i] = s[(p + 1) + i - 1]
          BY <3>2, <3>3
        <4>2. (p + 1) + i - 1 = i + p
          BY <1>1
        <4>3. QED
          BY <4>1, <4>2
      <3>6. QED
        BY <3>2, <3>4, <3>5
    <2> HIDE DEF u, v
    <2>3. /\ u \o v \in Seq(S)
          /\ Len(u \o v) = Len(s) - 1
          /\ \A i \in 1 .. Len(s) - 1 : (u \o v)[i] = IF i < p THEN s[i] ELSE s[i + 1]
      <3>1. /\ u \o v \in Seq(S)
            /\ Len(u \o v) = Len(u) + Len(v)
            /\ \A i \in 1 .. Len(u) + Len(v) :
                 (u \o v)[i] = IF i <= Len(u) THEN u[i] ELSE v[i - Len(u)]
        BY <2>1, <2>2, ConcatProperties
      <3>2. Len(u) + Len(v) = Len(s) - 1
        BY <1>1, <2>1, <2>2
      <3>3. ASSUME NEW i \in 1 .. Len(s) - 1
            PROVE  (u \o v)[i] = IF i < p THEN s[i] ELSE s[i + 1]
        <4>1. CASE i < p
          <5>1. i <= Len(u) /\ i \in 1 .. p - 1
            BY <2>1, <4>1
          <5>2. QED
            BY <2>1, <3>1, <3>2, <4>1, <5>1
        <4>2. CASE ~(i < p)
          <5>1. ~(i <= Len(u)) /\ i - Len(u) \in 1 .. Len(s) - p /\ i - Len(u) + p = i + 1
            BY <1>1, <2>1, <4>2
          <5>2. QED
            BY <2>2, <3>1, <3>2, <4>2, <5>1
        <4>3. QED
          BY <4>1, <4>2
      <3>4. QED
        BY <3>1, <3>2, <3>3
    <2>4. QED
      BY <1>7, <2>3, LenProperties DEF u, v
  <1> HIDE DEF t
  <1>9. Range(t) = Range(s) \ {e}
    <2>1. ASSUME NEW x \in Range(t) PROVE x \in Range(s) \ {e}
      BY <1>1, <1>3, <1>8 DEF Range
    <2>2. ASSUME NEW x \in Range(s), x # e PROVE x \in Range(t)
      <3>1. PICK i \in 1 .. Len(s) : x = s[i]
        BY <1>1 DEF Range
      <3>2. CASE i < p
        <4>1. i \in 1 .. Len(s) - 1 /\ t[i] = x
          BY <1>1, <1>8, <3>1, <3>2
        <4>2. QED
          BY <1>8, <4>1 DEF Range
      <3>3. CASE i > p
        <4>1. i - 1 \in 1 .. Len(s) - 1 /\ t[i - 1] = x
          BY <1>1, <1>8, <3>1, <3>3
        <4>2. QED
          BY <1>8, <4>1 DEF Range
      <3>4. QED
        BY <1>2, <2>2, <3>1, <3>2, <3>3
    <2>3. QED
      BY <2>1, <2>2
  <1>10. Distinct(t)
    BY <1>1, <1>3, <1>8 DEF Distinct
  <1>11. QED
    BY <1>8, <1>9, <1>10 DEF t

LEMMA DistinctSubsequence ==
  ASSUME NEW S, NEW s \in Seq(S), Distinct(s), NEW P \in SUBSET DOMAIN s
  PROVE  Distinct(Subsequence(s, P))
  <1>1. /\ IsFiniteSet(P) /\ P \subseteq Int
        /\ DOMAIN Subsequence(s, P) = 1 .. Cardinality(P)
        /\ \A n \in 1 .. Cardinality(P) : Subsequence(s, P)[n] = s[Nth(P, n)]
    BY SubsequenceLaws
  <1>2. /\ \A n \in 1 .. Cardinality(P) : Nth(P, n) \in P
        /\ \A a, b \in 1 .. Cardinality(P) : Nth(P, a) = Nth(P, b) => a = b
    BY <1>1, NthLaws
  <1>3. ASSUME NEW a \in 1 .. Cardinality(P), NEW b \in 1 .. Cardinality(P),
               Subsequence(s, P)[a] = Subsequence(s, P)[b]
        PROVE  a = b
    <2>1. s[Nth(P, a)] = s[Nth(P, b)]
      BY <1>1, <1>3
    <2>2. Nth(P, a) = Nth(P, b)
      BY <1>2, <2>1 DEF Distinct
    <2>3. QED
      BY <1>2, <2>2
  <1>4. QED
    BY <1>1, <1>3 DEF Distinct

LEMMA DistinctPrefix ==
  ASSUME NEW S, NEW s \in Seq(S), Distinct(s), NEW n \in 0 .. Len(s)
  PROVE  /\ SubSeq(s, 1, n) \in Seq(S)
         /\ Range(SubSeq(s, 1, n)) \subseteq Range(s)
         /\ Distinct(SubSeq(s, 1, n))
  <1> DEFINE t == SubSeq(s, 1, n)
  <1>1. DOMAIN s = 1 .. Len(s) /\ Len(s) \in Nat
    BY LenProperties
  <1>2. \A i \in 1 .. n : i \in DOMAIN s /\ s[i] \in S
    BY <1>1
  <1>3. t \in Seq(S) /\ Len(t) = n /\ \A i \in 1 .. n : t[i] = s[i]
    BY <1>2, SubSeqProperties
  <1>4. DOMAIN t = 1 .. n
    BY <1>3, LenProperties
  <1> HIDE DEF t
  <1>5. Range(t) \subseteq Range(s) /\ Distinct(t)
    BY <1>2, <1>3, <1>4 DEF Distinct, Range
  <1>6. QED
    BY <1>3, <1>5 DEF t

-----------------------------------------------------------------------------
(* JobQueue.                                                               *)

\* The places a job can be in are apart, and together they hold the accepted
\* jobs; what the tick has still to run repeats nothing.
Running == {current} \ {NoJob}
JobsApart ==
  /\ Distinct(pending) /\ Distinct(batch) /\ Distinct(dlq)
  /\ Accepted = Range(pending) \cup Range(dlq) \cup Running \cup completed
  /\ Range(pending) \cap Range(dlq) = {}
  /\ (Range(pending) \cup Range(dlq)) \cap completed = {}
  /\ Running \cap (Range(pending) \cup Range(dlq) \cup completed) = {}

\* A waiting job has an attempt left, a running one has begun one; a job nobody
\* handles is never tried.
AttemptsCounted ==
  /\ \A j \in Jobs \ Accepted : attempts[j] = 0
  /\ \A j \in Accepted : ~job[j].known => attempts[j] = 0
  /\ \A j \in Accepted : attempts[j] <= job[j].maxAttempts
  /\ \A j \in Range(pending) : attempts[j] < job[j].maxAttempts
  /\ \A j \in Running : attempts[j] > 0
  /\ \A j \in Range(dlq) : job[j].known => attempts[j] = job[j].maxAttempts

OneFirst ==
  \A j, k \in Range(pending) :
    /\ job[j].id = UniqueId /\ attempts[j] = 0
    /\ job[k].id = UniqueId /\ attempts[k] = 0
    => j = k

JobsInvariant == JobsTypeOK /\ JobsApart /\ AttemptsCounted /\ OneFirst

\* What the invariant says of one state, spelled out for the steps.
LEMMA JobFacts ==
  ASSUME JobsTypeOK
  PROVE  /\ \A j \in Jobs : job[j] \in MemoryJob \cup {NoJob}
         /\ \A j \in Accepted : /\ j \in Jobs /\ j # NoJob /\ job[j] \in MemoryJob
                                /\ job[j].maxAttempts \in Nat \ {0}
                                /\ job[j].id \in Jobs \cup {UniqueId}
         /\ \A j \in Jobs : attempts[j] \in Nat
         /\ pending \in Seq(Accepted) /\ dlq \in Seq(Accepted) /\ batch \in Seq(Accepted)
         /\ Range(pending) \subseteq Accepted /\ Range(dlq) \subseteq Accepted
  <1>1. \A j \in Accepted : j \in Jobs /\ j # NoJob /\ job[j] \in MemoryJob
    BY JobsAssumption DEF JobsTypeOK, Accepted
  <1>2. \A j \in Accepted : job[j].maxAttempts \in Nat \ {0} /\ job[j].id \in Jobs \cup {UniqueId}
    BY <1>1, JobsAssumption DEF MemoryJob
  <1>3. Range(pending) \subseteq Accepted /\ Range(dlq) \subseteq Accepted
    BY LenProperties DEF JobsTypeOK, Range
  <1>4. QED
    BY <1>1, <1>2, <1>3 DEF JobsTypeOK

LEMMA DueJobsLaws ==
  ASSUME NEW S, pending \in Seq(S), Distinct(pending)
  PROVE  /\ DueJobs \in Seq(S)
         /\ Range(DueJobs) \subseteq Range(pending)
         /\ Distinct(DueJobs)
  <1> DEFINE P == {i \in DOMAIN pending : pending[i] \in due}
             jobs == Subsequence(pending, P)
             n == IF Len(jobs) < BatchSize THEN Len(jobs) ELSE BatchSize
  <1>1. jobs \in Seq(S) /\ Len(jobs) \in Nat /\ Distinct(jobs)
    BY SubsequenceLaws, DistinctSubsequence
  <1>2. Range(jobs) \subseteq Range(pending)
    <2>1. Range(jobs) = {pending[i] : i \in P}
      BY SubsequenceRange
    <2>2. QED
      BY <2>1 DEF Range
  <1>3. DueJobs = SubSeq(jobs, 1, n)
    BY DEF DueJobs
  <1> HIDE DEF jobs
  <1>4. n \in 0 .. Len(jobs)
    BY <1>1, JobsAssumption
  <1> HIDE DEF n
  <1>5. QED
    BY <1>1, <1>2, <1>3, <1>4, DistinctPrefix

LEMMA JobsInit ==
  ASSUME JobInit
  PROVE  JobsInvariant
  <1>1. Accepted = {} /\ Running = {}
    BY DEF JobInit, Accepted, Running
  <1>2. /\ Range(<<>>) = {} /\ Distinct(<<>>)
        /\ \A S : <<>> \in Seq(S)
    BY DistinctEmpty, EmptySeq
  <1>3. JobsTypeOK
    BY <1>1, <1>2 DEF JobInit, JobsTypeOK
  <1>4. JobsApart
    BY <1>1, <1>2 DEF JobInit, JobsApart
  <1>5. AttemptsCounted /\ OneFirst
    BY <1>1, <1>2 DEF JobInit, AttemptsCounted, OneFirst
  <1>6. QED
    BY <1>3, <1>4, <1>5 DEF JobsInvariant

LEMMA StepEnqueueJob ==
  ASSUME JobsInvariant, NEW j \in Jobs, EnqueueJob(j)
  PROVE  JobsInvariant'
  <1> USE DEF JobsInvariant
  <1>1. PICK unico \in BOOLEAN, known \in BOOLEAN, delayed \in BOOLEAN, max \in AttemptLimits :
          IF unico /\ IsWaiting(UniqueId)
            THEN /\ ignored' = ignored \cup {j}
                 /\ UNCHANGED <<job, pending, due>>
            ELSE /\ job' = [job EXCEPT ![j] =
                      [id |-> IF unico THEN UniqueId ELSE j,
                       maxAttempts |-> max, known |-> known]]
                 /\ pending' = Append(pending, j)
                 /\ due' = IF delayed THEN due ELSE due \cup {j}
                 /\ UNCHANGED ignored
    BY DEF EnqueueJob
  <1>2. /\ job[j] = NoJob
        /\ UNCHANGED <<attempts, running, batch, current, completed, dlq>>
    BY DEF EnqueueJob
  <1>3. CASE unico /\ IsWaiting(UniqueId)
    <2>1. UNCHANGED <<job, pending, due>> /\ ignored' \subseteq Jobs
      BY <1>1, <1>3 DEF JobsTypeOK
    <2>2. Accepted' = Accepted /\ Running' = Running
      BY <1>2, <2>1 DEF Accepted, Running
    <2>3. QED
      BY <1>2, <2>1, <2>2 DEF JobsTypeOK, JobsApart, AttemptsCounted, OneFirst
  <1>4. CASE ~(unico /\ IsWaiting(UniqueId))
    <2> DEFINE r == [id |-> IF unico THEN UniqueId ELSE j, maxAttempts |-> max, known |-> known]
    <2>1. /\ job' = [job EXCEPT ![j] = r]
          /\ pending' = Append(pending, j)
          /\ due' = IF delayed THEN due ELSE due \cup {j}
          /\ UNCHANGED ignored
      BY <1>1, <1>4
    <2>2. r \in MemoryJob /\ r # NoJob /\ r.maxAttempts = max /\ max \in Nat \ {0}
      BY JobsAssumption DEF MemoryJob
    <2>3. r.id = UniqueId => unico
      BY JobsAssumption
    <2> HIDE DEF r
    <2>4. j \notin Accepted /\ j # NoJob
      BY <1>2, JobsAssumption DEF Accepted
    <2>5. /\ Accepted' = Accepted \cup {j}
          /\ \A k \in Accepted : job'[k] = job[k]
          /\ job'[j] = r
          /\ job' \in [Jobs -> MemoryJob \cup {NoJob}]
      BY <2>1, <2>2, <2>4 DEF Accepted, JobsTypeOK
    <2>6. Running' = Running
      BY <1>2 DEF Running
    <2>7. /\ pending \in Seq(Accepted') /\ dlq \in Seq(Accepted') /\ batch \in Seq(Accepted')
          /\ Range(pending) \subseteq Accepted /\ Range(dlq) \subseteq Accepted
      BY <2>5, JobFacts, SeqMonotonic
    <2>8. /\ pending' \in Seq(Accepted')
          /\ Range(pending)' = Range(pending) \cup {j}
          /\ Distinct(pending)'
      BY <2>1, <2>4, <2>5, <2>7, DistinctAppend DEF JobsApart
    <2>9. JobsTypeOK'
      BY <1>2, <2>1, <2>5, <2>7, <2>8 DEF JobsTypeOK
    <2>10. JobsApart'
      BY <1>2, <2>4, <2>5, <2>6, <2>7, <2>8 DEF JobsApart
    <2>11. attempts[j] = 0 /\ Running \subseteq Accepted
      BY <2>4 DEF AttemptsCounted, JobsApart
    <2>12. AttemptsCounted'
      <3>1. attempts' = attempts /\ Range(dlq)' = Range(dlq)
        BY <1>2
      <3>2. attempts[j] < r.maxAttempts /\ attempts[j] <= r.maxAttempts
        BY <2>2, <2>11
      <3>3. /\ \A k \in Jobs \ Accepted' : attempts'[k] = 0
            /\ \A k \in Running' : attempts'[k] > 0
        BY <2>5, <2>6, <3>1 DEF AttemptsCounted
      <3>4. /\ \A k \in Accepted' : attempts'[k] <= job'[k].maxAttempts
            /\ \A k \in Range(pending)' : attempts'[k] < job'[k].maxAttempts
        BY <2>5, <2>7, <2>8, <3>1, <3>2 DEF AttemptsCounted
      <3>5. \A k \in Range(dlq)' : job'[k].known => attempts'[k] = job'[k].maxAttempts
        BY <2>5, <2>7, <3>1 DEF AttemptsCounted
      <3>6. \A k \in Accepted' : ~job'[k].known => attempts'[k] = 0
        BY <2>5, <2>11, <3>1 DEF AttemptsCounted
      <3>7. QED
        BY <3>3, <3>4, <3>5, <3>6 DEF AttemptsCounted
    <2>13. OneFirst'
      <3>1. r.id = UniqueId => \A k \in Range(pending) : job[k].id # UniqueId
        BY <1>4, <2>3 DEF IsWaiting
      <3>2. QED
        BY <1>2, <2>5, <2>7, <2>8, <3>1 DEF OneFirst
    <2>14. QED
      BY <2>9, <2>10, <2>12, <2>13
  <1>5. QED
    BY <1>3, <1>4

\* Steps that leave the jobs where they are.
LEMMA StepElsewhere ==
  ASSUME JobsInvariant,
         UNCHANGED <<job, ignored, pending, attempts, current, completed, dlq>>,
         due' \subseteq Range(pending), running' \in BOOLEAN, batch' \in Seq(Accepted),
         Range(batch') \subseteq Range(pending), Distinct(batch')
  PROVE  JobsInvariant'
  <1>1. Accepted' = Accepted /\ Running' = Running
    BY DEF Accepted, Running
  <1>2. QED
    BY <1>1 DEF JobsInvariant, JobsTypeOK, JobsApart, AttemptsCounted, OneFirst

LEMMA StepElapse ==
  ASSUME JobsInvariant, NEW j, Elapse(j)
  PROVE  JobsInvariant'
  BY StepElsewhere DEF Elapse, JobsInvariant, JobsTypeOK, JobsApart

LEMMA StepTick ==
  ASSUME JobsInvariant, Tick
  PROVE  JobsInvariant'
  <1>1. DueJobs \in Seq(Accepted) /\ Range(DueJobs) \subseteq Range(pending) /\ Distinct(DueJobs)
    BY DueJobsLaws, JobFacts DEF JobsInvariant, JobsApart
  <1>2. batch' = DueJobs
    BY DEF Tick
  <1>3. QED
    BY <1>1, <1>2, StepElsewhere DEF Tick, JobsInvariant, JobsTypeOK

LEMMA StepEndTick ==
  ASSUME JobsInvariant, EndTick
  PROVE  JobsInvariant'
  BY StepElsewhere DEF EndTick, JobsInvariant, JobsTypeOK, JobsApart

LEMMA StepRunNext ==
  ASSUME JobsInvariant, RunNext
  PROVE  JobsInvariant'
  <1> USE DEF JobsInvariant
  <1> DEFINE j == Head(batch)
  <1>1. /\ current = NoJob /\ batch # <<>>
        /\ pending' = RemoveFirst(pending, j)
        /\ due' = due \ {j}
        /\ batch' = Tail(batch)
        /\ UNCHANGED <<job, ignored, running, completed>>
        /\ IF job[j].known
             THEN /\ current' = j
                  /\ attempts' = [attempts EXCEPT ![j] = @ + 1]
                  /\ UNCHANGED dlq
             ELSE /\ dlq' = Append(dlq, j)
                  /\ UNCHANGED <<current, attempts>>
    BY DEF RunNext, Taken, Buried
  <1>2. /\ pending \in Seq(Accepted) /\ dlq \in Seq(Accepted) /\ batch \in Seq(Accepted)
        /\ Range(pending) \subseteq Accepted /\ Range(dlq) \subseteq Accepted
    BY JobFacts
  <1>3. /\ Tail(batch) \in Seq(Accepted) /\ j \in Accepted
        /\ Range(batch) = Range(Tail(batch)) \cup {j}
        /\ Distinct(Tail(batch)) /\ j \notin Range(Tail(batch))
    BY <1>1, <1>2, DistinctTail DEF JobsApart
  <1> HIDE DEF j
  <1>4. /\ j \in Range(pending) /\ j \in Jobs /\ j # NoJob
        /\ job[j].maxAttempts \in Nat \ {0} /\ attempts[j] \in Nat
    BY <1>3, JobFacts DEF JobsTypeOK
  <1>5. /\ pending' \in Seq(Accepted)
        /\ Range(pending)' = Range(pending) \ {j}
        /\ Distinct(pending)'
    BY <1>1, <1>2, <1>4, DistinctRemove DEF JobsApart
  <1>6. /\ batch' \in Seq(Accepted) /\ Distinct(batch)'
        /\ Range(batch)' \subseteq Range(pending)'
        /\ due' \subseteq Range(pending)'
    BY <1>1, <1>3, <1>5 DEF JobsTypeOK
  <1>7. Accepted' = Accepted /\ Running = {}
    BY <1>1 DEF Accepted, Running
  <1>8. j \notin Range(dlq) /\ j \notin completed
    BY <1>4 DEF JobsApart
  <1>9. CASE job[j].known
    <2>1. /\ current' = j /\ UNCHANGED dlq
          /\ attempts' = [attempts EXCEPT ![j] = @ + 1]
      BY <1>1, <1>9
    <2>2. /\ attempts' \in [Jobs -> Nat] /\ attempts'[j] = attempts[j] + 1
          /\ \A k \in Jobs \ {j} : attempts'[k] = attempts[k]
      BY <1>4, <2>1 DEF JobsTypeOK
    <2>3. Running' = {j} /\ Range(dlq)' = Range(dlq)
      BY <1>4, <2>1 DEF Running
    <2>4. JobsTypeOK'
      BY <1>1, <1>3, <1>5, <1>6, <1>7, <2>1, <2>2 DEF JobsTypeOK
    <2>5. JobsApart'
      BY <1>1, <1>4, <1>5, <1>6, <1>7, <1>8, <2>1, <2>3 DEF JobsApart
    <2>6. AttemptsCounted'
      <3>1. attempts'[j] <= job[j].maxAttempts /\ attempts'[j] > 0
        BY <1>4, <2>2 DEF AttemptsCounted
      <3>2. \A k \in Range(dlq) : k # j /\ k \in Jobs
        BY <1>2, <1>8, JobFacts
      <3>3. \A k \in Accepted : k \in Jobs
        BY DEF Accepted
      <3>4. /\ \A k \in Jobs \ Accepted' : attempts'[k] = 0
            /\ \A k \in Running' : attempts'[k] > 0
        BY <1>3, <1>7, <2>2, <2>3, <3>1 DEF AttemptsCounted
      <3>5. /\ \A k \in Accepted' : attempts'[k] <= job'[k].maxAttempts
            /\ \A k \in Range(pending)' : attempts'[k] < job'[k].maxAttempts
        BY <1>1, <1>2, <1>5, <1>7, <2>2, <3>1, <3>3 DEF AttemptsCounted
      <3>6. \A k \in Range(dlq)' : job'[k].known => attempts'[k] = job'[k].maxAttempts
        BY <1>1, <2>2, <2>3, <3>2 DEF AttemptsCounted
      <3>7. \A k \in Accepted' : ~job'[k].known => attempts'[k] = 0
        BY <1>1, <1>7, <1>9, <2>2, <3>3 DEF AttemptsCounted
      <3>8. QED
        BY <3>4, <3>5, <3>6, <3>7 DEF AttemptsCounted
    <2>7. OneFirst'
      <3>1. \A k \in Range(pending)' : k \in Range(pending) /\ attempts'[k] = attempts[k]
        BY <1>2, <1>5, <2>2, JobFacts
      <3>2. QED
        BY <1>1, <3>1 DEF OneFirst
    <2>8. QED
      BY <2>4, <2>5, <2>6, <2>7
  <1>10. CASE ~job[j].known
    <2>1. dlq' = Append(dlq, j) /\ UNCHANGED <<current, attempts>>
      BY <1>1, <1>10
    <2>2. /\ dlq' \in Seq(Accepted)
          /\ Range(dlq)' = Range(dlq) \cup {j}
          /\ Distinct(dlq)'
      BY <1>2, <1>3, <1>8, <2>1, DistinctAppend DEF JobsApart
    <2>3. Running' = {}
      BY <1>7, <2>1 DEF Running
    <2>4. JobsTypeOK'
      BY <1>1, <1>5, <1>6, <1>7, <2>1, <2>2 DEF JobsTypeOK
    <2>5. JobsApart'
      BY <1>1, <1>4, <1>5, <1>6, <1>7, <1>8, <2>2, <2>3 DEF JobsApart
    <2>6. AttemptsCounted'
      BY <1>1, <1>5, <1>7, <1>10, <2>1, <2>2, <2>3 DEF AttemptsCounted
    <2>7. OneFirst'
      BY <1>1, <1>5, <2>1 DEF OneFirst
    <2>8. QED
      BY <2>4, <2>5, <2>6, <2>7
  <1>11. QED
    BY <1>9, <1>10

LEMMA StepHandlerResolves ==
  ASSUME JobsInvariant, HandlerResolves
  PROVE  JobsInvariant'
  <1> USE DEF JobsInvariant
  <1>1. /\ current # NoJob /\ completed' = completed \cup {current} /\ current' = NoJob
        /\ UNCHANGED <<job, ignored, pending, due, attempts, running, batch, dlq>>
    BY DEF HandlerResolves
  <1>2. Accepted' = Accepted /\ Running = {current} /\ Running' = {}
    BY <1>1 DEF Accepted, Running
  <1>3. JobsTypeOK'
    BY <1>1, <1>2 DEF JobsTypeOK
  <1>4. JobsApart'
    BY <1>1, <1>2 DEF JobsApart
  <1>5. AttemptsCounted' /\ OneFirst'
    BY <1>1, <1>2 DEF AttemptsCounted, OneFirst
  <1>6. QED
    BY <1>3, <1>4, <1>5

LEMMA StepHandlerRejects ==
  ASSUME JobsInvariant, HandlerRejects
  PROVE  JobsInvariant'
  <1> USE DEF JobsInvariant
  <1>1. /\ current # NoJob /\ current' = NoJob
        /\ UNCHANGED <<job, ignored, due, attempts, running, batch, completed>>
        /\ IF attempts[current] >= job[current].maxAttempts
             THEN dlq' = Append(dlq, current) /\ UNCHANGED pending
             ELSE pending' = Append(pending, current) /\ UNCHANGED dlq
    BY DEF HandlerRejects, Exhausted, Buried
  <1>2. Accepted' = Accepted /\ Running = {current} /\ Running' = {} /\ current \in Accepted
    BY <1>1 DEF Accepted, Running, JobsTypeOK
  <1>3. /\ pending \in Seq(Accepted) /\ dlq \in Seq(Accepted)
        /\ job[current].maxAttempts \in Nat \ {0} /\ attempts[current] \in Nat
        /\ attempts[current] <= job[current].maxAttempts
        /\ attempts[current] > 0
    BY <1>2, JobFacts DEF AttemptsCounted
  <1>4. current \notin Range(pending) \cup Range(dlq) \cup completed
    BY <1>2 DEF JobsApart
  <1>5. CASE attempts[current] >= job[current].maxAttempts
    <2>1. dlq' = Append(dlq, current) /\ UNCHANGED pending
      BY <1>1, <1>5
    <2>2. /\ dlq' \in Seq(Accepted)
          /\ Range(dlq)' = Range(dlq) \cup {current}
          /\ Distinct(dlq)'
      BY <1>2, <1>3, <1>4, <2>1, DistinctAppend DEF JobsApart
    <2>3. attempts[current] = job[current].maxAttempts
      BY <1>3, <1>5
    <2>4. JobsTypeOK'
      BY <1>1, <1>2, <2>1, <2>2 DEF JobsTypeOK
    <2>5. JobsApart'
      BY <1>1, <1>2, <1>4, <2>1, <2>2 DEF JobsApart
    <2>6. AttemptsCounted' /\ OneFirst'
      BY <1>1, <1>2, <2>1, <2>2, <2>3 DEF AttemptsCounted, OneFirst
    <2>7. QED
      BY <2>4, <2>5, <2>6
  <1>6. CASE ~(attempts[current] >= job[current].maxAttempts)
    <2>1. pending' = Append(pending, current) /\ UNCHANGED dlq
      BY <1>1, <1>6
    <2>2. /\ pending' \in Seq(Accepted)
          /\ Range(pending)' = Range(pending) \cup {current}
          /\ Distinct(pending)'
      BY <1>2, <1>3, <1>4, <2>1, DistinctAppend DEF JobsApart
    <2>3. attempts[current] < job[current].maxAttempts /\ attempts[current] # 0
      BY <1>3, <1>6
    <2>4. JobsTypeOK'
      BY <1>1, <1>2, <2>1, <2>2 DEF JobsTypeOK
    <2>5. JobsApart'
      BY <1>1, <1>2, <1>4, <2>1, <2>2 DEF JobsApart
    <2>6. AttemptsCounted' /\ OneFirst'
      BY <1>1, <1>2, <2>1, <2>2, <2>3 DEF AttemptsCounted, OneFirst
    <2>7. QED
      BY <2>4, <2>5, <2>6
  <1>7. QED
    BY <1>5, <1>6

\* The invariant the results on the job queue rest on.
THEOREM JobsInductive == JobSpec => []JobsInvariant
  <1>1. JobInit => JobsInvariant
    BY JobsInit
  <1>2. JobsInvariant /\ [JobNext]_jobVars => JobsInvariant'
    <2>1. SUFFICES ASSUME JobsInvariant, [JobNext]_jobVars PROVE JobsInvariant'
      OBVIOUS
    <2>2. ASSUME NEW j \in Jobs, EnqueueJob(j) \/ Elapse(j) PROVE JobsInvariant'
      BY <2>1, <2>2, StepEnqueueJob, StepElapse
    <2>3. CASE Tick
      BY <2>1, <2>3, StepTick
    <2>4. CASE RunNext
      BY <2>1, <2>4, StepRunNext
    <2>5. CASE HandlerResolves
      BY <2>1, <2>5, StepHandlerResolves
    <2>6. CASE HandlerRejects
      BY <2>1, <2>6, StepHandlerRejects
    <2>7. CASE EndTick
      BY <2>1, <2>7, StepEndTick
    <2>8. CASE UNCHANGED jobVars
      BY <2>1, <2>8, StepElsewhere DEF jobVars, JobsInvariant, JobsTypeOK, JobsApart
    <2>9. QED
      BY <2>1, <2>2, <2>3, <2>4, <2>5, <2>6, <2>7, <2>8 DEF JobNext
  <1>3. QED
    BY <1>1, <1>2, PTL DEF JobSpec

\* The queue's structures hold accepted jobs, and what is due or chosen by a
\* tick still waits (JobQueueService), for any number of jobs.
THEOREM JobsTypeCorrect == JobSpec => []JobsTypeOK
  <1>1. JobsInvariant => JobsTypeOK
    BY DEF JobsInvariant
  <1>2. QED
    BY <1>1, JobsInductive, PTL

\* How often a job occurs in an array that repeats nothing.
LEMMA CountOf ==
  ASSUME NEW s, Distinct(s), NEW j
  PROVE  Cardinality({i \in DOMAIN s : s[i] = j}) = IF j \in Range(s) THEN 1 ELSE 0
  <1>1. CASE j \in Range(s)
    <2>1. PICK i \in DOMAIN s : s[i] = j
      BY <1>1 DEF Range
    <2>2. {k \in DOMAIN s : s[k] = j} = {i}
      BY <2>1 DEF Distinct
    <2>3. QED
      BY <1>1, <2>2, FS_Singleton
  <1>2. CASE j \notin Range(s)
    <2>1. {k \in DOMAIN s : s[k] = j} = {}
      BY <1>2 DEF Range
    <2>2. QED
      BY <1>2, <2>1, FS_EmptySet
  <1>3. QED
    BY <1>1, <1>2

\* No job that was accepted is lost or doubled, whatever is enqueued during a
\* tick and however often jobs go back to wait (tickMemory, executeMemory).
THEOREM NoJobLost == JobSpec => []EveryJobInOnePlace
  <1>1. ASSUME JobsInvariant PROVE EveryJobInOnePlace
    <2>1. ASSUME NEW j \in Accepted PROVE Places(j) = 1
      <3>1. /\ Cardinality({i \in DOMAIN pending : pending[i] = j})
                 = IF j \in Range(pending) THEN 1 ELSE 0
            /\ Cardinality({i \in DOMAIN dlq : dlq[i] = j}) = IF j \in Range(dlq) THEN 1 ELSE 0
        BY <1>1, CountOf DEF JobsInvariant, JobsApart
      <3>2. j # NoJob
        BY <1>1, JobFacts DEF JobsInvariant
      <3>3. j \in Running <=> current = j
        BY <3>2 DEF Running
      <3>4. Places(j) = (IF j \in Range(pending) THEN 1 ELSE 0)
                        + (IF j \in Range(dlq) THEN 1 ELSE 0)
                        + (IF j \in Running THEN 1 ELSE 0)
                        + (IF j \in completed THEN 1 ELSE 0)
        BY <3>1, <3>3 DEF Places
      <3>5. QED
        BY <1>1, <3>4 DEF JobsInvariant, JobsApart
    <2>2. QED
      BY <2>1 DEF EveryJobInOnePlace
  <1>2. QED
    BY <1>1, JobsInductive, PTL

\* A job with a handler is given up after exactly its attempts, and none is
\* tried more often, whatever its limit (executeMemory).
THEOREM AttemptsRespected == JobSpec => []GivenUpOnlyExhausted
  <1>1. JobsInvariant => GivenUpOnlyExhausted
    BY DEF JobsInvariant, AttemptsCounted, GivenUpOnlyExhausted
  <1>2. QED
    BY <1>1, JobsInductive, PTL

\* Of the jobs enqueued with unico and one id at most one waits for its first
\* run (enqueue's look at the waiting jobs).
THEOREM UniqueWaitsAlone == JobSpec => []OneUniqueWaitsFirst
  <1>1. ASSUME JobsInvariant PROVE OneUniqueWaitsFirst
    <2> DEFINE U == {j \in Range(pending) : job[j].id = UniqueId /\ attempts[j] = 0}
    <2>1. \A j, k \in U : j = k
      BY <1>1 DEF JobsInvariant, OneFirst
    <2>2. U = {} \/ \E j \in U : U = {j}
      BY <2>1
    <2> HIDE DEF U
    <2>3. Cardinality(U) = 0 \/ Cardinality(U) = 1
      <3>1. CASE U = {}
        BY <3>1, FS_EmptySet
      <3>2. ASSUME NEW j, U = {j} PROVE Cardinality(U) = 1
        BY <3>2, FS_Singleton
      <3>3. QED
        BY <2>2, <3>1, <3>2
    <2>4. QED
      BY <2>3 DEF OneUniqueWaitsFirst, U
  <1>2. QED
    BY <1>1, JobsInductive, PTL

-----------------------------------------------------------------------------
(* The queue implements JobLife.                                           *)

Allowed == [j \in Jobs |-> IF job[j] # NoJob /\ job[j].known THEN job[j].maxAttempts ELSE 0]

LEMMA LifeInit ==
  ASSUME JobInit
  PROVE  Life!Init
  <1>1. Range(<<>>) = {}
    BY DistinctEmpty
  <1>2. Allowed = [j \in Jobs |-> 0]
    BY DEF JobInit, Allowed
  <1>3. QED
    BY <1>1, <1>2 DEF JobInit, Life!Init, Allowed

\* What the account of a step is about stays, and so the step is a stutter.
LEMMA LifeStutters ==
  ASSUME UNCHANGED <<job, ignored, pending, attempts, current, completed, dlq>>
  PROVE  UNCHANGED Life!vars
  BY DEF Life!vars

LEMMA LifeEnqueueJob ==
  ASSUME JobsInvariant, NEW j \in Jobs, EnqueueJob(j)
  PROVE  Life!Next
  <1> USE DEF JobsInvariant
  <1>1. PICK unico \in BOOLEAN, known \in BOOLEAN, delayed \in BOOLEAN, max \in AttemptLimits :
          IF unico /\ IsWaiting(UniqueId)
            THEN /\ ignored' = ignored \cup {j}
                 /\ UNCHANGED <<job, pending, due>>
            ELSE /\ job' = [job EXCEPT ![j] =
                      [id |-> IF unico THEN UniqueId ELSE j,
                       maxAttempts |-> max, known |-> known]]
                 /\ pending' = Append(pending, j)
                 /\ due' = IF delayed THEN due ELSE due \cup {j}
                 /\ UNCHANGED ignored
    BY DEF EnqueueJob
  <1>2. /\ job[j] = NoJob /\ j \notin ignored
        /\ UNCHANGED <<attempts, running, batch, current, completed, dlq>>
    BY DEF EnqueueJob
  <1>3. Life!New(j)
    BY <1>2 DEF Life!New, JobsApart, Accepted, Running
  <1>4. CASE unico /\ IsWaiting(UniqueId)
    <2>1. Life!Ignore(j)
      BY <1>1, <1>2, <1>3, <1>4 DEF Life!Ignore
    <2>2. QED
      BY <2>1 DEF Life!Next
  <1>5. CASE ~(unico /\ IsWaiting(UniqueId))
    <2> DEFINE r == [id |-> IF unico THEN UniqueId ELSE j, maxAttempts |-> max, known |-> known]
               limit == IF known THEN max ELSE 0
    <2>1. /\ job' = [job EXCEPT ![j] = r]
          /\ pending' = Append(pending, j)
          /\ UNCHANGED ignored
      BY <1>1, <1>5
    <2>2. r # NoJob /\ r.maxAttempts = max /\ r.known = known
      BY JobsAssumption DEF MemoryJob
    <2> HIDE DEF r
    <2>3. /\ job'[j] = r
          /\ \A k \in Jobs : k # j => job'[k] = job[k]
      BY <2>1 DEF JobsTypeOK
    <2>4. Allowed' = [Allowed EXCEPT ![j] = limit]
      BY <2>2, <2>3 DEF Allowed
    <2>5. limit \in AttemptLimits \cup {0}
      OBVIOUS
    <2>6. Range(pending') = Range(pending) \cup {j}
      <3>1. pending \in Seq(Accepted \cup {j}) /\ Distinct(pending) /\ j \notin Range(pending)
        BY <1>2, JobFacts, SeqMonotonic DEF JobsApart, Accepted
      <3>2. QED
        BY <2>1, <3>1, DistinctAppend
    <2> HIDE DEF limit
    <2>7. Life!Accept(j)
      BY <1>2, <1>3, <2>1, <2>4, <2>5, <2>6 DEF Life!Accept, Allowed
    <2>8. QED
      BY <2>7 DEF Life!Next
  <1>6. QED
    BY <1>4, <1>5

LEMMA LifeRunNext ==
  ASSUME JobsInvariant, RunNext
  PROVE  Life!Next
  <1> USE DEF JobsInvariant
  <1> DEFINE j == Head(batch)
  <1>1. /\ current = NoJob /\ batch # <<>>
        /\ pending' = RemoveFirst(pending, j)
        /\ UNCHANGED <<job, ignored, completed>>
        /\ IF job[j].known
             THEN /\ current' = j
                  /\ attempts' = [attempts EXCEPT ![j] = @ + 1]
                  /\ UNCHANGED dlq
             ELSE /\ dlq' = Append(dlq, j)
                  /\ UNCHANGED <<current, attempts>>
    BY DEF RunNext, Taken, Buried
  <1>2. /\ pending \in Seq(Accepted) /\ dlq \in Seq(Accepted) /\ batch \in Seq(Accepted)
    BY JobFacts
  <1>3. j \in Accepted /\ j \in Range(batch)
    BY <1>1, <1>2, DistinctTail DEF JobsApart
  <1> HIDE DEF j
  <1>4. /\ j \in Range(pending) /\ j \in Jobs /\ j # NoJob
        /\ job[j] # NoJob /\ attempts[j] < job[j].maxAttempts
    BY <1>3, JobFacts DEF JobsTypeOK, AttemptsCounted, Accepted
  <1>5. Range(pending') = Range(pending) \ {j}
    BY <1>1, <1>2, <1>4, DistinctRemove DEF JobsApart
  <1>6. Allowed' = Allowed
    BY <1>1 DEF Allowed
  <1>7. CASE job[j].known
    <2>1. Allowed[j] = job[j].maxAttempts
      BY <1>4, <1>7 DEF Allowed
    <2>2. {current} \ {NoJob} = {} /\ {current'} \ {NoJob} = {j}
      BY <1>1, <1>4, <1>7
    <2>3. Life!Start(j)
      BY <1>1, <1>4, <1>5, <1>6, <1>7, <2>1, <2>2 DEF Life!Start, Allowed
    <2>4. QED
      BY <1>4, <2>3 DEF Life!Next
  <1>8. CASE ~job[j].known
    <2>1. Allowed[j] = 0
      BY <1>4, <1>8 DEF Allowed
    <2>2. attempts[j] = 0
      BY <1>3, <1>8 DEF AttemptsCounted
    <2>3. Range(dlq') = Range(dlq) \cup {j}
      <3>1. j \notin Range(dlq) /\ Distinct(dlq)
        BY <1>4 DEF JobsApart
      <3>2. Range(Append(dlq, j)) = Range(dlq) \cup {j}
        BY <1>2, <1>3, <3>1, DistinctAppend
      <3>3. dlq' = Append(dlq, j)
        BY <1>1, <1>8
      <3>4. QED
        BY <3>2, <3>3
    <2>4. {current} \ {NoJob} = {} /\ {current'} \ {NoJob} = {}
      BY <1>1, <1>8
    <2>5. Life!GiveUp(j)
      BY <1>1, <1>4, <1>5, <1>6, <1>8, <2>1, <2>2, <2>3, <2>4 DEF Life!GiveUp, Allowed
    <2>6. QED
      BY <1>4, <2>5 DEF Life!Next
  <1>9. QED
    BY <1>7, <1>8

LEMMA LifeHandlerResolves ==
  ASSUME JobsInvariant, HandlerResolves
  PROVE  Life!Next
  <1>1. /\ current # NoJob /\ completed' = completed \cup {current} /\ current' = NoJob
        /\ UNCHANGED <<job, ignored, pending, attempts, dlq>>
    BY DEF HandlerResolves
  <1>2. current \in Jobs
    BY <1>1 DEF JobsInvariant, JobsTypeOK, Accepted
  <1>3. Life!Succeed(current)
    BY <1>1 DEF Life!Succeed
  <1>4. QED
    BY <1>2, <1>3 DEF Life!Next

LEMMA LifeHandlerRejects ==
  ASSUME JobsInvariant, HandlerRejects
  PROVE  Life!Next
  <1> USE DEF JobsInvariant
  <1>1. /\ current # NoJob /\ current' = NoJob
        /\ UNCHANGED <<job, ignored, attempts, completed>>
        /\ IF attempts[current] >= job[current].maxAttempts
             THEN dlq' = Append(dlq, current) /\ UNCHANGED pending
             ELSE pending' = Append(pending, current) /\ UNCHANGED dlq
    BY DEF HandlerRejects, Exhausted, Buried
  <1>2. Running = {current} /\ current \in Accepted /\ current \in Jobs /\ job[current] # NoJob
    BY <1>1 DEF Running, JobsTypeOK, Accepted
  <1>3. /\ pending \in Seq(Accepted) /\ dlq \in Seq(Accepted)
        /\ job[current].maxAttempts \in Nat /\ attempts[current] \in Nat
        /\ attempts[current] <= job[current].maxAttempts
        /\ job[current].known
    BY <1>2, JobFacts DEF AttemptsCounted
  <1>4. current \notin Range(pending) \cup Range(dlq)
    BY <1>2 DEF JobsApart
  <1>5. Allowed' = Allowed /\ Allowed[current] = job[current].maxAttempts
    BY <1>1, <1>2, <1>3 DEF Allowed
  <1>6. {current} \ {NoJob} = {current} /\ {current'} \ {NoJob} = {}
    BY <1>1
  <1>7. CASE attempts[current] >= job[current].maxAttempts
    <2>1. dlq' = Append(dlq, current) /\ UNCHANGED pending
      BY <1>1, <1>7
    <2>2. Range(dlq') = Range(dlq) \cup {current}
      BY <1>2, <1>3, <1>4, <2>1, DistinctAppend DEF JobsApart
    <2>3. attempts[current] = Allowed[current] /\ Range(pending') = Range(pending) \ {current}
      BY <1>3, <1>4, <1>5, <1>7, <2>1
    <2>4. Life!GiveUp(current)
      BY <1>1, <1>5, <1>6, <2>1, <2>2, <2>3 DEF Life!GiveUp, Allowed
    <2>5. QED
      BY <1>2, <2>4 DEF Life!Next
  <1>8. CASE ~(attempts[current] >= job[current].maxAttempts)
    <2>1. pending' = Append(pending, current) /\ UNCHANGED dlq
      BY <1>1, <1>8
    <2>2. Range(pending') = Range(pending) \cup {current}
      BY <1>2, <1>3, <1>4, <2>1, DistinctAppend DEF JobsApart
    <2>3. attempts[current] < Allowed[current]
      BY <1>3, <1>5, <1>8
    <2>4. Life!Return(current)
      BY <1>1, <1>5, <1>6, <2>1, <2>2, <2>3 DEF Life!Return, Allowed
    <2>5. QED
      BY <1>2, <2>4 DEF Life!Next
  <1>9. QED
    BY <1>7, <1>8

\* Whatever is enqueued during a tick, fails and waits again, each job is
\* started only while no other runs and as often as it may be, ends once and
\* never comes back (enqueue, tickMemory and executeMemory together): the queue
\* of arrays implements JobLife.
THEOREM QueueFollowsLife == JobSpec => JobsFollowLife
  <1>1. JobInit => Life!Init
    BY LifeInit
  <1>2. JobsInvariant /\ [JobNext]_jobVars => [Life!Next]_(Life!vars)
    <2> SUFFICES ASSUME JobsInvariant, [JobNext]_jobVars
                 PROVE  Life!Next \/ UNCHANGED Life!vars
      OBVIOUS
    <2>1. CASE \E j \in Jobs : EnqueueJob(j)
      BY <2>1, LifeEnqueueJob
    <2>2. CASE \E j \in Jobs : Elapse(j)
      BY <2>2, LifeStutters DEF Elapse
    <2>3. CASE Tick \/ EndTick
      BY <2>3, LifeStutters DEF Tick, EndTick
    <2>4. CASE RunNext
      BY <2>4, LifeRunNext
    <2>5. CASE HandlerResolves
      BY <2>5, LifeHandlerResolves
    <2>6. CASE HandlerRejects
      BY <2>6, LifeHandlerRejects
    <2>7. CASE UNCHANGED jobVars
      BY <2>7, LifeStutters DEF jobVars
    <2>8. QED
      BY <2>1, <2>2, <2>3, <2>4, <2>5, <2>6, <2>7 DEF JobNext
  <1>3. QED
    BY <1>1, <1>2, JobsInductive, PTL DEF JobSpec, JobsFollowLife, Life!Spec

-----------------------------------------------------------------------------
(* OfflineSync: queues of items.                                           *)

LEMMA Counts ==
  /\ MaxMutations \in Nat /\ MaxInFlight \in Nat /\ MaxIncidents \in Nat
  /\ MaxAttempts \in Nat \ {0}
  BY ConstantsAssumption

LEMMA QueueEmpty == IsQueue(<<>>) /\ MutationsOf(<<>>) = {}
  BY EmptySeq DEF IsQueue, MutationsOf

LEMMA QueueItems ==
  ASSUME NEW q, IsQueue(q)
  PROVE  /\ q \in Seq(QueueItem)
         /\ DOMAIN q = 1 .. Len(q) /\ Len(q) \in Nat
         /\ \A i \in DOMAIN q : q[i] \in QueueItem /\ q[i].m \in Mutations
                                /\ q[i].attempts \in 0 .. MaxAttempts - 1
                                /\ q[i].m \in MutationsOf(q)
         /\ MutationsOf(q) \subseteq Mutations
         /\ q # <<>> => MutationsOf(q) # {}
  <1>1. q \in Seq(QueueItem)
    BY DEF IsQueue
  <1>2. DOMAIN q = 1 .. Len(q) /\ Len(q) \in Nat
    BY <1>1, LenProperties
  <1>3. \A i \in DOMAIN q : q[i] \in QueueItem
    BY <1>1, <1>2, ElementOfSeq
  <1>4. \A i \in DOMAIN q : q[i].m \in Mutations /\ q[i].attempts \in 0 .. MaxAttempts - 1
    BY <1>3 DEF QueueItem
  <1>5. q # <<>> => 1 \in DOMAIN q
    BY <1>1, <1>2, EmptySeq
  <1>6. QED
    BY <1>1, <1>2, <1>3, <1>4, <1>5 DEF MutationsOf

LEMMA QueueOne ==
  ASSUME NEW item \in QueueItem
  PROVE  IsQueue(<<item>>) /\ MutationsOf(<<item>>) = {item.m}
  <1>1. /\ <<item>> \in Seq(QueueItem) /\ DOMAIN <<item>> = {1} /\ <<item>>[1] = item
    OBVIOUS
  <1>2. QED
    BY <1>1 DEF IsQueue, MutationsOf

LEMMA QueueAppend ==
  ASSUME NEW q, IsQueue(q), NEW item \in QueueItem, item.m \notin MutationsOf(q)
  PROVE  /\ IsQueue(Append(q, item))
         /\ MutationsOf(Append(q, item)) = MutationsOf(q) \cup {item.m}
  <1> DEFINE t == Append(q, item)
  <1>1. DOMAIN q = 1 .. Len(q) /\ Len(q) \in Nat /\ q \in Seq(QueueItem)
    BY QueueItems
  <1>2. /\ t \in Seq(QueueItem)
        /\ DOMAIN t = 1 .. Len(q) + 1
        /\ \A i \in 1 .. Len(q) : t[i] = q[i]
        /\ t[Len(q) + 1] = item
    BY <1>1, AppendProperties, LenProperties
  <1> HIDE DEF t
  <1>3. MutationsOf(t) = MutationsOf(q) \cup {item.m}
    <2>1. ASSUME NEW x PROVE x \in MutationsOf(t) <=> x \in MutationsOf(q) \/ x = item.m
      BY <1>1, <1>2 DEF MutationsOf
    <2>2. QED
      BY <2>1
  <1>4. ASSUME NEW i \in DOMAIN t, NEW k \in DOMAIN t, t[i].m = t[k].m PROVE i = k
    <2>1. \A h \in 1 .. Len(q) : t[h].m # item.m
      BY <1>1, <1>2 DEF MutationsOf
    <2>2. CASE i = Len(q) + 1
      BY <1>1, <1>2, <1>4, <2>1, <2>2
    <2>3. CASE k = Len(q) + 1
      BY <1>1, <1>2, <1>4, <2>1, <2>3
    <2>4. CASE i \in 1 .. Len(q) /\ k \in 1 .. Len(q)
      BY <1>1, <1>2, <1>4, <2>4 DEF IsQueue
    <2>5. QED
      BY <1>1, <1>2, <2>2, <2>3, <2>4
  <1>5. QED
    BY <1>2, <1>3, <1>4 DEF t, IsQueue

LEMMA QueueTail ==
  ASSUME NEW q, IsQueue(q), q # <<>>
  PROVE  /\ Head(q) \in QueueItem
         /\ IsQueue(Tail(q))
         /\ MutationsOf(q) = MutationsOf(Tail(q)) \cup {Head(q).m}
         /\ Head(q).m \notin MutationsOf(Tail(q))
  <1> DEFINE t == Tail(q)
  <1>1. /\ q \in Seq(QueueItem) /\ DOMAIN q = 1 .. Len(q) /\ Len(q) \in Nat \ {0}
    BY QueueItems, EmptySeq
  <1>2. /\ t \in Seq(QueueItem) /\ Head(q) \in QueueItem /\ Head(q) = q[1]
        /\ DOMAIN t = 1 .. Len(q) - 1
        /\ \A i \in 1 .. Len(q) - 1 : t[i] = q[i + 1]
    BY <1>1, HeadTailProperties, LenProperties
  <1> HIDE DEF t
  <1>3. ASSUME NEW i \in 1 .. Len(q) - 1, NEW k \in 1 .. Len(q) - 1, t[i].m = t[k].m
        PROVE  i = k
    <2>1. i + 1 \in 1 .. Len(q) /\ k + 1 \in 1 .. Len(q) /\ q[i + 1].m = q[k + 1].m
      BY <1>1, <1>2, <1>3
    <2>2. i + 1 = k + 1
      BY <1>1, <2>1 DEF IsQueue
    <2>3. QED
      BY <2>2
  <1>4. ASSUME NEW i \in 1 .. Len(q) - 1, t[i].m = q[1].m PROVE FALSE
    <2>1. i + 1 \in 1 .. Len(q) /\ 1 \in 1 .. Len(q) /\ q[i + 1].m = q[1].m /\ i + 1 # 1
      BY <1>1, <1>2, <1>4
    <2>2. QED
      BY <1>1, <2>1 DEF IsQueue
  <1>5. ASSUME NEW x PROVE x \in MutationsOf(q) <=> x \in MutationsOf(t) \/ x = Head(q).m
    <2>1. ASSUME x \in MutationsOf(q) PROVE x \in MutationsOf(t) \/ x = Head(q).m
      <3>1. PICK i \in 1 .. Len(q) : x = q[i].m
        BY <1>1, <2>1 DEF MutationsOf
      <3>2. CASE i = 1
        BY <1>2, <3>1, <3>2
      <3>3. CASE i # 1
        <4>1. i - 1 \in 1 .. Len(q) - 1 /\ (i - 1) + 1 = i
          BY <1>1, <3>1, <3>3
        <4>2. t[i - 1].m = x
          BY <1>2, <3>1, <4>1
        <4>3. QED
          BY <1>2, <4>1, <4>2 DEF MutationsOf
      <3>4. QED
        BY <3>2, <3>3
    <2>2. ASSUME x \in MutationsOf(t) PROVE x \in MutationsOf(q)
      BY <1>1, <1>2, <2>2 DEF MutationsOf
    <2>3. Head(q).m \in MutationsOf(q)
      BY <1>1, <1>2 DEF MutationsOf
    <2>4. QED
      BY <2>1, <2>2, <2>3
  <1>6. QED
    BY <1>2, <1>3, <1>4, <1>5 DEF t, IsQueue, MutationsOf

LEMMA QueueWithout ==
  ASSUME NEW q, IsQueue(q), NEW ms
  PROVE  /\ IsQueue(Without(q, ms))
         /\ MutationsOf(Without(q, ms)) = MutationsOf(q) \ ms
  <1> DEFINE P == {i \in DOMAIN q : q[i].m \notin ms}
             t == Subsequence(q, P)
  <1>1. q \in Seq(QueueItem)
    BY QueueItems
  <1>2. /\ IsFiniteSet(P) /\ P \subseteq Int
        /\ t \in Seq(QueueItem)
        /\ DOMAIN t = 1 .. Cardinality(P)
        /\ \A n \in 1 .. Cardinality(P) : t[n] = q[Nth(P, n)]
    BY <1>1, SubsequenceLaws
  <1>3. /\ \A n \in 1 .. Cardinality(P) : Nth(P, n) \in P
        /\ \A a, b \in 1 .. Cardinality(P) : Nth(P, a) = Nth(P, b) => a = b
        /\ \A i \in P : \E n \in 1 .. Cardinality(P) : Nth(P, n) = i
    BY <1>2, NthLaws
  <1>4. Without(q, ms) = t
    BY DEF Without
  <1> HIDE DEF t
  <1>5. ASSUME NEW a \in DOMAIN t, NEW b \in DOMAIN t, t[a].m = t[b].m PROVE a = b
    <2>1. Nth(P, a) \in DOMAIN q /\ Nth(P, b) \in DOMAIN q
          /\ q[Nth(P, a)].m = q[Nth(P, b)].m
      BY <1>2, <1>3, <1>5
    <2>2. Nth(P, a) = Nth(P, b)
      BY <2>1 DEF IsQueue
    <2>3. QED
      BY <1>2, <1>3, <2>2
  <1>6. ASSUME NEW x PROVE x \in MutationsOf(t) <=> x \in MutationsOf(q) /\ x \notin ms
    BY <1>2, <1>3 DEF MutationsOf
  <1>7. QED
    BY <1>2, <1>4, <1>5, <1>6 DEF IsQueue

\* An item that replaces the one of its mutation.
LEMMA QueueReplace ==
  ASSUME NEW q, IsQueue(q), NEW item \in QueueItem
  PROVE  LET t == [i \in DOMAIN q |-> IF q[i].m = item.m THEN item ELSE q[i]]
         IN  IsQueue(t) /\ MutationsOf(t) = MutationsOf(q)
  <1> DEFINE t == [i \in DOMAIN q |-> IF q[i].m = item.m THEN item ELSE q[i]]
  <1>1. DOMAIN q = 1 .. Len(q) /\ Len(q) \in Nat /\ \A i \in DOMAIN q : q[i] \in QueueItem
    BY QueueItems
  <1>2. t \in [1 .. Len(q) -> QueueItem]
    BY <1>1
  <1>3. t \in Seq(QueueItem)
    BY <1>1, <1>2, SeqDef
  <1>4. DOMAIN t = DOMAIN q /\ \A i \in DOMAIN q : t[i].m = q[i].m
    OBVIOUS
  <1> HIDE DEF t
  <1>5. IsQueue(t) /\ MutationsOf(t) = MutationsOf(q)
    BY <1>3, <1>4 DEF IsQueue, MutationsOf
  <1>6. QED
    BY <1>5 DEF t

-----------------------------------------------------------------------------
(* OfflineSync: the inductive invariant.                                   *)

Todo == IF pass = None THEN {} ELSE MutationsOf(pass.todo)
Done == IF pass = None THEN {} ELSE pass.done
Ran == {m \in Mutations : runs[m] > 0}
KeyedAwaited == {n \in Requests : requests[n].keyed /\ requests[n].awaited}

SyncTypes ==
  /\ online \in BOOLEAN
  /\ live \in [Mutations -> {"new", "sent", "queued", "over"}]
  /\ IsQueue(queue)
  /\ media \subseteq WithMedia \cup Binary
  /\ asked \in BOOLEAN
  /\ pass # None => pass \in Pass /\ IsQueue(pass.todo)
  /\ requests \in [Slots -> Request \cup {None}]
  /\ stored \in [Mutations -> Bodies \cup {None}]
  /\ runs \in [Mutations -> 0 .. 2]
  /\ settled \cup discarded \cup spoiled \cup left \cup orderly \subseteq Mutations
  /\ incidents \in 0 .. MaxIncidents

\* The keyed request the phone waits for is the one of the item its pass sends.
OneAwaited ==
  IF pass # None /\ pass.waiting
    THEN pass.todo # <<>> /\ \E n \in Requests : KeyedAwaited = {n} /\ requests[n].m = Item.m
    ELSE KeyedAwaited = {}

\* What is in the file or in the pass is queued; the pass takes for done what
\* the server did or refused, or the phone gave up.
QueuedOnly ==
  /\ \A m \in Queued \cup Todo : live[m] = "queued"
  /\ Todo \cap Done = {}
  /\ Done \subseteq settled \cup Ran

NewUntouched ==
  /\ \A m \in Mutations : live[m] = "new" => runs[m] = 0
  /\ \A n \in Requests : live[requests[n].m] # "new"

\* A success, and an answer in store, come from a handler that ran.
AnswersEarned ==
  /\ \A n \in Requests : requests[n].storing => requests[n].stage = "ok"
  /\ \A n \in Requests : requests[n].stage = "ok" => runs[requests[n].m] > 0
  /\ \A m \in Mutations : stored[m] # None => runs[m] > 0

\* An orderly mutation has one request at most; one that may still run finds
\* the mutation not done yet, or will find its answer.
OneOrderly ==
  /\ \A m \in orderly : runs[m] <= 1
  /\ \A n, k \in Requests : requests[n].m = requests[k].m /\ requests[n].m \in orderly => n = k
  /\ \A n \in Requests :
       requests[n].m \in orderly /\ requests[n].stage \in {"sent", "run"} =>
         \/ runs[requests[n].m] = 0
         \/ requests[n].stage = "sent" /\ requests[n].keyed /\ stored[requests[n].m] # None

\* What happened to a mutation that its files may be gone although it is queued.
Astray == discarded \cup left \cup spoiled

\* An item that may be sent has its files, and no request carries a broken body,
\* but for mutations that went astray.
MediaKept ==
  /\ Todo \cap WithMedia \subseteq media \cup Astray
  /\ Queued \cap WithMedia \subseteq media \cup Astray \cup Done
  /\ \A n \in Requests : requests[n].body = "broken" => requests[n].m \in Astray

NoneLost ==
  \A m \in Mutations : live[m] = "queued" =>
    m \in Queued \cup settled \cup discarded \cup spoiled \cup Ran

SyncInvariant ==
  /\ SyncTypes /\ OneAwaited /\ QueuedOnly /\ NewUntouched
  /\ AnswersEarned /\ OneOrderly /\ MediaKept /\ NoneLost

-----------------------------------------------------------------------------
(* What the parts of a step do.                                            *)

LEMMA RequestFacts ==
  ASSUME SyncTypes
  PROVE  /\ \A n \in Requests : n \in Slots /\ requests[n] \in Request /\ requests[n] # None
         /\ \A n \in Requests : requests[n].m \in Mutations
         /\ Queued = MutationsOf(queue) /\ Queued \subseteq Mutations
         /\ Todo \subseteq Mutations
  <1>1. \A n \in Requests : n \in Slots /\ requests[n] \in Request /\ requests[n] # None
    BY DEF Requests, SyncTypes
  <1>2. \A n \in Requests : requests[n].m \in Mutations
    BY <1>1 DEF Request
  <1>3. Queued = MutationsOf(queue) /\ Queued \subseteq Mutations
    BY QueueItems DEF Queued, MutationsOf, SyncTypes
  <1>4. Todo \subseteq Mutations
    BY QueueItems DEF Todo, SyncTypes
  <1>5. QED
    BY <1>1, <1>2, <1>3, <1>4

\* The request in a slot is replaced by r, or forgotten.
LEMMA PutFacts ==
  ASSUME SyncTypes, NEW n \in Requests, NEW r \in Request,
         requests' = [requests EXCEPT ![n] = Kept(r)]
  PROVE  /\ requests' \in [Slots -> Request \cup {None}]
         /\ Requests' \subseteq Requests
         /\ \A k \in Requests' : k # n => requests'[k] = requests[k]
         /\ n \in Requests' => requests'[n] = r
         /\ \A k \in Requests : k # n => k \in Requests'
         /\ r.awaited \/ r.storing \/ r.stage \in {"sent", "run"} => n \in Requests'
  <1>1. n \in Slots /\ Kept(r) \in {r, None}
    BY RequestFacts DEF Kept
  <1>2. r # None
    BY ConstantsAssumption
  <1>3. /\ requests' \in [Slots -> Request \cup {None}]
        /\ requests'[n] = Kept(r)
        /\ \A k \in Slots : k # n => requests'[k] = requests[k]
    BY <1>1 DEF SyncTypes
  <1>4. r.awaited \/ r.storing \/ r.stage \in {"sent", "run"} => Kept(r) = r
    BY DEF Kept
  <1>5. QED
    BY <1>1, <1>2, <1>3, <1>4 DEF Requests

LEMMA LeaveFacts ==
  ASSUME SyncTypes, NEW n \in Requests, Leave(n)
  PROVE  /\ requests' \in [Slots -> Request \cup {None}]
         /\ Requests' \subseteq Requests
         /\ \A k \in Requests' : k # n => requests'[k] = requests[k]
         /\ n \in Requests' => requests'[n] = [requests[n] EXCEPT !.awaited = FALSE]
         /\ \A k \in Requests : k # n => k \in Requests'
         /\ [requests[n] EXCEPT !.awaited = FALSE] \in Request
  <1> DEFINE r == [requests[n] EXCEPT !.awaited = FALSE]
  <1>1. r \in Request
    BY RequestFacts DEF Request
  <1>2. requests' = [requests EXCEPT ![n] = Kept(r)]
    BY DEF Leave, Unawaited
  <1> HIDE DEF r
  <1>3. QED
    BY <1>1, <1>2, PutFacts DEF r

\* A new request takes a free slot.
LEMMA SendFacts ==
  ASSUME SyncTypes, NEW m \in Mutations, NEW keyed \in BOOLEAN, NEW body \in Bodies,
         Send(m, keyed, body)
  PROVE  \E n \in Slots \ Requests :
           /\ requests' \in [Slots -> Request \cup {None}]
           /\ Requests' = Requests \cup {n}
           /\ \A k \in Requests : requests'[k] = requests[k]
           /\ requests'[n] = [m |-> m, keyed |-> keyed, body |-> body,
                              stage |-> IF keyed THEN "sent" ELSE "run",
                              awaited |-> TRUE, storing |-> FALSE]
  <1> DEFINE n == CHOOSE k \in Slots \ Requests : TRUE
             r == [m |-> m, keyed |-> keyed, body |-> body,
                   stage |-> IF keyed THEN "sent" ELSE "run",
                   awaited |-> TRUE, storing |-> FALSE]
  <1>1. n \in Slots \ Requests /\ requests' = [requests EXCEPT ![n] = r]
    BY DEF Send
  <1>2. r \in Request /\ r # None
    <2>1. r \in Request
      BY DEF Request
    <2>2. None \notin Request
      BY ConstantsAssumption
    <2>3. QED
      BY <2>1, <2>2
  <1> HIDE DEF n, r
  <1>3. /\ requests' \in [Slots -> Request \cup {None}]
        /\ requests'[n] = r
        /\ \A k \in Slots : k # n => requests'[k] = requests[k]
    BY <1>1, <1>2 DEF SyncTypes
  <1>4. Requests' = Requests \cup {n} /\ \A k \in Requests : requests'[k] = requests[k]
    BY <1>1, <1>2, <1>3 DEF Requests
  <1>5. QED
    BY <1>1, <1>3, <1>4 DEF r

LEMMA IncidentFacts ==
  ASSUME SyncTypes, Incident
  PROVE  incidents + 1 \in 0 .. MaxIncidents
  <1>1. /\ IsFiniteSet(Mutations) /\ discarded \in SUBSET Mutations
    BY Counts, FS_Interval DEF Mutations, SyncTypes
  <1>2. Cardinality(discarded) \in Nat
    BY <1>1, FS_Subset, FS_CardinalityType
  <1>3. incidents \in Nat
    BY Counts DEF SyncTypes
  <1>4. incidents + Cardinality(discarded) < MaxIncidents
    BY DEF Incident
  <1>5. QED
    BY <1>2, <1>3, <1>4, Counts

\* What a queue object may take for the file.
LEMMA ViewFacts ==
  ASSUME SyncInvariant, NEW seen \in Views
  PROVE  /\ IsQueue(seen)
         /\ \A m \in MutationsOf(seen) : m \in Mutations /\ live[m] = "queued"
         /\ seen # queue => Incident
  <1>1. IsQueue(queue) /\ Queued = MutationsOf(queue)
    BY RequestFacts DEF SyncInvariant, SyncTypes
  <1>2. \A m \in Queued : live[m] = "queued"
    BY DEF SyncInvariant, QueuedOnly
  <1>3. seen # queue => Incident
    BY DEF Views
  <1>4. CASE seen = queue
    BY <1>1, <1>2, <1>3, <1>4, QueueItems
  <1>5. ASSUME NEW ms, seen = Without(queue, ms)
        PROVE  IsQueue(seen) /\ \A m \in MutationsOf(seen) : live[m] = "queued"
    BY <1>1, <1>2, <1>5, QueueWithout
  <1>6. ASSUME NEW item \in QueueItem, item.m \notin Queued, live[item.m] = "queued",
               seen = Append(queue, item)
        PROVE  IsQueue(seen) /\ \A m \in MutationsOf(seen) : live[m] = "queued"
    BY <1>1, <1>2, <1>6, QueueAppend
  <1>7. IsQueue(seen) /\ \A m \in MutationsOf(seen) : live[m] = "queued"
    BY <1>1, <1>2, <1>4, <1>5, <1>6 DEF Views
  <1>8. QED
    BY <1>3, <1>7, QueueItems

\* A save: what differs between the file and what was taken for it is spoiled.
LEMMA SaveFacts ==
  ASSUME SyncInvariant, NEW seen \in Views, NEW items, IsQueue(items), Save(seen, items)
  PROVE  /\ IsQueue(queue)' /\ Queued' = MutationsOf(items)
         /\ spoiled' \subseteq Mutations /\ spoiled \subseteq spoiled'
         /\ Queued \ MutationsOf(seen) \subseteq spoiled'
         /\ MutationsOf(seen) \ Queued \subseteq spoiled'
         /\ incidents' \in 0 .. MaxIncidents
  <1>1. /\ queue' = items
        /\ spoiled' = spoiled \cup Apart(seen, queue)
        /\ incidents' = incidents + IF seen = queue THEN 0 ELSE 1
    BY DEF Save
  <1>2. Apart(seen, queue) = (MutationsOf(seen) \ Queued) \cup (Queued \ MutationsOf(seen))
    BY DEF Apart, Queued
  <1>3. MutationsOf(seen) \subseteq Mutations /\ Queued \subseteq Mutations
    BY ViewFacts, RequestFacts DEF SyncInvariant
  <1>4. incidents' \in 0 .. MaxIncidents
    <2>1. incidents \in 0 .. MaxIncidents
      BY DEF SyncInvariant, SyncTypes
    <2>2. seen # queue => incidents + 1 \in 0 .. MaxIncidents
      BY ViewFacts, IncidentFacts DEF SyncInvariant
    <2>3. QED
      BY <1>1, <2>1, <2>2
  <1>5. IsQueue(queue)' /\ Queued' = MutationsOf(items)
    BY <1>1 DEF Queued
  <1>6. spoiled \subseteq Mutations
    BY DEF SyncInvariant, SyncTypes
  <1>7. QED
    BY <1>1, <1>2, <1>3, <1>4, <1>5, <1>6

-----------------------------------------------------------------------------
(* The steps of the screens.                                               *)

LEMMA StepSendLive ==
  ASSUME SyncInvariant, NEW m \in Mutations, SendLive(m)
  PROVE  SyncInvariant'
  <1> USE DEF SyncInvariant
  <1>1. /\ live[m] = "new"
        /\ Send(m, FALSE, "whole")
        /\ live' = [live EXCEPT ![m] = "sent"]
        /\ UNCHANGED <<online, queue, media, asked, pass, stored, runs, settled, discarded, left, spoiled, incidents>>
    BY DEF SendLive, Made, file
  <1>2. PICK n \in Slots \ Requests :
           /\ requests' \in [Slots -> Request \cup {None}]
           /\ Requests' = Requests \cup {n}
           /\ \A k \in Requests : requests'[k] = requests[k]
           /\ requests'[n] = [m |-> m, keyed |-> FALSE, body |-> "whole", stage |-> "run",
                              awaited |-> TRUE, storing |-> FALSE]
    BY <1>1, SendFacts DEF Bodies
  <1>3. orderly' \subseteq orderly
    BY <1>1 DEF Send
  <1>4. /\ Queued' = Queued /\ Todo' = Todo /\ Done' = Done /\ Ran' = Ran
    BY <1>1 DEF Queued, Todo, Done, Ran
  <1>5. /\ live' \in [Mutations -> {"new", "sent", "queued", "over"}]
        /\ live'[m] = "sent"
        /\ \A k \in Mutations : k # m => live'[k] = live[k]
    BY <1>1 DEF SyncTypes
  <1>6. SyncTypes'
    BY <1>1, <1>2, <1>3, <1>4, <1>5 DEF SyncTypes
  <1>7. OneAwaited'
    <2>1. KeyedAwaited' = KeyedAwaited
      BY <1>2 DEF KeyedAwaited
    <2>2. QED
      BY <1>1, <1>2, <2>1 DEF OneAwaited, Item
  <1>8. QueuedOnly'
    BY <1>1, <1>4, <1>5, RequestFacts DEF QueuedOnly
  <1>9. NewUntouched'
    BY <1>1, <1>2, <1>5, RequestFacts DEF NewUntouched
  <1>10. AnswersEarned'
    BY <1>1, <1>2 DEF AnswersEarned
  <1>11. OneOrderly'
    <2>1. runs[m] = 0 /\ \A k \in Requests : requests[k].m # m
      BY <1>1 DEF NewUntouched
    <2>2. QED
      BY <1>1, <1>2, <1>3, <2>1 DEF OneOrderly
  <1>12. MediaKept'
    BY <1>1, <1>2, <1>4 DEF MediaKept, Astray
  <1>13. NoneLost'
    BY <1>1, <1>4, <1>5 DEF NoneLost
  <1>14. QED
    BY <1>6, <1>7, <1>8, <1>9, <1>10, <1>11, <1>12, <1>13

\* No request is new, and those there are speak of the same mutations.
NoNewRequest ==
  /\ requests' \in [Slots -> Request \cup {None}]
  /\ \A k \in Requests' : /\ k \in Requests
                          /\ requests'[k].m = requests[k].m
                          /\ requests'[k].body = requests[k].body

LEMMA AwaitedKept ==
  ASSUME OneAwaited, NoNewRequest, KeyedAwaited' = KeyedAwaited, UNCHANGED pass
  PROVE  OneAwaited'
  <1>1. ASSUME NEW k \in Requests, KeyedAwaited = {k}, requests[k].m = Item.m
        PROVE  \E h \in Requests' : KeyedAwaited' = {h} /\ requests'[h].m = Item'.m
    <2>1. k \in Requests'
      BY <1>1 DEF KeyedAwaited
    <2>2. Item' = Item
      BY DEF Item
    <2>3. QED
      BY <1>1, <2>1, <2>2 DEF NoNewRequest
  <1>2. QED
    BY <1>1 DEF OneAwaited

\* Giving up on an answer leaves what the API knows of the requests.
LEMMA LeaveKeeps ==
  ASSUME SyncInvariant, NEW n \in Requests, Leave(n), UNCHANGED <<stored, runs, orderly>>
  PROVE  /\ NoNewRequest
         /\ KeyedAwaited' = KeyedAwaited \ {n}
         /\ AnswersEarned' /\ OneOrderly'
  <1> USE DEF SyncInvariant
  <1> DEFINE r == [requests[n] EXCEPT !.awaited = FALSE]
  <1>1. /\ requests' \in [Slots -> Request \cup {None}]
        /\ Requests' \subseteq Requests
        /\ \A k \in Requests' : k # n => requests'[k] = requests[k]
        /\ n \in Requests' => requests'[n] = r
        /\ \A k \in Requests : k # n => k \in Requests'
    BY LeaveFacts
  <1>2. /\ r.m = requests[n].m /\ r.body = requests[n].body /\ r.keyed = requests[n].keyed
        /\ r.stage = requests[n].stage /\ r.storing = requests[n].storing /\ r.awaited = FALSE
    BY RequestFacts DEF Request
  <1> HIDE DEF r
  <1>3. \A k \in Requests' : /\ k \in Requests
                             /\ requests'[k].m = requests[k].m
                             /\ requests'[k].body = requests[k].body
                             /\ requests'[k].keyed = requests[k].keyed
                             /\ requests'[k].stage = requests[k].stage
                             /\ requests'[k].storing = requests[k].storing
    BY <1>1, <1>2
  <1>4. KeyedAwaited' = KeyedAwaited \ {n}
    BY <1>1, <1>2 DEF KeyedAwaited
  <1>5. AnswersEarned'
    BY <1>3 DEF AnswersEarned
  <1>6. OneOrderly'
    BY <1>3 DEF OneOrderly
  <1>7. QED
    BY <1>1, <1>3, <1>4, <1>5, <1>6 DEF NoNewRequest

LEMMA StepAnsweredLive ==
  ASSUME SyncInvariant, NEW m \in Mutations, AnsweredLive(m)
  PROVE  SyncInvariant'
  <1> USE DEF SyncInvariant
  <1>1. PICK n \in Requests : ~requests[n].keyed /\ Leave(n)
    BY DEF AnsweredLive, Awaited
  <1>2. /\ live[m] = "sent"
        /\ live' = [live EXCEPT ![m] = "over"]
        /\ UNCHANGED <<online, queue, media, asked, pass, stored>>
        /\ UNCHANGED <<runs, settled, discarded, left, spoiled, incidents, orderly>>
    BY DEF AnsweredLive, file, history
  <1>3. /\ NoNewRequest
        /\ KeyedAwaited' = KeyedAwaited \ {n}
        /\ AnswersEarned' /\ OneOrderly'
    BY <1>1, <1>2, LeaveKeeps
  <1>4. /\ Queued' = Queued /\ Todo' = Todo /\ Done' = Done /\ Ran' = Ran
    BY <1>2 DEF Queued, Todo, Done, Ran
  <1>5. /\ live' \in [Mutations -> {"new", "sent", "queued", "over"}]
        /\ live'[m] = "over"
        /\ \A k \in Mutations : k # m => live'[k] = live[k]
    BY <1>2 DEF SyncTypes
  <1>6. SyncTypes'
    BY <1>2, <1>3, <1>4, <1>5 DEF SyncTypes, NoNewRequest
  <1>7. OneAwaited'
    <2>1. n \notin KeyedAwaited
      BY <1>1 DEF KeyedAwaited
    <2>2. KeyedAwaited' = KeyedAwaited
      BY <1>3, <2>1
    <2>3. QED
      BY <1>2, <1>3, <2>2, AwaitedKept
  <1>8. QueuedOnly'
    BY <1>2, <1>4, <1>5, RequestFacts DEF QueuedOnly
  <1>9. NewUntouched'
    BY <1>2, <1>3, <1>5, RequestFacts DEF NewUntouched, NoNewRequest
  <1>10. MediaKept'
    BY <1>2, <1>3, <1>4 DEF MediaKept, Astray, NoNewRequest
  <1>11. NoneLost'
    BY <1>2, <1>4, <1>5 DEF NoneLost
  <1>12. QED
    BY <1>3, <1>6, <1>7, <1>8, <1>9, <1>10, <1>11

\* The mutation enters the file, from a screen without a connection or from a
\* request nobody answered.
LEMMA StepEnqueue ==
  ASSUME SyncInvariant, NEW m \in Mutations, Enqueue(m)
  PROVE  SyncInvariant'
  <1> USE DEF SyncInvariant
  <1> DEFINE item == [m |-> m, attempts |-> 0]
  <1>1. /\ live[m] \in {"new", "sent"}
        /\ live' = [live EXCEPT ![m] = "queued"]
        /\ media' = IF m \in WithMedia \cup Binary THEN media \cup {m} ELSE media
        /\ UNCHANGED <<online, asked, pass, stored>>
        /\ UNCHANGED <<runs, settled, discarded, left, orderly>>
    BY DEF Enqueue, Made
  <1>2. PICK seen \in Views : Save(seen, Append(seen, item))
    BY DEF Enqueue
  <1>3. /\ item \in QueueItem /\ item.m = m
        /\ m \notin MutationsOf(seen) /\ m \notin Queued /\ m \notin Todo
    BY <1>1, Counts, ViewFacts DEF QueueItem, QueuedOnly
  <1> HIDE DEF item
  <1>4. /\ IsQueue(queue)' /\ Queued' = MutationsOf(seen) \cup {m}
        /\ \A k \in MutationsOf(seen) : k \in Mutations /\ live[k] = "queued"
        /\ spoiled' \subseteq Mutations /\ spoiled \subseteq spoiled'
        /\ Queued \ MutationsOf(seen) \subseteq spoiled'
        /\ MutationsOf(seen) \ Queued \subseteq spoiled'
        /\ incidents' \in 0 .. MaxIncidents
    <2>1. IsQueue(Append(seen, item)) /\ MutationsOf(Append(seen, item)) = MutationsOf(seen) \cup {m}
      BY <1>3, QueueAppend, ViewFacts
    <2>2. QED
      BY <1>2, <2>1, SaveFacts, ViewFacts
  <1>5. /\ NoNewRequest
        /\ KeyedAwaited' = KeyedAwaited
        /\ AnswersEarned' /\ OneOrderly'
    <2>1. CASE UNCHANGED requests
      <3>1. Requests' = Requests /\ KeyedAwaited' = KeyedAwaited
        BY <2>1 DEF Requests, KeyedAwaited
      <3>2. AnswersEarned' /\ OneOrderly'
        BY <1>1, <2>1, <3>1 DEF AnswersEarned, OneOrderly
      <3>3. QED
        BY <2>1, <3>1, <3>2 DEF SyncTypes, NoNewRequest
    <2>2. ASSUME NEW n \in Awaited(m, FALSE), Leave(n)
          PROVE  NoNewRequest /\ KeyedAwaited' = KeyedAwaited /\ AnswersEarned' /\ OneOrderly'
      <3>1. n \in Requests /\ n \notin KeyedAwaited
        BY DEF Awaited, KeyedAwaited
      <3>2. QED
        BY <1>1, <2>2, <3>1, LeaveKeeps
    <2>3. QED
      BY <2>1, <2>2 DEF Enqueue
  <1>6. /\ Todo' = Todo /\ Done' = Done /\ Ran' = Ran
    BY <1>1 DEF Todo, Done, Ran
  <1>7. /\ live' \in [Mutations -> {"new", "sent", "queued", "over"}]
        /\ live'[m] = "queued"
        /\ \A k \in Mutations : k # m => live'[k] = live[k]
    BY <1>1 DEF SyncTypes
  <1>8. SyncTypes'
    BY <1>1, <1>4, <1>5, <1>6, <1>7 DEF SyncTypes, NoNewRequest
  <1>9. OneAwaited'
    BY <1>1, <1>5, AwaitedKept
  <1>10. QueuedOnly'
    BY <1>1, <1>4, <1>6, <1>7, RequestFacts DEF QueuedOnly
  <1>11. NewUntouched'
    BY <1>1, <1>5, <1>7, RequestFacts DEF NewUntouched, NoNewRequest
  <1>12. MediaKept'
    BY <1>1, <1>4, <1>5, <1>6 DEF MediaKept, Astray, NoNewRequest
  <1>13. NoneLost'
    BY <1>1, <1>4, <1>6, <1>7 DEF NoneLost
  <1>14. QED
    BY <1>5, <1>8, <1>9, <1>10, <1>11, <1>12, <1>13

-----------------------------------------------------------------------------
(* The steps of the coordinator and of the user.                           *)

\* What steps that send and receive nothing leave as it is.
LEMMA QuietKeeps ==
  ASSUME SyncInvariant, UNCHANGED <<live, requests, stored, runs, orderly>>
  PROVE  /\ Requests' = Requests /\ KeyedAwaited' = KeyedAwaited /\ Ran' = Ran
         /\ NoNewRequest
         /\ NewUntouched' /\ AnswersEarned' /\ OneOrderly'
  <1> USE DEF SyncInvariant
  <1>1. Requests' = Requests /\ KeyedAwaited' = KeyedAwaited /\ Ran' = Ran
    BY DEF Requests, KeyedAwaited, Ran
  <1>2. NewUntouched'
    BY <1>1 DEF NewUntouched
  <1>3. AnswersEarned'
    BY <1>1 DEF AnswersEarned
  <1>4. OneOrderly'
    BY <1>1 DEF OneOrderly
  <1>5. NoNewRequest
    BY <1>1 DEF NoNewRequest, SyncTypes
  <1>6. QED
    BY <1>1, <1>2, <1>3, <1>4, <1>5

LEMMA PassFacts ==
  ASSUME SyncTypes, pass # None
  PROVE  /\ pass \in Pass /\ IsQueue(pass.todo)
         /\ pass.kind \in Kinds /\ pass.waiting \in BOOLEAN /\ pass.done \subseteq Mutations
         /\ Todo = MutationsOf(pass.todo) /\ Done = pass.done
         /\ pass.todo # <<>> =>
              /\ Item \in QueueItem /\ Item.m \in Mutations
              /\ Item.attempts \in 0 .. MaxAttempts - 1
              /\ Item.m \in Todo
              /\ IsQueue(Tail(pass.todo))
              /\ MutationsOf(Tail(pass.todo)) = Todo \ {Item.m}
  <1>1. pass \in Pass /\ IsQueue(pass.todo)
    BY DEF SyncTypes
  <1>2. Todo = MutationsOf(pass.todo) /\ Done = pass.done
    BY DEF Todo, Done
  <1>3. ASSUME pass.todo # <<>>
        PROVE  /\ Item \in QueueItem /\ Item.m \in Todo
               /\ IsQueue(Tail(pass.todo))
               /\ MutationsOf(Tail(pass.todo)) = Todo \ {Item.m}
    BY <1>1, <1>2, <1>3, QueueTail DEF Item
  <1>4. QED
    BY <1>1, <1>2, <1>3 DEF Pass, QueueItem

\* A pass over items of the file begins when there is none.
LEMMA StepNewPass ==
  ASSUME SyncInvariant, pass = None, asked' \in BOOLEAN,
         NEW kind \in Kinds, NEW items, IsQueue(items), MutationsOf(items) \subseteq Queued,
         pass' = NewPass(kind, items),
         UNCHANGED <<online, live, media, file, requests, stored, history>>
  PROVE  SyncInvariant'
  <1> USE DEF SyncInvariant
  <1>0. UNCHANGED <<queue, runs, settled, discarded, left, spoiled, incidents, orderly>>
    BY DEF file, history
  <1>1. pass' \in Pass
    BY QueueItems DEF NewPass, Pass
  <1>2. pass' # None /\ pass'.todo = items /\ pass'.done = {} /\ pass'.waiting = FALSE
    BY <1>1, ConstantsAssumption DEF NewPass
  <1>3. /\ Todo' = MutationsOf(items) /\ Done' = {}
        /\ Todo = {} /\ Done = {}
    BY <1>2 DEF Todo, Done
  <1>4. Queued' = Queued
    BY <1>0 DEF Queued
  <1>5. /\ KeyedAwaited' = KeyedAwaited /\ Ran' = Ran /\ Requests' = Requests
        /\ NewUntouched' /\ AnswersEarned' /\ OneOrderly'
    BY <1>0, QuietKeeps
  <1>6. SyncTypes'
    BY <1>0, <1>1, <1>2, <1>4 DEF SyncTypes
  <1>7. OneAwaited'
    BY <1>2, <1>5 DEF OneAwaited
  <1>8. QueuedOnly'
    BY <1>3, <1>4 DEF QueuedOnly
  <1>9. MediaKept'
    BY <1>0, <1>3, <1>4, <1>5 DEF MediaKept, Astray
  <1>10. NoneLost'
    BY <1>0, <1>4, <1>5 DEF NoneLost
  <1>11. QED
    BY <1>5, <1>6, <1>7, <1>8, <1>9, <1>10

\* Steps of which the invariant notices nothing.
LEMMA StepUnnoticed ==
  ASSUME SyncInvariant, online' \in BOOLEAN, asked' \in BOOLEAN,
         UNCHANGED <<live, media, pass, file, requests, stored, history>>
  PROVE  SyncInvariant'
  <1> USE DEF SyncInvariant
  <1>0. UNCHANGED <<queue, runs, settled, discarded, left, spoiled, incidents, orderly>>
    BY DEF file, history
  <1>1. /\ Queued' = Queued /\ Todo' = Todo /\ Done' = Done
    BY <1>0 DEF Queued, Todo, Done
  <1>2. /\ KeyedAwaited' = KeyedAwaited /\ Ran' = Ran /\ Requests' = Requests /\ NoNewRequest
        /\ NewUntouched' /\ AnswersEarned' /\ OneOrderly'
    BY <1>0, QuietKeeps
  <1>3. SyncTypes'
    BY <1>0, <1>1 DEF SyncTypes
  <1>4. OneAwaited'
    BY <1>2, AwaitedKept
  <1>5. QueuedOnly' /\ NoneLost'
    BY <1>0, <1>1, <1>2 DEF QueuedOnly, NoneLost
  <1>6. MediaKept'
    BY <1>0, <1>1, <1>2 DEF MediaKept, Astray
  <1>7. QED
    BY <1>2, <1>3, <1>4, <1>5, <1>6

LEMMA StepBeginPass ==
  ASSUME SyncInvariant, BeginPass
  PROVE  SyncInvariant'
  <1>1. /\ pass = None /\ asked' = FALSE
        /\ UNCHANGED <<online, live, media, file, requests, stored, history>>
    BY DEF BeginPass
  <1>2. CASE online /\ queue # <<>>
    <2>1. pass' = NewPass("whole", queue)
      BY <1>2 DEF BeginPass
    <2>2. IsQueue(queue) /\ MutationsOf(queue) \subseteq Queued
      BY RequestFacts DEF SyncInvariant, SyncTypes
    <2>3. QED
      BY <1>1, <2>1, <2>2, StepNewPass DEF Kinds
  <1>3. CASE ~(online /\ queue # <<>>)
    <2>1. pass' = pass
      BY <1>1, <1>3 DEF BeginPass
    <2>2. QED
      BY <1>1, <2>1, StepUnnoticed DEF SyncInvariant, SyncTypes
  <1>4. QED
    BY <1>2, <1>3

LEMMA StepSyncNow ==
  ASSUME SyncInvariant, SyncNow
  PROVE  SyncInvariant'
  <1>1. /\ pass = None /\ pass' = NewPass("whole", queue)
        /\ UNCHANGED <<online, live, media, asked, file, requests, stored, history>>
    BY DEF SyncNow
  <1>2. IsQueue(queue) /\ MutationsOf(queue) \subseteq Queued /\ asked \in BOOLEAN
    BY RequestFacts DEF SyncInvariant, SyncTypes
  <1>3. QED
    BY <1>1, <1>2, StepNewPass DEF Kinds

LEMMA StepRetryOne ==
  ASSUME SyncInvariant, NEW i \in DOMAIN queue, RetryOne(i)
  PROVE  SyncInvariant'
  <1>1. /\ pass = None /\ pass' = NewPass("single", <<queue[i]>>)
        /\ UNCHANGED <<online, live, media, asked, file, requests, stored, history>>
    BY DEF RetryOne
  <1>2. IsQueue(queue) /\ asked \in BOOLEAN /\ Queued = MutationsOf(queue)
    BY RequestFacts DEF SyncInvariant, SyncTypes
  <1>3. queue[i] \in QueueItem /\ queue[i].m \in Queued
    BY <1>2, QueueItems
  <1>4. IsQueue(<<queue[i]>>) /\ MutationsOf(<<queue[i]>>) \subseteq Queued
    BY <1>3, QueueOne
  <1>5. QED
    BY <1>1, <1>2, <1>4, StepNewPass DEF Kinds

\* A cancelled pass goes on with its present item at most; what it is done with
\* is in the file yet.
LEMMA StepCancel ==
  ASSUME SyncInvariant, Cancel, online' \in BOOLEAN, asked' \in BOOLEAN,
         UNCHANGED <<live, media, file, requests, stored, runs, settled, discarded, orderly>>
  PROVE  SyncInvariant'
  <1> USE DEF SyncInvariant
  <1>1. UNCHANGED <<queue, spoiled>> /\ Queued' = Queued
    BY DEF file, Queued
  <1>2. /\ KeyedAwaited' = KeyedAwaited /\ Ran' = Ran /\ Requests' = Requests
        /\ NewUntouched' /\ AnswersEarned' /\ OneOrderly'
    BY QuietKeeps
  <1>3. pass # None /\ incidents' \in 0 .. MaxIncidents
    BY IncidentFacts DEF Cancel, Waiting, Sending
  <1>4. Done = pass.done /\ Done \subseteq Mutations
    BY <1>3, PassFacts
  <1>5. /\ pass' # None => /\ pass' \in Pass /\ IsQueue(pass'.todo)
                           /\ pass'.todo # <<>> /\ Head(pass'.todo) = Item
                           /\ pass'.waiting = TRUE /\ pass.waiting
        /\ pass' = None => ~Waiting
        /\ Todo' \subseteq Todo /\ Done' \subseteq Done
        /\ left \subseteq left' /\ left' \subseteq Mutations
        /\ Done \subseteq Done' \cup left'
    <2>1. CASE Waiting /\ pass' = pass /\ left' = left
      BY <1>3, <1>4, <2>1, PassFacts DEF Waiting, Sending, Item, Todo, Done, SyncTypes
    <2>2. CASE Waiting /\ pass' = [pass EXCEPT !.kind = "cut", !.todo = <<Item>>] /\ left' = left
      <3>1. /\ pass \in Pass /\ pass.waiting = TRUE /\ Item \in QueueItem /\ Item.m \in Todo
        BY <1>3, <2>2, PassFacts DEF Waiting, Sending
      <3>2. /\ <<Item>> \in Seq(QueueItem) /\ IsQueue(<<Item>>) /\ MutationsOf(<<Item>>) = {Item.m}
            /\ <<Item>> # <<>> /\ Head(<<Item>>) = Item
        BY <3>1, QueueOne
      <3>3. /\ pass' \in Pass /\ pass'.todo = <<Item>> /\ pass'.done = pass.done
            /\ pass'.waiting = TRUE
        BY <2>2, <3>1, <3>2 DEF Pass, Kinds
      <3>4. pass' # None
        BY <3>3, ConstantsAssumption
      <3>5. Todo' = {Item.m} /\ Done' = Done
        BY <1>4, <3>2, <3>3, <3>4 DEF Todo, Done
      <3>6. QED
        BY <2>2, <3>1, <3>2, <3>3, <3>4, <3>5 DEF SyncTypes
    <2>3. CASE ~Waiting /\ pass' = None /\ left' = left \cup pass.done
      BY <1>4, <2>3 DEF Todo, Done, SyncTypes
    <2>4. QED
      BY <2>1, <2>2, <2>3 DEF Cancel
  <1>6. SyncTypes'
    BY <1>1, <1>3, <1>5 DEF SyncTypes
  <1>7. OneAwaited'
    <2>1. CASE pass' = None
      <3>1. ~Waiting
        BY <1>5, <2>1
      <3>2. KeyedAwaited = {}
        BY <1>3, <3>1 DEF OneAwaited, Waiting, Sending
      <3>3. QED
        BY <1>2, <2>1, <3>2 DEF OneAwaited
    <2>2. CASE pass' # None
      <3>1. Item' = Item
        BY <1>5, <2>2 DEF Item
      <3>2. PICK n \in Requests : KeyedAwaited = {n} /\ requests[n].m = Item.m
        BY <1>3, <1>5, <2>2 DEF OneAwaited
      <3>3. QED
        BY <1>2, <1>5, <2>2, <3>1, <3>2 DEF OneAwaited
    <2>3. QED
      BY <2>1, <2>2
  <1>8. QueuedOnly'
    BY <1>1, <1>2, <1>5 DEF QueuedOnly
  <1>9. MediaKept'
    BY <1>1, <1>2, <1>5 DEF MediaKept, Astray
  <1>10. NoneLost'
    BY <1>1, <1>2 DEF NoneLost
  <1>11. QED
    BY <1>2, <1>6, <1>7, <1>8, <1>9, <1>10

LEMMA StepConnection ==
  ASSUME SyncInvariant, Connection
  PROVE  SyncInvariant'
  <1>1. /\ online' \in BOOLEAN /\ asked' \in BOOLEAN
        /\ UNCHANGED <<live, media, file, requests, stored, runs, settled, discarded, orderly>>
    BY DEF Connection, SyncInvariant, SyncTypes
  <1>2. CASE Cancel
    BY <1>1, <1>2, StepCancel
  <1>3. CASE UNCHANGED <<pass, left, incidents>>
    BY <1>1, <1>3, StepUnnoticed DEF history
  <1>4. QED
    BY <1>2, <1>3 DEF Connection

LEMMA StepLeaveScreen ==
  ASSUME SyncInvariant, LeaveScreen
  PROVE  SyncInvariant'
  <1>1. /\ online' \in BOOLEAN /\ asked' \in BOOLEAN
        /\ UNCHANGED <<live, media, file, requests, stored, runs, settled, discarded, orderly>>
    BY DEF LeaveScreen, SyncInvariant, SyncTypes
  <1>2. CASE Cancel
    BY <1>1, <1>2, StepCancel
  <1>3. CASE UNCHANGED <<pass, left, incidents>>
    BY <1>1, <1>3, StepUnnoticed DEF history
  <1>4. QED
    BY <1>2, <1>3 DEF LeaveScreen

LEMMA StepSkipItem ==
  ASSUME SyncInvariant, SkipItem
  PROVE  SyncInvariant'
  <1> USE DEF SyncInvariant
  <1>1. /\ pass # None /\ pass.todo # <<>> /\ ~pass.waiting
        /\ pass' = [pass EXCEPT !.todo = Tail(@)]
        /\ UNCHANGED <<online, live, queue, media, asked, requests, stored>>
        /\ UNCHANGED <<runs, settled, discarded, left, spoiled, incidents, orderly>>
    BY DEF SkipItem, Sending, Waiting, file, history
  <1>2. /\ pass \in Pass /\ Done = pass.done
        /\ IsQueue(Tail(pass.todo)) /\ MutationsOf(Tail(pass.todo)) \subseteq Todo
    BY <1>1, PassFacts
  <1>3. /\ pass' \in Pass /\ pass'.todo = Tail(pass.todo) /\ pass'.done = pass.done
        /\ pass'.waiting = FALSE
    BY <1>1, <1>2, QueueItems DEF Pass
  <1>4. pass' # None
    BY <1>3, ConstantsAssumption
  <1>5. /\ Todo' \subseteq Todo /\ Done' = Done /\ Queued' = Queued
    BY <1>1, <1>2, <1>3, <1>4 DEF Todo, Done, Queued
  <1>6. /\ KeyedAwaited' = KeyedAwaited /\ Ran' = Ran /\ Requests' = Requests
        /\ NewUntouched' /\ AnswersEarned' /\ OneOrderly'
    BY <1>1, QuietKeeps
  <1>7. SyncTypes'
    BY <1>1, <1>2, <1>3, <1>5 DEF SyncTypes
  <1>8. OneAwaited'
    BY <1>1, <1>3, <1>6 DEF OneAwaited
  <1>9. QueuedOnly' /\ NoneLost'
    BY <1>1, <1>5, <1>6 DEF QueuedOnly, NoneLost
  <1>10. MediaKept'
    BY <1>1, <1>5, <1>6 DEF MediaKept, Astray
  <1>11. QED
    BY <1>6, <1>7, <1>8, <1>9, <1>10

LEMMA StepEndPass ==
  ASSUME SyncInvariant, EndPass
  PROVE  SyncInvariant'
  <1> USE DEF SyncInvariant
  <1>1. /\ pass # None /\ pass.todo = <<>> /\ pass' = None
        /\ UNCHANGED <<online, live, media, asked, requests, stored, runs, settled, discarded, orderly>>
    BY DEF EndPass
  <1>2. Done = pass.done /\ Done \subseteq Mutations /\ Todo' = {} /\ Done' = {}
    BY <1>1, PassFacts DEF Todo, Done
  <1>3. /\ IsQueue(queue)' /\ spoiled \subseteq spoiled' /\ left \subseteq left'
        /\ spoiled' \cup left' \subseteq Mutations
        /\ incidents' \in 0 .. MaxIncidents
        /\ \A m \in Queued' : live[m] = "queued"
        /\ Queued' \ Queued \subseteq spoiled'
        /\ Queued' \cap Done \subseteq left'
        /\ Queued \ Queued' \subseteq spoiled' \cup Done
    <2>1. CASE pass.kind = "cut" \/ Done = {}
      <3>1. left' = left \cup Done /\ UNCHANGED <<queue, spoiled, incidents>>
        BY <1>2, <2>1 DEF EndPass, file
      <3>2. QED
        BY <1>2, <3>1 DEF SyncTypes, QueuedOnly, Queued
    <2>2. CASE ~(pass.kind = "cut" \/ Done = {})
      <3>1. PICK seen \in Views : Save(seen, Without(seen, Done)) /\ left' = left
        BY <1>2, <2>2 DEF EndPass, DoneItems
      <3>2. IsQueue(Without(seen, Done)) /\ MutationsOf(Without(seen, Done)) = MutationsOf(seen) \ Done
        BY ViewFacts, QueueWithout
      <3>3. QED
        BY <3>1, <3>2, SaveFacts, ViewFacts DEF SyncTypes
    <2>3. QED
      BY <2>1, <2>2
  <1>4. /\ KeyedAwaited' = KeyedAwaited /\ Ran' = Ran /\ Requests' = Requests
        /\ NewUntouched' /\ AnswersEarned' /\ OneOrderly'
    BY <1>1, QuietKeeps
  <1>5. SyncTypes'
    BY <1>1, <1>3 DEF SyncTypes
  <1>6. OneAwaited'
    BY <1>1, <1>4 DEF OneAwaited
  <1>7. QueuedOnly' /\ NoneLost'
    BY <1>1, <1>2, <1>3, <1>4 DEF QueuedOnly, NoneLost
  <1>8. MediaKept'
    BY <1>1, <1>2, <1>3, <1>4 DEF MediaKept, Astray
  <1>9. QED
    BY <1>4, <1>5, <1>6, <1>7, <1>8

LEMMA StepDiscard ==
  ASSUME SyncInvariant, NEW i \in DOMAIN queue, Discard(i)
  PROVE  SyncInvariant'
  <1> USE DEF SyncInvariant
  <1> DEFINE m == queue[i].m
  <1>1. /\ media' = media \ {m}
        /\ discarded' = discarded \cup {m}
        /\ UNCHANGED <<online, live, asked, pass, requests, stored, runs, settled, left, orderly>>
    BY DEF Discard
  <1>2. m \in Mutations
    BY QueueItems DEF SyncTypes
  <1>3. PICK seen \in Views : Save(seen, Without(seen, {m}))
    BY DEF Discard
  <1> HIDE DEF m
  <1>4. /\ IsQueue(queue)' /\ Queued' = MutationsOf(seen) \ {m}
        /\ \A k \in MutationsOf(seen) : live[k] = "queued"
        /\ spoiled' \subseteq Mutations /\ spoiled \subseteq spoiled'
        /\ Queued \ MutationsOf(seen) \subseteq spoiled'
        /\ MutationsOf(seen) \ Queued \subseteq spoiled'
        /\ incidents' \in 0 .. MaxIncidents
    <2>1. IsQueue(Without(seen, {m})) /\ MutationsOf(Without(seen, {m})) = MutationsOf(seen) \ {m}
      BY ViewFacts, QueueWithout
    <2>2. QED
      BY <1>3, <2>1, SaveFacts, ViewFacts
  <1>5. Todo' = Todo /\ Done' = Done
    BY <1>1 DEF Todo, Done
  <1>6. /\ KeyedAwaited' = KeyedAwaited /\ Ran' = Ran /\ Requests' = Requests /\ NoNewRequest
        /\ NewUntouched' /\ AnswersEarned' /\ OneOrderly'
    BY <1>1, QuietKeeps
  <1>7. SyncTypes'
    BY <1>1, <1>2, <1>4 DEF SyncTypes
  <1>8. OneAwaited'
    BY <1>1, <1>6, AwaitedKept
  <1>9. QueuedOnly' /\ NoneLost'
    BY <1>1, <1>4, <1>5, <1>6 DEF QueuedOnly, NoneLost
  <1>10. MediaKept'
    BY <1>1, <1>4, <1>5, <1>6 DEF MediaKept, Astray
  <1>11. QED
    BY <1>6, <1>7, <1>8, <1>9, <1>10

LEMMA StepSendItem ==
  ASSUME SyncInvariant, SendItem
  PROVE  SyncInvariant'
  <1> USE DEF SyncInvariant
  <1> DEFINE m == Item.m
             body == Body(Item.m)
  <1>1. /\ pass # None /\ pass.todo # <<>> /\ ~pass.waiting
        /\ Send(m, TRUE, body)
        /\ pass' = [pass EXCEPT !.waiting = TRUE]
        /\ UNCHANGED <<online, live, queue, media, asked, stored, runs, settled, discarded, left, spoiled, incidents>>
    BY DEF SendItem, Sending, Waiting, file
  <1>2. /\ pass \in Pass /\ Done = pass.done /\ m \in Mutations /\ m \in Todo
        /\ IsQueue(pass.todo) /\ Todo = MutationsOf(pass.todo)
    BY <1>1, PassFacts
  <1>3. body \in Bodies /\ (body = "broken" => m \in WithMedia /\ m \notin media)
    BY DEF Body, Bodies
  <1>4. live[m] = "queued"
    BY <1>2 DEF QueuedOnly
  <1>5. pass' \in Pass /\ pass'.todo = pass.todo /\ pass'.done = pass.done /\ pass'.waiting
    BY <1>1, <1>2 DEF Pass
  <1>6. pass' # None
    BY <1>5, ConstantsAssumption
  <1>7. Item' = Item
    BY <1>5 DEF Item
  <1> HIDE DEF m, body
  <1>8. PICK n \in Slots \ Requests :
           /\ requests' \in [Slots -> Request \cup {None}]
           /\ Requests' = Requests \cup {n}
           /\ \A k \in Requests : requests'[k] = requests[k]
           /\ requests'[n] = [m |-> m, keyed |-> TRUE, body |-> body, stage |-> "sent",
                              awaited |-> TRUE, storing |-> FALSE]
    BY <1>1, <1>2, <1>3, SendFacts
  <1>9. /\ orderly' \subseteq orderly
        /\ m \in orderly' => /\ \A k \in Requests : requests[k].m # m
                             /\ runs[m] > 0 => stored[m] # None
    BY <1>1 DEF Send
  <1>10. /\ Queued' = Queued /\ Todo' = Todo /\ Done' = Done /\ Ran' = Ran
    BY <1>1, <1>2, <1>5, <1>6 DEF Queued, Todo, Done, Ran
  <1>11. SyncTypes'
    BY <1>1, <1>2, <1>5, <1>8, <1>9, <1>10 DEF SyncTypes
  <1>12. OneAwaited'
    <2>1. KeyedAwaited = {}
      BY <1>1 DEF OneAwaited
    <2>2. KeyedAwaited' = {n}
      BY <1>8, <2>1 DEF KeyedAwaited
    <2>3. n \in Requests' /\ requests'[n].m = Item'.m
      BY <1>7, <1>8 DEF m
    <2>4. QED
      BY <1>1, <1>5, <1>6, <2>2, <2>3 DEF OneAwaited
  <1>13. QueuedOnly'
    BY <1>1, <1>10 DEF QueuedOnly
  <1>14. NewUntouched'
    BY <1>1, <1>4, <1>8 DEF NewUntouched
  <1>15. AnswersEarned'
    BY <1>1, <1>8 DEF AnswersEarned
  <1>16. OneOrderly'
    <2>1. \A k \in Requests' : k = n \/ (k \in Requests /\ requests'[k] = requests[k])
      <3>1. \A k \in Requests' : k = n \/ k \in Requests
        BY <1>8
      <3>2. \A k \in Requests : requests'[k] = requests[k]
        BY <1>8
      <3>3. QED
        BY <3>1, <3>2
    <2>2. runs[m] \in 0 .. 2
      BY <1>2 DEF SyncTypes
    <2>3. \A k, h \in Requests' : requests'[k].m = requests'[h].m /\ requests'[k].m \in orderly' => k = h
      BY <1>8, <1>9, <2>1 DEF OneOrderly
    <2>4. ASSUME NEW k \in Requests', requests'[k].m \in orderly', requests'[k].stage \in {"sent", "run"}
          PROVE  \/ runs'[requests'[k].m] = 0
                 \/ /\ requests'[k].stage = "sent" /\ requests'[k].keyed
                    /\ stored'[requests'[k].m] # None
      <3>1. CASE k = n
        BY <1>1, <1>8, <1>9, <2>2, <2>4, <3>1
      <3>2. CASE k # n
        BY <1>1, <1>9, <2>1, <2>4, <3>2 DEF OneOrderly
      <3>3. QED
        BY <3>1, <3>2
    <2>5. \A h \in orderly' : runs'[h] <= 1
      BY <1>1, <1>9 DEF OneOrderly
    <2>6. QED
      BY <2>3, <2>4, <2>5 DEF OneOrderly
  <1>17. MediaKept'
    <2>1. body = "broken" => m \in Astray
      BY <1>2, <1>3 DEF MediaKept
    <2>2. QED
      BY <1>1, <1>8, <1>10, <2>1 DEF MediaKept, Astray
  <1>18. NoneLost'
    BY <1>1, <1>10 DEF NoneLost
  <1>19. QED
    BY <1>11, <1>12, <1>13, <1>14, <1>15, <1>16, <1>17, <1>18

\* The phone has the answer to the item it sends: it waits for no other.
LEMMA AnswerTaken ==
  ASSUME SyncInvariant, Waiting, NEW n \in Awaited(Item.m, TRUE), Leave(n),
         UNCHANGED <<stored, runs, orderly>>
  PROVE  NoNewRequest /\ KeyedAwaited' = {} /\ AnswersEarned' /\ OneOrderly'
  <1>1. n \in Requests /\ n \in KeyedAwaited
    BY DEF Awaited, KeyedAwaited
  <1>2. \E k \in Requests : KeyedAwaited = {k}
    BY DEF Waiting, Sending, SyncInvariant, OneAwaited
  <1>3. KeyedAwaited \ {n} = {}
    BY <1>1, <1>2
  <1>4. QED
    BY <1>1, <1>3, LeaveKeeps

\* The item's turn ends for good: it was done, refused or given up.
LEMMA ItemFinished ==
  ASSUME SyncInvariant, Sending, Finish(Item.m),
         NoNewRequest, KeyedAwaited' = {}, AnswersEarned', OneOrderly',
         settled' \in {settled, settled \cup {Item.m}}, Item.m \in settled' \cup Ran,
         UNCHANGED <<online, live, asked, stored, runs, discarded, left, orderly>>
  PROVE  SyncInvariant'
  <1> USE DEF SyncInvariant
  <1> DEFINE m == Item.m
  <1>1. pass # None /\ pass.todo # <<>>
    BY DEF Sending
  <1>2. /\ media' = media \ {m}
        /\ \/ /\ pass' = [pass EXCEPT !.todo = Tail(@), !.waiting = FALSE]
              /\ \E seen \in Views : Save(seen, Without(seen, {m}))
           \/ /\ pass' = [pass EXCEPT !.todo = Tail(@), !.done = @ \cup {m}, !.waiting = FALSE]
              /\ UNCHANGED <<file, incidents>>
    BY DEF Finish
  <1>3. /\ pass \in Pass /\ Done = pass.done /\ m \in Mutations /\ m \in Todo
        /\ IsQueue(Tail(pass.todo)) /\ MutationsOf(Tail(pass.todo)) = Todo \ {m}
    BY <1>1, PassFacts
  <1> HIDE DEF m
  <1>4. /\ pass' \in Pass /\ pass'.todo = Tail(pass.todo) /\ pass'.waiting = FALSE
        /\ \/ /\ pass'.done = Done
              /\ \E seen \in Views : Save(seen, Without(seen, {m}))
           \/ pass'.done = Done \cup {m} /\ UNCHANGED <<file, incidents>>
    <2>1. Tail(pass.todo) \in Seq(QueueItem)
      BY <1>3, QueueItems
    <2>2. CASE /\ pass' = [pass EXCEPT !.todo = Tail(@), !.waiting = FALSE]
               /\ \E seen \in Views : Save(seen, Without(seen, {m}))
      BY <1>3, <2>1, <2>2 DEF Pass
    <2>3. CASE /\ pass' = [pass EXCEPT !.todo = Tail(@), !.done = @ \cup {m}, !.waiting = FALSE]
               /\ UNCHANGED <<file, incidents>>
      BY <1>3, <2>1, <2>3 DEF Pass
    <2>4. QED
      BY <1>2, <2>2, <2>3
  <1>5. pass' # None
    BY <1>4, ConstantsAssumption
  <1>6. /\ Todo' = Todo \ {m} /\ Ran' = Ran /\ Done' = pass'.done
        /\ Done \subseteq Done' /\ Done' \subseteq Done \cup {m}
    BY <1>3, <1>4, <1>5 DEF Todo, Done, Ran
  <1>7. /\ IsQueue(queue)' /\ spoiled \subseteq spoiled' /\ spoiled' \subseteq Mutations
        /\ incidents' \in 0 .. MaxIncidents
        /\ \A k \in Queued' : live[k] = "queued"
        /\ Queued' \ Queued \subseteq spoiled'
        /\ Queued \ Queued' \subseteq spoiled' \cup {m}
        /\ Queued' \cap {m} \subseteq Done'
    <2>1. CASE UNCHANGED <<file, incidents>> /\ pass'.done = Done \cup {m}
      BY <1>6, <2>1 DEF file, SyncTypes, QueuedOnly, Queued
    <2>2. ASSUME NEW seen \in Views, Save(seen, Without(seen, {m}))
          PROVE  /\ IsQueue(queue)' /\ spoiled \subseteq spoiled' /\ spoiled' \subseteq Mutations
                 /\ incidents' \in 0 .. MaxIncidents
                 /\ \A k \in Queued' : live[k] = "queued"
                 /\ Queued' \ Queued \subseteq spoiled'
                 /\ Queued \ Queued' \subseteq spoiled' \cup {m}
                 /\ Queued' \cap {m} \subseteq Done'
      <3>1. IsQueue(Without(seen, {m})) /\ MutationsOf(Without(seen, {m})) = MutationsOf(seen) \ {m}
        BY ViewFacts, QueueWithout
      <3>2. QED
        BY <2>2, <3>1, SaveFacts, ViewFacts
    <2>3. QED
      BY <1>4, <2>1, <2>2
  <1>8. SyncTypes'
    BY <1>2, <1>3, <1>4, <1>6, <1>7 DEF SyncTypes, NoNewRequest, m
  <1>9. OneAwaited'
    BY <1>4 DEF OneAwaited
  <1>10. QueuedOnly'
    BY <1>3, <1>6, <1>7 DEF QueuedOnly, m
  <1>11. NewUntouched'
    BY DEF NewUntouched, NoNewRequest
  <1>12. MediaKept'
    BY <1>2, <1>6, <1>7 DEF MediaKept, Astray, NoNewRequest
  <1>13. NoneLost'
    BY <1>6, <1>7 DEF NoneLost, m
  <1>14. QED
    BY <1>8, <1>9, <1>10, <1>11, <1>12, <1>13

LEMMA StepFinishItem ==
  ASSUME SyncInvariant, FinishItem
  PROVE  SyncInvariant'
  <1>1. PICK n \in Awaited(Item.m, TRUE) :
          /\ requests[n].stage \in {"ok", "refused"}
          /\ settled' = IF requests[n].stage = "refused" THEN settled \cup {Item.m} ELSE settled
          /\ Leave(n)
    BY DEF FinishItem
  <1>2. /\ Waiting /\ Sending /\ Finish(Item.m)
        /\ UNCHANGED <<online, live, asked, stored, runs, discarded, left, orderly>>
    BY DEF FinishItem, Waiting
  <1>3. NoNewRequest /\ KeyedAwaited' = {} /\ AnswersEarned' /\ OneOrderly'
    BY <1>1, <1>2, AnswerTaken
  <1>4. n \in Requests /\ requests[n].m = Item.m
    BY DEF Awaited
  <1>5. Item.m \in Mutations
    BY <1>4, RequestFacts DEF SyncInvariant
  <1>6. Item.m \in settled' \cup Ran
    BY <1>1, <1>4, <1>5 DEF SyncInvariant, AnswersEarned, Ran
  <1>7. settled' \in {settled, settled \cup {Item.m}}
    BY <1>1
  <1>8. QED
    BY <1>2, <1>3, <1>6, <1>7, ItemFinished

LEMMA UpsertFacts ==
  ASSUME NEW q, IsQueue(q), NEW item \in QueueItem
  PROVE  IsQueue(Upsert(q, item)) /\ MutationsOf(Upsert(q, item)) = MutationsOf(q) \cup {item.m}
  <1>1. CASE item.m \in MutationsOf(q)
    <2> DEFINE t == [i \in DOMAIN q |-> IF q[i].m = item.m THEN item ELSE q[i]]
    <2>1. Upsert(q, item) = t
      BY <1>1 DEF Upsert
    <2>2. IsQueue(t) /\ MutationsOf(t) = MutationsOf(q)
      BY QueueReplace
    <2> HIDE DEF t
    <2>3. QED
      BY <1>1, <2>1, <2>2
  <1>2. CASE item.m \notin MutationsOf(q)
    <2>1. Upsert(q, item) = Append(q, item)
      BY <1>2 DEF Upsert
    <2>2. QED
      BY <1>2, <2>1, QueueAppend
  <1>3. QED
    BY <1>1, <1>2

\* The item's turn ends for now: it stays in the file with one attempt more.
LEMMA ItemPutBack ==
  ASSUME SyncInvariant, Sending, Item.attempts + 1 < MaxAttempts,
         NoNewRequest, KeyedAwaited' = {}, AnswersEarned', OneOrderly',
         NEW seen \in Views,
         Save(seen, Upsert(seen, [m |-> Item.m, attempts |-> Item.attempts + 1])),
         pass' = [pass EXCEPT !.todo = Tail(@), !.waiting = FALSE],
         UNCHANGED <<online, live, media, asked, stored, runs, settled, discarded, left, orderly>>
  PROVE  SyncInvariant'
  <1> USE DEF SyncInvariant
  <1> DEFINE m == Item.m
             item == [m |-> Item.m, attempts |-> Item.attempts + 1]
  <1>1. pass # None /\ pass.todo # <<>>
    BY DEF Sending
  <1>2. /\ pass \in Pass /\ Done = pass.done /\ m \in Mutations /\ m \in Todo
        /\ Item.attempts \in 0 .. MaxAttempts - 1
        /\ IsQueue(Tail(pass.todo)) /\ MutationsOf(Tail(pass.todo)) = Todo \ {m}
    BY <1>1, PassFacts
  <1>3. item \in QueueItem
    BY <1>2, Counts DEF QueueItem
  <1>4. /\ IsQueue(queue)' /\ Queued' = MutationsOf(seen) \cup {m}
        /\ \A k \in MutationsOf(seen) : live[k] = "queued"
        /\ spoiled' \subseteq Mutations /\ spoiled \subseteq spoiled'
        /\ Queued \ MutationsOf(seen) \subseteq spoiled'
        /\ MutationsOf(seen) \ Queued \subseteq spoiled'
        /\ incidents' \in 0 .. MaxIncidents
    <2>1. IsQueue(Upsert(seen, item)) /\ MutationsOf(Upsert(seen, item)) = MutationsOf(seen) \cup {m}
      BY <1>3, ViewFacts, UpsertFacts
    <2>2. QED
      BY <2>1, SaveFacts, ViewFacts
  <1> HIDE DEF m, item
  <1>5. /\ pass' \in Pass /\ pass'.todo = Tail(pass.todo) /\ pass'.done = Done
        /\ pass'.waiting = FALSE
    <2>1. Tail(pass.todo) \in Seq(QueueItem)
      BY <1>2, QueueItems
    <2>2. QED
      BY <1>2, <2>1 DEF Pass
  <1>6. pass' # None
    BY <1>5, ConstantsAssumption
  <1>7. /\ Todo' = Todo \ {m} /\ Done' = Done /\ Ran' = Ran
    BY <1>2, <1>5, <1>6 DEF Todo, Done, Ran
  <1>8. SyncTypes'
    BY <1>2, <1>4, <1>5, <1>7 DEF SyncTypes, NoNewRequest
  <1>9. OneAwaited'
    BY <1>5 DEF OneAwaited
  <1>10. QueuedOnly'
    BY <1>2, <1>4, <1>7 DEF QueuedOnly
  <1>11. NewUntouched'
    BY DEF NewUntouched, NoNewRequest
  <1>12. MediaKept'
    BY <1>2, <1>4, <1>7 DEF MediaKept, Astray, NoNewRequest
  <1>13. NoneLost'
    BY <1>4, <1>7 DEF NoneLost
  <1>14. QED
    BY <1>8, <1>9, <1>10, <1>11, <1>12, <1>13

LEMMA StepFailItem ==
  ASSUME SyncInvariant, FailItem
  PROVE  SyncInvariant'
  <1> DEFINE tried == Item.attempts + 1
  <1>1. /\ Sending
        /\ UNCHANGED <<online, live, asked, stored, runs, discarded, left, orderly>>
    BY DEF FailItem
  <1>2. NoNewRequest /\ KeyedAwaited' = {} /\ AnswersEarned' /\ OneOrderly'
    <2>1. CASE Waiting
      <3>1. PICK n \in Awaited(Item.m, TRUE) : Leave(n)
        BY <2>1 DEF FailItem
      <3>2. QED
        BY <1>1, <2>1, <3>1, AnswerTaken
    <2>2. CASE ~Waiting
      <3>1. UNCHANGED requests
        BY <2>2 DEF FailItem
      <3>2. KeyedAwaited = {}
        BY <1>1, <2>2 DEF Waiting, Sending, SyncInvariant, OneAwaited
      <3>3. NoNewRequest /\ KeyedAwaited' = KeyedAwaited /\ AnswersEarned' /\ OneOrderly'
        BY <1>1, <3>1, QuietKeeps
      <3>4. QED
        BY <3>2, <3>3
    <2>3. QED
      BY <2>1, <2>2
  <1>3. CASE tried >= MaxAttempts
    <2>1. Finish(Item.m) /\ settled' = settled \cup {Item.m}
      BY <1>3 DEF FailItem
    <2>2. QED
      BY <1>1, <1>2, <2>1, ItemFinished
  <1>4. CASE ~(tried >= MaxAttempts)
    <2>1. /\ \E seen \in Views :
               Save(seen, Upsert(seen, [m |-> Item.m, attempts |-> Item.attempts + 1]))
          /\ pass' = [pass EXCEPT !.todo = Tail(@), !.waiting = FALSE]
          /\ UNCHANGED <<media, settled>>
      BY <1>4 DEF FailItem, KeptMedia
    <2>2. Item.attempts + 1 < MaxAttempts
      BY <1>1, <1>4, PassFacts, Counts DEF Sending, SyncInvariant
    <2>3. QED
      BY <1>1, <1>2, <2>1, <2>2, ItemPutBack
  <1>5. QED
    BY <1>3, <1>4

\* The app dies: what it had begun is forgotten, the file may be, the server
\* stays.
LEMMA StepDie ==
  ASSUME SyncInvariant, Die
  PROVE  SyncInvariant'
  <1> USE DEF SyncInvariant
  <1>1. /\ Incident
        /\ incidents' = incidents + 1 /\ pass' = None /\ asked' = online
        /\ spoiled' = spoiled \cup Apart(queue, queue')
        /\ left' = left \cup (media \ media') \cup Done
        /\ live' = [m \in Mutations |-> IF live[m] = "sent" THEN "over" ELSE live[m]]
        /\ requests' = [n \in Slots |->
             IF n \in Requests THEN Unawaited(requests[n]) ELSE None]
        /\ UNCHANGED <<online, stored, runs, settled, discarded, orderly>>
    BY DEF Die, Done
  <1>2. \A n \in Requests : /\ n \in Slots /\ requests[n] \in Request
                            /\ Unawaited(requests[n]) \in {None, [requests[n] EXCEPT !.awaited = FALSE]}
    BY RequestFacts DEF Unawaited, Kept
  <1>3. \A n \in Requests :
          LET r == [requests[n] EXCEPT !.awaited = FALSE]
          IN  /\ r \in Request /\ r.awaited = FALSE
              /\ r.m = requests[n].m /\ r.body = requests[n].body /\ r.keyed = requests[n].keyed
              /\ r.stage = requests[n].stage /\ r.storing = requests[n].storing
    BY <1>2 DEF Request
  <1>4. requests' \in [Slots -> Request \cup {None}]
    BY <1>1, <1>2, <1>3
  <1>5. ASSUME NEW k \in Requests'
        PROVE  /\ k \in Requests
               /\ requests'[k] = [requests[k] EXCEPT !.awaited = FALSE]
    <2>1. k \in Slots /\ requests'[k] # None
      BY DEF Requests, Slots
    <2>2. QED
      BY <1>1, <1>2, <2>1
  <1>6. \A k \in Requests' : /\ k \in Requests
                             /\ requests'[k].m = requests[k].m
                             /\ requests'[k].body = requests[k].body
                             /\ requests'[k].keyed = requests[k].keyed
                             /\ requests'[k].stage = requests[k].stage
                             /\ requests'[k].storing = requests[k].storing
                             /\ ~requests'[k].awaited
    BY <1>3, <1>5
  <1>7. /\ Todo' = {} /\ Done' = {} /\ Ran' = Ran
        /\ IsQueue(queue)' /\ Queued' \subseteq Queued /\ Queued \ Queued' \subseteq spoiled'
        /\ media' \subseteq media /\ media \ media' \subseteq left'
        /\ Done \subseteq left' /\ left \subseteq left'
        /\ spoiled \subseteq spoiled' /\ left' \cup spoiled' \subseteq Mutations
    <2>1. Todo' = {} /\ Done' = {} /\ Ran' = Ran
      BY <1>1 DEF Todo, Done, Ran
    <2>2. Apart(queue, queue') = (Queued \ Queued') \cup (Queued' \ Queued)
      BY DEF Apart, Queued
    <2>3. queue' \in {queue, <<>>} /\ media' \subseteq media
      BY DEF Die
    <2>4. IsQueue(queue)' /\ Queued' \subseteq Queued
      BY <2>3, QueueEmpty DEF Queued, SyncTypes
    <2>5. Done \subseteq Mutations /\ Queued \subseteq Mutations /\ media \subseteq Mutations
      <3>1. Done \subseteq Mutations
        BY PassFacts DEF Done
      <3>2. media \subseteq Mutations
        BY ConstantsAssumption DEF SyncTypes
      <3>3. QED
        BY <3>1, <3>2, RequestFacts
    <2>6. QED
      BY <1>1, <2>1, <2>2, <2>3, <2>4, <2>5 DEF SyncTypes
  <1>8. /\ live' \in [Mutations -> {"new", "sent", "queued", "over"}]
        /\ \A m \in Mutations : live'[m] = "new" => live[m] = "new"
        /\ \A m \in Mutations : live'[m] = "queued" <=> live[m] = "queued"
    BY <1>1 DEF SyncTypes
  <1>9. incidents' \in 0 .. MaxIncidents
    BY <1>1, IncidentFacts
  <1>10. SyncTypes'
    BY <1>1, <1>4, <1>7, <1>8, <1>9 DEF SyncTypes
  <1>11. OneAwaited'
    BY <1>1, <1>6 DEF OneAwaited, KeyedAwaited
  <1>12. QueuedOnly'
    BY <1>7, <1>8, RequestFacts DEF QueuedOnly
  <1>13. NewUntouched'
    BY <1>1, <1>6, <1>8, RequestFacts DEF NewUntouched
  <1>14. AnswersEarned'
    BY <1>1, <1>6 DEF AnswersEarned
  <1>15. OneOrderly'
    BY <1>1, <1>6 DEF OneOrderly
  <1>16. MediaKept'
    BY <1>1, <1>6, <1>7 DEF MediaKept, Astray
  <1>17. NoneLost'
    BY <1>1, <1>7, <1>8 DEF NoneLost
  <1>18. QED
    BY <1>10, <1>11, <1>12, <1>13, <1>14, <1>15, <1>16, <1>17

-----------------------------------------------------------------------------
(* The steps of the API.                                                   *)

\* A step of the API leaves the phone alone; mutations are done for requests
\* there are, and with the bodies these carry.
LEMMA ApiStep ==
  ASSUME SyncInvariant, NoNewRequest, KeyedAwaited' = KeyedAwaited,
         UNCHANGED <<phone, file, settled, discarded, left, incidents>>,
         stored' \in [Mutations -> Bodies \cup {None}],
         runs' \in [Mutations -> 0 .. 2],
         \A m \in Mutations : runs[m] > 0 => runs'[m] > 0,
         \A m \in Mutations : runs'[m] = runs[m] \/ \E n \in Requests : requests[n].m = m,
         orderly' \subseteq orderly,
         AnswersEarned', OneOrderly'
  PROVE  SyncInvariant'
  <1> USE DEF SyncInvariant
  <1>1. UNCHANGED <<online, live, media, asked, pass, queue, spoiled>>
    BY DEF phone, file
  <1>2. Queued' = Queued /\ Todo' = Todo /\ Done' = Done
    BY <1>1 DEF Queued, Todo, Done
  <1>3. Ran \subseteq Ran'
    BY DEF Ran
  <1>5. SyncTypes'
    BY <1>1, <1>2 DEF SyncTypes, NoNewRequest
  <1>6. OneAwaited'
    BY <1>1, AwaitedKept
  <1>7. QueuedOnly'
    BY <1>1, <1>2, <1>3 DEF QueuedOnly
  <1>8. NewUntouched'
    BY <1>1 DEF NewUntouched, NoNewRequest
  <1>9. MediaKept'
    BY <1>1, <1>2 DEF MediaKept, Astray, NoNewRequest
  <1>10. NoneLost'
    BY <1>1, <1>2, <1>3 DEF NoneLost
  <1>11. QED
    BY <1>5, <1>6, <1>7, <1>8, <1>9, <1>10

\* A request moves to another stage, and nothing else of it changes that the
\* phone could see.
LEMMA PutMoves ==
  ASSUME SyncTypes, NEW n \in Requests, NEW r \in Request, Put(n, r),
         r.m = requests[n].m, r.body = requests[n].body,
         r.keyed = requests[n].keyed, r.awaited = requests[n].awaited
  PROVE  /\ NoNewRequest /\ KeyedAwaited' = KeyedAwaited
         /\ \A k \in Requests' : k \in Requests /\ (k # n => requests'[k] = requests[k])
         /\ n \in Requests' => requests'[n] = r
  <1>1. /\ requests' \in [Slots -> Request \cup {None}]
        /\ Requests' \subseteq Requests
        /\ \A k \in Requests' : k # n => requests'[k] = requests[k]
        /\ n \in Requests' => requests'[n] = r
        /\ \A k \in Requests : k # n => k \in Requests'
        /\ r.awaited => n \in Requests'
    BY PutFacts DEF Put
  <1>2. NoNewRequest
    BY <1>1 DEF NoNewRequest
  <1>3. KeyedAwaited' = KeyedAwaited
    BY <1>1 DEF KeyedAwaited
  <1>4. QED
    BY <1>1, <1>2, <1>3

LEMMA StepLookUp ==
  ASSUME SyncInvariant, NEW n \in Requests, LookUp(n)
  PROVE  SyncInvariant'
  <1> USE DEF SyncInvariant
  <1> DEFINE q == requests[n]
             answer == IF ~Found(q) THEN "run" ELSE IF stored[q.m] = q.body THEN "ok" ELSE "refused"
             r == [q EXCEPT !.stage = answer]
  <1>1. /\ q.stage = "sent" /\ Put(n, r)
        /\ UNCHANGED <<phone, file, stored, runs, settled, discarded, left, incidents, orderly>>
    BY DEF LookUp, history
  <1>2. q \in Request /\ q.m \in Mutations
    BY RequestFacts
  <1>3. /\ r \in Request /\ r.m = q.m /\ r.body = q.body /\ r.keyed = q.keyed
        /\ r.awaited = q.awaited /\ r.storing = q.storing /\ r.stage = answer
    BY <1>2 DEF Request
  <1>4. /\ answer \in {"run", "ok", "refused"}
        /\ answer = "run" <=> ~(q.keyed /\ stored[q.m] # None)
    BY DEF Found
  <1>5. q.storing => q.stage = "ok"
    BY DEF AnswersEarned
  <1> HIDE DEF answer, r
  <1>6. /\ NoNewRequest /\ KeyedAwaited' = KeyedAwaited
        /\ \A k \in Requests' : k \in Requests /\ (k # n => requests'[k] = requests[k])
        /\ n \in Requests' => requests'[n] = r
    BY <1>1, <1>3, PutMoves
  <1>7. AnswersEarned'
    <2>1. answer = "ok" => runs[q.m] > 0
      BY <1>2, <1>4 DEF AnswersEarned
    <2>2. ASSUME NEW k \in Requests'
          PROVE  /\ requests'[k].storing => requests'[k].stage = "ok"
                 /\ requests'[k].stage = "ok" => runs'[requests'[k].m] > 0
      <3>1. CASE k = n
        BY <1>1, <1>3, <1>5, <1>6, <2>1, <3>1
      <3>2. CASE k # n
        BY <1>1, <1>6, <3>2 DEF AnswersEarned
      <3>3. QED
        BY <3>1, <3>2
    <2>3. \A m \in Mutations : stored'[m] # None => runs'[m] > 0
      BY <1>1 DEF AnswersEarned
    <2>4. QED
      BY <2>2, <2>3 DEF AnswersEarned
  <1>8. OneOrderly'
    <2>1. ASSUME NEW k \in Requests', requests'[k].m \in orderly', requests'[k].stage \in {"sent", "run"}
          PROVE  \/ runs'[requests'[k].m] = 0
                 \/ /\ requests'[k].stage = "sent" /\ requests'[k].keyed
                    /\ stored'[requests'[k].m] # None
      <3>1. CASE k = n
        <4>1. r.stage = "run" /\ q.m \in orderly /\ requests'[k] = r
          BY <1>1, <1>3, <1>4, <1>6, <2>1, <3>1
        <4>2. runs[q.m] = 0
          BY <1>1, <1>3, <1>4, <4>1 DEF OneOrderly
        <4>3. QED
          BY <1>1, <1>3, <4>1, <4>2
      <3>2. CASE k # n
        BY <1>1, <1>6, <2>1, <3>2 DEF OneOrderly
      <3>3. QED
        BY <3>1, <3>2
    <2>2. \A k, h \in Requests' : requests'[k].m = requests'[h].m /\ requests'[k].m \in orderly' => k = h
      BY <1>1, <1>6 DEF OneOrderly, NoNewRequest
    <2>3. QED
      BY <1>1, <2>1, <2>2 DEF OneOrderly
  <1>9. QED
    BY <1>1, <1>6, <1>7, <1>8, ApiStep DEF SyncTypes

LEMMA StepRunHandler ==
  ASSUME SyncInvariant, NEW n \in Requests, RunHandler(n)
  PROVE  SyncInvariant'
  <1> USE DEF SyncInvariant
  <1> DEFINE q == requests[n]
             r == [q EXCEPT !.stage = "ok", !.storing = q.keyed]
  <1>1. /\ q.stage = "run" /\ Put(n, r)
        /\ runs' = [runs EXCEPT ![q.m] = IF @ = 0 THEN 1 ELSE 2]
        /\ UNCHANGED <<phone, file, stored, settled, discarded, left, incidents, orderly>>
    BY DEF RunHandler
  <1>2. q \in Request /\ q.m \in Mutations
    BY RequestFacts
  <1>3. /\ r \in Request /\ r.m = q.m /\ r.body = q.body /\ r.keyed = q.keyed
        /\ r.awaited = q.awaited /\ r.storing = q.keyed /\ r.stage = "ok"
    BY <1>2 DEF Request
  <1>4. /\ runs' \in [Mutations -> 0 .. 2]
        /\ runs'[q.m] = IF runs[q.m] = 0 THEN 1 ELSE 2
        /\ \A m \in Mutations : m # q.m => runs'[m] = runs[m]
    BY <1>1, <1>2 DEF SyncTypes
  <1> HIDE DEF r
  <1>5. /\ NoNewRequest /\ KeyedAwaited' = KeyedAwaited
        /\ \A k \in Requests' : k \in Requests /\ (k # n => requests'[k] = requests[k])
        /\ n \in Requests' => requests'[n] = r
    BY <1>1, <1>3, PutMoves
  <1>6. /\ \A m \in Mutations : runs[m] > 0 => runs'[m] > 0
        /\ \A m \in Mutations : runs'[m] = runs[m] \/ \E k \in Requests : requests[k].m = m
    BY <1>1, <1>4
  <1>7. AnswersEarned'
    <2>1. ASSUME NEW k \in Requests'
          PROVE  /\ requests'[k].storing => requests'[k].stage = "ok"
                 /\ requests'[k].stage = "ok" => runs'[requests'[k].m] > 0
      <3>1. CASE k = n
        BY <1>3, <1>4, <1>5, <3>1
      <3>2. CASE k # n
        <4>1. requests'[k] = requests[k] /\ k \in Requests /\ requests[k].m \in Mutations
          BY <1>5, <3>2, RequestFacts
        <4>2. QED
          BY <1>6, <4>1 DEF AnswersEarned
      <3>3. QED
        BY <3>1, <3>2
    <2>2. \A m \in Mutations : stored'[m] # None => runs'[m] > 0
      BY <1>1, <1>6 DEF AnswersEarned
    <2>3. QED
      BY <2>1, <2>2 DEF AnswersEarned
  <1>8. OneOrderly'
    <2>1. q.m \in orderly => runs[q.m] = 0
      BY <1>1 DEF OneOrderly
    <2>2. ASSUME NEW k \in Requests', requests'[k].m \in orderly', requests'[k].stage \in {"sent", "run"}
          PROVE  \/ runs'[requests'[k].m] = 0
                 \/ /\ requests'[k].stage = "sent" /\ requests'[k].keyed
                    /\ stored'[requests'[k].m] # None
      <3>1. k # n
        BY <1>3, <1>5, <2>2
      <3>2. k \in Requests /\ requests'[k] = requests[k] /\ requests[k].m \in Mutations
        BY <1>5, <3>1, RequestFacts
      <3>3. requests[k].m # q.m
        BY <1>1, <2>2, <3>1, <3>2 DEF OneOrderly
      <3>4. QED
        BY <1>1, <1>4, <2>2, <3>2, <3>3 DEF OneOrderly
    <2>3. \A k, h \in Requests' : requests'[k].m = requests'[h].m /\ requests'[k].m \in orderly' => k = h
      BY <1>1, <1>5 DEF OneOrderly, NoNewRequest
    <2>4. \A m \in orderly' : runs'[m] <= 1
      BY <1>1, <1>4, <2>1 DEF OneOrderly, SyncTypes
    <2>5. QED
      BY <2>2, <2>3, <2>4 DEF OneOrderly
  <1>9. stored' \in [Mutations -> Bodies \cup {None}]
    BY <1>1 DEF SyncTypes
  <1>10. QED
    BY <1>1, <1>4, <1>5, <1>6, <1>7, <1>8, <1>9, ApiStep

LEMMA StepRefuseRequest ==
  ASSUME SyncInvariant, NEW n \in Requests, RefuseRequest(n)
  PROVE  SyncInvariant'
  <1> USE DEF SyncInvariant
  <1>1. PICK answer \in {"refused", "error"} : Put(n, [requests[n] EXCEPT !.stage = answer])
    BY DEF RefuseRequest
  <1> DEFINE q == requests[n]
             r == [q EXCEPT !.stage = answer]
  <1>2. /\ q.stage = "run"
        /\ UNCHANGED <<phone, file, stored, runs, settled, discarded, left, incidents, orderly>>
    BY DEF RefuseRequest, history
  <1>3. /\ r \in Request /\ r.m = q.m /\ r.body = q.body /\ r.keyed = q.keyed
        /\ r.awaited = q.awaited /\ r.storing = q.storing /\ r.stage = answer
    BY RequestFacts DEF Request
  <1>4. ~q.storing
    BY <1>2, RequestFacts DEF AnswersEarned, Request
  <1>5. Put(n, r)
    BY <1>1
  <1> HIDE DEF r
  <1>6. /\ NoNewRequest /\ KeyedAwaited' = KeyedAwaited
        /\ \A k \in Requests' : k \in Requests /\ (k # n => requests'[k] = requests[k])
        /\ n \in Requests' => requests'[n] = r
    BY <1>3, <1>5, PutMoves
  <1>7. AnswersEarned'
    BY <1>2, <1>3, <1>4, <1>6 DEF AnswersEarned
  <1>8. OneOrderly'
    <2>1. \A k \in Requests' : requests'[k].stage \in {"sent", "run"} => k # n
      BY <1>3, <1>6
    <2>2. QED
      BY <1>2, <1>6, <2>1 DEF OneOrderly, NoNewRequest
  <1>9. QED
    BY <1>2, <1>6, <1>7, <1>8, ApiStep DEF SyncTypes

LEMMA StepStoreAnswer ==
  ASSUME SyncInvariant, NEW n \in Requests, StoreAnswer(n)
  PROVE  SyncInvariant'
  <1> USE DEF SyncInvariant
  <1> DEFINE q == requests[n]
             r == [q EXCEPT !.storing = FALSE]
  <1>1. /\ q.storing /\ Put(n, r)
        /\ stored' \in {stored, [stored EXCEPT ![q.m] = q.body]}
        /\ UNCHANGED <<phone, file, runs, settled, discarded, left, incidents, orderly>>
    BY DEF StoreAnswer, history
  <1>2. /\ r \in Request /\ r.m = q.m /\ r.body = q.body /\ r.keyed = q.keyed
        /\ r.awaited = q.awaited /\ r.storing = FALSE /\ r.stage = q.stage
        /\ q.m \in Mutations /\ q.body \in Bodies
    BY RequestFacts DEF Request
  <1>3. q.stage = "ok" /\ runs[q.m] > 0
    BY <1>1 DEF AnswersEarned
  <1>4. /\ stored' \in [Mutations -> Bodies \cup {None}]
        /\ \A m \in Mutations : stored'[m] = stored[m] \/ (m = q.m /\ stored'[m] = q.body)
    BY <1>1, <1>2 DEF SyncTypes
  <1>5. q.body # None
    BY <1>2, ConstantsAssumption
  <1> HIDE DEF r
  <1>6. /\ NoNewRequest /\ KeyedAwaited' = KeyedAwaited
        /\ \A k \in Requests' : k \in Requests /\ (k # n => requests'[k] = requests[k])
        /\ n \in Requests' => requests'[n] = r
    BY <1>1, <1>2, PutMoves
  <1>7. AnswersEarned'
    <2>1. \A m \in Mutations : stored'[m] # None => runs'[m] > 0
      BY <1>1, <1>3, <1>4 DEF AnswersEarned
    <2>2. ASSUME NEW k \in Requests'
          PROVE  /\ requests'[k].storing => requests'[k].stage = "ok"
                 /\ requests'[k].stage = "ok" => runs'[requests'[k].m] > 0
      BY <1>1, <1>2, <1>3, <1>6 DEF AnswersEarned
    <2>3. QED
      BY <2>1, <2>2 DEF AnswersEarned
  <1>8. OneOrderly'
    <2>1. ASSUME NEW k \in Requests', requests'[k].m \in orderly', requests'[k].stage \in {"sent", "run"}
          PROVE  \/ runs'[requests'[k].m] = 0
                 \/ /\ requests'[k].stage = "sent" /\ requests'[k].keyed
                    /\ stored'[requests'[k].m] # None
      <3>1. k # n
        BY <1>2, <1>3, <1>6, <2>1
      <3>2. k \in Requests /\ requests'[k] = requests[k] /\ requests[k].m \in Mutations
        BY <1>6, <3>1, RequestFacts
      <3>3. \/ runs[requests[k].m] = 0
            \/ /\ requests[k].stage = "sent" /\ requests[k].keyed
               /\ stored[requests[k].m] # None
        BY <1>1, <2>1, <3>2 DEF OneOrderly
      <3>4. stored[requests[k].m] # None => stored'[requests[k].m] # None
        BY <1>4, <1>5, <3>2
      <3>5. QED
        BY <1>1, <3>2, <3>3, <3>4, <2>1
    <2>2. \A k, h \in Requests' : requests'[k].m = requests'[h].m /\ requests'[k].m \in orderly' => k = h
      BY <1>1, <1>6 DEF OneOrderly, NoNewRequest
    <2>3. QED
      BY <1>1, <2>1, <2>2 DEF OneOrderly
  <1>9. QED
    BY <1>1, <1>4, <1>6, <1>7, <1>8, ApiStep DEF SyncTypes

LEMMA StepLose ==
  ASSUME SyncInvariant, NEW n \in Requests, Lose(n)
  PROVE  SyncInvariant'
  <1> USE DEF SyncInvariant
  <1>1. /\ ~requests[n].awaited /\ requests' = [requests EXCEPT ![n] = None]
        /\ UNCHANGED <<phone, file, stored, runs, settled, discarded, left, incidents, orderly>>
    BY DEF Lose, history
  <1>2. /\ requests' \in [Slots -> Request \cup {None}]
        /\ requests'[n] = None
        /\ \A k \in Slots : k # n => requests'[k] = requests[k]
    BY <1>1, RequestFacts DEF SyncTypes
  <1>3. Requests' = Requests \ {n} /\ \A k \in Requests' : requests'[k] = requests[k]
    BY <1>2, RequestFacts DEF Requests
  <1>4. NoNewRequest /\ KeyedAwaited' = KeyedAwaited
    BY <1>1, <1>2, <1>3 DEF NoNewRequest, KeyedAwaited
  <1>5. AnswersEarned'
    BY <1>1, <1>3 DEF AnswersEarned
  <1>6. OneOrderly'
    BY <1>1, <1>3 DEF OneOrderly
  <1>7. QED
    BY <1>1, <1>4, <1>5, <1>6, ApiStep DEF SyncTypes

LEMMA StepExpire ==
  ASSUME SyncInvariant, NEW m \in Mutations, Expire(m)
  PROVE  SyncInvariant'
  <1> USE DEF SyncInvariant
  <1>1. /\ stored' = [stored EXCEPT ![m] = None] /\ orderly' = orderly \ {m}
        /\ UNCHANGED <<phone, file, requests, runs, settled, discarded, left, incidents>>
    BY DEF Expire
  <1>2. /\ stored' \in [Mutations -> Bodies \cup {None}]
        /\ stored'[m] = None
        /\ \A k \in Mutations : k # m => stored'[k] = stored[k]
    BY <1>1 DEF SyncTypes
  <1>3. Requests' = Requests /\ KeyedAwaited' = KeyedAwaited
    BY <1>1 DEF Requests, KeyedAwaited
  <1>4. NoNewRequest
    BY <1>1, <1>3 DEF NoNewRequest, SyncTypes
  <1>5. AnswersEarned'
    BY <1>1, <1>2, <1>3 DEF AnswersEarned
  <1>6. OneOrderly'
    BY <1>1, <1>2, <1>3, RequestFacts DEF OneOrderly
  <1>7. /\ runs' \in [Mutations -> 0 .. 2] /\ orderly' \subseteq orderly
        /\ UNCHANGED <<phone, file, settled, discarded, left, incidents>>
    BY <1>1 DEF SyncTypes
  <1>8. /\ \A k \in Mutations : runs[k] > 0 => runs'[k] > 0
        /\ \A k \in Mutations : runs'[k] = runs[k]
    BY <1>1
  <1>9. QED
    BY <1>2, <1>3, <1>4, <1>5, <1>6, <1>7, <1>8, ApiStep

-----------------------------------------------------------------------------
(* OfflineSync: the theorems.                                              *)

LEMMA SyncInit ==
  ASSUME Init
  PROVE  SyncInvariant
  <1> USE DEF Init
  <1>1. Requests = {} /\ KeyedAwaited = {}
    BY DEF Requests, KeyedAwaited
  <1>2. IsQueue(queue) /\ Queued = {} /\ Todo = {} /\ Done = {}
    BY QueueEmpty DEF Queued, MutationsOf, Todo, Done
  <1>4. SyncTypes
    <2>1. /\ requests \in [Slots -> Request \cup {None}]
          /\ stored \in [Mutations -> Bodies \cup {None}]
          /\ runs \in [Mutations -> 0 .. 2]
          /\ live \in [Mutations -> {"new", "sent", "queued", "over"}]
      OBVIOUS
    <2>2. incidents \in 0 .. MaxIncidents
      BY Counts
    <2>3. QED
      BY <1>2, <2>1, <2>2 DEF SyncTypes
  <1>5. OneAwaited /\ QueuedOnly /\ NewUntouched
    BY <1>1, <1>2 DEF OneAwaited, QueuedOnly, NewUntouched
  <1>6. AnswersEarned /\ OneOrderly
    BY <1>1 DEF AnswersEarned, OneOrderly
  <1>7. MediaKept /\ NoneLost
    BY <1>1, <1>2 DEF MediaKept, NoneLost
  <1>8. QED
    BY <1>4, <1>5, <1>6, <1>7 DEF SyncInvariant

LEMMA SyncStutter ==
  ASSUME SyncInvariant, UNCHANGED vars
  PROVE  SyncInvariant'
  BY StepUnnoticed DEF vars, phone, SyncInvariant, SyncTypes

\* The invariant the other results come from: whatever the connection, the
\* user, the phone's deaths and the API's losses do, what is queued, what a
\* pass works on, what the requests carry and what the server keeps fit
\* together.
THEOREM SyncInductive == Spec => []SyncInvariant
  <1>1. Init => SyncInvariant
    BY SyncInit
  <1>2. SyncInvariant /\ [Next]_vars => SyncInvariant'
    <2> SUFFICES ASSUME SyncInvariant, [Next]_vars
                 PROVE  SyncInvariant'
      OBVIOUS
    <2>1. CASE UNCHANGED vars
      BY <2>1, SyncStutter
    <2>2. CASE Screen
      BY <2>2, StepSendLive, StepAnsweredLive, StepEnqueue DEF Screen
    <2>3. CASE User
      BY <2>3, StepSyncNow, StepRetryOne, StepDiscard, StepLeaveScreen DEF User
    <2>4. CASE Coordinator
      BY <2>4, StepBeginPass, StepSkipItem, StepSendItem, StepFinishItem, StepFailItem, StepEndPass
      DEF Coordinator
    <2>5. CASE Connection
      BY <2>5, StepConnection
    <2>6. CASE Die
      BY <2>6, StepDie
    <2>7. CASE API
      BY <2>7, StepLookUp, StepRunHandler, StepRefuseRequest, StepStoreAnswer DEF API
    <2>8. CASE Losses
      BY <2>8, StepLose, StepExpire DEF Losses
    <2>9. QED
      BY <2>1, <2>2, <2>3, <2>4, <2>5, <2>6, <2>7, <2>8 DEF Next
  <1>3. QED
    BY <1>1, <1>2, PTL DEF Spec

\* The queue file never holds a mutation twice nor one out of attempts, and the
\* pass awaits one answer at a time (OfflineMutationQueue.upsert and remove,
\* OfflineSyncCoordinator's mutex).
THEOREM SyncTypeCorrect == Spec => []TypeOK
  <1>1. SyncInvariant => TypeOK
    <2> SUFFICES ASSUME SyncInvariant
                 PROVE  TypeOK
      OBVIOUS
    <2>1. ASSUME pass # None, pass.waiting
          PROVE  Cardinality(Awaited(Item.m, TRUE)) = 1
      <3>1. PICK n \in Requests : KeyedAwaited = {n} /\ requests[n].m = Item.m
        BY <2>1 DEF SyncInvariant, OneAwaited
      <3>2. \A k \in Requests : requests[k].keyed \in BOOLEAN
        BY RequestFacts DEF SyncInvariant, Request
      <3>3. Awaited(Item.m, TRUE) = {n}
        BY <3>1, <3>2 DEF Awaited, KeyedAwaited
      <3>4. QED
        BY <3>3, FS_Singleton
    <2>2. QED
      BY <2>1 DEF SyncInvariant, SyncTypes, TypeOK
  <1>2. QED
    BY <1>1, SyncInductive, PTL

\* A mutation whose requests came one after the other, each with the answer of
\* the one before it in store, is done at most once: the live request without a
\* key, the passes, their retries and the deaths of the app notwithstanding
\* (IdempotencyInterceptor.intercept).
THEOREM OrderlyAtMostOnce == Spec => []OrderlyRunsOnce
  <1>1. SyncInvariant => OrderlyRunsOnce
    BY DEF SyncInvariant, OneOrderly, OrderlyRunsOnce
  <1>2. QED
    BY <1>1, SyncInductive, PTL

\* A mutation the screen was told is queued is in the file until the server did
\* or refused it, the phone gave it up, the user discarded it, or it was spoiled:
\* a death of the app during a save, or a save over that of another queue object,
\* took it from the file (OfflineSyncCoordinator.replay, over a queue that changes
\* meanwhile, and OfflineMutationQueue.save).
THEOREM QueuedKept == Spec => []QueuedIsNotLost
  <1>1. SyncInvariant => QueuedIsNotLost
    BY DEF SyncInvariant, NoneLost, QueuedIsNotLost, Ran
  <1>2. QED
    BY <1>1, SyncInductive, PTL

\* A body is sent without its media only of a mutation the user discarded, one an
\* overlapping save put back, or one that stayed in the file when a cancelled pass
\* or the app ended after its media were deleted (OfflineMediaStore.purgeRefsInBody
\* and expandMediaRefs).
THEOREM MediaReachServer == Spec => []BodiesAreWhole
  <1>1. SyncInvariant => BodiesAreWhole
    BY DEF SyncInvariant, MediaKept, Astray, BodiesAreWhole
  <1>2. QED
    BY <1>1, SyncInductive, PTL

-----------------------------------------------------------------------------
(* OfflineSync implements ChangeLife.                                      *)

Promised == {m \in Mutations : live[m] = "queued"}

\* What a pass works on is in the file, or was discarded or spoiled meanwhile; only
\* queued mutations are settled or discarded.
Traced ==
  /\ Todo \subseteq Queued \cup discarded \cup spoiled
  /\ settled \cup discarded \subseteq Promised

\* One step of ChangeLife, or of nothing it sees.
ChangeStep == Change!Next \/ UNCHANGED Change!vars

LEMMA ChangeInit ==
  ASSUME Init
  PROVE  Change!Init /\ Traced
  <1>1. queue = <<>> /\ Queued = {} /\ Todo = {}
    BY QueueEmpty DEF Init, Queued, MutationsOf, Todo
  <1>2. {m \in Mutations : live[m] = "queued"} = {} /\ {m \in Mutations : stored[m] # None} = {}
    BY DEF Init
  <1>3. /\ runs = [m \in Mutations |-> 0] /\ orderly = Mutations
        /\ settled = {} /\ discarded = {} /\ spoiled = {}
    BY DEF Init
  <1>4. QED
    BY <1>1, <1>2, <1>3 DEF Change!Init, Traced

LEMMA ChangeStutters ==
  ASSUME Promised' = Promised, Queued' = Queued,
         UNCHANGED <<runs, stored, settled, discarded, spoiled, orderly>>
  PROVE  ChangeStep
  BY DEF ChangeStep, Change!vars, Promised

\* A request of m is sent.
LEMMA ChangeSends ==
  ASSUME NEW m \in Mutations, NEW keyed, NEW body, Send(m, keyed, body),
         Promised' = Promised, Queued' = Queued,
         UNCHANGED <<runs, stored, settled, discarded, spoiled>>
  PROVE  ChangeStep
  <1>1. CASE orderly' = orderly
    BY <1>1, ChangeStutters
  <1>2. CASE orderly' = orderly \ {m}
    <2>1. Change!Disorder(m)
      BY <1>2 DEF Change!Disorder, Promised
    <2>2. QED
      BY <2>1 DEF ChangeStep, Change!Next
  <1>3. QED
    BY <1>1, <1>2 DEF Send

\* Steps that take nothing from the file that is not spoiled, settle and discard
\* nothing.
LEMMA TracedKept ==
  ASSUME Traced, Todo' \subseteq Todo, Promised \subseteq Promised',
         Queued \subseteq Queued' \cup spoiled', spoiled \subseteq spoiled',
         UNCHANGED <<settled, discarded>>
  PROVE  Traced'
  BY DEF Traced

\* A save is a write of the changes in it, by who saw those in what was taken for
\* the file.
LEMMA ChangeWrites ==
  ASSUME SyncInvariant, NEW seen \in Views, NEW items, IsQueue(items), Save(seen, items)
  PROVE  /\ MutationsOf(seen) \in SUBSET Promised
         /\ Change!Write(MutationsOf(seen), MutationsOf(items))
         /\ Queued' = MutationsOf(items)
         /\ spoiled \subseteq spoiled' /\ Queued \subseteq MutationsOf(seen) \cup spoiled'
  <1>1. MutationsOf(seen) \in SUBSET Promised
    BY ViewFacts DEF Promised
  <1>2. /\ Queued' = MutationsOf(items)
        /\ spoiled \subseteq spoiled' /\ Queued \ MutationsOf(seen) \subseteq spoiled'
    BY SaveFacts
  <1>3. spoiled' = spoiled \cup Change!Apart(MutationsOf(seen), Queued)
    BY DEF Save, Apart, Queued, Change!Apart
  <1>4. QED
    BY <1>1, <1>2, <1>3 DEF Change!Write

LEMMA ChangeScreen ==
  ASSUME SyncInvariant, Traced, NEW m \in Mutations,
         SendLive(m) \/ AnsweredLive(m) \/ Enqueue(m)
  PROVE  ChangeStep /\ Traced'
  <1>1. CASE SendLive(m)
    <2>1. /\ Send(m, FALSE, "whole")
          /\ live[m] = "new" /\ live' = [live EXCEPT ![m] = "sent"]
          /\ UNCHANGED <<queue, spoiled, pass, stored, runs, settled, discarded>>
      BY <1>1 DEF SendLive, Made, file
    <2>2. Promised' = Promised
      BY <2>1 DEF Promised, SyncInvariant, SyncTypes
    <2>3. Queued' = Queued /\ Todo' = Todo
      BY <2>1 DEF Queued, Todo
    <2>4. QED
      BY <2>1, <2>2, <2>3, ChangeSends, TracedKept
  <1>2. CASE AnsweredLive(m)
    <2>1. /\ live[m] = "sent" /\ live' = [live EXCEPT ![m] = "over"]
          /\ UNCHANGED <<queue, spoiled, pass, stored, runs, settled, discarded, orderly>>
      BY <1>2 DEF AnsweredLive, file, history
    <2>2. Promised' = Promised
      BY <2>1 DEF Promised, SyncInvariant, SyncTypes
    <2>3. Queued' = Queued /\ Todo' = Todo
      BY <2>1 DEF Queued, Todo
    <2>4. QED
      BY <2>1, <2>2, <2>3, ChangeStutters, TracedKept
  <1>3. CASE Enqueue(m)
    <2> DEFINE item == [m |-> m, attempts |-> 0]
    <2>1. /\ live[m] \in {"new", "sent"} /\ live' = [live EXCEPT ![m] = "queued"]
          /\ UNCHANGED <<pass, stored, runs, settled, discarded, orderly>>
      BY <1>3 DEF Enqueue, Made
    <2>2. PICK seen \in Views : Save(seen, Append(seen, item))
      BY <1>3 DEF Enqueue
    <2>3. item \in QueueItem /\ item.m = m
      BY Counts DEF QueueItem
    <2> HIDE DEF item
    <2>4. m \notin Promised /\ Promised' = Promised \cup {m}
      BY <2>1 DEF Promised, SyncInvariant, SyncTypes
    <2>5. m \notin Queued /\ m \notin MutationsOf(seen)
      BY <2>1, ViewFacts DEF SyncInvariant, QueuedOnly
    <2>6. /\ IsQueue(Append(seen, item))
          /\ MutationsOf(Append(seen, item)) = MutationsOf(seen) \cup {m}
      BY <2>3, <2>5, QueueAppend, ViewFacts
    <2>7. PICK S \in SUBSET Promised : S = MutationsOf(seen)
      BY <2>2, <2>6, ChangeWrites
    <2>8. /\ Change!Write(S, S \cup {m}) /\ Queued' = S \cup {m}
          /\ spoiled \subseteq spoiled' /\ Queued \subseteq S \cup spoiled'
      BY <2>2, <2>6, <2>7, ChangeWrites
    <2>9. m \notin settled \cup discarded
      BY <2>4 DEF Traced
    <2>10. Change!Promise(m)
      BY <2>1, <2>4, <2>5, <2>7, <2>8, <2>9 DEF Change!Promise, Promised
    <2>11. Todo' = Todo
      BY <2>1 DEF Todo
    <2>12. ChangeStep
      BY <2>10 DEF ChangeStep, Change!Next
    <2>13. QED
      BY <2>1, <2>4, <2>8, <2>11, <2>12, TracedKept
  <1>4. QED
    BY <1>1, <1>2, <1>3

\* A pass that is cancelled has no more to send than it had.
LEMMA CancelTodo ==
  ASSUME SyncInvariant, Cancel \/ UNCHANGED pass
  PROVE  Todo' \subseteq Todo
  <1>1. CASE UNCHANGED pass
    BY <1>1 DEF Todo
  <1>2. CASE pass' = None
    BY <1>2 DEF Todo
  <1>3. CASE Sending /\ pass' = [pass EXCEPT !.kind = "cut", !.todo = <<Item>>]
    <2>1. pass # None /\ pass.todo # <<>>
      BY <1>3 DEF Sending
    <2>2. pass \in Pass /\ Item \in QueueItem /\ Item.m \in Todo
      <3>1. pass \in Pass /\ Item.m \in Todo
        BY <2>1, PassFacts DEF SyncInvariant
      <3>2. IsQueue(pass.todo)
        BY <2>1 DEF SyncInvariant, SyncTypes
      <3>3. QED
        BY <2>1, <3>1, <3>2, QueueTail DEF Item
    <2>3. pass'.todo = <<Item>>
      BY <1>3, <2>2 DEF Pass
    <2>4. MutationsOf(<<Item>>) = {Item.m}
      BY <2>2, QueueOne
    <2>5. QED
      BY <2>2, <2>3, <2>4 DEF Todo
  <1>4. QED
    BY <1>1, <1>2, <1>3 DEF Cancel, Waiting

\* The beginning of a pass, the connection, the screen, and a pass that sends or
\* skips.
LEMMA ChangePass ==
  ASSUME SyncInvariant, Traced,
         BeginPass \/ SyncNow \/ (\E i \in DOMAIN queue : RetryOne(i)) \/ SkipItem \/ SendItem
           \/ Connection \/ LeaveScreen
  PROVE  ChangeStep /\ Traced'
  <1>1. UNCHANGED <<live, queue, spoiled, stored, runs, settled, discarded>>
    <2>1. CASE BeginPass \/ SyncNow \/ SkipItem \/ \E i \in DOMAIN queue : RetryOne(i)
      BY <2>1 DEF BeginPass, SyncNow, RetryOne, SkipItem, file, history
    <2>2. CASE SendItem
      BY <2>2 DEF SendItem, file
    <2>3. CASE Connection \/ LeaveScreen
      BY <2>3 DEF Connection, LeaveScreen, file
    <2>4. QED
      BY <2>1, <2>2, <2>3
  <1>2. Promised' = Promised /\ Queued' = Queued /\ Queued = MutationsOf(queue)
    BY <1>1 DEF Promised, Queued, MutationsOf
  <1>3. Todo' \subseteq Todo \/ Todo' \subseteq Queued
    <2>1. CASE BeginPass
      <3>1. pass' = NewPass("whole", queue) \/ pass' = None
        BY <2>1 DEF BeginPass
      <3>2. NewPass("whole", queue).todo = queue
        BY DEF NewPass
      <3>3. QED
        BY <1>2, <3>1, <3>2 DEF Todo
    <2>2. CASE SyncNow
      <3>1. pass' = NewPass("whole", queue)
        BY <2>2 DEF SyncNow
      <3>2. NewPass("whole", queue).todo = queue
        BY DEF NewPass
      <3>3. QED
        BY <1>2, <3>1, <3>2 DEF Todo
    <2>3. ASSUME NEW i \in DOMAIN queue, RetryOne(i)
          PROVE  Todo' \subseteq Queued
      <3>1. pass' = NewPass("single", <<queue[i]>>)
        BY <2>3 DEF RetryOne
      <3>2. NewPass("single", <<queue[i]>>).todo = <<queue[i]>>
        BY DEF NewPass
      <3>3. queue[i] \in QueueItem /\ queue[i].m \in Queued
        BY QueueItems DEF SyncInvariant, SyncTypes, Queued
      <3>4. MutationsOf(<<queue[i]>>) \subseteq Queued
        BY <3>3, QueueOne
      <3>5. QED
        BY <3>1, <3>2, <3>4 DEF Todo
    <2>4. CASE SkipItem
      <3>1. /\ pass # None /\ pass.todo # <<>>
            /\ pass' = [pass EXCEPT !.todo = Tail(@)]
        BY <2>4 DEF SkipItem, Sending
      <3>2. pass \in Pass /\ MutationsOf(Tail(pass.todo)) \subseteq Todo
        BY <3>1, PassFacts DEF SyncInvariant
      <3>3. pass'.todo = Tail(pass.todo)
        BY <3>1, <3>2 DEF Pass
      <3>4. QED
        BY <3>2, <3>3 DEF Todo
    <2>5. CASE SendItem
      <3>1. pass # None /\ pass' = [pass EXCEPT !.waiting = TRUE]
        BY <2>5 DEF SendItem, Sending
      <3>2. pass \in Pass
        BY <3>1 DEF SyncInvariant, SyncTypes
      <3>3. pass'.todo = pass.todo
        BY <3>1, <3>2 DEF Pass
      <3>4. QED
        BY <3>1, <3>3 DEF Todo
    <2>6. CASE Connection \/ LeaveScreen
      BY <2>6, CancelTodo DEF Connection, LeaveScreen
    <2>7. QED
      BY <2>1, <2>2, <2>3, <2>4, <2>5, <2>6
  <1>4. Traced'
    BY <1>1, <1>2, <1>3 DEF Traced
  <1>5. ChangeStep
    <2>1. CASE SendItem
      <3>1. pass # None /\ pass.todo # <<>> /\ Send(Item.m, TRUE, Body(Item.m))
        BY <2>1 DEF SendItem, Sending
      <3>2. PICK m \in Mutations : m = Item.m
        BY <3>1, PassFacts DEF SyncInvariant
      <3>3. QED
        BY <1>1, <1>2, <3>1, <3>2, ChangeSends
    <2>2. CASE ~SendItem
      <3>1. UNCHANGED orderly
        BY <2>2 DEF BeginPass, SyncNow, RetryOne, SkipItem, Connection, LeaveScreen, history
      <3>2. QED
        BY <1>1, <1>2, <3>1, ChangeStutters
    <2>3. QED
      BY <2>1, <2>2
  <1>6. QED
    BY <1>4, <1>5

\* An item's turn ends for good.
LEMMA ChangeFinished ==
  ASSUME SyncInvariant, Traced, Sending, Finish(Item.m),
         settled' \in {settled, settled \cup {Item.m}}, Item.m \in settled' \cup Ran,
         UNCHANGED <<live, stored, runs, discarded, orderly>>
  PROVE  ChangeStep /\ Traced'
  <1>1. pass # None /\ pass.todo # <<>>
    BY DEF Sending
  <1>2. PICK m \in Mutations : m = Item.m
    BY <1>1, PassFacts DEF SyncInvariant
  <1>3. /\ \/ pass' = [pass EXCEPT !.todo = Tail(@), !.waiting = FALSE]
           \/ pass' = [pass EXCEPT !.todo = Tail(@), !.done = @ \cup {m}, !.waiting = FALSE]
        /\ \/ UNCHANGED <<queue, spoiled>>
           \/ \E seen \in Views : Save(seen, Without(seen, {m}))
    BY <1>2 DEF Finish, file
  <1>4. /\ pass \in Pass /\ m \in Todo /\ MutationsOf(Tail(pass.todo)) = Todo \ {m}
    BY <1>1, <1>2, PassFacts DEF SyncInvariant
  <1>5. Todo' \subseteq Todo \ {m}
    <2>1. pass'.todo = Tail(pass.todo)
      BY <1>3, <1>4 DEF Pass
    <2>2. QED
      BY <1>4, <2>1 DEF Todo
  <1>6. \/ Queued' = Queued /\ spoiled' = spoiled
        \/ \E S \in SUBSET Promised : Change!Write(S, S \ {m})
    <2>1. ASSUME NEW seen \in Views, Save(seen, Without(seen, {m}))
          PROVE  \E S \in SUBSET Promised : Change!Write(S, S \ {m})
      <3>1. IsQueue(Without(seen, {m})) /\ MutationsOf(Without(seen, {m})) = MutationsOf(seen) \ {m}
        BY ViewFacts, QueueWithout
      <3>2. QED
        BY <2>1, <3>1, ChangeWrites
    <2>2. QED
      BY <1>3, <2>1 DEF Queued
  <1>7. Queued \ {m} \subseteq Queued' \cup spoiled' /\ spoiled \subseteq spoiled'
    BY <1>6 DEF Change!Write, Change!Apart
  <1>8. Promised' = Promised /\ m \in Promised /\ m \in Queued \cup discarded \cup spoiled
    BY <1>4 DEF Promised, SyncInvariant, QueuedOnly, Traced
  <1>9. Traced'
    BY <1>2, <1>5, <1>7, <1>8 DEF Traced
  <1>10. CASE settled' = settled \cup {m}
    <2>1. Change!Settle(m)
      BY <1>6, <1>8, <1>10 DEF Change!Settle, Promised
    <2>2. QED
      BY <1>9, <2>1 DEF ChangeStep, Change!Next
  <1>11. CASE settled' = settled
    <2>1. CASE Queued' = Queued /\ spoiled' = spoiled
      BY <1>8, <1>9, <1>11, <2>1, ChangeStutters
    <2>2. ASSUME NEW S \in SUBSET Promised, Change!Write(S, S \ {m})
          PROVE  ChangeStep
      <3> DEFINE ms == {m}
      <3>1. ms \in SUBSET Mutations /\ Change!Write(S, S \ ms)
        BY <2>2
      <3>2. \A k \in ms : k \in settled \/ runs[k] > 0
        BY <1>2, <1>11 DEF Ran
      <3> HIDE DEF ms
      <3>3. Change!Remove(ms)
        BY <1>8, <1>11, <3>1, <3>2 DEF Change!Remove, Promised
      <3>4. QED
        BY <3>1, <3>3 DEF ChangeStep, Change!Next
    <2>3. QED
      BY <1>6, <1>9, <2>1, <2>2
  <1>12. QED
    BY <1>2, <1>10, <1>11

LEMMA ChangeFinishItem ==
  ASSUME SyncInvariant, Traced, FinishItem
  PROVE  ChangeStep /\ Traced'
  <1>1. PICK n \in Awaited(Item.m, TRUE) :
          /\ requests[n].stage \in {"ok", "refused"}
          /\ settled' = IF requests[n].stage = "refused" THEN settled \cup {Item.m} ELSE settled
    BY DEF FinishItem
  <1>2. /\ Sending /\ Finish(Item.m)
        /\ UNCHANGED <<live, stored, runs, discarded, orderly>>
    BY DEF FinishItem, Waiting
  <1>3. n \in Requests /\ requests[n].m = Item.m
    BY DEF Awaited
  <1>4. Item.m \in Mutations
    BY <1>3, RequestFacts DEF SyncInvariant
  <1>5. Item.m \in settled' \cup Ran
    BY <1>1, <1>3, <1>4 DEF SyncInvariant, AnswersEarned, Ran
  <1>6. settled' \in {settled, settled \cup {Item.m}}
    BY <1>1
  <1>7. QED
    BY <1>2, <1>5, <1>6, ChangeFinished

LEMMA ChangeFailItem ==
  ASSUME SyncInvariant, Traced, FailItem
  PROVE  ChangeStep /\ Traced'
  <1>1. Sending /\ UNCHANGED <<live, stored, runs, discarded, orderly>>
    BY DEF FailItem
  <1>2. CASE Item.attempts + 1 >= MaxAttempts
    <2>1. Finish(Item.m) /\ settled' = settled \cup {Item.m}
      BY <1>2 DEF FailItem
    <2>2. QED
      BY <1>1, <2>1, ChangeFinished
  <1>3. CASE ~(Item.attempts + 1 >= MaxAttempts)
    <2> DEFINE item == [m |-> Item.m, attempts |-> Item.attempts + 1]
    <2>1. /\ \E seen \in Views : Save(seen, Upsert(seen, item))
          /\ pass' = [pass EXCEPT !.todo = Tail(@), !.waiting = FALSE]
          /\ UNCHANGED settled
      BY <1>3 DEF FailItem
    <2>2. pass # None /\ pass.todo # <<>>
      BY <1>1 DEF Sending
    <2>3. /\ pass \in Pass /\ Item.m \in Mutations /\ Item.m \in Todo
          /\ Item.attempts \in 0 .. MaxAttempts - 1
          /\ MutationsOf(Tail(pass.todo)) = Todo \ {Item.m}
      BY <2>2, PassFacts DEF SyncInvariant
    <2>4. item \in QueueItem
      BY <1>3, <2>3, Counts DEF QueueItem
    <2>5. PICK m \in Mutations : m = Item.m
      BY <2>3
    <2>6. item.m = m
      BY <2>5
    <2> HIDE DEF item
    <2>7. PICK it \in QueueItem : it = item
      BY <2>4
    <2>8. PICK seen \in Views : Save(seen, Upsert(seen, it))
      BY <2>1, <2>7
    <2>9. IsQueue(Upsert(seen, it)) /\ MutationsOf(Upsert(seen, it)) = MutationsOf(seen) \cup {m}
      BY <2>6, <2>7, UpsertFacts, ViewFacts
    <2>10. PICK S \in SUBSET Promised : S = MutationsOf(seen)
      BY <2>8, <2>9, ChangeWrites
    <2>11. /\ Change!Write(S, S \cup {m}) /\ Queued' = S \cup {m}
           /\ spoiled \subseteq spoiled' /\ Queued \subseteq S \cup spoiled'
      BY <2>8, <2>9, <2>10, ChangeWrites
    <2>12. Todo' \subseteq Todo
      <3>1. pass'.todo = Tail(pass.todo)
        BY <2>1, <2>3 DEF Pass
      <3>2. QED
        BY <2>3, <3>1 DEF Todo
    <2>13. Promised' = Promised
      BY <1>1 DEF Promised
    <2>14. Traced'
      BY <1>1, <2>1, <2>11, <2>12, <2>13, TracedKept
    <2>15. m \in Queued \cup discarded \cup spoiled
      BY <2>3, <2>5 DEF Traced
    <2>16. Change!Return(m)
      BY <1>1, <2>1, <2>10, <2>11, <2>13, <2>15 DEF Change!Return, Promised
    <2>17. QED
      BY <2>14, <2>16 DEF ChangeStep, Change!Next
  <1>4. QED
    BY <1>2, <1>3

\* The end of a pass takes what is done from the file, all of it at once; that of
\* one that was cancelled takes nothing.
LEMMA ChangeEndPass ==
  ASSUME SyncInvariant, Traced, EndPass
  PROVE  ChangeStep /\ Traced'
  <1>1. /\ pass # None /\ pass' = None
        /\ UNCHANGED <<live, stored, runs, settled, discarded, orderly>>
    BY DEF EndPass
  <1>2. Done = pass.done /\ Todo' = {} /\ Promised' = Promised
    BY <1>1 DEF Done, Todo, Promised
  <1>3. Traced'
    BY <1>1, <1>2 DEF Traced
  <1>4. CASE UNCHANGED file
    <2>1. Queued' = Queued /\ spoiled' = spoiled
      BY <1>4 DEF Queued, file
    <2>2. QED
      BY <1>1, <1>2, <1>3, <2>1, ChangeStutters
  <1>5. ASSUME NEW seen \in Views, Save(seen, Without(seen, DoneItems))
        PROVE  ChangeStep
    <2>1. PICK ms \in SUBSET Mutations : ms = DoneItems
      <3>1. Done \subseteq Mutations
        BY DEF SyncInvariant, SyncTypes, QueuedOnly, Ran
      <3>2. QED
        BY <1>2, <3>1 DEF DoneItems
    <2>2. \A k \in ms : k \in settled \/ runs[k] > 0
      BY <1>2, <2>1 DEF SyncInvariant, QueuedOnly, Ran, DoneItems
    <2>3. IsQueue(Without(seen, ms)) /\ MutationsOf(Without(seen, ms)) = MutationsOf(seen) \ ms
      BY ViewFacts, QueueWithout
    <2>4. Save(seen, Without(seen, ms))
      BY <1>5, <2>1
    <2>5. PICK S \in SUBSET Promised : Change!Write(S, S \ ms)
      BY <2>3, <2>4, ChangeWrites
    <2>6. Change!Remove(ms)
      BY <1>1, <1>2, <2>2, <2>5 DEF Change!Remove, Promised
    <2>7. QED
      BY <2>6 DEF ChangeStep, Change!Next
  <1>6. QED
    BY <1>3, <1>4, <1>5 DEF EndPass

LEMMA ChangeDiscard ==
  ASSUME SyncInvariant, Traced, NEW i \in DOMAIN queue, Discard(i)
  PROVE  ChangeStep /\ Traced'
  <1>1. PICK m \in Mutations : m = queue[i].m
    BY QueueItems DEF SyncInvariant, SyncTypes
  <1>2. /\ discarded' = discarded \cup {m}
        /\ UNCHANGED <<live, pass, stored, runs, settled, orderly>>
    BY <1>1 DEF Discard
  <1>3. PICK seen \in Views : Save(seen, Without(seen, {m}))
    BY <1>1 DEF Discard
  <1>4. m \in Queued
    BY <1>1 DEF Queued, MutationsOf
  <1>5. /\ IsQueue(Without(seen, {m}))
        /\ MutationsOf(Without(seen, {m})) = MutationsOf(seen) \ {m}
    BY ViewFacts, QueueWithout
  <1>6. PICK S \in SUBSET Promised : S = MutationsOf(seen)
    BY <1>3, <1>5, ChangeWrites
  <1>7. /\ Change!Write(S, S \ {m}) /\ Queued' = S \ {m}
        /\ spoiled \subseteq spoiled' /\ Queued \subseteq S \cup spoiled'
    BY <1>3, <1>5, <1>6, ChangeWrites
  <1>8. Promised' = Promised /\ Todo' = Todo /\ m \in Promised
    BY <1>2, <1>4 DEF Promised, Todo, SyncInvariant, QueuedOnly
  <1>9. Traced'
    BY <1>2, <1>7, <1>8 DEF Traced
  <1>10. Change!Discard(m)
    BY <1>2, <1>4, <1>6, <1>7, <1>8 DEF Change!Discard, Promised
  <1>11. QED
    BY <1>9, <1>10 DEF ChangeStep, Change!Next

LEMMA ChangeDie ==
  ASSUME SyncInvariant, Traced, Die
  PROVE  ChangeStep /\ Traced'
  <1>1. /\ pass' = None
        /\ live' = [m \in Mutations |-> IF live[m] = "sent" THEN "over" ELSE live[m]]
        /\ queue' \in {queue, <<>>}
        /\ spoiled' = spoiled \cup Apart(queue, queue')
        /\ UNCHANGED <<stored, runs, settled, discarded, orderly>>
    BY DEF Die
  <1>2. Promised' = Promised
    BY <1>1 DEF Promised, SyncInvariant, SyncTypes
  <1>3. Todo' = {}
    BY <1>1 DEF Todo
  <1>4. Queued' = MutationsOf(queue') /\ Queued = MutationsOf(queue)
    BY DEF Queued, MutationsOf
  <1>5. Apart(queue, queue') = (Queued \ Queued') \cup (Queued' \ Queued)
    BY <1>4 DEF Apart
  <1>6. Traced'
    BY <1>1, <1>2, <1>3 DEF Traced
  <1>7. CASE queue' = queue
    <2>1. Queued' = Queued /\ spoiled' = spoiled
      BY <1>1, <1>4, <1>5, <1>7
    <2>2. QED
      BY <1>1, <1>2, <1>6, <2>1, ChangeStutters
  <1>8. CASE queue' = <<>>
    <2>1. Queued' = {} /\ spoiled' = spoiled \cup Queued
      BY <1>1, <1>4, <1>5, <1>8, QueueEmpty
    <2>2. Change!Die
      BY <1>1, <1>2, <2>1 DEF Change!Die, Promised
    <2>3. QED
      BY <1>6, <2>2 DEF ChangeStep, Change!Next
  <1>9. QED
    BY <1>1, <1>7, <1>8

\* The API: a handler runs, or an answer is stored or expires.
LEMMA ChangeServer ==
  ASSUME SyncInvariant, Traced,
         API \/ Losses
  PROVE  ChangeStep /\ Traced'
  <1>1. UNCHANGED <<live, queue, spoiled, pass, settled, discarded>>
    <2>1. ASSUME NEW n \in Requests,
                 LookUp(n) \/ RunHandler(n) \/ RefuseRequest(n) \/ StoreAnswer(n) \/ Lose(n)
          PROVE  UNCHANGED <<live, queue, spoiled, pass, settled, discarded>>
      <3>1. UNCHANGED phone /\ UNCHANGED file /\ UNCHANGED <<settled, discarded>>
        <4>1. CASE LookUp(n) \/ RefuseRequest(n) \/ Lose(n) \/ StoreAnswer(n)
          BY <4>1 DEF LookUp, RefuseRequest, Lose, StoreAnswer, history
        <4>2. CASE RunHandler(n)
          BY <4>2 DEF RunHandler
        <4>3. QED
          BY <2>1, <4>1, <4>2
      <3>2. QED
        BY <3>1 DEF phone, file
    <2>2. ASSUME NEW m \in Mutations, Expire(m)
          PROVE  UNCHANGED <<live, queue, spoiled, pass, settled, discarded>>
      BY <2>2 DEF Expire, phone, file
    <2>3. QED
      BY <2>1, <2>2 DEF API, Losses
  <1>2. Promised' = Promised /\ Queued' = Queued /\ Todo' = Todo
    BY <1>1 DEF Promised, Queued, Todo
  <1>3. Traced'
    BY <1>1, <1>2, TracedKept
  <1>4. ASSUME NEW n \in Requests, LookUp(n) \/ RefuseRequest(n) \/ Lose(n)
        PROVE  ChangeStep
    BY <1>1, <1>2, <1>4, ChangeStutters DEF LookUp, RefuseRequest, Lose, history
  <1>5. ASSUME NEW n \in Requests, RunHandler(n)
        PROVE  ChangeStep
    <2>1. PICK m \in Mutations : m = requests[n].m
      BY RequestFacts DEF SyncInvariant
    <2>2. /\ requests[n].stage = "run"
          /\ runs' = [runs EXCEPT ![m] = IF @ = 0 THEN 1 ELSE 2]
          /\ UNCHANGED <<stored, orderly>>
      BY <1>5, <2>1 DEF RunHandler
    <2>3. m \in orderly => runs[m] = 0
      BY <2>1, <2>2 DEF SyncInvariant, OneOrderly
    <2>4. Change!Perform(m)
      BY <1>1, <1>2, <2>2, <2>3 DEF Change!Perform, Promised
    <2>5. QED
      BY <2>4 DEF ChangeStep, Change!Next
  <1>6. ASSUME NEW n \in Requests, StoreAnswer(n)
        PROVE  ChangeStep
    <2>1. PICK m \in Mutations : m = requests[n].m
      BY RequestFacts DEF SyncInvariant
    <2>2. /\ requests[n].storing
          /\ stored' = stored \/ stored' = [stored EXCEPT ![m] = requests[n].body]
          /\ UNCHANGED <<runs, orderly>>
      BY <1>6, <2>1 DEF StoreAnswer, history
    <2>3. runs[m] > 0
      BY <2>1, <2>2 DEF SyncInvariant, AnswersEarned
    <2>4. CASE stored' = stored
      BY <1>1, <1>2, <2>2, <2>4, ChangeStutters
    <2>5. CASE stored' = [stored EXCEPT ![m] = requests[n].body]
      <3>1. requests[n].body # None
        BY RequestFacts, ConstantsAssumption DEF SyncInvariant, Request
      <3>2. {k \in Mutations : stored'[k] # None} = {k \in Mutations : stored[k] # None} \cup {m}
        BY <2>5, <3>1 DEF SyncInvariant, SyncTypes
      <3>3. Change!Keep(m)
        BY <1>1, <1>2, <2>2, <2>3, <3>2 DEF Change!Keep, Promised
      <3>4. QED
        BY <3>3 DEF ChangeStep, Change!Next
    <2>6. QED
      BY <2>2, <2>4, <2>5
  <1>7. ASSUME NEW m \in Mutations, Expire(m)
        PROVE  ChangeStep
    <2>1. /\ stored' = [stored EXCEPT ![m] = None] /\ orderly' = orderly \ {m}
          /\ UNCHANGED runs
      BY <1>7 DEF Expire
    <2>2. {k \in Mutations : stored'[k] # None} = {k \in Mutations : stored[k] # None} \ {m}
      BY <2>1 DEF SyncInvariant, SyncTypes
    <2>3. Change!Disorder(m)
      BY <1>1, <1>2, <2>1, <2>2 DEF Change!Disorder, Promised
    <2>4. QED
      BY <2>3 DEF ChangeStep, Change!Next
  <1>8. QED
    BY <1>3, <1>4, <1>5, <1>6, <1>7 DEF API, Losses

\* Whatever the connection, the screens, deaths, losses and the user do to the
\* passes and the keys, a change the screen said is queued stays pending until it
\* is done, refused, given up or discarded, but for those a death during a save or
\* a save over that of another queue object took from the file, and an orderly one
\* is done once (OfflineSyncCoordinator and OfflineMutationQueue with
\* IdempotencyInterceptor): they implement ChangeLife.
THEOREM SyncFollowsLife == Spec => ChangesFollowLife
  <1>1. Init => Change!Init /\ Traced
    BY ChangeInit
  <1>2. SyncInvariant /\ Traced /\ [Next]_vars => ChangeStep /\ Traced'
    <2> SUFFICES ASSUME SyncInvariant, Traced, [Next]_vars
                 PROVE  ChangeStep /\ Traced'
      OBVIOUS
    <2>1. CASE UNCHANGED vars
      <3>1. /\ Promised' = Promised /\ Queued' = Queued /\ Todo' = Todo
            /\ UNCHANGED <<runs, stored, settled, discarded, spoiled, orderly>>
        BY <2>1 DEF vars, phone, file, history, Promised, Queued, Todo
      <3>2. QED
        BY <3>1, ChangeStutters, TracedKept
    <2>2. CASE Screen
      BY <2>2, ChangeScreen DEF Screen
    <2>3. CASE User
      BY <2>3, ChangePass, ChangeDiscard DEF User
    <2>4. CASE Coordinator
      BY <2>4, ChangePass, ChangeFinishItem, ChangeFailItem, ChangeEndPass DEF Coordinator
    <2>5. CASE Connection
      BY <2>5, ChangePass
    <2>6. CASE Die
      BY <2>6, ChangeDie
    <2>7. CASE API \/ Losses
      BY <2>7, ChangeServer
    <2>8. QED
      BY <2>1, <2>2, <2>3, <2>4, <2>5, <2>6, <2>7 DEF Next
  <1>3. ChangeStep <=> [Change!Next]_(Change!vars)
    BY DEF ChangeStep
  <1>4. QED
    BY <1>1, <1>2, <1>3, SyncInductive, PTL DEF Spec, ChangesFollowLife, Change!Spec

=============================================================================
