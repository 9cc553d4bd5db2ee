------------------------------ MODULE SumProofs ------------------------------
(***************************************************************************)
(* Laws of SumFunction, the sum of a function's values over its domain,    *)
(* for functions into the integers with a finite domain.  The induction    *)
(* theorems of the library take operators, so each induction here takes a  *)
(* minimal counterexample in the well-founded order of finite sets.        *)
(***************************************************************************)
EXTENDS Integers, Functions, FiniteSetTheorems, TLAPS

-----------------------------------------------------------------------------
(* The function the fold is made of.                                       *)

First(s) == CHOOSE x \in s : TRUE
Unfolded(f, g, s) == IF s = {} THEN 0 ELSE f[First(s)] + g[s \ {First(s)}]
Sums(f, S, g) == g = [s \in SUBSET S |-> Unfolded(f, g, s)]
Iter(f, S) == CHOOSE g : Sums(f, S, g)

\* The library's fold of + is that function at the whole set.
LEMMA SumIsIter ==
  ASSUME NEW f, NEW S
  PROVE  SumFunctionOnSet(f, S) = Iter(f, S)[S]
  BY DEF SumFunctionOnSet, FoldFunctionOnSet, MapThenFoldSet, Iter, Sums, Unfolded, First

\* A set of finite sets that is not empty has a member with no smaller member.
LEMMA MinimalSet ==
  ASSUME NEW S, NEW B \in SUBSET SUBSET S, B # {}, \A T \in B : IsFiniteSet(T)
  PROVE  \E T \in B : \A x \in T : T \ {x} \notin B
  <1>1. B \subseteq FiniteSubsetsOf(S)
    BY DEF FiniteSubsetsOf
  <1>2. PICK T \in B : \A U \in B : <<U, T>> \notin StrictSubsetOrdering(S)
    BY <1>1, FS_StrictSubsetOrderingWellFounded, WFMin
  <1>3. ASSUME NEW x \in T, T \ {x} \in B PROVE FALSE
    BY <1>2, <1>3 DEF StrictSubsetOrdering
  <1>4. QED
    BY <1>2, <1>3

LEMMA FirstIn ==
  ASSUME NEW s, s # {}
  PROVE  First(s) \in s
  BY DEF First

\* Two such functions agree where their arguments do.
LEMMA SumsAgree ==
  ASSUME NEW f, NEW h, NEW S, NEW T, NEW g, NEW k, Sums(f, S, g), Sums(h, T, k),
         NEW U, IsFiniteSet(U), U \subseteq S, U \subseteq T,
         \A x \in U : f[x] = h[x]
  PROVE  g[U] = k[U]
  <1> DEFINE B == {V \in SUBSET U : g[V] # k[V]}
  <1>1. SUFFICES ASSUME B # {} PROVE FALSE
    OBVIOUS
  <1>2. \A V \in B : IsFiniteSet(V)
    BY FS_Subset
  <1>3. PICK V \in B : \A x \in V : V \ {x} \notin B
    <2> HIDE DEF B
    <2>1. B \in SUBSET SUBSET U
      BY DEF B
    <2>2. QED
      BY <1>1, <1>2, <2>1, MinimalSet
  <1>4. V \in SUBSET S /\ V \in SUBSET T
    OBVIOUS
  <1>5. g[V] = Unfolded(f, g, V) /\ k[V] = Unfolded(h, k, V)
    BY <1>4 DEF Sums
  <1>6. V # {}
    BY <1>3, <1>5 DEF Unfolded
  <1>7. g[V \ {First(V)}] = k[V \ {First(V)}]
    BY <1>3, <1>6, FirstIn
  <1>8. f[First(V)] = h[First(V)]
    BY <1>6, FirstIn
  <1>9. QED
    BY <1>3, <1>5, <1>6, <1>7, <1>8 DEF Unfolded

\* There is such a function on the subsets of every finite set.
LEMMA SumsExist ==
  ASSUME NEW f, NEW S, IsFiniteSet(S)
  PROVE  Sums(f, S, Iter(f, S))
  <1> DEFINE B == {V \in SUBSET S : ~ Sums(f, V, Iter(f, V))}
  <1>1. SUFFICES ASSUME B # {} PROVE FALSE
    OBVIOUS
  <1>2. \A V \in B : IsFiniteSet(V)
    BY FS_Subset
  <1>3. PICK V \in B : \A W \in B : <<W, V>> \notin StrictSubsetOrdering(S)
    <2>1. B \subseteq FiniteSubsetsOf(S)
      BY <1>2 DEF FiniteSubsetsOf
    <2> HIDE DEF B
    <2>2. QED
      BY <1>1, <2>1, FS_StrictSubsetOrderingWellFounded, WFMin
  <1>4. \A W \in SUBSET V : W # V => Sums(f, W, Iter(f, W))
    BY <1>3 DEF StrictSubsetOrdering
  <1> DEFINE Below(s) == Iter(f, s \ {First(s)})[s \ {First(s)}]
             g == [s \in SUBSET V |-> IF s = {} THEN 0 ELSE f[First(s)] + Below(s)]
  <1>5. ASSUME NEW s \in SUBSET V, s # {}
        PROVE  g[s \ {First(s)}] = Below(s)
    <2> DEFINE t == s \ {First(s)}
    <2>1. t \in SUBSET V /\ t # V
      BY <1>5, FirstIn
    <2>2. Sums(f, t, Iter(f, t))
      BY <1>4, <2>1
    <2>3. Iter(f, t)[t] = Unfolded(f, Iter(f, t), t)
      BY <2>2 DEF Sums
    <2>4. CASE t = {}
      BY <2>1, <2>3, <2>4 DEF Unfolded
    <2>5. CASE t # {}
      <3> DEFINE u == t \ {First(t)}
      <3>1. u \in SUBSET V /\ u # V
        BY <2>1
      <3>2. Sums(f, u, Iter(f, u))
        BY <1>4, <3>1
      <3>3. IsFiniteSet(u)
        BY <1>2, <3>1, FS_Subset
      <3>4. u \subseteq t /\ u \subseteq u
        OBVIOUS
      <3>5. Iter(f, t)[u] = Iter(f, u)[u]
        <4> HIDE DEF u, t
        <4>1. QED
          BY <2>2, <3>2, <3>3, <3>4, SumsAgree
      <3>6. g[t] = f[First(t)] + Iter(f, u)[u]
        BY <2>1, <2>5
      <3>7. QED
        BY <2>3, <2>5, <3>5, <3>6 DEF Unfolded
    <2>6. QED
      BY <2>4, <2>5
  <1>6. g = [s \in SUBSET V |-> Unfolded(f, g, s)]
    BY <1>5 DEF Unfolded
  <1>7. Sums(f, V, g)
    BY <1>6 DEF Sums
  <1> HIDE DEF g
  <1>8. Sums(f, V, Iter(f, V))
    BY <1>7 DEF Iter
  <1>9. QED
    BY <1>3, <1>8

-----------------------------------------------------------------------------
(* The laws.                                                               *)

\* A sum unfolds at the element the fold chooses.
LEMMA SumUnfold ==
  ASSUME NEW f, NEW S, IsFiniteSet(S), S # {}
  PROVE  SumFunctionOnSet(f, S)
           = f[First(S)] + SumFunctionOnSet(f, S \ {First(S)})
  <1> DEFINE T == S \ {First(S)}
  <1>1. Sums(f, S, Iter(f, S))
    BY SumsExist
  <1>2. IsFiniteSet(T) /\ T \subseteq S /\ T \subseteq T /\ T \in SUBSET S
    BY FS_Subset
  <1>3. Sums(f, T, Iter(f, T))
    <2> HIDE DEF T
    <2>1. QED
      BY <1>2, SumsExist
  <1>4. Iter(f, S)[T] = Iter(f, T)[T]
    <2> HIDE DEF T
    <2>1. QED
      BY <1>1, <1>2, <1>3, SumsAgree
  <1>5. Iter(f, S)[S] = f[First(S)] + Iter(f, S)[T]
    BY <1>1 DEF Sums, Unfolded
  <1>6. QED
    BY <1>4, <1>5, SumIsIter

\* The empty sum.
LEMMA SumEmpty ==
  ASSUME NEW f
  PROVE  SumFunctionOnSet(f, {}) = 0
  <1>1. Sums(f, {}, Iter(f, {}))
    BY SumsExist, FS_EmptySet
  <1>2. QED
    BY <1>1, SumIsIter DEF Sums, Unfolded

\* A sum depends on the values that it adds only.
LEMMA SumOfEqual ==
  ASSUME NEW f, NEW g, NEW S, IsFiniteSet(S), \A x \in S : f[x] = g[x]
  PROVE  SumFunctionOnSet(f, S) = SumFunctionOnSet(g, S)
  <1>1. Sums(f, S, Iter(f, S)) /\ Sums(g, S, Iter(g, S))
    BY SumsExist
  <1>2. QED
    BY <1>1, SumsAgree, SumIsIter

\* A sum of integers is one.
LEMMA SumInt ==
  ASSUME NEW f, NEW S, IsFiniteSet(S), \A x \in S : f[x] \in Int
  PROVE  SumFunctionOnSet(f, S) \in Int
  <1> DEFINE B == {V \in SUBSET S : SumFunctionOnSet(f, V) \notin Int}
  <1>1. SUFFICES ASSUME B # {} PROVE FALSE
    OBVIOUS
  <1>2. \A V \in B : IsFiniteSet(V)
    BY FS_Subset
  <1>3. PICK V \in B : \A x \in V : V \ {x} \notin B
    <2> HIDE DEF B
    <2>1. B \in SUBSET SUBSET S
      BY DEF B
    <2>2. QED
      BY <1>1, <1>2, <2>1, MinimalSet
  <1>4. V # {}
    BY <1>3, SumEmpty
  <1>5. SumFunctionOnSet(f, V) = f[First(V)] + SumFunctionOnSet(f, V \ {First(V)})
    BY <1>2, <1>4, SumUnfold
  <1>6. First(V) \in V /\ SumFunctionOnSet(f, V \ {First(V)}) \in Int
    BY <1>3, <1>4, FirstIn
  <1>7. QED
    BY <1>3, <1>5, <1>6

\* Any element may be taken out of a sum.
LEMMA SumRemove ==
  ASSUME NEW f, NEW S, IsFiniteSet(S), \A x \in S : f[x] \in Int, NEW x \in S
  PROVE  SumFunctionOnSet(f, S) = f[x] + SumFunctionOnSet(f, S \ {x})
  <1> DEFINE Out(V, y) == SumFunctionOnSet(f, V) = f[y] + SumFunctionOnSet(f, V \ {y})
             B == {V \in SUBSET S : \E y \in V : ~ Out(V, y)}
  <1>1. SUFFICES ASSUME B # {} PROVE FALSE
    OBVIOUS
  <1>2. \A V \in B : IsFiniteSet(V)
    BY FS_Subset
  <1>3. PICK V \in B : \A y \in V : V \ {y} \notin B
    <2> HIDE DEF B
    <2>1. B \in SUBSET SUBSET S
      BY DEF B
    <2>2. QED
      BY <1>1, <1>2, <2>1, MinimalSet
  <1>4. PICK y \in V : ~ Out(V, y)
    OBVIOUS
  <1> DEFINE z == First(V)
             W == V \ {z}
             X == (V \ {y}) \ {z}
  <1>5. z \in V
    BY <1>4, FirstIn
  <1>6. SumFunctionOnSet(f, V) = f[z] + SumFunctionOnSet(f, W)
    BY <1>2, <1>4, SumUnfold
  <1>7. y # z
    BY <1>4, <1>6
  <1>8. SumFunctionOnSet(f, W) = f[y] + SumFunctionOnSet(f, W \ {y})
    BY <1>3, <1>5, <1>7
  <1>9. SumFunctionOnSet(f, V \ {y}) = f[z] + SumFunctionOnSet(f, X)
    BY <1>3, <1>4, <1>5, <1>7
  <1>10. W \ {y} = X
    OBVIOUS
  <1>11. SumFunctionOnSet(f, X) \in Int /\ f[y] \in Int /\ f[z] \in Int
    <2>1. X \subseteq S /\ IsFiniteSet(X)
      BY FS_Subset
    <2>2. SumFunctionOnSet(f, X) \in Int
      <3> HIDE DEF X
      <3>1. QED
        BY <2>1, SumInt
    <2>3. QED
      BY <1>5, <2>2
  <1>12. SumFunctionOnSet(f, V) = f[y] + SumFunctionOnSet(f, V \ {y})
    <2> HIDE DEF W, X, z
    <2>1. SumFunctionOnSet(f, W) = f[y] + SumFunctionOnSet(f, X)
      BY <1>8, <1>10
    <2>2. QED
      BY <1>6, <1>9, <1>11, <2>1
  <1>13. QED
    BY <1>4, <1>12

-----------------------------------------------------------------------------
(* The laws for the sum of a whole function.                               *)

\* A function without arguments.
LEMMA EmptySum ==
  ASSUME NEW f, DOMAIN f = {}
  PROVE  SumFunction(f) = 0
  BY SumEmpty DEF SumFunction

\* A function with one argument.
LEMMA SingleSum ==
  ASSUME NEW x, NEW f \in [{x} -> Int]
  PROVE  SumFunction(f) = f[x]
  <1>1. SumFunctionOnSet(f, {x}) = f[x] + SumFunctionOnSet(f, {x} \ {x})
    BY FS_Singleton, SumRemove
  <1>2. {x} \ {x} = {} /\ f[x] \in Int
    OBVIOUS
  <1>3. QED
    BY <1>1, <1>2, SumEmpty DEF SumFunction

\* The sum of an integer function is an integer.
LEMMA IntSum ==
  ASSUME NEW S, IsFiniteSet(S), NEW f \in [S -> Int]
  PROVE  SumFunction(f) \in Int
  BY SumInt DEF SumFunction

\* One value changes.
LEMMA ChangedSum ==
  ASSUME NEW S, IsFiniteSet(S), NEW f \in [S -> Int], NEW g \in [S -> Int],
         NEW x \in S, \A y \in S \ {x} : g[y] = f[y]
  PROVE  SumFunction(g) = SumFunction(f) + (g[x] - f[x])
  <1> DEFINE T == S \ {x}
  <1>1. IsFiniteSet(T)
    BY FS_Subset
  <1>2. /\ SumFunctionOnSet(f, S) = f[x] + SumFunctionOnSet(f, T)
        /\ SumFunctionOnSet(g, S) = g[x] + SumFunctionOnSet(g, T)
    BY SumRemove
  <1>3. SumFunctionOnSet(f, T) = SumFunctionOnSet(g, T)
    BY <1>1, SumOfEqual
  <1>4. SumFunctionOnSet(f, T) \in Int
    BY <1>1, SumInt
  <1>5. QED
    BY <1>2, <1>3, <1>4 DEF SumFunction

\* One argument is added.
LEMMA ExtendedSum ==
  ASSUME NEW S, IsFiniteSet(S), NEW f \in [S -> Int], NEW x, x \notin S,
         NEW T, T = S \cup {x}, NEW g \in [T -> Int], \A y \in S : g[y] = f[y]
  PROVE  SumFunction(g) = SumFunction(f) + g[x]
  <1>1. IsFiniteSet(T) /\ T \ {x} = S
    BY FS_AddElement
  <1>2. SumFunctionOnSet(g, T) = g[x] + SumFunctionOnSet(g, T \ {x})
    <2>1. x \in T /\ \A y \in T : g[y] \in Int
      OBVIOUS
    <2>2. QED
      BY <1>1, <2>1, SumRemove
  <1>3. SumFunctionOnSet(g, S) = SumFunctionOnSet(f, S)
    BY SumOfEqual
  <1>4. SumFunctionOnSet(f, S) \in Int
    BY SumInt
  <1>5. g[x] \in Int /\ DOMAIN g = T /\ DOMAIN f = S
    OBVIOUS
  <1>6. SumFunctionOnSet(g, T) = g[x] + SumFunctionOnSet(f, S)
    BY <1>1, <1>2, <1>3
  <1>7. QED
    BY <1>4, <1>5, <1>6 DEF SumFunction

\* One argument may be added, or not.
LEMMA GrownSum ==
  ASSUME NEW S, IsFiniteSet(S), NEW x, x \notin S, NEW b \in BOOLEAN,
         NEW T, T = IF b THEN S \cup {x} ELSE S,
         NEW f \in [S -> Int], NEW g \in [T -> Int], \A y \in S : g[y] = f[y],
         NEW q \in Int, b => g[x] = q
  PROVE  /\ IsFiniteSet(T)
         /\ SumFunction(g) = SumFunction(f) + (IF b THEN q ELSE 0)
  <1>1. CASE b
    <2>1. T = S \cup {x}
      BY <1>1
    <2>2. SumFunction(g) = SumFunction(f) + g[x]
      BY <2>1, ExtendedSum
    <2>3. QED
      BY <1>1, <2>1, <2>2, FS_AddElement
  <1>2. CASE ~ b
    <2>1. f = g
      BY <1>2
    <2>2. QED
      BY <1>2, <2>1, IntSum
  <1>3. QED
    BY <1>1, <1>2

\* A sum of naturals is one, and none of them is greater.
LEMMA NatSum ==
  ASSUME NEW S, IsFiniteSet(S), NEW f \in [S -> Nat]
  PROVE  /\ SumFunction(f) \in Nat
         /\ \A x \in S : f[x] <= SumFunction(f)
  <1> DEFINE B == {V \in SUBSET S : SumFunctionOnSet(f, V) \notin Nat}
  <1>1. B = {}
    <2>1. SUFFICES ASSUME B # {} PROVE FALSE
      OBVIOUS
    <2>2. \A V \in B : IsFiniteSet(V)
      BY FS_Subset
    <2>3. PICK V \in B : \A x \in V : V \ {x} \notin B
      <3> HIDE DEF B
      <3>1. B \in SUBSET SUBSET S
        BY DEF B
      <3>2. QED
        BY <2>1, <2>2, <3>1, MinimalSet
    <2>4. V # {}
      BY <2>3, SumEmpty
    <2>5. SumFunctionOnSet(f, V) = f[First(V)] + SumFunctionOnSet(f, V \ {First(V)})
      BY <2>2, <2>4, SumUnfold
    <2>6. First(V) \in V /\ SumFunctionOnSet(f, V \ {First(V)}) \in Nat
      BY <2>3, <2>4, FirstIn
    <2>7. QED
      BY <2>3, <2>5, <2>6
  <1>2. \A V \in SUBSET S : SumFunctionOnSet(f, V) \in Nat
    BY <1>1
  <1>3. ASSUME NEW x \in S
        PROVE  f[x] <= SumFunctionOnSet(f, S)
    <2> DEFINE T == S \ {x}
    <2>1. SumFunctionOnSet(f, S) = f[x] + SumFunctionOnSet(f, T)
      BY SumRemove
    <2>2. SumFunctionOnSet(f, T) \in Nat
      BY <1>2
    <2>3. QED
      BY <2>1, <2>2
  <1>4. QED
    BY <1>2, <1>3 DEF SumFunction
\* Values that are not greater have no greater sum.
LEMMA SumMonotone ==
  ASSUME NEW S, IsFiniteSet(S), NEW f \in [S -> Int], NEW g \in [S -> Int],
         \A x \in S : f[x] <= g[x]
  PROVE  SumFunction(f) <= SumFunction(g)
  <1> DEFINE B == {V \in SUBSET S : ~(SumFunctionOnSet(f, V) <= SumFunctionOnSet(g, V))}
  <1>1. B = {}
    <2>1. SUFFICES ASSUME B # {} PROVE FALSE
      OBVIOUS
    <2>2. \A V \in B : IsFiniteSet(V)
      BY FS_Subset
    <2>3. PICK V \in B : \A x \in V : V \ {x} \notin B
      <3> HIDE DEF B
      <3>1. B \in SUBSET SUBSET S
        BY DEF B
      <3>2. QED
        BY <2>1, <2>2, <3>1, MinimalSet
    <2>4. V # {}
      BY <2>3, SumEmpty
    <2> DEFINE x == First(V)
               W == V \ {x}
    <2>5. /\ SumFunctionOnSet(f, V) = f[x] + SumFunctionOnSet(f, W)
          /\ SumFunctionOnSet(g, V) = g[x] + SumFunctionOnSet(g, W)
      BY <2>2, <2>4, SumUnfold
    <2>6. x \in S /\ W \subseteq S /\ SumFunctionOnSet(f, W) <= SumFunctionOnSet(g, W)
      BY <2>3, <2>4, FirstIn
    <2>7. SumFunctionOnSet(f, W) \in Int /\ SumFunctionOnSet(g, W) \in Int
      <3>1. IsFiniteSet(W)
        BY <2>6, FS_Subset
      <3>2. \A y \in W : f[y] \in Int /\ g[y] \in Int
        BY <2>6
      <3> HIDE DEF W
      <3>3. QED
        BY <3>1, <3>2, SumInt
    <2>8. f[x] \in Int /\ g[x] \in Int /\ f[x] <= g[x]
      BY <2>6
    <2>9. ~(SumFunctionOnSet(f, V) <= SumFunctionOnSet(g, V))
      BY <2>3
    <2> HIDE DEF x, W
    <2>10. QED
      BY <2>5, <2>6, <2>7, <2>8, <2>9
  <1>2. QED
    BY <1>1 DEF SumFunction

\* A sum of zeros.
LEMMA ZeroSum ==
  ASSUME NEW S, IsFiniteSet(S)
  PROVE  SumFunction([x \in S |-> 0]) = 0
  <1> DEFINE f == [x \in S |-> 0]
             B == {V \in SUBSET S : SumFunctionOnSet(f, V) # 0}
  <1>1. B = {}
    <2>1. SUFFICES ASSUME B # {} PROVE FALSE
      OBVIOUS
    <2>2. \A V \in B : IsFiniteSet(V)
      BY FS_Subset
    <2>3. PICK V \in B : \A x \in V : V \ {x} \notin B
      <3> HIDE DEF B
      <3>1. B \in SUBSET SUBSET S
        BY DEF B
      <3>2. QED
        BY <2>1, <2>2, <3>1, MinimalSet
    <2>4. V # {}
      BY <2>3, SumEmpty
    <2>5. \A x \in V : f[x] = 0
      BY <2>3
    <2>6. First(V) \in V /\ SumFunctionOnSet(f, V \ {First(V)}) = 0
      BY <2>3, <2>4, FirstIn
    <2>7. SumFunctionOnSet(f, V) # 0
      BY <2>3
    <2>8. IsFiniteSet(V)
      BY <2>2, <2>3
    <2> HIDE DEF f, B
    <2>9. SumFunctionOnSet(f, V) = f[First(V)] + SumFunctionOnSet(f, V \ {First(V)})
      BY <2>4, <2>8, SumUnfold
    <2>10. QED
      BY <2>5, <2>6, <2>7, <2>9
  <1>2. QED
    BY <1>1 DEF SumFunction

=============================================================================
