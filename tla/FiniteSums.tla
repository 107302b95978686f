----------------------------- MODULE FiniteSums -----------------------------
(***************************************************************************)
(* Facts about the sum of the values of a function over a finite set: that *)
(* the recursive function it is defined by exists and is unique, and what  *)
(* the sum is for one element more or less, for a part of the set, and for *)
(* another function.                                                       *)
(*                                                                         *)
(* The induction theorems of the library take an operator, which the       *)
(* provers cannot instantiate.  Here a property of the subsets of a set S  *)
(* is itself a set, P, of the subsets that have it: a first-order fact.    *)
(***************************************************************************)
EXTENDS FiniteSetsExt, FiniteSetTheorems, TLAPS

(* Induction over the subsets of a finite set, the property as a set. *)
LEMMA SubsetInduction ==
  ASSUME NEW S, IsFiniteSet(S), NEW P,
         \A T \in SUBSET S : (\A U \in (SUBSET T) \ {T} : U \in P) => T \in P
  PROVE  \A T \in SUBSET S : T \in P
<1> DEFINE bad == {T \in SUBSET S : T \notin P}
<1>1. bad \subseteq FiniteSubsetsOf(S)
  BY FS_FiniteSubsetsOfFinite
<1>2. IsWellFoundedOn(StrictSubsetOrdering(S), FiniteSubsetsOf(S))
  BY FS_StrictSubsetOrderingWellFounded
<1>3. SUFFICES ASSUME bad # {} PROVE FALSE
  OBVIOUS
<1> HIDE DEF bad
<1>4. PICK T \in bad : \A U \in bad : <<U, T>> \notin StrictSubsetOrdering(S)
  BY <1>1, <1>2, <1>3, WFMin
<1>5. T \in SUBSET S /\ T \notin P
  BY <1>4 DEF bad
<1>6. PICK U \in (SUBSET T) \ {T} : U \notin P
  BY <1>5
<1>7. U \in bad /\ <<U, T>> \in StrictSubsetOrdering(S)
  BY <1>5, <1>6 DEF bad, StrictSubsetOrdering
<1> QED
  BY <1>4, <1>7

(* The same, one element at a time. *)
LEMMA RemovalInduction ==
  ASSUME NEW S, IsFiniteSet(S), NEW P, {} \in P,
         \A T \in SUBSET S : \A x \in T : T \ {x} \in P => T \in P
  PROVE  \A T \in SUBSET S : T \in P
<1>1. ASSUME NEW T \in SUBSET S, \A U \in (SUBSET T) \ {T} : U \in P
      PROVE  T \in P
  <2>1. CASE T = {}
    BY <2>1
  <2>2. ASSUME NEW x \in T
        PROVE  T \in P
    <3>1. T \ {x} \in (SUBSET T) \ {T}
      OBVIOUS
    <3> QED
      BY <1>1, <3>1
  <2> QED
    BY <2>1, <2>2
<1> QED
  BY <1>1, SubsetInduction

------------------------------------------------------------------------------
(* The function by which the sum is defined. *)
Chosen(s) == CHOOSE x \in s : TRUE
IsIter(g, f, S) ==
  g = [s \in SUBSET S |-> IF s = {} THEN 0 ELSE f[Chosen(s)] + g[s \ {Chosen(s)}]]

(* A set that is not empty has the element the sum takes first. *)
LEMMA ChosenIn == ASSUME NEW s, s # {} PROVE Chosen(s) \in s
BY DEF Chosen

(* The definition of the library, expanded. *)
LEMMA SumDef ==
  ASSUME NEW f, NEW S
  PROVE  SumFunctionOnSet(f, S) = (CHOOSE g : IsIter(g, f, S))[S]
BY DEF SumFunctionOnSet, FoldFunctionOnSet, MapThenFoldSet, IsIter, Chosen

LEMMA IterEquation ==
  ASSUME NEW g, NEW f, NEW S, IsIter(g, f, S), NEW s \in SUBSET S
  PROVE  g[s] = IF s = {} THEN 0 ELSE f[Chosen(s)] + g[s \ {Chosen(s)}]
BY DEF IsIter

(* Two such functions, of different sets, agree where both are defined. *)
LEMMA IterUnique ==
  ASSUME NEW f, NEW A, NEW B, NEW g, NEW h, IsIter(g, f, A), IsIter(h, f, B),
         NEW S, S \subseteq A, S \subseteq B, IsFiniteSet(S)
  PROVE  g[S] = h[S]
<1> DEFINE P == {s \in SUBSET S : g[s] = h[s]}
<1>1. ASSUME NEW s \in SUBSET S, \A u \in (SUBSET s) \ {s} : u \in P
      PROVE  s \in P
  <2>1. s \in SUBSET A /\ s \in SUBSET B
    OBVIOUS
  <2>2. CASE s = {}
    <3>1. g[s] = 0 /\ h[s] = 0
      BY <2>1, <2>2, IterEquation
    <3> QED
      BY <3>1
  <2>3. CASE s # {}
    <3>1. Chosen(s) \in s
      BY <2>3, ChosenIn
    <3>2. g[s \ {Chosen(s)}] = h[s \ {Chosen(s)}]
      BY <1>1, <3>1
    <3>3. g[s] = f[Chosen(s)] + g[s \ {Chosen(s)}]
      BY <2>1, <2>3, IterEquation
    <3>4. h[s] = f[Chosen(s)] + h[s \ {Chosen(s)}]
      BY <2>1, <2>3, IterEquation
    <3> QED
      BY <3>2, <3>3, <3>4
  <2> QED
    BY <2>2, <2>3
<1> HIDE DEF P
<1>2. S \in P
  BY <1>1, SubsetInduction
<1> QED
  BY <1>2 DEF P

(* There is such a function: each value is taken from that of a smaller set. *)
LEMMA IterExists ==
  ASSUME NEW f, NEW S, IsFiniteSet(S)
  PROVE  \E g : IsIter(g, f, S)
<1> DEFINE P == {s \in SUBSET S : \E g : IsIter(g, f, s)}
<1>1. ASSUME NEW s \in SUBSET S, \A u \in (SUBSET s) \ {s} : u \in P
      PROVE  \E g : IsIter(g, f, s)
  <2> DEFINE G == [u \in (SUBSET s) \ {s} |-> CHOOSE g : IsIter(g, f, u)]
             rest(u) == u \ {Chosen(u)}
             v(u) == IF u = {} THEN 0 ELSE f[Chosen(u)] + G[rest(u)][rest(u)]
             h == [u \in SUBSET s |-> v(u)]
  <2>1. ASSUME NEW u \in (SUBSET s) \ {s}
        PROVE  IsIter(G[u], f, u) /\ IsFiniteSet(u)
    <3>1. \E g : IsIter(g, f, u)
      BY <1>1
    <3>2. IsFiniteSet(u)
      BY FS_Subset
    <3> QED
      BY <3>1, <3>2
  <2>2. ASSUME NEW u \in SUBSET s, u # {}
        PROVE  rest(u) \in (SUBSET s) \ {s} /\ rest(u) \in SUBSET u /\ rest(u) # u
    BY <2>2, ChosenIn
  <2>3. ASSUME NEW u \in (SUBSET s) \ {s}
        PROVE  G[u][u] = v(u)
    <3>1. CASE u = {}
      <4>1. IsIter(G[u], f, u) /\ u \in SUBSET u
        BY <2>1
      <4> HIDE DEF G
      <4>2. G[u][u] = 0
        BY <3>1, <4>1, IterEquation
      <4> QED
        BY <3>1, <4>2
    <3>2. CASE u # {}
      <4>1. rest(u) \in (SUBSET s) \ {s} /\ rest(u) \in SUBSET u
        BY <2>2, <3>2
      <4>2. IsIter(G[u], f, u) /\ IsIter(G[rest(u)], f, rest(u)) /\ IsFiniteSet(rest(u))
        BY <2>1, <4>1
      <4> HIDE DEF G
      <4>3. G[u][rest(u)] = G[rest(u)][rest(u)]
        <5> DEFINE r == rest(u)
        <5>1. r \subseteq u /\ r \subseteq r
          BY <4>1
        <5>2. IsIter(G[u], f, u) /\ IsIter(G[r], f, r) /\ IsFiniteSet(r)
          BY <4>2
        <5> HIDE DEF r
        <5>3. G[u][r] = G[r][r]
          BY <5>1, <5>2, IterUnique
        <5> QED
          BY <5>3 DEF r
      <4>4. G[u][u] = f[Chosen(u)] + G[u][u \ {Chosen(u)}]
        BY <3>2, <4>2, IterEquation
      <4> QED
        BY <3>2, <4>3, <4>4
    <3> QED
      BY <3>1, <3>2
  <2>4. ASSUME NEW u \in SUBSET s
        PROVE  v(u) = IF u = {} THEN 0 ELSE f[Chosen(u)] + h[u \ {Chosen(u)}]
    <3>1. CASE u = {}
      BY <3>1
    <3>2. CASE u # {}
      <4>1. rest(u) \in (SUBSET s) \ {s}
        BY <2>2, <3>2
      <4>2. G[rest(u)][rest(u)] = v(rest(u))
        BY <2>3, <4>1
      <4>3. h[rest(u)] = v(rest(u))
        BY <4>1
      <4>4. v(u) = f[Chosen(u)] + G[rest(u)][rest(u)]
        BY <3>2
      <4> HIDE DEF v, h, G
      <4> QED
        BY <3>2, <4>2, <4>3, <4>4
    <3> QED
      BY <3>1, <3>2
  <2>5. h = [u \in SUBSET s |-> IF u = {} THEN 0 ELSE f[Chosen(u)] + h[u \ {Chosen(u)}]]
    <3>1. \A u \in SUBSET s : h[u] = IF u = {} THEN 0 ELSE f[Chosen(u)] + h[u \ {Chosen(u)}]
      BY <2>4
    <3>2. h = [u \in SUBSET s |-> h[u]]
      OBVIOUS
    <3> HIDE DEF h
    <3> QED
      BY <3>1, <3>2
  <2>6. IsIter(h, f, s)
    <3> HIDE DEF h
    <3> QED
      BY <2>5 DEF IsIter
  <2> QED
    BY <2>6
<1>2. \A s \in SUBSET S : (\A u \in (SUBSET s) \ {s} : u \in P) => s \in P
  BY <1>1
<1> HIDE DEF P
<1>3. S \in P
  BY <1>2, SubsetInduction
<1> QED
  BY <1>3 DEF P

------------------------------------------------------------------------------
(* The sum over a set, by any of its elements. *)
LEMMA SumEmpty ==
  ASSUME NEW f
  PROVE  SumFunctionOnSet(f, {}) = 0
<1> DEFINE g == CHOOSE h : IsIter(h, f, {})
<1>1. \E h : IsIter(h, f, {})
  BY IterExists, FS_EmptySet
<1>2. IsIter(g, f, {})
  BY <1>1
<1> HIDE DEF g
<1>3. g[{}] = 0
  BY <1>2, IterEquation
<1> QED
  BY <1>3, SumDef DEF g

LEMMA SumChosen ==
  ASSUME NEW f, NEW S, IsFiniteSet(S), S # {}
  PROVE  SumFunctionOnSet(f, S) = f[Chosen(S)] + SumFunctionOnSet(f, S \ {Chosen(S)})
<1> DEFINE T == S \ {Chosen(S)}
           g == CHOOSE i : IsIter(i, f, S)
           h == CHOOSE i : IsIter(i, f, T)
<1>1. IsFiniteSet(T) /\ T \subseteq S /\ T \subseteq T /\ S \in SUBSET S
  BY FS_RemoveElement
<1> HIDE DEF T
<1>2. (\E i : IsIter(i, f, S)) /\ \E i : IsIter(i, f, T)
  BY <1>1, IterExists
<1>3. IsIter(g, f, S) /\ IsIter(h, f, T)
  BY <1>2
<1>4. SumFunctionOnSet(f, S) = g[S] /\ SumFunctionOnSet(f, T) = h[T]
  BY SumDef
<1> HIDE DEF g, h
<1>5. g[T] = h[T]
  BY <1>1, <1>3, IterUnique
<1>6. g[S] = f[Chosen(S)] + g[S \ {Chosen(S)}]
  BY <1>1, <1>3, IterEquation
<1> QED
  BY <1>4, <1>5, <1>6 DEF T

LEMMA SumIsNat ==
  ASSUME NEW f, NEW S, IsFiniteSet(S), \A s \in S : f[s] \in Nat
  PROVE  SumFunctionOnSet(f, S) \in Nat
<1> DEFINE P == {T \in SUBSET S : SumFunctionOnSet(f, T) \in Nat}
<1>1. ASSUME NEW T \in SUBSET S, \A U \in (SUBSET T) \ {T} : U \in P
      PROVE  T \in P
  <2>1. CASE T = {}
    BY <2>1, SumEmpty
  <2>2. CASE T # {}
    <3>1. Chosen(T) \in T /\ IsFiniteSet(T)
      BY <2>2, ChosenIn, FS_Subset
    <3>2. SumFunctionOnSet(f, T \ {Chosen(T)}) \in Nat
      BY <1>1, <3>1
    <3>3. f[Chosen(T)] \in Nat
      BY <3>1
    <3> QED
      BY <2>2, <3>1, <3>2, <3>3, SumChosen
  <2> QED
    BY <2>1, <2>2
<1> HIDE DEF P
<1>2. S \in P
  BY <1>1, SubsetInduction
<1> QED
  BY <1>2 DEF P

(* Any element may be taken first, as addition commutes. *)
LEMMA SumRemove ==
  ASSUME NEW f, NEW S, IsFiniteSet(S), \A s \in S : f[s] \in Nat, NEW x \in S
  PROVE  SumFunctionOnSet(f, S) = f[x] + SumFunctionOnSet(f, S \ {x})
<1> DEFINE Removes(T) ==
             \A y \in T : SumFunctionOnSet(f, T) = f[y] + SumFunctionOnSet(f, T \ {y})
           P == {T \in SUBSET S : Removes(T)}
<1>1. ASSUME NEW T \in SUBSET S, \A U \in (SUBSET T) \ {T} : U \in P
      PROVE  Removes(T)
  <2>1. SUFFICES ASSUME NEW y \in T
                 PROVE  SumFunctionOnSet(f, T) = f[y] + SumFunctionOnSet(f, T \ {y})
    OBVIOUS
  <2> DEFINE c == Chosen(T)
  <2>2. c \in T /\ IsFiniteSet(T)
    BY ChosenIn, FS_Subset
  <2>3. SumFunctionOnSet(f, T) = f[c] + SumFunctionOnSet(f, T \ {c})
    BY <2>2, SumChosen
  <2> HIDE DEF c
  <2>4. CASE y = c
    BY <2>3, <2>4
  <2>5. CASE y # c
    <3>1. T \ {c} \in P /\ T \ {y} \in P
      BY <1>1, <2>2
    <3>2. SumFunctionOnSet(f, T \ {c}) = f[y] + SumFunctionOnSet(f, (T \ {c}) \ {y})
      BY <2>5, <3>1
    <3>3. SumFunctionOnSet(f, T \ {y}) = f[c] + SumFunctionOnSet(f, (T \ {y}) \ {c})
      BY <2>2, <2>5, <3>1
    <3> DEFINE R == (T \ {c}) \ {y}
    <3>4. (T \ {y}) \ {c} = R
      OBVIOUS
    <3>5. IsFiniteSet(R) /\ \A s \in R : f[s] \in Nat
      BY <2>2, FS_Subset
    <3> HIDE DEF R
    <3>6. SumFunctionOnSet(f, R) \in Nat
      BY <3>5, SumIsNat
    <3>7. f[y] \in Nat /\ f[c] \in Nat
      BY <2>2
    <3>8. SumFunctionOnSet(f, T \ {c}) = f[y] + SumFunctionOnSet(f, R)
      BY <3>2 DEF R
    <3>9. SumFunctionOnSet(f, T \ {y}) = f[c] + SumFunctionOnSet(f, R)
      BY <3>3, <3>4
    <3> QED
      BY <2>3, <3>6, <3>7, <3>8, <3>9
  <2> QED
    BY <2>4, <2>5
<1>2. \A T \in SUBSET S : (\A U \in (SUBSET T) \ {T} : U \in P) => T \in P
  BY <1>1
<1> HIDE DEF P
<1>3. S \in P
  BY <1>2, SubsetInduction
<1> QED
  BY <1>3 DEF P

(* Functions that agree on the set. *)
LEMMA SumEqual ==
  ASSUME NEW f, NEW g, NEW S, IsFiniteSet(S), \A s \in S : f[s] = g[s]
  PROVE  SumFunctionOnSet(f, S) = SumFunctionOnSet(g, S)
<1> DEFINE P == {T \in SUBSET S : SumFunctionOnSet(f, T) = SumFunctionOnSet(g, T)}
<1>1. ASSUME NEW T \in SUBSET S, \A U \in (SUBSET T) \ {T} : U \in P
      PROVE  T \in P
  <2>1. CASE T = {}
    BY <2>1, SumEmpty
  <2>2. CASE T # {}
    <3>1. Chosen(T) \in T /\ IsFiniteSet(T)
      BY <2>2, ChosenIn, FS_Subset
    <3>2. SumFunctionOnSet(f, T \ {Chosen(T)}) = SumFunctionOnSet(g, T \ {Chosen(T)})
      BY <1>1, <3>1
    <3>3. f[Chosen(T)] = g[Chosen(T)]
      BY <3>1
    <3>4. SumFunctionOnSet(f, T) = f[Chosen(T)] + SumFunctionOnSet(f, T \ {Chosen(T)})
      BY <2>2, <3>1, SumChosen
    <3>5. SumFunctionOnSet(g, T) = g[Chosen(T)] + SumFunctionOnSet(g, T \ {Chosen(T)})
      BY <2>2, <3>1, SumChosen
    <3> QED
      BY <3>2, <3>3, <3>4, <3>5
  <2> QED
    BY <2>1, <2>2
<1> HIDE DEF P
<1>2. S \in P
  BY <1>1, SubsetInduction
<1> QED
  BY <1>2 DEF P

LEMMA SumAdd ==
  ASSUME NEW f, NEW S, IsFiniteSet(S), NEW x, x \notin S, f[x] \in Nat,
         \A s \in S : f[s] \in Nat
  PROVE  SumFunctionOnSet(f, S \cup {x}) = f[x] + SumFunctionOnSet(f, S)
<1> DEFINE T == S \cup {x}
<1>1. IsFiniteSet(T) /\ x \in T /\ (\A s \in T : f[s] \in Nat) /\ T \ {x} = S
  BY FS_AddElement
<1> HIDE DEF T
<1>2. SumFunctionOnSet(f, T) = f[x] + SumFunctionOnSet(f, T \ {x})
  BY <1>1, SumRemove
<1> QED
  BY <1>1, <1>2 DEF T

(* A set is what a subset of it adds up to, and the rest. *)
LEMMA SumSplit ==
  ASSUME NEW f, NEW S, IsFiniteSet(S), \A s \in S : f[s] \in Nat, NEW T \in SUBSET S
  PROVE  SumFunctionOnSet(f, S) = SumFunctionOnSet(f, T) + SumFunctionOnSet(f, S \ T)
<1> DEFINE Splits(U) ==
             SumFunctionOnSet(f, S) = SumFunctionOnSet(f, U) + SumFunctionOnSet(f, S \ U)
           P == {U \in SUBSET S : Splits(U)}
<1>1. {} \in P
  <2>1. SumFunctionOnSet(f, S) \in Nat /\ SumFunctionOnSet(f, {}) = 0 /\ S \ {} = S
    BY SumIsNat, SumEmpty
  <2> QED
    BY <2>1
<1>2. ASSUME NEW U \in SUBSET S, NEW x \in U, U \ {x} \in P
      PROVE  U \in P
  <2> DEFINE V == U \ {x}
             W == S \ U
  <2>1. /\ IsFiniteSet(U) /\ IsFiniteSet(V) /\ IsFiniteSet(W)
        /\ \A s \in S : f[s] \in Nat
        /\ x \notin W /\ S \ V = W \cup {x}
    BY FS_Subset
  <2>2. SumFunctionOnSet(f, S) = SumFunctionOnSet(f, V) + SumFunctionOnSet(f, S \ V)
    BY <1>2
  <2>3. SumFunctionOnSet(f, U) = f[x] + SumFunctionOnSet(f, V)
    BY <2>1, SumRemove
  <2>4. (\A s \in V : f[s] \in Nat) /\ (\A s \in W : f[s] \in Nat) /\ f[x] \in Nat
    BY <2>1
  <2> HIDE DEF V, W
  <2>5. SumFunctionOnSet(f, W \cup {x}) = f[x] + SumFunctionOnSet(f, W)
    BY <2>1, <2>4, SumAdd
  <2>6. SumFunctionOnSet(f, V) \in Nat /\ SumFunctionOnSet(f, W) \in Nat
    BY <2>1, <2>4, SumIsNat
  <2>7. Splits(U)
    <3>1. SumFunctionOnSet(f, S \ V) = f[x] + SumFunctionOnSet(f, W)
      BY <2>1, <2>5
    <3>2. SumFunctionOnSet(f, S) = SumFunctionOnSet(f, U) + SumFunctionOnSet(f, W)
      BY <2>2, <2>3, <2>4, <2>6, <3>1
    <3> QED
      BY <3>2 DEF W
  <2> QED
    BY <2>7
<1>3. \A U \in SUBSET S : \A x \in U : U \ {x} \in P => U \in P
  BY <1>2
<1> HIDE DEF P
<1>4. IsFiniteSet(S)
  OBVIOUS
<1>5. \A U \in SUBSET S : U \in P
  BY ONLY <1>1, <1>3, <1>4, RemovalInduction
<1> QED
  BY <1>5 DEF P

(* A part adds up to no more than the whole. *)
LEMMA SumOfSubset ==
  ASSUME NEW f, NEW S, IsFiniteSet(S), \A s \in S : f[s] \in Nat, NEW T \in SUBSET S
  PROVE  SumFunctionOnSet(f, T) <= SumFunctionOnSet(f, S)
<1>1. IsFiniteSet(T) /\ IsFiniteSet(S \ T)
  BY FS_Subset
<1>2. SumFunctionOnSet(f, T) \in Nat /\ SumFunctionOnSet(f, S \ T) \in Nat
  BY <1>1, SumIsNat
<1> QED
  BY <1>2, SumSplit

(* One value changes. *)
LEMMA SumChange ==
  ASSUME NEW f, NEW g, NEW S, IsFiniteSet(S), NEW x \in S,
         \A s \in S : f[s] \in Nat /\ g[s] \in Nat,
         \A s \in S \ {x} : f[s] = g[s]
  PROVE  SumFunctionOnSet(g, S) + f[x] = SumFunctionOnSet(f, S) + g[x]
<1>1. IsFiniteSet(S \ {x})
  BY FS_RemoveElement
<1>2. SumFunctionOnSet(f, S \ {x}) = SumFunctionOnSet(g, S \ {x})
  BY <1>1, SumEqual
<1>3. SumFunctionOnSet(f, S) = f[x] + SumFunctionOnSet(f, S \ {x})
  BY SumRemove
<1>4. SumFunctionOnSet(g, S) = g[x] + SumFunctionOnSet(g, S \ {x})
  BY SumRemove
<1>5. SumFunctionOnSet(f, S \ {x}) \in Nat
  BY <1>1, SumIsNat
<1> QED
  BY <1>2, <1>3, <1>4, <1>5

(* The sum of two functions. *)
LEMMA SumOfSum ==
  ASSUME NEW f, NEW g, NEW h, NEW S, IsFiniteSet(S),
         \A s \in S : f[s] \in Nat /\ g[s] \in Nat /\ h[s] = f[s] + g[s]
  PROVE  SumFunctionOnSet(h, S) = SumFunctionOnSet(f, S) + SumFunctionOnSet(g, S)
<1> DEFINE P == {T \in SUBSET S : SumFunctionOnSet(h, T)
                                   = SumFunctionOnSet(f, T) + SumFunctionOnSet(g, T)}
<1>1. {} \in P
  BY SumEmpty
<1>2. ASSUME NEW T \in SUBSET S, NEW x \in T, T \ {x} \in P
      PROVE  T \in P
  <2>1. IsFiniteSet(T) /\ IsFiniteSet(T \ {x})
    BY FS_Subset
  <2>2. \A s \in T : f[s] \in Nat /\ g[s] \in Nat /\ h[s] \in Nat
    OBVIOUS
  <2>3. SumFunctionOnSet(f, T) = f[x] + SumFunctionOnSet(f, T \ {x})
    BY <2>1, <2>2, SumRemove
  <2>4. SumFunctionOnSet(g, T) = g[x] + SumFunctionOnSet(g, T \ {x})
    BY <2>1, <2>2, SumRemove
  <2>5. SumFunctionOnSet(h, T) = h[x] + SumFunctionOnSet(h, T \ {x})
    BY <2>1, <2>2, SumRemove
  <2>6. SumFunctionOnSet(f, T \ {x}) \in Nat /\ SumFunctionOnSet(g, T \ {x}) \in Nat
    BY <2>1, <2>2, SumIsNat
  <2>7. h[x] = f[x] + g[x] /\ f[x] \in Nat /\ g[x] \in Nat
    OBVIOUS
  <2>8. SumFunctionOnSet(h, T \ {x})
          = SumFunctionOnSet(f, T \ {x}) + SumFunctionOnSet(g, T \ {x})
    BY <1>2
  <2> QED
    BY <2>3, <2>4, <2>5, <2>6, <2>7, <2>8
<1> HIDE DEF P
<1>3. S \in P
  BY <1>1, <1>2, RemovalInduction
<1> QED
  BY <1>3 DEF P

LEMMA SumOfZeros ==
  ASSUME NEW f, NEW S, IsFiniteSet(S), \A s \in S : f[s] = 0
  PROVE  SumFunctionOnSet(f, S) = 0
<1> DEFINE P == {T \in SUBSET S : SumFunctionOnSet(f, T) = 0}
<1>1. {} \in P
  BY SumEmpty
<1>2. ASSUME NEW T \in SUBSET S, NEW x \in T, T \ {x} \in P
      PROVE  T \in P
  <2>1. IsFiniteSet(T) /\ (\A s \in T : f[s] \in Nat) /\ f[x] = 0
    BY FS_Subset
  <2>2. SumFunctionOnSet(f, T) = f[x] + SumFunctionOnSet(f, T \ {x})
    BY <2>1, SumRemove
  <2> QED
    BY <1>2, <2>1, <2>2
<1> HIDE DEF P
<1>3. \A T \in SUBSET S : \A x \in T : T \ {x} \in P => T \in P
  BY <1>2 DEF P
<1>4. IsFiniteSet(S)
  OBVIOUS
<1>5. \A T \in SUBSET S : T \in P
  BY ONLY <1>1, <1>3, <1>4, RemovalInduction
<1> QED
  BY <1>5 DEF P

(* Greater values add up to no less. *)
LEMMA SumMonotone ==
  ASSUME NEW f, NEW g, NEW S, IsFiniteSet(S),
         \A s \in S : f[s] \in Nat /\ g[s] \in Nat /\ f[s] <= g[s]
  PROVE  SumFunctionOnSet(f, S) <= SumFunctionOnSet(g, S)
<1> DEFINE h == [s \in S |-> g[s] - f[s]]
<1>1. \A s \in S : f[s] \in Nat /\ h[s] \in Nat /\ g[s] = f[s] + h[s]
  OBVIOUS
<1> HIDE DEF h
<1>2. SumFunctionOnSet(g, S) = SumFunctionOnSet(f, S) + SumFunctionOnSet(h, S)
  BY <1>1, SumOfSum
<1>3. SumFunctionOnSet(f, S) \in Nat /\ SumFunctionOnSet(h, S) \in Nat
  BY <1>1, SumIsNat
<1> QED
  BY <1>2, <1>3

(* A set of natural numbers has a least element. *)
LEMMA MinIsLeast ==
  ASSUME NEW S, S \subseteq Nat, S # {}
  PROVE  Min(S) \in S
<1>1. PICK x \in S : \A y \in S : ~(<<y, x>> \in OpToRel(<, Nat))
  BY NatLessThanWellFounded, WFMin
<1>2. \A y \in S : x <= y
  <2> SUFFICES ASSUME NEW y \in S, ~(x <= y) PROVE FALSE
    OBVIOUS
  <2>1. x \in Nat /\ y \in Nat /\ y < x
    OBVIOUS
  <2>2. <<y, x>> \in OpToRel(<, Nat)
    BY <2>1 DEF OpToRel
  <2> QED
    BY <1>1, <2>2
<1> QED
  BY <1>1, <1>2 DEF Min
=============================================================================
