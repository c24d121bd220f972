---------------------------- MODULE SumTheorems ----------------------------
(***************************************************************************)
(* Facts about SumFunctionOnSet of the community modules, the sum of the   *)
(* values of a function over a finite set of indices.  The quantities that *)
(* the ledgers and movement tables add up are such sums.                   *)
(*                                                                         *)
(* The sum is a recursive function on the subsets of the index set.  That  *)
(* it exists is shown here from the well-foundedness of strict inclusion:  *)
(* a smallest set without a sum would have one.                            *)
(***************************************************************************)
EXTENDS Integers, FiniteSetsExt, FiniteSetTheorems, TLAPS

(* The element that a fold takes out of a set *)
Pick(s) == CHOOSE x \in s : TRUE

(* g is the sum of f over each subset of S. *)
Sums(g, f, S) ==
    g = [s \in SUBSET S |-> IF s = {} THEN 0 ELSE f[Pick(s)] + g[s \ {Pick(s)}]]

-----------------------------------------------------------------------------
(* Induction over finite sets, in terms of sets *)

LEMMA MinimalSet ==
  ASSUME NEW S, IsFiniteSet(S), NEW B, B \subseteq SUBSET S, B # {}
  PROVE  \E T \in B : \A U \in B : U \subseteq T => U = T
<1>1. PICK T \in B : \A U \in B : ~(<<U, T>> \in StrictSubsetOrdering(S))
  <2>1. B \subseteq FiniteSubsetsOf(S)
    BY FS_FiniteSubsetsOfFinite
  <2> QED
    BY <2>1, FS_StrictSubsetOrderingWellFounded, WFMin
<1>2. ASSUME NEW U \in B, U \subseteq T, U # T PROVE FALSE
  <2>1. U \in SUBSET S /\ T \in SUBSET S
    OBVIOUS
  <2>2. <<U, T>> \in StrictSubsetOrdering(S)
    BY <1>2, <2>1 DEF StrictSubsetOrdering
  <2> QED
    BY <1>1, <2>2
<1> QED
  BY <1>2

LEMMA FiniteInduction ==
  ASSUME NEW S, IsFiniteSet(S), NEW P, {} \in P,
         \A T \in SUBSET S : \A x \in S \ T : T \in P => T \cup {x} \in P
  PROVE  S \in P
<1> DEFINE B == (SUBSET S) \ P
<1>1. SUFFICES ASSUME S \notin P PROVE FALSE
  OBVIOUS
<1>2. B \subseteq SUBSET S /\ B # {}
  BY <1>1
<1>3. PICK T \in B : \A U \in B : U \subseteq T => U = T
  <2> HIDE DEF B
  <2> QED
    BY <1>2, MinimalSet
<1>4. PICK x \in T : TRUE
  BY <1>3
<1>5. T \ {x} \in SUBSET S /\ x \in S \ (T \ {x}) /\ (T \ {x}) \cup {x} = T
  BY <1>3, <1>4
<1>6. T \ {x} \in P
  BY <1>3, <1>4, <1>5
<1> QED
  BY <1>3, <1>5, <1>6

-----------------------------------------------------------------------------
(* The sum exists *)

LEMMA PickIn == ASSUME NEW s, s # {} PROVE Pick(s) \in s
BY DEF Pick

LEMMA SumChosen == ASSUME NEW f, NEW S PROVE SumFunctionOnSet(f, S) = (CHOOSE g : Sums(g, f, S))[S]
BY DEF SumFunctionOnSet, FoldFunctionOnSet, MapThenFoldSet, Sums, Pick

LEMMA SumsUnique ==
  ASSUME NEW S, IsFiniteSet(S), NEW f, NEW g, NEW h, Sums(g, f, S), Sums(h, f, S)
  PROVE  \A T \in SUBSET S : g[T] = h[T]
<1> DEFINE B == {T \in SUBSET S : g[T] # h[T]}
<1>1. SUFFICES ASSUME B # {} PROVE FALSE
  OBVIOUS
<1>2. PICK T \in B : \A U \in B : U \subseteq T => U = T
  <2>1. B \subseteq SUBSET S
    OBVIOUS
  <2> HIDE DEF B
  <2> QED
    BY <1>1, <2>1, MinimalSet
<1>3. T # {}
  BY DEF Sums
<1>4. Pick(T) \in T
  BY <1>3, PickIn
<1>5. g[T \ {Pick(T)}] = h[T \ {Pick(T)}]
  BY <1>2, <1>4
<1>6. /\ g[T] = f[Pick(T)] + g[T \ {Pick(T)}]
      /\ h[T] = f[Pick(T)] + h[T \ {Pick(T)}]
  BY <1>3 DEF Sums
<1> QED
  BY <1>5, <1>6

(* What sums over a set sums over its subsets. *)
LEMMA SumsBelow ==
  ASSUME NEW S, NEW T \in SUBSET S, NEW f, NEW g, Sums(g, f, S)
  PROVE  Sums([s \in SUBSET T |-> g[s]], f, T)
<1> DEFINE h == [s \in SUBSET T |-> g[s]]
<1>1. ASSUME NEW s \in SUBSET T
      PROVE  h[s] = IF s = {} THEN 0 ELSE f[Pick(s)] + h[s \ {Pick(s)}]
  <2>1. s \in SUBSET S /\ s \ {Pick(s)} \in SUBSET T
    OBVIOUS
  <2>2. g[s] = IF s = {} THEN 0 ELSE f[Pick(s)] + g[s \ {Pick(s)}]
    BY <2>1 DEF Sums
  <2> QED
    BY <2>1, <2>2
<1> QED
  BY <1>1 DEF Sums

LEMMA SumOf ==
  ASSUME NEW S, IsFiniteSet(S), NEW f, NEW g, Sums(g, f, S), NEW T \in SUBSET S
  PROVE  SumFunctionOnSet(f, T) = g[T]
<1> DEFINE h == [s \in SUBSET T |-> g[s]]
           k == CHOOSE x : Sums(x, f, T)
<1>1. Sums(h, f, T)
  BY SumsBelow
<1>2. Sums(k, f, T)
  <2> HIDE DEF h
  <2> QED
    BY <1>1
<1>3. IsFiniteSet(T)
  BY FS_Subset
<1>4. k[T] = h[T]
  <2> HIDE DEF h, k
  <2> QED
    BY <1>1, <1>2, <1>3, SumsUnique
<1>5. h[T] = g[T]
  OBVIOUS
<1> QED
  BY <1>4, <1>5, SumChosen

LEMMA SumsExist == ASSUME NEW S, IsFiniteSet(S), NEW f PROVE \E g : Sums(g, f, S)
<1> DEFINE B == {T \in SUBSET S : ~ \E g : Sums(g, f, T)}
           V(T) == SumFunctionOnSet(f, T)
<1>1. SUFFICES ASSUME B # {} PROVE FALSE
  <2>1. S \in SUBSET S
    OBVIOUS
  <2> QED
    BY <1>1, <2>1
<1>2. PICK U \in B : \A T \in B : T \subseteq U => T = U
  <2>1. B \subseteq SUBSET S
    OBVIOUS
  <2> HIDE DEF B
  <2> QED
    BY <1>1, <2>1, MinimalSet
<1>3. ASSUME NEW T \in SUBSET U, T # U
      PROVE  V(T) = IF T = {} THEN 0 ELSE f[Pick(T)] + V(T \ {Pick(T)})
  <2>1. PICK g : Sums(g, f, T)
    BY <1>2, <1>3
  <2>2. IsFiniteSet(T)
    BY <1>2, FS_Subset
  <2>3. T \in SUBSET T /\ T \ {Pick(T)} \in SUBSET T
    OBVIOUS
  <2>4. V(T) = g[T] /\ V(T \ {Pick(T)}) = g[T \ {Pick(T)}]
    BY <2>1, <2>2, <2>3, SumOf
  <2>5. g[T] = IF T = {} THEN 0 ELSE f[Pick(T)] + g[T \ {Pick(T)}]
    BY <2>1, <2>3 DEF Sums
  <2> QED
    BY <2>4, <2>5
<1> HIDE DEF V
<1> DEFINE h == [s \in SUBSET U |-> IF s = {} THEN 0 ELSE f[Pick(s)] + V(s \ {Pick(s)})]
<1>4. ASSUME NEW s \in SUBSET U, s # {} PROVE V(s \ {Pick(s)}) = h[s \ {Pick(s)}]
  <2>1. Pick(s) \in s
    BY <1>4, PickIn
  <2>2. s \ {Pick(s)} \in SUBSET U /\ s \ {Pick(s)} # U
    BY <2>1
  <2> QED
    BY <1>3, <2>2
<1>5. Sums(h, f, U)
  <2>1. h = [s \in SUBSET U |-> IF s = {} THEN 0 ELSE f[Pick(s)] + h[s \ {Pick(s)}]]
    BY <1>4
  <2> HIDE DEF h
  <2> QED
    BY <2>1 DEF Sums
<1> QED
  BY <1>2, <1>5

-----------------------------------------------------------------------------
(* What the sum is *)

LEMMA SumEmpty == ASSUME NEW f PROVE SumFunctionOnSet(f, {}) = 0
<1>1. IsFiniteSet({}) /\ {} \in SUBSET {}
  BY FS_EmptySet
<1>2. PICK g : Sums(g, f, {})
  BY <1>1, SumsExist
<1>3. g[{}] = 0
  BY <1>1, <1>2 DEF Sums
<1> QED
  BY <1>1, <1>2, <1>3, SumOf

LEMMA SumPick ==
  ASSUME NEW S, IsFiniteSet(S), S # {}, NEW f
  PROVE  SumFunctionOnSet(f, S) = f[Pick(S)] + SumFunctionOnSet(f, S \ {Pick(S)})
<1>1. PICK g : Sums(g, f, S)
  BY SumsExist
<1>2. S \in SUBSET S /\ S \ {Pick(S)} \in SUBSET S
  OBVIOUS
<1>3. SumFunctionOnSet(f, S) = g[S] /\ SumFunctionOnSet(f, S \ {Pick(S)}) = g[S \ {Pick(S)}]
  BY <1>1, <1>2, SumOf
<1>4. g[S] = f[Pick(S)] + g[S \ {Pick(S)}]
  BY <1>1, <1>2 DEF Sums
<1> QED
  BY <1>3, <1>4

(* The sum depends on the values of the indices alone. *)
LEMMA SumSame ==
  ASSUME NEW S, IsFiniteSet(S), NEW f, NEW g, \A x \in S : f[x] = g[x]
  PROVE  SumFunctionOnSet(f, S) = SumFunctionOnSet(g, S)
<1> DEFINE F(T) == SumFunctionOnSet(f, T)
           G(T) == SumFunctionOnSet(g, T)
           B == {T \in SUBSET S : F(T) # G(T)}
<1>1. SUFFICES ASSUME B # {} PROVE FALSE
  OBVIOUS
<1>2. PICK T \in B : \A U \in B : U \subseteq T => U = T
  <2>1. B \subseteq SUBSET S
    OBVIOUS
  <2> HIDE DEF B
  <2> QED
    BY <1>1, <2>1, MinimalSet
<1>3. T # {}
  BY SumEmpty
<1>4. Pick(T) \in T /\ IsFiniteSet(T)
  BY <1>3, PickIn, FS_Subset
<1>5. F(T) = f[Pick(T)] + F(T \ {Pick(T)}) /\ G(T) = g[Pick(T)] + G(T \ {Pick(T)})
  BY <1>3, <1>4, SumPick
<1> HIDE DEF F, G
<1>6. F(T \ {Pick(T)}) = G(T \ {Pick(T)})
  BY <1>2, <1>4
<1> QED
  BY <1>4, <1>5, <1>6

(* Whichever element is taken out first, the sum is the same. *)
LEMMA SumRemove ==
  ASSUME NEW S, IsFiniteSet(S), NEW f, \A x \in S : f[x] \in Int
  PROVE  /\ SumFunctionOnSet(f, S) \in Int
         /\ \A x \in S : SumFunctionOnSet(f, S) = f[x] + SumFunctionOnSet(f, S \ {x})
<1> DEFINE F(T) == SumFunctionOnSet(f, T)
           Good(T) == F(T) \in Int /\ \A x \in T : F(T) = f[x] + F(T \ {x})
           B == {T \in SUBSET S : ~Good(T)}
<1>1. SUFFICES ASSUME B # {} PROVE FALSE
  <2>1. S \in SUBSET S
    OBVIOUS
  <2> QED
    BY <1>1, <2>1
<1>2. PICK T \in B : \A U \in B : U \subseteq T => U = T
  <2>1. B \subseteq SUBSET S
    OBVIOUS
  <2> HIDE DEF B
  <2> QED
    BY <1>1, <2>1, MinimalSet
<1>3. T # {}
  <2>1. F({}) = 0
    BY SumEmpty
  <2>2. Good({})
    BY <2>1
  <2>3. ~Good(T)
    BY <1>2
  <2> HIDE DEF Good
  <2> QED
    BY <2>2, <2>3
<1> DEFINE a == Pick(T)
<1>4. a \in T /\ IsFiniteSet(T)
  BY <1>3, PickIn, FS_Subset
<1>5. F(T) = f[a] + F(T \ {a})
  BY <1>3, <1>4, SumPick
<1> HIDE DEF F, a
<1>6. ASSUME NEW U \in SUBSET T, U # T PROVE Good(U)
  BY <1>2, <1>6
<1>7. Good(T \ {a})
  BY <1>4, <1>6
<1>8. F(T) \in Int
  BY <1>4, <1>5, <1>7
<1>9. ASSUME NEW x \in T PROVE F(T) = f[x] + F(T \ {x})
  <2>1. CASE x = a
    BY <1>5, <2>1
  <2>2. CASE x # a
    <3>1. Good(T \ {x})
      BY <1>6
    <3>2. F(T \ {a}) = f[x] + F((T \ {a}) \ {x})
      BY <1>7, <2>2
    <3>3. F(T \ {x}) = f[a] + F((T \ {x}) \ {a})
      BY <1>4, <2>2, <3>1
    <3>4. (T \ {a}) \ {x} = (T \ {x}) \ {a}
      OBVIOUS
    <3>5. Good((T \ {x}) \ {a})
      BY <1>6
    <3> DEFINE rest == F((T \ {x}) \ {a})
    <3>6. F(T) = f[a] + (f[x] + rest) /\ F(T \ {x}) = f[a] + rest
      BY <1>5, <3>2, <3>3, <3>4
    <3>7. f[a] \in Int /\ f[x] \in Int /\ rest \in Int
      BY <1>4, <3>5
    <3> HIDE DEF rest
    <3> QED
      BY <3>6, <3>7
  <2> QED
    BY <2>1, <2>2
<1> QED
  BY <1>2, <1>8, <1>9

LEMMA SumAdd ==
  ASSUME NEW S, IsFiniteSet(S), NEW x, x \notin S, NEW f, \A y \in S \cup {x} : f[y] \in Int
  PROVE  SumFunctionOnSet(f, S \cup {x}) = f[x] + SumFunctionOnSet(f, S)
<1>1. IsFiniteSet(S \cup {x}) /\ (S \cup {x}) \ {x} = S
  BY FS_AddElement
<1> QED
  BY <1>1, SumRemove

(* A sum of differences is the difference of the sums. *)
LEMMA SumMinus ==
  ASSUME NEW S, IsFiniteSet(S), NEW f, NEW g, NEW h,
         \A x \in S : f[x] \in Int /\ g[x] \in Int /\ h[x] = f[x] - g[x]
  PROVE  SumFunctionOnSet(h, S) = SumFunctionOnSet(f, S) - SumFunctionOnSet(g, S)
<1> DEFINE F(T) == SumFunctionOnSet(f, T)
           G(T) == SumFunctionOnSet(g, T)
           H(T) == SumFunctionOnSet(h, T)
           P == {T \in SUBSET S : H(T) = F(T) - G(T)}
<1>1. {} \in P
  BY SumEmpty
<1>2. ASSUME NEW T \in SUBSET S, NEW x \in S \ T, T \in P PROVE T \cup {x} \in P
  <2>1. IsFiniteSet(T) /\ \A y \in S : h[y] \in Int
    BY FS_Subset
  <2>2. F(T) \in Int /\ G(T) \in Int
    BY <2>1, SumRemove
  <2>3. /\ F(T \cup {x}) = f[x] + F(T) /\ G(T \cup {x}) = g[x] + G(T)
        /\ H(T \cup {x}) = h[x] + H(T)
    BY <2>1, SumAdd
  <2> HIDE DEF F, G, H
  <2> QED
    BY <1>2, <2>1, <2>2, <2>3
<1>3. S \in P
  <2> HIDE DEF P
  <2> QED
    BY <1>1, <1>2, FiniteInduction
<1> QED
  BY <1>3

(* Indices whose value is zero do not count. *)
LEMMA SumSupport ==
  ASSUME NEW S, IsFiniteSet(S), NEW T \in SUBSET S, NEW f,
         \A x \in T : f[x] \in Int, \A x \in S \ T : f[x] = 0
  PROVE  SumFunctionOnSet(f, S) = SumFunctionOnSet(f, T)
<1> DEFINE F(U) == SumFunctionOnSet(f, U)
           P == {U \in SUBSET S : F(T \cap U) = F(U)}
<1>1. {} \in P
  BY SumEmpty
<1>2. ASSUME NEW U \in SUBSET S, NEW x \in S \ U, U \in P PROVE U \cup {x} \in P
  <2>1. IsFiniteSet(U) /\ IsFiniteSet(T \cap U) /\ \A y \in S : f[y] \in Int
    BY FS_Subset
  <2>2. F(U) \in Int /\ F(U \cup {x}) = f[x] + F(U)
    BY <2>1, SumRemove, SumAdd
  <2>3. CASE x \in T
    <3>1. T \cap (U \cup {x}) = (T \cap U) \cup {x}
      BY <2>3
    <3>2. F((T \cap U) \cup {x}) = f[x] + F(T \cap U)
      BY <2>1, SumAdd
    <3> QED
      BY <1>2, <2>2, <3>1, <3>2
  <2>4. CASE x \notin T
    <3>1. T \cap (U \cup {x}) = T \cap U
      BY <2>4
    <3>2. f[x] = 0
      BY <2>4
    <3>3. F(T \cap (U \cup {x})) = F(U \cup {x})
      <4>1. F(T \cap (U \cup {x})) = F(T \cap U)
        BY <3>1
      <4>2. F(T \cap U) = F(U)
        BY <1>2
      <4>3. F(U \cup {x}) = F(U)
        BY <2>2, <3>2
      <4> QED
        BY <4>1, <4>2, <4>3
    <3>4. U \cup {x} \in SUBSET S
      OBVIOUS
    <3> HIDE DEF F
    <3> QED
      BY <3>3, <3>4
  <2> QED
    BY <2>3, <2>4
<1>3. S \in P
  <2> HIDE DEF P
  <2> QED
    BY <1>1, <1>2, FiniteInduction
<1>4. T \cap S = T
  OBVIOUS
<1> QED
  BY <1>3, <1>4

(* No value below zero, no sum below zero and no value above the sum. *)
LEMMA SumNat ==
  ASSUME NEW S, IsFiniteSet(S), NEW f, \A x \in S : f[x] \in Nat
  PROVE  SumFunctionOnSet(f, S) \in Nat /\ \A x \in S : f[x] <= SumFunctionOnSet(f, S)
<1> DEFINE F(T) == SumFunctionOnSet(f, T)
           P == {T \in SUBSET S : F(T) \in Nat}
<1>1. {} \in P
  BY SumEmpty
<1>2. ASSUME NEW T \in SUBSET S, NEW x \in S \ T, T \in P PROVE T \cup {x} \in P
  <2>1. IsFiniteSet(T) /\ x \notin T /\ \A y \in T \cup {x} : f[y] \in Int
    BY FS_Subset
  <2>2. F(T \cup {x}) = f[x] + F(T)
    BY <2>1, SumAdd
  <2> HIDE DEF F
  <2> QED
    BY <1>2, <2>2
<1>3. S \in P
  <2> HIDE DEF P
  <2> QED
    BY <1>1, <1>2, FiniteInduction
<1>4. ASSUME NEW x \in S PROVE f[x] <= F(S)
  <2>1. S \ {x} \in P
    <3> DEFINE Q == {T \in SUBSET (S \ {x}) : F(T) \in Nat}
    <3>1. IsFiniteSet(S \ {x}) /\ {} \in Q
      BY FS_RemoveElement, SumEmpty
    <3>2. \A T \in SUBSET (S \ {x}) : \A y \in (S \ {x}) \ T : T \in Q => T \cup {y} \in Q
      BY <1>2
    <3>3. S \ {x} \in Q
      <4> HIDE DEF Q
      <4> QED
        BY <3>1, <3>2, FiniteInduction
    <3> QED
      BY <3>3
  <2>2. F(S) = f[x] + F(S \ {x})
    BY SumRemove
  <2> HIDE DEF F
  <2> QED
    BY <2>1, <2>2
<1> QED
  BY <1>3, <1>4

-----------------------------------------------------------------------------
(* What a step does to a sum *)

LEMMA SumDomain ==
  ASSUME NEW f, NEW S, DOMAIN f = S
  PROVE  SumFunction(f) = SumFunctionOnSet(f, S)
BY DEF SumFunction

(* One value changes. *)
LEMMA SumPut ==
  ASSUME NEW S, IsFiniteSet(S), NEW f, NEW g, NEW x \in S,
         \A y \in S : f[y] \in Int /\ g[y] \in Int,
         \A y \in S \ {x} : g[y] = f[y]
  PROVE  SumFunctionOnSet(g, S) = SumFunctionOnSet(f, S) + (g[x] - f[x])
<1> DEFINE F(T) == SumFunctionOnSet(f, T)
           G(T) == SumFunctionOnSet(g, T)
<1>1. IsFiniteSet(S \ {x})
  BY FS_RemoveElement
<1>2. F(S) = f[x] + F(S \ {x}) /\ F(S \ {x}) \in Int
  BY <1>1, SumRemove
<1>3. G(S) = g[x] + G(S \ {x})
  BY SumRemove
<1>4. G(S \ {x}) = F(S \ {x})
  BY <1>1, SumSame
<1> HIDE DEF F, G
<1>5. f[x] \in Int /\ g[x] \in Int
  OBVIOUS
<1>6. G(S) = F(S) + (g[x] - f[x])
  BY <1>2, <1>3, <1>4, <1>5
<1> QED
  BY <1>6 DEF F, G

(* The values of some indices go down. *)
LEMMA SumTake ==
  ASSUME NEW S, IsFiniteSet(S), NEW T \in SUBSET S, NEW f, NEW d, NEW g,
         \A x \in S : f[x] \in Int,
         \A x \in T : d[x] \in Int /\ g[x] = f[x] - d[x],
         \A x \in S \ T : g[x] = f[x]
  PROVE  SumFunctionOnSet(g, S) = SumFunctionOnSet(f, S) - SumFunctionOnSet(d, T)
<1> DEFINE e == [x \in S |-> IF x \in T THEN d[x] ELSE 0]
<1>1. \A x \in S : f[x] \in Int /\ e[x] \in Int /\ g[x] = f[x] - e[x]
  OBVIOUS
<1>2. /\ \A x \in T : e[x] \in Int /\ e[x] = d[x]
      /\ \A x \in S \ T : e[x] = 0
  OBVIOUS
<1> HIDE DEF e
<1>3. SumFunctionOnSet(g, S) = SumFunctionOnSet(f, S) - SumFunctionOnSet(e, S)
  BY <1>1, SumMinus
<1>4. SumFunctionOnSet(e, S) = SumFunctionOnSet(e, T)
  BY <1>2, SumSupport
<1>5. SumFunctionOnSet(e, T) = SumFunctionOnSet(d, T)
  BY <1>2, SumSame, FS_Subset
<1> QED
  BY <1>3, <1>4, <1>5

=============================================================================
