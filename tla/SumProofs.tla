-------- MODULE SumProofs --------
(***************************************************************************)
(* Lemmas about finite sets the proofs share: induction over them, and     *)
(* what it says of the sums the properties are stated with                 *)
(* (SumFunctionOnSet of Functions).  The induction is over a set of sets,  *)
(* by the well-foundedness of the strict subset ordering: no theorem with  *)
(* an operator for a parameter is instantiated.                            *)
(***************************************************************************)
EXTENDS Integers, Functions, FiniteSetTheorems, TLAPS

\* Of some subsets of a finite set, one has none of the others below it.
LEMMA MinimalSet ==
  ASSUME NEW S, IsFiniteSet(S), NEW C, C \subseteq SUBSET S, C # {}
  PROVE  \E T \in C : \A U \in C : U \subseteq T => U = T
<1>1. IsWellFoundedOn(StrictSubsetOrdering(S), SUBSET S)
  BY FS_StrictSubsetOrderingWellFounded, FS_FiniteSubsetsOfFinite
<1>2. PICK T \in C : \A U \in C : ~(<<U, T>> \in StrictSubsetOrdering(S)) BY <1>1, WFMin
<1> QED BY <1>2 DEF StrictSubsetOrdering

\* What holds of the empty set and of a set with one member more holds of
\* every finite set.
LEMMA SetInduction ==
  ASSUME NEW S, IsFiniteSet(S), NEW C, {} \in C,
         \A T \in SUBSET S, x \in S : T \in C => T \cup {x} \in C
  PROVE  S \in C
<1> SUFFICES ASSUME S \notin C PROVE FALSE OBVIOUS
<1> DEFINE Bad == (SUBSET S) \ C
<1>1. PICK T \in Bad : \A U \in Bad : U \subseteq T => U = T
 <2>1. Bad \subseteq SUBSET S /\ Bad # {} OBVIOUS
 <2> HIDE DEF Bad
 <2> QED BY <2>1, MinimalSet
<1>2. PICK x \in T : TRUE OBVIOUS
<1>3. T \ {x} \in C BY <1>1, <1>2
<1>4. (T \ {x}) \cup {x} \in C BY <1>3
<1>5. (T \ {x}) \cup {x} = T BY <1>2
<1> QED BY <1>4, <1>5

\* The values of a function on a finite set are finitely many.
LEMMA FiniteImage ==
  ASSUME NEW S, IsFiniteSet(S), NEW f
  PROVE  IsFiniteSet({f[x] : x \in S})
<1> DEFINE T == {f[x] : x \in S}
           g == [x \in S |-> f[x]]
<1>1. g \in Surjection(S, T) BY DEF Surjection
<1> HIDE DEF T, g
<1>2. IsFiniteSet(T) BY <1>1, FS_Surjection
<1> QED BY <1>2 DEF T

\* A finite set of numbers that is not empty has a largest, and a least.
LEMMA LargestLeast ==
  ASSUME NEW S, IsFiniteSet(S), S \subseteq Int, S # {}
  PROVE  /\ \E x \in S : \A y \in S : y <= x
         /\ \E x \in S : \A y \in S : x <= y
<1> DEFINE Bounded(T) == T = {} \/ ((\E x \in T : \A y \in T : y <= x) /\ (\E x \in T : \A y \in T : x <= y))
           C == {T \in SUBSET S : Bounded(T)}
<1>1. {} \in C OBVIOUS
<1>2. ASSUME NEW T \in SUBSET S, NEW z \in S, T \in C
      PROVE  T \cup {z} \in C
 <2>1. CASE T = {}
  <3>1. T \cup {z} = {z} /\ z <= z BY <2>1
  <3> QED BY <3>1
 <2>2. CASE T # {}
  <3>1. PICK p \in T, q \in T : \A y \in T : y <= p /\ q <= y BY <1>2, <2>2
  <3>2. T \subseteq Int /\ p \in Int /\ q \in Int /\ z \in Int BY <3>1
  <3>3. \E x \in T \cup {z} : \A y \in T \cup {z} : y <= x
   <4>1. CASE p <= z
    <5>1. \A y \in T \cup {z} : y <= z BY <3>1, <3>2, <4>1
    <5> QED BY <5>1
   <4>2. CASE z <= p
    <5>1. \A y \in T \cup {z} : y <= p BY <3>1, <3>2, <4>2
    <5> QED BY <5>1
   <4> QED BY <3>2, <4>1, <4>2
  <3>4. \E x \in T \cup {z} : \A y \in T \cup {z} : x <= y
   <4>1. CASE z <= q
    <5>1. \A y \in T \cup {z} : z <= y BY <3>1, <3>2, <4>1
    <5> QED BY <5>1
   <4>2. CASE q <= z
    <5>1. \A y \in T \cup {z} : q <= y BY <3>1, <3>2, <4>2
    <5> QED BY <5>1
   <4> QED BY <3>2, <4>1, <4>2
  <3> QED BY <3>3, <3>4
 <2> QED BY <2>1, <2>2
<1> HIDE DEF C
<1>3. S \in C BY <1>1, <1>2, SetInduction
<1> QED BY <1>3 DEF C
-----------------------------
\* The member a sum takes first.
FirstMember(S) == CHOOSE x \in S : TRUE

\* g is the function a sum over S is computed by.
SumsBy(g, f, S) ==
  g = [s \in SUBSET S |-> IF s = {} THEN 0 ELSE f[FirstMember(s)] + g[s \ {FirstMember(s)}]]

\* It is the only one.
LEMMA SumsByOnce ==
  ASSUME NEW f, NEW S, NEW T, IsFiniteSet(S), NEW g, NEW h, SumsBy(g, f, S), SumsBy(h, f, T),
         NEW U \in SUBSET S, U \in SUBSET T
  PROVE  g[U] = h[U]
<1> SUFFICES ASSUME g[U] # h[U] PROVE FALSE OBVIOUS
<1> DEFINE Bad == {s \in SUBSET U : g[s] # h[s]}
<1>1. PICK s \in Bad : \A V \in Bad : V \subseteq s => V = s
 <2>1. Bad \subseteq SUBSET S /\ Bad # {} OBVIOUS
 <2> HIDE DEF Bad
 <2> QED BY <2>1, MinimalSet
<1>2. /\ g[s] = IF s = {} THEN 0 ELSE f[FirstMember(s)] + g[s \ {FirstMember(s)}]
      /\ h[s] = IF s = {} THEN 0 ELSE f[FirstMember(s)] + h[s \ {FirstMember(s)}]
 <2>1. s \in SUBSET S /\ s \in SUBSET T OBVIOUS
 <2> QED BY <2>1 DEF SumsBy
<1>3. CASE s = {} BY <1>2, <1>3
<1>4. CASE s # {}
 <2>1. FirstMember(s) \in s BY <1>4 DEF FirstMember
 <2>2. g[s \ {FirstMember(s)}] = h[s \ {FirstMember(s)}] BY <1>1, <2>1
 <2> QED BY <1>2, <1>4, <2>2
<1> QED BY <1>3, <1>4

\* It exists.
LEMMA SumsBySome ==
  ASSUME NEW f, NEW S, IsFiniteSet(S)
  PROVE  \E g : SumsBy(g, f, S)
<1> SUFFICES ASSUME ~ \E g : SumsBy(g, f, S) PROVE FALSE OBVIOUS
<1> DEFINE Bad == {s \in SUBSET S : ~ \E g : SumsBy(g, f, s)}
<1>1. PICK T \in Bad : \A U \in Bad : U \subseteq T => U = T
 <2>1. Bad \subseteq SUBSET S /\ Bad # {} OBVIOUS
 <2> HIDE DEF Bad
 <2> QED BY <2>1, MinimalSet
<1> DEFINE Some(s) == CHOOSE g : SumsBy(g, f, s)
           Rest(s) == s \ {FirstMember(s)}
           G == [s \in SUBSET T |->
                   IF s # T THEN Some(s)[s]
                   ELSE IF s = {} THEN 0 ELSE f[FirstMember(s)] + Some(Rest(s))[Rest(s)]]
<1>2. ASSUME NEW s \in SUBSET T, s # T
      PROVE  SumsBy(Some(s), f, s)
 <2>1. \E g : SumsBy(g, f, s) BY <1>1, <1>2
 <2> QED BY <2>1
<1>3. ASSUME NEW s \in SUBSET T, s # {}
      PROVE  /\ Rest(s) \in SUBSET T /\ Rest(s) # T
             /\ G[s] = f[FirstMember(s)] + G[Rest(s)]
 <2>1. FirstMember(s) \in s BY <1>3 DEF FirstMember
 <2>2. Rest(s) \in SUBSET T /\ Rest(s) # T /\ Rest(s) \in SUBSET s BY <2>1
 <2>3. G[Rest(s)] = Some(Rest(s))[Rest(s)] BY <2>2
 <2>4. CASE s = T BY <2>2, <2>3, <2>4, <1>3
 <2>5. CASE s # T
  <3>1. SumsBy(Some(s), f, s) /\ SumsBy(Some(Rest(s)), f, Rest(s)) BY <1>2, <2>2, <2>5
  <3>2. IsFiniteSet(s)
   <4>1. s \in SUBSET S OBVIOUS
   <4> QED BY <4>1, FS_Subset
  <3> HIDE DEF Some, Rest
  <3>3. Some(s)[s] = f[FirstMember(s)] + Some(s)[s \ {FirstMember(s)}] BY <3>1, <1>3 DEF SumsBy
  <3>4. Some(s)[Rest(s)] = Some(Rest(s))[Rest(s)]
   <4>1. Rest(s) \in SUBSET Rest(s) OBVIOUS
   <4> QED BY <3>1, <3>2, <2>2, <4>1, SumsByOnce
  <3>5. G[s] = Some(s)[s] BY <2>5
  <3> QED BY <3>3, <3>4, <3>5, <2>2, <2>3 DEF Rest
 <2> QED BY <2>2, <2>4, <2>5
<1>4. ASSUME {} \in SUBSET T
      PROVE  G[{}] = 0
 <2>1. CASE T = {} BY <2>1
 <2>2. CASE T # {}
  <3>1. SumsBy(Some({}), f, {}) BY <1>2, <2>2
  <3> HIDE DEF Some
  <3>2. Some({})[{}] = 0 BY <3>1 DEF SumsBy
  <3> QED BY <2>2, <3>2
 <2> QED BY <2>1, <2>2
<1>5. SumsBy(G, f, T)
 <2>1. G = [s \in SUBSET T |-> G[s]] OBVIOUS
 <2>2. ASSUME NEW s \in SUBSET T
       PROVE  G[s] = IF s = {} THEN 0 ELSE f[FirstMember(s)] + G[s \ {FirstMember(s)}]
  <3> HIDE DEF G
  <3>1. CASE s = {} BY <1>4, <3>1
  <3>2. CASE s # {} BY <1>3, <3>2
  <3> QED BY <3>1, <3>2
 <2> HIDE DEF G
 <2> QED BY <2>1, <2>2 DEF SumsBy
<1> QED BY <1>5
-----------------------------
\* A sum is what its function computes.
LEMMA SumComputes ==
  ASSUME NEW f, NEW S, IsFiniteSet(S)
  PROVE  \E g : SumsBy(g, f, S) /\ SumFunctionOnSet(f, S) = g[S]
<1> DEFINE g == CHOOSE iter : SumsBy(iter, f, S)
<1>1. SumFunctionOnSet(f, S) = g[S]
  BY DEF SumFunctionOnSet, FoldFunctionOnSet, MapThenFoldSet, SumsBy, FirstMember
<1>2. SumsBy(g, f, S) BY SumsBySome
<1> QED BY <1>1, <1>2

\* The first member and then the others.
LEMMA SumFirst ==
  ASSUME NEW f, NEW S, IsFiniteSet(S), S # {}
  PROVE  /\ FirstMember(S) \in S
         /\ SumFunctionOnSet(f, S) = f[FirstMember(S)] + SumFunctionOnSet(f, S \ {FirstMember(S)})
<1> DEFINE R == S \ {FirstMember(S)}
<1>1. FirstMember(S) \in S /\ R \in SUBSET S /\ R \in SUBSET R BY DEF FirstMember
<1>2. IsFiniteSet(R) BY <1>1, FS_Subset
<1>3. PICK g : SumsBy(g, f, S) /\ SumFunctionOnSet(f, S) = g[S] BY SumComputes
<1>4. PICK h : SumsBy(h, f, R) /\ SumFunctionOnSet(f, R) = h[R] BY <1>2, SumComputes
<1>5. g[S] = f[FirstMember(S)] + g[R] BY <1>3 DEF SumsBy
<1>6. g[R] = h[R] BY <1>1, <1>3, <1>4, SumsByOnce
<1> QED BY <1>1, <1>3, <1>4, <1>5, <1>6

\* Nothing adds up to zero.
LEMMA SumOfNone == ASSUME NEW f PROVE SumFunctionOnSet(f, {}) = 0
<1>1. IsFiniteSet({}) BY FS_EmptySet
<1>2. PICK g : SumsBy(g, f, {}) /\ SumFunctionOnSet(f, {}) = g[{}] BY <1>1, SumComputes
<1> QED BY <1>2 DEF SumsBy

\* Sums of integers are integers.
LEMMA SumInt ==
  ASSUME NEW f, NEW S, IsFiniteSet(S), \A x \in S : f[x] \in Int
  PROVE  SumFunctionOnSet(f, S) \in Int
<1> SUFFICES ASSUME SumFunctionOnSet(f, S) \notin Int PROVE FALSE OBVIOUS
<1> DEFINE Bad == {s \in SUBSET S : SumFunctionOnSet(f, s) \notin Int}
<1>1. PICK T \in Bad : \A U \in Bad : U \subseteq T => U = T
 <2>1. Bad \subseteq SUBSET S /\ Bad # {} OBVIOUS
 <2> HIDE DEF Bad
 <2> QED BY <2>1, MinimalSet
<1>2. T # {} /\ IsFiniteSet(T) /\ T \subseteq S
 <2>1. SumFunctionOnSet(f, {}) \in Int BY SumOfNone
 <2> QED BY <2>1, FS_Subset
<1>3. /\ FirstMember(T) \in T
      /\ SumFunctionOnSet(f, T) = f[FirstMember(T)] + SumFunctionOnSet(f, T \ {FirstMember(T)})
  BY <1>2, SumFirst
<1>4. SumFunctionOnSet(f, T \ {FirstMember(T)}) \in Int BY <1>1, <1>2, <1>3
<1> QED BY <1>2, <1>3, <1>4

\* Any member and then the others.
LEMMA SumSplit ==
  ASSUME NEW f, NEW S, IsFiniteSet(S), \A y \in S : f[y] \in Int, NEW x \in S
  PROVE  SumFunctionOnSet(f, S) = f[x] + SumFunctionOnSet(f, S \ {x})
<1> DEFINE Good(s) == \A y \in s : SumFunctionOnSet(f, s) = f[y] + SumFunctionOnSet(f, s \ {y})
<1> SUFFICES ASSUME ~Good(S) PROVE FALSE OBVIOUS
<1> DEFINE Bad == {s \in SUBSET S : ~Good(s)}
<1>1. PICK T \in Bad : \A U \in Bad : U \subseteq T => U = T
 <2>1. Bad \subseteq SUBSET S /\ Bad # {} OBVIOUS
 <2> HIDE DEF Bad
 <2> QED BY <2>1, MinimalSet
<1>2. IsFiniteSet(T) /\ T \subseteq S BY FS_Subset
<1>3. PICK y \in T : SumFunctionOnSet(f, T) # f[y] + SumFunctionOnSet(f, T \ {y}) BY <1>1
<1> DEFINE c == FirstMember(T)
<1>4. c \in T /\ SumFunctionOnSet(f, T) = f[c] + SumFunctionOnSet(f, T \ {c}) BY <1>2, <1>3, SumFirst
<1>5. c # y BY <1>3, <1>4
<1>6. Good(T \ {c}) /\ Good(T \ {y}) BY <1>1, <1>2, <1>3, <1>4
<1> HIDE DEF c
<1> DEFINE U == T \ {c, y}
<1>7. (T \ {c}) \ {y} = U /\ (T \ {y}) \ {c} = U /\ y \in T \ {c} /\ c \in T \ {y} BY <1>3, <1>4, <1>5
<1>8. /\ SumFunctionOnSet(f, T \ {c}) = f[y] + SumFunctionOnSet(f, U)
      /\ SumFunctionOnSet(f, T \ {y}) = f[c] + SumFunctionOnSet(f, U)
  BY <1>6, <1>7
<1>9. f[c] \in Int /\ f[y] \in Int /\ SumFunctionOnSet(f, U) \in Int
 <2>1. IsFiniteSet(U) /\ \A z \in U : f[z] \in Int BY <1>2, FS_Subset
 <2> QED BY <2>1, <1>2, <1>3, <1>4, SumInt
<1> HIDE DEF U
<1> QED BY <1>3, <1>4, <1>8, <1>9

\* Sums of the same numbers are the same.
LEMMA SumSame ==
  ASSUME NEW f, NEW g, NEW S, IsFiniteSet(S), \A x \in S : f[x] = g[x]
  PROVE  SumFunctionOnSet(f, S) = SumFunctionOnSet(g, S)
<1> DEFINE Bad == {s \in SUBSET S : SumFunctionOnSet(f, s) # SumFunctionOnSet(g, s)}
<1> SUFFICES ASSUME SumFunctionOnSet(f, S) # SumFunctionOnSet(g, S) PROVE FALSE OBVIOUS
<1>1. PICK T \in Bad : \A U \in Bad : U \subseteq T => U = T
 <2>1. Bad \subseteq SUBSET S /\ Bad # {} OBVIOUS
 <2> HIDE DEF Bad
 <2> QED BY <2>1, MinimalSet
<1>2. T # {} /\ IsFiniteSet(T) /\ T \subseteq S
 <2>1. SumFunctionOnSet(f, {}) = SumFunctionOnSet(g, {}) BY SumOfNone
 <2> QED BY <2>1, FS_Subset
<1>3. /\ FirstMember(T) \in T
      /\ SumFunctionOnSet(f, T) = f[FirstMember(T)] + SumFunctionOnSet(f, T \ {FirstMember(T)})
      /\ SumFunctionOnSet(g, T) = g[FirstMember(T)] + SumFunctionOnSet(g, T \ {FirstMember(T)})
  BY <1>2, SumFirst
<1>4. SumFunctionOnSet(f, T \ {FirstMember(T)}) = SumFunctionOnSet(g, T \ {FirstMember(T)})
  BY <1>1, <1>2, <1>3
<1> QED BY <1>2, <1>3, <1>4

\* Sums of natural numbers are natural, and zero when the numbers are.
LEMMA SumNat ==
  ASSUME NEW f, NEW S, IsFiniteSet(S), \A x \in S : f[x] \in Nat
  PROVE  /\ SumFunctionOnSet(f, S) \in Nat
         /\ (\A x \in S : f[x] = 0) => SumFunctionOnSet(f, S) = 0
<1> DEFINE Good(s) == /\ SumFunctionOnSet(f, s) \in Nat
                      /\ (\A x \in s : f[x] = 0) => SumFunctionOnSet(f, s) = 0
           Bad == {s \in SUBSET S : ~Good(s)}
<1> SUFFICES ASSUME ~Good(S) PROVE FALSE OBVIOUS
<1>1. PICK T \in Bad : \A U \in Bad : U \subseteq T => U = T
 <2>1. Bad \subseteq SUBSET S /\ Bad # {} OBVIOUS
 <2> HIDE DEF Bad
 <2> QED BY <2>1, MinimalSet
<1>2. T # {} /\ IsFiniteSet(T) /\ T \subseteq S
 <2>1. Good({}) BY SumOfNone
 <2> QED BY <2>1, FS_Subset
<1>3. /\ FirstMember(T) \in T
      /\ SumFunctionOnSet(f, T) = f[FirstMember(T)] + SumFunctionOnSet(f, T \ {FirstMember(T)})
  BY <1>2, SumFirst
<1>4. Good(T \ {FirstMember(T)}) BY <1>1, <1>2, <1>3
<1> QED BY <1>2, <1>3, <1>4

\* When one number changes, the sum changes by as much.
LEMMA SumExcept ==
  ASSUME NEW f, NEW g, NEW S, IsFiniteSet(S), NEW x \in S,
         \A y \in S : f[y] \in Int /\ g[y] \in Int,
         \A y \in S \ {x} : g[y] = f[y]
  PROVE  SumFunctionOnSet(g, S) = SumFunctionOnSet(f, S) - f[x] + g[x]
<1> DEFINE R == S \ {x}
<1>1. /\ SumFunctionOnSet(f, S) = f[x] + SumFunctionOnSet(f, R)
      /\ SumFunctionOnSet(g, S) = g[x] + SumFunctionOnSet(g, R)
  BY SumSplit
<1>2. IsFiniteSet(R) BY FS_Subset
<1>3. SumFunctionOnSet(f, R) = SumFunctionOnSet(g, R) BY <1>2, SumSame
<1>4. SumFunctionOnSet(f, R) \in Int BY <1>2, SumInt
<1> HIDE DEF R
<1> QED BY <1>1, <1>3, <1>4
\* A part of a set and the rest of it.
LEMMA SumParts ==
  ASSUME NEW f, NEW S, IsFiniteSet(S), \A x \in S : f[x] \in Int, NEW T, T \subseteq S
  PROVE  SumFunctionOnSet(f, S) = SumFunctionOnSet(f, T) + SumFunctionOnSet(f, S \ T)
<1> DEFINE Adds(U) == SumFunctionOnSet(f, U \cup (S \ T))
                        = SumFunctionOnSet(f, U) + SumFunctionOnSet(f, S \ T)
           C == {U \in SUBSET T : Adds(U)}
<1>1. IsFiniteSet(T) /\ IsFiniteSet(S \ T) /\ SumFunctionOnSet(f, S \ T) \in Int
 <2>1. IsFiniteSet(T) /\ IsFiniteSet(S \ T) BY FS_Subset
 <2> QED BY <2>1, SumInt
<1>2. {} \in C
 <2>1. {} \cup (S \ T) = S \ T OBVIOUS
 <2> QED BY <1>1, <2>1, SumOfNone
<1>3. ASSUME NEW U \in SUBSET T, NEW x \in T, U \in C
      PROVE  U \cup {x} \in C
 <2>1. CASE x \in U
  <3>1. U \cup {x} = U BY <2>1
  <3> QED BY <1>3, <3>1
 <2>2. CASE x \notin U
  <3>1. PICK V : V = U \cup {x} OBVIOUS
  <3>2. PICK W : W = V \cup (S \ T) OBVIOUS
  <3>3. IsFiniteSet(V) /\ IsFiniteSet(W) /\ V \subseteq T /\ W \subseteq S
   <4>1. V \subseteq T /\ W \subseteq S BY <3>1, <3>2
   <4> QED BY <1>1, <4>1, FS_Subset
  <3>4. V \ {x} = U /\ W \ {x} = U \cup (S \ T) /\ x \in V /\ x \in W BY <2>2, <3>1, <3>2
  <3>5. SumFunctionOnSet(f, V) = f[x] + SumFunctionOnSet(f, V \ {x}) BY <3>3, <3>4, SumSplit
  <3>6. SumFunctionOnSet(f, W) = f[x] + SumFunctionOnSet(f, W \ {x}) BY <3>3, <3>4, SumSplit
  <3>7. f[x] \in Int /\ SumFunctionOnSet(f, U) \in Int
   <4>1. IsFiniteSet(U) /\ U \subseteq S BY <1>1, FS_Subset
   <4> QED BY <4>1, SumInt
  <3>8. SumFunctionOnSet(f, W) = SumFunctionOnSet(f, V) + SumFunctionOnSet(f, S \ T)
   <4>1. Adds(U) BY <1>3
   <4>2. SumFunctionOnSet(f, W) = f[x] + SumFunctionOnSet(f, U \cup (S \ T)) BY <3>4, <3>6
   <4>3. SumFunctionOnSet(f, V) = f[x] + SumFunctionOnSet(f, U) BY <3>4, <3>5
   <4> QED BY <1>1, <3>7, <4>1, <4>2, <4>3
  <3>9. Adds(V) /\ V \in SUBSET T BY <3>2, <3>3, <3>8
  <3> QED BY <3>1, <3>9
 <2> QED BY <2>1, <2>2
<1>4. T \in C
 <2> HIDE DEF C
 <2> QED BY <1>1, <1>2, <1>3, SetInduction
<1>5. T \cup (S \ T) = S OBVIOUS
<1> QED BY <1>4, <1>5

\* A part of natural numbers is no more than all of them.
LEMMA SumLess ==
  ASSUME NEW f, NEW S, IsFiniteSet(S), \A x \in S : f[x] \in Nat, NEW T, T \subseteq S
  PROVE  /\ SumFunctionOnSet(f, T) \in Nat /\ SumFunctionOnSet(f, S) \in Nat
         /\ SumFunctionOnSet(f, T) <= SumFunctionOnSet(f, S)
<1>1. IsFiniteSet(T) /\ IsFiniteSet(S \ T) BY FS_Subset
<1>2. /\ SumFunctionOnSet(f, T) \in Nat /\ SumFunctionOnSet(f, S) \in Nat
      /\ SumFunctionOnSet(f, S \ T) \in Nat
  BY <1>1, SumNat
<1>3. \A x \in S : f[x] \in Int OBVIOUS
<1>4. SumFunctionOnSet(f, S) = SumFunctionOnSet(f, T) + SumFunctionOnSet(f, S \ T) BY <1>3, SumParts
<1> QED BY <1>2, <1>4
=============================
