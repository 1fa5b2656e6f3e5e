------------------------------ MODULE ReportsProofs ------------------------------
(***************************************************************************)
(* Proofs about Reports: what a link to a repository decides, that a       *)
(* session's time is handed out exactly, that the lines of a report add    *)
(* up, and that unmatched evidence falls into clusters as its silences     *)
(* say, for any projects, repositories, directories, names, sessions and   *)
(* evidence.                                                               *)
(*                                                                         *)
(* Sums and folds are those of the library, which take the members of a    *)
(* set one at a time: the first sections say what they come to, by         *)
(* induction over the subsets of a finite set (SetInduction).              *)
(***************************************************************************)
EXTENDS Reports, FiniteSetTheorems, WellFoundedInduction, TLAPS

-------------------------------------------------------------------------------
(* Finite sets and sums.                                                   *)

LEMMA LeastNat ==
    ASSUME NEW T, T \subseteq Nat, T # {}
    PROVE  \E n \in T : \A m \in T : n <= m
<1>1. IsWellFoundedOn(OpToRel(<, Nat), Nat)
  BY NatLessThanWellFounded
<1>2. PICK n \in T : \A m \in T : ~ (<<m, n>> \in OpToRel(<, Nat))
  BY <1>1, WFMin, Zenon
<1>3. \A m \in T : ~ (m < n)
  BY <1>2 DEF OpToRel
<1>4. n \in Nat /\ \A m \in T : m \in Nat
  BY <1>2
<1>5. \A m \in T : n <= m
  BY <1>3, <1>4
<1> QED  BY <1>2, <1>5

\* A family of subsets of a finite set that a set belongs to whenever, one element less, it does.
LEMMA SetInduction ==
    ASSUME NEW S, IsFiniteSet(S), NEW F,
           {} \in F,
           \A T \in SUBSET S : T # {} /\ (\A x \in T : T \ {x} \in F) => T \in F
    PROVE  S \in F
<1> SUFFICES ASSUME S \notin F PROVE FALSE
  OBVIOUS
<1> DEFINE sizes == {n \in Nat : \E T \in SUBSET S : T \notin F /\ Cardinality(T) = n}
<1>1. \A T \in SUBSET S : IsFiniteSet(T) /\ Cardinality(T) \in Nat
  BY FS_Subset, FS_CardinalityType
<1>2. Cardinality(S) \in sizes /\ sizes \subseteq Nat
  BY <1>1
<1>3. PICK n \in sizes : \A m \in sizes : n <= m
  BY <1>2, LeastNat
<1>4. PICK T \in SUBSET S : T \notin F /\ Cardinality(T) = n
  BY <1>3
<1>5. T # {}
  <2>1. T = {} => T \in F
    OBVIOUS
  <2> QED  BY <1>4, <2>1
<1>6. PICK x \in T : T \ {x} \notin F
  BY <1>4, <1>5
<1>7. Cardinality(T \ {x}) = Cardinality(T) - 1
  BY <1>1, FS_RemoveElement
<1>8. T \ {x} \in SUBSET S /\ T \ {x} \notin F
  BY <1>6
<1>9. Cardinality(T \ {x}) \in sizes
  BY <1>1, <1>8
<1> HIDE DEF sizes
<1>10. n \in Nat /\ n <= Cardinality(T \ {x})
  BY <1>2, <1>3, <1>9
<1>11. n <= n - 1
  BY <1>4, <1>7, <1>10
<1> QED  BY <1>10, <1>11

\* What a sum is: nothing for the empty set, and one element more than the sum of the others.
One(S) == CHOOSE x \in S : TRUE
SumsUp(g, f, S) == g = [s \in SUBSET S |-> IF s = {} THEN 0 ELSE f[One(s)] + g[s \ {One(s)}]]

LEMMA SumIs ==
    ASSUME NEW f, NEW S, NEW g, SumsUp(g, f, S)
    PROVE  \E h : SumsUp(h, f, S) /\ SumFunctionOnSet(f, S) = h[S]
<1> DEFINE h == CHOOSE k : SumsUp(k, f, S)
<1>1. SumsUp(h, f, S)
  OBVIOUS
<1>2. SumFunctionOnSet(f, S) = h[S]
  BY DEF SumsUp, One, SumFunction, SumFunctionOnSet, FoldFunctionOnSet, MapThenFoldSet
<1> QED  BY <1>1, <1>2

\* There is such a function, over the sets of at most so many elements and so over all of them.
LEMMA SumExists ==
    ASSUME NEW S, IsFiniteSet(S), NEW f
    PROVE  \E g : SumsUp(g, f, S)
<1> DEFINE UpTo(g, n) == /\ DOMAIN g = SUBSET S
                         /\ \A s \in SUBSET S : Cardinality(s) <= n =>
                               g[s] = IF s = {} THEN 0 ELSE f[One(s)] + g[s \ {One(s)}]
           missing == {n \in Nat : ~\E g : g = [s \in SUBSET S |-> g[s]] /\ UpTo(g, n)}
<1>1. \A T \in SUBSET S : IsFiniteSet(T) /\ Cardinality(T) \in Nat
  BY FS_Subset, FS_CardinalityType
<1>2. missing = {}
  <2> SUFFICES ASSUME missing # {} PROVE FALSE
    OBVIOUS
  <2>1. PICK n \in missing : \A m \in missing : n <= m
    BY LeastNat
  <2>2. n \in Nat /\ ~\E g : g = [s \in SUBSET S |-> g[s]] /\ UpTo(g, n)
    BY <2>1
  <2>3. n # 0
    <3> DEFINE g == [s \in SUBSET S |-> 0]
    <3>1. \A s \in SUBSET S : Cardinality(s) <= 0 => s = {}
      BY <1>1, FS_EmptySet
    <3>2. DOMAIN g = SUBSET S /\ g = [s \in SUBSET S |-> g[s]] /\ \A s \in SUBSET S : g[s] = 0
      OBVIOUS
    <3> HIDE DEF g
    <3>3. UpTo(g, 0)
      BY <3>1, <3>2
    <3> QED  BY <2>2, <3>2, <3>3
  <2>4. n - 1 \in Nat /\ n - 1 \notin missing
    <3>1. n - 1 \in Nat /\ ~(n <= n - 1)
      BY <2>2, <2>3
    <3> HIDE DEF missing
    <3> QED  BY <2>1, <3>1
  <2>5. PICK g : UpTo(g, n - 1)
    BY <2>4
  <2> DEFINE h == [s \in SUBSET S |-> IF s = {} THEN 0 ELSE f[One(s)] + g[s \ {One(s)}]]
  <2>6. \A s \in SUBSET S : Cardinality(s) <= n - 1 => h[s] = g[s]
    BY <2>5
  <2>7. ASSUME NEW s \in SUBSET S, Cardinality(s) <= n
        PROVE  h[s] = IF s = {} THEN 0 ELSE f[One(s)] + h[s \ {One(s)}]
    <3>1. CASE s = {}
      BY <3>1
    <3>2. CASE s # {}
      <4>1. One(s) \in s
        BY <3>2 DEF One
      <4>2. s \ {One(s)} \in SUBSET S /\ Cardinality(s \ {One(s)}) = Cardinality(s) - 1
        BY <1>1, <4>1, FS_RemoveElement
      <4>3. Cardinality(s \ {One(s)}) <= n - 1
        BY <1>1, <2>2, <2>7, <4>2
      <4>4. h[s \ {One(s)}] = g[s \ {One(s)}]
        BY <2>6, <4>2, <4>3
      <4>5. h[s] = f[One(s)] + g[s \ {One(s)}]
        BY <3>2
      <4> QED  BY <3>2, <4>4, <4>5
    <3> QED  BY <3>1, <3>2
  <2>8. UpTo(h, n) /\ h = [s \in SUBSET S |-> h[s]]
    BY <2>7
  <2> QED  BY <2>2, <2>8
<1>3. Cardinality(S) \in Nat /\ Cardinality(S) \notin missing
  BY <1>1, <1>2
<1>4. PICK g : g = [s \in SUBSET S |-> g[s]] /\ UpTo(g, Cardinality(S))
  BY <1>3
<1>5. \A s \in SUBSET S : Cardinality(s) <= Cardinality(S)
  BY FS_Subset
<1>6. \A s \in SUBSET S : g[s] = IF s = {} THEN 0 ELSE f[One(s)] + g[s \ {One(s)}]
  BY <1>4, <1>5
<1>7. g = [s \in SUBSET S |-> IF s = {} THEN 0 ELSE f[One(s)] + g[s \ {One(s)}]]
  BY <1>4, <1>6
<1> QED  BY <1>7 DEF SumsUp

\* Two such functions agree where what they sum agrees.
LEMMA SumUnique ==
    ASSUME NEW S, NEW R, R \subseteq S, IsFiniteSet(R), NEW f, NEW e, NEW g, NEW h,
           SumsUp(g, f, S), SumsUp(h, e, R), \A x \in R : f[x] = e[x]
    PROVE  g[R] = h[R]
<1> DEFINE F == {T \in SUBSET R : g[T] = h[T]}
<1>1. {} \in F
  BY DEF SumsUp
<1>2. ASSUME NEW T \in SUBSET R, T # {}, \A x \in T : T \ {x} \in F PROVE T \in F
  <2>1. One(T) \in T
    BY <1>2 DEF One
  <2>2. g[T] = f[One(T)] + g[T \ {One(T)}] /\ h[T] = e[One(T)] + h[T \ {One(T)}]
    BY <1>2 DEF SumsUp
  <2> QED  BY <1>2, <2>1, <2>2
<1> HIDE DEF F
<1>3. R \in F
  BY <1>1, <1>2, SetInduction
<1> QED  BY <1>3 DEF F

LEMMA SumSame ==
    ASSUME NEW S, IsFiniteSet(S), NEW f, NEW e, \A x \in S : f[x] = e[x]
    PROVE  SumFunctionOnSet(f, S) = SumFunctionOnSet(e, S)
<1>1. PICK g : SumsUp(g, f, S) /\ SumFunctionOnSet(f, S) = g[S]
  BY SumExists, SumIs
<1>2. PICK h : SumsUp(h, e, S) /\ SumFunctionOnSet(e, S) = h[S]
  BY SumExists, SumIs
<1> QED  BY <1>1, <1>2, SumUnique

LEMMA SumEmpty ==
    ASSUME NEW f
    PROVE  SumFunctionOnSet(f, {}) = 0
<1>1. PICK g : SumsUp(g, f, {}) /\ SumFunctionOnSet(f, {}) = g[{}]
  BY SumExists, SumIs, FS_EmptySet
<1> QED  BY <1>1 DEF SumsUp

\* The chosen element first.
LEMMA SumOne ==
    ASSUME NEW S, IsFiniteSet(S), S # {}, NEW f
    PROVE  SumFunctionOnSet(f, S) = f[One(S)] + SumFunctionOnSet(f, S \ {One(S)})
<1>1. PICK g : SumsUp(g, f, S) /\ SumFunctionOnSet(f, S) = g[S]
  BY SumExists, SumIs
<1>2. IsFiniteSet(S \ {One(S)})
  BY FS_Subset
<1>3. PICK h : SumsUp(h, f, S \ {One(S)}) /\ SumFunctionOnSet(f, S \ {One(S)}) = h[S \ {One(S)}]
  BY <1>2, SumExists, SumIs
<1>4. g[S \ {One(S)}] = h[S \ {One(S)}]
  BY <1>1, <1>2, <1>3, SumUnique
<1>5. g[S] = f[One(S)] + g[S \ {One(S)}]
  BY <1>1 DEF SumsUp
<1> QED  BY <1>1, <1>3, <1>4, <1>5

LEMMA SumInt ==
    ASSUME NEW S, IsFiniteSet(S), NEW f, \A x \in S : f[x] \in Int
    PROVE  SumFunctionOnSet(f, S) \in Int
<1> DEFINE F == {T \in SUBSET S : SumFunctionOnSet(f, T) \in Int}
<1>1. {} \in F
  BY SumEmpty
<1>2. ASSUME NEW T \in SUBSET S, T # {}, \A x \in T : T \ {x} \in F PROVE T \in F
  <2>1. One(T) \in T
    BY <1>2 DEF One
  <2>2. IsFiniteSet(T)
    BY FS_Subset
  <2>3. SumFunctionOnSet(f, T) = f[One(T)] + SumFunctionOnSet(f, T \ {One(T)})
    BY <1>2, <2>2, SumOne
  <2>4. f[One(T)] \in Int
    BY <2>1
  <2> QED  BY <1>2, <2>1, <2>3, <2>4
<1> HIDE DEF F
<1>3. S \in F
  BY <1>1, <1>2, SetInduction
<1> QED  BY <1>3 DEF F

\* Any element may be taken first.
LEMMA SumAdd ==
    ASSUME NEW S, IsFiniteSet(S), NEW f, \A x \in S : f[x] \in Int, NEW y \in S
    PROVE  SumFunctionOnSet(f, S) = f[y] + SumFunctionOnSet(f, S \ {y})
<1> DEFINE F == {T \in SUBSET S : \A z \in T : SumFunctionOnSet(f, T) = f[z] + SumFunctionOnSet(f, T \ {z})}
<1>1. {} \in F
  OBVIOUS
<1>2. ASSUME NEW T \in SUBSET S, T # {}, \A x \in T : T \ {x} \in F PROVE T \in F
  <2> SUFFICES ASSUME NEW z \in T PROVE SumFunctionOnSet(f, T) = f[z] + SumFunctionOnSet(f, T \ {z})
    OBVIOUS
  <2> DEFINE c == One(T)
  <2>1. c \in T
    BY DEF One
  <2>2. IsFiniteSet(T)
    BY FS_Subset
  <2>3. SumFunctionOnSet(f, T) = f[c] + SumFunctionOnSet(f, T \ {c})
    BY <1>2, <2>2, SumOne
  <2> HIDE DEF c
  <2>4. CASE z # c
    <3>1. PICK R : R = (T \ {c}) \ {z} /\ R = (T \ {z}) \ {c}
      OBVIOUS
    <3>2. SumFunctionOnSet(f, T \ {c}) = f[z] + SumFunctionOnSet(f, R)
      BY <1>2, <2>1, <2>4, <3>1
    <3>3. SumFunctionOnSet(f, T \ {z}) = f[c] + SumFunctionOnSet(f, R)
      BY <1>2, <2>1, <2>4, <3>1
    <3>4. SumFunctionOnSet(f, R) \in Int
      <4>1. IsFiniteSet(R) /\ \A x \in R : f[x] \in Int
        BY <2>2, <3>1, FS_Subset
      <4> QED  BY <4>1, SumInt
    <3>5. f[z] \in Int /\ f[c] \in Int
      BY <2>1
    <3> HIDE DEF F
    <3> QED  BY <2>3, <3>2, <3>3, <3>4, <3>5
  <2> QED  BY <2>3, <2>4
<1> HIDE DEF F
<1>3. S \in F
  BY <1>1, <1>2, SetInduction
<1> QED  BY <1>3 DEF F

\* The sum of a sum is the sum of the sums, and so for the difference.
LEMMA SumPlus ==
    ASSUME NEW S, IsFiniteSet(S), NEW f, NEW e, NEW d,
           \A x \in S : f[x] \in Int /\ e[x] \in Int /\ d[x] = f[x] + e[x]
    PROVE  SumFunctionOnSet(d, S) = SumFunctionOnSet(f, S) + SumFunctionOnSet(e, S)
<1> DEFINE F == {T \in SUBSET S : SumFunctionOnSet(d, T) = SumFunctionOnSet(f, T) + SumFunctionOnSet(e, T)}
<1>1. {} \in F
  BY SumEmpty
<1>2. ASSUME NEW T \in SUBSET S, T # {}, \A x \in T : T \ {x} \in F PROVE T \in F
  <2> DEFINE c == One(T)
             R == T \ {c}
  <2>1. c \in T
    BY <1>2 DEF One
  <2>2. IsFiniteSet(T) /\ IsFiniteSet(R)
    BY FS_Subset
  <2>3. /\ SumFunctionOnSet(f, T) = f[c] + SumFunctionOnSet(f, R)
        /\ SumFunctionOnSet(e, T) = e[c] + SumFunctionOnSet(e, R)
        /\ SumFunctionOnSet(d, T) = d[c] + SumFunctionOnSet(d, R)
    BY <1>2, <2>2, SumOne
  <2>4. SumFunctionOnSet(d, R) = SumFunctionOnSet(f, R) + SumFunctionOnSet(e, R)
    BY <1>2, <2>1
  <2>5. SumFunctionOnSet(f, R) \in Int /\ SumFunctionOnSet(e, R) \in Int
    BY <2>2, SumInt
  <2>6. f[c] \in Int /\ e[c] \in Int /\ d[c] = f[c] + e[c]
    BY <2>1
  <2> HIDE DEF c, R
  <2> QED  BY <2>3, <2>4, <2>5, <2>6
<1> HIDE DEF F
<1>3. S \in F
  BY <1>1, <1>2, SetInduction
<1> QED  BY <1>3 DEF F

\* What is nowhere more adds up to no more.
LEMMA SumLeq ==
    ASSUME NEW S, IsFiniteSet(S), NEW f, NEW e,
           \A x \in S : f[x] \in Int /\ e[x] \in Int /\ f[x] <= e[x]
    PROVE  SumFunctionOnSet(f, S) <= SumFunctionOnSet(e, S)
<1> DEFINE F == {T \in SUBSET S : SumFunctionOnSet(f, T) <= SumFunctionOnSet(e, T)}
<1>1. {} \in F
  BY SumEmpty
<1>2. ASSUME NEW T \in SUBSET S, T # {}, \A x \in T : T \ {x} \in F PROVE T \in F
  <2> DEFINE c == One(T)
             R == T \ {c}
  <2>1. c \in T
    BY <1>2 DEF One
  <2>2. IsFiniteSet(T) /\ IsFiniteSet(R)
    BY FS_Subset
  <2>3. /\ SumFunctionOnSet(f, T) = f[c] + SumFunctionOnSet(f, R)
        /\ SumFunctionOnSet(e, T) = e[c] + SumFunctionOnSet(e, R)
    BY <1>2, <2>2, SumOne
  <2>4. SumFunctionOnSet(f, R) <= SumFunctionOnSet(e, R)
    BY <1>2, <2>1
  <2>5. SumFunctionOnSet(f, R) \in Int /\ SumFunctionOnSet(e, R) \in Int
    BY <2>2, SumInt
  <2>6. f[c] \in Int /\ e[c] \in Int /\ f[c] <= e[c]
    BY <2>1
  <2> HIDE DEF c, R
  <2> QED  BY <2>3, <2>4, <2>5, <2>6
<1> HIDE DEF F
<1>3. S \in F
  BY <1>1, <1>2, SetInduction
<1> QED  BY <1>3 DEF F

\* One amount for each element.
LEMMA SumConstant ==
    ASSUME NEW S, IsFiniteSet(S), NEW f, NEW k \in Int, \A x \in S : f[x] = k
    PROVE  SumFunctionOnSet(f, S) = k * Cardinality(S)
<1> DEFINE F == {T \in SUBSET S : SumFunctionOnSet(f, T) = k * Cardinality(T)}
<1>1. {} \in F
  BY SumEmpty, FS_EmptySet
<1>2. ASSUME NEW T \in SUBSET S, T # {}, \A x \in T : T \ {x} \in F PROVE T \in F
  <2> DEFINE c == One(T)
             R == T \ {c}
  <2>1. c \in T
    BY <1>2 DEF One
  <2>2. IsFiniteSet(T)
    BY FS_Subset
  <2>3. SumFunctionOnSet(f, T) = k + SumFunctionOnSet(f, R)
    BY <1>2, <2>1, <2>2, SumOne
  <2>4. SumFunctionOnSet(f, R) = k * Cardinality(R)
    BY <1>2, <2>1
  <2>5. Cardinality(R) = Cardinality(T) - 1 /\ Cardinality(T) \in Nat
    BY <2>1, <2>2, FS_RemoveElement, FS_CardinalityType
  <2> HIDE DEF c, R
  <2>6. \A n \in Nat : k + k * (n - 1) = k * n
    OBVIOUS
  <2> QED  BY <2>3, <2>4, <2>5, <2>6
<1> HIDE DEF F
<1>3. S \in F
  BY <1>1, <1>2, SetInduction
<1> QED  BY <1>3 DEF F

LEMMA SumZero ==
    ASSUME NEW S, IsFiniteSet(S), NEW f, \A x \in S : f[x] = 0
    PROVE  SumFunctionOnSet(f, S) = 0
<1>1. SumFunctionOnSet(f, S) = 0 * Cardinality(S)
  BY SumConstant
<1>2. Cardinality(S) \in Nat
  BY FS_CardinalityType
<1> QED  BY <1>1, <1>2

LEMMA SumNat ==
    ASSUME NEW S, IsFiniteSet(S), NEW f, \A x \in S : f[x] \in Nat
    PROVE  SumFunctionOnSet(f, S) \in Nat
<1> DEFINE none == [x \in S |-> 0]
<1>1. \A x \in S : none[x] = 0
  OBVIOUS
<1> HIDE DEF none
<1>2. \A x \in S : none[x] \in Int /\ f[x] \in Int /\ none[x] <= f[x]
  BY <1>1
<1>3. SumFunctionOnSet(none, S) = 0
  BY <1>1, SumZero
<1>4. SumFunctionOnSet(none, S) <= SumFunctionOnSet(f, S)
  BY <1>2, SumLeq
<1>5. SumFunctionOnSet(f, S) \in Int
  BY <1>2, SumInt
<1> QED  BY <1>3, <1>4, <1>5

\* What is nothing outside a part adds up to the sum over the part.
LEMMA SumPart ==
    ASSUME NEW S, IsFiniteSet(S), NEW P, P \subseteq S, NEW f,
           \A x \in S : f[x] \in Int /\ (x \notin P => f[x] = 0)
    PROVE  SumFunctionOnSet(f, S) = SumFunctionOnSet(f, P)
<1> DEFINE F == {T \in SUBSET S : SumFunctionOnSet(f, T) = SumFunctionOnSet(f, T \cap P)}
<1>1. {} \in F
  <2>1. {} \cap P = {}
    OBVIOUS
  <2> QED  BY <2>1
<1>2. ASSUME NEW T \in SUBSET S, T # {}, \A x \in T : T \ {x} \in F PROVE T \in F
  <2> DEFINE c == One(T)
             R == T \ {c}
  <2>1. c \in T /\ R \in SUBSET S
    BY <1>2 DEF One
  <2>2. IsFiniteSet(T) /\ IsFiniteSet(T \cap P) /\ IsFiniteSet(R \cap P)
    BY FS_Subset
  <2>3. SumFunctionOnSet(f, T) = f[c] + SumFunctionOnSet(f, R)
    BY <1>2, <2>1, <2>2, SumOne
  <2>4. SumFunctionOnSet(f, R) = SumFunctionOnSet(f, R \cap P)
    BY <1>2, <2>1
  <2>5. CASE c \in P
    <3>1. c \in T \cap P /\ (T \cap P) \ {c} = R \cap P
      BY <2>1, <2>5
    <3>2. SumFunctionOnSet(f, T \cap P) = f[c] + SumFunctionOnSet(f, R \cap P)
      <4>1. SumFunctionOnSet(f, T \cap P) = f[c] + SumFunctionOnSet(f, (T \cap P) \ {c})
        BY <2>2, <3>1, SumAdd
      <4> QED  BY <3>1, <4>1
    <3>3. SumFunctionOnSet(f, T) = SumFunctionOnSet(f, T \cap P)
      BY <2>3, <2>4, <3>2
    <3> QED  BY <3>3
  <2>6. CASE c \notin P
    <3>1. T \cap P = R \cap P /\ f[c] = 0
      BY <2>1, <2>6
    <3>2. SumFunctionOnSet(f, R \cap P) \in Int
      BY <2>2, SumInt
    <3>3. SumFunctionOnSet(f, T \cap P) = SumFunctionOnSet(f, R \cap P)
      BY <3>1
    <3>4. SumFunctionOnSet(f, T) = SumFunctionOnSet(f, T \cap P)
      <4>1. f[c] = 0
        BY <3>1
      <4> HIDE DEF F, R, c
      <4> QED  BY <2>3, <2>4, <3>2, <3>3, <4>1
    <3> QED  BY <3>4
  <2> QED  BY <2>5, <2>6
<1> HIDE DEF F
<1>3. S \in F /\ S \cap P = P
  BY <1>1, <1>2, SetInduction
<1> QED  BY <1>3 DEF F

\* Ones for the elements of a part: their number.
LEMMA SumCount ==
    ASSUME NEW S, IsFiniteSet(S), NEW P, P \subseteq S, NEW f,
           \A x \in S : f[x] = IF x \in P THEN 1 ELSE 0
    PROVE  SumFunctionOnSet(f, S) = Cardinality(P)
<1>1. \A x \in S : f[x] \in Int /\ (x \notin P => f[x] = 0)
  OBVIOUS
<1>2. SumFunctionOnSet(f, S) = SumFunctionOnSet(f, P)
  BY <1>1, SumPart
<1>3. IsFiniteSet(P) /\ Cardinality(P) \in Nat /\ \A x \in P : f[x] = 1
  BY FS_Subset, FS_CardinalityType
<1>4. SumFunctionOnSet(f, P) = 1 * Cardinality(P)
  BY <1>3, SumConstant
<1> QED  BY <1>2, <1>3, <1>4

\* Two parts that share nothing.
LEMMA SumTwo ==
    ASSUME NEW P, NEW Q, IsFiniteSet(P), IsFiniteSet(Q), P \cap Q = {}, NEW f,
           \A x \in P \cup Q : f[x] \in Int
    PROVE  SumFunctionOnSet(f, P \cup Q) = SumFunctionOnSet(f, P) + SumFunctionOnSet(f, Q)
<1> DEFINE S == P \cup Q
           fp == [x \in S |-> IF x \in P THEN f[x] ELSE 0]
           fq == [x \in S |-> IF x \in Q THEN f[x] ELSE 0]
<1>1. IsFiniteSet(S)
  BY FS_Union
<1>2. SumFunctionOnSet(f, S) = SumFunctionOnSet(fp, S) + SumFunctionOnSet(fq, S)
  <2>1. \A x \in S : fp[x] \in Int /\ fq[x] \in Int /\ f[x] = fp[x] + fq[x]
    OBVIOUS
  <2> HIDE DEF S, fp, fq
  <2> QED  BY <1>1, <2>1, SumPlus
<1>3. SumFunctionOnSet(fp, S) = SumFunctionOnSet(fp, P) /\ SumFunctionOnSet(fq, S) = SumFunctionOnSet(fq, Q)
  <2>1. /\ P \subseteq S /\ \A x \in S : fp[x] \in Int /\ (x \notin P => fp[x] = 0)
        /\ Q \subseteq S /\ \A x \in S : fq[x] \in Int /\ (x \notin Q => fq[x] = 0)
    OBVIOUS
  <2> HIDE DEF S, fp, fq
  <2> QED  BY <1>1, <2>1, SumPart
<1>4. SumFunctionOnSet(fp, P) = SumFunctionOnSet(f, P) /\ SumFunctionOnSet(fq, Q) = SumFunctionOnSet(f, Q)
  <2>1. (\A x \in P : fp[x] = f[x]) /\ (\A x \in Q : fq[x] = f[x])
    OBVIOUS
  <2> HIDE DEF S, fp, fq
  <2> QED  BY <2>1, SumSame
<1> QED  BY <1>2, <1>3, <1>4

LEMMA FiniteImage ==
    ASSUME NEW S, IsFiniteSet(S), NEW m
    PROVE  IsFiniteSet({m[x] : x \in S})
<1> DEFINE Image == {m[x] : x \in S}
           f == [x \in S |-> m[x]]
<1>1. f \in Surjection(S, Image)
  BY DEF Surjection
<1> HIDE DEF f, Image
<1>2. IsFiniteSet(Image)
  BY <1>1, FS_Surjection
<1> QED  BY <1>2 DEF Image

\* Another name for each element.
LEMMA SumImage ==
    ASSUME NEW S, IsFiniteSet(S), NEW m, NEW f, NEW e,
           \A x, y \in S : m[x] = m[y] => x = y,
           \A x \in S : e[x] \in Int /\ f[m[x]] = e[x]
    PROVE  SumFunctionOnSet(f, {m[x] : x \in S}) = SumFunctionOnSet(e, S)
<1> DEFINE Image(T) == {m[x] : x \in T}
           F == {T \in SUBSET S : SumFunctionOnSet(f, Image(T)) = SumFunctionOnSet(e, T)}
<1>1. {} \in F
  <2>1. Image({}) = {}
    OBVIOUS
  <2> QED  BY <2>1, SumEmpty
<1>2. ASSUME NEW T \in SUBSET S, T # {}, \A x \in T : T \ {x} \in F PROVE T \in F
  <2> DEFINE c == One(T)
             R == T \ {c}
  <2>1. c \in T /\ R \in SUBSET S
    BY <1>2 DEF One
  <2>2. IsFiniteSet(T) /\ IsFiniteSet(Image(T))
    BY FS_Subset, FiniteImage
  <2>3. SumFunctionOnSet(e, T) = e[c] + SumFunctionOnSet(e, R)
    BY <1>2, <2>1, <2>2, SumOne
  <2>4. SumFunctionOnSet(f, Image(R)) = SumFunctionOnSet(e, R)
    BY <1>2, <2>1
  <2>5. m[c] \in Image(T) /\ Image(T) \ {m[c]} = Image(R)
    BY <2>1
  <2>6. \A y \in Image(T) : f[y] \in Int
    OBVIOUS
  <2>7. SumFunctionOnSet(f, Image(T)) = f[m[c]] + SumFunctionOnSet(f, Image(T) \ {m[c]})
    <3> HIDE DEF Image, c
    <3> QED  BY <2>2, <2>5, <2>6, SumAdd
  <2>8. f[m[c]] = e[c]
    BY <2>1
  <2>9. SumFunctionOnSet(f, Image(T)) = SumFunctionOnSet(e, T)
    <3>1. SumFunctionOnSet(f, Image(T) \ {m[c]}) = SumFunctionOnSet(f, Image(R))
      BY <2>5
    <3> HIDE DEF F, Image, c, R
    <3> QED  BY <2>3, <2>4, <2>7, <2>8, <3>1
  <2> QED  BY <2>9
<1> HIDE DEF F
<1>3. S \in F
  BY <1>1, <1>2, SetInduction
<1> QED  BY <1>3 DEF F

\* A table adds up to the same by its rows and by its columns.
Turned(row, col, A, B) == \A a \in A, b \in B : row[a][b] \in Int /\ col[b][a] = row[a][b]
SumsOf(rows, row, A, B) == \A a \in A : rows[a] = SumFunctionOnSet(row[a], B)

LEMMA SumSwap ==
    ASSUME NEW A, IsFiniteSet(A), NEW B, IsFiniteSet(B), NEW row, NEW col,
           Turned(row, col, A, B), NEW rows, SumsOf(rows, row, A, B), NEW cols, SumsOf(cols, col, B, A)
    PROVE  SumFunctionOnSet(rows, A) = SumFunctionOnSet(cols, B)
<1> DEFINE Cols(T) == [b \in B |-> SumFunctionOnSet(col[b], T)]
           F == {T \in SUBSET A : SumFunctionOnSet(rows, T) = SumFunctionOnSet(Cols(T), B)}
<1>1. {} \in F
  <2>1. \A b \in B : Cols({})[b] = 0
    BY SumEmpty
  <2>2. SumFunctionOnSet(Cols({}), B) = 0
    <3> HIDE DEF Cols
    <3> QED  BY <2>1, SumZero
  <2>3. SumFunctionOnSet(rows, {}) = 0
    BY SumEmpty
  <2>4. SumFunctionOnSet(rows, {}) = SumFunctionOnSet(Cols({}), B)
    <3> HIDE DEF Cols
    <3> QED  BY <2>2, <2>3
  <2> QED  BY <2>4
<1>2. ASSUME NEW T \in SUBSET A, T # {}, \A x \in T : T \ {x} \in F PROVE T \in F
  <2> DEFINE c == One(T)
             R == T \ {c}
  <2>1. c \in T /\ R \in SUBSET A /\ T \subseteq A
    BY <1>2 DEF One
  <2>2. IsFiniteSet(T) /\ IsFiniteSet(R)
    BY FS_Subset
  <2>3. SumFunctionOnSet(rows, T) = rows[c] + SumFunctionOnSet(rows, R)
    BY <1>2, <2>2, SumOne
  <2>4. SumFunctionOnSet(rows, R) = SumFunctionOnSet(Cols(R), B)
    BY <1>2, <2>1
  <2>5. rows[c] = SumFunctionOnSet(row[c], B)
    BY <2>1 DEF SumsOf
  <2>6. ASSUME NEW b \in B
        PROVE  row[c][b] \in Int /\ Cols(R)[b] \in Int /\ Cols(T)[b] = row[c][b] + Cols(R)[b]
    <3>1. \A a \in A : col[b][a] \in Int
      BY DEF Turned
    <3>2. /\ row[c][b] \in Int /\ col[b][c] = row[c][b]
          /\ Cols(R)[b] = SumFunctionOnSet(col[b], R) /\ Cols(T)[b] = SumFunctionOnSet(col[b], T)
      BY <2>1 DEF Turned
    <3> HIDE DEF Cols, c
    <3>3. SumFunctionOnSet(col[b], T) = col[b][c] + SumFunctionOnSet(col[b], T \ {c})
      BY <2>1, <2>2, <3>1, SumAdd
    <3>4. SumFunctionOnSet(col[b], R) \in Int
      BY <2>1, <2>2, <3>1, SumInt
    <3> QED  BY <3>2, <3>3, <3>4
  <2>7. SumFunctionOnSet(Cols(T), B) = SumFunctionOnSet(row[c], B) + SumFunctionOnSet(Cols(R), B)
    <3> DEFINE line == row[c]
    <3>1. \A b \in B : line[b] \in Int /\ Cols(R)[b] \in Int /\ Cols(T)[b] = line[b] + Cols(R)[b]
      <4> HIDE DEF Cols
      <4> QED  BY <2>6
    <3>2. SumFunctionOnSet(Cols(T), B) = SumFunctionOnSet(line, B) + SumFunctionOnSet(Cols(R), B)
      <4> HIDE DEF Cols, line, R, c, F
      <4> QED  BY <3>1, SumPlus
    <3> QED  BY <3>2
  <2>8. SumFunctionOnSet(rows, T) = SumFunctionOnSet(Cols(T), B)
    <3> HIDE DEF Cols, R, c
    <3> QED  BY <2>3, <2>4, <2>5, <2>7
  <2> QED  BY <2>8
<1> HIDE DEF F
<1>3. A \in F
  BY <1>1, <1>2, SetInduction
<1>4. SumFunctionOnSet(rows, A) = SumFunctionOnSet(Cols(A), B)
  BY <1>3 DEF F
<1>5. \A b \in B : Cols(A)[b] = cols[b]
  BY DEF SumsOf
<1>6. SumFunctionOnSet(Cols(A), B) = SumFunctionOnSet(cols, B)
  <2> HIDE DEF Cols
  <2> QED  BY <1>5, SumSame
<1> HIDE DEF Cols
<1> QED  BY <1>4, <1>6

-------------------------------------------------------------------------------
(* Ranks.                                                                  *)

IsOrder(R, S) ==
    /\ \A x \in S : <<x, x>> \notin R
    /\ \A x, y \in S : x # y => <<x, y>> \in R \/ <<y, x>> \in R
    /\ \A x, y, z \in S : <<x, y>> \in R /\ <<y, z>> \in R => <<x, z>> \in R

Below(R, S, x) == {y \in S : <<y, x>> \in R}

LEMMA OrderOfPart ==
    ASSUME NEW R, NEW S, IsOrder(R, S), NEW T, T \subseteq S
    PROVE  IsOrder(R, T)
  BY DEF IsOrder

LEMMA Greatest ==
    ASSUME NEW R, NEW S, IsFiniteSet(S), S # {}, IsOrder(R, S)
    PROVE  \E m \in S : \A x \in S \ {m} : <<x, m>> \in R
<1> DEFINE Top(T) == \E m \in T : \A x \in T \ {m} : <<x, m>> \in R
           F == {T \in SUBSET S : T # {} => Top(T)}
<1>1. {} \in F
  OBVIOUS
<1>2. ASSUME NEW T \in SUBSET S, T # {}, \A x \in T : T \ {x} \in F PROVE T \in F
  <2> SUFFICES Top(T)
    OBVIOUS
  <2>1. PICK c \in T : TRUE
    BY <1>2
  <2>2. CASE T \ {c} = {}
    BY <2>1, <2>2
  <2>3. CASE T \ {c} # {}
    <3>1. PICK m \in T \ {c} : \A x \in (T \ {c}) \ {m} : <<x, m>> \in R
      BY <1>2, <2>1, <2>3
    <3>2. c \in S /\ m \in S /\ c # m
      BY <2>1, <3>1
    <3>3. CASE <<c, m>> \in R
      BY <3>1, <3>3
    <3>4. CASE <<m, c>> \in R
      <4>1. \A x \in T \ {c} : <<x, c>> \in R
        BY <3>1, <3>2, <3>4 DEF IsOrder
      <4> QED  BY <2>1, <4>1
    <3> QED  BY <3>2, <3>3, <3>4 DEF IsOrder
  <2> QED  BY <2>2, <2>3
<1> HIDE DEF F
<1>3. S \in F
  BY <1>1, <1>2, SetInduction
<1> QED  BY <1>3 DEF F

\* As many elements have fewer than r below them as r says.
LEMMA FirstOnes ==
    ASSUME NEW R, NEW S, IsFiniteSet(S), IsOrder(R, S), NEW n \in 0 .. Cardinality(S)
    PROVE  Cardinality({x \in S : Cardinality(Below(R, S, x)) < n}) = n
<1> DEFINE First(T, r) == {x \in T : Cardinality(Below(R, T, x)) < r}
           F == {T \in SUBSET S : \A r \in 0 .. Cardinality(T) : Cardinality(First(T, r)) = r}
<1>1. {} \in F
  <2>1. Cardinality({}) = 0 /\ \A r : First({}, r) = {}
    BY FS_EmptySet
  <2>2. \A r \in 0 .. 0 : r = 0
    OBVIOUS
  <2> QED  BY <2>1, <2>2
<1>2. ASSUME NEW T \in SUBSET S, T # {}, \A x \in T : T \ {x} \in F PROVE T \in F
  <2>1. IsFiniteSet(T) /\ IsOrder(R, T) /\ Cardinality(T) \in Nat
    BY FS_Subset, FS_CardinalityType, OrderOfPart
  <2>2. PICK m \in T : \A x \in T \ {m} : <<x, m>> \in R
    BY <1>2, <2>1, Greatest
  <2> DEFINE P == T \ {m}
             size == Cardinality(T)
  <2>3. IsFiniteSet(P) /\ Cardinality(P) = size - 1 /\ P \in F /\ size \in Nat \ {0}
    <3>1. Cardinality(P) \in Nat /\ IsFiniteSet(P)
      BY <2>1, FS_Subset, FS_CardinalityType
    <3>2. Cardinality(P) = size - 1
      BY <2>1, FS_RemoveElement
    <3>3. P \in F
      BY <1>2
    <3> HIDE DEF P, F
    <3> QED  BY <2>1, <3>1, <3>2, <3>3
  <2>4. Below(R, T, m) = P /\ \A x \in P : Below(R, T, x) = Below(R, P, x)
    BY <2>1, <2>2 DEF Below, IsOrder
  <2>5. \A x \in T : Cardinality(Below(R, T, x)) < size
    <3> SUFFICES ASSUME NEW x \in T PROVE Cardinality(Below(R, T, x)) < size
      OBVIOUS
    <3>1. Below(R, T, x) \subseteq T \ {x}
      BY <2>1 DEF Below, IsOrder
    <3>2. IsFiniteSet(T \ {x}) /\ Cardinality(T \ {x}) = size - 1
      BY <2>1, FS_Subset, FS_RemoveElement
    <3>3. Cardinality(Below(R, T, x)) <= size - 1 /\ Cardinality(Below(R, T, x)) \in Nat
      BY <3>1, <3>2, FS_Subset, FS_CardinalityType
    <3> QED  BY <2>3, <3>3
  <2>6. ASSUME NEW r \in 0 .. size - 1 PROVE Cardinality(First(T, r)) = r
    <3>1. First(T, r) = First(P, r)
      <4>1. ~(Cardinality(Below(R, T, m)) < r)
        BY <2>3, <2>4
      <4>2. \A x \in P : x \in First(T, r) <=> x \in First(P, r)
        BY <2>4
      <4> QED  BY <4>1, <4>2
    <3>2. Cardinality(First(P, r)) = r
      BY <2>3
    <3> QED  BY <3>1, <3>2
  <2>7. Cardinality(First(T, size)) = size
    <3>1. First(T, size) = T
      BY <2>5
    <3> QED  BY <3>1
  <2>8. \A r \in 0 .. size : r \in 0 .. size - 1 \/ r = size
    BY <2>3
  <2>9. \A r \in 0 .. size : Cardinality(First(T, r)) = r
    BY <2>6, <2>7, <2>8
  <2> QED  BY <2>9
<1> HIDE DEF F
<1>3. S \in F
  BY <1>1, <1>2, SetInduction
<1> QED  BY <1>3 DEF F

-------------------------------------------------------------------------------
(* Stretches between neighbouring cuts.                                    *)

Gaps(C) == {g \in C \X C : g[1] < g[2] /\ ~\E c \in C : g[1] < c /\ c < g[2]}
Span    == [g \in Int \X Int |-> g[2] - g[1]]

LEMMA FiniteGaps ==
    ASSUME NEW C, IsFiniteSet(C)
    PROVE  IsFiniteSet(Gaps(C))
<1>1. IsFiniteSet(C \X C) /\ Gaps(C) \subseteq C \X C
  BY FS_Product DEF Gaps
<1> QED  BY <1>1, FS_Subset

\* One cut more, behind the others, is one stretch more.
LEMMA LastGap ==
    ASSUME NEW C, C \subseteq Int, NEW b \in C, \A c \in C : c <= b, NEW m \in Int, b < m
    PROVE  Gaps(C \cup {m}) = Gaps(C) \cup {<<b, m>>} /\ <<b, m>> \notin Gaps(C)
<1>1. ASSUME NEW g \in Gaps(C \cup {m}) PROVE g \in Gaps(C) \cup {<<b, m>>}
  <2>1. /\ g[1] \in C \cup {m} /\ g[2] \in C \cup {m} /\ g = <<g[1], g[2]>> /\ g[1] < g[2]
        /\ \A c \in C \cup {m} : ~(g[1] < c /\ c < g[2])
    BY DEF Gaps
  <2>2. g[1] \in C
    BY <2>1
  <2>3. CASE g[2] = m
    <3>1. ~(g[1] < b /\ b < m) /\ g[1] <= b /\ g[1] \in Int
      BY <2>1, <2>2, <2>3
    <3>2. g[1] = b
      BY <3>1
    <3> QED  BY <2>1, <2>3, <3>2
  <2>4. CASE g[2] # m
    BY <2>1, <2>2, <2>4 DEF Gaps
  <2> QED  BY <2>3, <2>4
<1>2. Gaps(C) \subseteq Gaps(C \cup {m})
  <2> SUFFICES ASSUME NEW g \in Gaps(C) PROVE g \in Gaps(C \cup {m})
    OBVIOUS
  <2>1. g[1] \in C /\ g[2] \in C /\ g = <<g[1], g[2]>> /\ g[1] < g[2] /\ \A c \in C : ~(g[1] < c /\ c < g[2])
    BY DEF Gaps
  <2>2. ~(m < g[2])
    BY <2>1
  <2> QED  BY <2>1, <2>2 DEF Gaps
<1>3. <<b, m>> \in Gaps(C \cup {m})
  <2>1. \A c \in C \cup {m} : ~(b < c /\ c < m)
    OBVIOUS
  <2> QED  BY <2>1 DEF Gaps
<1>4. m \notin C
  OBVIOUS
<1>5. <<b, m>> \notin Gaps(C)
  BY <1>4 DEF Gaps
<1> QED  BY <1>1, <1>2, <1>3, <1>5

\* Together they reach from the first cut to the last.
LEMMA GapsAdd ==
    ASSUME NEW C, C \subseteq Int, IsFiniteSet(C), NEW lo \in C, NEW hi \in C,
           \A c \in C : lo <= c /\ c <= hi
    PROVE  SumFunctionOnSet(Span, Gaps(C)) = hi - lo
<1> DEFINE Reach(T, a, b) == /\ \A c \in T : a <= c /\ c <= b
                             /\ SumFunctionOnSet(Span, Gaps(T)) = b - a
           F == {T \in SUBSET C : T # {} => \E a, b \in T : Reach(T, a, b)}
           less == {p \in C \X C : p[1] < p[2]}
<1>1. {} \in F
  OBVIOUS
<1>2. ASSUME NEW T \in SUBSET C, T # {}, \A x \in T : T \ {x} \in F PROVE T \in F
  <2> SUFFICES \E a, b \in T : Reach(T, a, b)
    OBVIOUS
  <2>1. IsFiniteSet(T) /\ IsOrder(less, T) /\ T \subseteq Int
    <3>1. \A x, y \in T : <<x, y>> \in less <=> x < y
      OBVIOUS
    <3>2. IsFiniteSet(T) /\ T \subseteq Int
      BY FS_Subset
    <3> HIDE DEF less
    <3>3. IsOrder(less, T)
      BY <3>1, <3>2 DEF IsOrder
    <3> QED  BY <3>2, <3>3
  <2>2. PICK m \in T : \A x \in T \ {m} : <<x, m>> \in less
    BY <1>2, <2>1, Greatest
  <2>3. \A x \in T \ {m} : x < m
    BY <2>2
  <2> DEFINE P == T \ {m}
  <2>4. CASE P = {}
    <3>1. T = {m} /\ m \in Int
      BY <2>1, <2>2, <2>4
    <3>2. Gaps(T) = {}
      BY <3>1 DEF Gaps
    <3>3. SumFunctionOnSet(Span, Gaps(T)) = 0
      BY <3>2, SumEmpty
    <3>4. Reach(T, m, m)
      BY <3>1, <3>3
    <3> QED  BY <3>4
  <2>5. CASE P # {}
    <3>1. P \in F
      BY <1>2, <2>2
    <3>2. PICK a, b \in P : Reach(P, a, b)
      BY <2>5, <3>1
    <3>3. a \in Int /\ b \in Int /\ m \in Int /\ b < m /\ T = P \cup {m} /\ P \subseteq Int
      BY <2>1, <2>2, <2>3, <3>2
    <3>4. Gaps(T) = Gaps(P) \cup {<<b, m>>} /\ <<b, m>> \notin Gaps(P)
      <4>1. \A c \in P : c <= b
        BY <3>2
      <4> HIDE DEF P, Reach
      <4> QED  BY <3>2, <3>3, <4>1, LastGap
    <3>5. IsFiniteSet(Gaps(T)) /\ \A g \in Gaps(T) : Span[g] \in Int
      <4>1. \A g \in Gaps(T) : g \in Int \X Int
        BY <2>1 DEF Gaps
      <4> QED  BY <2>1, <4>1, FiniteGaps DEF Span
    <3>6. <<b, m>> \in Gaps(T) /\ Gaps(T) \ {<<b, m>>} = Gaps(P)
      BY <3>4
    <3>7. SumFunctionOnSet(Span, Gaps(T)) = Span[<<b, m>>] + SumFunctionOnSet(Span, Gaps(T) \ {<<b, m>>})
      BY <3>5, <3>6, SumAdd
    <3>8. Span[<<b, m>>] = m - b /\ SumFunctionOnSet(Span, Gaps(T) \ {<<b, m>>}) = b - a
      BY <3>2, <3>3, <3>6 DEF Span
    <3>9. SumFunctionOnSet(Span, Gaps(T)) = m - a
      BY <3>3, <3>7, <3>8
    <3>10. \A c \in T : a <= c /\ c <= m
      BY <2>1, <2>3, <3>2, <3>3
    <3> QED  BY <3>2, <3>9, <3>10
  <2> QED  BY <2>4, <2>5
<1> HIDE DEF F
<1>3. C \in F
  BY <1>1, <1>2, SetInduction
<1>4. PICK a, b \in C : Reach(C, a, b)
  BY <1>3 DEF F
<1>5. a = lo /\ b = hi
  BY <1>4
<1> QED  BY <1>4, <1>5

LEMMA Division ==
    ASSUME NEW n \in Int, NEW k \in Nat \ {0}
    PROVE  /\ n \div k \in Int /\ n % k \in 0 .. k - 1
           /\ n = k * (n \div k) + (n % k)
           /\ n \in Nat => n \div k \in Nat
  OBVIOUS

\* A common factor.
LEMMA SumTimes ==
    ASSUME NEW S, IsFiniteSet(S), NEW k \in Int, NEW f, NEW e,
           \A x \in S : f[x] \in Int /\ e[x] = k * f[x]
    PROVE  SumFunctionOnSet(e, S) = k * SumFunctionOnSet(f, S)
<1> DEFINE F == {T \in SUBSET S : SumFunctionOnSet(e, T) = k * SumFunctionOnSet(f, T)}
<1>1. {} \in F
  BY SumEmpty
<1>2. ASSUME NEW T \in SUBSET S, T # {}, \A x \in T : T \ {x} \in F PROVE T \in F
  <2> DEFINE c == One(T)
             R == T \ {c}
  <2>1. c \in T /\ R \in SUBSET S
    BY <1>2 DEF One
  <2>2. IsFiniteSet(T) /\ IsFiniteSet(R)
    BY FS_Subset
  <2>3. /\ SumFunctionOnSet(f, T) = f[c] + SumFunctionOnSet(f, R)
        /\ SumFunctionOnSet(e, T) = e[c] + SumFunctionOnSet(e, R)
    BY <1>2, <2>2, SumOne
  <2>4. SumFunctionOnSet(e, R) = k * SumFunctionOnSet(f, R)
    BY <1>2, <2>1
  <2>5. SumFunctionOnSet(f, R) \in Int
    BY <2>2, SumInt
  <2>6. f[c] \in Int /\ e[c] = k * f[c]
    BY <2>1
  <2>7. \A u, v \in Int : k * u + k * v = k * (u + v)
    OBVIOUS
  <2>8. SumFunctionOnSet(e, T) = k * SumFunctionOnSet(f, T)
    <3> HIDE DEF c, R, F
    <3> QED  BY <2>3, <2>4, <2>5, <2>6, <2>7
  <2> QED  BY <2>8
<1> HIDE DEF F
<1>3. S \in F
  BY <1>1, <1>2, SetInduction
<1> QED  BY <1>3 DEF F

\* Where only one is not nothing, the sum is that one.
LEMMA SumPick ==
    ASSUME NEW S, IsFiniteSet(S), NEW y \in S, NEW f, f[y] \in Int, \A x \in S \ {y} : f[x] = 0
    PROVE  SumFunctionOnSet(f, S) = f[y]
<1>1. \A x \in S : f[x] \in Int
  OBVIOUS
<1>2. SumFunctionOnSet(f, S) = f[y] + SumFunctionOnSet(f, S \ {y})
  BY <1>1, SumAdd
<1>3. IsFiniteSet(S \ {y})
  BY FS_Subset
<1>4. SumFunctionOnSet(f, S \ {y}) = 0
  BY <1>3, SumZero
<1> QED  BY <1>2, <1>4

LEMMA SumNear ==
    ASSUME NEW S, IsFiniteSet(S), NEW B, B \subseteq S, NEW k \in Int,
           NEW a, \A x \in S : a[x] \in Int, NEW b, \A x \in S : b[x] \in Int,
           \A x \in B : a[x] - b[x] <= k, \A x \in S \ B : a[x] - b[x] <= 0
    PROVE  SumFunctionOnSet(a, S) - SumFunctionOnSet(b, S) <= k * Cardinality(B)
<1> DEFINE dif == [x \in S |-> a[x] - b[x]]
           most == [x \in S |-> IF x \in B THEN k ELSE 0]
<1>1. \A x \in S : /\ dif[x] \in Int /\ b[x] \in Int /\ a[x] = dif[x] + b[x]
                   /\ most[x] \in Int /\ dif[x] <= most[x] /\ (x \notin B => most[x] = 0)
  OBVIOUS
<1>2. \A x \in B : most[x] = k
  OBVIOUS
<1> HIDE DEF dif, most
<1>3. \A x \in S : dif[x] \in Int /\ b[x] \in Int /\ a[x] = dif[x] + b[x]
  BY <1>1
<1>4. SumFunctionOnSet(a, S) = SumFunctionOnSet(dif, S) + SumFunctionOnSet(b, S)
  BY <1>3, SumPlus
<1>5. \A x \in S : dif[x] \in Int /\ most[x] \in Int /\ dif[x] <= most[x]
  BY <1>1
<1>6. SumFunctionOnSet(dif, S) <= SumFunctionOnSet(most, S)
  BY <1>5, SumLeq
<1>7. \A x \in S : most[x] \in Int /\ (x \notin B => most[x] = 0)
  BY <1>1
<1>8. SumFunctionOnSet(most, S) = SumFunctionOnSet(most, B)
  BY <1>7, SumPart
<1>9. IsFiniteSet(B)
  BY FS_Subset
<1>10. SumFunctionOnSet(most, B) = k * Cardinality(B)
  BY <1>2, <1>9, SumConstant
<1>11. /\ SumFunctionOnSet(dif, S) \in Int /\ SumFunctionOnSet(b, S) \in Int
  BY <1>3, SumInt
<1>12. SumFunctionOnSet(most, S) \in Int
  BY <1>7, SumInt
<1> QED  BY <1>4, <1>6, <1>8, <1>10, <1>11, <1>12

\* A sum of no less than nothing is nothing only if each is.
LEMMA SumPositive ==
    ASSUME NEW S, IsFiniteSet(S), NEW f, \A x \in S : f[x] \in Nat, NEW y \in S, f[y] > 0
    PROVE  SumFunctionOnSet(f, S) > 0
<1>1. \A x \in S : f[x] \in Int
  OBVIOUS
<1>2. SumFunctionOnSet(f, S) = f[y] + SumFunctionOnSet(f, S \ {y})
  BY <1>1, SumAdd
<1>3. IsFiniteSet(S \ {y}) /\ \A x \in S \ {y} : f[x] \in Nat
  BY FS_Subset
<1>4. SumFunctionOnSet(f, S \ {y}) \in Nat
  BY <1>3, SumNat
<1> QED  BY <1>2, <1>4

LEMMA ImageNoLarger ==
    ASSUME NEW S, IsFiniteSet(S), NEW m
    PROVE  /\ IsFiniteSet({m[x] : x \in S}) /\ Cardinality({m[x] : x \in S}) <= Cardinality(S)
           /\ (\A x, y \in S : m[x] = m[y] => x = y) => Cardinality({m[x] : x \in S}) = Cardinality(S)
<1> DEFINE T == {m[x] : x \in S}
           f == [x \in S |-> m[x]]
<1>1. f \in Surjection(S, T)
  BY DEF Surjection
<1>2. (\A x, y \in S : m[x] = m[y] => x = y) => f \in Injection(S, T)
  BY DEF Injection, IsInjective
<1> HIDE DEF T, f
<1>3. IsFiniteSet(T) /\ Cardinality(T) <= Cardinality(S) /\ (f \in Injection(S, T) => Cardinality(T) = Cardinality(S))
  BY <1>1, FS_Surjection
<1> QED  BY <1>2, <1>3 DEF T

\* A finite set of integers has a smallest and a largest member.
LEMMA EndsOf ==
    ASSUME NEW S, S \subseteq Int, IsFiniteSet(S), S # {}
    PROVE  /\ Min(S) \in S /\ \A x \in S : Min(S) <= x
           /\ Max(S) \in S /\ \A x \in S : x <= Max(S)
<1> DEFINE less == {p \in S \X S : p[1] < p[2]}
           more == {p \in S \X S : p[1] > p[2]}
<1>1. IsOrder(less, S)
  BY DEF IsOrder
<1>9. IsOrder(more, S)
  BY DEF IsOrder
<1>2. /\ \A x, m \in S : <<x, m>> \in less => x < m
      /\ \A x, m \in S : <<x, m>> \in more => x > m
  OBVIOUS
<1> HIDE DEF less, more
<1>3. \E m \in S : \A x \in S \ {m} : <<x, m>> \in less
  BY <1>1, Greatest
<1>5. \E m \in S : \A x \in S \ {m} : <<x, m>> \in more
  BY <1>9, Greatest
<1>6. PICK m \in S : \A x \in S \ {m} : <<x, m>> \in less
  BY <1>3
<1>7. PICK n \in S : \A x \in S \ {n} : <<x, n>> \in more
  BY <1>5
<1>12. (\A x \in S \ {m} : x < m) /\ \A x \in S \ {n} : x > n
  BY <1>2, <1>6, <1>7, Zenon
<1>4. \A x \in S : x <= m /\ n <= x
  BY <1>12
<1>8. n \in S /\ m \in S /\ (\A x \in S : n <= x) /\ (\A x \in S : m >= x)
  BY <1>4
<1>10. Min(S) \in S /\ \A x \in S : Min(S) <= x
  BY <1>8 DEF Min
<1>11. Max(S) \in S /\ \A x \in S : Max(S) >= x
  BY <1>8 DEF Max
<1> QED  BY <1>10, <1>11

-------------------------------------------------------------------------------
(* Apportioning.                                                           *)

\* The ids that come first get one of what an even split leaves over: the shares add up.
LEMMA SharesAddUp ==
    ASSUME NEW A, IsFiniteSet(A), A \subseteq Int, A # {}, NEW n \in Nat,
           NEW f, \A p \in A : f[p] = ShareOf(A, p, n)
    PROVE  SumFunctionOnSet(f, A) = n /\ \A p \in A : f[p] \in Nat
<1> DEFINE k == Cardinality(A)
           q == n \div k
           r == n % k
           less == {x \in A \X A : x[1] < x[2]}
           first == {p \in A : Cardinality(Below(less, A, p)) < r}
           even == [p \in A |-> q]
           more == [p \in A |-> IF p \in first THEN 1 ELSE 0]
<1>1. k \in Nat \ {0}
  BY FS_CardinalityType, FS_EmptySet
<1>2. q \in Nat /\ r \in 0 .. k - 1 /\ n = k * q + r
  <2> HIDE DEF k
  <2>1. n \in Int
    OBVIOUS
  <2>2. q \in Int /\ r \in 0 .. k - 1 /\ n = k * q + r /\ (n \in Nat => q \in Nat)
    BY <1>1, <2>1, Division, Zenon
  <2> QED  BY <2>2
<1>3. \A x, y \in A : <<x, y>> \in less <=> x < y
  OBVIOUS
<1>4. IsOrder(less, A)
  <2> HIDE DEF less
  <2> QED  BY <1>3 DEF IsOrder
<1>5. Cardinality(first) = r
  <2>1. r \in 0 .. Cardinality(A)
    <3>1. r \in 0 .. k
      <4> HIDE DEF k, r
      <4> QED  BY <1>1, <1>2
    <3> QED  BY <3>1
  <2> HIDE DEF less, r
  <2> QED  BY <1>4, <2>1, FirstOnes
<1>6. ASSUME NEW p \in A
      PROVE  f[p] = even[p] + more[p] /\ even[p] = q /\ more[p] = (IF p \in first THEN 1 ELSE 0)
  <2>1. {x \in A : x < p} = Below(less, A, p)
    BY <1>3 DEF Below
  <2>2. p \in first <=> Cardinality({x \in A : x < p}) < r
    BY <2>1
  <2>3. f[p] = q + (IF Cardinality({x \in A : x < p}) < r THEN 1 ELSE 0)
    BY DEF ShareOf
  <2> HIDE DEF q, r, first
  <2> QED  BY <2>2, <2>3
<1> HIDE DEF q, r, first, even, more
<1>7. \A p \in A : even[p] \in Int /\ more[p] \in Int /\ f[p] = even[p] + more[p] /\ f[p] \in Nat
  BY <1>2, <1>6
<1>8. SumFunctionOnSet(f, A) = SumFunctionOnSet(even, A) + SumFunctionOnSet(more, A)
  BY <1>7, SumPlus
<1>9. SumFunctionOnSet(even, A) = q * k
  <2>1. \A p \in A : even[p] = q
    BY <1>6
  <2>2. q \in Int
    BY <1>2
  <2> QED  BY <2>1, <2>2, SumConstant
<1>10. SumFunctionOnSet(more, A) = r
  <2>1. first \subseteq A
    BY DEF first
  <2> QED  BY <1>5, <1>6, <2>1, SumCount
<1>11. SumFunctionOnSet(f, A) = n
  <2> HIDE DEF k
  <2>1. q * k = k * q
    BY <1>1, <1>2
  <2> QED  BY <1>1, <1>2, <1>8, <1>9, <1>10, <2>1
<1> QED  BY <1>7, <1>11

\* Whole seconds by largest remainder.  There are never more seconds left over than parts with a
\* remainder, so each of those that come first gets one, and the parts add up to the whole.
LEMMA Quotient ==
    ASSUME NEW k \in Nat \ {0}, NEW q \in Int, NEW n \in Int
    PROVE  (k * q + n) \div k = q + (n \div k)
  OBVIOUS

LEMMA RoundedUp ==
    ASSUME NEW n \in Int, NEW D \in Int, NEW M \in Nat, n = Second * D + M,
           NEW nz \in Nat, M <= (Second - 1) * nz
    PROVE  Rounded(n) - D \in 0 .. nz
<1> DEFINE h == Second \div 2
           k == Second
<1>1. k \in Nat \ {0} /\ h \in Nat /\ h < k /\ k = 2 * h
  <2>1. k \in Nat \ {0} /\ k % 2 = 0
    BY AttributionAssumption
  <2> HIDE DEF k
  <2>2. k \div 2 \in Nat /\ k = 2 * (k \div 2) /\ k \div 2 < k
    BY <2>1
  <2> QED  BY <2>1, <2>2 DEF k
<1>2. Rounded(n) = (k * D + (M + h)) \div k
  <2>1. n + h = k * D + (M + h)
    <3> HIDE DEF h
    <3>1. k * D \in Int
      BY <1>1
    <3> QED  BY <1>1, <3>1
  <2> QED  BY <2>1 DEF Rounded
<1> HIDE DEF k, h
<1>3. Rounded(n) = D + ((M + h) \div k)
  BY <1>1, <1>2, Quotient
<1> DEFINE q == (M + h) \div k
           r == (M + h) % k
<1>4. q \in Nat /\ r \in 0 .. k - 1 /\ M + h = k * q + r
  <2>1. M + h \in Int /\ M + h \in Nat
    BY <1>1
  <2>2. q \in Int /\ r \in 0 .. k - 1 /\ M + h = k * q + r /\ (M + h \in Nat => q \in Nat)
    BY <1>1, <2>1, Division, Zenon
  <2> QED  BY <2>1, <2>2
<1> HIDE DEF q, r
<1>5. ~(q > nz)
  <2> SUFFICES ASSUME q > nz PROVE FALSE
    OBVIOUS
  <2>1. k * q >= k * (nz + 1)
    BY <1>1, <1>4
  <2>2. k * (nz + 1) = k * nz + k /\ (k - 1) * nz = k * nz - nz /\ k * nz \in Int /\ k * q \in Int
    BY <1>1, <1>4
  <2>3. M <= (k - 1) * nz
    BY DEF k
  <2> QED  BY <1>1, <1>4, <2>1, <2>2, <2>3
<1>6. Rounded(n) - D = q
  BY <1>3, <1>4 DEF q
<1> QED  BY <1>4, <1>5, <1>6

LEMMA SecondPositive == Second \in Nat \ {0}
  BY AttributionAssumption

\* Whose remainder is larger comes first, then the smaller id, then the evidenced part.
LEMMA BeforeIsOrder ==
    ASSUME NEW parts, parts \subseteq Int \X BOOLEAN,
           NEW micros, \A x \in parts : micros[x] \in Int
    PROVE  IsOrder({p \in parts \X parts : Before(p[1], p[2], micros)}, parts)
<1> DEFINE R == {p \in parts \X parts : Before(p[1], p[2], micros)}
           rem == [x \in parts |-> micros[x] % Second]
           id == [x \in parts |-> x[1]]
           last == [x \in parts |-> IF x[2] THEN 0 ELSE 1]
<1>1. \A x \in parts : rem[x] \in Int /\ id[x] \in Int /\ last[x] \in {0, 1}
  <2>1. \A x \in parts : micros[x] % Second \in 0 .. Second - 1
    BY SecondPositive, Division
  <2>2. \A x \in parts : x[1] \in Int
    OBVIOUS
  <2> QED  BY <2>1, <2>2, SecondPositive
<1>2. \A x, y \in parts : <<x, y>> \in R <=>
        rem[x] > rem[y] \/ (rem[x] = rem[y] /\ (id[x] < id[y] \/ (id[x] = id[y] /\ last[x] < last[y])))
  <2> SUFFICES ASSUME NEW x \in parts, NEW y \in parts
               PROVE  Before(x, y, micros) <=>
                 rem[x] > rem[y] \/ (rem[x] = rem[y] /\ (id[x] < id[y] \/ (id[x] = id[y] /\ last[x] < last[y])))
    OBVIOUS
  <2>1. last[x] < last[y] <=> x[2] /\ ~y[2]
    <3>1. x[2] \in BOOLEAN /\ y[2] \in BOOLEAN
      OBVIOUS
    <3>2. CASE x[2] = TRUE /\ y[2] = TRUE
      BY <3>2
    <3>3. CASE x[2] = TRUE /\ y[2] = FALSE
      BY <3>3
    <3>4. CASE x[2] = FALSE /\ y[2] = TRUE
      BY <3>4
    <3>5. CASE x[2] = FALSE /\ y[2] = FALSE
      BY <3>5
    <3> QED  BY <3>1, <3>2, <3>3, <3>4, <3>5
  <2>2. rem[x] = micros[x] % Second /\ rem[y] = micros[y] % Second /\ id[x] = x[1] /\ id[y] = y[1]
    OBVIOUS
  <2> HIDE DEF rem, id, last
  <2> QED  BY <2>1, <2>2 DEF Before
<1>3. \A x, y \in parts : id[x] = id[y] /\ last[x] = last[y] => x = y
  <2> SUFFICES ASSUME NEW x \in parts, NEW y \in parts, id[x] = id[y], last[x] = last[y] PROVE x = y
    OBVIOUS
  <2>1. x = <<x[1], x[2]>> /\ y = <<y[1], y[2]>> /\ x[1] = y[1] /\ x[2] \in BOOLEAN /\ y[2] \in BOOLEAN
    OBVIOUS
  <2>2. x[2] = y[2]
    <3>1. CASE x[2] = TRUE /\ y[2] = FALSE
      BY <3>1
    <3>2. CASE x[2] = FALSE /\ y[2] = TRUE
      BY <3>2
    <3> QED  BY <2>1, <3>1, <3>2
  <2> QED  BY <2>1, <2>2
<1> HIDE DEF R, rem, id, last
<1>4. IsOrder(R, parts)
  BY <1>1, <1>2, <1>3 DEF IsOrder
<1> QED  BY <1>4 DEF R

\* One second for each part among the first that are left over, and none without a remainder.
LEMMA SecondsOf ==
    ASSUME NEW parts, IsFiniteSet(parts), parts \subseteq Int \X BOOLEAN,
           NEW micros, \A x \in parts : micros[x] \in Int,
           NEW total, total = SumFunctionOnSet(micros, parts)
    PROVE  /\ SumFunctionOnSet(WholeSeconds(parts, micros, total), parts) = Rounded(total)
           /\ \A x \in parts : /\ WholeSeconds(parts, micros, total)[x] \in Int
                               /\ WholeSeconds(parts, micros, total)[x] * Second - micros[x] < Second
                               /\ micros[x] - WholeSeconds(parts, micros, total)[x] * Second < Second
<1> DEFINE R == {p \in parts \X parts : Before(p[1], p[2], micros)}
           whole == [x \in parts |-> micros[x] \div Second]
           rem == [x \in parts |-> micros[x] % Second]
           held == [x \in parts |-> Second * whole[x]]
           D == SumFunctionOnSet(whole, parts)
           M == SumFunctionOnSet(rem, parts)
           nz == {x \in parts : rem[x] # 0}
           L == Rounded(total) - D
           first == {x \in parts : Cardinality(Below(R, parts, x)) < L}
           more == [x \in parts |-> IF x \in first THEN 1 ELSE 0]
           secs == WholeSeconds(parts, micros, total)
<1>1. ASSUME NEW x \in parts
      PROVE  /\ whole[x] \in Int /\ rem[x] \in 0 .. Second - 1 /\ held[x] = Second * whole[x]
             /\ held[x] \in Int /\ micros[x] = held[x] + rem[x]
  <2>1. /\ micros[x] \div Second \in Int /\ micros[x] % Second \in 0 .. Second - 1
        /\ micros[x] = Second * (micros[x] \div Second) + (micros[x] % Second)
    BY SecondPositive, Division
  <2>2. Second * (micros[x] \div Second) \in Int
    BY <2>1, SecondPositive
  <2> QED  BY <2>1, <2>2
<1>2. D \in Int /\ total = Second * D + M
  <2> HIDE DEF whole, rem, held
  <2>1. D \in Int
    BY <1>1, SumInt
  <2>2. \A x \in parts : held[x] \in Int /\ rem[x] \in Int /\ micros[x] = held[x] + rem[x]
    BY <1>1, SecondPositive
  <2>3. SumFunctionOnSet(micros, parts) = SumFunctionOnSet(held, parts) + SumFunctionOnSet(rem, parts)
    BY <2>2, SumPlus
  <2>4. SumFunctionOnSet(held, parts) = Second * SumFunctionOnSet(whole, parts)
    <3>1. \A x \in parts : whole[x] \in Int /\ held[x] = Second * whole[x]
      BY <1>1
    <3> QED  BY <3>1, SecondPositive, SumTimes
  <2> QED  BY <2>1, <2>3, <2>4
<1>3. nz \subseteq parts /\ IsFiniteSet(nz) /\ Cardinality(nz) \in Nat /\ Cardinality(nz) <= Cardinality(parts)
      /\ Cardinality(parts) \in Nat
  <2>1. nz \subseteq parts
    OBVIOUS
  <2> HIDE DEF nz
  <2> QED  BY <2>1, FS_Subset, FS_CardinalityType
<1>4. M \in Nat /\ M <= (Second - 1) * Cardinality(nz)
  <2> DEFINE none == [x \in parts |-> 0]
             most == [x \in nz |-> Second - 1]
  <2>1. M = SumFunctionOnSet(rem, nz)
    <3>1. \A x \in parts : rem[x] \in Int /\ (x \notin nz => rem[x] = 0)
      <4>1. \A x \in parts : rem[x] \in Int
        <5> HIDE DEF rem
        <5> QED  BY <1>1, SecondPositive
      <4> QED  BY <4>1
    <3> HIDE DEF rem, nz
    <3> QED  BY <1>3, <3>1, SumPart
  <2>2. \A x \in nz : rem[x] \in Int /\ most[x] \in Int /\ rem[x] <= most[x] /\ most[x] = Second - 1
    <3>1. \A x \in nz : x \in parts
      OBVIOUS
    <3>2. \A x \in nz : most[x] = Second - 1
      OBVIOUS
    <3> HIDE DEF rem, nz, most
    <3> QED  BY <1>1, <3>1, <3>2, SecondPositive
  <2>3. \A x \in parts : rem[x] \in Int /\ none[x] \in Int /\ none[x] <= rem[x] /\ none[x] = 0
    <3>1. \A x \in parts : none[x] = 0
      OBVIOUS
    <3> HIDE DEF rem, none
    <3> QED  BY <1>1, <3>1, SecondPositive
  <2>4. M \in Int
    <3> HIDE DEF rem
    <3> QED  BY <2>3, SumInt
  <2>5. M <= SumFunctionOnSet(most, nz)
    <3> HIDE DEF rem, nz, most, M
    <3> QED  BY <1>3, <2>1, <2>2, SumLeq
  <2>6. SumFunctionOnSet(most, nz) = (Second - 1) * Cardinality(nz)
    <3>1. PICK k \in Int : k = Second - 1
      BY SecondPositive
    <3>2. \A x \in nz : most[x] = k
      BY <2>2, <3>1
    <3> HIDE DEF nz, most
    <3>3. SumFunctionOnSet(most, nz) = k * Cardinality(nz)
      BY <1>3, <3>2, SumConstant
    <3> QED  BY <3>1, <3>3
  <2>7. SumFunctionOnSet(none, parts) <= M /\ SumFunctionOnSet(none, parts) = 0 * Cardinality(parts)
    <3> HIDE DEF rem, none
    <3> QED  BY <2>3, SumLeq, SumConstant
  <2> HIDE DEF M, most, none
  <2>8. 0 * Cardinality(parts) = 0
    BY <1>3
  <2> QED  BY <2>4, <2>5, <2>6, <2>7, <2>8
<1>5. L \in 0 .. Cardinality(nz) /\ L \in 0 .. Cardinality(parts)
  <2>1. total \in Int
    BY SumInt
  <2> HIDE DEF D, M, nz
  <2>2. Rounded(total) - D \in 0 .. Cardinality(nz)
    BY <1>2, <1>3, <1>4, <2>1, RoundedUp
  <2> QED  BY <1>3, <2>2
<1>6. IsOrder(R, parts)
  BY BeforeIsOrder
<1>7. Cardinality(first) = L
  <2> HIDE DEF R, L
  <2> QED  BY <1>5, <1>6, FirstOnes
<1>8. ASSUME NEW x \in parts
      PROVE  secs[x] = whole[x] + more[x]
  <2>1. SumFunction([y \in parts |-> micros[y] \div Second]) = D
    BY DEF SumFunction
  <2>2. Leftover(parts, micros, total) = L
    BY <2>1 DEF Leftover
  <2>3. {y \in parts \ {x} : Before(y, x, micros)} = Below(R, parts, x)
    <3>1. \A y \in parts : <<y, x>> \in R <=> Before(y, x, micros)
      OBVIOUS
    <3>2. <<x, x>> \notin R
      BY <1>6 DEF IsOrder
    <3> HIDE DEF R
    <3> QED  BY <3>1, <3>2 DEF Below
  <2>4. secs[x] = micros[x] \div Second
                    + (IF Cardinality({y \in parts \ {x} : Before(y, x, micros)}) < Leftover(parts, micros, total)
                         THEN 1 ELSE 0)
    BY DEF WholeSeconds
  <2>5. x \in first <=> Cardinality(Below(R, parts, x)) < L
    OBVIOUS
  <2>6. whole[x] = micros[x] \div Second /\ more[x] = IF x \in first THEN 1 ELSE 0
    OBVIOUS
  <2> HIDE DEF first, L, R, whole, more, secs
  <2> QED  BY <2>2, <2>3, <2>4, <2>5, <2>6
<1>9. SumFunctionOnSet(secs, parts) = Rounded(total)
  <2>1. \A x \in parts : whole[x] \in Int /\ more[x] \in Int /\ secs[x] = whole[x] + more[x]
    <3>1. \A x \in parts : more[x] \in Int
      OBVIOUS
    <3> HIDE DEF whole, more, secs
    <3> QED  BY <1>1, <1>8, <3>1
  <2>2. SumFunctionOnSet(more, parts) = L
    <3>1. first \subseteq parts /\ \A x \in parts : more[x] = IF x \in first THEN 1 ELSE 0
      OBVIOUS
    <3> HIDE DEF first, more, L
    <3> QED  BY <1>7, <3>1, SumCount
  <2> HIDE DEF whole, more, secs
  <2>3. SumFunctionOnSet(secs, parts) = SumFunctionOnSet(whole, parts) + SumFunctionOnSet(more, parts)
    BY <2>1, SumPlus
  <2>4. Rounded(total) - D \in Int
    BY <1>5
  <2>5. Rounded(total) \in Int
    <3>1. total \in Int
      BY SumInt
    <3> QED  BY <3>1, SecondPositive, Division DEF Rounded
  <2> HIDE DEF D
  <2> QED  BY <1>2, <2>2, <2>3, <2>4, <2>5 DEF D
<1>10. ASSUME NEW x \in first PROVE rem[x] # 0
  <2> SUFFICES ASSUME rem[x] = 0 PROVE FALSE
    OBVIOUS
  <2>1. nz \subseteq Below(R, parts, x)
    <3> SUFFICES ASSUME NEW y \in nz PROVE Before(y, x, micros)
      BY DEF Below
    <3>1. rem[y] > rem[x]
      <4>1. y \in parts /\ rem[y] # 0
        OBVIOUS
      <4> HIDE DEF rem
      <4> QED  BY <1>1, <4>1, SecondPositive
    <3> QED  BY <3>1 DEF Before
  <2>2. IsFiniteSet(Below(R, parts, x))
    BY FS_Subset DEF Below
  <2>3. Cardinality(nz) <= Cardinality(Below(R, parts, x)) /\ Cardinality(Below(R, parts, x)) \in Nat
    <3> HIDE DEF nz, R
    <3> QED  BY <2>1, <2>2, FS_Subset, FS_CardinalityType
  <2>4. Cardinality(Below(R, parts, x)) < L
    OBVIOUS
  <2> HIDE DEF nz, R, L
  <2> QED  BY <1>3, <1>5, <2>3, <2>4
<1>11. ASSUME NEW x \in parts
       PROVE  /\ secs[x] \in Int /\ secs[x] * Second - micros[x] < Second
              /\ micros[x] - secs[x] * Second < Second
  <2>1. more[x] \in {0, 1} /\ (more[x] = 1 => rem[x] # 0)
    <3>1. more[x] = IF x \in first THEN 1 ELSE 0
      OBVIOUS
    <3> HIDE DEF first, more, rem
    <3> QED  BY <1>10, <3>1
  <2> DEFINE s == secs[x]
             w == whole[x]
             e == more[x]
             r == rem[x]
  <2>2. /\ w \in Int /\ e \in {0, 1} /\ s = w + e /\ r \in 0 .. Second - 1 /\ (e = 1 => r # 0)
        /\ micros[x] = Second * w + r
    <3> HIDE DEF secs, whole, more, rem, held
    <3> QED  BY <1>1, <1>8, <2>1
  <2> HIDE DEF s, w, e, r
  <2>3. s \in Int /\ s * Second = Second * w + Second * e
    BY <2>2, SecondPositive
  <2>4. Second * w \in Int /\ (e = 0 => Second * e = 0) /\ (e = 1 => Second * e = Second)
    BY <2>2, SecondPositive
  <2>5. s * Second - micros[x] < Second /\ micros[x] - s * Second < Second
    BY <2>2, <2>3, <2>4, SecondPositive
  <2> QED  BY <2>3, <2>5 DEF s
<1> QED  BY <1>9, <1>11

\* The parts of a session: the projects with evidence in it, and the declared one for the rest.
Owned(spans, lo, hi) == {s \in Clipped(spans, lo, hi) : s.project # None}
Cuts(C, lo, hi)      == {lo, hi} \cup {s.from : s \in C} \cup {s.to : s \in C}
PartsOf(declared, C) == {<<s.project, TRUE>> : s \in C} \cup {<<declared, FALSE>>}
QuietOf(C, segs)     == SumFunction([g \in {x \in segs : Active(C, x) = {}} |-> Length(g)])
MicrosOf(declared, C, segs) ==
    [x \in PartsOf(declared, C) |-> IF x[2] THEN Evidenced(C, segs, x[1]) ELSE QuietOf(C, segs)]

SpanSet == [project : Projects \cup {None}, key : Keys, from : Int, to : Int]

WellClipped(C, lo, hi) ==
    /\ IsFiniteSet(C)
    /\ \A s \in C : /\ s.project \in Projects /\ s.from \in Int /\ s.to \in Int
                    /\ lo <= s.from /\ s.from < s.to /\ s.to <= hi

LEMMA ApportionIs ==
    ASSUME NEW declared, NEW lo, NEW hi, NEW spans
    PROVE  Apportion(declared, lo, hi, spans) =
             IF hi <= lo THEN {}
             ELSE LET C == Owned(spans, lo, hi)
                      parts == PartsOf(declared, C)
                      secs == WholeSeconds(parts, MicrosOf(declared, C, Segments(C, lo, hi)), hi - lo)
                  IN  {[project |-> x[1], evidenced |-> x[2], seconds |-> secs[x]] : x \in {y \in parts : secs[y] > 0}}
  BY DEF Apportion, Owned, PartsOf, QuietOf, MicrosOf

LEMMA ClippedOf ==
    ASSUME NEW spans, spans \subseteq SpanSet, IsFiniteSet(spans), NEW lo \in Int, NEW hi \in Int
    PROVE  /\ IsFiniteSet(Clipped(spans, lo, hi))
           /\ Clipped(spans, lo, hi) \subseteq SpanSet
           /\ \A s \in Clipped(spans, lo, hi) : lo <= s.from /\ s.from < s.to /\ s.to <= hi
<1> DEFINE cut == [x \in spans |-> [x EXCEPT !.from = Larger(@, lo), !.to = Smaller(@, hi)]]
<1>1. ASSUME NEW x \in spans
      PROVE  /\ cut[x] \in SpanSet /\ cut[x].project = x.project /\ cut[x].key = x.key
             /\ cut[x].from = Larger(x.from, lo) /\ cut[x].to = Smaller(x.to, hi)
  <2>1. x \in SpanSet
    OBVIOUS
  <2>2. Larger(x.from, lo) \in Int /\ Smaller(x.to, hi) \in Int
    BY <2>1 DEF SpanSet, Larger, Smaller
  <2> QED  BY <2>1, <2>2, ZenonT(40) DEF SpanSet
<1>2. IsFiniteSet({cut[x] : x \in spans})
  <2> HIDE DEF cut
  <2> QED  BY FiniteImage
<1>3. Clipped(spans, lo, hi) = {s \in {cut[x] : x \in spans} : s.to > s.from}
  BY DEF Clipped
<1>4. IsFiniteSet(Clipped(spans, lo, hi))
  <2> HIDE DEF cut
  <2> QED  BY <1>2, <1>3, FS_Subset
<1>5. ASSUME NEW s \in Clipped(spans, lo, hi)
      PROVE  s \in SpanSet /\ lo <= s.from /\ s.from < s.to /\ s.to <= hi
  <2>1. PICK x \in spans : s = cut[x]
    BY <1>3, ZenonT(40)
  <2>2. s \in SpanSet /\ s.from = Larger(x.from, lo) /\ s.to = Smaller(x.to, hi)
    BY <1>1, <2>1
  <2>3. x.from \in Int /\ x.to \in Int
    BY DEF SpanSet
  <2>4. s.to > s.from
    BY <1>3
  <2> QED  BY <2>2, <2>3, <2>4 DEF Larger, Smaller
<1> QED  BY <1>4, <1>5

LEMMA OwnedWell ==
    ASSUME NEW spans, spans \subseteq SpanSet, IsFiniteSet(spans), NEW lo \in Int, NEW hi \in Int
    PROVE  WellClipped(Owned(spans, lo, hi), lo, hi)
<1>1. Owned(spans, lo, hi) \subseteq Clipped(spans, lo, hi)
  BY DEF Owned
<1>2. IsFiniteSet(Owned(spans, lo, hi))
  BY <1>1, ClippedOf, FS_Subset
<1>3. ASSUME NEW s \in Owned(spans, lo, hi)
      PROVE  /\ s.project \in Projects /\ s.from \in Int /\ s.to \in Int
             /\ lo <= s.from /\ s.from < s.to /\ s.to <= hi
  <2>1. s \in SpanSet /\ lo <= s.from /\ s.from < s.to /\ s.to <= hi
    BY <1>1, ClippedOf
  <2>2. s.project # None
    BY DEF Owned
  <2> QED  BY <2>1, <2>2 DEF SpanSet
<1> QED  BY <1>2, <1>3 DEF WellClipped

LEMMA CutsWell ==
    ASSUME NEW lo \in Int, NEW hi \in Int, lo < hi, NEW C, WellClipped(C, lo, hi)
    PROVE  /\ Cuts(C, lo, hi) \subseteq Int /\ IsFiniteSet(Cuts(C, lo, hi))
           /\ lo \in Cuts(C, lo, hi) /\ hi \in Cuts(C, lo, hi)
           /\ \A c \in Cuts(C, lo, hi) : lo <= c /\ c <= hi
           /\ Segments(C, lo, hi) = Gaps(Cuts(C, lo, hi))
<1> DEFINE starts == [s \in C |-> s.from]
           ends == [s \in C |-> s.to]
<1>1. IsFiniteSet({starts[s] : s \in C}) /\ IsFiniteSet({ends[s] : s \in C})
  <2> HIDE DEF starts, ends
  <2> QED  BY FiniteImage DEF WellClipped
<1>2. {starts[s] : s \in C} = {s.from : s \in C} /\ {ends[s] : s \in C} = {s.to : s \in C}
  OBVIOUS
<1>3. IsFiniteSet({lo, hi})
  <2>1. IsFiniteSet(lo .. hi) /\ {lo, hi} \subseteq lo .. hi
    BY FS_Interval
  <2> QED  BY <2>1, FS_Subset
<1>4. IsFiniteSet({lo, hi} \cup {s.from : s \in C})
  BY <1>1, <1>2, <1>3, FS_Union
<1>5. IsFiniteSet(Cuts(C, lo, hi))
  BY <1>1, <1>2, <1>4, FS_Union DEF Cuts
<1>6. \A c \in Cuts(C, lo, hi) : c \in Int /\ lo <= c /\ c <= hi
  BY DEF Cuts, WellClipped
<1>7. Segments(C, lo, hi) = Gaps(Cuts(C, lo, hi))
  BY DEF Segments, Gaps, Cuts
<1> QED  BY <1>5, <1>6, <1>7 DEF Cuts

LEMMA SegmentsWell ==
    ASSUME NEW lo \in Int, NEW hi \in Int, lo < hi, NEW C, WellClipped(C, lo, hi)
    PROVE  /\ IsFiniteSet(Segments(C, lo, hi))
           /\ \A g \in Segments(C, lo, hi) : /\ g[1] \in Int /\ g[2] \in Int /\ g = <<g[1], g[2]>>
                                             /\ lo <= g[1] /\ g[1] < g[2] /\ g[2] <= hi
                                             /\ Length(g) \in Nat \ {0}
<1> DEFINE cuts == Cuts(C, lo, hi)
<1>1. IsFiniteSet(Segments(C, lo, hi))
  BY CutsWell, FiniteGaps
<1>2. ASSUME NEW g \in Segments(C, lo, hi)
      PROVE  /\ g[1] \in Int /\ g[2] \in Int /\ g = <<g[1], g[2]>>
             /\ lo <= g[1] /\ g[1] < g[2] /\ g[2] <= hi
  <2>1. g \in Gaps(cuts)
    BY CutsWell
  <2>2. g[1] \in cuts /\ g[2] \in cuts /\ g = <<g[1], g[2]>> /\ g[1] < g[2]
    BY <2>1 DEF Gaps
  <2> HIDE DEF cuts
  <2> QED  BY <2>2, CutsWell DEF cuts
<1>3. \A g \in Segments(C, lo, hi) : Length(g) \in Nat \ {0}
  BY <1>2 DEF Length
<1> QED  BY <1>1, <1>2, <1>3

LEMMA LengthsAddUp ==
    ASSUME NEW lo \in Int, NEW hi \in Int, lo < hi, NEW C, WellClipped(C, lo, hi),
           NEW f, \A g \in Segments(C, lo, hi) : f[g] = Length(g)
    PROVE  SumFunctionOnSet(f, Segments(C, lo, hi)) = hi - lo
<1>1. SumFunctionOnSet(Span, Segments(C, lo, hi)) = hi - lo
  BY CutsWell, GapsAdd
<1>2. \A g \in Segments(C, lo, hi) : f[g] = Span[g]
  <2> SUFFICES ASSUME NEW g \in Segments(C, lo, hi) PROVE Length(g) = Span[g]
    OBVIOUS
  <2>1. g \in Int \X Int
    BY SegmentsWell
  <2> QED  BY <2>1 DEF Span, Length
<1>3. IsFiniteSet(Segments(C, lo, hi))
  BY SegmentsWell
<1> QED  BY <1>1, <1>2, <1>3, SumSame

\* What the evidence of a stretch gives its projects, and what the declared project gets of the
\* stretches nobody has evidence for, is the session.
LEMMA MicrosAddUp ==
    ASSUME NEW lo \in Int, NEW hi \in Int, lo < hi, NEW C, WellClipped(C, lo, hi), NEW declared
    PROVE  LET segs == Segments(C, lo, hi)
               parts == PartsOf(declared, C)
               micros == MicrosOf(declared, C, segs)
           IN  /\ IsFiniteSet(parts)
               /\ \A x \in parts : micros[x] \in Nat
               /\ SumFunctionOnSet(micros, parts) = hi - lo
<1> DEFINE segs == Segments(C, lo, hi)
           parts == PartsOf(declared, C)
           micros == MicrosOf(declared, C, segs)
           ownerOf == [s \in C |-> s.project]
           owners == {ownerOf[s] : s \in C}
           table == [p \in owners |-> [g \in segs |->
                        IF p \in Active(C, g) THEN ShareOf(Active(C, g), p, Length(g)) ELSE 0]]
           given == [p \in owners |-> Evidenced(C, segs, p)]
           turned == [g \in segs |-> [p \in owners |-> table[p][g]]]
           taken == [g \in segs |-> SumFunctionOnSet(turned[g], owners)]
           silent == {g \in segs : Active(C, g) = {}}
           rest == [g \in segs |-> IF g \in silent THEN Length(g) ELSE 0]
           len == [g \in segs |-> Length(g)]
<1>1. /\ IsFiniteSet(segs)
      /\ \A g \in segs : Length(g) \in Nat /\ len[g] = Length(g) /\ Active(C, g) \subseteq owners
  <2>1. \A g \in segs : len[g] = Length(g) /\ Active(C, g) \subseteq owners
    BY DEF Active
  <2>2. IsFiniteSet(segs) /\ \A g \in segs : Length(g) \in Nat
    BY SegmentsWell
  <2> HIDE DEF segs, owners, len
  <2> QED  BY <2>1, <2>2
<1>2. IsFiniteSet(owners) /\ owners \subseteq Int
  <2>1. owners \subseteq Int
    <3>1. \A s \in C : ownerOf[s] \in Projects
      BY DEF WellClipped
    <3>2. Projects \subseteq Int
      BY AttributionAssumption
    <3> HIDE DEF ownerOf
    <3> QED  BY <3>1, <3>2
  <2> HIDE DEF ownerOf
  <2> QED  BY <2>1, FiniteImage DEF WellClipped
<1>3. ASSUME NEW g \in segs
      PROVE  /\ \A p \in owners : table[p][g] \in Nat
             /\ taken[g] = IF g \in silent THEN 0 ELSE Length(g)
  <2> DEFINE A == Active(C, g)
             col == turned[g]
  <2>1. A \subseteq owners /\ Length(g) \in Nat
    BY <1>1
  <2>2. IsFiniteSet(A) /\ A \subseteq Int
    <3> HIDE DEF owners, A
    <3> QED  BY <1>2, <2>1, FS_Subset
  <2>3. \A p \in owners : table[p][g] = col[p] /\ col[p] = IF p \in A THEN ShareOf(A, p, Length(g)) ELSE 0
    OBVIOUS
  <2>4. taken[g] = SumFunctionOnSet(col, owners) /\ (g \in silent <=> A = {})
    OBVIOUS
  <2> HIDE DEF owners, A, col, table, turned, taken, silent, segs
  <2>5. CASE A = {}
    <3>1. \A p \in owners : col[p] = 0
      BY <2>3, <2>5
    <3>2. SumFunctionOnSet(col, owners) = 0
      BY <1>2, <3>1, SumZero
    <3>3. SumFunctionOnSet(col, owners) = 0
      BY <3>2
    <3> QED  BY <2>3, <2>4, <2>5, <3>1, <3>3
  <2>6. CASE A # {}
    <3>1. \A p \in A : col[p] = ShareOf(A, p, Length(g))
      BY <2>1, <2>3
    <3>2. SumFunctionOnSet(col, A) = Length(g) /\ \A p \in A : col[p] \in Nat
      BY <2>1, <2>2, <2>6, <3>1, SharesAddUp
    <3>3. \A p \in owners : col[p] \in Nat /\ (p \notin A => col[p] = 0)
      BY <2>3, <3>2
    <3>4. SumFunctionOnSet(col, owners) = SumFunctionOnSet(col, A)
      <4>1. \A p \in owners : col[p] \in Int /\ (p \notin A => col[p] = 0)
        BY <3>3
      <4> QED  BY <1>2, <2>1, <4>1, SumPart
    <3> QED  BY <2>3, <2>4, <2>6, <3>2, <3>3, <3>4
  <2> QED  BY <2>5, <2>6
<1>4. SumFunctionOnSet(given, owners) = SumFunctionOnSet(taken, segs)
  <2>1. Turned(table, turned, owners, segs)
    <3>1. \A p \in owners, g \in segs : turned[g][p] = table[p][g]
      OBVIOUS
    <3> HIDE DEF table, turned, owners, segs
    <3> QED  BY <1>3, <3>1 DEF Turned
  <2>2. SumsOf(given, table, owners, segs)
    BY DEF Evidenced, SumFunction, SumsOf
  <2>3. SumsOf(taken, turned, segs, owners)
    BY DEF SumsOf
  <2>4. IsFiniteSet(owners) /\ IsFiniteSet(segs)
    BY <1>1, <1>2
  <2> HIDE DEF given, taken, table, turned, owners, segs
  <2> QED  BY <2>1, <2>2, <2>3, <2>4, SumSwap
<1>5. SumFunctionOnSet(len, segs) = hi - lo
  <2>1. \A g \in segs : len[g] = Length(g)
    OBVIOUS
  <2> HIDE DEF len
  <2> QED  BY <2>1, LengthsAddUp
<1>6. SumFunctionOnSet(len, segs) = SumFunctionOnSet(taken, segs) + SumFunctionOnSet(rest, segs)
  <2>1. \A g \in segs : rest[g] = IF g \in silent THEN Length(g) ELSE 0
    OBVIOUS
  <2> HIDE DEF len, taken, rest, segs, silent
  <2>2. \A g \in segs : taken[g] \in Int /\ rest[g] \in Int /\ len[g] = taken[g] + rest[g]
    BY <1>1, <1>3, <2>1
  <2> QED  BY <1>1, <2>2, SumPlus
<1>7. QuietOf(C, segs) = SumFunctionOnSet(rest, segs) /\ QuietOf(C, segs) \in Nat
  <2> DEFINE alone == [g \in silent |-> Length(g)]
  <2>1. QuietOf(C, segs) = SumFunctionOnSet(alone, silent)
    BY DEF QuietOf, SumFunction
  <2>2. /\ silent \subseteq segs
        /\ \A g \in segs : rest[g] = IF g \in silent THEN Length(g) ELSE 0
        /\ \A g \in silent : alone[g] = Length(g)
    OBVIOUS
  <2> HIDE DEF alone, silent, rest, segs
  <2>3. IsFiniteSet(silent)
    BY <1>1, <2>2, FS_Subset
  <2>4. \A g \in segs : rest[g] \in Int /\ (g \notin silent => rest[g] = 0)
    BY <1>1, <2>2
  <2>5. SumFunctionOnSet(rest, segs) = SumFunctionOnSet(rest, silent)
    BY <1>1, <2>2, <2>4, SumPart
  <2>6. \A g \in silent : rest[g] = alone[g] /\ alone[g] \in Nat
    BY <1>1, <2>2
  <2>7. SumFunctionOnSet(rest, silent) = SumFunctionOnSet(alone, silent) /\ SumFunctionOnSet(alone, silent) \in Nat
    BY <2>3, <2>6, SumSame, SumNat
  <2> QED  BY <2>1, <2>5, <2>7
<1> DEFINE mark == [p \in owners |-> <<p, TRUE>>]
           proved == {mark[p] : p \in owners}
           other == <<declared, FALSE>>
<1>8. /\ parts = proved \cup {other} /\ proved \cap {other} = {}
      /\ \A x \in parts : micros[x] = IF x[2] THEN Evidenced(C, segs, x[1]) ELSE QuietOf(C, segs)
  <2>1. parts = proved \cup {other}
    BY DEF PartsOf
  <2>2. proved \cap {other} = {}
    <3>1. \A p \in owners : mark[p][2] = TRUE /\ other[2] = FALSE
      OBVIOUS
    <3> HIDE DEF mark, other, owners
    <3> QED  BY <3>1
  <2>3. \A x \in parts : micros[x] = IF x[2] THEN Evidenced(C, segs, x[1]) ELSE QuietOf(C, segs)
    BY DEF MicrosOf
  <2> QED  BY <2>1, <2>2, <2>3
<1>9. ASSUME NEW p \in owners
      PROVE  mark[p] = <<p, TRUE>> /\ micros[mark[p]] = given[p] /\ given[p] \in Nat
  <2>1. mark[p] \in parts /\ mark[p][1] = p /\ mark[p][2] = TRUE /\ mark[p] = <<p, TRUE>>
    BY <1>8
  <2>2. micros[mark[p]] = Evidenced(C, segs, p)
    <3> HIDE DEF micros, parts, mark
    <3> QED  BY <1>8, <2>1
  <2>3. given[p] = Evidenced(C, segs, p) /\ given[p] = SumFunctionOnSet(table[p], segs)
    BY DEF Evidenced, SumFunction
  <2>4. given[p] \in Nat
    <3> HIDE DEF given, table, segs, owners
    <3>1. \A g \in segs : table[p][g] \in Nat
      BY <1>3
    <3>2. SumFunctionOnSet(table[p], segs) \in Nat
      BY <1>1, <3>1, SumNat
    <3> QED  BY <2>3, <3>2
  <2> HIDE DEF micros, parts, mark, given, table, owners
  <2> QED  BY <2>1, <2>2, <2>3, <2>4
<1>10. micros[other] = QuietOf(C, segs)
  <2>1. other \in parts /\ other[2] = FALSE
    BY <1>8
  <2> HIDE DEF micros, parts, other
  <2> QED  BY <1>8, <2>1
<1>11. IsFiniteSet(proved) /\ IsFiniteSet({other}) /\ IsFiniteSet(parts)
  <2>1. IsFiniteSet(proved)
    <3> HIDE DEF mark, owners
    <3> QED  BY <1>2, FiniteImage
  <2>2. IsFiniteSet({other})
    BY FS_Singleton
  <2> HIDE DEF proved, other, parts
  <2> QED  BY <1>8, <2>1, <2>2, FS_Union
<1>12. \A x \in parts : micros[x] \in Nat
  <2>1. \A x \in proved : \E p \in owners : x = mark[p]
    OBVIOUS
  <2> HIDE DEF proved, other, parts, micros, mark, owners, given
  <2>2. \A x \in proved : micros[x] \in Nat
    BY <1>9, <2>1
  <2>3. micros[other] \in Nat
    BY <1>7, <1>10
  <2> QED  BY <1>8, <2>2, <2>3
<1>13. SumFunctionOnSet(micros, proved) = SumFunctionOnSet(given, owners)
  <2>1. \A p, q \in owners : mark[p] = mark[q] => p = q
    OBVIOUS
  <2> HIDE DEF mark, owners, micros, given
  <2>2. \A p \in owners : given[p] \in Int /\ micros[mark[p]] = given[p]
    <3>1. \A p \in owners : given[p] \in Nat /\ micros[mark[p]] = given[p]
      BY <1>9
    <3> QED  BY <3>1
  <2>3. IsFiniteSet(owners)
    BY <1>2
  <2>4. SumFunctionOnSet(micros, {mark[p] : p \in owners}) = SumFunctionOnSet(given, owners)
    BY <2>1, <2>2, <2>3, SumImage
  <2> QED  BY <2>4
<1>14. SumFunctionOnSet(micros, {other}) = QuietOf(C, segs)
  <2>1. {other} \ {other} = {} /\ SumFunctionOnSet(micros, {}) = 0
    BY SumEmpty
  <2>2. micros[other] \in Int
    BY <1>7, <1>10
  <2> HIDE DEF other, micros
  <2>3. SumFunctionOnSet(micros, {other}) = micros[other] + SumFunctionOnSet(micros, {other} \ {other})
    BY <1>11, <2>2, SumAdd
  <2>4. SumFunctionOnSet(micros, {other}) = micros[other] + 0
    BY <2>1, <2>3
  <2> QED  BY <1>10, <2>2, <2>4
<1>15. SumFunctionOnSet(micros, parts) = SumFunctionOnSet(micros, proved) + SumFunctionOnSet(micros, {other})
  <2> HIDE DEF proved, other, micros, parts
  <2>1. \A x \in parts : micros[x] \in Int
    BY <1>12
  <2> QED  BY <1>8, <1>11, <2>1, SumTwo
<1>16. SumFunctionOnSet(micros, parts) = hi - lo
  <2> HIDE DEF proved, other, micros, parts, given, owners, taken, segs, rest, len
  <2> QED  BY <1>4, <1>5, <1>6, <1>7, <1>13, <1>14, <1>15
<1> QED  BY <1>11, <1>12, <1>16

\* The allocations of a session add up to its length in seconds.
LEMMA ApportionAddsUp ==
    ASSUME NEW spans, spans \subseteq SpanSet, IsFiniteSet(spans), NEW lo \in Int, NEW hi \in Int,
           NEW declared \in Projects, NEW A, A = Apportion(declared, lo, hi, spans)
    PROVE  /\ IsFiniteSet(A)
           /\ \A a \in A : a.project \in Projects /\ a.seconds \in Nat \ {0}
           /\ SumFunction([a \in A |-> a.seconds]) = IF hi > lo THEN Rounded(hi - lo) ELSE 0
<1> DEFINE amount == [a \in A |-> a.seconds]
<1>1. SumFunction(amount) = SumFunctionOnSet(amount, A)
  BY DEF SumFunction
<1>2. CASE hi <= lo
  <2>1. A = {} /\ ~(hi > lo)
    BY <1>2, ApportionIs
  <2> HIDE DEF amount
  <2>2. SumFunctionOnSet(amount, A) = 0 /\ IsFiniteSet(A)
    BY <2>1, SumEmpty, FS_EmptySet
  <2> QED  BY <1>1, <2>1, <2>2 DEF amount
<1>3. CASE ~(hi <= lo)
  <2> DEFINE C == Owned(spans, lo, hi)
             segs == Segments(C, lo, hi)
             parts == PartsOf(declared, C)
             micros == MicrosOf(declared, C, segs)
             secs == WholeSeconds(parts, micros, hi - lo)
             kept == {x \in parts : secs[x] > 0}
             rec == [x \in parts |-> [project |-> x[1], evidenced |-> x[2], seconds |-> secs[x]]]
  <2>1. lo < hi /\ hi > lo /\ WellClipped(C, lo, hi)
    BY <1>3, OwnedWell
  <2>2. A = {rec[x] : x \in kept}
    <3>1. A = {[project |-> x[1], evidenced |-> x[2], seconds |-> secs[x]] : x \in kept}
      BY <1>3, ApportionIs
    <3>2. \A x \in kept : rec[x] = [project |-> x[1], evidenced |-> x[2], seconds |-> secs[x]]
      OBVIOUS
    <3> HIDE DEF rec, kept, secs
    <3> QED  BY <3>1, <3>2
  <2>3. /\ IsFiniteSet(parts) /\ \A x \in parts : micros[x] \in Nat
        /\ SumFunctionOnSet(micros, parts) = hi - lo
    <3> HIDE DEF C
    <3> QED  BY <2>1, MicrosAddUp
  <2>4. parts \subseteq Projects \X BOOLEAN
    <3>1. \A s \in C : s.project \in Projects
      BY <2>1 DEF WellClipped
    <3>2. ASSUME NEW x \in parts PROVE x \in Projects \X BOOLEAN
      <4> HIDE DEF C
      <4>1. (\E s \in C : x = <<s.project, TRUE>>) \/ x = <<declared, FALSE>>
        BY DEF PartsOf
      <4>2. PICK p \in Projects, e \in BOOLEAN : x = <<p, e>>
        BY <3>1, <4>1, Zenon
      <4> QED  BY <4>2
    <3> QED  BY <3>2
  <2>5. /\ SumFunctionOnSet(secs, parts) = Rounded(hi - lo)
        /\ \A x \in parts : /\ secs[x] \in Int
                            /\ micros[x] - secs[x] * Second < Second
    <3>1. parts \subseteq Int \X BOOLEAN
      <4>1. Projects \subseteq Int
        BY AttributionAssumption
      <4> HIDE DEF parts
      <4> QED  BY <2>4, <4>1
    <3>2. \A x \in parts : micros[x] \in Int
      BY <2>3
    <3> HIDE DEF parts, micros
    <3> QED  BY <2>3, <3>1, <3>2, SecondsOf
  <2>6. \A x \in parts : secs[x] \in Nat
    <3> SUFFICES ASSUME NEW x \in parts PROVE secs[x] \in Nat
      OBVIOUS
    <3> DEFINE s == secs[x]
               m == micros[x]
    <3>1. s \in Int /\ m \in Nat /\ m - s * Second < Second
      BY <2>3, <2>5
    <3> HIDE DEF s, m
    <3>2. s >= 0
      <4> SUFFICES ASSUME s <= -1 PROVE FALSE
        BY <3>1
      <4>1. s * Second <= -Second /\ s * Second \in Int
        BY <3>1, SecondPositive
      <4> QED  BY <3>1, <4>1, SecondPositive
    <3> QED  BY <3>1, <3>2 DEF s
  <2>7. ASSUME NEW x \in kept
        PROVE  /\ rec[x].project = x[1] /\ rec[x].evidenced = x[2] /\ rec[x].seconds = secs[x]
               /\ x = <<x[1], x[2]>> /\ x[1] \in Projects /\ secs[x] \in Nat \ {0}
    <3>1. x \in parts /\ secs[x] > 0
      OBVIOUS
    <3>2. rec[x] = [project |-> x[1], evidenced |-> x[2], seconds |-> secs[x]]
      BY <3>1
    <3>3. x = <<x[1], x[2]>> /\ x[1] \in Projects
      BY <2>4, <3>1
    <3> HIDE DEF rec, parts, secs, kept
    <3> QED  BY <2>6, <3>1, <3>2, <3>3
  <2>8. kept \subseteq parts
    OBVIOUS
  <2> HIDE DEF rec, parts, secs, kept, micros
  <2>9. \A a \in A : a.project \in Projects /\ a.seconds \in Nat \ {0}
    BY <2>2, <2>7
  <2>10. IsFiniteSet(kept) /\ IsFiniteSet(A)
    BY <2>2, <2>3, <2>8, FS_Subset, FiniteImage
  <2>11. SumFunctionOnSet(amount, A) = SumFunctionOnSet(secs, kept)
    <3>1. \A x, y \in kept : rec[x] = rec[y] => x = y
      <4> SUFFICES ASSUME NEW x \in kept, NEW y \in kept, rec[x] = rec[y] PROVE x = y
        OBVIOUS
      <4>1. x[1] = y[1] /\ x[2] = y[2]
        BY <2>7
      <4> QED  BY <2>7, <4>1
    <3>2. \A x \in kept : rec[x] \in A
      BY <2>2
    <3>3. \A x \in kept : amount[rec[x]] = rec[x].seconds
      BY <3>2
    <3>4. \A x \in kept : secs[x] \in Int /\ amount[rec[x]] = secs[x]
      BY <2>7, <3>3
    <3> HIDE DEF amount
    <3>5. SumFunctionOnSet(amount, {rec[x] : x \in kept}) = SumFunctionOnSet(secs, kept)
      BY <2>10, <3>1, <3>4, SumImage
    <3> QED  BY <2>2, <3>5
  <2>12. SumFunctionOnSet(secs, parts) = SumFunctionOnSet(secs, kept)
    <3>1. \A x \in parts : secs[x] \in Int /\ (x \notin kept => secs[x] = 0)
      <4>1. \A x \in parts : x \notin kept => ~(secs[x] > 0)
        BY DEF kept
      <4> QED  BY <2>6, <4>1
    <3> QED  BY <2>3, <2>8, <3>1, SumPart
  <2>13. SumFunctionOnSet(amount, A) = Rounded(hi - lo)
    BY <2>5, <2>11, <2>12
  <2> HIDE DEF amount
  <2> QED  BY <1>1, <2>1, <2>9, <2>10, <2>13 DEF amount
<1> QED  BY <1>2, <1>3

-------------------------------------------------------------------------------
(* Folds in the order of a choice.                                         *)

\* A fold that keeps its accumulator in V is defined: over the sets of at most so many elements
\* and so over all of them.
Folds1(g, base, pick, step, S) ==
    \A s \in SUBSET S : g[s] = IF s = {} THEN base ELSE step[pick[s]][g[s \ {pick[s]}]]

LEMMA FoldExists ==
    ASSUME NEW S, IsFiniteSet(S), NEW V, NEW base \in V,
           NEW pick, \A s \in SUBSET S : s # {} => pick[s] \in s,
           NEW step, \A x \in S, v \in V : step[x][v] \in V
    PROVE  \E g \in [SUBSET S -> V] : Folds1(g, base, pick, step, S)
<1> DEFINE Step(g, s) == IF s = {} THEN base ELSE step[pick[s]][g[s \ {pick[s]}]]
           UpTo(g, n) == \A s \in SUBSET S : Cardinality(s) <= n => g[s] = Step(g, s)
           missing == {n \in Nat : ~\E g \in [SUBSET S -> V] : UpTo(g, n)}
<1>1. \A T \in SUBSET S : IsFiniteSet(T) /\ Cardinality(T) \in Nat
  BY FS_Subset, FS_CardinalityType
<1>2. ASSUME NEW g \in [SUBSET S -> V], NEW s \in SUBSET S PROVE Step(g, s) \in V
  <2>1. CASE s = {}
    BY <2>1
  <2>2. CASE s # {}
    <3>1. pick[s] \in S /\ s \ {pick[s]} \in SUBSET S
      BY <2>2
    <3>2. g[s \ {pick[s]}] \in V
      BY <3>1, SMTT(30)
    <3> QED  BY <2>2, <3>1, <3>2
  <2> QED  BY <2>1, <2>2
<1>3. missing = {}
  <2> SUFFICES ASSUME missing # {} PROVE FALSE
    OBVIOUS
  <2>1. PICK n \in missing : \A m \in missing : n <= m
    BY LeastNat
  <2>2. n \in Nat /\ ~\E g \in [SUBSET S -> V] : UpTo(g, n)
    BY <2>1
  <2>3. n # 0
    <3>1. PICK g0 \in [SUBSET S -> V] : \A s \in SUBSET S : g0[s] = base
      <4>1. [s \in SUBSET S |-> base] \in [SUBSET S -> V]
        OBVIOUS
      <4> QED  BY <4>1
    <3>2. \A s \in SUBSET S : Cardinality(s) <= 0 => s = {}
      BY <1>1, FS_EmptySet
    <3>3. UpTo(g0, 0)
      BY <3>1, <3>2
    <3> HIDE DEF UpTo
    <3>4. \E g \in [SUBSET S -> V] : UpTo(g, 0)
      BY <3>3
    <3> QED  BY <2>2, <3>4
  <2>4. n - 1 \in Nat /\ n - 1 \notin missing
    <3>1. n - 1 \in Nat /\ ~(n <= n - 1)
      BY <2>2, <2>3
    <3> HIDE DEF missing
    <3> QED  BY <2>1, <3>1
  <2>5. PICK g \in [SUBSET S -> V] : UpTo(g, n - 1)
    BY <2>4
  <2> DEFINE h == [s \in SUBSET S |-> Step(g, s)]
  <2>6. h \in [SUBSET S -> V]
    <3> HIDE DEF Step
    <3> QED  BY <1>2
  <2>7. \A s \in SUBSET S : Cardinality(s) <= n - 1 => h[s] = g[s]
    <3> HIDE DEF Step
    <3> QED  BY <2>5, SMTT(30)
  <2>8. ASSUME NEW s \in SUBSET S, Cardinality(s) <= n PROVE h[s] = Step(h, s)
    <3>1. CASE s = {}
      BY <3>1
    <3>2. CASE s # {}
      <4>1. pick[s] \in s
        BY <3>2
      <4>2. s \ {pick[s]} \in SUBSET S /\ Cardinality(s \ {pick[s]}) = Cardinality(s) - 1
        BY <1>1, <4>1, FS_RemoveElement, SMTT(30)
      <4>3. Cardinality(s \ {pick[s]}) <= n - 1
        BY <1>1, <2>2, <2>8, <4>2
      <4>4. h[s \ {pick[s]}] = g[s \ {pick[s]}]
        <5> HIDE DEF h
        <5> QED  BY <2>7, <4>2, <4>3
      <4>5. h[s] = step[pick[s]][g[s \ {pick[s]}]]
        BY <3>2
      <4> HIDE DEF h
      <4> QED  BY <3>2, <4>4, <4>5
    <3> QED  BY <3>1, <3>2
  <2>9. UpTo(h, n)
    <3> HIDE DEF h, Step
    <3> QED  BY <2>8
  <2> QED  BY <2>2, <2>6, <2>9
<1>4. Cardinality(S) \in Nat /\ Cardinality(S) \notin missing
  BY <1>1, <1>3
<1>5. PICK g \in [SUBSET S -> V] : UpTo(g, Cardinality(S))
  BY <1>4
<1>6. \A s \in SUBSET S : Cardinality(s) <= Cardinality(S)
  BY FS_Subset
<1>7. \A s \in SUBSET S : g[s] = Step(g, s)
  BY <1>5, <1>6
<1> QED  BY <1>7 DEF Folds1

-------------------------------------------------------------------------------
(* Clusters.                                                               *)

Latest(S) == CHOOSE i \in S : \A j \in S : j.at <= i.at
Joined(i, acc) ==
    IF acc.current # {} /\ i.at - acc.reach > Gap
      THEN [done |-> acc.done \cup {acc.current}, current |-> {i}, reach |-> ReachWith(i.at, i)]
      ELSE [acc EXCEPT !.current = @ \cup {i}, !.reach = ReachWith(@, i)]
Start(items) == [done |-> {}, current |-> {}, reach |-> Min({i.at : i \in items})]
Clustering(g, items) ==
    g = [s \in SUBSET items |-> IF s = {} THEN Start(items) ELSE Joined(Latest(s), g[s \ {Latest(s)}])]

LEMMA ClustersIs ==
    ASSUME NEW items, items # {}, NEW h, Clustering(h, items)
    PROVE  \E g : Clustering(g, items) /\ Clusters(items) = g[items].done \cup {g[items].current}
<1> DEFINE g == CHOOSE k : Clustering(k, items)
<1>1. Clustering(g, items)
  OBVIOUS
<1>2. Clusters(items) = g[items].done \cup {g[items].current}
  BY DEF Clusters, Clustering, Latest, Joined, Start, MapThenFoldSet
<1> QED  BY <1>1, <1>2

Items(items) == IsFiniteSet(items) /\ \A i \in items : IsItem(i)

\* Of the items there is one that starts last.
LEMMA LatestIn ==
    ASSUME NEW items, Items(items), NEW s, s \subseteq items, s # {}
    PROVE  Latest(s) \in s /\ \A j \in s : j.at <= Latest(s).at
<1> DEFINE at == [i \in s |-> i.at]
           starts == {at[i] : i \in s}
<1>1. \A i \in s : at[i] = i.at /\ i.at \in Int
  BY DEF Items, IsItem
<1>2. IsFiniteSet(s)
  BY FS_Subset DEF Items
<1> HIDE DEF at
<1>3. IsFiniteSet(starts)
  BY <1>2, FiniteImage
<1>4. starts \subseteq Int /\ starts # {}
  BY <1>1
<1>5. PICK m \in starts : \A x \in starts : x <= m
  <2> HIDE DEF starts
  <2> QED  BY <1>3, <1>4, EndsOf
<1>6. PICK i \in s : m = at[i]
  BY <1>5
<1>7. \A j \in s : at[j] <= at[i]
  BY <1>5, <1>6
<1>8. \E k \in s : \A j \in s : j.at <= k.at
  BY <1>1, <1>7
<1> QED  BY <1>8 DEF Latest

Apart(c, d) == \A i \in c, j \in d : j.at - i.end > Gap
Stretch(c)  == \A part \in (SUBSET c) \ {{}, c} : \E i \in part, j \in c \ part : Near(i, j) \/ Near(j, i)

Accs(items) == [done : SUBSET SUBSET items, current : SUBSET items, reach : Int]

\* What holds of the clusters of the items `s', the last of them still open.
Sound(items, s, acc) ==
    /\ acc \in Accs(items)
    /\ s = {} => acc = Start(items)
    /\ s # {} => acc.current # {} /\ \E k \in acc.current : k.end = acc.reach
    /\ (UNION acc.done) \cup acc.current = s
    /\ \A i \in acc.current : i.end <= acc.reach
    /\ Stretch(acc.current) /\ \A c \in acc.done : c # {} /\ Stretch(c) /\ Apart(c, acc.current)
    /\ \A c, d \in acc.done : c # d => Apart(c, d) \/ Apart(d, c)

\* An item alone is a stretch; one near the end of a stretch makes it longer.
LEMMA StretchOne ==
    ASSUME NEW x
    PROVE  Stretch({x})
  BY DEF Stretch

LEMMA StretchMore ==
    ASSUME NEW c, Stretch(c), NEW k \in c, NEW x, x \notin c, Near(k, x)
    PROVE  Stretch(c \cup {x})
<1> SUFFICES ASSUME NEW part \in SUBSET (c \cup {x}), part # {}, part # c \cup {x}
             PROVE  \E i \in part, j \in (c \cup {x}) \ part : Near(i, j) \/ Near(j, i)
  BY DEF Stretch
<1>1. CASE part \cap c = {}
  <2>1. x \in part /\ k \in (c \cup {x}) \ part
    BY <1>1
  <2> QED  BY <2>1
<1>2. CASE c \subseteq part
  <2>1. k \in part /\ x \in (c \cup {x}) \ part
    BY <1>2
  <2> QED  BY <2>1
<1>3. CASE part \cap c # {} /\ ~(c \subseteq part)
  <2>1. part \cap c \in (SUBSET c) \ {{}, c}
    BY <1>3
  <2>2. PICK i \in part \cap c, j \in c \ (part \cap c) : Near(i, j) \/ Near(j, i)
    BY <2>1 DEF Stretch
  <2>3. i \in part /\ j \in (c \cup {x}) \ part
    OBVIOUS
  <2> QED  BY <2>2, <2>3
<1> QED  BY <1>1, <1>2, <1>3

\* The next item opens a cluster or joins the open one, and what holds of the clusters stays.
LEMMA JoinedSound ==
    ASSUME NEW items, Items(items), NEW s, s \subseteq items, NEW x \in items \ s,
           \A j \in s : j.at <= x.at, NEW acc, Sound(items, s, acc)
    PROVE  Sound(items, s \cup {x}, Joined(x, acc))
<1> DEFINE done == acc.done
           cur == acc.current
           next == Joined(x, acc)
<1>1. /\ acc \in Accs(items) /\ done \subseteq SUBSET items /\ cur \subseteq items /\ acc.reach \in Int
      /\ acc = [done |-> done, current |-> cur, reach |-> acc.reach]
  BY DEF Sound, Accs
<1>2. /\ \A i \in items : i.at \in Int /\ i.end \in Int /\ i.at <= i.end
      /\ x \in items /\ x.at \in Int /\ x.end \in Int /\ x.at <= x.end
      /\ Gap \in Int /\ Gap >= 0
  BY AttributionAssumption DEF Items, IsItem
<1>3. (UNION done) \cup cur = s /\ x \notin cur
  BY DEF Sound
<1>4. \A i \in cur : i.at <= x.at
  BY <1>3
<1>5. \A i \in cur : i.end <= acc.reach
  BY DEF Sound
<1>6. \A c \in done : c # {} /\ Stretch(c) /\ Apart(c, cur)
  BY DEF Sound
<1>7. \A c, d \in done : c # d => Apart(c, d) \/ Apart(d, c)
  BY DEF Sound
<1>8. Stretch(cur)
  BY DEF Sound
<1>9. s # {} => cur # {} /\ \E k \in cur : k.end = acc.reach
  BY DEF Sound
<1>10. s \cup {x} # {}
  OBVIOUS
<1>11. CASE cur # {} /\ x.at - acc.reach > Gap
  <2>0. ReachWith(x.at, x) = x.end
    BY <1>2 DEF ReachWith, Larger
  <2>1. next = [done |-> done \cup {cur}, current |-> {x}, reach |-> x.end]
    BY <1>11, <2>0 DEF Joined
  <2>2. next.done = done \cup {cur} /\ next.current = {x} /\ next.reach = x.end
    BY <2>1
  <2>3. next \in Accs(items)
    BY <1>1, <1>2, <2>1 DEF Accs
  <2>4. Apart(cur, {x})
    BY <1>1, <1>2, <1>5, <1>11 DEF Apart
  <2>5. ASSUME NEW c \in done PROVE Apart(c, {x})
    <3>1. PICK k \in cur : TRUE
      BY <1>11
    <3>2. \A i \in c : k.at - i.end > Gap /\ i.end \in Int /\ k.at \in Int
      BY <1>1, <1>2, <1>6 DEF Apart
    <3>3. k.at <= x.at
      BY <1>4
    <3> QED  BY <1>2, <3>2, <3>3 DEF Apart
  <2>6. \A c \in done \cup {cur} : c # {} /\ Stretch(c) /\ Apart(c, {x})
    BY <1>6, <1>8, <1>11, <2>4, <2>5
  <2>7. \A c, d \in done \cup {cur} : c # d => Apart(c, d) \/ Apart(d, c)
    BY <1>6, <1>7
  <2>8. (UNION (done \cup {cur})) \cup {x} = s \cup {x}
    BY <1>3
  <2>9. /\ next.current # {} /\ \E k \in next.current : k.end = next.reach
        /\ \A i \in next.current : i.end <= next.reach
    BY <1>2, <2>2
  <2>10. (UNION next.done) \cup next.current = s \cup {x} /\ Stretch(next.current)
    BY <2>2, <2>8, StretchOne
  <2> HIDE DEF next, done, cur
  <2>11. \A c \in next.done : c # {} /\ Stretch(c) /\ Apart(c, next.current)
    BY <2>2, <2>6
  <2>12. \A c, d \in next.done : c # d => Apart(c, d) \/ Apart(d, c)
    BY <2>2, <2>7
  <2> QED  BY <1>10, <2>3, <2>9, <2>10, <2>11, <2>12 DEF Sound, next
<1>12. CASE ~(cur # {} /\ x.at - acc.reach > Gap)
  <2> DEFINE reach == Larger(acc.reach, x.end)
  <2>1. next = [done |-> done, current |-> cur \cup {x}, reach |-> reach]
    BY <1>1, <1>12 DEF Joined, ReachWith
  <2>2. next.done = done /\ next.current = cur \cup {x} /\ next.reach = reach
    BY <2>1
  <2>3. reach \in Int /\ acc.reach <= reach /\ x.end <= reach /\ (reach = acc.reach \/ reach = x.end)
    BY <1>1, <1>2 DEF Larger
  <2> HIDE DEF reach
  <2>4. next \in Accs(items)
    BY <1>1, <1>2, <2>1, <2>3 DEF Accs
  <2>5. \E k \in cur \cup {x} : k.end = reach
    <3>1. CASE s = {}
      <4>1. acc = Start(items) /\ acc.reach = Min({i.at : i \in items})
        BY <3>1 DEF Sound, Start
      <4> DEFINE at == [i \in items |-> i.at]
                 starts == {at[i] : i \in items}
      <4>2. starts = {i.at : i \in items} /\ \A i \in items : at[i] = i.at
        OBVIOUS
      <4>3. IsFiniteSet(starts)
        <5> HIDE DEF at
        <5> QED  BY FiniteImage DEF Items
      <4>4. starts \subseteq Int /\ starts # {} /\ x.at \in starts
        BY <1>2
      <4>5. Min(starts) <= x.at
        <5> HIDE DEF starts
        <5> QED  BY <4>3, <4>4, EndsOf
      <4>6. acc.reach <= x.at
        BY <4>1, <4>2, <4>5
      <4>7. reach = x.end
        BY <1>1, <1>2, <2>3, <4>6
      <4> QED  BY <4>7
    <3>2. CASE s # {}
      BY <1>9, <2>3, <3>2
    <3> QED  BY <3>1, <3>2
  <2>6. \A i \in cur \cup {x} : i.end <= reach
    BY <1>1, <1>2, <1>5, <2>3
  <2>7. Stretch(cur \cup {x})
    <3>1. CASE cur = {}
      <4>1. cur \cup {x} = {x}
        BY <3>1
      <4> HIDE DEF cur
      <4> QED  BY <4>1, StretchOne
    <3>2. CASE cur # {}
      <4>1. s # {}
        BY <1>3, <3>2
      <4>2. PICK k \in cur : k.end = acc.reach
        BY <1>9, <4>1
      <4>3. ~(x.at - acc.reach > Gap)
        BY <1>12, <3>2
      <4>4. Near(k, x)
        BY <1>1, <1>2, <1>4, <4>2, <4>3 DEF Near
      <4> HIDE DEF cur
      <4> QED  BY <1>3, <1>8, <4>4, StretchMore
    <3> QED  BY <3>1, <3>2
  <2>8. ASSUME NEW c \in done PROVE Apart(c, cur \cup {x})
    <3>1. PICK k \in cur : TRUE
      <4>1. PICK i \in c : TRUE
        BY <1>6
      <4>2. s # {}
        BY <1>3, <4>1
      <4> QED  BY <1>9, <4>2
    <3>2. \A i \in c, j \in cur : j.at - i.end > Gap
      BY <1>6 DEF Apart
    <3>3. \A i \in c : k.at - i.end > Gap /\ i.end \in Int /\ k.at \in Int
      BY <1>1, <1>2, <3>2
    <3>4. k.at <= x.at
      BY <1>4
    <3>5. \A i \in c : x.at - i.end > Gap
      BY <1>2, <3>3, <3>4
    <3> QED  BY <3>2, <3>5 DEF Apart
  <2>9. (UNION done) \cup (cur \cup {x}) = s \cup {x}
    BY <1>3
  <2> HIDE DEF done, cur
  <2>10. /\ next.current # {} /\ \E k \in next.current : k.end = next.reach
         /\ \A i \in next.current : i.end <= next.reach
    BY <2>2, <2>5, <2>6
  <2>11. (UNION next.done) \cup next.current = s \cup {x} /\ Stretch(next.current)
    BY <2>2, <2>7, <2>9
  <2> HIDE DEF next
  <2>12. \A c \in next.done : c # {} /\ Stretch(c) /\ Apart(c, next.current)
    BY <1>6, <2>2, <2>8
  <2>13. \A c, d \in next.done : c # d => Apart(c, d) \/ Apart(d, c)
    BY <1>7, <2>2
  <2> QED  BY <1>10, <2>4, <2>10, <2>11, <2>12, <2>13 DEF Sound, next
<1> QED  BY <1>11, <1>12

\* So it holds of the clusters of all the items.
LEMMA ClustersSound ==
    ASSUME NEW items, Items(items), items # {}
    PROVE  \E acc : /\ Sound(items, items, acc)
                    /\ Clusters(items) = acc.done \cup {acc.current}
<1> DEFINE V == Accs(items)
           base == Start(items)
           pick == [s \in SUBSET items |-> Latest(s)]
           step == [x \in items |-> [v \in V |-> Joined(x, v)]]
<1>1. IsFiniteSet(items)
  BY DEF Items
<1>2. \A s \in SUBSET items : s # {} => pick[s] \in s
  BY LatestIn
<1>3. base \in V
  <2> DEFINE at == [i \in items |-> i.at]
             starts == {at[i] : i \in items}
  <2>1. starts = {i.at : i \in items}
    OBVIOUS
  <2>2. IsFiniteSet(starts)
    <3> HIDE DEF at
    <3> QED  BY <1>1, FiniteImage
  <2>3. starts \subseteq Int /\ starts # {}
    BY DEF Items, IsItem
  <2>4. Min(starts) \in Int
    <3> HIDE DEF starts
    <3> QED  BY <2>2, <2>3, EndsOf
  <2>5. Min({i.at : i \in items}) \in Int
    BY <2>1, <2>4
  <2> QED  BY <2>5 DEF Start, Accs
<1>4. ASSUME NEW x \in items, NEW v \in V PROVE Joined(x, v) \in V
  <2>1. x.at \in Int /\ x.end \in Int /\ v.reach \in Int
    BY DEF Items, IsItem, Accs
  <2>2. ReachWith(x.at, x) \in Int /\ ReachWith(v.reach, x) \in Int
    BY <2>1 DEF ReachWith, Larger
  <2>3. v.done \cup {v.current} \in SUBSET SUBSET items /\ v.done \in SUBSET SUBSET items
        /\ {x} \in SUBSET items /\ v.current \cup {x} \in SUBSET items
    BY DEF Accs
  <2>4. CASE v.current # {} /\ x.at - v.reach > Gap
    <3>1. Joined(x, v) = [done |-> v.done \cup {v.current}, current |-> {x}, reach |-> ReachWith(x.at, x)]
      BY <2>4 DEF Joined
    <3> QED  BY <2>2, <2>3, <3>1 DEF Accs
  <2>5. CASE ~(v.current # {} /\ x.at - v.reach > Gap)
    <3>1. v = [done |-> v.done, current |-> v.current, reach |-> v.reach]
      BY DEF Accs
    <3>2. Joined(x, v) = [done |-> v.done, current |-> v.current \cup {x}, reach |-> ReachWith(v.reach, x)]
      BY <2>5, <3>1 DEF Joined
    <3> QED  BY <2>2, <2>3, <3>2 DEF Accs
  <2> QED  BY <2>4, <2>5
<1>5. \A x \in items, v \in V : step[x][v] \in V
  <2> HIDE DEF V
  <2> QED  BY <1>4
<1>6. \E h \in [SUBSET items -> V] : Folds1(h, base, pick, step, items)
  <2> HIDE DEF V, base, pick, step
  <2> QED  BY <1>1, <1>2, <1>3, <1>5, FoldExists
<1>7. PICK h \in [SUBSET items -> V] : Folds1(h, base, pick, step, items)
  BY <1>6
<1>8. Clustering(h, items)
  <2>1. ASSUME NEW s \in SUBSET items
        PROVE  h[s] = IF s = {} THEN Start(items) ELSE Joined(Latest(s), h[s \ {Latest(s)}])
    <3>1. h[s] = IF s = {} THEN base ELSE step[pick[s]][h[s \ {pick[s]}]]
      <4> HIDE DEF base, pick, step
      <4> QED  BY <1>7 DEF Folds1
    <3>2. CASE s = {}
      BY <3>1, <3>2
    <3>3. CASE s # {}
      <4>1. pick[s] = Latest(s) /\ Latest(s) \in items
        BY <3>3, <1>2
      <4>2. h[s \ {Latest(s)}] \in V
        <5>1. s \ {Latest(s)} \in SUBSET items
          OBVIOUS
        <5> HIDE DEF V
        <5> QED  BY <1>7, <5>1
      <4>3. step[Latest(s)][h[s \ {Latest(s)}]] = Joined(Latest(s), h[s \ {Latest(s)}])
        <5> HIDE DEF V
        <5> QED  BY <4>1, <4>2
      <4> QED  BY <3>1, <3>3, <4>1, <4>3
    <3> QED  BY <3>2, <3>3
  <2> HIDE DEF V
  <2> QED  BY <1>7, <2>1 DEF Clustering
<1>9. PICK g : Clustering(g, items) /\ Clusters(items) = g[items].done \cup {g[items].current}
  BY <1>8, ClustersIs
<1>10. \A s \in SUBSET items : g[s] = IF s = {} THEN Start(items) ELSE Joined(Latest(s), g[s \ {Latest(s)}])
  BY <1>9 DEF Clustering
<1> DEFINE F == {T \in SUBSET items : Sound(items, T, g[T])}
<1>11. {} \in F
  <2>1. g[{}] = base
    BY <1>10
  <2>2. base.done = {} /\ base.current = {}
    BY DEF Start
  <2>3. Stretch({})
    BY DEF Stretch
  <2>4. g[{}] = Start(items) /\ g[{}] \in Accs(items) /\ g[{}].done = {} /\ g[{}].current = {}
    BY <1>3, <2>1, <2>2
  <2>5. Sound(items, {}, g[{}])
    BY <2>3, <2>4 DEF Sound
  <2> QED  BY <2>5
<1>12. ASSUME NEW T \in SUBSET items, T # {}, \A x \in T : T \ {x} \in F PROVE T \in F
  <2> DEFINE x == Latest(T)
             R == T \ {x}
  <2>1. x \in T /\ \A j \in T : j.at <= x.at
    BY <1>12, LatestIn
  <2>2. Sound(items, R, g[R]) /\ R \subseteq items /\ x \in items \ R
    BY <1>12, <2>1
  <2>3. \A j \in R : j.at <= x.at
    BY <2>1
  <2>4. g[T] = Joined(x, g[R])
    BY <1>10, <1>12
  <2>5. R \cup {x} = T
    BY <2>1
  <2> HIDE DEF x, R
  <2>6. Sound(items, R \cup {x}, Joined(x, g[R]))
    BY <2>2, <2>3, JoinedSound
  <2> QED  BY <2>4, <2>5, <2>6
<1>13. items \in F
  <2> HIDE DEF F
  <2> QED  BY <1>1, <1>11, <1>12, SetInduction
<1> QED  BY <1>9, <1>13

LEMMA StretchesOf ==
    ASSUME NEW items, Items(items)
    PROVE  /\ UNION Clusters(items) = items
           /\ \A c \in Clusters(items) : c # {} /\ Items(c) /\ Stretch(c)
           /\ \A c, d \in Clusters(items) : c # d => Apart(c, d) \/ Apart(d, c)
<1>1. CASE items = {}
  <2>1. Clusters(items) = {}
    BY <1>1 DEF Clusters
  <2> QED  BY <1>1, <2>1
<1>2. CASE items # {}
  <2>1. PICK acc : Sound(items, items, acc) /\ Clusters(items) = acc.done \cup {acc.current}
    BY <1>2, ClustersSound
  <2> DEFINE done == acc.done
             cur == acc.current
  <2>2. (UNION done) \cup cur = items /\ cur # {} /\ Stretch(cur)
    BY <1>2, <2>1 DEF Sound
  <2>3. \A c \in done : c # {} /\ Stretch(c) /\ Apart(c, cur)
    BY <2>1 DEF Sound
  <2>4. \A c, d \in done : c # d => Apart(c, d) \/ Apart(d, c)
    BY <2>1 DEF Sound
  <2>5. Clusters(items) = done \cup {cur}
    BY <2>1
  <2> HIDE DEF done, cur
  <2>6. UNION Clusters(items) = items
    BY <2>2, <2>5
  <2>7. ASSUME NEW c \in Clusters(items) PROVE c # {} /\ Items(c) /\ Stretch(c)
    <3>1. c \subseteq items
      BY <2>6
    <3>2. Items(c)
      BY <3>1, FS_Subset DEF Items
    <3> QED  BY <2>2, <2>3, <2>5, <3>2
  <2>8. \A c, d \in Clusters(items) : c # d => Apart(c, d) \/ Apart(d, c)
    BY <2>3, <2>4, <2>5
  <2> QED  BY <2>6, <2>7, <2>8
<1> QED  BY <1>1, <1>2

\* A window ends where an item of its cluster ends and begins at most a lead-in before one.
LEMMA WindowIs ==
    ASSUME NEW c, Items(c), c # {}
    PROVE  LET w == WindowOf(c)
           IN  /\ w.from \in Int /\ w.to \in Int
               /\ \E i \in c : w.to = i.end
               /\ \E i \in c : w.from = i.at \/ w.from = i.at - LeadIn
<1> DEFINE from == [i \in c |-> IF i.kind = "commit" THEN i.at - LeadIn ELSE i.at]
           to == [i \in c |-> i.end]
           froms == {from[i] : i \in c}
           tos == {to[i] : i \in c}
<1>1. WindowOf(c) = [from |-> Min(froms), to |-> Max(tos)]
  BY DEF WindowOf
<1>2. \A i \in c : /\ i.at \in Int /\ i.end \in Int /\ from[i] \in Int /\ to[i] = i.end
                   /\ from[i] = i.at \/ from[i] = i.at - LeadIn
  BY AttributionAssumption DEF Items, IsItem
<1> HIDE DEF from, to
<1>3. IsFiniteSet(froms) /\ IsFiniteSet(tos)
  BY FiniteImage DEF Items
<1>4. froms \subseteq Int /\ froms # {} /\ tos \subseteq Int /\ tos # {}
  BY <1>2
<1>5. Min(froms) \in froms /\ Max(tos) \in tos
  <2> HIDE DEF froms, tos
  <2> QED  BY <1>3, <1>4, EndsOf
<1>6. PICK i \in c : Max(tos) = to[i]
  BY <1>5
<1>7. PICK j \in c : Min(froms) = from[j]
  BY <1>5
<1>8. WindowOf(c).from = Min(froms) /\ WindowOf(c).to = Max(tos)
  BY <1>1
<1> QED  BY <1>2, <1>6, <1>7, <1>8

LEMMA WindowsApart ==
    ASSUME NEW c, Items(c), c # {}, NEW d, Items(d), d # {}, Apart(c, d)
    PROVE  /\ \A i \in c, j \in d : ~Near(i, j) /\ ~Near(j, i)
           /\ WindowOf(c).to < WindowOf(d).from
<1>1. /\ \A i \in c : i.at \in Int /\ i.end \in Int /\ i.at <= i.end
      /\ \A i \in d : i.at \in Int /\ i.end \in Int /\ i.at <= i.end
      /\ Gap \in Int /\ Gap >= 0 /\ LeadIn \in Int /\ LeadIn < Gap
  BY AttributionAssumption DEF Items, IsItem
<1>2. ASSUME NEW i \in c, NEW j \in d PROVE j.at - i.end > Gap
  BY DEF Apart
<1>3. ASSUME NEW i \in c, NEW j \in d PROVE ~Near(i, j) /\ ~Near(j, i)
  BY <1>1, <1>2 DEF Near
<1>4. PICK i \in c : WindowOf(c).to = i.end
  BY WindowIs
<1>5. PICK j \in d : WindowOf(d).from = j.at \/ WindowOf(d).from = j.at - LeadIn
  BY WindowIs
<1>6. WindowOf(c).to < WindowOf(d).from
  BY <1>1, <1>2, <1>4, <1>5
<1> QED  BY <1>3, <1>6

-------------------------------------------------------------------------------
(* The ladder.                                                             *)

\* Who stands on the first rung: the projects a repository is linked to by its full name.
Linked(ls, place) == IF place \in Repos THEN ByFullName(ls, place) ELSE {}

\* One project takes the rung it stands on alone; more than one there is nobody.
LEMMA Alone ==
    ASSUME NEW p, NEW other
    PROVE  Claim({p}, other) = p
  BY DEF Claim

LEMMA Disputed ==
    ASSUME NEW S, NEW p \in S, NEW q \in S, p # q, NEW other
    PROVE  Claim(S, other) = other
  BY DEF Claim

\* The ladder, rung by rung.
LEMMA Rungs ==
    ASSUME NEW ns, NEW ls, NEW place
    PROVE  Resolve(ns, ls, place) =
             IF Linked(ls, place) # {} THEN Claim(Linked(ls, place), None)
             ELSE IF ByLinkKey(ls, KeyOf[place]) # {} THEN Claim(ByLinkKey(ls, KeyOf[place]), None)
             ELSE IF ByName(ns, KeyOf[place]) # {} THEN Claim(ByName(ns, KeyOf[place]), None)
             ELSE None
<1> DEFINE a == Linked(ls, place)
           b == ByLinkKey(ls, KeyOf[place])
           c == ByName(ns, KeyOf[place])
           rungs == <<a, b, c>>
           hits == {i \in 1 .. 3 : rungs[i] # {}}
<1>1. Resolve(ns, ls, place) =
        IF hits = {} THEN None ELSE Claim(rungs[CHOOSE i \in hits : \A j \in hits : i <= j], None)
  BY DEF Resolve, Linked
<1> HIDE DEF a, b, c
<1>2. rungs[1] = a /\ rungs[2] = b /\ rungs[3] = c /\ 1 .. 3 = {1, 2, 3}
  OBVIOUS
<1> HIDE DEF rungs
<1>3. CASE a # {}
  <2>1. 1 \in hits /\ \A j \in hits : 1 <= j
    BY <1>2, <1>3
  <2> HIDE DEF hits
  <2>2. (CHOOSE i \in hits : \A j \in hits : i <= j) = 1
    <3>1. \A i \in hits : (\A j \in hits : i <= j) => i = 1
      BY <2>1, <1>2 DEF hits
    <3> QED  BY <2>1, <3>1
  <2> QED  BY <1>1, <1>2, <1>3, <2>1, <2>2 DEF a, b, c
<1>4. CASE a = {} /\ b # {}
  <2>1. 2 \in hits /\ 1 \notin hits /\ hits \subseteq {1, 2, 3}
    BY <1>2, <1>4
  <2> HIDE DEF hits
  <2>2. (CHOOSE i \in hits : \A j \in hits : i <= j) = 2
    <3>1. \A i \in hits : (\A j \in hits : i <= j) => i = 2
      BY <2>1
    <3>2. \A j \in hits : 2 <= j
      BY <2>1
    <3> QED  BY <2>1, <3>1, <3>2
  <2> QED  BY <1>1, <1>2, <1>4, <2>1, <2>2 DEF a, b, c
<1>5. CASE a = {} /\ b = {} /\ c # {}
  <2>1. hits = {3}
    BY <1>2, <1>5
  <2> HIDE DEF hits
  <2>2. (CHOOSE i \in hits : \A j \in hits : i <= j) = 3
    BY <2>1
  <2> QED  BY <1>1, <1>2, <1>5, <2>1, <2>2 DEF a, b, c
<1>6. CASE a = {} /\ b = {} /\ c = {}
  <2>1. hits = {}
    BY <1>2, <1>6
  <2> QED  BY <1>1, <1>6, <2>1 DEF a, b, c
<1> QED  BY <1>3, <1>4, <1>5, <1>6

\* A link that is added is one to its repository and one to a place of that name, no other.
LEMMA OneMoreLink ==
    ASSUME NEW ls, NEW l \in Repos \X Projects
    PROVE  /\ ByFullName(ls \cup {l}, l[1]) = ByFullName(ls, l[1]) \cup {l[2]}
           /\ \A place : Lower[place] # Lower[l[1]] => ByFullName(ls \cup {l}, place) = ByFullName(ls, place)
           /\ \A key : key # KeyOf[l[1]] => ByLinkKey(ls \cup {l}, key) = ByLinkKey(ls, key)
  BY DEF ByFullName, ByLinkKey

-------------------------------------------------------------------------------
(* Links.                                                                  *)

\* Whatever writes a link writes one, of a repository and a project, and renames nothing.
LEMMA LinkWritten ==
    ASSUME Next, links' # links
    PROVE  /\ name' = name
           /\ \E l \in Repos \X Projects : links' = links \cup {l}
<1>1. ASSUME NEW l \in Relinks, LinkRepo(l[1], l[2])
      PROVE  name' = name /\ \E k \in Repos \X Projects : links' = links \cup {k}
  <2>1. l \in Repos \X Projects /\ l = <<l[1], l[2]>>
    BY ReportsAssumption
  <2> QED  BY <1>1, <2>1 DEF LinkRepo
<1>2. ASSUME NEW c, NEW p \in Projects, SessionFromCluster(c, p)
      PROVE  name' = name /\ \E k \in Repos \X Projects : links' = links \cup {k}
  <2>1. name' = name
    BY <1>2 DEF SessionFromCluster
  <2>2. PICK learned \in {LearnedFrom(WindowOf(c))} \cap {{f} : f \in Repos} :
          links' = links \cup (learned \X {p})
    BY <1>2 DEF SessionFromCluster
  <2>3. PICK f \in Repos : learned = {f}
    BY <2>2
  <2>4. learned \X {p} = {<<f, p>>}
    BY <2>3
  <2> QED  BY <2>1, <2>2, <2>4
<1> QED
  BY <1>1, <1>2 DEF Next, ListSessions, ListProjects, ListReposForUser, Respond, SessionAttribution,
        DeleteSession, EditSession, ListUnmatchedCommits, UnmatchedClusters, RenameProject,
        CountSessionsForProject, SoftDeleteProject, stored

\* A link settles its own repository: for its project, or for nobody if it is not the only one.
LEMMA OwnRepository ==
    ASSUME NEW ns, NEW ls, NEW l \in Repos \X Projects
    PROVE  Resolve(ns, ls \cup {l}, l[1]) =
             IF ByFullName(ls, l[1]) \subseteq {l[2]} THEN l[2] ELSE None
<1> DEFINE before == ByFullName(ls, l[1])
           after == Linked(ls \cup {l}, l[1])
<1>1. after = before \cup {l[2]}
  <2>1. ByFullName(ls \cup {l}, l[1]) = ByFullName(ls, l[1]) \cup {l[2]}
    BY OneMoreLink
  <2>2. l[1] \in Repos
    OBVIOUS
  <2> QED  BY <2>1, <2>2 DEF Linked
<1>2. Resolve(ns, ls \cup {l}, l[1]) = Claim(after, None)
  BY <1>1, Rungs
<1> HIDE DEF before, after
<1>3. CASE before \subseteq {l[2]}
  <2>1. after = {l[2]}
    BY <1>1, <1>3
  <2> QED  BY <1>2, <1>3, <2>1, Alone DEF before
<1>4. CASE ~(before \subseteq {l[2]})
  <2>1. PICK q \in before : q # l[2]
    BY <1>4
  <2>2. q \in after /\ l[2] \in after
    BY <1>1
  <2> QED  BY <1>2, <1>4, <2>1, <2>2, Disputed DEF before
<1> QED  BY <1>3, <1>4

\* It changes nothing for a place of another name, nor for another repository that is linked.
LEMMA OtherPlaces ==
    ASSUME NEW ns, NEW ls, NEW l \in Repos \X Projects, NEW place \in Places,
           Resolve(ns, ls \cup {l}, place) # Resolve(ns, ls, place)
    PROVE  /\ KeyOf[place] = KeyOf[l[1]]
           /\ place \notin Repos \/ Lower[place] = Lower[l[1]] \/ ByFullName(ls, place) = {}
<1>1. ASSUME KeyOf[place] # KeyOf[l[1]] PROVE FALSE
  <2>1. place \in Repos => Lower[place] # Lower[l[1]]
    BY <1>1, AttributionAssumption
  <2>2. Linked(ls \cup {l}, place) = Linked(ls, place)
    BY <2>1, OneMoreLink DEF Linked
  <2>3. ByLinkKey(ls \cup {l}, KeyOf[place]) = ByLinkKey(ls, KeyOf[place])
    BY <1>1, OneMoreLink
  <2>4. Resolve(ns, ls \cup {l}, place) = Resolve(ns, ls, place)
    BY <2>2, <2>3, Rungs
  <2> QED  BY <2>4
<1>2. ASSUME Lower[place] # Lower[l[1]], place \in Repos, ByFullName(ls, place) # {} PROVE FALSE
  <2>1. Linked(ls \cup {l}, place) = Linked(ls, place) /\ Linked(ls, place) # {}
    <3>1. ByFullName(ls \cup {l}, place) = ByFullName(ls, place)
      BY <1>2, OneMoreLink, ZenonT(40)
    <3> QED  BY <1>2, <3>1 DEF Linked
  <2>2. Resolve(ns, ls \cup {l}, place) = Resolve(ns, ls, place)
    BY <2>1, Rungs
  <2> QED  BY <2>2
<1> QED  BY <1>1, <1>2

\* What the resolver reads of one more link: a link, unless its project is deleted.
LEMMA ReadOfOneMore ==
    ASSUME NEW l \in Repos \X Projects, name' = name, links' = links \cup {l}
    PROVE  LiveLinks' = IF name[l[2]] # None THEN LiveLinks \cup {l} ELSE LiveLinks
  BY DEF LiveLinks

\* A new link, asked for or learned from a recovered cluster, settles its repository for its
\* project, or for nobody when the repository is linked elsewhere under any spelling, and changes
\* nothing for a place of another name or for a repository with a link of its own.  A link to a
\* project deleted meanwhile changes nothing.
THEOREM NewLinksSettle == Spec => LinksSettle
<1> DEFINE Settles ==
      \A l \in links' \ links :
          /\ name[l[2]] # None =>
               Says(l[1])' = IF ByFullName(LiveLinks, l[1]) \subseteq {l[2]} THEN l[2] ELSE None
          /\ \A place \in Places :
               Says(place)' # Says(place) =>
                   /\ name[l[2]] # None
                   /\ KeyOf[place] = KeyOf[l[1]]
                   /\ \/ place \notin Repos
                      \/ Lower[place] = Lower[l[1]]
                      \/ ByFullName(LiveLinks, place) = {}
<1>1. Next => Settles
  <2> SUFFICES ASSUME Next, NEW l \in links' \ links PROVE Settles!(l)
    OBVIOUS
  <2>1. name' = name /\ l \in Repos \X Projects /\ links' = links \cup {l}
    BY LinkWritten
  <2>2. LiveLinks' = IF name[l[2]] # None THEN LiveLinks \cup {l} ELSE LiveLinks
    BY <2>1, ReadOfOneMore
  <2>3. \A place : Says(place)' = Resolve(name, LiveLinks', place) /\ Says(place) = Resolve(name, LiveLinks, place)
    BY <2>1 DEF Says
  <2>4. CASE name[l[2]] # None
    <3>1. LiveLinks' = LiveLinks \cup {l}
      BY <2>2, <2>4
    <3>2. Says(l[1])' = IF ByFullName(LiveLinks, l[1]) \subseteq {l[2]} THEN l[2] ELSE None
      <4>1. Says(l[1])' = Resolve(name, LiveLinks \cup {l}, l[1])
        BY <2>1, <3>1 DEF Says
      <4> QED  BY <2>1, <4>1, OwnRepository
    <3>3. ASSUME NEW place \in Places, Says(place)' # Says(place)
          PROVE  /\ KeyOf[place] = KeyOf[l[1]]
                 /\ \/ place \notin Repos
                    \/ Lower[place] = Lower[l[1]]
                    \/ ByFullName(LiveLinks, place) = {}
      <4>1. Resolve(name, LiveLinks \cup {l}, place) # Resolve(name, LiveLinks, place)
        BY <2>3, <3>1, <3>3
      <4> QED  BY <2>1, <4>1, OtherPlaces
    <3> QED  BY <2>4, <3>2, <3>3
  <2>5. CASE name[l[2]] = None
    BY <2>2, <2>3, <2>5
  <2> QED  BY <2>4, <2>5
<1>2. [Next]_vars => [Settles]_vars
  BY <1>1
<1> QED  BY <1>2, PTL DEF Spec, LinksSettle

-------------------------------------------------------------------------------
(* Suggestions.                                                            *)

\* While nothing has changed, the answer holds what the links say now.
SuggestInv ==
    /\ changes \in Nat
    /\ DOMAIN unmatched = DOMAIN NoClusters
    /\ unmatched.pc = "answered" /\ changes = 0 =>
          unmatched.suggested = [c \in unmatched.clusters |-> SuggestedProject(LiveLinks, c)]

LEMMA SuggestInit == Init => SuggestInv
  BY DEF Init, SuggestInv, NoClusters

\* The request's two statements.
LEMMA Suggesting ==
    ASSUME SuggestInv, UnmatchedClusters \/ \E r \in Ranges : ListUnmatchedCommits(r)
    PROVE  SuggestInv'
<1>1. ASSUME NEW r \in Ranges, ListUnmatchedCommits(r) PROVE SuggestInv'
  <2>1. unmatched'.pc = "runs" /\ DOMAIN unmatched' = DOMAIN NoClusters /\ changes' = changes
    BY <1>1 DEF ListUnmatchedCommits, NoClusters
  <2> QED  BY <2>1 DEF SuggestInv
<1>2. CASE UnmatchedClusters
  <2>1. PICK items, suggested :
          /\ suggested = [c \in Clusters(items) |-> SuggestedProject(LiveLinks, c)]
          /\ unmatched' = [unmatched EXCEPT !.pc = "answered", !.items = items,
                                            !.clusters = Clusters(items), !.suggested = suggested]
    BY <1>2 DEF UnmatchedClusters
  <2>2. /\ DOMAIN unmatched' = DOMAIN NoClusters
        /\ unmatched'.clusters = Clusters(items) /\ unmatched'.suggested = suggested
    BY <2>1 DEF SuggestInv, NoClusters
  <2>3. LiveLinks' = LiveLinks /\ changes' = changes
    BY <1>2 DEF UnmatchedClusters, stored, LiveLinks
  <2> QED  BY <2>1, <2>2, <2>3 DEF SuggestInv
<1> QED  BY <1>1, <1>2

LEMMA SuggestStep == SuggestInv /\ [Next]_vars => SuggestInv'
<1> SUFFICES ASSUME SuggestInv, [Next]_vars PROVE SuggestInv'
  OBVIOUS
<1>1. ASSUME Change, unmatched' = unmatched \/ unmatched' = NoClusters PROVE SuggestInv'
  <2>1. changes' \in Nat /\ changes' # 0
    BY <1>1 DEF Change, SuggestInv
  <2> QED  BY <1>1, <2>1 DEF SuggestInv
<1>2. CASE UNCHANGED <<name, links, unmatched, changes>>
  BY <1>2 DEF SuggestInv, LiveLinks
<1>3. CASE UnmatchedClusters \/ \E r \in Ranges : ListUnmatchedCommits(r)
  BY <1>3, Suggesting
<1> QED
  BY <1>1, <1>2, <1>3 DEF Next, vars, stored, ListSessions, ListProjects, ListReposForUser, Respond,
        SessionAttribution, DeleteSession, EditSession, SessionFromCluster, LinkRepo, RenameProject,
        CountSessionsForProject, SoftDeleteProject

\* A suggestion is the one project the cluster's one repository is linked to as it is spelled.
LEMMA SuggestionOf ==
    ASSUME NEW ls, NEW cluster, NEW u, u = SuggestedProject(ls, cluster), u # None, NEW f \in ReposOf(cluster)
    PROVE  f \in Repos /\ ProjectsForRepo(ls, f) = {u}
<1> DEFINE g == Claim(ReposOf(cluster), None)
<1>1. g # None /\ u = Claim(ProjectsForRepo(ls, g), None)
  BY DEF SuggestedProject
<1>2. PICK h \in ReposOf(cluster) : ReposOf(cluster) = {h}
  BY <1>1 DEF Claim
<1>3. h = f /\ g = f
  BY <1>2, Alone
<1>4. PICK p : ProjectsForRepo(ls, f) = {p}
  BY <1>1, <1>3 DEF Claim
<1>5. u = p
  BY <1>1, <1>3, <1>4, Alone
<1> QED  BY <1>4, <1>5 DEF ReposOf

\* That link stands on the resolver's first rung too, alone or beside one that differs in case.
LEMMA SuggestHolds == SuggestInv => (unmatched.pc = "answered" => SuggestionsHold)
<1> SUFFICES ASSUME SuggestInv, unmatched.pc = "answered", changes = 0,
                    NEW c \in unmatched.clusters, unmatched.suggested[c] # None, NEW f \in ReposOf(c)
             PROVE  Resolve(name, LiveLinks, f) =
                      IF \E l \in LiveLinks : Lower[l[1]] = Lower[f] /\ l[2] # unmatched.suggested[c]
                      THEN None ELSE unmatched.suggested[c]
  BY DEF SuggestionsHold
<1>1. PICK u : u = unmatched.suggested[c]
  OBVIOUS
<1>2. u = SuggestedProject(LiveLinks, c) /\ u # None
  BY <1>1 DEF SuggestInv
<1>3. f \in Repos /\ ProjectsForRepo(LiveLinks, f) = {u}
  BY <1>2, SuggestionOf
<1>4. PICK rung : rung = ByFullName(LiveLinks, f)
  OBVIOUS
<1>5. u \in rung
  BY <1>3, <1>4 DEF ProjectsForRepo, ByFullName
<1>6. Resolve(name, LiveLinks, f) = Claim(rung, None)
  BY <1>3, <1>4, <1>5, Rungs DEF Linked
<1>7. CASE \E l \in LiveLinks : Lower[l[1]] = Lower[f] /\ l[2] # u
  <2>1. PICK q \in rung : q # u
    BY <1>4, <1>7 DEF ByFullName
  <2> QED  BY <1>1, <1>5, <1>6, <1>7, <2>1, Disputed
<1>8. CASE ~\E l \in LiveLinks : Lower[l[1]] = Lower[f] /\ l[2] # u
  <2>1. rung = {u}
    BY <1>4, <1>5, <1>8 DEF ByFullName
  <2> QED  BY <1>1, <1>6, <1>8, <2>1, Alone
<1> QED  BY <1>7, <1>8

\* The project suggested for an unmatched cluster is the one the reports give the time of each
\* of its repositories to, as long as nothing was changed since the answer; or they give it to
\* nobody, exactly if another project's link to the repository differs in case.
THEOREM SuggestionsAgree == Spec => [](unmatched.pc = "answered" => SuggestionsHold)
  BY SuggestInit, SuggestStep, SuggestHolds, PTL DEF Spec

-------------------------------------------------------------------------------
(* The answer for unmatched evidence.                                      *)

\* Evidence is a finite set of items, and so is what the request has read; its answer is the
\* clusters of that.
ClusterInv ==
    /\ Items(evidence) /\ Items(unmatched.items)
    /\ unmatched.pc = "answered" => unmatched.clusters = Clusters(unmatched.items)

LEMMA SomeItems ==
    ASSUME NEW E, Items(E), NEW D, D \subseteq E
    PROVE  Items(D)
  BY FS_Subset DEF Items

LEMMA ClusterInit == Init => ClusterInv
<1> SUFFICES ASSUME Init PROVE ClusterInv
  OBVIOUS
<1>1. PICK w \in Worlds : evidence = w.evidence /\ unmatched = NoClusters
  BY DEF Init
<1>2. Items(evidence)
  BY <1>1, ReportsAssumption DEF IsWorld, Items
<1>3. Items({})
  BY FS_EmptySet DEF Items
<1> QED  BY <1>1, <1>2, <1>3 DEF ClusterInv, NoClusters

LEMMA Clustered ==
    ASSUME SuggestInv, ClusterInv, UnmatchedClusters \/ \E r \in Ranges : ListUnmatchedCommits(r)
    PROVE  ClusterInv'
<1>1. evidence' = evidence /\ Items(evidence)
  BY DEF ClusterInv, UnmatchedClusters, ListUnmatchedCommits, stored
<1>2. ASSUME NEW r \in Ranges, ListUnmatchedCommits(r) PROVE ClusterInv'
  <2>1. unmatched'.pc = "runs" /\ unmatched'.items = {i \in Unfiled(r) : i.kind = "commit"}
    BY <1>2 DEF ListUnmatchedCommits, NoClusters
  <2>2. unmatched'.items \subseteq evidence
    BY <2>1 DEF Unfiled
  <2>3. Items(unmatched'.items)
    BY <1>1, <2>2, SomeItems
  <2> QED  BY <1>1, <2>1, <2>3 DEF ClusterInv, Items
<1>3. CASE UnmatchedClusters
  <2> DEFINE runs == {i \in Unfiled(unmatched.range) : i.kind = "run"}
  <2>1. PICK items, suggested :
          /\ items = unmatched.items \cup runs
          /\ unmatched' = [unmatched EXCEPT !.pc = "answered", !.items = items,
                                            !.clusters = Clusters(items), !.suggested = suggested]
    BY <1>3 DEF UnmatchedClusters
  <2>2. unmatched'.clusters = Clusters(items) /\ unmatched'.items = items
    BY <2>1 DEF SuggestInv, NoClusters
  <2>3. runs \subseteq evidence
    BY DEF Unfiled
  <2>4. Items(runs) /\ Items(unmatched.items)
    BY <1>1, <2>3, SomeItems DEF ClusterInv
  <2>5. Items(items)
    <3> HIDE DEF runs
    <3> QED  BY <2>1, <2>4, FS_Union DEF Items
  <2>6. Items(unmatched'.items) /\ Items(evidence')
    BY <1>1, <2>2, <2>5
  <2>7. (unmatched.clusters = Clusters(unmatched.items))'
    BY <2>2
  <2>8. Items(unmatched.items)' /\ Items(evidence)'
    BY <2>6
  <2> QED  BY <2>7, <2>8 DEF ClusterInv
<1> QED  BY <1>2, <1>3

LEMMA ClusterStep == SuggestInv /\ ClusterInv /\ [Next]_vars => ClusterInv'
<1> SUFFICES ASSUME SuggestInv, ClusterInv, [Next]_vars PROVE ClusterInv'
  OBVIOUS
<1>1. ASSUME evidence' = evidence, unmatched' = unmatched \/ unmatched' = NoClusters PROVE ClusterInv'
  <2>1. Items({})
    BY FS_EmptySet DEF Items
  <2>2. CASE unmatched' = unmatched
    BY <1>1, <2>2 DEF ClusterInv
  <2>3. CASE unmatched' = NoClusters
    <3>1. unmatched'.pc # "answered" /\ unmatched'.items = {}
      BY <2>3 DEF NoClusters
    <3> QED  BY <1>1, <2>1, <3>1 DEF ClusterInv
  <2> QED  BY <1>1, <2>2, <2>3
<1>2. CASE UnmatchedClusters \/ \E r \in Ranges : ListUnmatchedCommits(r)
  BY <1>2, Clustered
<1> QED
  BY <1>1, <1>2 DEF Next, vars, stored, ListSessions, ListProjects, ListReposForUser, Respond,
        SessionAttribution, DeleteSession, EditSession, SessionFromCluster, LinkRepo, RenameProject,
        CountSessionsForProject, SoftDeleteProject

LEMMA ClusterHolds == SuggestInv /\ ClusterInv => ClustersAreStretches
<1> SUFFICES ASSUME SuggestInv, ClusterInv, unmatched.pc = "answered"
             PROVE  ClustersAreStretches!2
  BY DEF ClustersAreStretches
<1>1. unmatched.clusters = Clusters(unmatched.items) /\ Items(unmatched.items)
  BY DEF ClusterInv
<1>2. /\ UNION unmatched.clusters = unmatched.items
      /\ \A c \in unmatched.clusters : c # {} /\ Items(c) /\ Stretch(c)
      /\ \A c, d \in unmatched.clusters : c # d => Apart(c, d) \/ Apart(d, c)
  BY <1>1, StretchesOf
<1>3. ASSUME NEW c \in unmatched.clusters
      PROVE  \A part \in (SUBSET c) \ {{}, c} : \E i \in part, j \in c \ part : Near(i, j) \/ Near(j, i)
  BY <1>2 DEF Stretch
<1>4. ASSUME NEW c \in unmatched.clusters, NEW d \in unmatched.clusters, c # d
      PROVE  /\ \A i \in c, j \in d : ~Near(i, j) /\ ~Near(j, i)
             /\ WindowOf(c).to < WindowOf(d).from \/ WindowOf(d).to < WindowOf(c).from
  <2>1. CASE Apart(c, d)
    BY <1>2, <2>1, WindowsApart
  <2>2. CASE Apart(d, c)
    BY <1>2, <2>2, WindowsApart
  <2> QED  BY <1>2, <1>4, <2>1, <2>2
<1>5. SuggestionsHold
  BY SuggestHolds
<1> QED  BY <1>2, <1>3, <1>4, <1>5

\* Whatever the evidence, the clusters an answer holds are its stretches without a silence longer
\* than the gap: inside one no silence is longer, between two there is one, and their windows,
\* lead-in and all, do not meet.
THEOREM ClustersHold == Spec => []ClustersAreStretches
  BY SuggestInit, SuggestStep, ClusterInit, ClusterStep, ClusterHolds, PTL DEF Spec

-------------------------------------------------------------------------------
(* What is stored.                                                         *)

\* Every session has a length and belongs to a project, deleted or not.
WorldInv ==
    /\ name \in [Projects -> Keys \cup {None}] /\ links \subseteq Repos \X Projects
    /\ session \in [Sids -> SessionRows]
    /\ \A s \in Sids : session[s].p # None => session[s].from < session[s].to

LEMMA NoneIsNone == None \notin Projects /\ None \notin Keys
  BY AttributionAssumption

LEMMA WorldInit == Init => WorldInv
  BY ReportsAssumption DEF Init, WorldInv, IsWorld

\* A window that is recovered begins and ends at whole ticks.
LEMMA RecoveredWindow ==
    ASSUME ClusterInv, unmatched.pc = "answered", NEW c \in unmatched.clusters
    PROVE  WindowOf(c).from \in Int /\ WindowOf(c).to \in Int
<1>1. unmatched.clusters = Clusters(unmatched.items) /\ Items(unmatched.items)
  BY SMTT(30) DEF ClusterInv
<1>2. c # {} /\ Items(c)
  BY <1>1, StretchesOf, SMTT(30)
<1> QED  BY <1>2, WindowIs, SMTT(30)

LEMMA WorldStep == ClusterInv /\ WorldInv /\ [Next]_vars => WorldInv'
<1> SUFFICES ASSUME ClusterInv, WorldInv, [Next]_vars PROVE WorldInv'
  OBVIOUS
<1>1. ASSUME UNCHANGED <<name, links, session>> PROVE WorldInv'
  BY <1>1 DEF WorldInv
<1>2. ASSUME NEW l \in Relinks, LinkRepo(l[1], l[2]) PROVE WorldInv'
  <2>1. l \in Repos \X Projects /\ l = <<l[1], l[2]>>
    BY ReportsAssumption
  <2> QED  BY <1>2, <2>1 DEF LinkRepo, WorldInv
<1>3. ASSUME NEW n \in Renames, RenameProject(n[1], n[2]) PROVE WorldInv'
  <2>1. n[1] \in Projects /\ n[2] \in Keys
    BY ReportsAssumption
  <2> QED  BY <1>3, <2>1, NoneIsNone DEF RenameProject, WorldInv, SessionRows
<1>4. ASSUME NEW p \in Projects, SoftDeleteProject(p) PROVE WorldInv'
  BY <1>4 DEF SoftDeleteProject, WorldInv
<1>5. ASSUME NEW s \in Sids, NEW r \in Edits[s], EditSession(s, r) PROVE WorldInv'
  <2>1. r \in SessionRows /\ r.from < r.to
    BY ReportsAssumption
  <2>2. session' = [session EXCEPT ![s] = r] /\ name' = name /\ links' = links
    BY <1>5 DEF EditSession
  <2> QED  BY <2>1, <2>2 DEF WorldInv
<1>6. ASSUME NEW s \in Sids, DeleteSession(s) PROVE WorldInv'
  BY <1>6 DEF DeleteSession, WorldInv, SessionRows, NoSession
<1>7. ASSUME NEW c \in unmatched.clusters, NEW p \in Projects, SessionFromCluster(c, p) PROVE WorldInv'
  <2>1. WindowOf(c).from \in Int /\ WindowOf(c).to \in Int /\ WindowOf(c).from < WindowOf(c).to
    BY <1>7, RecoveredWindow DEF SessionFromCluster
  <2>2. name' = name
    BY <1>7 DEF SessionFromCluster
  <2>3. PICK s \in Sids \ Recorded :
          session' = [session EXCEPT ![s] = [p |-> p, from |-> WindowOf(c).from, to |-> WindowOf(c).to]]
    BY <1>7 DEF SessionFromCluster
  <2>4. links' \subseteq Repos \X Projects
    BY <1>7 DEF SessionFromCluster, WorldInv
  <2> QED  BY <2>1, <2>2, <2>3, <2>4 DEF WorldInv, SessionRows
<1> QED
  BY <1>1, <1>2, <1>3, <1>4, <1>5, <1>6, <1>7 DEF Next, vars, stored, ListSessions, ListProjects,
        ListReposForUser, Respond, SessionAttribution, ListUnmatchedCommits, UnmatchedClusters,
        CountSessionsForProject

-------------------------------------------------------------------------------
(* The report under way.                                                   *)

CountedIn(r) == {s \in Sids : r.listed[s].p # None}

\* The part of a listed session that is counted.
SpanIn(r, s) ==
    IF r.mode = "csv" THEN [from |-> s.from, to |-> s.to]
    ELSE [from |-> Larger(s.from, r.range.from), to |-> Smaller(s.to, r.range.to)]

\* The projects that were there when they were read, or had a link when those were.
Known(r) == {p \in Projects : r.names[p] # None} \cup {l[2] : l \in r.links}

ShapeOk(r) ==
    /\ DOMAIN r = DOMAIN NoReport
    /\ r.range \in TimeRanges /\ r.allowed \subseteq Projects
    /\ r.listed \in [Sids -> SessionRows]
    /\ \A s \in CountedIn(r) : /\ r.listed[s].p \in r.allowed
                               /\ r.listed[s].from < r.listed[s].to
                               /\ SpanIn(r, r.listed[s]).from < SpanIn(r, r.listed[s]).to
    /\ r.names \in [Projects -> Keys \cup {None}] /\ r.links \subseteq Repos \X Projects
    /\ r.todo \subseteq CountedIn(r)
    /\ r.pc = "answered" => r.todo = {}
    /\ \E S : r.shares \in Seq(S)

\* A session's share is what its evidence makes of the counted part of it.
ShareOk(r, h) ==
    /\ h.session \in CountedIn(r) \ r.todo /\ h.declared = r.listed[h.session].p
    /\ h.from = SpanIn(r, r.listed[h.session]).from /\ h.to = SpanIn(r, r.listed[h.session]).to
    /\ h.spans \subseteq SpanSet /\ IsFiniteSet(h.spans)
    /\ \A x \in h.spans : x.project = None \/ x.project \in Known(r)
    /\ h.allocs = Apportion(h.declared, h.from, h.to, h.spans)
    /\ h.places = Unresolved(h.from, h.to, h.spans)

\* The sessions that are done have a share each.
SharesOk(r) ==
    /\ \A n \in DOMAIN r.shares : ShareOk(r, r.shares[n])
    /\ \A n, m \in DOMAIN r.shares : r.shares[n].session = r.shares[m].session => n = m
    /\ \A s \in CountedIn(r) \ r.todo : \E n \in DOMAIN r.shares : r.shares[n].session = s
    /\ r.pc \notin {"spans", "answered"} => r.shares = <<>>

\* As long as nothing has changed, what was read is what is stored.
QuietInv ==
    report.quiet =>
        /\ report.pc # "idle" => report.listed = Listed(report.range, report.allowed)
        /\ report.pc \in {"links", "spans", "answered"} => report.names = name
        /\ report.pc \in {"spans", "answered"} => report.links = LiveLinks

ReportInv == ShapeOk(report) /\ SharesOk(report) /\ QuietInv

LEMMA NothingListed == ShapeOk(NoReport) /\ SharesOk(NoReport)
<1>1. NoReport.listed \in [Sids -> SessionRows] /\ CountedIn(NoReport) = {}
  BY DEF NoReport, NoSession, SessionRows, CountedIn
<1>2. NoReport.range \in TimeRanges /\ NoReport.allowed \subseteq Projects
  BY DEF NoReport, NoRange, TimeRanges
<1>3. NoReport.names \in [Projects -> Keys \cup {None}] /\ NoReport.links \subseteq Repos \X Projects
  BY DEF NoReport
<1>4. NoReport.shares = <<>> /\ NoReport.todo = {}
  BY DEF NoReport
<1>5. <<>> \in Seq({}) /\ DOMAIN <<>> = {}
  OBVIOUS
<1>6. ShapeOk(NoReport)
  BY <1>1, <1>2, <1>3, <1>4, <1>5 DEF ShapeOk
<1>7. SharesOk(NoReport)
  BY <1>1, <1>4, <1>5 DEF SharesOk
<1> QED  BY <1>6, <1>7

LEMMA ReportInit == Init => ReportInv
<1> SUFFICES ASSUME Init PROVE ReportInv
  OBVIOUS
<1>1. report = NoReport
  BY DEF Init
<1>2. QuietInv
  BY <1>1 DEF QuietInv, NoReport
<1> QED  BY <1>1, <1>2, NothingListed DEF ReportInv

\* What is said of the shares looks at these fields only.
LEMMA ReportSame ==
    ASSUME NEW r, NEW q, ShapeOk(r), SharesOk(r), DOMAIN q = DOMAIN r,
           q.range = r.range, q.allowed = r.allowed, q.listed = r.listed, q.mode = r.mode, q.todo = r.todo, q.shares = r.shares,
           q.names = r.names, q.links = r.links,
           q.pc = "answered" => q.todo = {},
           q.pc \notin {"spans", "answered"} => q.shares = <<>>
    PROVE  ShapeOk(q) /\ SharesOk(q)
<1>1. CountedIn(q) = CountedIn(r) /\ Known(q) = Known(r) /\ \A s : SpanIn(q, s) = SpanIn(r, s)
  BY DEF CountedIn, Known, SpanIn
<1>2. ShapeOk(q)
  BY <1>1 DEF ShapeOk
<1>3. \A h : ShareOk(r, h) => ShareOk(q, h)
  BY <1>1 DEF ShareOk
<1>4. SharesOk(q)
  BY <1>1, <1>3 DEF SharesOk
<1> QED  BY <1>2, <1>4

\* A place belongs to nobody, to a project that has a name or to one that has a link.
LEMMA ResolveKnown ==
    ASSUME NEW ns \in [Projects -> Keys \cup {None}], NEW ls, ls \subseteq Repos \X Projects, NEW place \in Places,
           Resolve(ns, ls, place) # None
    PROVE  /\ Resolve(ns, ls, place) \in Projects
           /\ ns[Resolve(ns, ls, place)] # None \/ Resolve(ns, ls, place) \in {l[2] : l \in ls}
<1> DEFINE u == Resolve(ns, ls, place)
           key == KeyOf[place]
<1>1. key \in Keys /\ key # None
  BY AttributionAssumption
<1>2. \A S : Claim(S, None) = None \/ Claim(S, None) \in S
  BY DEF Claim
<1>3. u \in Linked(ls, place) \/ u \in ByLinkKey(ls, key) \/ u \in ByName(ns, key)
  <2> HIDE DEF key
  <2>1. u = IF Linked(ls, place) # {} THEN Claim(Linked(ls, place), None)
            ELSE IF ByLinkKey(ls, key) # {} THEN Claim(ByLinkKey(ls, key), None)
            ELSE IF ByName(ns, key) # {} THEN Claim(ByName(ns, key), None)
            ELSE None
    BY Rungs DEF key
  <2> HIDE DEF u
  <2>2. u # None
    BY DEF u
  <2> QED  BY <1>2, <2>1, <2>2
<1>4. Linked(ls, place) \subseteq {l[2] : l \in ls} /\ ByLinkKey(ls, key) \subseteq {l[2] : l \in ls}
  BY DEF Linked, ByFullName, ByLinkKey
<1>5. {l[2] : l \in ls} \subseteq Projects
  OBVIOUS
<1>6. \A p \in ByName(ns, key) : p \in Projects /\ ns[p] # None
  BY <1>1 DEF ByName
<1> HIDE DEF u, key
<1> QED  BY <1>3, <1>4, <1>5, <1>6 DEF u

\* What a session's evidence becomes.
LEMMA SpansRead ==
    ASSUME ShapeOk(report), NEW items, Items(items)
    PROVE  /\ SpansOf(items) \subseteq SpanSet /\ IsFiniteSet(SpansOf(items))
           /\ \A x \in SpansOf(items) : x.project = None \/ x.project \in Known(report)
<1> DEFINE span == [i \in items |->
                      [project |-> Resolve(report.names, report.links, i.place), key |-> KeyOf[i.place],
                       from |-> IF i.kind = "commit" THEN i.at - LeadIn ELSE i.at, to |-> i.end]]
<1>1. SpansOf(items) = {span[i] : i \in items}
  BY DEF SpansOf
<1>2. ASSUME NEW i \in items
      PROVE  span[i] \in SpanSet /\ (span[i].project = None \/ span[i].project \in Known(report))
  <2>1. i.at \in Int /\ i.end \in Int /\ i.place \in Places /\ LeadIn \in Int
    BY AttributionAssumption DEF Items, IsItem
  <2>2. KeyOf[i.place] \in Keys
    BY <2>1, AttributionAssumption
  <2>3. PICK u : u = Resolve(report.names, report.links, i.place)
    OBVIOUS
  <2>4. u = None \/ (u \in Projects /\ (report.names[u] # None \/ u \in {l[2] : l \in report.links}))
    <3>1. report.names \in [Projects -> Keys \cup {None}] /\ report.links \subseteq Repos \X Projects
      BY DEF ShapeOk
    <3> QED  BY <2>1, <2>3, <3>1, ResolveKnown
  <2>5. u = None \/ u \in Known(report)
    BY <2>4 DEF Known
  <2>6. span[i] = [project |-> u, key |-> KeyOf[i.place],
                   from |-> IF i.kind = "commit" THEN i.at - LeadIn ELSE i.at, to |-> i.end]
    BY <2>3
  <2> HIDE DEF span
  <2> QED  BY <2>1, <2>2, <2>4, <2>5, <2>6 DEF SpanSet
<1> HIDE DEF span
<1>3. IsFiniteSet({span[i] : i \in items})
  BY FiniteImage DEF Items
<1> QED  BY <1>1, <1>2, <1>3

\* One more session done, one more share.
LEMMA ShareAdded ==
    ASSUME NEW r, ShapeOk(r), SharesOk(r), r.pc = "spans", NEW s \in r.todo, NEW h, h.session = s,
           NEW q, q = [r EXCEPT !.todo = @ \ {s}, !.shares = Append(@, h)], ShareOk(q, h)
    PROVE  ShapeOk(q) /\ SharesOk(q)
<1>1. DOMAIN r = DOMAIN NoReport
  BY DEF ShapeOk
<1>2. /\ q.todo = r.todo \ {s} /\ q.shares = Append(r.shares, h) /\ DOMAIN q = DOMAIN r
      /\ q.pc = r.pc /\ q.range = r.range /\ q.allowed = r.allowed /\ q.listed = r.listed /\ q.mode = r.mode
      /\ q.names = r.names /\ q.links = r.links
  BY <1>1 DEF NoReport
<1>3. CountedIn(q) = CountedIn(r) /\ Known(q) = Known(r) /\ \A x : SpanIn(q, x) = SpanIn(r, x)
  BY <1>2 DEF CountedIn, Known, SpanIn
<1>4. PICK S : r.shares \in Seq(S)
  BY DEF ShapeOk
<1>5. PICK len \in Nat : len = Len(r.shares) /\ DOMAIN r.shares = 1 .. len
  BY <1>4
<1>6. /\ r.shares \in Seq(S \cup {h}) /\ q.shares \in Seq(S \cup {h})
      /\ DOMAIN q.shares = 1 .. len + 1 /\ q.shares[len + 1] = h
      /\ \A n \in 1 .. len : q.shares[n] = r.shares[n]
  BY <1>2, <1>4, <1>5
<1>7. ShapeOk(q)
  BY <1>2, <1>3, <1>6 DEF ShapeOk
<1>8. s \in CountedIn(r)
  BY DEF ShapeOk
<1>9. \A n \in 1 .. len : ShareOk(r, r.shares[n]) /\ r.shares[n].session # s
  BY <1>5 DEF SharesOk, ShareOk
<1>10. ASSUME NEW n \in 1 .. len + 1 PROVE ShareOk(q, q.shares[n])
  <2>1. PICK k : k = q.shares[n]
    OBVIOUS
  <2>2. ShareOk(q, k)
    <3>1. CASE n = len + 1
      BY <1>6, <2>1, <3>1
    <3>2. CASE n \in 1 .. len
      <4>1. k = r.shares[n]
        BY <1>6, <2>1, <3>2
      <4>2. ShareOk(r, k)
        BY <1>9, <3>2, <4>1
      <4>3. k.session \in CountedIn(q) \ q.todo
        BY <1>2, <1>3, <4>2 DEF ShareOk
      <4> QED  BY <1>2, <1>3, <4>2, <4>3 DEF ShareOk
    <3> QED  BY <3>1, <3>2
  <2> QED  BY <2>1, <2>2, Zenon
<1>11. ASSUME NEW n \in 1 .. len + 1, NEW m \in 1 .. len + 1, q.shares[n].session = q.shares[m].session
       PROVE  n = m
  <2>1. \A i, j \in 1 .. len : r.shares[i].session = r.shares[j].session => i = j
    BY <1>5 DEF SharesOk
  <2>2. \A i \in 1 .. len + 1 : i \in 1 .. len \/ i = len + 1
    OBVIOUS
  <2> QED  BY <1>6, <1>9, <1>11, <2>1, <2>2
<1>12. ASSUME NEW x \in CountedIn(q) \ q.todo PROVE \E n \in 1 .. len + 1 : q.shares[n].session = x
  <2>1. CASE x = s
    <3>1. len + 1 \in 1 .. len + 1
      OBVIOUS
    <3> QED  BY <1>6, <2>1, <3>1
  <2>2. CASE x # s
    <3>1. x \in CountedIn(r) \ r.todo
      BY <1>2, <1>3, <2>2
    <3>2. PICK n \in 1 .. len : r.shares[n].session = x
      BY <1>5, <3>1 DEF SharesOk
    <3>3. n \in 1 .. len + 1
      OBVIOUS
    <3> QED  BY <1>6, <3>2, <3>3
  <2> QED  BY <2>1, <2>2
<1>13. q.pc = "spans"
  BY <1>2
<1>14. SharesOk(q)
  BY <1>6, <1>10, <1>11, <1>12, <1>13 DEF SharesOk
<1> QED  BY <1>7, <1>14

\* The statements of a report, and what may come between them.
LEMMA ListingStep ==
    ASSUME WorldInv, ReportInv, NEW mode, NEW r \in Ranges, NEW allowed \in Scopes, ListSessions(mode, r, allowed)
    PROVE  ReportInv'
<1> DEFINE listed == Listed(r, allowed)
           todo == {s \in Sids : listed[s].p # None}
<1>1. /\ report' = [NoReport EXCEPT !.pc = "projects", !.mode = mode, !.range = r, !.allowed = allowed,
                                   !.listed = listed, !.todo = todo]
      /\ UNCHANGED <<name, links, session>>
  BY DEF ListSessions, stored
<1>2. PICK q : q = report'
  OBVIOUS
<1>3. /\ q.pc = "projects" /\ q.mode = mode /\ q.range = r /\ q.allowed = allowed
      /\ q.listed = listed /\ q.todo = todo
      /\ q.names = NoReport.names /\ q.links = NoReport.links /\ q.shares = <<>>
      /\ DOMAIN q = DOMAIN NoReport
  <2> HIDE DEF listed, todo
  <2> QED  BY <1>1, <1>2 DEF NoReport
<1>4. r \in TimeRanges /\ r.from \in Int /\ r.to \in Int /\ r.from < r.to /\ allowed \subseteq Projects
  BY ReportsAssumption DEF IsRange, TimeRanges
<1>5. \A s \in Sids : session[s] \in SessionRows
  BY DEF WorldInv
<1>6. NoSession \in SessionRows
  BY DEF NoSession, SessionRows
<1>7. listed \in [Sids -> SessionRows]
  BY <1>5, <1>6 DEF Listed
<1>8. CountedIn(q) = todo
  BY <1>3 DEF CountedIn
<1>9. ASSUME NEW s \in todo
      PROVE  /\ listed[s].p \in allowed /\ listed[s].from < listed[s].to
             /\ SpanIn(q, listed[s]).from < SpanIn(q, listed[s]).to
  <2>1. /\ listed[s] = session[s] /\ session[s].from < r.to /\ session[s].to > r.from
        /\ session[s].p # None /\ session[s].p \in allowed
    BY DEF Listed, NoSession, Recorded
  <2>2. session[s].from \in Int /\ session[s].to \in Int /\ session[s].from < session[s].to
    BY <1>5, <2>1 DEF WorldInv, SessionRows
  <2> HIDE DEF listed
  <2>3. q.range.from = r.from /\ q.range.to = r.to
    BY <1>3
  <2> QED  BY <1>4, <2>1, <2>2, <2>3 DEF SpanIn, Larger, Smaller
<1>10. NoReport.names \in [Projects -> Keys \cup {None}] /\ NoReport.links \subseteq Repos \X Projects
  BY DEF NoReport
<1>11. <<>> \in Seq({}) /\ DOMAIN <<>> = {}
  OBVIOUS
<1>12. QuietInv'
  <2>1. Listed(r, allowed)' = Listed(r, allowed)
    BY <1>1 DEF Listed, Recorded
  <2>2. Listed(report.range, report.allowed)' = Listed(r, allowed)'
    BY <1>2, <1>3 DEF Listed, Recorded
  <2>3. report'.pc = "projects" /\ report'.listed = Listed(report.range, report.allowed)'
    BY <1>2, <1>3, <2>1, <2>2
  <2> QED  BY <2>3 DEF QuietInv
<1> HIDE DEF listed, todo
<1>13. ShapeOk(q)
  BY <1>3, <1>4, <1>7, <1>8, <1>9, <1>10, <1>11 DEF ShapeOk
<1>14. SharesOk(q)
  BY <1>3, <1>8, <1>11 DEF SharesOk
<1>15. ShapeOk(report') /\ SharesOk(report')
  BY <1>2, <1>13, <1>14
<1> QED  BY <1>12, <1>15 DEF ReportInv

LEMMA ReadingStep ==
    ASSUME WorldInv, ReportInv, ListProjects \/ ListReposForUser
    PROVE  ReportInv'
<1> USE DEF ReportInv
<1>1. DOMAIN report = DOMAIN NoReport /\ report.pc \in {"projects", "links"} /\ report.shares = <<>>
  BY DEF ShapeOk, SharesOk, ListProjects, ListReposForUser
<1>2. UNCHANGED <<name, links, session>>
  BY DEF ListProjects, ListReposForUser, stored
<1>3. LiveLinks' = LiveLinks
  BY <1>2 DEF LiveLinks
<1>4. LiveLinks \subseteq Repos \X Projects /\ name \in [Projects -> Keys \cup {None}]
  BY DEF WorldInv, LiveLinks
<1>5. PICK q : q = report'
  OBVIOUS
<1>6. ASSUME q.range = report.range, q.allowed = report.allowed, q.listed = report.listed, q.mode = report.mode, q.todo = report.todo,
             q.shares = <<>>, DOMAIN q = DOMAIN NoReport, q.pc # "answered",
             q.names \in [Projects -> Keys \cup {None}], q.links \subseteq Repos \X Projects
      PROVE  ShapeOk(q) /\ SharesOk(q)
  <2>1. CountedIn(q) = CountedIn(report) /\ \A s : SpanIn(q, s) = SpanIn(report, s)
    BY <1>6 DEF CountedIn, SpanIn
  <2>2. ShapeOk(q)
    BY <1>1, <1>6, <2>1 DEF ShapeOk
  <2>3. SharesOk(q)
    BY <1>1, <1>6, <2>1 DEF SharesOk
  <2> QED  BY <2>2, <2>3
<1>7. CASE ListProjects
  <2>1. q = [report EXCEPT !.pc = "links", !.names = name] /\ report.pc = "projects"
    BY <1>5, <1>7 DEF ListProjects
  <2>2. /\ q.range = report.range /\ q.allowed = report.allowed /\ q.listed = report.listed /\ q.mode = report.mode /\ q.todo = report.todo
        /\ q.shares = <<>> /\ DOMAIN q = DOMAIN NoReport /\ q.pc = "links" /\ q.names = name
        /\ q.links = report.links /\ q.quiet = report.quiet
    BY <1>1, <2>1 DEF NoReport
  <2>3. ShapeOk(q) /\ SharesOk(q)
    BY <1>4, <1>6, <2>2 DEF ShapeOk
  <2>4. report.quiet => report.listed = Listed(report.range, report.allowed)
    BY <2>1 DEF QuietInv
  <2>5. Listed(report.range, report.allowed)' = Listed(report.range, report.allowed)
    <3>1. report'.range = report.range /\ report'.allowed = report.allowed
      BY <1>5, <2>2
    <3> QED  BY <1>2, <3>1 DEF Listed, Recorded
  <2>6. QuietInv'
    BY <1>2, <1>5, <2>2, <2>4, <2>5 DEF QuietInv
  <2> QED  BY <1>5, <2>3, <2>6
<1>8. CASE ListReposForUser
  <2>1. q = [report EXCEPT !.pc = "spans", !.links = LiveLinks] /\ report.pc = "links"
    BY <1>5, <1>8 DEF ListReposForUser
  <2>2. /\ q.range = report.range /\ q.allowed = report.allowed /\ q.listed = report.listed /\ q.mode = report.mode /\ q.todo = report.todo
        /\ q.shares = <<>> /\ DOMAIN q = DOMAIN NoReport /\ q.pc = "spans" /\ q.names = report.names
        /\ q.links = LiveLinks /\ q.quiet = report.quiet
    BY <1>1, <2>1 DEF NoReport
  <2>3. ShapeOk(q) /\ SharesOk(q)
    BY <1>4, <1>6, <2>2 DEF ShapeOk
  <2>4. report.quiet => report.listed = Listed(report.range, report.allowed) /\ report.names = name
    BY <2>1 DEF QuietInv
  <2>5. Listed(report.range, report.allowed)' = Listed(report.range, report.allowed)
    <3>1. report'.range = report.range /\ report'.allowed = report.allowed
      BY <1>5, <2>2
    <3> QED  BY <1>2, <3>1 DEF Listed, Recorded
  <2>6. QuietInv'
    BY <1>2, <1>3, <1>5, <2>2, <2>4, <2>5 DEF QuietInv
  <2> QED  BY <1>5, <2>3, <2>6
<1> QED  BY <1>7, <1>8

LEMMA SharingStep ==
    ASSUME ClusterInv, ReportInv, NEW s \in Sids, SessionAttribution(s)
    PROVE  ReportInv'
<1> USE DEF ReportInv
<1>1. DOMAIN report = DOMAIN NoReport /\ report.pc = "spans" /\ s \in report.todo
  BY DEF ShapeOk, SessionAttribution
<1>2. UNCHANGED <<name, links, session>>
  BY DEF SessionAttribution, stored
<1>3. PICK read : read = SpansOf(EvidenceOf(s))
  OBVIOUS
<1>4. PICK l : l = report.listed[s]
  OBVIOUS
<1>5. PICK span : span = SpanIn(report, l) /\ span = ClippedRange(l)
  BY DEF SpanIn, ClippedRange
<1>6. PICK h : h = [session |-> s, declared |-> l.p, from |-> span.from, to |-> span.to, spans |-> read,
                    allocs |-> Apportion(l.p, span.from, span.to, read),
                    places |-> Unresolved(span.from, span.to, read)]
  OBVIOUS
<1>7. PICK q : q = report'
  OBVIOUS
<1>8. q = [report EXCEPT !.todo = @ \ {s}, !.shares = Append(@, h)]
  BY <1>3, <1>4, <1>5, <1>6, <1>7 DEF SessionAttribution
<1>9. /\ q.todo = report.todo \ {s} /\ q.allowed = report.allowed /\ q.listed = report.listed /\ q.mode = report.mode /\ q.range = report.range
      /\ q.names = report.names /\ q.links = report.links /\ q.pc = "spans" /\ q.quiet = report.quiet
  BY <1>1, <1>8 DEF NoReport
<1>10. /\ h.session = s /\ h.declared = l.p /\ h.from = span.from /\ h.to = span.to /\ h.spans = read
       /\ h.allocs = Apportion(h.declared, h.from, h.to, h.spans)
       /\ h.places = Unresolved(h.from, h.to, h.spans)
  BY <1>6
<1>11. EvidenceOf(s) \subseteq evidence
  BY DEF EvidenceOf
<1>12. Items(EvidenceOf(s))
  BY <1>11, SomeItems DEF ClusterInv
<1>13. /\ read \subseteq SpanSet /\ IsFiniteSet(read)
       /\ \A x \in read : x.project = None \/ x.project \in Known(report)
  BY <1>3, <1>12, SpansRead
<1>14. ShareOk(q, h)
  <2>1. CountedIn(q) = CountedIn(report) /\ Known(q) = Known(report) /\ SpanIn(q, l) = SpanIn(report, l)
    BY <1>9 DEF CountedIn, Known, SpanIn
  <2>2. s \in CountedIn(report) /\ q.listed[s] = l
    BY <1>1, <1>4, <1>9 DEF ShapeOk
  <2> QED  BY <1>5, <1>9, <1>10, <1>13, <2>1, <2>2 DEF ShareOk
<1>15. ShapeOk(q) /\ SharesOk(q)
  BY <1>1, <1>8, <1>10, <1>14, ShareAdded
<1>16. QuietInv'
  <2>1. report.quiet => /\ report.listed = Listed(report.range, report.allowed) /\ report.names = name
                        /\ report.links = LiveLinks
    BY <1>1 DEF QuietInv
  <2>2. Listed(report.range, report.allowed)' = Listed(report.range, report.allowed) /\ LiveLinks' = LiveLinks
    <3>1. report'.range = report.range /\ report'.allowed = report.allowed
      BY <1>7, <1>9
    <3> QED  BY <1>2, <3>1 DEF Listed, Recorded, LiveLinks
  <2> QED  BY <1>2, <1>7, <1>9, <2>1, <2>2 DEF QuietInv
<1> QED  BY <1>7, <1>15, <1>16

LEMMA AnsweringStep ==
    ASSUME ReportInv, Respond
    PROVE  ReportInv'
<1> USE DEF ReportInv
<1>1. DOMAIN report = DOMAIN NoReport /\ report.pc = "spans" /\ report.todo = {}
  BY DEF ShapeOk, Respond
<1>2. UNCHANGED <<name, links, session>>
  BY DEF Respond, stored
<1>3. PICK q : q = report'
  OBVIOUS
<1>4. q = [report EXCEPT !.pc = "answered"]
  BY <1>3 DEF Respond
<1>5. /\ DOMAIN q = DOMAIN report /\ q.pc = "answered"
      /\ q.todo = report.todo /\ q.listed = report.listed /\ q.mode = report.mode /\ q.range = report.range
      /\ q.names = report.names /\ q.links = report.links /\ q.quiet = report.quiet /\ q.shares = report.shares
      /\ q.allowed = report.allowed
  BY <1>1, <1>4 DEF NoReport
<1>6. ShapeOk(q) /\ SharesOk(q)
  BY <1>1, <1>5, ReportSame
<1>7. QuietInv'
  <2>1. report.quiet => /\ report.listed = Listed(report.range, report.allowed) /\ report.names = name
                        /\ report.links = LiveLinks
    BY <1>1 DEF QuietInv
  <2>2. Listed(report.range, report.allowed)' = Listed(report.range, report.allowed) /\ LiveLinks' = LiveLinks
    <3>1. report'.range = report.range /\ report'.allowed = report.allowed
      BY <1>3, <1>5
    <3> QED  BY <1>2, <3>1 DEF Listed, Recorded, LiveLinks
  <2> QED  BY <1>2, <1>3, <1>5, <2>1, <2>2 DEF QuietInv
<1> QED  BY <1>3, <1>6, <1>7

LEMMA ReportStep == ClusterInv /\ WorldInv /\ ReportInv /\ [Next]_vars => ReportInv'
<1> SUFFICES ASSUME ClusterInv, WorldInv, ReportInv, [Next]_vars PROVE ReportInv'
  OBVIOUS
<1>1. ASSUME report' = report, UNCHANGED <<name, links, session>> PROVE ReportInv'
  <2>1. QuietInv'
    BY <1>1 DEF ReportInv, QuietInv, Listed, Recorded, LiveLinks
  <2>2. ShapeOk(report') /\ SharesOk(report')
    BY <1>1 DEF ReportInv
  <2> QED  BY <2>1, <2>2 DEF ReportInv
<1>2. ASSUME Change PROVE ReportInv'
  <2>1. PICK q : q = report'
    OBVIOUS
  <2>2. q = [report EXCEPT !.quiet = FALSE] /\ DOMAIN report = DOMAIN NoReport
    BY <1>2, <2>1 DEF Change, ReportInv, ShapeOk
  <2>3. /\ DOMAIN q = DOMAIN report /\ q.pc = report.pc /\ q.quiet = FALSE
        /\ q.todo = report.todo /\ q.listed = report.listed /\ q.mode = report.mode /\ q.range = report.range
        /\ q.names = report.names /\ q.links = report.links /\ q.shares = report.shares
        /\ q.allowed = report.allowed
    BY <2>2 DEF NoReport
  <2>4. /\ report.pc = "answered" => report.todo = {}
        /\ report.pc \notin {"spans", "answered"} => report.shares = <<>>
    BY DEF ReportInv, ShapeOk, SharesOk
  <2>5. ShapeOk(q) /\ SharesOk(q)
    BY <2>3, <2>4, ReportSame DEF ReportInv
  <2>6. QuietInv'
    BY <2>1, <2>3 DEF QuietInv
  <2> QED  BY <2>1, <2>5, <2>6 DEF ReportInv
<1>3. ASSUME NEW mode, NEW r \in Ranges, NEW allowed \in Scopes, ListSessions(mode, r, allowed) PROVE ReportInv'
  BY <1>3, ListingStep
<1>4. CASE ListProjects \/ ListReposForUser
  BY <1>4, ReadingStep
<1>5. ASSUME NEW s \in Sids, SessionAttribution(s) PROVE ReportInv'
  BY <1>5, SharingStep
<1>6. CASE Respond
  BY <1>6, AnsweringStep
<1> QED
  BY <1>1, <1>2, <1>3, <1>4, <1>5, <1>6 DEF Next, vars, stored, ListUnmatchedCommits, UnmatchedClusters,
        SessionFromCluster, LinkRepo, RenameProject, CountSessionsForProject, SoftDeleteProject,
        EditSession, DeleteSession

-------------------------------------------------------------------------------
(* What the lines of a report add up to.                                   *)

\* Every second of a share is some project's.
LEMMA SplitUp ==
    ASSUME NEW h, IsFiniteSet(h.allocs), \A a \in h.allocs : a.project \in Projects /\ a.seconds \in Nat,
           NEW f, \A p \in Projects : f[p] = ToProject(p, h)
    PROVE  /\ \A p \in Projects : f[p] \in Nat
           /\ SumFunctionOnSet(f, Projects) = SumFunction([a \in h.allocs |-> a.seconds])
<1> DEFINE A == h.allocs
           row == [p \in Projects |-> [a \in A |-> IF a.project = p THEN a.seconds ELSE 0]]
           col == [a \in A |-> [p \in Projects |-> IF a.project = p THEN a.seconds ELSE 0]]
           secs == [a \in A |-> a.seconds]
<1>0. IsFiniteSet(Projects) /\ IsFiniteSet(A)
  BY AttributionAssumption
<1>1. \A p \in Projects, a \in A : row[p][a] \in Nat /\ col[a][p] = row[p][a]
  OBVIOUS
<1>2. \A p \in Projects : f[p] = SumFunctionOnSet(row[p], A)
  BY DEF ToProject, SumFunction
<1>3. ASSUME NEW a \in A PROVE secs[a] = SumFunctionOnSet(col[a], Projects)
  <2>1. /\ a.project \in Projects /\ col[a][a.project] = a.seconds /\ a.seconds \in Int
        /\ \A p \in Projects \ {a.project} : col[a][p] = 0
    OBVIOUS
  <2>2. secs[a] = a.seconds
    OBVIOUS
  <2> HIDE DEF col, secs
  <2>3. SumFunctionOnSet(col[a], Projects) = col[a][a.project]
    BY <1>0, <2>1, SumPick
  <2> QED  BY <2>1, <2>2, <2>3
<1>4. SumFunction([a \in h.allocs |-> a.seconds]) = SumFunctionOnSet(secs, A)
  BY DEF SumFunction
<1> HIDE DEF row, col, secs, A
<1>5. \A p \in Projects : f[p] \in Nat
  BY <1>0, <1>1, <1>2, SumNat
<1>6. Turned(row, col, Projects, A)
  BY <1>1 DEF Turned
<1>7. SumsOf(f, row, Projects, A) /\ SumsOf(secs, col, A, Projects)
  BY <1>2, <1>3 DEF SumsOf
<1>8. SumFunctionOnSet(f, Projects) = SumFunctionOnSet(secs, A)
  BY <1>0, <1>6, <1>7, SumSwap
<1> QED  BY <1>4, <1>5, <1>8

\* Lines that are left out are what is missing.
LeftOut(line, row, D, P, N) ==
    \A p \in P : line[p] = IF p \in D THEN 0 ELSE SumFunctionOnSet(row[p], N)

LEMMA LinesAddUp ==
    ASSUME NEW P, IsFiniteSet(P), NEW N, IsFiniteSet(N), NEW D, D \subseteq P,
           NEW row, NEW col, Turned(row, col, P, N),
           NEW line, LeftOut(line, row, D, P, N),
           NEW drop, SumsOf(drop, col, N, D), NEW all, SumsOf(all, col, N, P)
    PROVE  SumFunctionOnSet(line, P) + SumFunctionOnSet(drop, N) = SumFunctionOnSet(all, N)
<1> DEFINE R == P \ D
           kept == [n \in N |-> SumFunctionOnSet(col[n], R)]
<1>1. IsFiniteSet(R) /\ IsFiniteSet(D) /\ R \subseteq P /\ R \cap D = {} /\ R \cup D = P
  BY FS_Subset
<1>2. \A n \in N : kept[n] = SumFunctionOnSet(col[n], R)
  OBVIOUS
<1>3. \A p \in P : p \notin R => p \in D
  OBVIOUS
<1>8. \A p \in P, n \in N : row[p][n] \in Int /\ col[n][p] = row[p][n] /\ col[n][p] \in Int
  BY DEF Turned
<1> HIDE DEF R, kept
<1>4. SumFunctionOnSet(line, P) = SumFunctionOnSet(line, R)
  <2>1. \A p \in P : SumFunctionOnSet(row[p], N) \in Int
    BY <1>8, SumInt
  <2>2. \A p \in P : line[p] \in Int /\ (p \notin R => line[p] = 0)
    BY <1>3, <2>1 DEF LeftOut
  <2> QED  BY <1>1, <2>2, SumPart
<1>5. SumFunctionOnSet(line, R) = SumFunctionOnSet(kept, N)
  <2>1. Turned(row, col, R, N)
    BY <1>1 DEF Turned
  <2>2. SumsOf(line, row, R, N)
    BY <1>1 DEF SumsOf, LeftOut
  <2>3. SumsOf(kept, col, N, R)
    BY <1>2 DEF SumsOf
  <2> QED  BY <1>1, <2>1, <2>2, <2>3, SumSwap
<1>6. ASSUME NEW n \in N PROVE kept[n] \in Int /\ drop[n] \in Int /\ all[n] = kept[n] + drop[n]
  <2>1. \A p \in P : col[n][p] \in Int
    BY <1>8
  <2>2. SumFunctionOnSet(col[n], R \cup D) = SumFunctionOnSet(col[n], R) + SumFunctionOnSet(col[n], D)
    BY <1>1, <2>1, SumTwo
  <2>3. SumFunctionOnSet(col[n], R) \in Int /\ SumFunctionOnSet(col[n], D) \in Int
    BY <1>1, <2>1, SumInt
  <2>4. drop[n] = SumFunctionOnSet(col[n], D) /\ all[n] = SumFunctionOnSet(col[n], P)
    BY DEF SumsOf
  <2> QED  BY <1>1, <1>2, <2>2, <2>3, <2>4
<1>7. SumFunctionOnSet(all, N) = SumFunctionOnSet(kept, N) + SumFunctionOnSet(drop, N)
  BY <1>6, SumPlus
<1> QED  BY <1>4, <1>5, <1>7

\* Rounding is off by half a second at most.
LEMMA RoundedNear ==
    ASSUME NEW t \in Int
    PROVE  Rounded(t) \in Int /\ 2 * (Second * Rounded(t) - t) <= Second /\ 2 * (t - Second * Rounded(t)) <= Second
<1> DEFINE k == Second
           half == Second \div 2
           n == t + half
<1>1. k \in Nat \ {0} /\ k % 2 = 0
  BY AttributionAssumption
<1>2. half \in Int /\ 2 * half = k
  BY <1>1
<1>3. Rounded(t) = n \div k
  BY DEF Rounded
<1>4. PICK q : q = n \div k
  OBVIOUS
<1>5. n \in Int
  BY <1>2
<1> HIDE DEF half
<1>6. q \in Int /\ n % k \in 0 .. k - 1 /\ n = k * q + (n % k)
  BY <1>1, <1>4, <1>5, Division
<1>7. PICK r : r = n % k
  OBVIOUS
<1>8. PICK m : m = k * q
  OBVIOUS
<1>9. r \in Int /\ 0 <= r /\ r <= k - 1 /\ m \in Int /\ t + half = m + r
  BY <1>1, <1>6, <1>7, <1>8
<1>10. 2 * (m - t) <= k /\ 2 * (t - m) <= k
  BY <1>1, <1>2, <1>9
<1> QED  BY <1>3, <1>4, <1>6, <1>8, <1>10

\* So the rounding of each comes to half a second each.
LEMMA RoundedSums ==
    ASSUME NEW S, IsFiniteSet(S), NEW x, \A s \in S : x[s] \in Int,
           NEW y, \A s \in S : y[s] = Rounded(x[s])
    PROVE  /\ SumFunctionOnSet(x, S) \in Int /\ SumFunctionOnSet(y, S) \in Int
           /\ 2 * (Second * SumFunctionOnSet(y, S) - SumFunctionOnSet(x, S)) <= Second * Cardinality(S)
           /\ 2 * (SumFunctionOnSet(x, S) - Second * SumFunctionOnSet(y, S)) <= Second * Cardinality(S)
<1> DEFINE e == [s \in S |-> Second * y[s]]
           u == [s \in S |-> 2 * (Second * y[s] - x[s])]
           dif == [s \in S |-> Second * y[s] - x[s]]
           neg == [s \in S |-> -1 * x[s]]
           most == [s \in S |-> Second]
           v == [s \in S |-> -1 * u[s]]
<1>1. \A s \in S : y[s] \in Int /\ 2 * (Second * y[s] - x[s]) <= Second /\ 2 * (x[s] - Second * y[s]) <= Second
  BY RoundedNear
<1>2. Second \in Int
  BY AttributionAssumption
<1>3. \A s \in S : /\ e[s] = Second * y[s] /\ e[s] \in Int /\ neg[s] = -1 * x[s] /\ neg[s] \in Int
                   /\ dif[s] = e[s] + neg[s] /\ dif[s] \in Int /\ u[s] = 2 * dif[s] /\ u[s] \in Int
                   /\ v[s] = -1 * u[s] /\ v[s] \in Int /\ u[s] <= most[s] /\ v[s] <= most[s] /\ most[s] = Second
  BY <1>1, <1>2
<1> HIDE DEF e, u, dif, neg, most, v
<1>4. PICK X, Y, E, U, W, G, M, V :
        /\ X = SumFunctionOnSet(x, S) /\ Y = SumFunctionOnSet(y, S) /\ E = SumFunctionOnSet(e, S)
        /\ U = SumFunctionOnSet(u, S) /\ W = SumFunctionOnSet(dif, S) /\ G = SumFunctionOnSet(neg, S)
        /\ M = SumFunctionOnSet(most, S) /\ V = SumFunctionOnSet(v, S)
  OBVIOUS
<1>5. X \in Int /\ Y \in Int
  BY <1>1, <1>4, SumInt
<1>6. E = Second * Y
  BY <1>1, <1>2, <1>3, <1>4, SumTimes
<1>7. G = -1 * X
  <2>1. PICK k \in Int : k = -1
    OBVIOUS
  <2>2. \A s \in S : x[s] \in Int /\ neg[s] = k * x[s]
    BY <1>3, <2>1
  <2>3. G = k * X
    <3> HIDE <2>1
    <3> QED  BY <1>4, <2>2, SumTimes
  <2> QED  BY <1>5, <2>1, <2>3
<1>8. W = E + G
  BY <1>3, <1>4, SumPlus
<1>9. U = 2 * W
  <2>1. \A s \in S : dif[s] \in Int /\ u[s] = 2 * dif[s]
    BY <1>3
  <2> QED  BY <1>4, <2>1, SumTimes
<1>10. V = -1 * U
  <2>1. PICK k \in Int : k = -1
    OBVIOUS
  <2>2. \A s \in S : u[s] \in Int /\ v[s] = k * u[s]
    BY <1>3, <2>1
  <2>3. V = k * U
    <3> HIDE <2>1
    <3> QED  BY <1>4, <2>2, SumTimes
  <2>4. U \in Int
    BY <1>3, <1>4, SumInt
  <2> QED  BY <2>1, <2>3, <2>4
<1>11. U <= M /\ V <= M
  <2>0. /\ \A s \in S : u[s] \in Int /\ most[s] \in Int /\ u[s] <= most[s]
        /\ \A s \in S : v[s] \in Int /\ most[s] \in Int /\ v[s] <= most[s]
    BY <1>2, <1>3
  <2>1. U <= M
    BY <1>4, <2>0, SumLeq
  <2>2. V <= M
    BY <1>4, <2>0, SumLeq
  <2> QED  BY <2>1, <2>2
<1>12. M = Second * Cardinality(S)
  BY <1>2, <1>3, <1>4, SumConstant
<1>13. PICK N : N = Second * Y
  OBVIOUS
<1>14. N \in Int
  BY <1>2, <1>5, <1>13
<1>15. 2 * (N - X) <= M /\ 2 * (X - N) <= M
  <2>1. U = 2 * (N - X)
    BY <1>5, <1>6, <1>7, <1>8, <1>9, <1>13, <1>14
  <2>2. V = 2 * (X - N)
    BY <1>5, <1>10, <1>14, <2>1
  <2> QED  BY <1>11, <2>1, <2>2
<1> QED  BY <1>4, <1>5, <1>12, <1>13, <1>15

\* What a share hands out.
LEMMA ShareGiven ==
    ASSUME NEW r, ShapeOk(r), SharesOk(r), NEW n \in DOMAIN r.shares, NEW h, h = r.shares[n]
    PROVE  /\ h.session \in CountedIn(r) /\ h.declared \in Projects /\ h.from \in Int /\ h.to \in Int /\ h.from < h.to
           /\ h.spans \subseteq SpanSet /\ IsFiniteSet(h.spans)
           /\ IsFiniteSet(h.allocs)
           /\ \A a \in h.allocs : a.project \in Projects /\ a.seconds \in Nat \ {0}
           /\ SumFunction([a \in h.allocs |-> a.seconds]) = Rounded(h.to - h.from)
<1>1. ShareOk(r, h)
  BY DEF SharesOk
<1>2. PICK s \in CountedIn(r) : s = h.session
  BY <1>1 DEF ShareOk
<1>3. PICK l : l = r.listed[s]
  OBVIOUS
<1>4. l \in SessionRows /\ l.p # None /\ l.p \in Projects
  BY <1>3 DEF ShapeOk, CountedIn, SessionRows
<1>5. PICK span : span = SpanIn(r, l)
  OBVIOUS
<1>6. span.from < span.to
  BY <1>3, <1>5 DEF ShapeOk
<1>7. r.range \in TimeRanges
  BY DEF ShapeOk
<1>8. span.from \in Int /\ span.to \in Int
  BY <1>4, <1>5, <1>7 DEF SpanIn, SessionRows, TimeRanges, Larger, Smaller
<1>9. h.declared = l.p /\ h.from = span.from /\ h.to = span.to
  BY <1>1, <1>2, <1>3, <1>5 DEF ShareOk
<1>10. h.spans \subseteq SpanSet /\ IsFiniteSet(h.spans) /\ h.allocs = Apportion(h.declared, h.from, h.to, h.spans)
  BY <1>1 DEF ShareOk
<1>11. h.declared \in Projects /\ h.from \in Int /\ h.to \in Int /\ h.from < h.to
  BY <1>4, <1>6, <1>8, <1>9
<1>12. /\ IsFiniteSet(h.allocs)
       /\ \A a \in h.allocs : a.project \in Projects /\ a.seconds \in Nat \ {0}
       /\ SumFunction([a \in h.allocs |-> a.seconds]) = IF h.to > h.from THEN Rounded(h.to - h.from) ELSE 0
  BY <1>10, <1>11, ApportionAddsUp
<1>13. h.to > h.from
  BY <1>11
<1> QED  BY <1>2, <1>10, <1>11, <1>12, <1>13

\* Quiet time goes to the project that was declared, the rest to one that evidence names.
LEMMA AllocProjects ==
    ASSUME NEW declared, NEW lo, NEW hi, NEW spans, NEW a \in Apportion(declared, lo, hi, spans)
    PROVE  IF a.evidenced THEN \E x \in spans : x.project = a.project /\ x.project # None
           ELSE a.project = declared
<1> DEFINE C == Owned(spans, lo, hi)
           parts == PartsOf(declared, C)
<1>1. PICK x \in parts : a.project = x[1] /\ a.evidenced = x[2]
  <2> DEFINE secs == WholeSeconds(parts, MicrosOf(declared, C, Segments(C, lo, hi)), hi - lo)
  <2>1. ~(hi <= lo) /\ Apportion(declared, lo, hi, spans)
          = {[project |-> x[1], evidenced |-> x[2], seconds |-> secs[x]] : x \in {y \in parts : secs[y] > 0}}
    BY ApportionIs
  <2> HIDE DEF secs, parts
  <2> QED  BY <2>1
<1>2. CASE x = <<declared, FALSE>>
  BY <1>1, <1>2
<1>3. CASE \E s \in C : x = <<s.project, TRUE>>
  <2>1. PICK s \in C : x = <<s.project, TRUE>>
    BY <1>3
  <2>2. s \in Clipped(spans, lo, hi) /\ s.project # None
    BY DEF Owned
  <2>3. PICK y \in spans : s = [y EXCEPT !.from = Larger(@, lo), !.to = Smaller(@, hi)]
    BY <2>2 DEF Clipped
  <2>4. s.project = y.project
    BY <2>3
  <2> QED  BY <1>1, <2>1, <2>2, <2>4
<1> QED  BY <1>2, <1>3 DEF PartsOf

\* The shares by their sessions: each listed session's counted part, rounded.
LEMMA SharesCount ==
    ASSUME NEW r, ShapeOk(r), SharesOk(r), r.todo = {},
           NEW all, \A n \in DOMAIN r.shares : all[n] = Rounded(r.shares[n].to - r.shares[n].from),
           NEW f, \A s \in CountedIn(r) : f[s] = Rounded(SpanIn(r, r.listed[s]).to - SpanIn(r, r.listed[s]).from)
    PROVE  /\ IsFiniteSet(DOMAIN r.shares) /\ IsFiniteSet(CountedIn(r))
           /\ \A n \in DOMAIN r.shares : all[n] \in Int
           /\ SumFunctionOnSet(f, CountedIn(r)) = SumFunctionOnSet(all, DOMAIN r.shares)
<1> DEFINE N == DOMAIN r.shares
           m == [n \in N |-> r.shares[n].session]
<1>1. PICK S : r.shares \in Seq(S)
  BY DEF ShapeOk
<1>2. PICK len \in Nat : N = 1 .. len
  BY <1>1
<1>3. IsFiniteSet(1 .. len)
  BY FS_Interval
<1>4. IsFiniteSet(N)
  BY <1>2, <1>3
<1>5. IsFiniteSet(CountedIn(r))
  BY ReportsAssumption, FS_Subset DEF CountedIn
<1>6. \A n \in N : ShareOk(r, r.shares[n])
  BY DEF SharesOk
<1>7. ASSUME NEW n \in N PROVE m[n] \in CountedIn(r) /\ f[m[n]] = all[n] /\ all[n] \in Int
  <2>1. PICK h : h = r.shares[n]
    OBVIOUS
  <2>2. m[n] = h.session /\ all[n] = Rounded(h.to - h.from)
    BY <2>1
  <2>3. /\ h.session \in CountedIn(r)
        /\ h.from = SpanIn(r, r.listed[h.session]).from /\ h.to = SpanIn(r, r.listed[h.session]).to
    BY <1>6, <2>1 DEF ShareOk
  <2>4. h.from \in Int /\ h.to \in Int
    BY <2>1, ShareGiven
  <2>5. h.to - h.from \in Int
    BY <2>4
  <2>6. Rounded(h.to - h.from) \in Int
    BY <2>5, RoundedNear
  <2> HIDE DEF m
  <2> QED  BY <2>2, <2>3, <2>6
<1>8. \A x, y \in N : m[x] = m[y] => x = y
  BY DEF SharesOk
<1>9. {m[n] : n \in N} = CountedIn(r)
  <2>1. \A s \in CountedIn(r) : \E n \in N : m[n] = s
    BY DEF SharesOk
  <2> HIDE DEF m, N
  <2> QED  BY <1>7, <2>1
<1> HIDE DEF m, N
<1>10. \A n \in N : all[n] \in Int /\ f[m[n]] = all[n]
  BY <1>7
<1>11. SumFunctionOnSet(f, {m[n] : n \in N}) = SumFunctionOnSet(all, N)
  BY <1>4, <1>8, <1>10, SumImage
<1>12. SumFunctionOnSet(f, {m[n] : n \in N}) = SumFunctionOnSet(f, CountedIn(r))
  BY <1>9
<1> QED  BY <1>4, <1>5, <1>10, <1>11, <1>12 DEF N

Counted      == CountedIn(report)
InsideOf(s)  == SpanIn(report, report.listed[s]).to - SpanIn(report, report.listed[s]).from
Unshown      == {p \in Projects : ~Shown(p)}
LinesSum     == SumFunction([p \in Projects |-> Line(p)])
DroppedSum   == SumFunction([n \in DOMAIN report.shares |->
                    SumFunction([p \in Unshown |-> ToProject(p, report.shares[n])])])
DeclaredSum  == SumFunction([p \in report.allowed |-> SummaryByProject(p, report.range)])

\* All of it is on a line or was dropped.
LEMMA AllCounted ==
    ASSUME ReportInv, report.pc = "answered"
    PROVE  LinesSum + DroppedSum = SumFunction([s \in Counted |-> Rounded(InsideOf(s))])
<1> DEFINE N == DOMAIN report.shares
           row == [p \in Projects |-> [n \in N |-> ToProject(p, report.shares[n])]]
           col == [n \in N |-> [p \in Projects |-> ToProject(p, report.shares[n])]]
           line == [p \in Projects |-> Line(p)]
           drop == [n \in N |-> SumFunction([p \in Unshown |-> ToProject(p, report.shares[n])])]
           all == [n \in N |-> Rounded(report.shares[n].to - report.shares[n].from)]
           f == [s \in Counted |-> Rounded(InsideOf(s))]
<1>1. ShapeOk(report) /\ SharesOk(report) /\ report.todo = {}
  BY DEF ReportInv, ShapeOk
<1>2. /\ IsFiniteSet(N) /\ IsFiniteSet(Counted) /\ \A n \in N : all[n] \in Int
      /\ SumFunctionOnSet(f, Counted) = SumFunctionOnSet(all, N)
  <2>1. /\ \A n \in N : all[n] = Rounded(report.shares[n].to - report.shares[n].from)
        /\ \A s \in CountedIn(report) :
              f[s] = Rounded(SpanIn(report, report.listed[s]).to - SpanIn(report, report.listed[s]).from)
    BY DEF Counted, InsideOf
  <2> HIDE DEF all, f
  <2> QED  BY <1>1, <2>1, SharesCount DEF Counted
<1>3. IsFiniteSet(Projects) /\ Unshown \subseteq Projects /\ IsFiniteSet(Unshown)
  BY AttributionAssumption, FS_Subset DEF Unshown
<1>4. ASSUME NEW n \in N
      PROVE  (\A p \in Projects : col[n][p] \in Nat) /\ all[n] = SumFunctionOnSet(col[n], Projects)
  <2>1. PICK h : h = report.shares[n]
    OBVIOUS
  <2>2. PICK c : c = col[n]
    OBVIOUS
  <2>3. \A p \in Projects : c[p] = ToProject(p, h)
    BY <2>1, <2>2
  <2>4. /\ IsFiniteSet(h.allocs) /\ \A a \in h.allocs : a.project \in Projects /\ a.seconds \in Nat \ {0}
        /\ SumFunction([a \in h.allocs |-> a.seconds]) = Rounded(h.to - h.from)
    BY <1>1, <2>1, ShareGiven
  <2>5. \A a \in h.allocs : a.project \in Projects /\ a.seconds \in Nat
    BY <2>4
  <2>6. /\ \A p \in Projects : c[p] \in Nat
        /\ SumFunctionOnSet(c, Projects) = SumFunction([a \in h.allocs |-> a.seconds])
    BY <2>3, <2>4, <2>5, SplitUp
  <2>7. all[n] = Rounded(h.to - h.from)
    BY <2>1
  <2> HIDE DEF all, col
  <2> QED  BY <2>2, <2>4, <2>6, <2>7
<1>5. Turned(row, col, Projects, N)
  <2>1. \A p \in Projects, n \in N : col[n][p] = row[p][n]
    OBVIOUS
  <2> HIDE DEF row, col, N
  <2> QED  BY <1>4, <2>1 DEF Turned
<1>6. LeftOut(line, row, Unshown, Projects, N)
  <2>1. ASSUME NEW p \in Projects
        PROVE  line[p] = IF p \in Unshown THEN 0 ELSE SumFunctionOnSet(row[p], N)
    <3>1. line[p] = Line(p) /\ row[p] = [n \in DOMAIN report.shares |-> ToProject(p, report.shares[n])]
      OBVIOUS
    <3> HIDE DEF line, row, N
    <3>2. DOMAIN row[p] = N
      BY <3>1 DEF N
    <3>3. Line(p) = IF Shown(p) THEN SumFunction(row[p]) ELSE 0
      BY <3>1 DEF Line
    <3> QED  BY <3>1, <3>2, <3>3 DEF Unshown, SumFunction
  <2> HIDE DEF line, row, N
  <2> QED  BY <2>1 DEF LeftOut
<1>7. SumsOf(drop, col, N, Unshown)
  <2>1. ASSUME NEW n \in N PROVE drop[n] = SumFunctionOnSet(col[n], Unshown)
    <3> DEFINE part == [p \in Unshown |-> ToProject(p, report.shares[n])]
    <3>1. drop[n] = SumFunctionOnSet(part, Unshown)
      BY DEF SumFunction
    <3>2. \A p \in Unshown : part[p] = col[n][p]
      BY <1>3
    <3> HIDE DEF part, drop, col, N
    <3> QED  BY <1>3, <3>1, <3>2, SumSame
  <2> HIDE DEF drop, col, N
  <2> QED  BY <2>1 DEF SumsOf
<1>8. SumsOf(all, col, N, Projects)
  BY <1>4 DEF SumsOf
<1>9. /\ LinesSum = SumFunctionOnSet(line, Projects) /\ DroppedSum = SumFunctionOnSet(drop, N)
      /\ SumFunction([s \in Counted |-> Rounded(InsideOf(s))]) = SumFunctionOnSet(f, Counted)
  BY DEF LinesSum, DroppedSum, SumFunction
<1> HIDE DEF N, row, col, line, drop, all, f
<1>10. SumFunctionOnSet(line, Projects) + SumFunctionOnSet(drop, N) = SumFunctionOnSet(all, N)
  BY <1>2, <1>3, <1>5, <1>6, <1>7, <1>8, LinesAddUp
<1> QED  BY <1>2, <1>9, <1>10

\* Who goes without a line.
UnshownWhy ==
    \A n \in DOMAIN report.shares : \A a \in report.shares[n].allocs :
        ~Shown(a.project) => IF a.evidenced THEN a.project \notin report.allowed
                             ELSE report.names[report.shares[n].declared] = None

\* Undisturbed, evidence names projects that are there, and sessions are listed for the token's.
LEMMA WhyUnshown ==
    ASSUME ReportInv, report.pc = "answered", report.quiet
    PROVE  UnshownWhy
<1>1. /\ ShapeOk(report) /\ SharesOk(report)
      /\ report.names = name /\ report.links = LiveLinks
  BY DEF ReportInv, QuietInv
<1>2. \A p \in Known(report) : report.names[p] # None
  BY <1>1 DEF Known, LiveLinks
<1> SUFFICES ASSUME NEW n \in DOMAIN report.shares, NEW a \in report.shares[n].allocs, ~Shown(a.project)
             PROVE  IF a.evidenced THEN a.project \notin report.allowed
                    ELSE report.names[report.shares[n].declared] = None
  BY DEF UnshownWhy
<1>3. PICK h : h = report.shares[n]
  OBVIOUS
<1>4. ShareOk(report, h)
  BY <1>1, <1>3 DEF SharesOk
<1>5. h.declared \in report.allowed
  <2>1. PICK s : s = h.session
    OBVIOUS
  <2>2. s \in CountedIn(report) /\ h.declared = report.listed[s].p
    BY <1>4, <2>1 DEF ShareOk
  <2> QED  BY <1>1, <2>2 DEF ShapeOk
<1>6. IF a.evidenced THEN \E x \in h.spans : x.project = a.project /\ x.project # None
      ELSE a.project = h.declared
  <2>1. a \in Apportion(h.declared, h.from, h.to, h.spans)
    BY <1>3, <1>4 DEF ShareOk
  <2> QED  BY <2>1, AllocProjects
<1>7. CASE a.evidenced
  <2>1. a.project \in Known(report)
    BY <1>4, <1>6, <1>7 DEF ShareOk
  <2> QED  BY <1>2, <1>7, <2>1 DEF Shown
<1>8. CASE ~a.evidenced
  BY <1>3, <1>5, <1>6, <1>8 DEF Shown
<1> QED  BY <1>7, <1>8

\* Undisturbed, the declared totals are of the same sessions' same parts, rounded by project.
LEMMA DeclaredNear ==
    ASSUME WorldInv, ReportInv, report.pc = "answered", report.quiet, report.mode = "summary",
           NEW x, \A s \in Counted : x[s] = InsideOf(s)
    PROVE  /\ IsFiniteSet(Counted) /\ (\A s \in Counted : x[s] \in Int) /\ DeclaredSum \in Int
           /\ 2 * (Second * DeclaredSum - SumFunctionOnSet(x, Counted)) <= Second * Cardinality(report.allowed)
           /\ 2 * (SumFunctionOnSet(x, Counted) - Second * DeclaredSum) <= Second * Cardinality(report.allowed)
<1> DEFINE allowed == report.allowed
           row == [p \in allowed |-> [s \in Counted |-> IF report.listed[s].p = p THEN x[s] ELSE 0]]
           col == [s \in Counted |-> [p \in allowed |-> IF report.listed[s].p = p THEN x[s] ELSE 0]]
           of == [p \in allowed |-> SumFunctionOnSet(row[p], Counted)]
           dec == [p \in allowed |-> SummaryByProject(p, report.range)]
<1>1. /\ ShapeOk(report) /\ SharesOk(report)
      /\ report.listed = Listed(report.range, report.allowed)
  BY DEF ReportInv, QuietInv
<1>2. IsFiniteSet(Counted) /\ allowed \subseteq Projects /\ IsFiniteSet(allowed)
  <2>1. Counted \subseteq Sids /\ allowed \subseteq Projects
    BY <1>1 DEF Counted, CountedIn, ShapeOk
  <2> QED  BY <2>1, AttributionAssumption, ReportsAssumption, FS_Subset
<1>3. ASSUME NEW s \in Counted
      PROVE  /\ report.listed[s].p \in allowed /\ x[s] \in Int /\ s \in Recorded
             /\ report.listed[s] = session[s]
             /\ session[s].from < report.range.to /\ session[s].to > report.range.from
             /\ x[s] = Smaller(session[s].to, report.range.to) - Larger(session[s].from, report.range.from)
  <2>1. s \in Sids /\ report.listed[s].p # None /\ report.listed[s].p \in allowed
    BY <1>1 DEF Counted, CountedIn, ShapeOk
  <2>2. /\ report.listed[s] = session[s] /\ s \in Recorded
        /\ session[s].from < report.range.to /\ session[s].to > report.range.from
    BY <1>1, <2>1 DEF Listed, NoSession
  <2>3. session[s] \in SessionRows /\ report.range \in TimeRanges
    BY <1>1, <2>1 DEF WorldInv, ShapeOk
  <2>4. x[s] = Smaller(session[s].to, report.range.to) - Larger(session[s].from, report.range.from)
    BY <2>2 DEF InsideOf, SpanIn
  <2> QED  BY <2>1, <2>2, <2>3, <2>4 DEF SessionRows, TimeRanges, Larger, Smaller
<1>4. \A s \in Sids : /\ s \in Recorded /\ session[s].p \in allowed /\ session[s].from < report.range.to /\ session[s].to > report.range.from
                      => s \in Counted
  BY <1>1 DEF Listed, Counted, CountedIn, Recorded
<1>5. ASSUME NEW p \in allowed PROVE dec[p] = Rounded(of[p])
  <2> DEFINE R == {s \in Recorded : session[s].p = p /\ session[s].from < report.range.to
                                                     /\ session[s].to > report.range.from}
             part == [s \in R |-> Smaller(session[s].to, report.range.to) - Larger(session[s].from, report.range.from)]
             own == row[p]
  <2>1. dec[p] = Rounded(SumFunctionOnSet(part, R)) /\ of[p] = SumFunctionOnSet(own, Counted)
    BY DEF SummaryByProject, SumFunction
  <2>2. R \subseteq Counted
    BY <1>4 DEF Recorded
  <2>3. \A s \in R : s \in Counted /\ report.listed[s].p = p
    BY <1>3, <2>2
  <2>4. \A s \in Counted : s \notin R => report.listed[s].p # p
    BY <1>3
  <2>5. \A s \in R : part[s] = x[s]
    BY <1>3, <2>2
  <2>6. \A s \in Counted : own[s] = IF report.listed[s].p = p THEN x[s] ELSE 0
    OBVIOUS
  <2> HIDE DEF R, part, own, row, of, dec
  <2>7. SumFunctionOnSet(own, Counted) = SumFunctionOnSet(own, R)
    <3>1. \A s \in Counted : own[s] \in Int /\ (s \notin R => own[s] = 0)
      BY <1>3, <2>4, <2>6
    <3> QED  BY <1>2, <2>2, <3>1, SumPart
  <2>8. SumFunctionOnSet(part, R) = SumFunctionOnSet(own, R)
    <3>1. \A s \in R : part[s] = own[s]
      BY <2>3, <2>5, <2>6
    <3>2. IsFiniteSet(R)
      BY <1>2, <2>2, FS_Subset
    <3> QED  BY <3>1, <3>2, SumSame
  <2> QED  BY <2>1, <2>7, <2>8
<1>6. ASSUME NEW s \in Counted PROVE SumFunctionOnSet(col[s], allowed) = x[s]
  <2> DEFINE c == col[s]
             q == report.listed[s].p
  <2>1. q \in allowed /\ c[q] = x[s] /\ c[q] \in Int /\ \A p \in allowed \ {q} : c[p] = 0
    BY <1>3
  <2> HIDE DEF c, q
  <2>2. SumFunctionOnSet(c, allowed) = c[q]
    BY <1>2, <2>1, SumPick
  <2>3. SumFunctionOnSet(c, allowed) = x[s]
    BY <2>1, <2>2
  <2> QED  BY <2>3 DEF c
<1>7. Turned(row, col, allowed, Counted)
  <2>1. \A p \in allowed, s \in Counted : col[s][p] = row[p][s] /\ row[p][s] \in Int
    BY <1>3
  <2> HIDE DEF row, col
  <2> QED  BY <2>1 DEF Turned
<1>8. SumsOf(of, row, allowed, Counted)
  BY DEF SumsOf
<1>9. SumsOf(x, col, Counted, allowed)
  BY <1>6 DEF SumsOf
<1>10. DeclaredSum = SumFunctionOnSet(dec, allowed)
  BY DEF DeclaredSum, SumFunction
<1>11. \A p \in allowed : of[p] = SumFunctionOnSet(row[p], Counted)
  OBVIOUS
<1>12. \A p \in allowed, s \in Counted : row[p][s] \in Int
  BY <1>7 DEF Turned
<1> HIDE DEF row, col, of, dec
<1>13. SumFunctionOnSet(of, allowed) = SumFunctionOnSet(x, Counted)
  BY <1>2, <1>7, <1>8, <1>9, SumSwap
<1>14. \A p \in allowed : of[p] \in Int
  BY <1>2, <1>11, <1>12, SumInt
<1>15. /\ SumFunctionOnSet(dec, allowed) \in Int
       /\ 2 * (Second * SumFunctionOnSet(dec, allowed) - SumFunctionOnSet(of, allowed)) <= Second * Cardinality(allowed)
       /\ 2 * (SumFunctionOnSet(of, allowed) - Second * SumFunctionOnSet(dec, allowed)) <= Second * Cardinality(allowed)
  BY <1>2, <1>5, <1>14, RoundedSums
<1> QED  BY <1>2, <1>3, <1>10, <1>13, <1>15

\* Two numbers that are near the same number are near each other.
LEMMA Nearer ==
    ASSUME NEW k \in Nat \ {0}, NEW a \in Int, NEW b \in Int, NEW t \in Int, NEW m \in Int, NEW n \in Int,
           2 * (k * a - t) <= k * m, 2 * (t - k * a) <= k * m,
           2 * (k * b - t) <= k * n, 2 * (t - k * b) <= k * n
    PROVE  2 * (a - b) <= m + n /\ 2 * (b - a) <= m + n
<1>1. k * (2 * (a - b)) <= k * (m + n) /\ k * (2 * (b - a)) <= k * (m + n)
  <2>1. PICK ka, kb, km, kn \in Int : ka = k * a /\ kb = k * b /\ km = k * m /\ kn = k * n
    OBVIOUS
  <2>2. k * (2 * (a - b)) = 2 * (ka - kb) /\ k * (2 * (b - a)) = 2 * (kb - ka) /\ k * (m + n) = km + kn
    BY <2>1
  <2>3. 2 * (ka - kb) <= km + kn /\ 2 * (kb - ka) <= km + kn
    <3>1. 2 * (ka - t) <= km /\ 2 * (t - ka) <= km /\ 2 * (kb - t) <= kn /\ 2 * (t - kb) <= kn
      BY <2>1
    <3> HIDE <2>1
    <3> QED  BY <3>1
  <2> QED  BY <2>2, <2>3
<1>2. \A u, v \in Int : k * u <= k * v => u <= v
  OBVIOUS
<1>3. 2 * (a - b) \in Int /\ 2 * (b - a) \in Int /\ m + n \in Int
  OBVIOUS
<1> QED  BY <1>1, <1>2, <1>3

\* The seconds of a share that go to one project.
LEMMA GivenTyped ==
    ASSUME ReportInv, NEW p \in Projects, NEW n \in DOMAIN report.shares
    PROVE  ToProject(p, report.shares[n]) \in Int
<1>1. PICK h : h = report.shares[n]
  OBVIOUS
<1>2. IsFiniteSet(h.allocs) /\ \A a \in h.allocs : a.project \in Projects /\ a.seconds \in Nat \ {0}
  BY <1>1, ShareGiven DEF ReportInv
<1> DEFINE g == [a \in h.allocs |-> IF a.project = p THEN a.seconds ELSE 0]
<1>3. \A a \in h.allocs : g[a] \in Int
  BY <1>2
<1>4. ToProject(p, h) = SumFunctionOnSet(g, h.allocs)
  BY DEF ToProject, SumFunction
<1> HIDE DEF g
<1> QED  BY <1>1, <1>2, <1>3, <1>4, SumInt

\* Lines and what has none are whole seconds.
LEMMA SumsTyped ==
    ASSUME ReportInv
    PROVE  LinesSum \in Int /\ DroppedSum \in Int
<1> DEFINE N == DOMAIN report.shares
           line == [p \in Projects |-> Line(p)]
           drop == [n \in N |-> SumFunction([p \in Unshown |-> ToProject(p, report.shares[n])])]
<1>1. IsFiniteSet(Projects) /\ Unshown \subseteq Projects /\ IsFiniteSet(Unshown)
  BY AttributionAssumption, FS_Subset DEF Unshown
<1>2. IsFiniteSet(N)
  <2>1. PICK S : report.shares \in Seq(S)
    BY DEF ReportInv, ShapeOk
  <2>2. PICK len \in Nat : N = 1 .. len
    BY <2>1
  <2>3. IsFiniteSet(1 .. len)
    BY FS_Interval
  <2> QED  BY <2>2, <2>3
<1>3. ASSUME NEW p \in Projects PROVE line[p] \in Int
  <2> DEFINE f == [n \in N |-> ToProject(p, report.shares[n])]
  <2>1. \A n \in N : f[n] \in Int
    BY GivenTyped
  <2>2. line[p] = IF Shown(p) THEN SumFunctionOnSet(f, N) ELSE 0
    BY DEF Line, SumFunction
  <2> HIDE DEF f, N, line
  <2> QED  BY <1>2, <2>1, <2>2, SumInt
<1>4. ASSUME NEW n \in N PROVE drop[n] \in Int
  <2> DEFINE part == [p \in Unshown |-> ToProject(p, report.shares[n])]
  <2>1. \A p \in Unshown : part[p] \in Int
    BY <1>1, GivenTyped
  <2>2. drop[n] = SumFunctionOnSet(part, Unshown)
    BY DEF SumFunction
  <2> HIDE DEF part, drop, N
  <2> QED  BY <1>1, <2>1, <2>2, SumInt
<1>5. LinesSum = SumFunctionOnSet(line, Projects) /\ DroppedSum = SumFunctionOnSet(drop, N)
  BY DEF LinesSum, DroppedSum, SumFunction
<1> HIDE DEF line, drop, N
<1> QED  BY <1>1, <1>2, <1>3, <1>4, <1>5, SumInt

LEMMA TotalsHold == WorldInv /\ ReportInv => TotalsAgree
<1> SUFFICES ASSUME WorldInv, ReportInv, report.pc = "answered"
             PROVE  /\ LinesSum + DroppedSum = SumFunction([s \in Counted |-> Rounded(InsideOf(s))])
                    /\ report.quiet /\ report.mode = "summary" =>
                         /\ 2 * (LinesSum + DroppedSum - DeclaredSum) <= Cardinality(Counted) + Cardinality(Projects)
                         /\ 2 * (DeclaredSum - LinesSum - DroppedSum) <= Cardinality(Counted) + Cardinality(Projects)
                    /\ report.quiet => UnshownWhy
  <2> DEFINE inside(s) == IF report.mode = "csv" THEN report.listed[s].to - report.listed[s].from
                          ELSE Smaller(report.listed[s].to, report.range.to)
                                 - Larger(report.listed[s].from, report.range.from)
  <2>1. \A s : InsideOf(s) = inside(s)
    BY DEF InsideOf, SpanIn
  <2>2. [s \in Counted |-> Rounded(InsideOf(s))] = [s \in {t \in Sids : report.listed[t].p # None} |-> Rounded(inside(s))]
    BY <2>1 DEF Counted, CountedIn
  <2> QED  BY <2>2 DEF TotalsAgree, LinesSum, DroppedSum, DeclaredSum, Unshown, UnshownWhy, Counted, CountedIn
<1>1. LinesSum + DroppedSum = SumFunction([s \in Counted |-> Rounded(InsideOf(s))])
  BY AllCounted
<1>2. ASSUME report.quiet, report.mode = "summary"
      PROVE  /\ 2 * (LinesSum + DroppedSum - DeclaredSum) <= Cardinality(Counted) + Cardinality(Projects)
             /\ 2 * (DeclaredSum - LinesSum - DroppedSum) <= Cardinality(Counted) + Cardinality(Projects)
  <2> DEFINE x == [s \in Counted |-> InsideOf(s)]
             y == [s \in Counted |-> Rounded(InsideOf(s))]
             X == SumFunctionOnSet(x, Counted)
             Y == SumFunctionOnSet(y, Counted)
  <2>1. \A s \in Counted : x[s] = InsideOf(s) /\ y[s] = Rounded(x[s])
    OBVIOUS
  <2>2. SumFunction([s \in Counted |-> Rounded(InsideOf(s))]) = Y
    BY DEF SumFunction
  <2> HIDE DEF x, y
  <2>3. /\ IsFiniteSet(Counted) /\ (\A s \in Counted : x[s] \in Int) /\ DeclaredSum \in Int
        /\ 2 * (Second * DeclaredSum - X) <= Second * Cardinality(report.allowed)
        /\ 2 * (X - Second * DeclaredSum) <= Second * Cardinality(report.allowed)
    BY <1>2, <2>1, DeclaredNear
  <2>4. /\ X \in Int /\ Y \in Int
        /\ 2 * (Second * Y - X) <= Second * Cardinality(Counted)
        /\ 2 * (X - Second * Y) <= Second * Cardinality(Counted)
    BY <2>1, <2>3, RoundedSums
  <2>5. PICK c, a, m \in Int : /\ c = Cardinality(Counted) /\ a = Cardinality(report.allowed)
                               /\ m = Cardinality(Projects) /\ a <= m
    <3>1. report.allowed \subseteq Projects
      BY DEF ReportInv, ShapeOk
    <3>2. /\ Cardinality(report.allowed) <= Cardinality(Projects) /\ IsFiniteSet(report.allowed)
          /\ IsFiniteSet(Projects)
      BY <3>1, FS_Subset, AttributionAssumption
    <3> QED  BY <2>3, <3>2, FS_CardinalityType
  <2> HIDE DEF X, Y
  <2>6. 2 * (Y - DeclaredSum) <= c + a /\ 2 * (DeclaredSum - Y) <= c + a
    BY <2>3, <2>4, <2>5, SecondPositive, Nearer
  <2>7. LinesSum \in Int /\ DroppedSum \in Int
    BY SumsTyped
  <2>8. LinesSum + DroppedSum = Y
    BY <1>1, <2>2
  <2> QED  BY <2>3, <2>4, <2>5, <2>6, <2>7, <2>8
<1>3. report.quiet => UnshownWhy
  BY WhyUnshown
<1> QED  BY <1>1, <1>2, <1>3

\* For any projects, deleted ones too, any token, sessions, links and evidence, and whatever other
\* requests change meanwhile, the lines of a report and what went without a line add up to the
\* listed time.  Undisturbed, they differ from the declared totals by half a second a session and a
\* project at most, and a project has no line only if it is deleted and declared, or evidenced and
\* none of the token's.
THEOREM ReportsAddUp == Spec => []TotalsAgree
  BY SuggestInit, SuggestStep, ClusterInit, ClusterStep, WorldInit, WorldStep, ReportInit, ReportStep,
     TotalsHold, PTL DEF Spec

-------------------------------------------------------------------------------
(* Ticks and segments.                                                     *)

\* A tick is in one segment.
LEMMA SegmentAt ==
    ASSUME NEW lo \in Int, NEW hi \in Int, lo < hi, NEW C, WellClipped(C, lo, hi), NEW t \in lo .. hi - 1
    PROVE  \E g \in Segments(C, lo, hi) :
             /\ g[1] <= t /\ t < g[2]
             /\ \A k \in Segments(C, lo, hi) : k[1] <= t /\ t < k[2] => k = g
<1> DEFINE cuts == Cuts(C, lo, hi)
           below == {c \in cuts : c <= t}
           above == {c \in cuts : t < c}
<1>1. /\ cuts \subseteq Int /\ IsFiniteSet(cuts) /\ lo \in cuts /\ hi \in cuts
      /\ Segments(C, lo, hi) = Gaps(cuts)
  BY CutsWell
<1> HIDE DEF cuts
<1>0. t \in Int /\ lo <= t /\ t < hi
  OBVIOUS
<1>2. /\ below \subseteq Int /\ above \subseteq Int /\ lo \in below /\ hi \in above
      /\ below \subseteq cuts /\ above \subseteq cuts
  BY <1>0, <1>1
<1>3. IsFiniteSet(below) /\ IsFiniteSet(above)
  <2> HIDE DEF below, above
  <2> QED  BY <1>1, <1>2, FS_Subset
<1>4. PICK b \in below : \A c \in below : c <= b
  <2> HIDE DEF below
  <2> QED  BY <1>2, <1>3, EndsOf
<1>5. PICK a \in above : \A c \in above : a <= c
  <2> HIDE DEF above
  <2> QED  BY <1>2, <1>3, EndsOf
<1>6. b \in cuts /\ a \in cuts /\ b \in Int /\ a \in Int /\ b <= t /\ t < a
  BY <1>1
<1>7. \A c \in cuts : c <= b \/ a <= c
  BY <1>1, <1>4, <1>5
<1> HIDE DEF below, above
<1>8. <<b, a>> \in Gaps(cuts)
  BY <1>1, <1>6, <1>7 DEF Gaps
<1>9. ASSUME NEW k \in Gaps(cuts), k[1] <= t, t < k[2] PROVE k = <<b, a>>
  <2>1. /\ k[1] \in cuts /\ k[2] \in cuts /\ k = <<k[1], k[2]>>
        /\ \A c \in cuts : ~(k[1] < c /\ c < k[2])
    BY DEF Gaps
  <2>2. k[1] \in Int /\ k[2] \in Int
    BY <1>1, <2>1
  <2>3. k[1] = b /\ k[2] = a
    BY <1>6, <1>7, <1>9, <2>1, <2>2
  <2> QED  BY <2>1, <2>3
<1> QED  BY <1>1, <1>6, <1>8, <1>9

\* What is the same all through a segment adds up by segments.
SameThrough(f, v, segs) == \A g \in segs : \A t \in g[1] .. g[2] - 1 : f[t] = v[g]
TimesLength(w, v, segs) == \A g \in segs : w[g] = v[g] * Length(g)

LEMMA TicksBySegments ==
    ASSUME NEW lo \in Int, NEW hi \in Int, lo < hi, NEW C, WellClipped(C, lo, hi),
           NEW v, \A g \in Segments(C, lo, hi) : v[g] \in Int,
           NEW f, SameThrough(f, v, Segments(C, lo, hi)),
           NEW w, TimesLength(w, v, Segments(C, lo, hi))
    PROVE  SumFunctionOnSet(f, lo .. hi - 1) = SumFunctionOnSet(w, Segments(C, lo, hi))
<1> DEFINE segs == Segments(C, lo, hi)
           ticks == lo .. hi - 1
           row == [t \in ticks |-> [g \in segs |-> IF g[1] <= t /\ t < g[2] THEN v[g] ELSE 0]]
           col == [g \in segs |-> [t \in ticks |-> IF g[1] <= t /\ t < g[2] THEN v[g] ELSE 0]]
<1>1. IsFiniteSet(ticks)
  BY FS_Interval
<1>2. /\ IsFiniteSet(segs)
      /\ \A g \in segs : /\ g[1] \in Int /\ g[2] \in Int
                         /\ lo <= g[1] /\ g[1] < g[2] /\ g[2] <= hi /\ Length(g) \in Nat \ {0}
  BY SegmentsWell
<1>3. ASSUME NEW t \in ticks PROVE f[t] = SumFunctionOnSet(row[t], segs)
  <2>1. PICK g \in segs : /\ g[1] <= t /\ t < g[2]
                          /\ \A k \in segs : k[1] <= t /\ t < k[2] => k = g
    BY SegmentAt
  <2>2. row[t][g] = v[g] /\ v[g] \in Int /\ \A k \in segs \ {g} : row[t][k] = 0
    BY <2>1
  <2>3. f[t] = v[g]
    <3>1. t \in g[1] .. g[2] - 1
      BY <1>2, <2>1
    <3> QED  BY <3>1 DEF SameThrough
  <2> HIDE DEF row, segs
  <2>4. SumFunctionOnSet(row[t], segs) = row[t][g]
    BY <1>2, <2>2, SumPick
  <2> QED  BY <2>2, <2>3, <2>4
<1>4. ASSUME NEW g \in segs PROVE w[g] = SumFunctionOnSet(col[g], ticks)
  <2> DEFINE part == g[1] .. g[2] - 1
             c == col[g]
  <2>1. g[1] \in Int /\ g[2] \in Int /\ lo <= g[1] /\ g[1] < g[2] /\ g[2] <= hi
    BY <1>2
  <2>2. part \subseteq ticks /\ IsFiniteSet(part) /\ Cardinality(part) = g[2] - g[1]
    <3>1. PICK a, b \in Int : a = g[1] /\ b = g[2] - 1 /\ ~(a > b) /\ b - a + 1 = g[2] - g[1]
      BY <2>1
    <3>2. IsFiniteSet(a .. b) /\ Cardinality(a .. b) = b - a + 1
      BY <3>1, FS_Interval
    <3>3. part \subseteq ticks
      BY <2>1
    <3> QED  BY <3>1, <3>2, <3>3
  <2>3. v[g] \in Int /\ w[g] = v[g] * Length(g) /\ Length(g) = g[2] - g[1]
    BY DEF TimesLength, Length
  <2>4. \A t \in ticks : c[t] = IF t \in part THEN v[g] ELSE 0
    BY <2>1
  <2> HIDE DEF part, c, ticks
  <2>5. SumFunctionOnSet(c, ticks) = SumFunctionOnSet(c, part)
    <3>1. \A t \in ticks : c[t] \in Int /\ (t \notin part => c[t] = 0)
      BY <2>3, <2>4
    <3> QED  BY <1>1, <2>2, <3>1, SumPart
  <2>6. \A t \in part : c[t] = v[g]
    BY <2>2, <2>4
  <2>7. SumFunctionOnSet(c, part) = v[g] * Cardinality(part)
    BY <2>2, <2>3, <2>6, SumConstant
  <2>8. w[g] = SumFunctionOnSet(c, ticks)
    BY <2>2, <2>3, <2>5, <2>7
  <2> QED  BY <2>8 DEF c
<1>5. Turned(row, col, ticks, segs)
  <2>1. \A t \in ticks, g \in segs : row[t][g] \in Int /\ col[g][t] = row[t][g]
    OBVIOUS
  <2> HIDE DEF row, col, ticks, segs
  <2> QED  BY <2>1 DEF Turned
<1> HIDE DEF row, col, ticks, segs
<1>6. SumsOf(f, row, ticks, segs) /\ SumsOf(w, col, segs, ticks)
  BY <1>3, <1>4 DEF SumsOf
<1>7. SumFunctionOnSet(f, ticks) = SumFunctionOnSet(w, segs)
  BY <1>1, <1>2, <1>5, <1>6, SumSwap
<1> QED  BY <1>7 DEF ticks, segs

\* Who is active at a tick is active through its segment.
LEMMA ActiveAt ==
    ASSUME NEW spans, spans \subseteq SpanSet, IsFiniteSet(spans),
           NEW lo \in Int, NEW hi \in Int, lo < hi,
           NEW g \in Segments(Owned(spans, lo, hi), lo, hi), NEW t \in g[1] .. g[2] - 1
    PROVE  At(spans, t) = Active(Owned(spans, lo, hi), g)
<1> DEFINE C == Owned(spans, lo, hi)
<1>1. WellClipped(C, lo, hi)
  BY OwnedWell
<1>2. /\ g[1] \in Int /\ g[2] \in Int /\ lo <= g[1] /\ g[1] < g[2] /\ g[2] <= hi
      /\ \A c \in Cuts(C, lo, hi) : ~(g[1] < c /\ c < g[2])
  <2>1. Segments(C, lo, hi) = Gaps(Cuts(C, lo, hi))
    BY <1>1, CutsWell
  <2>2. /\ g[1] \in Int /\ g[2] \in Int /\ lo <= g[1] /\ g[1] < g[2] /\ g[2] <= hi
    BY <1>1, SegmentsWell
  <2> HIDE DEF C
  <2>3. g \in Gaps(Cuts(C, lo, hi))
    BY <2>1 DEF C
  <2> QED  BY <2>2, <2>3 DEF Gaps
<1>3. t \in Int /\ g[1] <= t /\ t < g[2]
  BY <1>2
<1>4. ASSUME NEW x \in spans, x.from <= t, t < x.to, x.project # None
      PROVE  x.project \in Active(C, g)
  <2> DEFINE s == [x EXCEPT !.from = Larger(@, lo), !.to = Smaller(@, hi)]
  <2>1. x.from \in Int /\ x.to \in Int /\ x \in SpanSet
    BY DEF SpanSet
  <2>2. s.project = x.project /\ s.from = Larger(x.from, lo) /\ s.to = Smaller(x.to, hi)
    BY <2>1 DEF SpanSet
  <2>3. s.from \in Int /\ s.to \in Int /\ s.from <= t /\ t < s.to
    BY <1>2, <1>3, <1>4, <2>1, <2>2 DEF Larger, Smaller
  <2>4. s \in C
    <3>1. s \in {[y EXCEPT !.from = Larger(@, lo), !.to = Smaller(@, hi)] : y \in spans}
      OBVIOUS
    <3>2. s.to > s.from /\ s.project # None
      BY <1>4, <2>2, <2>3
    <3> HIDE DEF s
    <3> QED  BY <3>1, <3>2 DEF Owned, Clipped
  <2> HIDE DEF s, C
  <2>5. s.from \in Cuts(C, lo, hi) /\ s.to \in Cuts(C, lo, hi)
    BY <2>4 DEF Cuts
  <2>6. s.from <= g[1] /\ g[2] <= s.to
    BY <1>2, <1>3, <2>3, <2>5
  <2> QED  BY <2>2, <2>4, <2>6 DEF Active
<1>5. ASSUME NEW s \in C, s.from <= g[1], g[2] <= s.to
      PROVE  s.project \in At(spans, t)
  <2>1. s \in Clipped(spans, lo, hi) /\ s.project # None
    BY DEF Owned
  <2>2. PICK x \in spans : s = [x EXCEPT !.from = Larger(@, lo), !.to = Smaller(@, hi)]
    BY <2>1 DEF Clipped
  <2>3. x.from \in Int /\ x.to \in Int
    BY DEF SpanSet
  <2>4. s.project = x.project /\ s.from = Larger(x.from, lo) /\ s.to = Smaller(x.to, hi)
    BY <2>2 DEF SpanSet
  <2>5. x.from <= t /\ t < x.to
    BY <1>2, <1>3, <1>5, <2>3, <2>4 DEF Larger, Smaller
  <2> HIDE DEF C
  <2> QED  BY <2>1, <2>4, <2>5 DEF At
<1> HIDE DEF C
<1>6. Active(C, g) \subseteq At(spans, t)
  BY <1>5 DEF Active
<1>7. At(spans, t) \subseteq Active(C, g)
  BY <1>4 DEF At
<1> QED  BY <1>6, <1>7 DEF C

-------------------------------------------------------------------------------
(* What a project is due, by segments.                                     *)

DueIn(C, declared, p, evidenced, g) ==
    LET a == Active(C, g)
    IN  IF evidenced THEN (IF p \in a THEN Whole \div Cardinality(a) ELSE 0)
                     ELSE (IF a = {} /\ p = declared THEN Whole ELSE 0)

LEMMA WholeShared ==
    ASSUME NEW k \in 1 .. Cardinality(Projects)
    PROVE  /\ Whole \in Nat \ {0} /\ k \in Nat \ {0}
           /\ Whole \div k \in Nat \ {0} /\ k * (Whole \div k) = Whole
<1>1. Whole \in Nat \ {0} /\ Whole % k = 0
  BY ReportsAssumption
<1>2. Cardinality(Projects) \in Nat
  BY FS_CardinalityType, AttributionAssumption
<1>3. k \in Nat \ {0}
  BY <1>2
<1>4. PICK n, q : n = Whole /\ q = Whole \div k
  OBVIOUS
<1>5. q \in Nat /\ Whole = k * q + (Whole % k)
  <2>1. n \in Nat /\ n \in Int
    BY <1>1, <1>4
  <2>2. n \div k \in Nat /\ n = k * (n \div k) + (n % k)
    BY <1>3, <2>1, Division
  <2> QED  BY <1>4, <2>2
<1>6. k * q = Whole
  BY <1>1, <1>3, <1>5
<1>7. q # 0
  BY <1>1, <1>3, <1>5, <1>6
<1> QED  BY <1>1, <1>3, <1>4, <1>5, <1>6, <1>7

\* The projects active in a segment.
LEMMA ActiveWell ==
    ASSUME NEW lo, NEW hi, NEW C, WellClipped(C, lo, hi), NEW g
    PROVE  /\ Active(C, g) \subseteq Projects /\ IsFiniteSet(Active(C, g))
           /\ Active(C, g) # {} => Cardinality(Active(C, g)) \in 1 .. Cardinality(Projects)
<1>1. Active(C, g) \subseteq Projects
  BY DEF Active, WellClipped
<1>2. IsFiniteSet(Projects)
  BY AttributionAssumption
<1>3. IsFiniteSet(Active(C, g)) /\ Cardinality(Active(C, g)) <= Cardinality(Projects)
  BY <1>1, <1>2, FS_Subset
<1>4. Cardinality(Active(C, g)) \in Nat /\ Cardinality(Projects) \in Nat
  BY <1>2, <1>3, FS_CardinalityType
<1>5. Active(C, g) # {} => Cardinality(Active(C, g)) # 0
  BY <1>3, FS_EmptySet
<1> QED  BY <1>1, <1>3, <1>4, <1>5

LEMMA DueBySegments ==
    ASSUME NEW h, h.spans \subseteq SpanSet, IsFiniteSet(h.spans), h.from \in Int, h.to \in Int, h.from < h.to,
           NEW C, C = Owned(h.spans, h.from, h.to), NEW p, NEW e \in BOOLEAN,
           NEW w, \A g \in Segments(C, h.from, h.to) : w[g] = DueIn(C, h.declared, p, e, g) * Length(g)
    PROVE  /\ Due(h, p, e) = SumFunctionOnSet(w, Segments(C, h.from, h.to))
           /\ \A g \in Segments(C, h.from, h.to) : DueIn(C, h.declared, p, e, g) \in Nat /\ w[g] \in Nat
<1> DEFINE lo == h.from
           hi == h.to
           segs == Segments(C, lo, hi)
           v == [g \in segs |-> DueIn(C, h.declared, p, e, g)]
           f == [t \in lo .. hi - 1 |->
                   LET a == At(h.spans, t) IN
                   IF e THEN (IF p \in a THEN Whole \div Cardinality(a) ELSE 0)
                        ELSE (IF a = {} /\ p = h.declared THEN Whole ELSE 0)]
<1>1. WellClipped(C, lo, hi)
  BY OwnedWell
<1>2. Due(h, p, e) = SumFunctionOnSet(f, lo .. hi - 1)
  BY DEF Due, SumFunction
<1>3. \A g \in segs : /\ g[1] \in Int /\ g[2] \in Int /\ lo <= g[1] /\ g[1] < g[2] /\ g[2] <= hi
                      /\ Length(g) \in Nat \ {0}
  BY <1>1, SegmentsWell
<1>4. ASSUME NEW g \in segs PROVE v[g] \in Nat /\ v[g] = DueIn(C, h.declared, p, e, g)
  <2> DEFINE a == Active(C, g)
  <2>1. a # {} => Cardinality(a) \in 1 .. Cardinality(Projects)
    BY <1>1, ActiveWell
  <2>2. a # {} => Whole \div Cardinality(a) \in Nat
    BY <2>1, WholeShared
  <2>3. Whole \in Nat
    BY ReportsAssumption
  <2>4. v[g] = IF e THEN (IF p \in a THEN Whole \div Cardinality(a) ELSE 0)
                    ELSE (IF a = {} /\ p = h.declared THEN Whole ELSE 0)
    BY DEF DueIn
  <2>5. v[g] = DueIn(C, h.declared, p, e, g)
    OBVIOUS
  <2> HIDE DEF a, v
  <2>6. p \in a => a # {}
    OBVIOUS
  <2> QED  BY <2>2, <2>3, <2>4, <2>5, <2>6
<1>5. SameThrough(f, v, segs)
  <2>1. ASSUME NEW g \in segs, NEW t \in g[1] .. g[2] - 1 PROVE f[t] = v[g]
    <3>1. At(h.spans, t) = Active(C, g)
      BY ActiveAt
    <3>2. t \in lo .. hi - 1
      BY <1>3
    <3>3. f[t] = LET a == At(h.spans, t) IN
                 IF e THEN (IF p \in a THEN Whole \div Cardinality(a) ELSE 0)
                      ELSE (IF a = {} /\ p = h.declared THEN Whole ELSE 0)
      BY <3>2
    <3> HIDE DEF f, v
    <3> QED  BY <1>4, <3>1, <3>3 DEF DueIn
  <2> HIDE DEF f, v, segs
  <2> QED  BY <2>1 DEF SameThrough
<1>6. TimesLength(w, v, segs)
  <2> HIDE DEF v
  <2> QED  BY <1>4 DEF TimesLength
<1> HIDE DEF f, v
<1>7. \A g \in segs : v[g] \in Int
  BY <1>4
<1>8. SumFunctionOnSet(f, lo .. hi - 1) = SumFunctionOnSet(w, segs)
  BY <1>1, <1>5, <1>6, <1>7, TicksBySegments
<1>9. \A g \in segs : w[g] \in Nat
  <2>1. \A m, n \in Nat : m * n \in Nat
    OBVIOUS
  <2>2. \A g \in segs : w[g] = v[g] * Length(g)
    BY <1>4
  <2> QED  BY <1>3, <1>4, <2>1, <2>2
<1> QED  BY <1>2, <1>4, <1>8, <1>9

\* An even split of whole ticks is off by less than a tick.
LEMMA EvenSplit ==
    ASSUME NEW k \in Nat \ {0}, NEW q \in Nat, NEW r \in 0 .. k - 1, NEW u \in Nat, NEW d \in {0, 1}
    PROVE  /\ (q + d) * (k * u) - u * (k * q + r) <= k * u
           /\ u * (k * q + r) - (q + d) * (k * u) <= k * u
<1>1. PICK m, n, x \in Nat : m = u * (k * q) /\ n = u * r /\ x = k * u
  OBVIOUS
<1>2. u * (k * q + r) = m + n
  BY <1>1
<1>3. (q + d) * (k * u) = m + d * x
  <2>1. q * (k * u) = u * (k * q)
    OBVIOUS
  <2>2. (q + d) * (k * u) = q * (k * u) + d * (k * u)
    OBVIOUS
  <2> QED  BY <1>1, <2>1, <2>2
<1>4. n <= x
  <2>1. r <= k /\ r \in Nat
    OBVIOUS
  <2>2. u * r <= u * k
    BY <2>1
  <2> QED  BY <1>1, <2>2
<1>5. d * x = 0 \/ d * x = x
  OBVIOUS
<1> QED  BY <1>1, <1>2, <1>3, <1>4, <1>5

LEMMA ShareNear ==
    ASSUME NEW a, a \subseteq Projects, NEW p \in a, NEW n \in Nat \ {0},
           Cardinality(a) \in 1 .. Cardinality(Projects)
    PROVE  /\ ShareOf(a, p, n) \in Nat
           /\ Whole * ShareOf(a, p, n) - (Whole \div Cardinality(a)) * n <= Whole
           /\ (Whole \div Cardinality(a)) * n - Whole * ShareOf(a, p, n) <= Whole
           /\ (Whole \div Cardinality(a)) * n > 0
<1> DEFINE k == Cardinality(a)
           u == Whole \div k
           q == n \div k
           r == n % k
           d == IF Cardinality({x \in a : x < p}) < r THEN 1 ELSE 0
<1>1. k \in Nat \ {0} /\ u \in Nat \ {0} /\ k * u = Whole
  BY WholeShared
<1>2. q \in Nat /\ r \in 0 .. k - 1 /\ n = k * q + r
  <2>1. n \in Nat /\ n \in Int
    OBVIOUS
  <2> HIDE DEF k
  <2> QED  BY <1>1, <2>1, Division DEF q, r
<1>3. d \in {0, 1} /\ ShareOf(a, p, n) = q + d
  BY DEF ShareOf
<1> HIDE DEF k, u, q, r, d
<1>4. /\ (q + d) * (k * u) - u * (k * q + r) <= k * u
      /\ u * (k * q + r) - (q + d) * (k * u) <= k * u
  BY <1>1, <1>2, <1>3, EvenSplit
<1>5. PICK s : s = q + d
  OBVIOUS
<1>6. s \in Nat /\ s * Whole - u * n <= Whole /\ u * n - s * Whole <= Whole
  BY <1>1, <1>2, <1>3, <1>4, <1>5
<1>7. s * Whole = Whole * s
  BY <1>1, <1>6
<1>8. u * n > 0
  BY <1>1
<1> QED  BY <1>3, <1>5, <1>6, <1>7, <1>8 DEF u, k

-------------------------------------------------------------------------------
(* How far a count by segments is from a count by ticks.                   *)

\* The segments somebody is active in: each begins where a span begins or ends.
Busy(C, segs) == {g \in segs : Active(C, g) # {}}

LEMMA BusyFew ==
    ASSUME NEW lo \in Int, NEW hi \in Int, lo < hi, NEW C, WellClipped(C, lo, hi)
    PROVE  Cardinality(Busy(C, Segments(C, lo, hi))) <= 2 * Cardinality(C)
<1> DEFINE segs == Segments(C, lo, hi)
           busy == Busy(C, segs)
           start == [g \in busy |-> g[1]]
           from == [s \in C |-> s.from]
           to == [s \in C |-> s.to]
           starts == {start[g] : g \in busy}
           froms == {from[s] : s \in C}
           tos == {to[s] : s \in C}
<1>1. IsFiniteSet(C) /\ IsFiniteSet(segs)
  BY SegmentsWell DEF WellClipped
<1>2. busy \subseteq segs /\ IsFiniteSet(busy)
  BY <1>1, FS_Subset DEF Busy
<1>3. /\ Cuts(C, lo, hi) = {lo, hi} \cup froms \cup tos
      /\ segs = Gaps(Cuts(C, lo, hi)) /\ Cuts(C, lo, hi) \subseteq Int
  <2>1. Cuts(C, lo, hi) = {lo, hi} \cup froms \cup tos
    BY DEF Cuts
  <2> HIDE DEF froms, tos
  <2> QED  BY <2>1, CutsWell
<1>4. \A g \in segs : /\ g[1] \in Cuts(C, lo, hi) /\ g[2] \in Cuts(C, lo, hi) /\ g = <<g[1], g[2]>>
                      /\ g[1] < g[2] /\ \A c \in Cuts(C, lo, hi) : ~(g[1] < c /\ c < g[2])
  <2> HIDE DEF segs
  <2> QED  BY <1>3 DEF Gaps
<1>5. \A g \in segs : g[1] \in Int /\ g[2] \in Int /\ g[2] <= hi
  BY SegmentsWell
<1>6. \A g, k \in busy : start[g] = start[k] => g = k
  <2> SUFFICES ASSUME NEW g \in busy, NEW k \in busy, start[g] = start[k] PROVE g = k
    OBVIOUS
  <2>1. g[1] = k[1] /\ g \in segs /\ k \in segs
    BY <1>2
  <2> HIDE DEF segs, busy, start
  <2>2. g[2] = k[2]
    BY <1>4, <1>5, <2>1
  <2> QED  BY <1>4, <2>1, <2>2
<1>7. starts \subseteq froms \cup tos
  <2> SUFFICES ASSUME NEW g \in busy PROVE g[1] \in froms \cup tos
    OBVIOUS
  <2>1. g \in segs /\ Active(C, g) # {}
    BY <1>2 DEF Busy
  <2>2. PICK x \in C : x.from <= g[1] /\ g[2] <= x.to
    BY <2>1 DEF Active
  <2>3. x.from \in Int /\ lo <= x.from
    BY DEF WellClipped
  <2>4. from[x] = x.from /\ from[x] \in froms
    OBVIOUS
  <2> HIDE DEF segs, busy, froms, tos, from
  <2>5. CASE g[1] = lo
    <3>1. x.from = lo
      BY <1>5, <2>1, <2>2, <2>3, <2>5
    <3> QED  BY <2>4, <2>5, <3>1
  <2>6. CASE g[1] # lo
    <3>1. g[1] # hi
      BY <1>4, <1>5, <2>1
    <3> QED  BY <1>3, <1>4, <2>1, <2>6, <3>1
  <2> QED  BY <2>5, <2>6
<1> HIDE DEF busy, start, from, to
<1>8. Cardinality(starts) = Cardinality(busy) /\ IsFiniteSet(starts)
  BY <1>2, <1>6, ImageNoLarger
<1>9. IsFiniteSet(froms) /\ Cardinality(froms) <= Cardinality(C)
  BY <1>1, ImageNoLarger
<1>10. IsFiniteSet(tos) /\ Cardinality(tos) <= Cardinality(C)
  BY <1>1, ImageNoLarger
<1> HIDE DEF starts, froms, tos
<1>11. /\ IsFiniteSet(froms \cup tos) /\ IsFiniteSet(froms \cap tos)
       /\ Cardinality(froms \cup tos) = Cardinality(froms) + Cardinality(tos) - Cardinality(froms \cap tos)
  BY <1>9, <1>10, FS_Union, FS_Intersection
<1>12. Cardinality(starts) <= Cardinality(froms \cup tos)
  BY <1>7, <1>11, FS_Subset
<1>13. /\ Cardinality(froms \cap tos) \in Nat /\ Cardinality(froms) \in Nat /\ Cardinality(tos) \in Nat
       /\ Cardinality(C) \in Nat /\ Cardinality(starts) \in Nat /\ Cardinality(froms \cup tos) \in Nat
  BY <1>1, <1>8, <1>9, <1>10, <1>11, FS_CardinalityType
<1>14. Cardinality(busy) <= 2 * Cardinality(C)
  BY <1>8, <1>9, <1>10, <1>11, <1>12, <1>13
<1> QED  BY <1>14 DEF busy, segs

LEMMA OwnedFew ==
    ASSUME NEW spans, IsFiniteSet(spans), NEW lo, NEW hi
    PROVE  Cardinality(Owned(spans, lo, hi)) <= Cardinality(spans)
<1> DEFINE cut == [x \in spans |-> [x EXCEPT !.from = Larger(@, lo), !.to = Smaller(@, hi)]]
           all == {cut[x] : x \in spans}
<1>1. Owned(spans, lo, hi) \subseteq all
  BY DEF Owned, Clipped
<1> HIDE DEF cut
<1>2. IsFiniteSet(all) /\ Cardinality(all) <= Cardinality(spans)
  BY ImageNoLarger
<1> HIDE DEF all
<1>3. IsFiniteSet(Owned(spans, lo, hi)) /\ Cardinality(Owned(spans, lo, hi)) <= Cardinality(all)
  BY <1>1, <1>2, FS_Subset
<1>4. /\ Cardinality(Owned(spans, lo, hi)) \in Nat /\ Cardinality(all) \in Nat /\ Cardinality(spans) \in Nat
  BY <1>2, <1>3, FS_CardinalityType
<1> QED  BY <1>2, <1>3, <1>4

\* What evidence gives a project in a segment is what its ticks give it, up to a tick.
LEMMA EvidencedNear ==
    ASSUME NEW h, h.spans \subseteq SpanSet, IsFiniteSet(h.spans), h.from \in Int, h.to \in Int, h.from < h.to,
           NEW C, C = Owned(h.spans, h.from, h.to), NEW p \in Projects
    PROVE  LET given == Evidenced(C, Segments(C, h.from, h.to), p)
               due   == Due(h, p, TRUE)
           IN  /\ given \in Nat /\ due \in Nat /\ (given > 0 => due > 0)
               /\ Whole * given - due <= Whole * (2 * Cardinality(h.spans))
               /\ due - Whole * given <= Whole * (2 * Cardinality(h.spans))
<1> DEFINE lo == h.from
           hi == h.to
           segs == Segments(C, lo, hi)
           busy == Busy(C, segs)
           e == [g \in segs |-> IF p \in Active(C, g) THEN ShareOf(Active(C, g), p, Length(g)) ELSE 0]
           a == [g \in segs |-> Whole * e[g]]
           w == [g \in segs |-> DueIn(C, h.declared, p, TRUE, g) * Length(g)]
           given == Evidenced(C, segs, p)
           due == Due(h, p, TRUE)
<1>1. WellClipped(C, lo, hi)
  BY OwnedWell
<1>2. IsFiniteSet(segs) /\ \A g \in segs : Length(g) \in Nat \ {0}
  BY <1>1, SegmentsWell
<1>3. given = SumFunctionOnSet(e, segs)
  BY DEF Evidenced, SumFunction
<1>4. \A g \in segs : w[g] = DueIn(C, h.declared, p, TRUE, g) * Length(g)
  OBVIOUS
<1>5. due = SumFunctionOnSet(w, segs) /\ \A g \in segs : w[g] \in Nat
  <2>1. PICK b \in BOOLEAN : b = TRUE
    OBVIOUS
  <2> HIDE DEF w
  <2>2. \A g \in segs : w[g] = DueIn(C, h.declared, p, b, g) * Length(g)
    BY <1>4, <2>1, Zenon
  <2>3. Due(h, p, b) = SumFunctionOnSet(w, segs) /\ \A g \in segs : w[g] \in Nat
    BY <2>2, DueBySegments
  <2> QED  BY <2>1, <2>3, Zenon
<1>6. Whole \in Nat \ {0}
  BY ReportsAssumption
<1>7. ASSUME NEW g \in segs
      PROVE  /\ e[g] \in Nat /\ a[g] \in Int /\ (e[g] > 0 => w[g] > 0)
             /\ g \in busy => a[g] - w[g] <= Whole /\ w[g] - a[g] <= Whole
             /\ g \notin busy => a[g] - w[g] <= 0 /\ w[g] - a[g] <= 0
  <2> DEFINE n == Length(g)
             act == Active(C, g)
  <2>1. act \subseteq Projects /\ (act # {} => Cardinality(act) \in 1 .. Cardinality(Projects))
    BY <1>1, ActiveWell
  <2>2. n \in Nat \ {0} /\ (g \in busy <=> act # {})
    BY <1>2 DEF Busy
  <2>3. CASE p \in act
    <3>1. /\ ShareOf(act, p, n) \in Nat
          /\ Whole * ShareOf(act, p, n) - (Whole \div Cardinality(act)) * n <= Whole
          /\ (Whole \div Cardinality(act)) * n - Whole * ShareOf(act, p, n) <= Whole
          /\ (Whole \div Cardinality(act)) * n > 0
      <4> HIDE DEF act, n
      <4> QED  BY <2>1, <2>2, <2>3, ShareNear
    <3>2. e[g] = ShareOf(act, p, n) /\ a[g] = Whole * e[g] /\ w[g] = (Whole \div Cardinality(act)) * n
      BY <2>3 DEF DueIn
    <3>3. \A m \in Nat : Whole * m \in Int
      BY <1>6
    <3> HIDE DEF act, n, e, a, w, busy
    <3> QED  BY <2>2, <2>3, <3>1, <3>2, <3>3
  <2>4. CASE p \notin act
    <3>1. e[g] = 0 /\ a[g] = 0 /\ w[g] = 0
      BY <1>6, <2>2, <2>4 DEF DueIn
    <3> HIDE DEF act, n, e, a, w, busy
    <3> QED  BY <1>6, <3>1
  <2> QED  BY <2>3, <2>4
<1>8. \A g \in segs : e[g] \in Int /\ a[g] = Whole * e[g]
  <2>1. \A g \in segs : a[g] = Whole * e[g]
    OBVIOUS
  <2> HIDE DEF e, a, w, busy, segs
  <2> QED  BY <1>7, <2>1
<1>9. busy \subseteq segs
  BY DEF Busy
<1>10. Cardinality(busy) <= 2 * Cardinality(h.spans) /\ Cardinality(busy) \in Nat /\ Cardinality(h.spans) \in Nat
  <2>1. Cardinality(busy) <= 2 * Cardinality(C)
    BY <1>1, BusyFew
  <2>2. Cardinality(C) <= Cardinality(h.spans)
    BY OwnedFew
  <2>3. IsFiniteSet(busy) /\ IsFiniteSet(C)
    BY <1>1, <1>2, <1>9, FS_Subset DEF WellClipped
  <2> HIDE DEF busy
  <2>4. Cardinality(busy) \in Nat /\ Cardinality(C) \in Nat /\ Cardinality(h.spans) \in Nat
    BY <2>3, FS_CardinalityType
  <2> QED  BY <2>1, <2>2, <2>4
<1> HIDE DEF segs, busy, e, a, w
<1>11. SumFunctionOnSet(a, segs) = Whole * SumFunctionOnSet(e, segs)
  BY <1>2, <1>6, <1>8, SumTimes
<1>12. SumFunctionOnSet(a, segs) - SumFunctionOnSet(w, segs) <= Whole * Cardinality(busy)
  <2>1. /\ \A x \in segs : a[x] \in Int /\ w[x] \in Int
        /\ \A x \in busy : a[x] - w[x] <= Whole
        /\ \A x \in segs \ busy : a[x] - w[x] <= 0
    BY <1>5, <1>7, <1>9
  <2> QED  BY <1>2, <1>6, <1>9, <2>1, SumNear
<1>13. SumFunctionOnSet(w, segs) - SumFunctionOnSet(a, segs) <= Whole * Cardinality(busy)
  <2>1. /\ \A x \in segs : a[x] \in Int /\ w[x] \in Int
        /\ \A x \in busy : w[x] - a[x] <= Whole
        /\ \A x \in segs \ busy : w[x] - a[x] <= 0
    BY <1>5, <1>7, <1>9
  <2> QED  BY <1>2, <1>6, <1>9, <2>1, SumNear
<1>14. given \in Nat /\ due \in Nat
  <2>1. \A x \in segs : e[x] \in Nat
    BY <1>7
  <2> QED  BY <1>2, <1>3, <1>5, <2>1, SumNat
<1>15. given > 0 => due > 0
  <2> SUFFICES ASSUME given > 0 PROVE due > 0
    OBVIOUS
  <2>1. PICK g \in segs : e[g] # 0
    BY <1>2, <1>3, SumZero
  <2>2. e[g] \in Nat /\ w[g] > 0
    BY <1>7, <2>1
  <2> QED  BY <1>2, <1>5, <2>2, SumPositive
<1>16. Whole * Cardinality(busy) <= Whole * (2 * Cardinality(h.spans))
  <2>1. PICK b, c \in Nat : b = Cardinality(busy) /\ c = 2 * Cardinality(h.spans) /\ b <= c
    BY <1>10
  <2>2. Whole * b <= Whole * c
    BY <1>6, <2>1
  <2> QED  BY <2>1, <2>2
<1> HIDE DEF given, due, lo, hi
<1>17. PICK x, y, z \in Int : x = Whole * Cardinality(busy) /\ y = Whole * (2 * Cardinality(h.spans)) /\ z = Whole * given
  <2>1. \A m \in Nat : Whole * m \in Int
    BY <1>6
  <2>2. 2 * Cardinality(h.spans) \in Nat
    BY <1>10
  <2> QED  BY <1>10, <1>14, <2>1, <2>2
<1>18. z - due <= x /\ due - z <= x /\ x <= y
  BY <1>3, <1>5, <1>11, <1>12, <1>13, <1>16, <1>17
<1>19. z - due <= y /\ due - z <= y
  BY <1>14, <1>17, <1>18
<1>20. /\ given \in Nat /\ due \in Nat /\ (given > 0 => due > 0)
       /\ Whole * given - due <= Whole * (2 * Cardinality(h.spans))
       /\ due - Whole * given <= Whole * (2 * Cardinality(h.spans))
  BY <1>14, <1>15, <1>17, <1>19
<1> QED  BY <1>20 DEF given, due, segs, lo, hi

\* The quiet time is the declared project's to the tick, and nobody else's.
LEMMA QuietIs ==
    ASSUME NEW h, h.spans \subseteq SpanSet, IsFiniteSet(h.spans), h.from \in Int, h.to \in Int, h.from < h.to,
           NEW C, C = Owned(h.spans, h.from, h.to), NEW p
    PROVE  LET quiet == QuietOf(C, Segments(C, h.from, h.to))
               due   == Due(h, p, FALSE)
           IN  /\ quiet \in Nat /\ due = IF p = h.declared THEN Whole * quiet ELSE 0
<1> DEFINE lo == h.from
           hi == h.to
           segs == Segments(C, lo, hi)
           calm == {g \in segs : Active(C, g) = {}}
           n == [g \in calm |-> Length(g)]
           w == [g \in segs |-> DueIn(C, h.declared, p, FALSE, g) * Length(g)]
           quiet == QuietOf(C, segs)
           due == Due(h, p, FALSE)
<1>1. WellClipped(C, lo, hi)
  BY OwnedWell
<1>2. IsFiniteSet(segs) /\ \A g \in segs : Length(g) \in Nat \ {0}
  BY <1>1, SegmentsWell
<1>3. quiet = SumFunctionOnSet(n, calm)
  BY DEF QuietOf, SumFunction
<1>4. \A g \in segs : w[g] = DueIn(C, h.declared, p, FALSE, g) * Length(g)
  OBVIOUS
<1>5. due = SumFunctionOnSet(w, segs) /\ \A g \in segs : w[g] \in Nat
  <2>1. PICK b \in BOOLEAN : b = FALSE
    OBVIOUS
  <2> HIDE DEF w
  <2>2. \A g \in segs : w[g] = DueIn(C, h.declared, p, b, g) * Length(g)
    BY <1>4, <2>1, Zenon
  <2>3. Due(h, p, b) = SumFunctionOnSet(w, segs) /\ \A g \in segs : w[g] \in Nat
    BY <2>2, DueBySegments
  <2> QED  BY <2>1, <2>3, Zenon
<1>6. Whole \in Nat \ {0}
  BY ReportsAssumption
<1>7. calm \subseteq segs /\ IsFiniteSet(calm)
  BY <1>2, FS_Subset
<1>8. \A g \in calm : n[g] \in Nat /\ n[g] = Length(g)
  BY <1>2
<1>9. quiet \in Nat
  <2> HIDE DEF n, calm, quiet
  <2> QED  BY <1>3, <1>7, <1>8, SumNat
<1>10. CASE p = h.declared
  <2>1. \A g \in segs : w[g] = IF g \in calm THEN Whole * Length(g) ELSE 0
    <3>1. \A g \in segs : DueIn(C, h.declared, p, FALSE, g) = IF g \in calm THEN Whole ELSE 0
      BY <1>10 DEF DueIn
    <3> HIDE DEF calm, segs, w
    <3>2. \A g \in segs : 0 * Length(g) = 0
      BY <1>2
    <3> QED  BY <1>4, <3>1, <3>2, Zenon
  <2> HIDE DEF w, n, calm, segs, quiet, due
  <2>2. \A g \in calm : n[g] \in Int /\ w[g] = Whole * n[g]
    BY <1>7, <1>8, <2>1
  <2>3. \A g \in segs : w[g] \in Int /\ (g \notin calm => w[g] = 0)
    BY <1>5, <2>1
  <2>4. SumFunctionOnSet(w, segs) = SumFunctionOnSet(w, calm)
    BY <1>2, <1>7, <2>3, SumPart
  <2>5. SumFunctionOnSet(w, calm) = Whole * SumFunctionOnSet(n, calm)
    BY <1>6, <1>7, <2>2, SumTimes
  <2>6. due = Whole * quiet
    BY <1>3, <1>5, <2>4, <2>5
  <2> QED  BY <1>9, <1>10, <2>6 DEF quiet, due, segs
<1>11. CASE p # h.declared
  <2>1. \A g \in segs : DueIn(C, h.declared, p, FALSE, g) = 0
    BY <1>11 DEF DueIn
  <2> HIDE DEF w, n, calm, segs, quiet, due
  <2>4. \A g \in segs : 0 * Length(g) = 0
    BY <1>2
  <2>2. \A g \in segs : w[g] = 0
    BY <1>4, <2>1, <2>4, Zenon
  <2>3. due = 0
    BY <1>2, <1>5, <2>2, SumZero
  <2> QED  BY <1>9, <1>11, <2>3 DEF quiet, due, segs
<1> QED  BY <1>10, <1>11

\* From parts of ticks to seconds: two bounds make one.
LEMMA Slack ==
    ASSUME NEW k \in Nat \ {0}, NEW s \in Nat \ {0}, NEW sec \in Int, NEW m \in Nat, NEW due \in Nat, NEW n \in Nat,
           sec * s - m < s, m - sec * s < s, k * m - due <= k * (2 * n), due - k * m <= k * (2 * n)
    PROVE  /\ sec * s * k - due < k * (s + 2 * n) /\ due - sec * s * k < k * (s + 2 * n)
           /\ sec > 0 => m > 0
           /\ due >= k * (s + 2 * n) => sec > 0
<1>1. PICK g, y, z, v \in Int : g = sec * s /\ y = k * (2 * n) /\ z = k * m /\ v = k * s
  OBVIOUS
<1>2. sec * s * k = k * g /\ k * g \in Int
  BY <1>1
<1>3. k * (s + 2 * n) = v + y
  BY <1>1
<1>4. k * (g - m) = k * g - z /\ k * (m - g) = z - k * g
  BY <1>1
<1>5. g - m <= s - 1 /\ m - g <= s - 1
  BY <1>1
<1>6. \A a, b \in Int : a <= b => k * a <= k * b
  OBVIOUS
<1>7. k * (s - 1) = v - k /\ s - 1 \in Int /\ g - m \in Int /\ m - g \in Int
  BY <1>1
<1>8. k * (g - m) <= v - k /\ k * (m - g) <= v - k
  BY <1>5, <1>6, <1>7
<1>9. k * g - z <= v - k /\ z - k * g <= v - k
  BY <1>4, <1>8
<1>10. /\ k * g - due < v + y /\ due - k * g < v + y
  BY <1>1, <1>2, <1>9
<1>11. sec > 0 => m > 0
  <2> SUFFICES ASSUME sec > 0 PROVE m > 0
    OBVIOUS
  <2>1. g >= s
    <3>1. \A a \in Nat \ {0} : a * s >= s
      OBVIOUS
    <3> QED  BY <1>1, <3>1
  <2> QED  BY <1>1, <2>1
<1>12. due >= v + y => sec > 0
  <2> SUFFICES ASSUME due >= v + y, sec <= 0 PROVE FALSE
    OBVIOUS
  <2>1. z >= v
    BY <1>1
  <2>2. m >= s
    <3> SUFFICES ASSUME m <= s - 1 PROVE FALSE
      OBVIOUS
    <3>1. k * m <= k * (s - 1)
      BY <1>6
    <3> QED  BY <1>1, <1>7, <2>1, <3>1
  <2>3. g <= 0
    <3>1. \A a \in Int : a <= 0 => a * s <= 0
      OBVIOUS
    <3> QED  BY <1>1, <3>1
  <2> QED  BY <1>1, <2>2, <2>3
<1> QED  BY <1>1, <1>2, <1>3, <1>10, <1>11, <1>12

\* A part has about what it is due; and who is due anything to speak of has a part.
LEMMA PartNear ==
    ASSUME NEW h, h.spans \subseteq SpanSet, IsFiniteSet(h.spans), h.from \in Int, h.to \in Int, h.from < h.to,
           h.declared \in Projects,
           NEW C, C = Owned(h.spans, h.from, h.to), NEW x \in PartsOf(h.declared, C)
    PROVE  LET micros == MicrosOf(h.declared, C, Segments(C, h.from, h.to))
               due    == Due(h, x[1], x[2])
           IN  /\ micros[x] \in Nat /\ due \in Nat /\ (micros[x] > 0 => due > 0)
               /\ Whole * micros[x] - due <= Whole * (2 * Cardinality(h.spans))
               /\ due - Whole * micros[x] <= Whole * (2 * Cardinality(h.spans))
<1> DEFINE segs == Segments(C, h.from, h.to)
           micros == MicrosOf(h.declared, C, segs)
           n == Cardinality(h.spans)
<1>1. WellClipped(C, h.from, h.to)
  BY OwnedWell
<1>2. micros[x] = IF x[2] THEN Evidenced(C, segs, x[1]) ELSE QuietOf(C, segs)
  BY DEF MicrosOf
<1>3. Whole \in Nat \ {0} /\ n \in Nat
  BY ReportsAssumption, FS_CardinalityType
<1>4. CASE x \in {<<s.project, TRUE>> : s \in C}
  <2>1. PICK s \in C : x = <<s.project, TRUE>>
    BY <1>4
  <2>2. PICK p \in Projects : p = s.project
    BY <1>1 DEF WellClipped
  <2>3. micros[x] = Evidenced(C, segs, p)
    BY <1>2, <2>1, <2>2
  <2>4. Due(h, x[1], x[2]) = Due(h, p, TRUE)
    BY <2>1, <2>2
  <2>5. LET given == Evidenced(C, segs, p)
            due   == Due(h, p, TRUE)
        IN  /\ given \in Nat /\ due \in Nat /\ (given > 0 => due > 0)
            /\ Whole * given - due <= Whole * (2 * n)
            /\ due - Whole * given <= Whole * (2 * n)
    BY EvidencedNear
  <2> HIDE DEF micros, segs, n
  <2>6. /\ micros[x] \in Nat /\ Due(h, x[1], x[2]) \in Nat /\ (micros[x] > 0 => Due(h, x[1], x[2]) > 0)
        /\ Whole * micros[x] - Due(h, x[1], x[2]) <= Whole * (2 * n)
        /\ Due(h, x[1], x[2]) - Whole * micros[x] <= Whole * (2 * n)
    BY <2>3, <2>4, <2>5, Zenon
  <2> QED  BY <2>6 DEF micros, segs, n
<1>5. CASE x = <<h.declared, FALSE>>
  <2>1. PICK p \in Projects : p = h.declared
    OBVIOUS
  <2>2. micros[x] = QuietOf(C, segs)
    BY <1>2, <1>5
  <2>3. Due(h, x[1], x[2]) = Due(h, p, FALSE)
    BY <1>5, <2>1
  <2>4. QuietOf(C, segs) \in Nat /\ Due(h, p, FALSE) = IF p = h.declared THEN Whole * QuietOf(C, segs) ELSE 0
    BY QuietIs
  <2>5. PICK q \in Nat : q = QuietOf(C, segs)
    BY <2>4
  <2> HIDE DEF micros, segs, n
  <2>6. micros[x] = q /\ Due(h, x[1], x[2]) = Whole * q
    BY <2>1, <2>2, <2>3, <2>4, <2>5
  <2>7. PICK v, y \in Nat : v = Whole * q /\ y = Whole * (2 * n) /\ (q > 0 => v > 0)
    BY <1>3
  <2>8. /\ micros[x] \in Nat /\ Due(h, x[1], x[2]) \in Nat /\ (micros[x] > 0 => Due(h, x[1], x[2]) > 0)
        /\ Whole * micros[x] - Due(h, x[1], x[2]) <= Whole * (2 * n)
        /\ Due(h, x[1], x[2]) - Whole * micros[x] <= Whole * (2 * n)
    BY <2>6, <2>7
  <2> QED  BY <2>8 DEF micros, segs, n
<1> QED  BY <1>4, <1>5 DEF PartsOf

LEMMA DuePart ==
    ASSUME NEW h, h.spans \subseteq SpanSet, IsFiniteSet(h.spans), h.from \in Int, h.to \in Int, h.from < h.to,
           h.declared \in Projects,
           NEW C, C = Owned(h.spans, h.from, h.to), NEW p \in Projects, NEW e \in BOOLEAN,
           Due(h, p, e) >= Whole * (Second + 2 * Cardinality(h.spans))
    PROVE  <<p, e>> \in PartsOf(h.declared, C)
<1> DEFINE segs == Segments(C, h.from, h.to)
           n == Cardinality(h.spans)
           given == Evidenced(C, segs, p)
<1>1. WellClipped(C, h.from, h.to)
  BY OwnedWell
<1>2. Whole \in Nat \ {0} /\ n \in Nat /\ Second \in Nat \ {0}
  BY ReportsAssumption, FS_CardinalityType, SecondPositive
<1>3. PICK y, v \in Nat : y = Whole * (2 * n) /\ v = Whole * Second /\ Whole * (Second + 2 * n) = v + y /\ v > 0
  <2>1. \A a, b \in Nat \ {0}, c \in Nat :
          /\ a * (2 * c) \in Nat /\ a * b \in Nat /\ a * (b + 2 * c) = a * b + a * (2 * c) /\ a * b > 0
    OBVIOUS
  <2> HIDE DEF n
  <2>2. /\ Whole * (2 * n) \in Nat /\ Whole * Second \in Nat
        /\ Whole * (Second + 2 * n) = Whole * Second + Whole * (2 * n) /\ Whole * Second > 0
    BY <1>2, <2>1, Zenon
  <2> QED  BY <2>2
<1>4. CASE e = TRUE
  <2>1. Due(h, p, TRUE) >= v + y
    BY <1>3, <1>4, Zenon
  <2>2. given \in Nat /\ Due(h, p, TRUE) \in Nat /\ Due(h, p, TRUE) - Whole * given <= Whole * (2 * n)
    BY EvidencedNear
  <2>3. given # 0
    <3> SUFFICES ASSUME given = 0 PROVE FALSE
      OBVIOUS
    <3>1. Whole * given = 0
      BY <1>2
    <3>2. PICK d \in Nat : d = Due(h, p, TRUE)
      BY <2>2
    <3> HIDE DEF given, n
    <3>3. d >= v + y /\ d - 0 <= y
      BY <1>3, <2>1, <2>2, <3>1, <3>2
    <3> QED  BY <1>3, <3>3
  <2>4. p \in {s.project : s \in C}
    <3> SUFFICES ASSUME p \notin {s.project : s \in C} PROVE FALSE
      OBVIOUS
    <3> DEFINE f == [g \in segs |-> IF p \in Active(C, g) THEN ShareOf(Active(C, g), p, Length(g)) ELSE 0]
    <3>1. \A g \in segs : f[g] = 0
      BY DEF Active
    <3>2. given = SumFunctionOnSet(f, segs)
      BY DEF Evidenced, SumFunction
    <3>3. IsFiniteSet(segs)
      BY <1>1, SegmentsWell
    <3> HIDE DEF f, segs, given
    <3> QED  BY <2>3, <3>1, <3>2, <3>3, SumZero
  <2>5. <<p, TRUE>> \in PartsOf(h.declared, C)
    BY <2>4 DEF PartsOf
  <2> QED  BY <1>4, <2>5, Zenon
<1>5. CASE e = FALSE
  <2>1. Due(h, p, FALSE) >= v + y
    BY <1>3, <1>5, Zenon
  <2>2. QuietOf(C, segs) \in Nat /\ Due(h, p, FALSE) = IF p = h.declared THEN Whole * QuietOf(C, segs) ELSE 0
    BY QuietIs
  <2>3. p = h.declared
    <3> SUFFICES ASSUME p # h.declared PROVE FALSE
      OBVIOUS
    <3>1. PICK d : d = Due(h, p, FALSE)
      OBVIOUS
    <3>2. d = 0
      BY <2>2, <3>1, Zenon
    <3>3. d >= v + y
      BY <2>1, <3>1, Zenon
    <3> QED  BY <1>3, <3>2, <3>3
  <2>4. <<p, FALSE>> \in PartsOf(h.declared, C)
    BY <2>3 DEF PartsOf
  <2> QED  BY <1>5, <2>4, Zenon
<1> QED  BY <1>4, <1>5

\* A session's allocations, each against a count by ticks.
LEMMA AllocsNear ==
    ASSUME NEW h, h.spans \subseteq SpanSet, IsFiniteSet(h.spans), h.from \in Int, h.to \in Int, h.from < h.to,
           h.declared \in Projects, h.allocs = Apportion(h.declared, h.from, h.to, h.spans)
    PROVE  LET slack == Whole * (Second + 2 * Cardinality(h.spans)) IN
           /\ \A a \in h.allocs :
                 LET due   == Due(h, a.project, a.evidenced)
                     given == a.seconds * Second * Whole
                 IN  due > 0 /\ given - due < slack /\ due - given < slack
           /\ \A p \in Projects, e \in BOOLEAN :
                 Due(h, p, e) >= slack => \E a \in h.allocs : a.project = p /\ a.evidenced = e
<1> DEFINE slack == Whole * (Second + 2 * Cardinality(h.spans))
           C == Owned(h.spans, h.from, h.to)
           parts == PartsOf(h.declared, C)
           micros == MicrosOf(h.declared, C, Segments(C, h.from, h.to))
           secs == WholeSeconds(parts, micros, h.to - h.from)
           n == Cardinality(h.spans)
           alloc(x) == [project |-> x[1], evidenced |-> x[2], seconds |-> secs[x]]
<1>1. WellClipped(C, h.from, h.to)
  BY OwnedWell
<1>2. h.allocs = {alloc(x) : x \in {y \in parts : secs[y] > 0}}
  <2>1. ~(h.to <= h.from)
    OBVIOUS
  <2> QED  BY <2>1, ApportionIs
<1>3. Whole \in Nat \ {0} /\ n \in Nat /\ Second \in Nat \ {0}
  BY ReportsAssumption, FS_CardinalityType, SecondPositive
<1>4. parts \subseteq Int \X BOOLEAN
  <2>1. Projects \subseteq Int
    BY AttributionAssumption
  <2>2. \A s \in C : s.project \in Int
    BY <1>1, <2>1 DEF WellClipped
  <2>3. h.declared \in Int
    BY <2>1
  <2> HIDE DEF C
  <2>4. ASSUME NEW x \in parts PROVE x \in Int \X BOOLEAN
    <3>1. (\E s \in C : x = <<s.project, TRUE>>) \/ x = <<h.declared, FALSE>>
      BY DEF PartsOf
    <3>2. PICK i \in Int, e \in BOOLEAN : x = <<i, e>>
      BY <2>2, <2>3, <3>1, Zenon
    <3> QED  BY <3>2
  <2> QED  BY <2>4
<1>5. /\ IsFiniteSet(parts) /\ (\A x \in parts : micros[x] \in Nat)
      /\ SumFunctionOnSet(micros, parts) = h.to - h.from
  <2> HIDE DEF C
  <2> QED  BY <1>1, MicrosAddUp
<1> HIDE DEF micros, parts, C
<1>6. \A x \in parts : secs[x] \in Int /\ secs[x] * Second - micros[x] < Second /\ micros[x] - secs[x] * Second < Second
  <2>1. \A x \in parts : micros[x] \in Int
    BY <1>5
  <2>2. PICK total : total = h.to - h.from /\ total = SumFunctionOnSet(micros, parts)
    BY <1>5
  <2>3. \A x \in parts : /\ WholeSeconds(parts, micros, total)[x] \in Int
                         /\ WholeSeconds(parts, micros, total)[x] * Second - micros[x] < Second
                         /\ micros[x] - WholeSeconds(parts, micros, total)[x] * Second < Second
    BY <1>4, <1>5, <2>1, <2>2, SecondsOf
  <2> QED  BY <2>2, <2>3
<1> HIDE DEF secs
<1>7. ASSUME NEW x \in parts
      PROVE  /\ secs[x] * Second * Whole - Due(h, x[1], x[2]) < slack
             /\ Due(h, x[1], x[2]) - secs[x] * Second * Whole < slack
             /\ secs[x] > 0 => Due(h, x[1], x[2]) > 0
             /\ Due(h, x[1], x[2]) >= slack => secs[x] > 0
  <2>1. LET due == Due(h, x[1], x[2]) IN
          /\ micros[x] \in Nat /\ due \in Nat /\ (micros[x] > 0 => due > 0)
          /\ Whole * micros[x] - due <= Whole * (2 * n)
          /\ due - Whole * micros[x] <= Whole * (2 * n)
    BY PartNear DEF micros, parts, C
  <2>2. PICK due : due = Due(h, x[1], x[2])
    OBVIOUS
  <2>3. /\ micros[x] \in Nat /\ due \in Nat /\ (micros[x] > 0 => due > 0)
        /\ Whole * micros[x] - due <= Whole * (2 * n)
        /\ due - Whole * micros[x] <= Whole * (2 * n)
    BY <2>1, <2>2, Zenon
  <2> HIDE DEF n
  <2>4. /\ secs[x] * Second * Whole - due < Whole * (Second + 2 * n)
        /\ due - secs[x] * Second * Whole < Whole * (Second + 2 * n)
        /\ secs[x] > 0 => micros[x] > 0
        /\ due >= Whole * (Second + 2 * n) => secs[x] > 0
    BY <1>3, <1>6, <2>3, Slack
  <2> QED  BY <2>2, <2>3, <2>4, Zenon DEF n
<1>8. ASSUME NEW a \in h.allocs
      PROVE  /\ Due(h, a.project, a.evidenced) > 0
             /\ a.seconds * Second * Whole - Due(h, a.project, a.evidenced) < slack
             /\ Due(h, a.project, a.evidenced) - a.seconds * Second * Whole < slack
  <2>1. PICK x \in parts : secs[x] > 0 /\ a = alloc(x)
    BY <1>2
  <2>2. a.project = x[1] /\ a.evidenced = x[2] /\ a.seconds = secs[x]
    BY <2>1
  <2> HIDE DEF slack
  <2> QED  BY <1>7, <2>1, <2>2, Zenon
<1>9. ASSUME NEW p \in Projects, NEW e \in BOOLEAN, Due(h, p, e) >= slack
      PROVE  \E a \in h.allocs : a.project = p /\ a.evidenced = e
  <2>1. <<p, e>> \in parts
    BY <1>9, DuePart DEF parts, C
  <2>2. PICK x \in parts : x = <<p, e>>
    BY <2>1
  <2>3. x[1] = p /\ x[2] = e
    BY <2>2
  <2> HIDE DEF slack
  <2>4. secs[x] > 0
    BY <1>7, <1>9, <2>3, Zenon
  <2>5. alloc(x) \in h.allocs
    BY <1>2, <2>4
  <2>6. alloc(x).project = p /\ alloc(x).evidenced = e
    BY <2>3
  <2> HIDE DEF alloc
  <2> QED  BY <2>5, <2>6
<1> HIDE DEF slack
<1>10. /\ \A a \in h.allocs :
             LET due   == Due(h, a.project, a.evidenced)
                 given == a.seconds * Second * Whole
             IN  due > 0 /\ given - due < slack /\ due - given < slack
       /\ \A p \in Projects, e \in BOOLEAN :
             Due(h, p, e) >= slack => \E a \in h.allocs : a.project = p /\ a.evidenced = e
  BY <1>8, <1>9, Zenon
<1> QED  BY <1>10, Zenon DEF slack

-------------------------------------------------------------------------------
(* The ticks some span covers.                                             *)

LatestSpan(S) == CHOOSE s \in S : \A x \in S : x.from <= s.from
Laid(s, acc) ==
    IF s.from > acc.to THEN [total |-> acc.total + acc.to - acc.from, from |-> s.from, to |-> s.to]
                       ELSE [acc EXCEPT !.to = Larger(@, s.to)]
Opening(spans) ==
    LET first == Min({s.from : s \in spans}) IN [total |-> 0, from |-> first, to |-> first]
Laying(g, spans) ==
    g = [S \in SUBSET spans |-> IF S = {} THEN Opening(spans) ELSE Laid(LatestSpan(S), g[S \ {LatestSpan(S)}])]

LEMMA UnionIs ==
    ASSUME NEW spans, spans # {}, NEW h, Laying(h, spans)
    PROVE  \E g : Laying(g, spans) /\ UnionMicros(spans) = g[spans].total + g[spans].to - g[spans].from
<1> DEFINE g == CHOOSE k : Laying(k, spans)
<1>1. Laying(g, spans)
  OBVIOUS
<1>2. UnionMicros(spans) = g[spans].total + g[spans].to - g[spans].from
  BY DEF UnionMicros, Laying, LatestSpan, Laid, Opening, MapThenFoldSet
<1> QED  BY <1>1, <1>2

SpansWell(spans) == IsFiniteSet(spans) /\ \A s \in spans : s.from \in Int /\ s.to \in Int /\ s.from < s.to
Covered(spans)   == {t \in Int : \E s \in spans : s.from <= t /\ t < s.to}

LEMMA LatestSpanIn ==
    ASSUME NEW spans, SpansWell(spans), NEW S, S \subseteq spans, S # {}
    PROVE  LatestSpan(S) \in S /\ \A x \in S : x.from <= LatestSpan(S).from
<1> DEFINE from == [s \in S |-> s.from]
           starts == {from[s] : s \in S}
<1>1. \A s \in S : from[s] = s.from /\ s.from \in Int
  BY DEF SpansWell
<1>2. IsFiniteSet(S)
  BY FS_Subset DEF SpansWell
<1> HIDE DEF from
<1>3. IsFiniteSet(starts)
  BY <1>2, FiniteImage
<1>4. starts \subseteq Int /\ starts # {}
  BY <1>1
<1>5. PICK m \in starts : \A x \in starts : x <= m
  <2> HIDE DEF starts
  <2> QED  BY <1>3, <1>4, EndsOf
<1>6. PICK s \in S : m = from[s]
  BY <1>5
<1>7. \A x \in S : from[x] <= from[s]
  BY <1>5, <1>6
<1>8. \E k \in S : \A x \in S : x.from <= k.from
  BY <1>1, <1>7
<1> QED  BY <1>8 DEF LatestSpan

Laps == [total : Nat, from : Int, to : Int]

\* What is laid out of the spans `S': the ticks before the open stretch are counted, the open
\* stretch covers all the others.
LaidOut(spans, S, acc) ==
    /\ acc \in Laps /\ acc.from <= acc.to
    /\ S = {} => acc = Opening(spans)
    /\ S # {} => \E s \in S : acc.from <= s.from
    /\ IsFiniteSet({t \in Covered(S) : t < acc.from}) /\ Cardinality({t \in Covered(S) : t < acc.from}) = acc.total
    /\ \A t \in Int : acc.from <= t => (t \in Covered(S) <=> t < acc.to)

\* All that is laid out is counted.
LEMMA LaidCount ==
    ASSUME NEW spans, NEW S, NEW acc, LaidOut(spans, S, acc)
    PROVE  IsFiniteSet(Covered(S)) /\ Cardinality(Covered(S)) = acc.total + acc.to - acc.from
<1> DEFINE before == {t \in Covered(S) : t < acc.from}
           open == acc.from .. acc.to - 1
<1>1. acc.total \in Nat /\ acc.from \in Int /\ acc.to \in Int /\ acc.from <= acc.to
  BY DEF LaidOut, Laps
<1>2. IsFiniteSet(before) /\ Cardinality(before) = acc.total
  BY DEF LaidOut
<1>3. IsFiniteSet(open) /\ Cardinality(open) = acc.to - acc.from
  <2>1. PICK a, b \in Int : a = acc.from /\ b = acc.to - 1
    BY <1>1
  <2>2. IsFiniteSet(a .. b) /\ Cardinality(a .. b) = IF a > b THEN 0 ELSE b - a + 1
    BY FS_Interval
  <2> QED  BY <1>1, <2>1, <2>2
<1>4. before \cap open = {}
  BY <1>1
<1>5. Covered(S) = before \cup open
  <2>1. ASSUME NEW t \in Covered(S) PROVE t \in before \cup open
    <3>1. t \in Int /\ (acc.from <= t => t < acc.to)
      BY DEF LaidOut, Covered
    <3> QED  BY <1>1, <3>1
  <2>2. ASSUME NEW t \in open PROVE t \in Covered(S)
    <3>1. t \in Int /\ acc.from <= t /\ t < acc.to
      BY <1>1
    <3> QED  BY <3>1 DEF LaidOut
  <2> HIDE DEF open
  <2> QED  BY <2>1, <2>2
<1> HIDE DEF before, open
<1>6. IsFiniteSet(before \cup open) /\ Cardinality(before \cup open) = Cardinality(before) + Cardinality(open) - Cardinality(before \cap open)
  BY <1>2, <1>3, FS_Union
<1>7. Cardinality(before \cap open) = 0
  BY <1>4, FS_EmptySet
<1> QED  BY <1>1, <1>2, <1>3, <1>5, <1>6, <1>7

\* The start of the first span.
LEMMA OpeningAt ==
    ASSUME NEW spans, SpansWell(spans), spans # {}
    PROVE  Opening(spans) \in Laps /\ \A s \in spans : Opening(spans).from <= s.from
<1> DEFINE from == [s \in spans |-> s.from]
           starts == {from[s] : s \in spans}
<1>1. starts = {s.from : s \in spans} /\ \A s \in spans : s.from \in starts
  OBVIOUS
<1>2. IsFiniteSet(starts)
  <2> HIDE DEF from
  <2> QED  BY FiniteImage DEF SpansWell
<1>3. starts \subseteq Int /\ starts # {}
  BY DEF SpansWell
<1>4. Min(starts) \in Int /\ \A x \in starts : Min(starts) <= x
  <2> HIDE DEF starts
  <2> QED  BY <1>2, <1>3, EndsOf
<1>5. PICK m \in Int : m = Min({s.from : s \in spans}) /\ \A s \in spans : m <= s.from
  <2> HIDE DEF starts
  <2> QED  BY <1>1, <1>4
<1>6. Opening(spans) = [total |-> 0, from |-> m, to |-> m]
  BY <1>5 DEF Opening
<1> QED  BY <1>5, <1>6 DEF Laps

\* The span that starts next is laid, and what holds stays.
LEMMA LaidMore ==
    ASSUME NEW spans, SpansWell(spans), NEW S, S \subseteq spans, NEW x \in spans \ S,
           \A s \in S : s.from <= x.from, NEW acc, LaidOut(spans, S, acc)
    PROVE  LaidOut(spans, S \cup {x}, Laid(x, acc))
<1> DEFINE next == Laid(x, acc)
           T == S \cup {x}
<1>1. /\ acc.total \in Nat /\ acc.from \in Int /\ acc.to \in Int /\ acc.from <= acc.to
      /\ acc = [total |-> acc.total, from |-> acc.from, to |-> acc.to]
  BY DEF LaidOut, Laps
<1>2. x.from \in Int /\ x.to \in Int /\ x.from < x.to /\ x \in T /\ T # {}
  BY DEF SpansWell
<1>3. acc.from <= x.from
  <2>1. CASE S = {}
    <3>1. acc.from = Opening(spans).from
      BY <2>1 DEF LaidOut
    <3> QED  BY <3>1, OpeningAt
  <2>2. CASE S # {}
    <3>1. PICK s \in S : acc.from <= s.from
      BY <2>2 DEF LaidOut
    <3>2. s.from <= x.from /\ s.from \in Int
      BY DEF SpansWell
    <3> QED  BY <1>1, <1>2, <3>1, <3>2
  <2> QED  BY <2>1, <2>2
<1>4. \A t \in Int : t \in Covered(T) <=> t \in Covered(S) \/ (x.from <= t /\ t < x.to)
  BY DEF Covered
<1>5. \A t \in Int : acc.from <= t => (t \in Covered(S) <=> t < acc.to)
  BY DEF LaidOut
<1>6. Covered(S) \subseteq Int /\ Covered(T) \subseteq Int
  BY DEF Covered
<1> HIDE DEF T
<1>7. CASE x.from > acc.to
  <2>1. PICK sum \in Nat : sum = acc.total + acc.to - acc.from
    BY <1>1
  <2>2. next = [total |-> sum, from |-> x.from, to |-> x.to]
    BY <1>7, <2>1 DEF Laid
  <2>3. next \in Laps /\ next.from = x.from /\ next.to = x.to /\ next.total = sum
    BY <1>2, <2>1, <2>2 DEF Laps
  <2>4. \A t \in Covered(S) : t < x.from
    BY <1>1, <1>2, <1>5, <1>6, <1>7
  <2>5. {t \in Covered(T) : t < x.from} = Covered(S)
    BY <1>2, <1>4, <1>6, <2>4
  <2>6. IsFiniteSet(Covered(S)) /\ Cardinality(Covered(S)) = sum
    BY <2>1, LaidCount
  <2>7. \A t \in Int : x.from <= t => (t \in Covered(T) <=> t < x.to)
    BY <1>1, <1>2, <1>3, <1>4, <1>5, <1>7
  <2> HIDE DEF next
  <2>8. LaidOut(spans, T, next)
    BY <1>2, <2>3, <2>5, <2>6, <2>7 DEF LaidOut
  <2> QED  BY <2>8 DEF T, next
<1>8. CASE ~(x.from > acc.to)
  <2>1. PICK end \in Int : end = Larger(acc.to, x.to) /\ acc.to <= end /\ x.to <= end /\ (end = acc.to \/ end = x.to)
    BY <1>1, <1>2 DEF Larger
  <2>2. next = [total |-> acc.total, from |-> acc.from, to |-> end]
    BY <1>1, <1>8, <2>1 DEF Laid
  <2>3. next \in Laps /\ next.from = acc.from /\ next.to = end /\ next.total = acc.total
    BY <1>1, <2>1, <2>2 DEF Laps
  <2>4. {t \in Covered(T) : t < acc.from} = {t \in Covered(S) : t < acc.from}
    BY <1>1, <1>2, <1>3, <1>4, <1>6
  <2>5. /\ IsFiniteSet({t \in Covered(S) : t < acc.from})
        /\ Cardinality({t \in Covered(S) : t < acc.from}) = acc.total
    BY DEF LaidOut
  <2>6. \A t \in Int : acc.from <= t => (t \in Covered(T) <=> t < end)
    BY <1>1, <1>2, <1>3, <1>4, <1>5, <1>8, <2>1
  <2>7. acc.from <= end
    BY <1>1, <2>1
  <2> HIDE DEF next
  <2>8. LaidOut(spans, T, next)
    BY <1>2, <1>3, <2>3, <2>4, <2>5, <2>6, <2>7 DEF LaidOut
  <2> QED  BY <2>8 DEF T, next
<1> QED  BY <1>7, <1>8

\* The micros of a union of spans are the ticks they cover.
LEMMA UnionCounts ==
    ASSUME NEW spans, SpansWell(spans), spans # {}
    PROVE  UnionMicros(spans) = Cardinality(Covered(spans))
<1> DEFINE base == Opening(spans)
           pick == [S \in SUBSET spans |-> LatestSpan(S)]
           V == [total : Int, from : Int, to : Int]
           step == [x \in spans |-> [v \in V |-> Laid(x, v)]]
<1>1. IsFiniteSet(spans)
  BY DEF SpansWell
<1>2. \A S \in SUBSET spans : S # {} => pick[S] \in S
  BY LatestSpanIn
<1>3. base \in V /\ base \in Laps
  BY OpeningAt DEF Laps
<1>4. ASSUME NEW x \in spans, NEW v \in V PROVE Laid(x, v) \in V
  <2>1. /\ x.from \in Int /\ x.to \in Int /\ v.total \in Int /\ v.from \in Int /\ v.to \in Int
        /\ v = [total |-> v.total, from |-> v.from, to |-> v.to]
    BY DEF SpansWell
  <2>2. Larger(v.to, x.to) \in Int /\ v.total + v.to - v.from \in Int
    BY <2>1 DEF Larger
  <2>3. CASE x.from > v.to
    BY <2>1, <2>2, <2>3 DEF Laid
  <2>4. CASE ~(x.from > v.to)
    <3>1. Laid(x, v) = [total |-> v.total, from |-> v.from, to |-> Larger(v.to, x.to)]
      BY <2>1, <2>4 DEF Laid
    <3> QED  BY <2>1, <2>2, <3>1
  <2> QED  BY <2>3, <2>4
<1>5. \A x \in spans, v \in V : step[x][v] \in V
  <2> HIDE DEF V
  <2> QED  BY <1>4
<1>6. \E h \in [SUBSET spans -> V] : Folds1(h, base, pick, step, spans)
  <2> HIDE DEF V, base, pick, step
  <2> QED  BY <1>1, <1>2, <1>3, <1>5, FoldExists
<1>7. PICK h \in [SUBSET spans -> V] : Folds1(h, base, pick, step, spans)
  BY <1>6
<1>8. Laying(h, spans)
  <2>1. ASSUME NEW S \in SUBSET spans
        PROVE  h[S] = IF S = {} THEN Opening(spans) ELSE Laid(LatestSpan(S), h[S \ {LatestSpan(S)}])
    <3>1. h[S] = IF S = {} THEN base ELSE step[pick[S]][h[S \ {pick[S]}]]
      <4> HIDE DEF base, pick, step
      <4> QED  BY <1>7 DEF Folds1
    <3>2. CASE S = {}
      BY <3>1, <3>2
    <3>3. CASE S # {}
      <4>1. pick[S] = LatestSpan(S) /\ LatestSpan(S) \in spans
        BY <3>3, <1>2
      <4>2. h[S \ {LatestSpan(S)}] \in V
        <5>1. S \ {LatestSpan(S)} \in SUBSET spans
          OBVIOUS
        <5> HIDE DEF V
        <5> QED  BY <1>7, <5>1
      <4>3. step[LatestSpan(S)][h[S \ {LatestSpan(S)}]] = Laid(LatestSpan(S), h[S \ {LatestSpan(S)}])
        <5> HIDE DEF V
        <5> QED  BY <4>1, <4>2
      <4> QED  BY <3>1, <3>3, <4>1, <4>3
    <3> QED  BY <3>2, <3>3
  <2> HIDE DEF V
  <2> QED  BY <1>7, <2>1 DEF Laying
<1>9. PICK g : Laying(g, spans) /\ UnionMicros(spans) = g[spans].total + g[spans].to - g[spans].from
  BY <1>8, UnionIs
<1>10. \A S \in SUBSET spans : g[S] = IF S = {} THEN Opening(spans) ELSE Laid(LatestSpan(S), g[S \ {LatestSpan(S)}])
  BY <1>9 DEF Laying
<1> DEFINE F == {S \in SUBSET spans : LaidOut(spans, S, g[S])}
<1>11. {} \in F
  <2>1. g[{}] = base
    BY <1>10
  <2>2. base.total = 0 /\ base.from = base.to /\ base.from \in Int
    BY <1>3 DEF Opening, Laps
  <2>3. Covered({}) = {}
    BY DEF Covered
  <2>4. {t \in Covered({}) : t < base.from} = {}
    BY <2>3
  <2> HIDE DEF base
  <2>5. IsFiniteSet({t \in Covered({}) : t < base.from}) /\ Cardinality({t \in Covered({}) : t < base.from}) = base.total
    BY <2>2, <2>4, FS_EmptySet
  <2>6. \A t \in Int : base.from <= t => (t \in Covered({}) <=> t < base.to)
    BY <2>2, <2>3
  <2>7. LaidOut(spans, {}, base)
    BY <1>3, <2>2, <2>5, <2>6 DEF LaidOut, base
  <2> QED  BY <2>1, <2>7
<1>12. ASSUME NEW S \in SUBSET spans, S # {}, \A x \in S : S \ {x} \in F PROVE S \in F
  <2> DEFINE x == LatestSpan(S)
             R == S \ {x}
  <2>1. x \in S /\ \A s \in S : s.from <= x.from
    BY <1>12, LatestSpanIn
  <2>2. LaidOut(spans, R, g[R]) /\ R \subseteq spans /\ x \in spans \ R
    BY <1>12, <2>1
  <2>3. \A s \in R : s.from <= x.from
    BY <2>1
  <2>4. g[S] = Laid(x, g[R])
    BY <1>10, <1>12
  <2>5. R \cup {x} = S
    BY <2>1
  <2> HIDE DEF x, R
  <2>6. LaidOut(spans, R \cup {x}, Laid(x, g[R]))
    BY <2>2, <2>3, LaidMore
  <2> QED  BY <2>4, <2>5, <2>6
<1>13. spans \in F
  <2> HIDE DEF F
  <2> QED  BY <1>1, <1>11, <1>12, SetInduction
<1>14. LaidOut(spans, spans, g[spans])
  BY <1>13
<1>15. Cardinality(Covered(spans)) = g[spans].total + g[spans].to - g[spans].from
  BY <1>14, LaidCount
<1> QED  BY <1>9, <1>15

\* A place nobody claims is told the ticks somebody was there.
LEMMA PlacesExact ==
    ASSUME NEW h, h.spans \subseteq SpanSet, IsFiniteSet(h.spans), h.from \in Int, h.to \in Int, h.from < h.to,
           h.places = Unresolved(h.from, h.to, h.spans), NEW q \in h.places
    PROVE  q.seconds = Rounded(Cardinality({t \in h.from .. h.to - 1 :
                  \E s \in h.spans : s.project = None /\ s.key = q.key /\ s.from <= t /\ t < s.to}))
<1> DEFINE lo == h.from
           hi == h.to
           cut == Clipped(h.spans, lo, hi)
           lost == {s \in cut : s.project = None}
           mine == {s \in lost : s.key = q.key}
           ticks == {t \in lo .. hi - 1 : \E s \in h.spans : s.project = None /\ s.key = q.key /\ s.from <= t /\ t < s.to}
<1>1. PICK s0 \in lost : q = [key |-> s0.key, seconds |-> Rounded(UnionMicros({s \in lost : s.key = s0.key}))]
  BY DEF Unresolved
<1>2. s0 \in mine /\ q.seconds = Rounded(UnionMicros(mine))
  BY <1>1
<1>3. /\ IsFiniteSet(cut) /\ cut \subseteq SpanSet
      /\ \A s \in cut : lo <= s.from /\ s.from < s.to /\ s.to <= hi
  BY ClippedOf
<1>4. mine \subseteq cut /\ \A s \in mine : s.from \in Int /\ s.to \in Int /\ s.from < s.to
  <2>1. mine \subseteq cut
    OBVIOUS
  <2> HIDE DEF cut, mine
  <2> QED  BY <1>3, <2>1 DEF SpanSet
<1>5. SpansWell(mine)
  <2> HIDE DEF cut, mine
  <2> QED  BY <1>3, <1>4, FS_Subset DEF SpansWell
<1>6. UnionMicros(mine) = Cardinality(Covered(mine))
  <2> HIDE DEF mine
  <2> QED  BY <1>2, <1>5, UnionCounts
<1>7. ASSUME NEW t \in Covered(mine) PROVE t \in ticks
  <2>1. PICK s \in mine : s.from <= t /\ t < s.to
    BY DEF Covered
  <2>2. t \in Int /\ s \in cut /\ s.project = None /\ s.key = q.key
    BY DEF Covered
  <2>3. PICK x \in h.spans : s = [x EXCEPT !.from = Larger(@, lo), !.to = Smaller(@, hi)]
    BY <2>2 DEF Clipped
  <2>4. x.from \in Int /\ x.to \in Int
    BY DEF SpanSet
  <2>5. /\ s.project = x.project /\ s.key = x.key
        /\ s.from = Larger(x.from, lo) /\ s.to = Smaller(x.to, hi)
    BY <2>3 DEF SpanSet
  <2>6. lo <= t /\ t < hi /\ x.from <= t /\ t < x.to
    BY <2>1, <2>2, <2>4, <2>5 DEF Larger, Smaller
  <2>7. t \in lo .. hi - 1
    BY <2>2, <2>6
  <2> QED  BY <2>2, <2>5, <2>6, <2>7
<1>8. ASSUME NEW t \in ticks PROVE t \in Covered(mine)
  <2>1. t \in Int /\ lo <= t /\ t < hi
    OBVIOUS
  <2>2. PICK x \in h.spans : x.project = None /\ x.key = q.key /\ x.from <= t /\ t < x.to
    OBVIOUS
  <2> DEFINE s == [x EXCEPT !.from = Larger(@, lo), !.to = Smaller(@, hi)]
  <2>3. x.from \in Int /\ x.to \in Int
    BY DEF SpanSet
  <2>4. /\ s.project = x.project /\ s.key = x.key
        /\ s.from = Larger(x.from, lo) /\ s.to = Smaller(x.to, hi)
    BY DEF SpanSet
  <2>5. s.from <= t /\ t < s.to /\ s.to > s.from
    BY <2>1, <2>2, <2>3, <2>4 DEF Larger, Smaller
  <2>6. s \in {[y EXCEPT !.from = Larger(@, lo), !.to = Smaller(@, hi)] : y \in h.spans}
    OBVIOUS
  <2>7. s \in cut
    <3> HIDE DEF s
    <3> QED  BY <2>5, <2>6 DEF Clipped
  <2> HIDE DEF s
  <2>8. s \in mine
    BY <2>2, <2>4, <2>7
  <2> HIDE DEF mine
  <2> QED  BY <2>1, <2>5, <2>8 DEF Covered
<1>9. Covered(mine) = ticks
  <2> HIDE DEF mine, ticks
  <2> QED  BY <1>7, <1>8
<1> HIDE DEF mine, ticks
<1>10. q.seconds = Rounded(Cardinality(ticks))
  BY <1>2, <1>6, <1>9
<1> QED  BY <1>10 DEF ticks

-------------------------------------------------------------------------------
(* The shares of a report.                                                 *)

ShareExact(h) ==
    /\ SumFunction([a \in h.allocs |-> a.seconds]) = IF h.to > h.from THEN Rounded(h.to - h.from) ELSE 0
    /\ \A a \in h.allocs :
          LET due   == Due(h, a.project, a.evidenced)
              given == a.seconds * Second * Whole
              slack == Whole * (Second + 2 * Cardinality(h.spans))
          IN  due > 0 /\ given - due < slack /\ due - given < slack
    /\ \A p \in Projects, e \in BOOLEAN :
          Due(h, p, e) >= Whole * (Second + 2 * Cardinality(h.spans)) =>
              \E a \in h.allocs : a.project = p /\ a.evidenced = e
    /\ \A q \in h.places : q.seconds =
          Rounded(Cardinality({t \in h.from .. h.to - 1 :
              \E s \in h.spans : s.project = None /\ s.key = q.key /\ s.from <= t /\ t < s.to}))

LEMMA SharesAreExact == ReportInv => SharesExact
<1> SUFFICES ASSUME ReportInv, NEW n \in DOMAIN report.shares
             PROVE  ShareExact(report.shares[n])
  BY Zenon DEF SharesExact, ShareExact
<1> DEFINE h == report.shares[n]
<1>0. h = report.shares[n]
  OBVIOUS
<1> HIDE DEF h
<1>1. /\ h.declared \in Projects /\ h.from \in Int /\ h.to \in Int /\ h.from < h.to
      /\ h.spans \subseteq SpanSet /\ IsFiniteSet(h.spans)
      /\ SumFunction([a \in h.allocs |-> a.seconds]) = Rounded(h.to - h.from)
  BY <1>0, ShareGiven DEF ReportInv
<1>2. h.allocs = Apportion(h.declared, h.from, h.to, h.spans) /\ h.places = Unresolved(h.from, h.to, h.spans)
  BY <1>0 DEF ReportInv, SharesOk, ShareOk
<1>3. LET slack == Whole * (Second + 2 * Cardinality(h.spans)) IN
      /\ \A a \in h.allocs :
            LET due   == Due(h, a.project, a.evidenced)
                given == a.seconds * Second * Whole
            IN  due > 0 /\ given - due < slack /\ due - given < slack
      /\ \A p \in Projects, e \in BOOLEAN :
            Due(h, p, e) >= slack => \E a \in h.allocs : a.project = p /\ a.evidenced = e
  BY <1>1, <1>2, AllocsNear
<1>4. \A q \in h.places : q.seconds =
        Rounded(Cardinality({t \in h.from .. h.to - 1 :
            \E s \in h.spans : s.project = None /\ s.key = q.key /\ s.from <= t /\ t < s.to}))
  BY <1>1, <1>2, PlacesExact
<1>5. SumFunction([a \in h.allocs |-> a.seconds]) = IF h.to > h.from THEN Rounded(h.to - h.from) ELSE 0
  <2>1. h.to > h.from
    BY <1>1
  <2> QED  BY <1>1, <2>1
<1>6. ShareExact(h)
  BY <1>3, <1>4, <1>5, Zenon DEF ShareExact
<1> QED  BY <1>0, <1>6

\* Apportioning hands out a session's rounded length, all of it and none twice, and what each
\* project gets is what a count tick by tick gives it, up to a second and a tick per boundary;
\* a place nobody claims is told exactly the ticks somebody was there (attribution.go:172-178).
THEOREM SharesHold == Spec => []SharesExact
  BY SuggestInit, SuggestStep, ClusterInit, ClusterStep, WorldInit, WorldStep, ReportInit, ReportStep, SharesAreExact,
     PTL DEF Spec

=================================================================================
