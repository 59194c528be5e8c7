----------------------------- MODULE SumLemmas ------------------------------
(***************************************************************************)
(* What SumFunction of the community modules computes, for every finite    *)
(* function to the integers. The modules add up balances, limits and       *)
(* counters with it; it is defined by a function that adds up one chosen   *)
(* element after another, and these are the laws by which proofs use it.   *)
(*                                                                         *)
(* Induction over the size of a set is replaced by its first-order form:   *)
(* if a formula failed for some subset of a finite set, it would fail for  *)
(* a smallest one.                                                         *)
(***************************************************************************)
EXTENDS Integers, FiniteSets, FiniteSetsExt, Functions, WellFoundedInduction, FiniteSetTheorems, TLAPS

\* A set of subsets of a finite set, if not empty, has a member that contains
\* no other: what induction over finite sets comes down to.
LEMMA SmallestSubset ==
  ASSUME NEW S, IsFiniteSet(S), NEW W \in SUBSET SUBSET S, W # {}
  PROVE  \E T \in W: \A U \in W: U \subseteq T => U = T
  <1>1. IsWellFoundedOn(StrictSubsetOrdering(S), SUBSET S)
    BY FS_StrictSubsetOrderingWellFounded, FS_FiniteSubsetsOfFinite
  <1>2. PICK T \in W: \A U \in W: ~ (<<U, T>> \in StrictSubsetOrdering(S))
    BY <1>1, WFMin
  <1>. QED
    BY <1>2 DEF StrictSubsetOrdering

\* The function by which the community modules add up f over a set S.
Pick(s) == CHOOSE x \in s: TRUE
Adds(g, f, S) == g = [s \in SUBSET S |-> IF s = {} THEN 0 ELSE f[Pick(s)] + g[s \ {Pick(s)}]]
Adder(f, S) == CHOOSE g: Adds(g, f, S)

\* It is the definition of the sum.
LEMMA SumIsAdded ==
  ASSUME NEW f
  PROVE  SumFunction(f) = Adder(f, DOMAIN f)[DOMAIN f]
  BY DEF SumFunction, SumFunctionOnSet, FoldFunctionOnSet, MapThenFoldSet, Adder, Adds, Pick

\* The element that is added up next is one of the set.
LEMMA PickIn ==
  ASSUME NEW s, s # {}
  PROVE  Pick(s) \in s
  BY DEF Pick

\* One step of adding up.
LEMMA AddsStep ==
  ASSUME NEW f, NEW S, NEW g, Adds(g, f, S), NEW s \in SUBSET S
  PROVE  /\ s = {} => g[s] = 0
         /\ s # {} => g[s] = f[Pick(s)] + g[s \ {Pick(s)}]
  BY DEF Adds

\* Nothing adds up to zero.
LEMMA AddsEmpty ==
  ASSUME NEW f, NEW S, NEW g, Adds(g, f, S)
  PROVE  g[{}] = 0
  <1>1. {} \in SUBSET S
    OBVIOUS
  <1>. QED
    BY <1>1 DEF Adds

\* Two sums of a set agree when the functions do.
LEMMA AddsAgree ==
  ASSUME NEW f, NEW g, NEW S, NEW F, NEW G, NEW T, Adds(g, f, S), Adds(G, F, T),
         NEW C, IsFiniteSet(C), C \subseteq S, C \subseteq T, \A x \in C: f[x] = F[x]
  PROVE  g[C] = G[C]
  <1> DEFINE W == {s \in SUBSET C: g[s] # G[s]}
  <1>1. SUFFICES ASSUME W # {} PROVE FALSE
    OBVIOUS
  <1>0. W \in SUBSET SUBSET C
    OBVIOUS
  <1>2. PICK s \in W: \A u \in W: u \subseteq s => u = s
    <2> HIDE DEF W
    <2>. QED
      BY <1>0, <1>1, SmallestSubset
  <1>3. s # {}
    <2>2. g[{}] = 0
      BY AddsEmpty
    <2>3. G[{}] = 0
      BY AddsEmpty
    <2>. QED
      BY <1>2, <2>2, <2>3
  <1> DEFINE p == Pick(s)
  <1>4. p \in s
    BY <1>3, PickIn
  <1>5. g[s] = f[p] + g[s \ {p}] /\ G[s] = F[p] + G[s \ {p}]
    <2>1. s \in SUBSET S /\ s \in SUBSET T
      BY <1>2
    <2>. QED
      BY <1>3, <2>1, AddsStep
  <1>6. g[s \ {p}] = G[s \ {p}]
    BY <1>2, <1>4
  <1>. QED
    BY <1>2, <1>4, <1>5, <1>6

\* The sum over a finite set exists.
LEMMA AddsExists ==
  ASSUME NEW f, NEW S, IsFiniteSet(S)
  PROVE  Adds(Adder(f, S), f, S)
  <1> DEFINE W == {T \in SUBSET S: ~ \E g: Adds(g, f, T)}
  <1>1. SUFFICES ASSUME W # {} PROVE FALSE
    BY DEF Adder
  <1>0. W \in SUBSET SUBSET S
    OBVIOUS
  <1>2. PICK T \in W: \A U \in W: U \subseteq T => U = T
    <2> HIDE DEF W
    <2>. QED
      BY <1>0, <1>1, SmallestSubset
  <1> DEFINE h == [s \in SUBSET T |-> IF s = {} THEN 0
                     ELSE f[Pick(s)] + Adder(f, s \ {Pick(s)})[s \ {Pick(s)}]]
  <1>3. ASSUME NEW s \in SUBSET T, s # T
        PROVE  Adds(Adder(f, s), f, s)
    BY <1>2, <1>3 DEF Adder
  <1>4. ASSUME NEW s \in SUBSET T, s # T
        PROVE  h[s] = Adder(f, s)[s]
    <2>1. CASE s = {}
      BY <1>3, <1>4, <2>1, AddsStep
    <2>2. CASE s # {}
      <3> DEFINE r == s \ {Pick(s)}
      <3>1. Pick(s) \in s /\ r \in SUBSET T /\ r # T /\ r \subseteq s /\ IsFiniteSet(r)
        BY <2>2, PickIn, FS_Subset
      <3>2. Adds(Adder(f, s), f, s) /\ Adds(Adder(f, r), f, r)
        BY <1>3, <1>4, <3>1
      <3> HIDE DEF r
      <3>3. Adder(f, s)[r] = Adder(f, r)[r]
        BY <3>1, <3>2, AddsAgree
      <3>4. Adder(f, s)[s] = f[Pick(s)] + Adder(f, s)[r]
        BY <2>2, <3>2, AddsStep DEF r
      <3>. QED
        BY <2>2, <3>3, <3>4 DEF r
    <2>. QED
      BY <2>1, <2>2
  <1>5. ASSUME NEW s \in SUBSET T, s # {}
        PROVE  h[s \ {Pick(s)}] = Adder(f, s \ {Pick(s)})[s \ {Pick(s)}]
    <2>1. Pick(s) \in s
      BY <1>5, PickIn
    <2>. QED
      BY <1>4, <2>1
  <1>6. Adds(h, f, T)
    BY <1>5 DEF Adds
  <1>. QED
    BY <1>2, <1>6

\* Sums of integers are integers.
LEMMA AddsInt ==
  ASSUME NEW f, NEW S, NEW g, Adds(g, f, S), NEW C \in SUBSET S, IsFiniteSet(C),
         \A x \in C: f[x] \in Int
  PROVE  g[C] \in Int
  <1> DEFINE W == {s \in SUBSET C: g[s] \notin Int}
  <1>0. W \in SUBSET SUBSET C
    OBVIOUS
  <1>1. SUFFICES ASSUME W # {} PROVE FALSE
    OBVIOUS
  <1>2. PICK s \in W: \A u \in W: u \subseteq s => u = s
    <2> HIDE DEF W
    <2>. QED
      BY <1>0, <1>1, SmallestSubset
  <1>3. s \in SUBSET S /\ s \in SUBSET C /\ g[s] \notin Int
    BY <1>2
  <1>4. s # {}
    <2>1. g[{}] = 0
      BY AddsEmpty
    <2>. QED
      BY <1>3, <2>1
  <1>5. Pick(s) \in s /\ g[s] = f[Pick(s)] + g[s \ {Pick(s)}]
    BY <1>3, <1>4, AddsStep, PickIn
  <1>6. g[s \ {Pick(s)}] \in Int
    BY <1>2, <1>5
  <1>. QED
    BY <1>3, <1>5, <1>6

\* The order of adding up does not matter: any element may come first.
LEMMA AddsAny ==
  ASSUME NEW f, NEW S, NEW g, Adds(g, f, S), NEW C \in SUBSET S, IsFiniteSet(C),
         \A x \in C: f[x] \in Int, NEW y \in C
  PROVE  g[C] = f[y] + g[C \ {y}]
  <1> DEFINE W == {s \in SUBSET C: \E z \in s: g[s] # f[z] + g[s \ {z}]}
  <1>0. W \in SUBSET SUBSET C
    OBVIOUS
  <1>1. SUFFICES ASSUME W # {} PROVE FALSE
    OBVIOUS
  <1>2. PICK s \in W: \A u \in W: u \subseteq s => u = s
    <2> HIDE DEF W
    <2>. QED
      BY <1>0, <1>1, SmallestSubset
  <1>3. PICK z \in s: g[s] # f[z] + g[s \ {z}]
    BY <1>2
  <1>4. s \in SUBSET S /\ s \in SUBSET C /\ s # {} /\ f[z] \in Int
    BY <1>2, <1>3
  <1> DEFINE p == Pick(s)
  <1>5. p \in s /\ g[s] = f[p] + g[s \ {p}]
    <2> HIDE DEF W
    <2>1. p \in s
      BY <1>4, PickIn
    <2>2. g[s] = f[p] + g[s \ {p}]
      BY <1>4, AddsStep
    <2>. QED
      BY <2>1, <2>2
  <1> HIDE DEF p
  <1>6. f[p] \in Int /\ p # z
    BY <1>3, <1>4, <1>5
  <1>7. g[s \ {p}] = f[z] + g[(s \ {p}) \ {z}]
    <2>1. s \ {p} \notin W
      BY <1>2, <1>5
    <2>2. s \ {p} \in SUBSET C /\ z \in s \ {p}
      BY <1>4, <1>6
    <2>. QED
      BY <2>1, <2>2
  <1>8. g[s \ {z}] = f[p] + g[(s \ {z}) \ {p}]
    <2>1. s \ {z} \notin W
      BY <1>2
    <2>2. s \ {z} \in SUBSET C /\ p \in s \ {z}
      BY <1>4, <1>5, <1>6
    <2>. QED
      BY <2>1, <2>2
  <1>9. (s \ {z}) \ {p} = (s \ {p}) \ {z}
    OBVIOUS
  <1>10. g[(s \ {p}) \ {z}] \in Int
    <2>1. (s \ {p}) \ {z} \in SUBSET S /\ (s \ {p}) \ {z} \in SUBSET C
      BY <1>4
    <2>2. IsFiniteSet((s \ {p}) \ {z})
      BY <2>1, FS_Subset
    <2>. QED
      BY <2>1, <2>2, AddsInt
  <1> DEFINE rest == g[(s \ {p}) \ {z}]
  <1>11. rest \in Int /\ g[s \ {p}] = f[z] + rest /\ g[s \ {z}] = f[p] + rest
    BY <1>7, <1>8, <1>9, <1>10
  <1> HIDE DEF rest
  <1>. QED
    BY <1>3, <1>4, <1>5, <1>6, <1>11

-----------------------------------------------------------------------------
(* Sums of finite functions. *)

\* Finitely many integers: there is a sum.
Summable(f) == IsFiniteSet(DOMAIN f) /\ \A x \in DOMAIN f: f[x] \in Int

\* The sum is an integer.
LEMMA SumInt ==
  ASSUME NEW f, Summable(f)
  PROVE  SumFunction(f) \in Int
  <1>1. Adds(Adder(f, DOMAIN f), f, DOMAIN f)
    BY AddsExists DEF Summable
  <1>. QED
    BY <1>1, AddsInt, SumIsAdded DEF Summable

\* Nothing sums to zero.
LEMMA SumEmpty ==
  ASSUME NEW f, DOMAIN f = {}
  PROVE  SumFunction(f) = 0
  <1>1. Adds(Adder(f, {}), f, {})
    BY AddsExists, FS_EmptySet
  <1>2. Adder(f, {})[{}] = 0
    BY <1>1, AddsEmpty
  <1>. QED
    BY <1>2, SumIsAdded

\* The sum of g is the sum of f and one more value.
LEMMA SumInsert ==
  ASSUME NEW f, NEW g, NEW x, Summable(f), x \notin DOMAIN f, DOMAIN g = DOMAIN f \cup {x},
         g[x] \in Int, \A y \in DOMAIN f: g[y] = f[y]
  PROVE  Summable(g) /\ SumFunction(g) = SumFunction(f) + g[x]
  <1> DEFINE D == DOMAIN f
             E == DOMAIN g
  <1>1. IsFiniteSet(D) /\ IsFiniteSet(E)
    BY FS_AddElement DEF Summable
  <1>2. \A y \in E: g[y] \in Int
    BY DEF Summable
  <1>3. Adds(Adder(f, D), f, D) /\ Adds(Adder(g, E), g, E)
    BY <1>1, AddsExists
  <1>4. E \in SUBSET E /\ x \in E /\ E \ {x} = D /\ D \in SUBSET E
    OBVIOUS
  <1>5. SumFunction(f) = Adder(f, D)[D] /\ SumFunction(g) = Adder(g, E)[E]
    BY SumIsAdded
  <1>6. \A y \in D: f[y] = g[y]
    OBVIOUS
  <1>7. SumFunction(f) \in Int
    BY SumInt
  <1>8. Summable(g)
    BY <1>1, <1>2 DEF Summable
  <1> HIDE DEF D, E
  <1>9. Adder(g, E)[E] = g[x] + Adder(g, E)[D]
    BY <1>1, <1>2, <1>3, <1>4, AddsAny
  <1>10. Adder(f, D)[D] = Adder(g, E)[D]
    BY <1>1, <1>3, <1>4, <1>6, AddsAgree
  <1>. QED
    BY <1>5, <1>7, <1>8, <1>9, <1>10

\* The sum of g is the sum of f without the value at x and with another one.
LEMMA SumChange ==
  ASSUME NEW f, NEW g, NEW x, Summable(f), x \in DOMAIN f, DOMAIN g = DOMAIN f,
         g[x] \in Int, \A y \in DOMAIN f \ {x}: g[y] = f[y]
  PROVE  Summable(g) /\ SumFunction(g) = SumFunction(f) - f[x] + g[x]
  <1> DEFINE r == [y \in DOMAIN f \ {x} |-> f[y]]
  <1>1. Summable(r) /\ DOMAIN f = DOMAIN r \cup {x} /\ x \notin DOMAIN r
    BY FS_Subset DEF Summable
  <1>2. \A y \in DOMAIN r: f[y] = r[y] /\ g[y] = r[y]
    OBVIOUS
  <1>3. f[x] \in Int
    BY DEF Summable
  <1> HIDE DEF r
  <1>4. SumFunction(f) = SumFunction(r) + f[x]
    BY <1>1, <1>2, <1>3, SumInsert
  <1>5. Summable(g) /\ SumFunction(g) = SumFunction(r) + g[x]
    BY <1>1, <1>2, SumInsert
  <1>6. SumFunction(r) \in Int
    BY <1>1, SumInt
  <1>. QED
    BY <1>3, <1>4, <1>5, <1>6

\* The sum depends on the values alone.
LEMMA SumAgree ==
  ASSUME NEW f, NEW g, IsFiniteSet(DOMAIN f), DOMAIN g = DOMAIN f, \A x \in DOMAIN f: f[x] = g[x]
  PROVE  SumFunction(f) = SumFunction(g)
  <1> DEFINE D == DOMAIN f
  <1>1. Adds(Adder(f, D), f, D) /\ Adds(Adder(g, D), g, D)
    BY AddsExists
  <1>2. D \in SUBSET D /\ \A x \in D: f[x] = g[x]
    OBVIOUS
  <1>3. SumFunction(f) = Adder(f, D)[D] /\ SumFunction(g) = Adder(g, D)[D]
    BY SumIsAdded
  <1> HIDE DEF D
  <1>4. IsFiniteSet(D)
    BY DEF D
  <1>5. Adder(f, D)[D] = Adder(g, D)[D]
    BY <1>1, <1>2, <1>4, AddsAgree
  <1>. QED
    BY <1>3, <1>5

\* A sum of values that are not negative is not negative; of zeros, zero.
LEMMA SumSign ==
  ASSUME NEW f, Summable(f), \A x \in DOMAIN f: f[x] >= 0
  PROVE  /\ SumFunction(f) >= 0
         /\ (\A x \in DOMAIN f: f[x] = 0) => SumFunction(f) = 0
  <1> DEFINE D == DOMAIN f
             R(T) == [x \in T |-> f[x]]
             P(T) == /\ SumFunction(R(T)) >= 0
                     /\ (\A x \in T: f[x] = 0) => SumFunction(R(T)) = 0
             W == {T \in SUBSET D: ~P(T)}
  <1>0. W \in SUBSET SUBSET D /\ IsFiniteSet(D)
    BY DEF Summable
  <1>1. SUFFICES ASSUME W # {} PROVE FALSE
    <2>1. W = {} => P(D)
      <3> HIDE DEF P
      <3>. QED
        OBVIOUS
    <2>2. DOMAIN R(D) = DOMAIN f /\ \A x \in DOMAIN f: f[x] = R(D)[x]
      OBVIOUS
    <2> HIDE DEF R
    <2>3. SumFunction(f) = SumFunction(R(D))
      BY <1>0, <2>2, SumAgree
    <2>. QED
      BY <2>1, <2>3
  <1>2. PICK T \in W: \A U \in W: U \subseteq T => U = T
    <2> HIDE DEF W
    <2>. QED
      BY <1>0, <1>1, SmallestSubset
  <1>3. T \in SUBSET D /\ ~P(T) /\ \A U \in SUBSET T: U # T => P(U)
    <2> HIDE DEF P
    <2>. QED
      BY <1>2
  <1>4. T # {}
    <2>1. DOMAIN R({}) = {}
      OBVIOUS
    <2>2. SumFunction(R({})) = 0
      <3> HIDE DEF R
      <3>. QED
        BY <2>1, SumEmpty
    <2>. QED
      BY <1>3, <2>2
  <1>5. PICK t \in T: TRUE
    BY <1>4
  <1> DEFINE U == T \ {t}
  <1>6. P(U)
    <2> HIDE DEF P
    <2>. QED
      BY <1>3, <1>5
  <1>7. Summable(R(U)) /\ t \notin DOMAIN R(U) /\ DOMAIN R(T) = DOMAIN R(U) \cup {t}
        /\ R(T)[t] = f[t] /\ (\A y \in DOMAIN R(U): R(T)[y] = R(U)[y]) /\ f[t] \in Int /\ f[t] >= 0
    BY <1>0, <1>3, <1>5, FS_Subset DEF Summable
  <1>8. SumFunction(R(T)) = SumFunction(R(U)) + f[t] /\ SumFunction(R(U)) \in Int
    <2> HIDE DEF R, U
    <2>. QED
      BY <1>7, SumInsert, SumInt
  <1>9. (\A x \in T: f[x] = 0) => f[t] = 0 /\ \A x \in U: f[x] = 0
    BY <1>5
  <1> DEFINE a == SumFunction(R(U))
             b == SumFunction(R(T))
  <1>10. /\ a \in Int /\ f[t] \in Int /\ f[t] >= 0 /\ b = a + f[t] /\ a >= 0
         /\ (\A x \in U: f[x] = 0) => a = 0
         /\ ~(b >= 0 /\ ((\A x \in T: f[x] = 0) => b = 0))
    BY <1>3, <1>6, <1>7, <1>8
  <1> HIDE DEF a, b, U
  <1>. QED
    BY <1>9, <1>10

\* g is f and, under names of their own that h gives them, the values of e.
Appends(g, f, e, h) ==
  /\ \A x, y \in DOMAIN e: h[x] = h[y] => x = y
  /\ \A x \in DOMAIN e: h[x] \notin DOMAIN f
  /\ DOMAIN g = DOMAIN f \cup {h[x]: x \in DOMAIN e}
  /\ \A y \in DOMAIN f: g[y] = f[y]
  /\ \A x \in DOMAIN e: g[h[x]] = e[x]

\* Its sum is the sum of both.
LEMMA SumAppend ==
  ASSUME NEW f, NEW e, NEW g, NEW h, Summable(f), Summable(e), Appends(g, f, e, h)
  PROVE  Summable(g) /\ SumFunction(g) = SumFunction(f) + SumFunction(e)
  <1> DEFINE D == DOMAIN e
             G(T) == [y \in DOMAIN f \cup {h[x]: x \in T} |-> g[y]]
             R(T) == [x \in T |-> e[x]]
             P(T) == Summable(G(T)) /\ SumFunction(G(T)) = SumFunction(f) + SumFunction(R(T))
             W == {T \in SUBSET D: ~P(T)}
  <1> USE DEF Appends
  <1>0. W \in SUBSET SUBSET D /\ IsFiniteSet(D)
    BY DEF Summable
  <1>1. SUFFICES ASSUME W # {} PROVE FALSE
    <2>1. W = {} => P(D)
      <3> HIDE DEF P
      <3>. QED
        OBVIOUS
    <2>2. DOMAIN R(D) = DOMAIN e /\ \A x \in DOMAIN e: e[x] = R(D)[x]
      OBVIOUS
    <2>3. DOMAIN G(D) = DOMAIN g /\ \A x \in DOMAIN g: g[x] = G(D)[x]
      OBVIOUS
    <2>4. SumFunction(e) = SumFunction(R(D))
      <3> HIDE DEF R
      <3>. QED
        BY <1>0, <2>2, SumAgree
    <2>5. Summable(G(D)) => Summable(g) /\ SumFunction(g) = SumFunction(G(D))
      <3> HIDE DEF G
      <3>. QED
        BY <2>3, SumAgree DEF Summable
    <2>. QED
      BY <2>1, <2>4, <2>5
  <1>2. PICK T \in W: \A U \in W: U \subseteq T => U = T
    <2> HIDE DEF W
    <2>. QED
      BY <1>0, <1>1, SmallestSubset
  <1>3. T \in SUBSET D /\ ~P(T) /\ \A U \in SUBSET T: U # T => P(U)
    <2> HIDE DEF P
    <2>. QED
      BY <1>2
  <1>4. T # {}
    <2>1. DOMAIN R({}) = {} /\ DOMAIN G({}) = DOMAIN f /\ \A y \in DOMAIN f: f[y] = G({})[y]
      OBVIOUS
    <2> HIDE DEF G, R
    <2>2. SumFunction(R({})) = 0 /\ SumFunction(G({})) = SumFunction(f) /\ Summable(G({}))
      BY <2>1, SumEmpty, SumAgree DEF Summable
    <2>3. SumFunction(f) \in Int
      BY SumInt
    <2>4. SumFunction(G({})) = SumFunction(f) + SumFunction(R({}))
      BY <2>2, <2>3
    <2>5. P({})
      BY <2>2, <2>4
    <2> HIDE DEF P
    <2>. QED
      BY <1>3, <2>5
  <1>5. PICK t \in T: TRUE
    BY <1>4
  <1> DEFINE U == T \ {t}
  <1>6. P(U)
    <2> HIDE DEF P
    <2>. QED
      BY <1>3, <1>5
  <1>7. Summable(R(U)) /\ t \notin DOMAIN R(U) /\ DOMAIN R(T) = DOMAIN R(U) \cup {t}
        /\ R(T)[t] = e[t] /\ (\A y \in DOMAIN R(U): R(T)[y] = R(U)[y]) /\ e[t] \in Int
    BY <1>0, <1>3, <1>5, FS_Subset DEF Summable
  <1>8. h[t] \notin DOMAIN G(U) /\ DOMAIN G(T) = DOMAIN G(U) \cup {h[t]}
        /\ G(T)[h[t]] = e[t] /\ (\A y \in DOMAIN G(U): G(T)[y] = G(U)[y])
    BY <1>3, <1>5
  <1>9. SumFunction(R(T)) = SumFunction(R(U)) + e[t] /\ SumFunction(R(U)) \in Int
    <2> HIDE DEF R, U
    <2>. QED
      BY <1>7, SumInsert, SumInt
  <1>10. Summable(G(T)) /\ SumFunction(G(T)) = SumFunction(G(U)) + e[t]
    <2>1. Summable(G(U))
      BY <1>6
    <2> HIDE DEF G, U, R
    <2>. QED
      BY <1>7, <1>8, <2>1, SumInsert
  <1>11. SumFunction(f) \in Int
    BY SumInt
  <1> DEFINE a == SumFunction(R(U))
             b == SumFunction(R(T))
             c == SumFunction(G(U))
             d == SumFunction(G(T))
             o == SumFunction(f)
  <1>12. a \in Int /\ o \in Int /\ e[t] \in Int /\ b = a + e[t] /\ d = c + e[t] /\ c = o + a /\ d # o + b
    BY <1>3, <1>6, <1>7, <1>9, <1>10, <1>11
  <1> HIDE DEF a, b, c, d, o
  <1>. QED
    BY <1>12

\* Adding up part by part: f over its whole domain is what each part of the
\* domain adds up to, added up.
LEMMA SumByParts ==
  ASSUME NEW f, Summable(f), NEW B, IsFiniteSet(B), NEW part, \A x \in DOMAIN f: part[x] \in B
  PROVE  SumFunction([b \in B |-> SumFunction([x \in {y \in DOMAIN f: part[y] = b} |-> f[x]])])
           = SumFunction(f)
  <1> DEFINE D == DOMAIN f
             In(T, b) == {y \in T: part[y] = b}
             R(T) == [x \in T |-> f[x]]
             M(T) == [b \in B |-> SumFunction(R(In(T, b)))]
             P(T) == Summable(M(T)) /\ SumFunction(M(T)) = SumFunction(R(T))
             W == {T \in SUBSET D: ~P(T)}
  <1>0. W \in SUBSET SUBSET D /\ IsFiniteSet(D)
    BY DEF Summable
  <1>1. SUFFICES ASSUME W # {} PROVE FALSE
    <2>1. W = {} => P(D)
      <3> HIDE DEF P
      <3>. QED
        OBVIOUS
    <2>2. DOMAIN R(D) = DOMAIN f /\ \A x \in DOMAIN f: f[x] = R(D)[x]
      OBVIOUS
    <2>3. SumFunction(f) = SumFunction(R(D))
      <3> HIDE DEF R
      <3>. QED
        BY <1>0, <2>2, SumAgree
    <2>. QED
      BY <2>1, <2>3
  <1>2. PICK T \in W: \A U \in W: U \subseteq T => U = T
    <2> HIDE DEF W
    <2>. QED
      BY <1>0, <1>1, SmallestSubset
  <1>3. T \in SUBSET D /\ ~P(T) /\ \A U \in SUBSET T: U # T => P(U)
    <2> HIDE DEF P
    <2>. QED
      BY <1>2
  <1>4. T # {}
    <2>1. DOMAIN R({}) = {} /\ \A b \in B: In({}, b) = {}
      OBVIOUS
    <2>2. SumFunction(R({})) = 0
      <3> HIDE DEF R
      <3>. QED
        BY <2>1, SumEmpty
    <2>3. DOMAIN M({}) = B /\ \A b \in B: M({})[b] = 0
      BY <2>1, <2>2
    <2>4. Summable(M({})) /\ SumFunction(M({})) = 0
      <3> HIDE DEF M
      <3>1. Summable(M({}))
        BY <2>3 DEF Summable
      <3>. QED
        BY <2>3, <3>1, SumSign
    <2>. QED
      BY <1>3, <2>2, <2>4
  <1>5. PICK t \in T: TRUE
    BY <1>4
  <1> DEFINE U == T \ {t}
             p == part[t]
  <1>6. P(U)
    <2> HIDE DEF P
    <2>. QED
      BY <1>3, <1>5
  <1>7. p \in B /\ f[t] \in Int
    BY <1>3, <1>5 DEF Summable
  <1>8. ASSUME NEW X \in SUBSET D, NEW Y, t \in D, t \notin X, Y = X \cup {t}
        PROVE  SumFunction(R(Y)) = SumFunction(R(X)) + f[t] /\ SumFunction(R(X)) \in Int
    <2>1. Summable(R(X)) /\ t \notin DOMAIN R(X) /\ DOMAIN R(Y) = DOMAIN R(X) \cup {t}
          /\ R(Y)[t] = f[t] /\ (\A y \in DOMAIN R(X): R(Y)[y] = R(X)[y])
      BY <1>0, <1>8, FS_Subset DEF Summable
    <2> HIDE DEF R
    <2>. QED
      BY <1>7, <2>1, SumInsert, SumInt
  <1>9. SumFunction(R(T)) = SumFunction(R(U)) + f[t] /\ SumFunction(R(U)) \in Int
    <2> HIDE DEF R
    <2>. QED
      BY <1>3, <1>5, <1>8
  <1>10. SumFunction(R(In(T, p))) = SumFunction(R(In(U, p))) + f[t] /\ SumFunction(R(In(U, p))) \in Int
    <2> HIDE DEF R
    <2>. QED
      BY <1>3, <1>5, <1>8
  <1>11. \A b \in B: b # p => In(T, b) = In(U, b)
    BY <1>5
  <1>12. DOMAIN M(T) = B /\ DOMAIN M(U) = B /\ \A b \in B: b # p => M(T)[b] = M(U)[b]
    <2> HIDE DEF R, In
    <2>. QED
      BY <1>11
  <1>13. M(T)[p] = M(U)[p] + f[t] /\ M(U)[p] \in Int
    <2> HIDE DEF R, In, p
    <2>. QED
      BY <1>7, <1>10
  <1>14. Summable(M(T)) /\ SumFunction(M(T)) = SumFunction(M(U)) - M(U)[p] + M(T)[p]
    <2>1. Summable(M(U))
      BY <1>6
    <2> HIDE DEF M, p, U
    <2>2. M(T)[p] \in Int
      BY <1>7, <1>13
    <2>. QED
      BY <1>7, <1>12, <2>1, <2>2, SumChange
  <1> DEFINE a == SumFunction(R(U))
             b == SumFunction(R(T))
             c == SumFunction(M(U))
             d == SumFunction(M(T))
             m == M(U)[p]
             n == M(T)[p]
  <1>15. /\ a \in Int /\ f[t] \in Int /\ m \in Int /\ b = a + f[t] /\ n = m + f[t] /\ d = c - m + n
         /\ c = a /\ d # b
    BY <1>3, <1>6, <1>7, <1>9, <1>13, <1>14
  <1> HIDE DEF a, b, c, d, m, n
  <1>. QED
    BY <1>15

\* One value makes its sum.
LEMMA SumOne ==
  ASSUME NEW f, NEW x, DOMAIN f = {x}, f[x] \in Int
  PROVE  Summable(f) /\ SumFunction(f) = f[x]
  <1> DEFINE o == [y \in {} |-> 0]
  <1>1. DOMAIN o = {} /\ x \notin DOMAIN o /\ DOMAIN f = DOMAIN o \cup {x} /\ \A y \in DOMAIN o: f[y] = o[y]
    OBVIOUS
  <1> HIDE DEF o
  <1>2. Summable(o) /\ SumFunction(o) = 0
    BY <1>1, FS_EmptySet, SumEmpty DEF Summable
  <1>3. Summable(f) /\ SumFunction(f) = SumFunction(o) + f[x]
    BY <1>1, <1>2, SumInsert
  <1>. QED
    BY <1>2, <1>3

\* Of at most two values, the sum adds those there are.
LEMMA SumOfTwo ==
  ASSUME NEW f, NEW x, NEW y, x # y, DOMAIN f \subseteq {x, y}, \A z \in DOMAIN f: f[z] \in Int
  PROVE  /\ Summable(f)
         /\ SumFunction(f) = (IF x \in DOMAIN f THEN f[x] ELSE 0) + (IF y \in DOMAIN f THEN f[y] ELSE 0)
  <1>1. CASE DOMAIN f = {}
    BY <1>1, SumEmpty, FS_EmptySet DEF Summable
  <1>2. CASE DOMAIN f = {x}
    BY <1>2, SumOne
  <1>3. CASE DOMAIN f = {y}
    BY <1>3, SumOne
  <1>4. CASE DOMAIN f = {x, y}
    <2> DEFINE o == [z \in {x} |-> f[x]]
    <2>1. DOMAIN o = {x} /\ o[x] = f[x] /\ f[x] \in Int /\ f[y] \in Int
      BY <1>4
    <2> HIDE DEF o
    <2>2. Summable(o) /\ SumFunction(o) = f[x]
      BY <2>1, SumOne
    <2>3. y \notin DOMAIN o /\ DOMAIN f = DOMAIN o \cup {y} /\ \A z \in DOMAIN o: f[z] = o[z]
      BY <1>4, <2>1
    <2>4. Summable(f) /\ SumFunction(f) = SumFunction(o) + f[y]
      BY <2>1, <2>2, <2>3, SumInsert
    <2>. QED
      BY <1>4, <2>2, <2>4
  <1>. QED
    BY <1>1, <1>2, <1>3, <1>4

\* Values add up to the same under other names.
LEMMA SumRenamed ==
  ASSUME NEW e, NEW g, NEW h, Summable(e), DOMAIN g = {h[x]: x \in DOMAIN e},
         \A x, y \in DOMAIN e: h[x] = h[y] => x = y, \A x \in DOMAIN e: g[h[x]] = e[x]
  PROVE  Summable(g) /\ SumFunction(g) = SumFunction(e)
  <1> DEFINE o == [x \in {} |-> 0]
  <1>1. DOMAIN o = {}
    OBVIOUS
  <1> HIDE DEF o
  <1>2. Summable(o) /\ SumFunction(o) = 0
    BY <1>1, FS_EmptySet, SumEmpty DEF Summable
  <1>3. Appends(g, o, e, h)
    BY <1>1 DEF Appends
  <1>4. Summable(g) /\ SumFunction(g) = SumFunction(o) + SumFunction(e)
    BY <1>2, <1>3, SumAppend
  <1>. QED
    BY <1>2, <1>4, SumInt

\* The sum over part of the domain is no more, when the rest is not negative.
LEMMA SumPart ==
  ASSUME NEW f, NEW g, Summable(g), DOMAIN f \subseteq DOMAIN g,
         \A x \in DOMAIN f: f[x] = g[x], \A x \in DOMAIN g \ DOMAIN f: g[x] >= 0
  PROVE  Summable(f) /\ SumFunction(f) <= SumFunction(g)
  <1> DEFINE e == [x \in DOMAIN g \ DOMAIN f |-> g[x]]
             h == [x \in DOMAIN e |-> x]
  <1>1. Summable(f) /\ Summable(e) /\ \A x \in DOMAIN e: e[x] >= 0
    BY FS_Subset DEF Summable
  <1>2. Appends(g, f, e, h)
    BY DEF Appends
  <1> HIDE DEF e, h
  <1>3. SumFunction(g) = SumFunction(f) + SumFunction(e)
    BY <1>1, <1>2, SumAppend
  <1>4. SumFunction(e) >= 0 /\ SumFunction(e) \in Int /\ SumFunction(f) \in Int
    BY <1>1, SumSign, SumInt
  <1>. QED
    BY <1>1, <1>3, <1>4

\* A function takes a finite set to a finite set.
LEMMA FiniteImage ==
  ASSUME NEW S, IsFiniteSet(S), NEW f
  PROVE  IsFiniteSet({f[x]: x \in S})
  <1> DEFINE T == {f[x]: x \in S}
             g == [x \in S |-> f[x]]
  <1>1. g \in Surjection(S, T)
    BY DEF Surjection
  <1>. QED
    BY <1>1, FS_Surjection
=============================================================================
