---------------------------- MODULE FigureProofs ----------------------------
(***************************************************************************)
(* Proofs about the figures this system takes from the books and the file  *)
(* it makes of them, for any invoices, vouchers and amounts. The sums are  *)
(* those of the community modules, a recursive function over the subsets   *)
(* of a set: what is needed of them is proved first, by the smallest set   *)
(* of which it would not hold.                                             *)
(***************************************************************************)
EXTENDS PaymentFile, OverviewRun, LedgerFigures, InvoiceTools,
        FiniteSetTheorems, SequenceTheorems, WellFoundedInduction, TLAPS

-----------------------------------------------------------------------------
(***************************************************************************)
(* Sums                                                                    *)
(***************************************************************************)
Chosen(s) == CHOOSE x \in s : TRUE
Stepwise(w, S, it) ==
  [s \in SUBSET S |-> IF s = {} THEN 0 ELSE w[Chosen(s)] + it[s \ {Chosen(s)}]]
SumsOver(w, S) == CHOOSE it : it = Stepwise(w, S, it)
Sum(w, S) == MapThenSumSet(LAMBDA x : w[x], S)

\* The sum of the library is a recursive function over the subsets of the set.
LEMMA SumIs == ASSUME NEW w, NEW S PROVE Sum(w, S) = SumsOver(w, S)[S]
  BY DEF Sum, MapThenSumSet, MapThenFoldSet, SumsOver, Stepwise, Chosen

\* Among subsets of a finite set there is one that has no other within it.
LEMMA Smallest ==
  ASSUME NEW S, IsFiniteSet(S), NEW T \in SUBSET (SUBSET S), T # {}
  PROVE  \E t \in T : \A u \in T : u \subseteq t => u = t
<1>1. T \subseteq FiniteSubsetsOf(S)
  BY FS_Subset DEF FiniteSubsetsOf
<1>2. PICK t \in T : \A u \in T : <<u, t>> \notin StrictSubsetOrdering(S)
  BY <1>1, WFMin, FS_StrictSubsetOrderingWellFounded
<1>q. QED BY <1>2 DEF StrictSubsetOrdering

\* The member the sum takes out next.
LEMMA ChosenIs == ASSUME NEW s, s # {} PROVE Chosen(s) \in s
  BY DEF Chosen

\* Two such functions agree where both are defined,
LEMMA StepsAgree ==
  ASSUME NEW w, NEW S, IsFiniteSet(S), NEW R \in SUBSET S,
         NEW it, it = Stepwise(w, S, it), NEW jt, jt = Stepwise(w, R, jt),
         NEW s \in SUBSET R
  PROVE  it[s] = jt[s]
<1> DEFINE Differ == {t \in SUBSET R : it[t] # jt[t]}
<1>1. SUFFICES ASSUME Differ # {} PROVE FALSE
  OBVIOUS
<1>2. IsFiniteSet(R)
  BY FS_Subset
<1>3. PICK t \in Differ : \A u \in Differ : u \subseteq t => u = t
  <2>1. Differ \in SUBSET (SUBSET R)
    OBVIOUS
  <2> HIDE DEF Differ
  <2>q. QED BY <1>1, <1>2, <2>1, Smallest
<1>4. /\ it[t] = IF t = {} THEN 0 ELSE w[Chosen(t)] + it[t \ {Chosen(t)}]
      /\ jt[t] = IF t = {} THEN 0 ELSE w[Chosen(t)] + jt[t \ {Chosen(t)}]
  BY DEF Stepwise
<1>5. t # {} => t \ {Chosen(t)} \in SUBSET R /\ t \ {Chosen(t)} # t
  BY ChosenIs
<1>6. t # {} => it[t \ {Chosen(t)}] = jt[t \ {Chosen(t)}]
  BY <1>3, <1>5
<1>q. QED BY <1>4, <1>6

\* and there is one over every finite set.
LEMMA StepsExist ==
  ASSUME NEW w, NEW S, IsFiniteSet(S)
  PROVE  \E it : it = Stepwise(w, S, it)
<1> DEFINE Known(t) == \E it : it = Stepwise(w, t, it)
           Unknown == {t \in SUBSET S : ~Known(t)}
<1>1. SUFFICES ASSUME Unknown # {} PROVE FALSE
  OBVIOUS
<1>2. PICK t \in Unknown : \A u \in Unknown : u \subseteq t => u = t
  <2>1. Unknown \in SUBSET (SUBSET S)
    OBVIOUS
  <2> HIDE DEF Unknown
  <2>q. QED BY <1>1, <2>1, Smallest
<1> DEFINE Its(s) == SumsOver(w, s)
<1>3. ASSUME NEW s \in SUBSET t, s # t PROVE Its(s) = Stepwise(w, s, Its(s))
  <2>1. PICK it : it = Stepwise(w, s, it)
    BY <1>2, <1>3
  <2>q. QED BY <2>1 DEF SumsOver
<1> DEFINE kt == [s \in SUBSET t |->
                    IF s = {} THEN 0 ELSE w[Chosen(s)] + Its(s \ {Chosen(s)})[s \ {Chosen(s)}]]
<1>4. ASSUME NEW s \in SUBSET t, s # t PROVE kt[s] = Its(s)[s]
  <2>1. Its(s)[s] = IF s = {} THEN 0 ELSE w[Chosen(s)] + Its(s)[s \ {Chosen(s)}]
    BY <1>3, <1>4 DEF Stepwise
  <2>2. ASSUME s # {}
        PROVE  Its(s)[s \ {Chosen(s)}] = Its(s \ {Chosen(s)})[s \ {Chosen(s)}]
    <3> DEFINE r == s \ {Chosen(s)}
    <3>1. r \in SUBSET s /\ r # t /\ r \in SUBSET t /\ IsFiniteSet(s)
      BY <1>4, <2>2, ChosenIs, FS_Subset
    <3>2. Its(s) = Stepwise(w, s, Its(s)) /\ Its(r) = Stepwise(w, r, Its(r))
      BY <1>3, <1>4, <3>1
    <3> HIDE DEF r, Its
    <3>3. Its(s)[r] = Its(r)[r]
      BY <3>1, <3>2, StepsAgree
    <3>q. QED BY <3>3 DEF r
  <2>q. QED BY <2>1, <2>2
<1>5. kt = Stepwise(w, t, kt)
  <2>1. ASSUME NEW s \in SUBSET t, s # {}
        PROVE  kt[s \ {Chosen(s)}] = Its(s \ {Chosen(s)})[s \ {Chosen(s)}]
    <3>1. s \ {Chosen(s)} \in SUBSET t /\ s \ {Chosen(s)} # t
      BY <2>1, ChosenIs
    <3> HIDE DEF kt, Its
    <3>q. QED BY <1>4, <3>1
  <2>q. QED BY <2>1 DEF Stepwise
<1>q. QED BY <1>2, <1>5

\* So the sum is one of them,
LEMMA SumsAre ==
  ASSUME NEW w, NEW S, IsFiniteSet(S)
  PROVE  SumsOver(w, S) = Stepwise(w, S, SumsOver(w, S))
  BY StepsExist DEF SumsOver

\* and takes its members one at a time.
LEMMA StepsAt ==
  ASSUME NEW w, NEW S, NEW it, it = Stepwise(w, S, it), NEW s \in SUBSET S
  PROVE  it[s] = IF s = {} THEN 0 ELSE w[Chosen(s)] + it[s \ {Chosen(s)}]
  BY DEF Stepwise

\* A sum over nothing.
LEMMA SumEmpty == ASSUME NEW w PROVE Sum(w, {}) = 0
<1> DEFINE it == SumsOver(w, {})
<1>1. it = Stepwise(w, {}, it)
  BY SumsAre, FS_EmptySet
<1> HIDE DEF it
<1>2. it[{}] = 0
  BY <1>1, StepsAt
<1>q. QED BY <1>2, SumIs DEF it

\* A sum, its next member taken out.
LEMMA SumChosen ==
  ASSUME NEW w, NEW S, IsFiniteSet(S), S # {}
  PROVE  Sum(w, S) = w[Chosen(S)] + Sum(w, S \ {Chosen(S)})
<1> DEFINE R == S \ {Chosen(S)}
           it == SumsOver(w, S)
           jt == SumsOver(w, R)
<1>1. IsFiniteSet(R) /\ R \in SUBSET S
  BY FS_Subset
<1> HIDE DEF R
<1>2. it = Stepwise(w, S, it) /\ jt = Stepwise(w, R, jt)
  BY <1>1, SumsAre
<1> HIDE DEF it, jt
<1>3. it[S] = w[Chosen(S)] + it[R]
  BY <1>2, StepsAt DEF R
<1>4. it[R] = jt[R]
  BY <1>1, <1>2, StepsAgree
<1>q. QED BY <1>3, <1>4, SumIs DEF it, jt, R

\* Sums of integers are integers.
LEMMA SumType ==
  ASSUME NEW S, IsFiniteSet(S), NEW w, \A x \in S : w[x] \in Int
  PROVE  Sum(w, S) \in Int
<1> DEFINE Odd == {t \in SUBSET S : Sum(w, t) \notin Int}
<1>1. SUFFICES ASSUME Odd # {} PROVE FALSE
  OBVIOUS
<1>2. PICK t \in Odd : \A u \in Odd : u \subseteq t => u = t
  <2>1. Odd \in SUBSET (SUBSET S)
    OBVIOUS
  <2> HIDE DEF Odd
  <2>q. QED BY <1>1, <2>1, Smallest
<1>3. t # {} /\ IsFiniteSet(t)
  <2>1. Sum(w, t) \notin Int /\ Sum(w, {}) \in Int
    BY SumEmpty
  <2>q. QED BY <2>1, FS_Subset
<1>4. t \ {Chosen(t)} \in SUBSET S /\ t \ {Chosen(t)} # t /\ Chosen(t) \in S
  BY <1>3, ChosenIs
<1>5. Sum(w, t \ {Chosen(t)}) \in Int /\ w[Chosen(t)] \in Int
  BY <1>2, <1>4
<1>q. QED BY <1>3, <1>5, SumChosen

\* Any member may be taken out first.
LEMMA SumRemove ==
  ASSUME NEW S, IsFiniteSet(S), NEW w, \A x \in S : w[x] \in Int, NEW e \in S
  PROVE  Sum(w, S) = w[e] + Sum(w, S \ {e})
<1> DEFINE Odd == {t \in SUBSET S : \E x \in t : Sum(w, t) # w[x] + Sum(w, t \ {x})}
<1>1. SUFFICES ASSUME Odd # {} PROVE FALSE
  OBVIOUS
<1>2. PICK t \in Odd : \A u \in Odd : u \subseteq t => u = t
  <2>1. Odd \in SUBSET (SUBSET S)
    OBVIOUS
  <2> HIDE DEF Odd
  <2>q. QED BY <1>1, <2>1, Smallest
<1>3. PICK x \in t : Sum(w, t) # w[x] + Sum(w, t \ {x})
  OBVIOUS
<1> DEFINE c == Chosen(t)
<1>4. c \in t /\ IsFiniteSet(t) /\ t \subseteq S
  BY ChosenIs, FS_Subset
<1>5. Sum(w, t) = w[c] + Sum(w, t \ {c})
  BY <1>4, SumChosen
<1> HIDE DEF c
<1>6. c # x
  BY <1>3, <1>5
<1>7. \A u \in SUBSET t : u # t => \A y \in u : Sum(w, u) = w[y] + Sum(w, u \ {y})
  BY <1>2
<1>8. /\ Sum(w, t \ {c}) = w[x] + Sum(w, (t \ {c}) \ {x})
      /\ Sum(w, t \ {x}) = w[c] + Sum(w, (t \ {x}) \ {c})
  BY <1>4, <1>6, <1>7
<1>9. (t \ {c}) \ {x} = (t \ {x}) \ {c} /\ IsFiniteSet((t \ {x}) \ {c})
  BY <1>4, FS_Subset
<1>10. Sum(w, (t \ {x}) \ {c}) \in Int /\ w[x] \in Int /\ w[c] \in Int
  BY <1>4, <1>9, SumType
<1>11. \A i, j, k \in Int : i + (j + k) = j + (i + k)
  OBVIOUS
<1>12. Sum(w, t) = w[c] + (w[x] + Sum(w, (t \ {x}) \ {c}))
  BY <1>5, <1>8, <1>9
<1>q. QED BY <1>3, <1>8, <1>10, <1>11, <1>12

\* Induction over a finite set, the property being the set of sets that have it.
LEMMA OneByOne ==
  ASSUME NEW S, IsFiniteSet(S), NEW G, {} \in G,
         \A t \in SUBSET S : t \in G => \A x \in S \ t : t \cup {x} \in G
  PROVE  S \in G
<1> DEFINE Odd == (SUBSET S) \ G
<1>1. SUFFICES ASSUME Odd # {} PROVE FALSE
  OBVIOUS
<1>2. PICK t \in Odd : \A u \in Odd : u \subseteq t => u = t
  <2>1. Odd \in SUBSET (SUBSET S)
    OBVIOUS
  <2> HIDE DEF Odd
  <2>q. QED BY <1>1, <2>1, Smallest
<1>3. PICK x \in t : TRUE
  <2>1. t \notin G
    OBVIOUS
  <2>q. QED BY <2>1
<1>4. t \ {x} \in G /\ t \ {x} \in SUBSET S /\ x \in S \ (t \ {x})
  BY <1>2
<1>5. (t \ {x}) \cup {x} = t
  OBVIOUS
<1>6. (t \ {x}) \cup {x} \in G
  BY <1>4
<1>q. QED BY <1>5, <1>6

\* A member more.
LEMMA SumAdd ==
  ASSUME NEW S, IsFiniteSet(S), NEW w, \A x \in S : w[x] \in Int,
         NEW t \in SUBSET S, NEW e \in S \ t
  PROVE  Sum(w, t \cup {e}) = w[e] + Sum(w, t) /\ Sum(w, t) \in Int
<1>1. IsFiniteSet(t \cup {e}) /\ IsFiniteSet(t) /\ (t \cup {e}) \ {e} = t
  BY FS_Subset
<1>q. QED BY <1>1, SumRemove, SumType

\* Only the values on the set count.
LEMMA SumSame ==
  ASSUME NEW S, IsFiniteSet(S), NEW w, NEW v, \A x \in S : w[x] = v[x] /\ w[x] \in Int
  PROVE  Sum(w, S) = Sum(v, S)
<1> DEFINE G == {t \in SUBSET S : Sum(w, t) = Sum(v, t)}
<1>1. {} \in G
  BY SumEmpty
<1>2. ASSUME NEW t \in SUBSET S, t \in G, NEW x \in S \ t PROVE t \cup {x} \in G
  <2>1. Sum(w, t \cup {x}) = w[x] + Sum(w, t)
    BY SumAdd
  <2>2. Sum(v, t \cup {x}) = v[x] + Sum(v, t)
    BY SumAdd
  <2>q. QED BY <1>2, <2>1, <2>2
<1> HIDE DEF G
<1>3. S \in G
  BY <1>1, <1>2, OneByOne
<1>q. QED BY <1>3 DEF G

\* Sums and differences of two functions,
LEMMA SumPlus ==
  ASSUME NEW S, IsFiniteSet(S), NEW w, NEW v, NEW z,
         \A x \in S : w[x] \in Int /\ v[x] \in Int /\ z[x] = w[x] + v[x]
  PROVE  Sum(z, S) = Sum(w, S) + Sum(v, S)
<1> DEFINE G == {t \in SUBSET S : Sum(z, t) = Sum(w, t) + Sum(v, t)}
<1>1. {} \in G
  BY SumEmpty
<1>0. \A x \in S : z[x] \in Int
  OBVIOUS
<1>2. ASSUME NEW t \in SUBSET S, t \in G, NEW x \in S \ t PROVE t \cup {x} \in G
  <2>1. Sum(w, t \cup {x}) = w[x] + Sum(w, t) /\ Sum(w, t) \in Int
    BY SumAdd
  <2>2. Sum(v, t \cup {x}) = v[x] + Sum(v, t) /\ Sum(v, t) \in Int
    BY SumAdd
  <2>3. Sum(z, t \cup {x}) = z[x] + Sum(z, t)
    BY <1>0, SumAdd
  <2>4. Sum(z, t) = Sum(w, t) + Sum(v, t)
    BY <1>2
  <2>5. \A a, b, c, d \in Int : (a + b) + (c + d) = (a + c) + (b + d)
    OBVIOUS
  <2>6. Sum(z, t \cup {x}) = (w[x] + v[x]) + (Sum(w, t) + Sum(v, t))
    BY <2>3, <2>4
  <2>7. Sum(z, t \cup {x}) = Sum(w, t \cup {x}) + Sum(v, t \cup {x})
    BY <2>1, <2>2, <2>5, <2>6
  <2>q. QED BY <2>7
<1> HIDE DEF G
<1>3. S \in G
  BY <1>1, <1>2, OneByOne
<1>q. QED BY <1>3 DEF G

\* taken value by value.
LEMMA SumMinus ==
  ASSUME NEW S, IsFiniteSet(S), NEW w, NEW v, NEW z,
         \A x \in S : w[x] \in Int /\ v[x] \in Int /\ z[x] = w[x] - v[x]
  PROVE  Sum(z, S) = Sum(w, S) - Sum(v, S)
<1>1. \A x \in S : z[x] \in Int /\ v[x] \in Int /\ w[x] = z[x] + v[x]
  OBVIOUS
<1>2. Sum(w, S) = Sum(z, S) + Sum(v, S)
  BY <1>1, SumPlus
<1>3. Sum(w, S) \in Int /\ Sum(z, S) \in Int /\ Sum(v, S) \in Int
  BY <1>1, SumType
<1>4. \A a, b, c \in Int : a = b + c => b = a - c
  OBVIOUS
<1>q. QED BY <1>2, <1>3, <1>4

\* Two sets that do not meet.
LEMMA SumUnion ==
  ASSUME NEW S, IsFiniteSet(S), NEW w, \A x \in S : w[x] \in Int,
         NEW A \in SUBSET S, NEW B \in SUBSET S, A \cap B = {}
  PROVE  Sum(w, A \cup B) = Sum(w, A) + Sum(w, B)
<1> DEFINE G == {t \in SUBSET B : Sum(w, A \cup t) = Sum(w, A) + Sum(w, t)}
<1>0. IsFiniteSet(A) /\ IsFiniteSet(B)
  BY FS_Subset
<1>1. {} \in G
  <2>1. A \cup {} = A /\ Sum(w, {}) = 0 /\ Sum(w, A) \in Int
    BY <1>0, SumEmpty, SumType
  <2>q. QED BY <2>1
<1>2. ASSUME NEW t \in SUBSET B, t \in G, NEW x \in B \ t PROVE t \cup {x} \in G
  <2>1. Sum(w, t \cup {x}) = w[x] + Sum(w, t) /\ Sum(w, t) \in Int
    BY SumAdd
  <2>2. Sum(w, (A \cup t) \cup {x}) = w[x] + Sum(w, A \cup t)
    <3> DEFINE u == A \cup t
    <3>1. x \in S \ u /\ u \in SUBSET S
      OBVIOUS
    <3> HIDE DEF u
    <3>2. Sum(w, u \cup {x}) = w[x] + Sum(w, u)
      BY <3>1, SumAdd
    <3>q. QED BY <3>2 DEF u
  <2>3. Sum(w, A \cup t) = Sum(w, A) + Sum(w, t) /\ (A \cup t) \cup {x} = A \cup (t \cup {x})
    BY <1>2
  <2>4. Sum(w, A) \in Int /\ w[x] \in Int
    BY <1>0, SumType
  <2>5. \A a, b, c \in Int : a + (b + c) = b + (a + c)
    OBVIOUS
  <2>6. Sum(w, A \cup (t \cup {x})) = w[x] + (Sum(w, A) + Sum(w, t))
    BY <2>2, <2>3
  <2>7. Sum(w, A \cup (t \cup {x})) = Sum(w, A) + Sum(w, t \cup {x})
    BY <2>1, <2>4, <2>5, <2>6
  <2>q. QED BY <2>7
<1> HIDE DEF G
<1>3. B \in G
  BY <1>0, <1>1, <1>2, OneByOne
<1>q. QED BY <1>3 DEF G

\* Sums of zeros and of ones.
LEMMA SumZero ==
  ASSUME NEW S, IsFiniteSet(S), NEW w, \A x \in S : w[x] = 0
  PROVE  Sum(w, S) = 0
<1> DEFINE G == {t \in SUBSET S : Sum(w, t) = 0}
<1>1. {} \in G
  BY SumEmpty
<1>2. ASSUME NEW t \in SUBSET S, t \in G, NEW x \in S \ t PROVE t \cup {x} \in G
  BY <1>2, SumAdd
<1> HIDE DEF G
<1>3. S \in G
  BY <1>1, <1>2, OneByOne
<1>q. QED BY <1>3 DEF G

LEMMA SumOnes ==
  ASSUME NEW S, IsFiniteSet(S), NEW w, \A x \in S : w[x] = 1
  PROVE  Sum(w, S) = Cardinality(S)
<1> DEFINE G == {t \in SUBSET S : Sum(w, t) = Cardinality(t)}
<1>1. {} \in G
  BY SumEmpty, FS_EmptySet
<1>2. ASSUME NEW t \in SUBSET S, t \in G, NEW x \in S \ t PROVE t \cup {x} \in G
  <2>1. Sum(w, t \cup {x}) = 1 + Sum(w, t)
    BY SumAdd
  <2>2. IsFiniteSet(t)
    BY FS_Subset
  <2>3. Cardinality(t \cup {x}) = Cardinality(t) + 1 /\ Cardinality(t) \in Nat
    BY <2>2, FS_AddElement, FS_CardinalityType
  <2>q. QED BY <1>2, <2>1, <2>3
<1> HIDE DEF G
<1>3. S \in G
  BY <1>1, <1>2, OneByOne
<1>q. QED BY <1>3 DEF G

\* A finite set that is split into parts, one for each of K, that do not meet.
Split(S, K, part) ==
  /\ IsFiniteSet(S) /\ IsFiniteSet(K)
  /\ \A k \in K : part[k] \subseteq S
  /\ \A k, m \in K : k # m => part[k] \cap part[m] = {}
  /\ \A x \in S : \E k \in K : x \in part[k]

\* The sum over a set is the sum of the sums over its parts.
LEMMA SumParts ==
  ASSUME NEW S, NEW K, NEW part, Split(S, K, part), NEW w, \A x \in S : w[x] \in Int,
         NEW z, \A k \in K : z[k] = Sum(w, part[k])
  PROVE  Sum(z, K) = Sum(w, S)
<1> DEFINE All(t) == UNION {part[k] : k \in t}
           G == {t \in SUBSET K : Sum(z, t) = Sum(w, All(t))}
<1>s. /\ IsFiniteSet(S) /\ IsFiniteSet(K) /\ \A k \in K : part[k] \subseteq S
      /\ \A k, m \in K : k # m => part[k] \cap part[m] = {}
      /\ All(K) = S
  BY DEF Split
<1> USE <1>s
<1>0. ASSUME NEW k \in K PROVE z[k] \in Int
  <2>1. IsFiniteSet(part[k]) /\ \A x \in part[k] : w[x] \in Int
    BY FS_Subset
  <2>q. QED BY <2>1, SumType
<1>1. {} \in G
  <2>1. All({}) = {}
    OBVIOUS
  <2>q. QED BY <2>1, SumEmpty
<1>2. ASSUME NEW t \in SUBSET K, t \in G, NEW k \in K \ t PROVE t \cup {k} \in G
  <2>1. Sum(z, t \cup {k}) = z[k] + Sum(z, t)
    BY <1>0, SumAdd
  <2>2. All(t \cup {k}) = All(t) \cup part[k] /\ All(t) \cap part[k] = {}
    OBVIOUS
  <2>3. All(t) \in SUBSET S /\ part[k] \in SUBSET S
    OBVIOUS
  <2>4. IsFiniteSet(All(t)) /\ IsFiniteSet(part[k])
    BY <2>3, FS_Subset
  <2>5. Sum(z, t) = Sum(w, All(t))
    BY <1>2
  <2> HIDE DEF All
  <2>6. Sum(w, All(t) \cup part[k]) = Sum(w, All(t)) + Sum(w, part[k])
    BY <2>2, <2>3, SumUnion
  <2>7. Sum(w, All(t)) \in Int /\ Sum(w, part[k]) \in Int
    BY <2>3, <2>4, SumType
  <2>8. \A a, b \in Int : a + b = b + a
    OBVIOUS
  <2>9. Sum(z, t \cup {k}) = Sum(w, part[k]) + Sum(w, All(t))
    BY <2>1, <2>5
  <2>10. Sum(z, t \cup {k}) = Sum(w, All(t \cup {k}))
    BY <2>2, <2>6, <2>7, <2>8, <2>9
  <2>q. QED BY <2>10
<1> HIDE DEF G
<1>3. K \in G
  BY <1>1, <1>2, OneByOne
<1>q. QED BY <1>3 DEF G

\* The values a function takes on a finite set.
LEMMA ImageFinite ==
  ASSUME NEW S, IsFiniteSet(S), NEW f
  PROVE  IsFiniteSet({f[x] : x \in S})
<1> DEFINE Values(t) == {f[x] : x \in t}
           G == {t \in SUBSET S : IsFiniteSet(Values(t))}
<1>1. {} \in G
  <2>1. Values({}) = {}
    OBVIOUS
  <2>q. QED BY <2>1, FS_EmptySet
<1>2. ASSUME NEW t \in SUBSET S, t \in G, NEW x \in S \ t PROVE t \cup {x} \in G
  <2>1. Values(t \cup {x}) = Values(t) \cup {f[x]}
    OBVIOUS
  <2>2. IsFiniteSet(Values(t))
    BY <1>2
  <2>3. ASSUME NEW A, IsFiniteSet(A), NEW y PROVE IsFiniteSet(A \cup {y})
    BY <2>3, FS_AddElement
  <2>4. IsFiniteSet(Values(t) \cup {f[x]})
    <3> HIDE DEF Values
    <3>q. QED BY <2>2, <2>3
  <2>q. QED BY <2>1, <2>4
<1> HIDE DEF G
<1>3. S \in G
  BY <1>1, <1>2, OneByOne
<1>q. QED BY <1>3 DEF G

-----------------------------------------------------------------------------
(***************************************************************************)
(* The payment file                                                        *)
(***************************************************************************)
LEMMA AmountsAre ==
  ASSUME NEW P
  PROVE  sumAmounts(P) = Sum([p \in P |-> toPendingInvoice(p)], P)
  BY DEF sumAmounts, Sum, MapThenSumSet, MapThenFoldSet

\* The counts of the blocks of a file.
LEMMA TxsAre ==
  ASSUME NEW K
  PROVE  MapThenSumSet(LAMBDA k : k.txs, K) = Sum([k \in K |-> k.txs], K)
  BY ZenonT(60) DEF Sum, MapThenSumSet, MapThenFoldSet

\* The sums of the blocks of a file.
LEMMA SumsAdded ==
  ASSUME NEW K
  PROVE  MapThenSumSet(LAMBDA k : k.sum, K) = Sum([k \in K |-> k.sum], K)
  BY DEF Sum, MapThenSumSet, MapThenFoldSet

\* What a file is made of: no invoice in SEK, none of nothing, and one account
\* for a supplier.
Payable(P) ==
  /\ P \subseteq Payments /\ IsFiniteSet(P)
  /\ \A p \in P : IsForeignCurrency(p.row.bill) /\ toPendingInvoice(p) > 0
  /\ \A p, q \in P : PayeeOf(p.row.bill) = PayeeOf(q.row.bill) => p.account = q.account

InBlock(P, c) == {p \in P : CurrencyOf(p.row.bill) = c}

\* The blocks of a file: one for each currency, of the payments in it.
LEMMA BlocksAre ==
  ASSUME NEW P, IsFiniteSet(P)
  PROVE  /\ IsFiniteSet(Blocks(P))
         /\ \A k \in Blocks(P) : /\ k.payments = InBlock(P, k.currency)
                                 /\ k.txs = Cardinality(k.payments)
                                 /\ k.sum = sumAmounts(k.payments)
         /\ \A k \in Blocks(P) : k.currency \in Currencies(P)
         /\ \A k, m \in Blocks(P) : k.currency = m.currency => k = m
         /\ UNION {k.payments : k \in Blocks(P)} = P
<1>1. Blocks(P) = {buildPmtInf(c, InBlock(P, c)) : c \in Currencies(P)}
  BY DEF Blocks, InBlock
<1>2. IsFiniteSet(Currencies(P))
  <2> DEFINE f == [p \in P |-> CurrencyOf(p.row.bill)]
  <2>1. Currencies(P) = {f[p] : p \in P}
    BY DEF Currencies
  <2> HIDE DEF f
  <2>q. QED BY <2>1, ImageFinite
<1>3. IsFiniteSet(Blocks(P))
  <2> DEFINE g == [c \in Currencies(P) |-> buildPmtInf(c, InBlock(P, c))]
  <2>1. Blocks(P) = {g[c] : c \in Currencies(P)}
    BY <1>1
  <2> HIDE DEF g
  <2>q. QED BY <1>2, <2>1, ImageFinite
<1>4. ASSUME NEW c
      PROVE  /\ buildPmtInf(c, InBlock(P, c)).currency = c
             /\ buildPmtInf(c, InBlock(P, c)).payments = InBlock(P, c)
             /\ buildPmtInf(c, InBlock(P, c)).txs = Cardinality(InBlock(P, c))
             /\ buildPmtInf(c, InBlock(P, c)).sum = sumAmounts(InBlock(P, c))
  BY DEF buildPmtInf
<1>5. \A k \in Blocks(P) : /\ k.payments = InBlock(P, k.currency)
                           /\ k.txs = Cardinality(k.payments)
                           /\ k.sum = sumAmounts(k.payments)
                           /\ k.currency \in Currencies(P)
  BY <1>1, <1>4
<1>6. \A k, m \in Blocks(P) : k.currency = m.currency => k = m
  BY <1>1, <1>4
<1>7. ASSUME NEW p \in P PROVE \E k \in Blocks(P) : p \in k.payments
  <2>1. CurrencyOf(p.row.bill) \in Currencies(P) /\ p \in InBlock(P, CurrencyOf(p.row.bill))
    BY DEF Currencies, InBlock
  <2>q. QED BY <1>1, <1>4, <2>1
<1>8. \A k \in Blocks(P) : k.payments \subseteq P
  BY <1>5 DEF InBlock
<1>q. QED BY <1>3, <1>5, <1>6, <1>7, <1>8

\* The counts and sums of a file, whatever was to be paid.
LEMMA FileAddsUp ==
  ASSUME NEW P, Payable(P)
  PROVE  LET file == PAIN001(P) IN
         /\ UNION {k.payments : k \in file.blocks} = P
         /\ file.txs = MapThenSumSet(LAMBDA k : k.txs, file.blocks)
         /\ file.sum = MapThenSumSet(LAMBDA k : k.sum, file.blocks)
<1> DEFINE K == Blocks(P)
           part == [k \in K |-> k.payments]
           ones == [p \in P |-> 1]
           w == [p \in P |-> toPendingInvoice(p)]
           txs == [k \in K |-> k.txs]
           sums == [k \in K |-> k.sum]
<1>0. /\ PAIN001(P).blocks = K /\ PAIN001(P).txs = Cardinality(P)
      /\ PAIN001(P).sum = sumAmounts(P) /\ IsFiniteSet(P) /\ IsFiniteSet(K)
  BY BlocksAre DEF PAIN001, Payable
<1>1. /\ \A k \in K : part[k] \subseteq P /\ part[k] = k.payments /\ IsFiniteSet(part[k])
      /\ \A k, m \in K : k # m => part[k] \cap part[m] = {}
      /\ UNION {part[k] : k \in K} = P
  <2>1. \A k \in K : part[k] = InBlock(P, k.currency) /\ part[k] = k.payments
    BY <1>0, BlocksAre
  <2>2. \A k \in K : part[k] \subseteq P
    BY <2>1 DEF InBlock
  <2>3. ASSUME NEW k \in K, NEW m \in K, k # m PROVE part[k] \cap part[m] = {}
    <3>1. k.currency # m.currency
      BY <1>0, <2>3, BlocksAre
    <3>q. QED BY <2>1, <3>1 DEF InBlock
  <2>4. UNION {k.payments : k \in K} = P
    BY <1>0, BlocksAre
  <2>5. {part[k] : k \in K} = {k.payments : k \in K}
    OBVIOUS
  <2>6. \A k \in K : IsFiniteSet(part[k])
    BY <1>0, <2>2, FS_Subset
  <2> HIDE DEF K, part
  <2>q. QED BY <2>1, <2>2, <2>3, <2>4, <2>5, <2>6
<1>2. \A p \in P : w[p] \in Int /\ ones[p] = 1 /\ ones[p] \in Int
  BY TotalAssumption DEF toPendingInvoice, Payable, Payments, ListRows
<1>3. \A k \in K : txs[k] = Sum(ones, part[k])
  <2>1. ASSUME NEW k \in K PROVE Sum(ones, part[k]) = Cardinality(part[k])
    <3>1. IsFiniteSet(part[k]) /\ \A p \in part[k] : ones[p] = 1
      BY <1>1, <1>2
    <3> HIDE DEF ones, part
    <3>q. QED BY <3>1, SumOnes
  <2>2. \A k \in K : k.txs = Cardinality(k.payments)
    BY <1>0, BlocksAre
  <2>q. QED BY <1>1, <2>1, <2>2
<1>4. \A k \in K : sums[k] = Sum(w, part[k])
  <2>1. ASSUME NEW k \in K PROVE sumAmounts(part[k]) = Sum(w, part[k])
    <3> DEFINE v == [p \in part[k] |-> toPendingInvoice(p)]
    <3>1. sumAmounts(part[k]) = Sum(v, part[k])
      BY AmountsAre
    <3>2. IsFiniteSet(part[k]) /\ \A p \in part[k] : v[p] = w[p] /\ v[p] \in Int
      BY <1>1, <1>2
    <3> HIDE DEF v, w, part
    <3>3. Sum(v, part[k]) = Sum(w, part[k])
      BY <3>2, SumSame
    <3>q. QED BY <3>1, <3>3
  <2>2. \A k \in K : k.sum = sumAmounts(k.payments)
    BY <1>0, BlocksAre
  <2>q. QED BY <1>1, <2>1, <2>2
<1>5. Sum(ones, P) = Cardinality(P) /\ Sum(w, P) = sumAmounts(P)
  <2>1. Sum(w, P) = sumAmounts(P)
    BY AmountsAre
  <2> HIDE DEF ones
  <2>q. QED BY <1>0, <1>2, <2>1, SumOnes
<1>6. Sum(txs, K) = Sum(ones, P) /\ Sum(sums, K) = Sum(w, P)
  <2> HIDE DEF K, part, ones, w, txs, sums
  <2>0. Split(P, K, part) /\ \A p \in P : ones[p] \in Int /\ w[p] \in Int
    BY <1>0, <1>1, <1>2 DEF Split
  <2>1. Sum(txs, K) = Sum(ones, P)
    BY <1>3, <2>0, SumParts
  <2>2. Sum(sums, K) = Sum(w, P)
    BY <1>4, <2>0, SumParts
  <2>q. QED BY <2>1, <2>2
<1>7. MapThenSumSet(LAMBDA k : k.txs, K) = Sum(txs, K)
  BY TxsAre
<1>8. MapThenSumSet(LAMBDA k : k.sum, K) = Sum(sums, K)
  BY SumsAdded
<1>9. UNION {k.payments : k \in K} = P
  BY <1>0, BlocksAre
<1> HIDE DEF K, txs, sums, ones, w
<1>q. QED BY <1>0, <1>5, <1>6, <1>7, <1>8, <1>9

\* What the file of a payable set says, block by block.
LEMMA FileHolds ==
  ASSUME NEW P, Payable(P), document = PAIN001(P)
  PROVE  FileIsConsistent /\ Instructed = P
<1>1. /\ document.blocks = Blocks(P) /\ document.txs = Cardinality(P) /\ IsFiniteSet(P)
      /\ UNION {k.payments : k \in document.blocks} = P
      /\ document.txs = MapThenSumSet(LAMBDA k : k.txs, document.blocks)
      /\ document.sum = MapThenSumSet(LAMBDA k : k.sum, document.blocks)
  <2>1. document.blocks = Blocks(P) /\ document.txs = Cardinality(P)
    BY DEF PAIN001
  <2>q. QED BY <2>1, FileAddsUp DEF Payable
<1>2. Instructed = P
  BY <1>1 DEF Instructed
<1>3. \A k, m \in document.blocks : k.currency = m.currency => k = m
  BY <1>1, BlocksAre
<1>4. ASSUME NEW k \in document.blocks
      PROVE  /\ k.currency # "SEK"
             /\ \A p \in k.payments : CurrencyOf(p.row.bill) = k.currency /\ Total(p.row.bill) > 0
  <2>1. k.payments = InBlock(P, k.currency) /\ k.currency \in Currencies(P)
    BY <1>1, BlocksAre
  <2>q. QED BY <2>1 DEF InBlock, Currencies, Payable, IsForeignCurrency, toPendingInvoice
<1>5. \A p, q \in Instructed : PayeeOf(p.row.bill) = PayeeOf(q.row.bill) => p.account = q.account
  BY <1>2 DEF Payable
<1>q. QED BY <1>1, <1>2, <1>3, <1>4, <1>5 DEF FileIsConsistent

\* Before a file is made there is none, and nothing is wrong with it.
LEMMA NoFileHolds ==
  ASSUME document = NoFile
  PROVE  FileIsConsistent
<1>1. document.blocks = {} /\ document.txs = 0 /\ document.sum = 0
  BY DEF NoFile
<1>2. Instructed = {} /\ Cardinality({}) = 0
  BY <1>1, FS_EmptySet DEF Instructed
<1>3. MapThenSumSet(LAMBDA k : k.txs, {}) = 0 /\ MapThenSumSet(LAMBDA k : k.sum, {}) = 0
  BY TxsAre, SumsAdded, SumEmpty
<1>q. QED BY <1>1, <1>2, <1>3 DEF FileIsConsistent

\* The place of b among the invoices of U.
PlaceIn(U, b) == Cardinality({a \in U : a <= b})

LEMMA PlaceIs ==
  ASSUME NEW U \in SUBSET Nat, IsFiniteSet(U), NEW b \in Nat
  PROVE  /\ PlaceIn(U, b) \in Nat /\ PlaceIn(U, b) <= Cardinality(U) /\ Cardinality(U) \in Nat
         /\ b \in U => PlaceIn(U, b) > 0
<1> DEFINE L == {a \in U : a <= b}
<1>1. IsFiniteSet(L) /\ Cardinality(L) \in Nat /\ Cardinality(L) <= Cardinality(U) /\ Cardinality(U) \in Nat
  BY FS_Subset, FS_CardinalityType
<1>2. ASSUME b \in U PROVE Cardinality(L) > 0
  <2>1. L # {}
    BY <1>2
  <2> HIDE DEF L
  <2>q. QED BY <1>1, <2>1, FS_EmptySet
<1>q. QED BY <1>1, <1>2 DEF PlaceIn

\* An invoice that comes, or goes, behind the first m of a list leaves them as
\* they are.
LEMMA BehindThem ==
  ASSUME NEW U \in SUBSET Nat, IsFiniteSet(U), NEW b \in Nat, b \notin U, NEW m \in Nat,
         PlaceIn(U \cup {b}, b) > m
  PROVE  {a \in U \cup {b} : PlaceIn(U \cup {b}, a) <= m} = {a \in U : PlaceIn(U, a) <= m}
<1> DEFINE V == U \cup {b}
<1>0. V \subseteq Nat /\ IsFiniteSet(V)
  BY FS_AddElement
<1>1. ASSUME NEW a \in U, a < b PROVE PlaceIn(V, a) = PlaceIn(U, a)
  <2>1. {u \in V : u <= a} = {u \in U : u <= a}
    BY <1>1
  <2>q. QED BY <2>1 DEF PlaceIn
<1>2. ASSUME NEW a \in U, a > b PROVE PlaceIn(V, a) > m /\ PlaceIn(U, a) > m
  <2> DEFINE low == {u \in V : u <= b}
             lowA == {u \in V : u <= a}
             past == {u \in U : u <= a}
  <2>1. IsFiniteSet(low) /\ IsFiniteSet(lowA) /\ IsFiniteSet(past)
    BY <1>0, FS_Subset
  <2>2. /\ low \cup {a} \subseteq lowA /\ a \notin low
        /\ lowA = past \cup {b} /\ b \notin past
    <3>1. a \in V /\ b <= a /\ a \in Nat /\ \A u \in V : u \in Nat
      BY <1>0, <1>2
    <3>2. \A u \in V : u <= b => u <= a
      BY <1>2, <3>1
    <3>3. low \cup {a} \subseteq lowA /\ a \notin low
      <4>1. a <= a /\ ~(a <= b)
        BY <1>2, <3>1
      <4>q. QED BY <3>1, <3>2, <4>1
    <3>4. lowA = past \cup {b}
      BY <3>1
    <3>q. QED BY <3>3, <3>4
  <2>3. Cardinality(low) = PlaceIn(V, b) /\ Cardinality(lowA) = PlaceIn(V, a) /\ Cardinality(past) = PlaceIn(U, a)
    BY DEF PlaceIn
  <2> HIDE DEF low, lowA, past, V
  <2>4. Cardinality(low \cup {a}) = Cardinality(low) + 1 /\ IsFiniteSet(low \cup {a})
    BY <2>1, <2>2, FS_AddElement
  <2>5. Cardinality(low \cup {a}) <= Cardinality(lowA)
    BY <2>1, <2>2, FS_Subset
  <2>6. Cardinality(lowA) = Cardinality(past) + 1
    BY <2>1, <2>2, FS_AddElement
  <2>7. Cardinality(low) \in Nat /\ Cardinality(lowA) \in Nat /\ Cardinality(past) \in Nat
    BY <2>1, FS_CardinalityType
  <2>8. PlaceIn(V, b) > m
    BY DEF V
  <2>q. QED BY <2>3, <2>4, <2>5, <2>6, <2>7, <2>8
<1>3. \A a \in U : PlaceIn(V, a) <= m <=> PlaceIn(U, a) <= m
  <2> SUFFICES ASSUME NEW a \in U PROVE PlaceIn(V, a) <= m <=> PlaceIn(U, a) <= m
    OBVIOUS
  <2>1. PlaceIn(V, a) \in Nat /\ PlaceIn(U, a) \in Nat
    BY <1>0, PlaceIs
  <2>2. a < b \/ a > b
    OBVIOUS
  <2> HIDE DEF V
  <2>q. QED BY <1>1, <1>2, <2>1, <2>2
<1>4. ~(PlaceIn(V, b) <= m)
  <2>1. PlaceIn(V, b) \in Nat
    BY <1>0, PlaceIs
  <2>q. QED BY <2>1
<1>q. QED BY <1>3, <1>4

\* The unpaid invoices on the first k pages.
FirstPages(k) == {b \in Unsettled : PlaceIn(Unsettled, b) <= k * PageRows}
BillsOf(list) == {row.bill : row \in list}

LEMMA UnsettledIs ==
  ASSUME arrived \subseteq Bills
  PROVE  /\ Unsettled \subseteq Nat /\ Unsettled \subseteq Bills /\ IsFiniteSet(Unsettled)
         /\ \A b : Place(b) = PlaceIn(Unsettled, b)
<1>1. Unsettled \subseteq Bills
  BY DEF Unsettled
<1>q. QED BY <1>1, ListingAssumption, FS_Subset DEF Place, PlaceIn

\* What a page adds to the pages before it, and what the last completes.
LEMMA PagesAdd ==
  ASSUME arrived \subseteq Bills, NEW k \in Nat
  PROVE  /\ FirstPages(0) = {}
         /\ FirstPages(k + 1) = FirstPages(k) \cup OnPage(k + 1)
         /\ FirstPages(k) \cap OnPage(k + 1) = {}
         /\ Cardinality(Unsettled) <= (k + 1) * PageRows => FirstPages(k + 1) = Unsettled
<1>1. \A b \in Unsettled : /\ Place(b) = PlaceIn(Unsettled, b) /\ Place(b) \in Nat /\ Place(b) > 0
                           /\ Place(b) <= Cardinality(Unsettled)
  BY UnsettledIs, PlaceIs
<1>2. /\ k * PageRows \in Nat /\ (k + 1) * PageRows \in Nat /\ 0 * PageRows = 0
      /\ k * PageRows <= (k + 1) * PageRows /\ (k + 1) - 1 = k /\ Cardinality(Unsettled) \in Nat
  <2>1. PageRows \in Nat
    BY ListingAssumption
  <2>2. (k + 1) * PageRows = k * PageRows + PageRows /\ k * PageRows \in Nat
    BY <2>1
  <2>3. Cardinality(Unsettled) \in Nat
    BY UnsettledIs, FS_CardinalityType
  <2>q. QED BY <2>1, <2>2, <2>3
<1>3. FirstPages(0) = {}
  BY <1>1, <1>2 DEF FirstPages
<1> DEFINE here == k * PageRows
           next == (k + 1) * PageRows
<1>4. /\ \A b : b \in FirstPages(k) <=> b \in Unsettled /\ Place(b) <= here
      /\ \A b : b \in FirstPages(k + 1) <=> b \in Unsettled /\ Place(b) <= next
      /\ \A b : b \in OnPage(k + 1) <=> b \in Unsettled /\ here < Place(b) /\ Place(b) <= next
  BY <1>1, <1>2 DEF FirstPages, OnPage
<1>5. here \in Nat /\ next \in Nat /\ here <= next
  BY <1>2
<1> HIDE DEF here, next
<1>6. /\ FirstPages(k + 1) = FirstPages(k) \cup OnPage(k + 1)
      /\ FirstPages(k) \cap OnPage(k + 1) = {}
  BY <1>1, <1>4, <1>5
<1>7. Cardinality(Unsettled) <= next => FirstPages(k + 1) = Unsettled
  BY <1>1, <1>2, <1>4, <1>5
<1>q. QED BY <1>3, <1>6, <1>7 DEF next

\* What a request holds while it is at work, and what a file was made of: its
\* rows are the pages it read, each invoice once unless they shifted, an account
\* is the one that was looked up, and an account that was looked up is the
\* supplier's or was edited since.
FileTyped ==
  /\ arrived \subseteq Bills
  /\ owed \in [Bills -> Nat]
  /\ iban \in [Payees -> Accounts \cup {NoAccount}]
  /\ cache \in [Payees -> Accounts \cup {NoAccount, Unasked}]
  /\ making \in {"idle", "read", "enrich", "generate"} /\ nextPage \in Nat \ {0}
  /\ rows \subseteq ListRows /\ bare \subseteq rows
  /\ pending \subseteq Payments /\ IsFiniteSet(pending)
  /\ payable \subseteq Bills /\ shifted \in BOOLEAN

AtRest ==
  /\ making = "idle" => rows = {} /\ nextPage = 1
  /\ making \in {"idle", "read"} => bare = {} /\ pending = {} /\ \A s \in Payees : cache[s] = Unasked
  /\ making # "idle" => document = NoFile
  /\ \A b \in Bills : owed[b] > 0 => b \in arrived /\ Total(b) > 0

Paged ==
  /\ making = "read" /\ ~shifted => BillsOf(rows) = FirstPages(nextPage - 1)
  /\ ~shifted => \A r, t \in rows : r.bill = t.bill => r = t
  /\ making \in {"enrich", "generate"} /\ ~shifted =>
       \A b \in payable : IsForeignCurrency(b) => b \in BillsOf(rows)

LookedUp ==
  /\ making = "generate" => bare = {}
  /\ making \in {"enrich", "generate"} => \A row \in rows : IsForeignCurrency(row.bill)
  /\ \A p \in pending : /\ p.row \in rows \ bare /\ p.account # NoAccount
                        /\ cache[PayeeOf(p.row.bill)] = p.account
  /\ \A row \in rows \ bare : making \in {"enrich", "generate"} =>
       (\E p \in pending : p.row = row) \/ cache[PayeeOf(row.bill)] = NoAccount
  /\ \A s \in Payees : cache[s] # Unasked => cache[s] = iban[s] \/ s \in unread
MadeOf == document = NoFile \/ \E P : Payable(P) /\ document = PAIN001(P)

FileInv == FileTyped /\ AtRest /\ Paged /\ LookedUp /\ MadeOf /\ NothingTwice /\ NothingMissing

LEMMA NothingInIt == ASSUME document = NoFile PROVE NothingTwice /\ NothingMissing /\ MadeOf
<1>1. Instructed = {}
  BY DEF NoFile, Instructed
<1>q. QED BY <1>1 DEF NothingTwice, NothingMissing, MadeOf

\* The payee of a row, and its bill.
LEMMA RowPayee ==
  ASSUME NEW row \in ListRows PROVE row.bill \in Bills /\ PayeeOf(row.bill) \in Payees
  BY PayeesAssumption DEF ListRows

\* The invariant of the file, at the start and over a step.
LEMMA FileInvInit == FileInit => FileInv
<1> SUFFICES ASSUME FileInit PROVE FileInv
  OBVIOUS
<1>1. FileTyped
  <2>1. /\ arrived \subseteq Bills /\ rows \subseteq ListRows /\ bare \subseteq rows
        /\ pending \subseteq Payments /\ IsFiniteSet(pending) /\ payable \subseteq Bills
    BY FS_EmptySet DEF FileInit
  <2>2. nextPage \in Nat \ {0} /\ making = "idle" /\ shifted = FALSE
    BY DEF FileInit
  <2>3. /\ owed \in [Bills -> Nat] /\ iban \in [Payees -> Accounts \cup {NoAccount}]
        /\ cache \in [Payees -> Accounts \cup {NoAccount, Unasked}]
    BY DEF FileInit
  <2>q. QED BY <2>1, <2>2, <2>3 DEF FileTyped
<1>2. AtRest /\ Paged
  BY DEF FileInit, AtRest, Paged
<1>3. LookedUp
  BY DEF FileInit, LookedUp
<1>4. MadeOf /\ NothingTwice /\ NothingMissing
  BY NothingInIt DEF FileInit
<1>q. QED BY <1>1, <1>2, <1>3, <1>4 DEF FileInv

\* The books move, a request made or not: only what was not read yet, or a page
\* that shifts.
LEMMA BooksMove ==
  ASSUME FileInv, UNCHANGED <<iban, request, document, payable, unread>>,
         arrived' \subseteq Bills, owed' \in [Bills -> Nat],
         \A b \in Bills : owed'[b] > 0 => b \in arrived' /\ Total(b) > 0,
         NEW b \in Bills,
         \/ Unsettled' = Unsettled /\ UNCHANGED shifted
         \/ b \notin Unsettled /\ Unsettled' = Unsettled \cup {b} /\ Moves(PlaceIn(Unsettled', b))
         \/ b \in Unsettled /\ Unsettled' = Unsettled \ {b} /\ Moves(PlaceIn(Unsettled, b))
  PROVE  FileInv'
<1> DEFINE m == (nextPage - 1) * PageRows
<1>0. /\ UNCHANGED <<iban, making, nextPage, rows, cache, bare, pending, document, payable, unread>>
      /\ shifted' \in BOOLEAN /\ (shifted => shifted') /\ (making # "read" => shifted' = shifted)
  BY DEF request, Moves, FileInv, FileTyped
<1>1. FileTyped'
  BY <1>0 DEF FileInv, FileTyped
<1>2. AtRest' /\ LookedUp'
  BY <1>0 DEF FileInv, AtRest, LookedUp
<1>3. Paged'
  <2>1. ASSUME making = "read", ~shifted' PROVE FirstPages(nextPage - 1)' = FirstPages(nextPage - 1)
    <3>1. m \in Nat /\ b \in Nat /\ Unsettled \subseteq Nat /\ IsFiniteSet(Unsettled)
      <4>1. nextPage - 1 \in Nat /\ PageRows \in Nat
        BY ListingAssumption DEF FileInv, FileTyped
      <4>q. QED BY <4>1, ListingAssumption, UnsettledIs DEF FileInv, FileTyped
    <3>2. /\ FirstPages(nextPage - 1) = {a \in Unsettled : PlaceIn(Unsettled, a) <= m}
          /\ FirstPages(nextPage - 1)' = {a \in Unsettled' : PlaceIn(Unsettled', a) <= m}
      BY <1>0 DEF FirstPages, PlaceIn
    <3>3. \A place : Moves(place) => ~(place <= m)
      BY <2>1 DEF Moves
    <3>4. PlaceIn(Unsettled, b) \in Nat
      BY <3>1, PlaceIs
    <3> HIDE DEF m
    <3>5. CASE Unsettled' = Unsettled
      BY <3>2, <3>5
    <3>6. CASE b \notin Unsettled /\ Unsettled' = Unsettled \cup {b} /\ Moves(PlaceIn(Unsettled', b))
      <4>1. PlaceIn(Unsettled \cup {b}, b) \in Nat
        <5>1. Unsettled \cup {b} \subseteq Nat /\ IsFiniteSet(Unsettled \cup {b})
          BY <3>1, FS_AddElement
        <5>q. QED BY <3>1, <5>1, PlaceIs
      <4>2. PlaceIn(Unsettled \cup {b}, b) > m
        BY <3>1, <3>3, <3>6, <4>1
      <4>3. {a \in Unsettled \cup {b} : PlaceIn(Unsettled \cup {b}, a) <= m}
              = {a \in Unsettled : PlaceIn(Unsettled, a) <= m}
        BY <3>1, <3>6, <4>2, BehindThem
      <4>q. QED BY <3>2, <3>6, <4>3
    <3>7. CASE b \in Unsettled /\ Unsettled' = Unsettled \ {b} /\ Moves(PlaceIn(Unsettled, b))
      <4> DEFINE U == Unsettled \ {b}
      <4>1. U \subseteq Nat /\ IsFiniteSet(U) /\ b \notin U /\ U \cup {b} = Unsettled
        BY <3>1, <3>7, FS_Subset
      <4>2. PlaceIn(U \cup {b}, b) > m
        BY <3>1, <3>3, <3>4, <3>7, <4>1
      <4> HIDE DEF U
      <4>3. {a \in U \cup {b} : PlaceIn(U \cup {b}, a) <= m} = {a \in U : PlaceIn(U, a) <= m}
        BY <3>1, <4>1, <4>2, BehindThem
      <4>q. QED BY <3>2, <3>7, <4>1, <4>3 DEF U
    <3>q. QED BY <3>5, <3>6, <3>7
  <2>q. QED BY <1>0, <2>1 DEF FileInv, Paged, BillsOf
<1>4. MadeOf' /\ NothingTwice' /\ NothingMissing'
  <2>1. CASE making = "idle"
    BY <1>0, <2>1 DEF FileInv, MadeOf, NothingTwice, NothingMissing, Instructed
  <2>2. CASE making # "idle"
    <3>1. document' = NoFile
      BY <1>0, <2>2 DEF FileInv, AtRest
    <3>2. Instructed' = {}
      BY <3>1 DEF NoFile, Instructed
    <3>q. QED BY <3>1, <3>2 DEF NothingTwice, NothingMissing, MadeOf
  <2>q. QED BY <2>1, <2>2
<1>q. QED BY <1>1, <1>2, <1>3, <1>4 DEF FileInv

\* A request that ends without a file.
LEMMA ForgetKeeps ==
  ASSUME FileInv, Forget, UNCHANGED <<arrived, owed, iban>>, document' = NoFile,
         payable' \subseteq Bills, shifted' \in BOOLEAN
  PROVE  FileInv'
<1>1. FileTyped'
  BY FS_EmptySet DEF FileInv, Forget, FileTyped
<1>2. AtRest' /\ Paged'
  BY DEF FileInv, Forget, AtRest, Paged
<1>3. LookedUp'
  BY DEF Forget, LookedUp
<1>4. Instructed' = {}
  BY DEF NoFile, Instructed
<1>5. MadeOf' /\ NothingTwice' /\ NothingMissing'
  BY <1>4 DEF NothingTwice, NothingMissing, MadeOf
<1>q. QED BY <1>1, <1>2, <1>3, <1>5 DEF FileInv

\* One page more, or the last one.
LEMMA PageKeeps == ASSUME FileInv, UnpaidBills PROVE FileInv'
<1> DEFINE k == nextPage - 1
           new == [b \in OnPage(nextPage) |-> [bill |-> b, page |-> nextPage, balance |-> owed[b]]]
<1>0. /\ k \in Nat /\ k + 1 = nextPage /\ nextPage \in Nat /\ PageRows \in Nat
      /\ making \in {"idle", "read"} /\ bare = {} /\ pending = {} /\ \A s \in Payees : cache[s] = Unasked
      /\ arrived \subseteq Bills /\ owed \in [Bills -> Nat] /\ rows \subseteq ListRows
      /\ making = "idle" => rows = {} /\ k = 0
      /\ UNCHANGED <<arrived, owed, iban>> /\ document' = NoFile
      /\ payable' = {b \in Bills : owed[b] > 0} /\ shifted' = (making = "read" /\ shifted)
  BY ListingAssumption DEF UnpaidBills, FileInv, FileTyped, AtRest
<1>1. OnPage(nextPage) \subseteq Bills
  BY <1>0, UnsettledIs DEF OnPage
<1>2. /\ Gathered = rows \cup {new[b] : b \in OnPage(nextPage)}
      /\ \A b \in OnPage(nextPage) : new[b] \in ListRows /\ new[b].bill = b
      /\ Gathered \subseteq ListRows
  BY <1>0, <1>1 DEF Gathered, ListRows
<1> HIDE DEF new
<1>3. ASSUME ~shifted' PROVE BillsOf(rows) = FirstPages(k) /\ \A r, t \in rows : r.bill = t.bill => r = t
  <2>1. CASE making = "read"
    BY <1>0, <1>3, <2>1 DEF FileInv, Paged
  <2>2. CASE making = "idle"
    BY <1>0, <2>2, PagesAdd DEF BillsOf
  <2>q. QED BY <1>0, <2>1, <2>2
<1>4. ASSUME ~shifted'
      PROVE  /\ BillsOf(Gathered) = FirstPages(k + 1)
             /\ \A r, t \in Gathered : r.bill = t.bill => r = t
  <2>1. /\ FirstPages(k + 1) = FirstPages(k) \cup OnPage(nextPage)
        /\ FirstPages(k) \cap OnPage(nextPage) = {}
    BY <1>0, PagesAdd
  <2>2. BillsOf(Gathered) = BillsOf(rows) \cup OnPage(nextPage)
    <3>1. \A row \in Gathered : row \in rows \/ \E b \in OnPage(nextPage) : row = new[b]
      BY <1>2
    <3>2. \A row \in rows : row.bill \in BillsOf(rows)
      BY DEF BillsOf
    <3>3. BillsOf(Gathered) \subseteq BillsOf(rows) \cup OnPage(nextPage)
      BY <1>2, <3>1, <3>2 DEF BillsOf
    <3>4. BillsOf(rows) \subseteq BillsOf(Gathered)
      BY <1>2 DEF BillsOf
    <3>5. OnPage(nextPage) \subseteq BillsOf(Gathered)
      <4> SUFFICES ASSUME NEW b \in OnPage(nextPage) PROVE b \in BillsOf(Gathered)
        OBVIOUS
      <4>1. new[b] \in Gathered /\ new[b].bill = b
        BY <1>2
      <4>q. QED BY <4>1 DEF BillsOf
    <3>q. QED BY <3>3, <3>4, <3>5
  <2>3. ASSUME NEW r \in Gathered, NEW t \in Gathered, r.bill = t.bill PROVE r = t
    <3>1. CASE r \in rows /\ t \in rows
      BY <1>3, <1>4, <2>3, <3>1
    <3>2. \A row \in rows : row.bill \in FirstPages(k)
      BY <1>3, <1>4 DEF BillsOf
    <3>3. \A row \in Gathered \ rows : row.bill \in OnPage(nextPage) /\ row = new[row.bill]
      BY <1>2
    <3>q. QED BY <2>1, <2>3, <3>1, <3>2, <3>3
  <2>q. QED BY <1>3, <1>4, <2>1, <2>2, <2>3
<1>5. MadeOf' /\ NothingTwice' /\ NothingMissing'
  <2>1. Instructed' = {}
    BY <1>0 DEF NoFile, Instructed
  <2>q. QED BY <1>0, <2>1 DEF NothingTwice, NothingMissing, MadeOf
<1>6. CASE ~LastPage
  <2>0. /\ making' = "read" /\ nextPage' = nextPage + 1 /\ rows' = Gathered
        /\ UNCHANGED <<cache, bare, pending>>
    BY <1>6 DEF UnpaidBills
  <2>1. FileTyped'
    BY <1>0, <1>2, <2>0 DEF FileInv, FileTyped
  <2>2. AtRest'
    BY <1>0, <2>0 DEF FileInv, AtRest
  <2>3. Paged'
    <3>1. FirstPages(nextPage - 1)' = FirstPages(k + 1)
      <4>1. nextPage' - 1 = k + 1
        BY <1>0, <2>0
      <4>2. Unsettled' = Unsettled
        BY <1>0 DEF Unsettled
      <4>q. QED BY <4>1, <4>2 DEF FirstPages, PlaceIn
    <3>q. QED BY <1>4, <2>0, <3>1 DEF Paged, BillsOf
  <2>4. LookedUp'
    BY <1>0, <2>0 DEF LookedUp
  <2>q. QED BY <1>5, <2>1, <2>2, <2>3, <2>4 DEF FileInv
<1>7. CASE LastPage /\ Sync(Gathered) # {}
  <2>0. /\ making' = "enrich" /\ nextPage' = 1 /\ rows' = Sync(Gathered) /\ bare' = rows'
        /\ UNCHANGED <<cache, pending>>
    BY <1>7 DEF UnpaidBills, Kept
  <2>1. rows' \subseteq Gathered /\ \A row \in rows' : IsForeignCurrency(row.bill)
    BY <2>0 DEF Sync
  <2>2. FileTyped'
    BY <1>0, <1>2, <2>0, <2>1 DEF FileInv, FileTyped
  <2>3. AtRest'
    BY <1>0, <2>0 DEF FileInv, AtRest
  <2>4. Paged'
    <3>1. ASSUME ~shifted', NEW b \in payable', IsForeignCurrency(b) PROVE b \in BillsOf(rows')
      <4>1. Cardinality(Unsettled) <= (k + 1) * PageRows
        <5>1. (k + 1) * PageRows \in Nat /\ Cardinality(Unsettled) \in Nat
          BY <1>0, UnsettledIs, FS_CardinalityType
        <5>q. QED BY <1>0, <1>7, <5>1 DEF LastPage
      <4>2. b \in Unsettled
        BY <1>0, <3>1 DEF FileInv, AtRest, Unsettled
      <4>3. b \in BillsOf(Gathered)
        BY <1>0, <1>4, <3>1, <4>1, <4>2, PagesAdd
      <4>q. QED BY <2>0, <3>1, <4>3 DEF BillsOf, Sync
    <3>q. QED BY <1>4, <2>0, <2>1, <3>1 DEF Paged, BillsOf
  <2>5. LookedUp'
    BY <1>0, <2>0, <2>1 DEF LookedUp
  <2>q. QED BY <1>5, <2>2, <2>3, <2>4, <2>5 DEF FileInv
<1>8. CASE LastPage /\ Sync(Gathered) = {}
  <2>0. Forget
    BY <1>8 DEF UnpaidBills, Kept
  <2>q. QED BY <1>0, <1>5, <2>0, ForgetKeeps DEF FileInv
<1>q. QED BY <1>6, <1>7, <1>8 DEF UnpaidBills

\* A supplier is looked up, or the lookup fails.
LEMMA EnrichKeeps == ASSUME FileInv, NEW row \in bare, Enrich(row) PROVE FileInv'
<1> USE DEF FileInv
<1>0. /\ making = "enrich" /\ row \in rows /\ row \in ListRows /\ document = NoFile
      /\ row.bill \in Bills /\ PayeeOf(row.bill) \in Payees
      /\ UNCHANGED <<arrived, owed, iban, document, payable, unread, shifted>>
  BY RowPayee DEF Enrich, FileTyped, AtRest, reading
<1>1. CASE Forget
  BY <1>0, <1>1, ForgetKeeps DEF FileTyped
<1>2. ASSUME NEW answer \in Accounts \cup {NoAccount}, cachedLookup(PayeeOf(row.bill), answer),
             pending' = IF answer = NoAccount THEN pending
                        ELSE pending \cup {[row |-> row, account |-> answer]},
             bare' = bare \ {row}, making' = (IF bare' = {} THEN "generate" ELSE "enrich"),
             UNCHANGED <<nextPage, rows>>
      PROVE  FileInv'
  <2>1. /\ cache' \in [Payees -> Accounts \cup {NoAccount, Unasked}]
        /\ cache'[PayeeOf(row.bill)] = answer /\ answer # Unasked
        /\ \A s \in Payees : cache[s] # Unasked => cache'[s] = cache[s]
        /\ \A s \in Payees : cache'[s] # Unasked => cache'[s] = iban[s] \/ s \in unread
    <3>1. answer # Unasked
      BY <1>2, AccountsAssumption DEF NoAccount, Unasked
    <3>q. QED BY <1>0, <1>2, <3>1 DEF cachedLookup, FileTyped, LookedUp
  <2>2. /\ pending' \subseteq Payments /\ IsFiniteSet(pending')
        /\ \A p \in pending' : p \in pending \/ (p.row = row /\ p.account = answer /\ answer # NoAccount)
        /\ pending \subseteq pending'
        /\ answer # NoAccount => \E p \in pending' : p.row = row
    <3>1. CASE answer = NoAccount
      BY <1>2, <3>1 DEF FileTyped
    <3>2. CASE answer # NoAccount
      <4>1. pending' = pending \cup {[row |-> row, account |-> answer]}
        BY <1>2, <3>2
      <4>2. [row |-> row, account |-> answer] \in Payments
        BY <1>0, <3>2 DEF Payments
      <4>3. IsFiniteSet(pending')
        BY <4>1, FS_AddElement DEF FileTyped
      <4>q. QED BY <3>2, <4>1, <4>2, <4>3 DEF FileTyped
    <3>q. QED BY <3>1, <3>2
  <2>3. FileTyped' /\ AtRest'
    BY <1>0, <1>2, <2>1, <2>2 DEF FileTyped, AtRest
  <2>4. Paged'
    BY <1>0, <1>2 DEF Paged, BillsOf
  <2>5. LookedUp'
    <3>1. ASSUME NEW p \in pending'
          PROVE  /\ p.row \in rows' \ bare' /\ p.account # NoAccount
                 /\ cache'[PayeeOf(p.row.bill)] = p.account
      <4>1. CASE p \in pending
        <5>1. p.row \in ListRows /\ p.account \in Accounts /\ p.account # Unasked
          BY <4>1, AccountsAssumption DEF FileTyped, Payments
        <5>2. PayeeOf(p.row.bill) \in Payees
          BY <5>1, RowPayee
        <5>q. QED BY <1>2, <2>1, <4>1, <5>1, <5>2 DEF LookedUp
      <4>2. CASE p.row = row /\ p.account = answer /\ answer # NoAccount
        BY <1>0, <1>2, <2>1, <4>2
      <4>q. QED BY <2>2, <4>1, <4>2
    <3>2. ASSUME NEW r \in rows' \ bare'
          PROVE  (\E p \in pending' : p.row = r) \/ cache'[PayeeOf(r.bill)] = NoAccount
      <4>1. CASE r = row
        BY <2>1, <2>2, <4>1
      <4>2. CASE r # row
        <5>1. r \in rows \ bare /\ r \in ListRows
          BY <1>2, <3>2, <4>2 DEF FileTyped
        <5>2. (\E p \in pending : p.row = r) \/ cache[PayeeOf(r.bill)] = NoAccount
          BY <1>0, <5>1 DEF LookedUp
        <5>3. NoAccount # Unasked /\ PayeeOf(r.bill) \in Payees
          BY <5>1, RowPayee DEF NoAccount, Unasked
        <5>q. QED BY <2>1, <2>2, <5>2, <5>3
      <4>q. QED BY <4>1, <4>2
    <3>3. \A r \in rows' : IsForeignCurrency(r.bill)
      BY <1>0, <1>2 DEF LookedUp
    <3>4. making' = "generate" => bare' = {}
      BY <1>2
    <3>q. QED BY <1>0, <2>1, <3>1, <3>2, <3>3, <3>4 DEF LookedUp
  <2>6. MadeOf' /\ NothingTwice' /\ NothingMissing'
    <3>1. Instructed' = {}
      BY <1>0 DEF NoFile, Instructed
    <3>q. QED BY <1>0, <3>1 DEF NothingTwice, NothingMissing, MadeOf
  <2>q. QED BY <2>3, <2>4, <2>5, <2>6
<1>q. QED BY <1>1, <1>2 DEF Enrich

\* A file is made, or none can be.
LEMMA GenerateKeeps == ASSUME FileInv, GeneratePAIN001 PROVE FileInv'
<1> USE DEF FileInv
<1>0. /\ making = "generate" /\ bare = {} /\ document = NoFile /\ Forget
      /\ UNCHANGED <<arrived, owed, iban, payable, unread, shifted>>
  BY DEF GeneratePAIN001, AtRest, LookedUp, reading
<1>1. CASE document' = document
  BY <1>0, <1>1, ForgetKeeps DEF FileTyped
<1>2. CASE document' = PAIN001(pending) /\ \A p \in pending : toPendingInvoice(p) > 0
  <2>1. FileTyped'
    BY <1>0, FS_EmptySet DEF Forget, FileTyped
  <2>2. AtRest' /\ Paged'
    BY <1>0 DEF Forget, AtRest, Paged
  <2>3. LookedUp'
    BY <1>0 DEF Forget, LookedUp
  <2>4. Payable(pending)
    <3>1. \A p \in pending : IsForeignCurrency(p.row.bill)
      BY <1>0 DEF LookedUp
    <3>2. \A p, q \in pending : PayeeOf(p.row.bill) = PayeeOf(q.row.bill) => p.account = q.account
      BY DEF LookedUp
    <3>q. QED BY <1>2, <3>1, <3>2 DEF Payable, FileTyped
  <2>5. MadeOf'
    BY <1>2, <2>4 DEF MadeOf
  <2>6. Instructed' = pending
    <3>1. UNION {k.payments : k \in PAIN001(pending).blocks} = pending
      BY <2>4, FileAddsUp
    <3>q. QED BY <1>2, <3>1 DEF Instructed
  <2>7. NothingTwice'
    <3> SUFFICES ASSUME ~shifted', NEW p \in pending, NEW q \in pending, p.row.bill = q.row.bill
                 PROVE  p = q
      BY <2>6 DEF NothingTwice
    <3>1. p.row = q.row
      BY <1>0 DEF Paged, LookedUp
    <3>2. p.account = q.account
      BY <3>1 DEF LookedUp
    <3>3. /\ p = [row |-> p.row, account |-> p.account]
          /\ q = [row |-> q.row, account |-> q.account]
      BY DEF FileTyped, Payments
    <3>q. QED BY <3>1, <3>2, <3>3
  <2>8. NothingMissing'
    <3> SUFFICES ASSUME ~shifted', NEW b \in payable', IsForeignCurrency(b)
                 PROVE  \/ b \in {p.row.bill : p \in pending}
                        \/ iban[PayeeOf(b)] = NoAccount \/ PayeeOf(b) \in unread
      BY <1>0, <2>6 DEF NothingMissing
    <3>1. PICK row \in rows : row.bill = b
      BY <1>0 DEF Paged, BillsOf
    <3>2. PayeeOf(b) \in Payees /\ NoAccount # Unasked
      BY <3>1, RowPayee DEF FileTyped, NoAccount, Unasked
    <3>3. (\E p \in pending : p.row = row) \/ cache[PayeeOf(b)] = NoAccount
      BY <1>0, <3>1 DEF LookedUp
    <3>q. QED BY <3>1, <3>2, <3>3 DEF LookedUp
  <2>q. QED BY <2>1, <2>2, <2>3, <2>5, <2>7, <2>8
<1>q. QED BY <1>1, <1>2 DEF GeneratePAIN001

LEMMA FileInvStep == FileInv /\ [FileNext]_fileVars => FileInv'
<1> SUFFICES ASSUME FileInv, [FileNext]_fileVars PROVE FileInv'
  OBVIOUS
<1>0. /\ arrived \subseteq Bills /\ owed \in [Bills -> Nat]
      /\ \A a \in Bills : owed[a] > 0 => a \in arrived /\ Total(a) > 0
      /\ \A a : Place(a) = PlaceIn(Unsettled, a)
  BY UnsettledIs DEF FileInv, FileTyped, AtRest
<1>1. ASSUME NEW b \in Bills, Arrives(b) PROVE FileInv'
  <2>1. /\ owed' \in [Bills -> Nat] /\ arrived' = arrived \cup {b}
        /\ \A a \in Bills : owed'[a] = IF a = b THEN Total(b) ELSE owed[a]
        /\ Total(b) \in Nat /\ b \notin arrived
    BY <1>0, <1>1, TotalAssumption DEF Arrives
  <2>2. b \notin Unsettled /\ Unsettled' = Unsettled \cup {b}
    BY <1>0, <2>1 DEF Unsettled
  <2>3. Moves(PlaceIn(Unsettled', b))
    BY <1>1 DEF Arrives, Place, PlaceIn
  <2>4. \A a \in Bills : owed'[a] > 0 => a \in arrived' /\ Total(a) > 0
    BY <1>0, <2>1
  <2>q. QED BY <1>0, <1>1, <2>1, <2>2, <2>3, <2>4, BooksMove DEF Arrives
<1>2. ASSUME NEW b \in Bills, IsPaid(b) PROVE FileInv'
  <2>1. PICK rest \in 0..(owed[b] - 1) :
          /\ owed' = [owed EXCEPT ![b] = rest]
          /\ IF rest = 0 THEN Moves(Place(b)) ELSE UNCHANGED shifted
    BY <1>2 DEF IsPaid
  <2>2. /\ owed' \in [Bills -> Nat] /\ owed[b] > 0 /\ b \in arrived /\ Total(b) > 0
        /\ \A a \in Bills : owed'[a] = IF a = b THEN rest ELSE owed[a]
        /\ UNCHANGED arrived
    BY <1>0, <1>2, <2>1 DEF IsPaid
  <2>3. \A a \in Bills : owed'[a] > 0 => a \in arrived' /\ Total(a) > 0
    BY <1>0, <2>2
  <2>4. CASE rest = 0
    <3>1. b \in Unsettled /\ Unsettled' = Unsettled \ {b}
      BY <1>0, <2>2, <2>4, TotalAssumption DEF Unsettled
    <3>2. Moves(PlaceIn(Unsettled, b))
      BY <1>0, <2>1, <2>4
    <3>q. QED BY <1>0, <1>2, <2>2, <2>3, <3>1, <3>2, BooksMove DEF IsPaid
  <2>5. CASE rest # 0
    <3>1. Unsettled' = Unsettled
      BY <1>0, <2>2, <2>5 DEF Unsettled
    <3>q. QED BY <1>0, <1>2, <2>1, <2>2, <2>3, <2>5, <3>1, BooksMove DEF IsPaid
  <2>q. QED BY <2>4, <2>5
<1>3. ASSUME NEW s \in Payees, NEW a \in Accounts \cup {NoAccount}, EditAccount(s, a) PROVE FileInv'
  <2> USE DEF FileInv
  <2>1. FileTyped' /\ AtRest'
    BY <1>3 DEF EditAccount, FileTyped, AtRest, request
  <2>2. LookedUp'
    <3>1. \A t \in Payees : cache'[t] # Unasked => cache'[t] = iban'[t] \/ t \in unread'
      BY <1>3 DEF EditAccount, FileTyped, LookedUp, request
    <3>q. QED BY <1>3, <3>1 DEF EditAccount, LookedUp, request
  <2>3. MadeOf' /\ NothingTwice'
    BY <1>3 DEF EditAccount, MadeOf, NothingTwice, Instructed
  <2>4. NothingMissing'
    BY <1>3, PayeesAssumption DEF EditAccount, FileTyped, NothingMissing, request, Instructed
  <2>5. Paged'
    BY <1>3 DEF EditAccount, Paged, request, BillsOf, FirstPages, Unsettled, PlaceIn
  <2>q. QED BY <2>1, <2>2, <2>3, <2>4, <2>5
<1>4. ASSUME PageFails PROVE FileInv'
  BY <1>4, ForgetKeeps DEF PageFails, FileInv, FileTyped, AtRest, reading
<1>5. CASE UNCHANGED fileVars
  <2>1. FileTyped' /\ AtRest'
    BY <1>5 DEF fileVars, request, reading, FileInv, FileTyped, AtRest
  <2>2. Paged'
    BY <1>5 DEF fileVars, request, reading, FileInv, Paged, BillsOf, FirstPages, Unsettled, PlaceIn
  <2>3. LookedUp'
    BY <1>5 DEF fileVars, request, reading, FileInv, LookedUp
  <2>4. MadeOf' /\ NothingTwice' /\ NothingMissing'
    BY <1>5 DEF fileVars, request, reading, FileInv, MadeOf, NothingTwice, NothingMissing, Instructed
  <2>q. QED BY <2>1, <2>2, <2>3, <2>4 DEF FileInv
<1>q. QED BY <1>1, <1>2, <1>3, <1>4, <1>5, PageKeeps, EnrichKeeps, GenerateKeeps DEF FileNext

\* A file that is made agrees with itself, and with what was owed when its last
\* page was read: its totals are those of its blocks and theirs those of its
\* payments, each supplier is paid to one account, and, unless an invoice came or
\* went on the pages already read, each invoice is paid once and no foreign one is
\* left out that could have been paid, whatever is booked, paid and edited
\* meanwhile.
THEOREM FileIsTrue == FileSpec => []FileIsRight
<1>1. FileInv => FileIsRight
  <2> SUFFICES ASSUME FileInv PROVE FileIsRight
    OBVIOUS
  <2>1. FileIsConsistent
    BY FileHolds, NoFileHolds DEF FileInv, MadeOf
  <2>q. QED BY <2>1 DEF FileInv, FileIsRight
<1>q. QED BY <1>1, FileInvInit, FileInvStep, PTL DEF FileSpec

\* One step of the making of a file keeps the types.
LEMMA FileTypesStep ==
  ASSUME FileInv, FileTypeOK, [FileNext]_fileVars
  PROVE  FileTypeOK'
<1>0. FileTyped /\ FileTyped'
  BY FileInvStep DEF FileInv
<1>1. \A b \in Bills : owed'[b] \in 0..Total(b)
  <2>1. ASSUME NEW b \in Bills, Arrives(b) PROVE \A c \in Bills : owed'[c] \in 0..Total(c)
    BY <1>0, <2>1, TotalAssumption DEF Arrives, FileTyped, FileTypeOK
  <2>2. ASSUME NEW b \in Bills, IsPaid(b) PROVE \A c \in Bills : owed'[c] \in 0..Total(c)
    <3>1. PICK rest \in 0..(owed[b] - 1) : owed' = [owed EXCEPT ![b] = rest]
      BY <2>2 DEF IsPaid
    <3>2. owed[b] \in 0..Total(b) /\ owed[b] > 0 /\ Total(b) \in Nat
      BY <2>2, TotalAssumption DEF IsPaid, FileTypeOK
    <3>3. rest \in 0..Total(b)
      BY <3>2
    <3>q. QED BY <1>0, <3>1, <3>3 DEF FileTyped, FileTypeOK
  <2>3. CASE UNCHANGED owed
    BY <2>3 DEF FileTypeOK
  <2>q. QED BY <2>1, <2>2, <2>3
            DEF FileNext, Enrich, EditAccount, UnpaidBills, PageFails, GeneratePAIN001, fileVars
<1>2. \A row \in rows' : row.balance <= Total(row.bill)
  <2>1. rows' \subseteq rows \/ rows' \subseteq Gathered
    BY DEF FileNext, Arrives, IsPaid, Enrich, EditAccount, UnpaidBills, PageFails, GeneratePAIN001,
           Kept, Sync, Forget, request, fileVars
  <2>2. \A row \in Gathered : row.balance <= Total(row.bill)
    <3> SUFFICES ASSUME NEW b \in OnPage(nextPage) PROVE owed[b] <= Total(b)
      BY DEF Gathered, FileTypeOK
    <3>1. b \in Bills
      BY <1>0, UnsettledIs DEF OnPage, FileTyped
    <3>q. QED BY <3>1, TotalAssumption DEF FileTypeOK
  <2>q. QED BY <2>1, <2>2 DEF FileTypeOK
<1>3. unread' \subseteq Payees
  BY DEF FileNext, Arrives, IsPaid, Enrich, EditAccount, UnpaidBills, PageFails, GeneratePAIN001,
         fileVars, reading, FileTypeOK
<1>4. \A k \in document'.blocks : k.payments \subseteq Payments
  <2>1. \A k \in Blocks(pending) : k.payments \subseteq pending
    <3> SUFFICES ASSUME NEW c \in Currencies(pending)
                 PROVE  buildPmtInf(c, {p \in pending : CurrencyOf(p.row.bill) = c}).payments \subseteq pending
      BY DEF Blocks
    <3>q. QED BY DEF buildPmtInf
  <2>2. PAIN001(pending).blocks = Blocks(pending) /\ NoFile.blocks = {}
    BY DEF PAIN001, NoFile
  <2>3. document' \in {document, NoFile, PAIN001(pending)}
    BY DEF FileNext, Arrives, IsPaid, Enrich, EditAccount, UnpaidBills, PageFails, GeneratePAIN001, fileVars
  <2>q. QED BY <2>1, <2>2, <2>3, <1>0 DEF FileTyped, FileTypeOK
<1>q. QED BY <1>0, <1>1, <1>2, <1>3, <1>4 DEF FileTyped, FileTypeOK

\* No invoice is ever owed, or listed, for more than it was over, and no file holds
\* anything but payments of rows that were listed.
THEOREM FileTypes == FileSpec => []FileTypeOK
<1>1. ASSUME FileInit PROVE FileTypeOK
  <2>1. FileTyped /\ rows = {} /\ document.blocks = {} /\ unread = {}
    BY <1>1, FileInvInit DEF FileInv, FileInit, NoFile
  <2>2. \A b \in Bills : owed[b] \in 0..Total(b)
    BY <1>1, TotalAssumption DEF FileInit
  <2>q. QED BY <2>1, <2>2 DEF FileTyped, FileTypeOK
<1>q. QED BY <1>1, FileTypesStep, FileInvInit, FileInvStep, PTL DEF FileSpec

-----------------------------------------------------------------------------
(***************************************************************************)
(* The invoice side of the financial overview                              *)
(***************************************************************************)
LEMMA JoinedLists ==
  ASSUME NEW X, NEW A \in Seq(X), NEW B \in Seq(X), Len(A) = 7, Len(B) = 5
  PROVE  /\ Len(A \o B) = 12
         /\ \A k \in 1..12 : (A \o B)[k] = IF k <= 7 THEN A[k] ELSE B[k - 7]
<1>1. Len(A \o B) = Len(A) + Len(B)
  BY ConcatProperties
<1>2. \A k \in 1..(Len(A) + Len(B)) : (A \o B)[k] = IF k <= Len(A) THEN A[k] ELSE B[k - Len(A)]
  BY ConcatProperties, Zenon
<1>3. Len(A) + Len(B) = 12
  OBVIOUS
<1>q. QED BY <1>1, <1>2, <1>3

\* What was counted is what the books said then.
LEMMA CountsAre ==
  /\ Len(Counts) = 12
  /\ \A k \in 1..12 : Counts[k][1] \in {Payables, Receivables}
  /\ Counts[1] = <<Payables, "unpaid">> /\ Counts[3] = <<Payables, "unbooked">>
  /\ Counts[4] = <<Payables, "pendingpayment">> /\ Counts[5] = <<Payables, "authorizepending">>
  /\ Counts[8] = <<Receivables, "unpaid">> /\ Counts[10] = <<Receivables, "unbooked">>
<1> DEFINE F == SupplierInvoiceFilters
           H == CustomerInvoiceFilters
           A == [i \in 1..7 |-> <<Payables, F[i]>>]
           B == [i \in 1..5 |-> <<Receivables, H[i]>>]
<1>1. DOMAIN F = 1..7 /\ DOMAIN H = 1..5
  BY DEF SupplierInvoiceFilters, CustomerInvoiceFilters
<1>2. Counts = A \o B
  BY <1>1 DEF Counts
<1> DEFINE X == {<<Payables, F[i]>> : i \in 1..7} \cup {<<Receivables, H[i]>> : i \in 1..5}
<1>3. A \in Seq(X) /\ B \in Seq(X) /\ Len(A) = 7 /\ Len(B) = 5
  OBVIOUS
<1>4. F[1] = "unpaid" /\ F[3] = "unbooked" /\ F[4] = "pendingpayment" /\ F[5] = "authorizepending"
      /\ H[1] = "unpaid" /\ H[3] = "unbooked"
  BY DEF SupplierInvoiceFilters, CustomerInvoiceFilters
<1>5. /\ Len(Counts) = 12
      /\ \A k \in 1..7 : Counts[k] = A[k]
      /\ \A k \in 8..12 : Counts[k] = B[k - 7]
  <2>1. /\ Len(A \o B) = 12
        /\ \A k \in 1..12 : (A \o B)[k] = IF k <= 7 THEN A[k] ELSE B[k - 7]
    <3> HIDE DEF A, B, X
    <3>q. QED BY <1>3, JoinedLists
  <2>2. /\ Len(Counts) = 12
        /\ \A k \in 1..12 : Counts[k] = IF k <= 7 THEN A[k] ELSE B[k - 7]
    <3> HIDE DEF A, B
    <3>q. QED BY <1>2, <2>1
  <2> HIDE DEF A, B
  <2>q. QED BY <2>2
<1> HIDE DEF F, H, X
<1>6. /\ \A k \in 1..7 : A[k] = <<Payables, F[k]>>
      /\ \A k \in 1..5 : B[k] = <<Receivables, H[k]>>
  OBVIOUS
<1> HIDE DEF A, B
<1>7. \A k \in 1..12 : Counts[k][1] \in {Payables, Receivables}
  <2> SUFFICES ASSUME NEW k \in 1..12 PROVE Counts[k][1] \in {Payables, Receivables}
    OBVIOUS
  <2>1. CASE k \in 1..7
    BY <1>5, <1>6, <2>1
  <2>2. CASE k \in 8..12
    <3>1. k - 7 \in 1..5
      BY <2>2
    <3>q. QED BY <1>5, <1>6, <2>2, <3>1
  <2>q. QED BY <2>1, <2>2
<1>8. Counts[1] = A[1] /\ Counts[3] = A[3] /\ Counts[4] = A[4] /\ Counts[5] = A[5]
      /\ Counts[8] = B[1] /\ Counts[10] = B[3]
  BY <1>5
<1>q. QED BY <1>4, <1>5, <1>6, <1>7, <1>8

\* The verdict on a list of counts, and an invoice that a filter counts, in
\* terms of the lists themselves.
HasStatus(st, i, f) ==
  st[i] = f \/ (f = "unpaidoverdue" /\ st[i] = "unpaid" /\ Age(i) # Undated /\ Age(i) > 0)
CountOf(st, k) == Cardinality({i \in Counts[k][1] : HasStatus(st, i, Counts[k][2])})
FoundIn(cs) == {Counts[k][2] : k \in {n \in DOMAIN cs : cs[n] > 0}} \cap obligationFilters
Verdict(cs) == IF FoundIn(cs) \ {"unbooked"} # {} THEN "open"
               ELSE IF FoundIn(cs) # {} THEN "hidden" ELSE "none"

\* The verdict as a function of what was counted,
LEMMA VerdictIs == Assess = Verdict(counted) /\ Assess' = Verdict(counted')
  BY DEF Assess, Verdict, FoundIn, IsFound

\* a count of the books,
LEMMA CounterIs == \A k : Counter(k) = CountOf(status, k)
  BY DEF Counter, CountOf, Matches, HasStatus

\* and what it means that one is not zero.
LEMMA CountPositive ==
  ASSUME NEW st, NEW k \in 1..12
  PROVE  CountOf(st, k) \in Nat /\ (CountOf(st, k) > 0 <=> \E i \in Counts[k][1] : HasStatus(st, i, Counts[k][2]))
<1> DEFINE T == {i \in Counts[k][1] : HasStatus(st, i, Counts[k][2])}
<1>1. IsFiniteSet(Counts[k][1])
  BY CountsAre, LedgersAssumption
<1>2. IsFiniteSet(T)
  BY <1>1, FS_Subset
<1> HIDE DEF T
<1>3. Cardinality(T) \in Nat /\ (Cardinality(T) = 0 <=> T = {})
  BY <1>2, FS_CardinalityType, FS_EmptySet
<1>q. QED BY <1>3 DEF T, CountOf

\* When every count is what the ledgers hold, so is the verdict.
LEMMA VerdictIsTrue ==
  ASSUME NEW st, \A i \in Receivables : st[i] \notin {"pendingpayment", "authorizepending"},
         NEW cs, DOMAIN cs = 1..12, \A k \in 1..12 : cs[k] = CountOf(st, k)
  PROVE  /\ Verdict(cs) = "none" <=> \A i \in LedgerInvoices : ~Outstanding(st[i])
         /\ Verdict(cs) = "hidden" <=>
              /\ \E i \in LedgerInvoices : st[i] = "unbooked"
              /\ \A i \in LedgerInvoices : Outstanding(st[i]) => st[i] = "unbooked"
<1>1. ASSUME NEW f \in FoundIn(cs) PROVE f \in obligationFilters /\ \E i \in LedgerInvoices : st[i] = f
  <2>1. PICK k \in 1..12 : Counts[k][2] = f /\ cs[k] > 0
    BY DEF FoundIn
  <2>2. PICK i \in Counts[k][1] : HasStatus(st, i, f)
    BY <2>1, CountPositive
  <2>3. f \in obligationFilters /\ f # "unpaidoverdue"
    BY DEF FoundIn, obligationFilters
  <2>4. i \in LedgerInvoices
    BY CountsAre DEF LedgerInvoices
  <2>q. QED BY <2>2, <2>3, <2>4 DEF HasStatus
<1>2. ASSUME NEW i \in LedgerInvoices, Outstanding(st[i]) PROVE st[i] \in FoundIn(cs)
  <2>1. ASSUME NEW k \in 1..12, i \in Counts[k][1], Counts[k][2] = st[i] PROVE st[i] \in FoundIn(cs)
    <3>1. CountOf(st, k) > 0
      BY <2>1, CountPositive DEF HasStatus
    <3>2. cs[k] > 0 /\ k \in DOMAIN cs
      BY <3>1
    <3>q. QED BY <1>2, <2>1, <3>2 DEF FoundIn, Outstanding, obligationFilters
  <2>2. CASE i \in Payables
    <3>1. \E k \in {1, 3, 4, 5} : i \in Counts[k][1] /\ Counts[k][2] = st[i]
      BY <1>2, <2>2, CountsAre DEF Outstanding
    <3>q. QED BY <2>1, <3>1
  <2>3. CASE i \in Receivables
    <3>1. \E k \in {8, 10} : i \in Counts[k][1] /\ Counts[k][2] = st[i]
      BY <1>2, <2>3, CountsAre DEF Outstanding
    <3>q. QED BY <2>1, <3>1
  <2>q. QED BY <2>2, <2>3 DEF LedgerInvoices
<1>3. \A f \in obligationFilters : Outstanding(f)
  BY DEF obligationFilters, Outstanding
<1>4. Outstanding("unbooked")
  BY DEF Outstanding
<1>5. Verdict(cs) = "none" <=> FoundIn(cs) = {}
  BY DEF Verdict
<1>6. Verdict(cs) = "hidden" <=> FoundIn(cs) = {"unbooked"}
  BY DEF Verdict
<1>7. FoundIn(cs) = {} <=> \A i \in LedgerInvoices : ~Outstanding(st[i])
  BY <1>1, <1>2, <1>3
<1>8. FoundIn(cs) = {"unbooked"} <=>
        /\ \E i \in LedgerInvoices : st[i] = "unbooked"
        /\ \A i \in LedgerInvoices : Outstanding(st[i]) => st[i] = "unbooked"
  BY <1>1, <1>2, <1>3, <1>4
<1>q. QED BY <1>5, <1>6, <1>7, <1>8

\* While the books stand still, each list of a run and each of its counts is what
\* they hold, as far as the run has come.
ToBookOf(ledger) == {i \in ledger : status[i] = "unbooked"}
BooksTyped ==
  /\ status \in [LedgerInvoices -> Statuses] /\ left \in [LedgerInvoices -> 0..Amount]
  /\ \A i \in Receivables : status[i] \notin {"pendingpayment", "authorizepending"}
  /\ doing \in RunSteps /\ counted \in Seq(Nat)

AllListed == doing \in {"unbooked payables", "unbooked receivables", "print"}
Progress ==
  /\ doing # "idle" => report = NoReport
  /\ doing \in {"receivables", "payables"} => counted = <<>>
  /\ doing = "count" => Len(counted) < 12
  /\ AllListed => Len(counted) = 12
Faithful ==
  (doing # "idle" /\ ~moved) =>
    /\ \A k \in 1..Len(counted) : counted[k] = CountOf(status, k)
    /\ doing = "receivables" => unpaid = {}
    /\ doing = "payables" => unpaid = Unpaid(Receivables)
    /\ (doing = "count" \/ AllListed) => unpaid = Unpaid(Receivables) \cup Unpaid(Payables)
    /\ doing \in {"receivables", "payables", "count", "unbooked payables"} => toBook = {}
    /\ doing = "unbooked receivables" => toBook = ToBookOf(Payables)
    /\ doing = "print" => toBook = ToBookOf(LedgerInvoices)

\* A report in terms of the books it is about: what is left to pay in each ledger.
Truthful(r, st, toPay, toReceive) ==
  /\ r.verdict = "none" <=> \A i \in LedgerInvoices : ~Outstanding(st[i])
  /\ r.verdict = "hidden" <=>
       /\ \E i \in LedgerInvoices : st[i] = "unbooked"
       /\ \A i \in LedgerInvoices : Outstanding(st[i]) => st[i] = "unbooked"
  /\ r.unbooked = {i \in LedgerInvoices : st[i] = "unbooked"}
  /\ r.payables = toPay /\ r.receivables = toReceive
  /\ r.payables = Sum(r.payableAges, Buckets)
  /\ r.receivables = Sum(r.receivableAges, Buckets)

ReportTrue ==
  (report # NoReport /\ doing = "idle" /\ ~moved) =>
    Truthful(report, status, SumOf(Unpaid(Payables)), SumOf(Unpaid(Receivables)))

\* What is proved of the verdict is the property.
LEMMA ReportedIs == QuietReportIsTrue <=> ReportTrue
  BY DEF QuietReportIsTrue, ReportTrue, Truthful, Sum

OverviewInv == BooksTyped /\ Progress /\ Faithful /\ ReportTrue

\* At the start nothing was counted.
LEMMA OverviewInvInit == OverviewInit => OverviewInv
<1> SUFFICES ASSUME OverviewInit PROVE OverviewInv
  OBVIOUS
<1>1. BooksTyped
  <2>1. "none" \in Statuses /\ 0 \in 0..Amount /\ Receivables \subseteq LedgerInvoices
    BY AmountAssumption DEF Statuses, LedgerInvoices
  <2>2. <<>> \in Seq(Nat)
    OBVIOUS
  <2>q. QED BY <2>1, <2>2 DEF OverviewInit, BooksTyped, RunSteps
<1>2. Progress /\ Faithful /\ ReportTrue
  BY DEF OverviewInit, Progress, AllListed, Faithful, ReportTrue
<1>q. QED BY <1>1, <1>2 DEF OverviewInv

\* A list of unpaid invoices falls into the buckets, none lost and none twice.
LEMMA BucketsCover ==
  ASSUME NEW R, IsFiniteSet(R), \A row \in R : row[2] \in Int
  PROVE  SumOf(R) = Sum([b \in Buckets |-> SumOf({row \in R : bucket(row) = b})], Buckets)
<1> DEFINE w == [row \in R |-> row[2]]
           part == [b \in Buckets |-> {row \in R : bucket(row) = b}]
           z == [b \in Buckets |-> SumOf({row \in R : bucket(row) = b})]
<1>1. ASSUME NEW Q \in SUBSET R PROVE SumOf(Q) = Sum(w, Q)
  <2> DEFINE v == [row \in Q |-> row[2]]
  <2>1. SumOf(Q) = Sum(v, Q)
    BY DEF SumOf, Sum, MapThenSumSet, MapThenFoldSet
  <2>2. IsFiniteSet(Q) /\ \A row \in Q : v[row] = w[row] /\ v[row] \in Int
    BY FS_Subset
  <2> HIDE DEF v, w
  <2>q. QED BY <2>1, <2>2, SumSame
<1>2. \A b \in Buckets : z[b] = Sum(w, part[b])
  <2> SUFFICES ASSUME NEW b \in Buckets PROVE z[b] = Sum(w, part[b])
    OBVIOUS
  <2>1. z[b] = SumOf(part[b]) /\ part[b] \in SUBSET R
    OBVIOUS
  <2> HIDE DEF w, part, z
  <2>q. QED BY <1>1, <2>1
<1>3. /\ \A b \in Buckets : part[b] \subseteq R
      /\ \A b, c \in Buckets : b # c => part[b] \cap part[c] = {}
      /\ \A row \in R : w[row] \in Int
      /\ IsFiniteSet(Buckets)
  <2>2. Buckets = {"not yet due"} \cup {"1-30"} \cup {"31-90"} \cup {"90+"}
    BY DEF Buckets
  <2>3. IsFiniteSet({"not yet due"}) /\ IsFiniteSet({"1-30"}) /\ IsFiniteSet({"31-90"}) /\ IsFiniteSet({"90+"})
    BY FS_Singleton
  <2>4. \A A, B : IsFiniteSet(A) /\ IsFiniteSet(B) => IsFiniteSet(A \cup B)
    BY FS_Union
  <2>5. IsFiniteSet(Buckets)
    BY <2>2, <2>3, <2>4
  <2>q. QED BY <2>5
<1>4. UNION {part[b] : b \in Buckets} = R
  <2>1. \A row \in R : bucket(row) \in Buckets
    BY DEF bucket, Buckets
  <2>q. QED BY <2>1
<1>5. SumOf(R) = Sum(w, R)
  BY <1>1
<1> HIDE DEF w, part, z
<1>6. Split(R, Buckets, part)
  BY <1>3, <1>4 DEF Split
<1>7. SumOf(R) = Sum(z, Buckets)
  BY <1>2, <1>3, <1>5, <1>6, SumParts
<1>q. QED BY <1>7 DEF z

\* What is printed of books that stood still.
LEMMA ReportIsTrue ==
  ASSUME BooksTyped, Progress, Faithful, doing = "print", ~moved
  PROVE  Truthful(InvoiceFigures, status, SumOf(Unpaid(Payables)), SumOf(Unpaid(Receivables)))
<1> DEFINE r == InvoiceFigures
<1>1. /\ r.verdict = Assess /\ r.unbooked = toBook
      /\ r.payables = SumOf(Of(Payables)) /\ r.receivables = SumOf(Of(Receivables))
      /\ r.payableAges = WithAgeing(Payables) /\ r.receivableAges = WithAgeing(Receivables)
  BY DEF InvoiceFigures
<1>2. /\ DOMAIN counted = 1..12 /\ \A k \in 1..12 : counted[k] = CountOf(status, k)
      /\ unpaid = Unpaid(Receivables) \cup Unpaid(Payables)
      /\ toBook = ToBookOf(LedgerInvoices)
  <2>1. Len(counted) = 12 /\ counted \in Seq(Nat)
    BY DEF BooksTyped, Progress, AllListed
  <2>2. DOMAIN counted = 1..12
    BY <2>1
  <2>3. \A k \in 1..12 : counted[k] = CountOf(status, k)
    BY <2>1 DEF Faithful
  <2>q. QED BY <2>2, <2>3 DEF Faithful, AllListed
<1>3. r.verdict = Verdict(counted)
  BY <1>1, VerdictIs
<1>4. Of(Payables) = Unpaid(Payables) /\ Of(Receivables) = Unpaid(Receivables)
  BY <1>2, LedgersAssumption DEF Of, Unpaid
<1>5. ASSUME NEW L \in {Payables, Receivables}
      PROVE  IsFiniteSet(Unpaid(L)) /\ \A row \in Unpaid(L) : row[2] \in Int
  <2> DEFINE J == {j \in L : status[j] = "unpaid"}
             f == [j \in J |-> <<j, left[j]>>]
  <2>1. IsFiniteSet(J) /\ J \subseteq LedgerInvoices
    BY LedgersAssumption, FS_Subset DEF LedgerInvoices
  <2>2. Unpaid(L) = {f[j] : j \in J}
    BY DEF Unpaid
  <2>3. \A j \in J : f[j][2] \in Int
    BY <2>1, AmountAssumption DEF BooksTyped
  <2> HIDE DEF f, J
  <2>q. QED BY <2>1, <2>2, <2>3, ImageFinite
<1>6. ASSUME NEW L \in {Payables, Receivables}
      PROVE  SumOf(Of(L)) = Sum(WithAgeing(L), Buckets)
  <2>1. WithAgeing(L) = [b \in Buckets |-> SumOf({row \in Unpaid(L) : bucket(row) = b})]
    BY <1>4 DEF WithAgeing
  <2>2. SumOf(Unpaid(L)) = Sum([b \in Buckets |-> SumOf({row \in Unpaid(L) : bucket(row) = b})], Buckets)
    BY <1>5, BucketsCover
  <2>q. QED BY <1>4, <2>1, <2>2
<1>7. /\ r.payables = Sum(r.payableAges, Buckets)
      /\ r.receivables = Sum(r.receivableAges, Buckets)
  BY <1>1, <1>6
<1>8. /\ r.verdict = "none" <=> \A i \in LedgerInvoices : ~Outstanding(status[i])
      /\ r.verdict = "hidden" <=>
           /\ \E i \in LedgerInvoices : status[i] = "unbooked"
           /\ \A i \in LedgerInvoices : Outstanding(status[i]) => status[i] = "unbooked"
  BY <1>2, <1>3, VerdictIsTrue DEF BooksTyped
<1>q. QED BY <1>1, <1>2, <1>4, <1>7, <1>8 DEF ToBookOf, Truthful

\* Once the books have moved nothing is claimed of this run.
LEMMA BooksMoved ==
  ASSUME OverviewInv, NEW i \in LedgerInvoices, Move(i)
  PROVE  OverviewInv'
<1> USE DEF OverviewInv
<1>0. PICK s \in Statuses, b \in 0..Amount :
        /\ Becomes(i, s, b)
        /\ s \in {"pendingpayment", "authorizepending"} => i \in Payables
  <2>1. status[i] \in Statuses /\ left[i] \in 0..Amount /\ 0 \in 0..Amount /\ Amount \in 0..Amount
    BY AmountAssumption DEF BooksTyped
  <2>2. left[i] > 1 => left[i] - 1 \in 0..Amount
    BY <2>1, AmountAssumption
  <2>3. {"unpaid", "unbooked", "pendingpayment", "authorizepending", "fullypaid", "cancelled"} \subseteq Statuses
    BY DEF Statuses, Filters, SupplierInvoiceFilters
  <2>4. status[i] = "authorizepending" => i \in Payables
    BY DEF BooksTyped, LedgerInvoices
  <2>q. QED BY <2>1, <2>2, <2>3 DEF Move
<1>1. BooksTyped'
  <2>1. /\ status' = [status EXCEPT ![i] = s] /\ left' = [left EXCEPT ![i] = b]
        /\ doing' = doing /\ counted' = counted
    BY <1>0 DEF Becomes, run
  <2>2. status' \in [LedgerInvoices -> Statuses] /\ left' \in [LedgerInvoices -> 0..Amount]
    BY <2>1 DEF BooksTyped
  <2>3. \A r \in Receivables : status'[r] \notin {"pendingpayment", "authorizepending"}
    BY <1>0, <2>1, LedgersAssumption DEF BooksTyped, LedgerInvoices
  <2>q. QED BY <2>1, <2>2, <2>3 DEF BooksTyped
<1>2. Progress' /\ Faithful' /\ ReportTrue'
  BY <1>0 DEF Becomes, run, Progress, AllListed, Faithful, ReportTrue
<1>q. QED BY <1>1, <1>2

\* A step of the run, or of the books, keeps the invariant.
LEMMA OverviewInvStep == OverviewInv /\ [OverviewNext]_overviewVars => OverviewInv'
<1> SUFFICES ASSUME OverviewInv, [OverviewNext]_overviewVars PROVE OverviewInv'
  OBVIOUS
<1> USE DEF OverviewInv
<1>1. ASSUME Start PROVE OverviewInv'
  <2>1. BooksTyped'
    BY <1>1 DEF Start, BooksTyped, RunSteps
  <2>2. Progress' /\ ReportTrue'
    BY <1>1 DEF Start, Progress, AllListed, ReportTrue
  <2>3. Faithful'
    BY <1>1 DEF Start, Faithful, AllListed
  <2>q. QED BY <2>1, <2>2, <2>3
<1>2. ASSUME Fail PROVE OverviewInv'
  <2>1. BooksTyped'
    <3>1. doing' = "idle" /\ counted' = <<>> /\ UNCHANGED <<status, left>> /\ <<>> \in Seq(Nat)
      BY <1>2 DEF Fail
    <3>q. QED BY <3>1 DEF BooksTyped, RunSteps
  <2>2. Progress' /\ Faithful' /\ ReportTrue'
    BY <1>2 DEF Fail, Progress, AllListed, Faithful, ReportTrue
  <2>q. QED BY <2>1, <2>2
<1>3. ASSUME ListUnpaid("receivables", Receivables, "payables") PROVE OverviewInv'
  <2>1. BooksTyped'
    BY <1>3 DEF ListUnpaid, BooksTyped, RunSteps
  <2>2. Progress' /\ ReportTrue'
    BY <1>3 DEF ListUnpaid, Progress, AllListed, ReportTrue
  <2>3. Faithful'
    BY <1>3 DEF ListUnpaid, Progress, Faithful, AllListed, Unpaid
  <2>q. QED BY <2>1, <2>2, <2>3
<1>4. ASSUME ListUnpaid("payables", Payables, "count") PROVE OverviewInv'
  <2>1. BooksTyped'
    BY <1>4 DEF ListUnpaid, BooksTyped, RunSteps
  <2>2. Progress' /\ ReportTrue'
    BY <1>4 DEF ListUnpaid, Progress, AllListed, ReportTrue
  <2>3. Faithful'
    BY <1>4 DEF ListUnpaid, Progress, Faithful, AllListed, Unpaid
  <2>q. QED BY <2>1, <2>2, <2>3
<1>5. ASSUME StateCounts PROVE OverviewInv'
  <2> DEFINE n == Len(counted) + 1
  <2>0. /\ doing = "count" /\ counted' = Append(counted, Counter(n))
        /\ doing' = (IF Len(counted') < 12 THEN "count"
                     ELSE IF Assess' = "none" THEN "print" ELSE "unbooked payables")
        /\ UNCHANGED <<status, left, unpaid, toBook, report, moved>>
    BY <1>5, CountsAre DEF StateCounts
  <2>1. counted \in Seq(Nat) /\ Len(counted) < 12 /\ n \in 1..12
    <3>1. counted \in Seq(Nat) /\ Len(counted) < 12
      BY <2>0 DEF BooksTyped, Progress
    <3>2. Len(counted) \in Nat
      BY <3>1
    <3>3. n \in 1..12
      <4>1. \A m \in Nat : m < 12 => m + 1 \in 1..12
        OBVIOUS
      <4>q. QED BY <3>1, <3>2, <4>1
    <3>q. QED BY <3>1, <3>3
  <2>2. Counter(n) = CountOf(status, n) /\ CountOf(status, n) \in Nat
    BY <2>1, CounterIs, CountPositive
  <2>3. /\ counted' \in Seq(Nat) /\ Len(counted') = n
        /\ counted'[n] = CountOf(status, n)
        /\ \A k \in 1..Len(counted) : counted'[k] = counted[k]
    <3> HIDE DEF n
    <3>1. counted' = Append(counted, CountOf(status, n)) /\ n = Len(counted) + 1
      BY <2>0, <2>2 DEF n
    <3>q. QED BY <2>1, <2>2, <3>1
  <2>4. doing' \in {"count", "print", "unbooked payables"} /\ (doing' = "count" <=> n < 12)
    BY <2>0, <2>3
  <2>5. BooksTyped'
    BY <2>0, <2>3, <2>4 DEF BooksTyped, RunSteps
  <2>6. Progress' /\ ReportTrue'
    <3>1. doing' # "idle" /\ doing' \notin {"receivables", "payables", "unbooked receivables"}
      BY <2>4
    <3>2. report' = NoReport
      BY <2>0 DEF Progress
    <3>3. (doing' = "count" => Len(counted') < 12) /\ (doing' # "count" => Len(counted') = 12)
      <4> HIDE DEF n, OverviewInv
      <4>1. \A m \in 1..12 : m < 12 \/ m = 12
        OBVIOUS
      <4>2. Len(counted') = n /\ n \in 1..12 /\ (doing' = "count" <=> n < 12)
        BY <2>1, <2>3, <2>4
      <4>3. n = 12 => ~(n < 12)
        OBVIOUS
      <4>q. QED BY <4>1, <4>2, <4>3
    <3>q. QED BY <3>1, <3>2, <3>3 DEF Progress, AllListed, ReportTrue
  <2>7. Faithful'
    <3> SUFFICES ASSUME ~moved PROVE Faithful'
      BY <2>0 DEF Faithful
    <3>1. \A k \in 1..Len(counted) : counted[k] = CountOf(status, k)
      BY <2>0 DEF Faithful
    <3>2. \A k \in 1..n : counted'[k] = CountOf(status, k)
      <4>1. \A k \in 1..n : k = n \/ k \in 1..Len(counted)
        BY <2>1
      <4> HIDE DEF n
      <4>q. QED BY <2>3, <3>1, <4>1
    <3>3. unpaid = Unpaid(Receivables) \cup Unpaid(Payables) /\ toBook = {}
      BY <2>0 DEF Faithful
    <3>4. doing' = "print" => toBook = ToBookOf(LedgerInvoices)
      <4> SUFFICES ASSUME doing' = "print" PROVE ToBookOf(LedgerInvoices) = {}
        BY <3>3
      <4>1. n = 12 /\ Verdict(counted') = "none"
        BY <2>0, <2>1, <2>3, <2>4, VerdictIs
      <4>2. DOMAIN counted' = 1..12 /\ \A k \in 1..12 : counted'[k] = CountOf(status, k)
        <5> HIDE DEF n
        <5>q. QED BY <2>3, <3>2, <4>1
      <4>3. \A i \in LedgerInvoices : ~Outstanding(status[i])
        BY <4>1, <4>2, VerdictIsTrue DEF BooksTyped
      <4>q. QED BY <4>3 DEF ToBookOf, Outstanding
    <3>5. (\A k \in 1..Len(counted) : counted[k] = CountOf(status, k))'
      <4> HIDE DEF n
      <4>1. \A k \in 1..Len(counted') : counted'[k] = CountOf(status, k)
        BY <2>3, <3>2
      <4>2. status' = status
        BY <2>0
      <4>q. QED BY <4>1, <4>2 DEF CountOf, HasStatus
    <3>6. (unpaid = Unpaid(Receivables) \cup Unpaid(Payables))' /\ toBook' = {}
      BY <2>0, <3>3 DEF Unpaid
    <3>7. doing' = "print" => (toBook = ToBookOf(LedgerInvoices))'
      BY <2>0, <3>4 DEF ToBookOf
    <3>q. QED BY <2>4, <3>5, <3>6, <3>7 DEF Faithful
  <2>q. QED BY <2>5, <2>6, <2>7
<1>6. ASSUME UnbookedInvoices("unbooked payables", Payables, "unbooked receivables") PROVE OverviewInv'
  <2>1. BooksTyped'
    BY <1>6 DEF UnbookedInvoices, BooksTyped, RunSteps
  <2>2. Progress' /\ ReportTrue'
    BY <1>6 DEF UnbookedInvoices, Progress, AllListed, ReportTrue
  <2>3. Faithful'
    BY <1>6 DEF UnbookedInvoices, Faithful, AllListed, Unpaid, CountOf, HasStatus, ToBookOf
  <2>q. QED BY <2>1, <2>2, <2>3
<1>7. ASSUME UnbookedInvoices("unbooked receivables", Receivables, "print") PROVE OverviewInv'
  <2>1. BooksTyped'
    BY <1>7 DEF UnbookedInvoices, BooksTyped, RunSteps
  <2>2. Progress' /\ ReportTrue'
    BY <1>7 DEF UnbookedInvoices, Progress, AllListed, ReportTrue
  <2>3. Faithful'
    BY <1>7 DEF UnbookedInvoices, Faithful, AllListed, Unpaid, CountOf, HasStatus, ToBookOf, LedgerInvoices
  <2>q. QED BY <2>1, <2>2, <2>3
<1>8. ASSUME PrintReport PROVE OverviewInv'
  <2>1. BooksTyped'
    BY <1>8 DEF PrintReport, BooksTyped, RunSteps
  <2>2. Progress' /\ Faithful'
    BY <1>8 DEF PrintReport, Progress, AllListed, Faithful
  <2>3. ReportTrue'
    <3> SUFFICES ASSUME ~moved PROVE ReportTrue'
      BY <1>8 DEF PrintReport, ReportTrue
    <3>1. report' = InvoiceFigures /\ UNCHANGED <<status, left, moved>> /\ doing = "print"
      BY <1>8 DEF PrintReport
    <3>2. Truthful(InvoiceFigures, status, SumOf(Unpaid(Payables)), SumOf(Unpaid(Receivables)))
      BY <3>1, ReportIsTrue
    <3>3. Unpaid(Payables)' = Unpaid(Payables) /\ Unpaid(Receivables)' = Unpaid(Receivables)
      BY <3>1 DEF Unpaid
    <3>q. QED BY <3>1, <3>2, <3>3 DEF ReportTrue
  <2>q. QED BY <2>1, <2>2, <2>3
<1>9. CASE UNCHANGED overviewVars
  <2>1. BooksTyped' /\ Progress'
    BY <1>9 DEF overviewVars, run, BooksTyped, Progress, AllListed
  <2>2. Faithful'
    BY <1>9 DEF overviewVars, run, AllListed, Faithful, Unpaid, CountOf, HasStatus, ToBookOf
  <2>3. ReportTrue'
    <3>1. /\ UNCHANGED <<report, status, doing, moved>>
          /\ Unpaid(Payables)' = Unpaid(Payables) /\ Unpaid(Receivables)' = Unpaid(Receivables)
      BY <1>9 DEF overviewVars, run, Unpaid
    <3>q. QED BY <3>1 DEF ReportTrue
  <2>q. QED BY <2>1, <2>2, <2>3
<1>q. QED BY <1>1, <1>2, <1>3, <1>4, <1>5, <1>6, <1>7, <1>8, <1>9, BooksMoved DEF OverviewNext

\* A run whose books stood still prints what they hold: its verdict, its sums, the
\* invoices no ledger shows; and what is owed is in the buckets of its age.
THEOREM QuietReport == OverviewSpec => []QuietReportIsTrue
<1>1. OverviewInv => QuietReportIsTrue
  BY ReportedIs DEF OverviewInv
<1>q. QED BY <1>1, OverviewInvInit, OverviewInvStep, PTL DEF OverviewSpec

\* What is listed as unpaid has a balance: an invoice that is open is owed for.
StillOwed == \A i \in LedgerInvoices : Outstanding(status[i]) => left[i] > 0

\* One step of a run keeps the types.
LEMMA OverviewTypesStep ==
  ASSUME OverviewInv, OverviewTypeOK, StillOwed, [OverviewNext]_overviewVars
  PROVE  OverviewTypeOK' /\ StillOwed'
<1>0. BooksTyped /\ BooksTyped' /\ Progress
  BY OverviewInvStep DEF OverviewInv
<1>1. StillOwed'
  <2>1. ASSUME NEW i \in LedgerInvoices, Move(i) PROVE StillOwed'
    <3>1. /\ status[i] \in Statuses /\ left[i] \in 0..Amount /\ Amount > 0
          /\ Outstanding(status[i]) => left[i] > 0
      BY <1>0, AmountAssumption DEF BooksTyped, StillOwed
    <3>2. PICK s, b : Becomes(i, s, b) /\ (Outstanding(s) => b > 0)
      BY <2>1, <3>1 DEF Move, Outstanding
    <3>q. QED BY <1>0, <3>2 DEF Becomes, BooksTyped, StillOwed
  <2>2. CASE UNCHANGED <<status, left>>
    BY <2>2 DEF StillOwed
  <2>q. QED BY <2>1, <2>2 DEF OverviewNext, Start, Fail, ListUnpaid, StateCounts, UnbookedInvoices,
                             PrintReport, overviewVars
<1>2. unpaid' \subseteq LedgerInvoices \X (1..Amount)
  <2>1. \A ledger \in {Payables, Receivables} : Unpaid(ledger) \subseteq LedgerInvoices \X (1..Amount)
    <3> SUFFICES ASSUME NEW i \in LedgerInvoices, status[i] = "unpaid" PROVE left[i] \in 1..Amount
      BY DEF Unpaid, LedgerInvoices
    <3>q. QED BY <1>0, AmountAssumption DEF BooksTyped, StillOwed, Outstanding
  <2>2. \/ unpaid' \in {{}, unpaid}
        \/ \E ledger \in {Payables, Receivables} : unpaid' = unpaid \cup Unpaid(ledger)
    BY DEF OverviewNext, Move, Becomes, Start, Fail, ListUnpaid, StateCounts, UnbookedInvoices,
           PrintReport, overviewVars, run
  <2>q. QED BY <2>1, <2>2 DEF OverviewTypeOK
<1>3. toBook' \subseteq LedgerInvoices /\ moved' \in BOOLEAN
  BY DEF OverviewNext, Move, Becomes, Start, Fail, ListUnpaid, StateCounts, UnbookedInvoices,
         PrintReport, overviewVars, run, OverviewTypeOK, LedgerInvoices
<1>4. Len(counted') \in 0..12 /\ \A k \in DOMAIN counted' : counted'[k] \in 0..Cardinality(Counts[k][1])
  <2>1. Len(counted) \in 0..12
    BY CountsAre DEF OverviewTypeOK
  <2>2. CASE StateCounts
    <3> DEFINE n == Len(counted) + 1
    <3>1. n \in 1..12 /\ counted' = Append(counted, Counter(n))
      <4>1. counted' = Append(counted, Counter(n)) /\ doing = "count"
        BY <2>2 DEF StateCounts
      <4>2. Len(counted) < 12
        BY <4>1, <1>0 DEF Progress
      <4>q. QED BY <4>1, <4>2, <2>1
    <3>2. Counter(n) \in 0..Cardinality(Counts[n][1])
      <4>1. IsFiniteSet(Counts[n][1])
        BY <3>1, CountsAre, LedgersAssumption
      <4>2. {i \in Counts[n][1] : Matches(i, Counts[n][2])} \subseteq Counts[n][1]
        OBVIOUS
      <4>3. /\ Cardinality(Counts[n][1]) \in Nat /\ Counter(n) \in Nat
            /\ Counter(n) <= Cardinality(Counts[n][1])
        BY <4>1, <4>2, FS_Subset, FS_CardinalityType DEF Counter
      <4>q. QED BY <4>3
    <3>3. counted \in Seq(Nat) /\ DOMAIN counted = 1..(n - 1)
      BY <1>0, <2>1 DEF BooksTyped
    <3>4. /\ Len(counted') = n /\ DOMAIN counted' = 1..n /\ counted'[n] = Counter(n)
          /\ \A k \in 1..(n - 1) : counted'[k] = counted[k]
      <4> HIDE DEF n
      <4>1. Counter(n) \in Nat
        BY <3>1, CountsAre, LedgersAssumption, CountPositive, CounterIs
      <4>q. QED BY <3>1, <3>3, <4>1 DEF n
    <3>q. QED BY <3>1, <3>2, <3>3, <3>4 DEF OverviewTypeOK
  <2>3. CASE counted' = counted
    BY <2>1, <2>3 DEF OverviewTypeOK
  <2>4. CASE counted' = <<>>
    BY <2>4
  <2>q. QED BY <2>2, <2>3, <2>4 DEF OverviewNext, Move, Becomes, Start, Fail, ListUnpaid,
               UnbookedInvoices, PrintReport, overviewVars, run
<1>5. Len(Counts) = 12
  BY CountsAre
<1>q. QED BY <1>0, <1>1, <1>2, <1>3, <1>4, <1>5 DEF BooksTyped, OverviewTypeOK

\* A run makes no more counts than there are, and none counts more than its ledger holds.
THEOREM OverviewTypes == OverviewSpec => []OverviewTypeOK
<1>1. OverviewInit => OverviewTypeOK /\ StillOwed
  <2> SUFFICES ASSUME OverviewInit PROVE OverviewTypeOK /\ StillOwed
    OBVIOUS
  <2>1. BooksTyped
    BY OverviewInvInit DEF OverviewInv
  <2>2. StillOwed
    BY DEF OverviewInit, StillOwed, Outstanding
  <2>3. Len(counted) \in 0..Len(Counts)
    BY CountsAre DEF OverviewInit
  <2>4. \A k \in DOMAIN counted : counted[k] \in 0..Cardinality(Counts[k][1])
    BY DEF OverviewInit
  <2>5. unpaid = {} /\ toBook = {} /\ moved = FALSE
    BY DEF OverviewInit
  <2>q. QED BY <2>1, <2>2, <2>3, <2>4, <2>5 DEF OverviewTypeOK, BooksTyped
<1>q. QED BY <1>1, OverviewTypesStep, OverviewInvInit, OverviewInvStep, PTL DEF OverviewSpec

-----------------------------------------------------------------------------
(***************************************************************************)
(* The general ledger                                                      *)
(***************************************************************************)
LEMMA DebitsAre == ASSUME NEW Q PROVE Debits(Q) = Sum([r \in Q |-> r.debit], Q)
  BY ZenonT(60) DEF Debits, Sum, MapThenSumSet, MapThenFoldSet

LEMMA CreditsAre == ASSUME NEW Q PROVE Credits(Q) = Sum([r \in Q |-> r.credit], Q)
  BY ZenonT(60) DEF Credits, Sum, MapThenSumSet, MapThenFoldSet

\* Debit less credit, row by row.
LEMMA DifferencesAre ==
  ASSUME NEW Q
  PROVE  MapThenSumSet(LAMBDA r : r.debit - r.credit, Q) = Sum([r \in Q |-> r.debit - r.credit], Q)
  BY ZenonT(60) DEF Sum, MapThenSumSet, MapThenFoldSet

\* Rows that were read: what they are, in all and by account.
SomeRows(R) == IsFiniteSet(R) /\ \A r \in R : r.account \in Nat /\ r.debit \in Int /\ r.credit \in Int
Differences(R) == [r \in R |-> r.debit - r.credit]

\* What moved on rows is their debit less their credit.
LEMMA MovementIs ==
  ASSUME NEW R, SomeRows(R), NEW Q \in SUBSET R
  PROVE  /\ Debits(Q) = Sum([r \in R |-> r.debit], Q) /\ Debits(Q) \in Int
         /\ Credits(Q) = Sum([r \in R |-> r.credit], Q) /\ Credits(Q) \in Int
         /\ Movement(Q) = Sum(Differences(R), Q) /\ Movement(Q) \in Int
<1> DEFINE d == [r \in R |-> r.debit]
           c == [r \in R |-> r.credit]
           m == Differences(R)
           e == [r \in Q |-> r.debit]
           f == [r \in Q |-> r.credit]
<1>1. IsFiniteSet(Q) /\ \A r \in Q : /\ d[r] \in Int /\ e[r] = d[r]
                                     /\ c[r] \in Int /\ f[r] = c[r]
                                     /\ m[r] = d[r] - c[r]
  BY FS_Subset DEF SomeRows, Differences
<1>2. Debits(Q) = Sum(e, Q) /\ Credits(Q) = Sum(f, Q)
  BY DebitsAre, CreditsAre
<1> HIDE DEF d, c, m, e, f
<1>3. Debits(Q) = Sum(d, Q) /\ Sum(d, Q) \in Int
  <2>1. Sum(e, Q) = Sum(d, Q)
    BY <1>1, SumSame
  <2>q. QED BY <1>1, <1>2, <2>1, SumType
<1>4. Credits(Q) = Sum(c, Q) /\ Sum(c, Q) \in Int
  <2>1. Sum(f, Q) = Sum(c, Q)
    BY <1>1, SumSame
  <2>q. QED BY <1>1, <1>2, <2>1, SumType
<1>5. Sum(m, Q) = Sum(d, Q) - Sum(c, Q)
  BY <1>1, SumMinus
<1>q. QED BY <1>3, <1>4, <1>5 DEF Movement, d, c, m

\* Any family of parts of the rows, none of which meet.
LEMMA MovementParts ==
  ASSUME NEW R, SomeRows(R), NEW K, NEW part, Split(R, K, part),
         NEW z, \A k \in K : z[k] = Movement(part[k])
  PROVE  Sum(z, K) = Movement(R)
<1> DEFINE m == Differences(R)
<1>1. IsFiniteSet(R) /\ \A r \in R : m[r] \in Int
  BY DEF SomeRows, Differences
<1>2. \A k \in K : z[k] = Sum(m, part[k])
  BY MovementIs DEF Split
<1>3. Movement(R) = Sum(m, R)
  BY MovementIs
<1> HIDE DEF m
<1>4. Sum(z, K) = Sum(m, R)
  BY <1>1, <1>2, SumParts
<1>q. QED BY <1>3, <1>4

\* What the reader holds, and what the books say: a version of each voucher that
\* there was, and balances to bring forward of balance-sheet accounts only.
LedgerInv ==
  /\ \A v \in Entries : version[v] \in -1..Corrections(v) /\ seen[v] \in -1..Corrections(v)
  /\ DOMAIN version = Entries /\ DOMAIN seen = Entries
  /\ brought \in [Listed -> [AccountsUsed -> Int]] /\ opening \in [Listed -> [AccountsUsed -> Int]]
  /\ \A y \in Listed : \A a \in AccountsUsed :
       /\ a >= 3000 => brought[y][a] = 0
       /\ a >= 3000 \/ a \notin Chart => opening[y][a] = 0

EveryRow == UNION {AllRows(v) : v \in Entries}

\* A chart and the rows of finite books have finitely many accounts.
LEMMA AccountsAreFinite ==
  IsFiniteSet(EveryRow) /\ IsFiniteSet(AccountsUsed) /\ AccountsUsed \subseteq Nat /\ Chart \subseteq AccountsUsed
<1> DEFINE used == [v \in Entries |-> AllRows(v)]
           All == UNION {AllRows(v) : v \in Entries}
           account == [r \in All |-> r.account]
<1>1. ASSUME NEW v \in Entries PROVE IsFiniteSet(AllRows(v))
  <2> DEFINE at == [n \in 0..Corrections(v) |-> RowsAt(v, n)]
  <2>1. IsFiniteSet(0..Corrections(v))
    BY RowsAssumption, FS_Interval
  <2>2. IsFiniteSet({at[n] : n \in 0..Corrections(v)})
    <3> HIDE DEF at
    <3>q. QED BY <2>1, ImageFinite
  <2>3. \A Q \in {at[n] : n \in 0..Corrections(v)} : IsFiniteSet(Q)
    BY RowsAssumption
  <2>4. AllRows(v) = UNION {at[n] : n \in 0..Corrections(v)}
    BY DEF AllRows
  <2> HIDE DEF at
  <2>q. QED BY <2>2, <2>3, <2>4, FS_UNION
<1>2. IsFiniteSet(All)
  <2>1. IsFiniteSet({used[v] : v \in Entries})
    <3> HIDE DEF used
    <3>q. QED BY BooksAreFinite, ImageFinite
  <2>2. \A Q \in {used[v] : v \in Entries} : IsFiniteSet(Q)
    BY <1>1
  <2>3. All = UNION {used[v] : v \in Entries}
    OBVIOUS
  <2> HIDE DEF used, All
  <2>q. QED BY <2>1, <2>2, <2>3, FS_UNION
<1>3. {r.account : r \in All} = {account[r] : r \in All}
  OBVIOUS
<1>4. \A r \in All : r.account \in Nat
  BY RowsAssumption
<1>5. AccountsUsed = Chart \cup {r.account : r \in All}
  BY DEF AccountsUsed
<1> HIDE DEF All, account
<1>6. IsFiniteSet({account[r] : r \in All})
  BY <1>2, ImageFinite
<1>7. IsFiniteSet(Chart \cup {r.account : r \in All})
  BY <1>3, <1>6, BooksAreFinite, FS_Union
<1>q. QED BY <1>2, <1>4, <1>5, <1>7, BooksAreFinite DEF EveryRow, All

\* At the start nothing is posted and nothing read.
LEMMA LedgerInvInit == LedgerInit => LedgerInv
<1> SUFFICES ASSUME LedgerInit PROVE LedgerInv
  OBVIOUS
<1>1. \A v \in Entries : -1 \in -1..Corrections(v)
  BY RowsAssumption
<1>2. Nothing \in [Listed -> [AccountsUsed -> Int]] /\ \A y \in Listed : \A a \in AccountsUsed : Nothing[y][a] = 0
  BY DEF Nothing
<1>q. QED BY <1>1, <1>2 DEF LedgerInit, LedgerInv

\* The rows of vouchers, each in one of its versions.
LEMMA RowsOfVersions ==
  ASSUME NEW V \in SUBSET Entries, NEW at, \A v \in V : at[v] \in 0..Corrections(v)
  PROVE  SomeRows(UNION {RowsAt(v, at[v]) : v \in V})
<1> DEFINE part == [v \in V |-> RowsAt(v, at[v])]
           R == UNION {RowsAt(v, at[v]) : v \in V}
<1>1. \A v \in V : IsFiniteSet(part[v]) /\ part[v] \subseteq AllRows(v)
  BY RowsAssumption DEF AllRows
<1>2. R = UNION {part[v] : v \in V}
  OBVIOUS
<1>3. \A r \in R : r.account \in Nat /\ r.debit \in Int /\ r.credit \in Int
  BY <1>1, RowsAssumption
<1>4. IsFiniteSet(V)
  BY BooksAreFinite, FS_Subset
<1> HIDE DEF part, R
<1>5. IsFiniteSet({part[v] : v \in V})
  BY <1>4, ImageFinite
<1>6. \A Q \in {part[v] : v \in V} : IsFiniteSet(Q)
  BY <1>1
<1>7. IsFiniteSet(R)
  BY <1>2, <1>5, <1>6, FS_UNION
<1>q. QED BY <1>3, <1>7 DEF SomeRows, R

\* Posting, correcting and reading keep the invariant.
LEMMA LedgerInvStep == LedgerInv /\ [LedgerNext]_ledgerVars => LedgerInv'
<1> SUFFICES ASSUME LedgerInv, [LedgerNext]_ledgerVars PROVE LedgerInv'
  OBVIOUS
<1>0. /\ Nothing \in [Listed -> [AccountsUsed -> Int]]
      /\ \A y \in Listed : \A a \in AccountsUsed : Nothing[y][a] = 0
      /\ \A v \in Entries : Corrections(v) \in Nat /\ -1 \in -1..Corrections(v)
  BY RowsAssumption DEF Nothing
<1>1. ASSUME NEW v \in Entries, EditVoucher(v) PROVE LedgerInv'
  <2>1. version[v] \in -1..Corrections(v) /\ version[v] < Corrections(v)
    BY <1>1 DEF EditVoucher, LedgerInv
  <2>2. version[v] + 1 \in -1..Corrections(v)
    BY <1>0, <2>1
  <2>q. QED BY <1>1, <2>2 DEF EditVoucher, LedgerInv, reader
<1>2. ASSUME NEW y \in Listed, NEW z \in Listed, CarryForward(y, z) PROVE LedgerInv'
  <2> DEFINE V == {u \in Entries : version[u] >= 0 /\ YearOf(u) = y}
             R == UNION {RowsAt(v, version[v]) : v \in V}
             carried == [a \in AccountsUsed |->
               IF a >= 3000 THEN 0 ELSE brought[y][a] + Movement({r \in R : r.account = a})]
  <2>1. brought' = [brought EXCEPT ![z] = carried] /\ UNCHANGED <<version, wanted, heads, seen, opening>>
    BY <1>2 DEF CarryForward, reader
  <2>2. SomeRows(R)
    <3>1. \A v \in V : version[v] \in 0..Corrections(v)
      BY RowsAssumption DEF LedgerInv
    <3>2. V \in SUBSET Entries
      OBVIOUS
    <3> HIDE DEF V
    <3>q. QED BY <3>1, <3>2, RowsOfVersions
  <2>3. carried \in [AccountsUsed -> Int]
    <3> SUFFICES ASSUME NEW a \in AccountsUsed
                 PROVE  (IF a >= 3000 THEN 0 ELSE brought[y][a] + Movement({r \in R : r.account = a})) \in Int
      OBVIOUS
    <3> HIDE DEF R
    <3>1. {r \in R : r.account = a} \in SUBSET R
      OBVIOUS
    <3>2. Movement({r \in R : r.account = a}) \in Int
      BY <2>2, <3>1, MovementIs
    <3>3. brought[y][a] \in Int
      BY DEF LedgerInv
    <3>q. QED BY <3>2, <3>3
  <2>4. \A a \in AccountsUsed : a >= 3000 => carried[a] = 0
    OBVIOUS
  <2> HIDE DEF carried
  <2>q. QED BY <2>1, <2>3, <2>4 DEF LedgerInv
<1>3. ASSUME StartReading PROVE LedgerInv'
  BY <1>0, <1>3 DEF StartReading, LedgerInv
<1>4. ASSUME NEW y \in Listed, ListVouchers(y) PROVE LedgerInv'
  <2> DEFINE charted == [a \in AccountsUsed |-> IF a \in Chart THEN brought[y][a] ELSE 0]
  <2>1. opening' = [opening EXCEPT ![y] = charted] /\ UNCHANGED <<version, brought, seen>>
    BY <1>4 DEF ListVouchers
  <2>2. /\ charted \in [AccountsUsed -> Int]
        /\ \A a \in AccountsUsed : a >= 3000 \/ a \notin Chart => charted[a] = 0
    BY DEF LedgerInv
  <2> HIDE DEF charted
  <2>q. QED BY <2>1, <2>2 DEF LedgerInv
<1>5. ASSUME NEW v \in Entries, GetVoucher(v) PROVE LedgerInv'
  <2>1. CASE seen' = [seen EXCEPT ![v] = version[v]] /\ opening' = opening
    BY <1>5, <2>1 DEF GetVoucher, LedgerInv
  <2>2. CASE seen' = [u \in Entries |-> -1] /\ opening' = Nothing
    BY <1>0, <1>5, <2>2 DEF GetVoucher, LedgerInv
  <2>q. QED BY <1>5, <2>1, <2>2 DEF GetVoucher
<1>6. CASE UNCHANGED ledgerVars
  BY <1>6 DEF ledgerVars, reader, LedgerInv
<1>q. QED BY <1>1, <1>2, <1>3, <1>4, <1>5, <1>6 DEF LedgerNext

\* What is counted of a voucher is the version that was read, and no row of another.
LEMMA Converted ==
  ASSUME LedgerInv, NEW v \in Entries, seen[v] >= 0
  PROVE  convertVoucher(v) = RowsAt(v, seen[v]) /\ seen[v] \in 0..Corrections(v)
<1>1. seen[v] \in 0..Corrections(v) /\ seen[v] \in 0..seen[v]
  BY RowsAssumption DEF LedgerInv
<1>2. RowsAt(v, seen[v]) \subseteq Returned(v)
  BY <1>1 DEF Returned
<1>q. QED BY <1>1, <1>2 DEF convertVoucher, Removed

\* A window of days of one year: its rows are those of its vouchers, which have
\* none in common and balance.
LEMMA WindowRows ==
  ASSUME LedgerInv, NEW y, NEW from, NEW to
  PROVE  /\ SomeRows(Rows(y, from, to))
         /\ \A r \in Rows(y, from, to) : r.account \in AccountsUsed
         /\ \A v \in Vouchers(y, from, to) :
              Movement(convertVoucher(v)) = 0 /\ convertVoucher(v) \subseteq Rows(y, from, to)
         /\ \A v, u \in Vouchers(y, from, to) : v # u => convertVoucher(v) \cap convertVoucher(u) = {}
<1> DEFINE V == Vouchers(y, from, to)
           R == Rows(y, from, to)
<1>1. V \in SUBSET Entries /\ \A v \in V : seen[v] \in 0..Corrections(v) /\ convertVoucher(v) = RowsAt(v, seen[v])
  BY Converted DEF Vouchers
<1>2. R = UNION {RowsAt(v, seen[v]) : v \in V}
  BY <1>1 DEF Rows
<1>3. \A v \in V : convertVoucher(v) \subseteq AllRows(v)
  BY <1>1 DEF AllRows
<1>4. \A r \in R : r.account \in AccountsUsed
  BY <1>1, <1>3 DEF Rows, AccountsUsed
<1>5. SomeRows(R)
  <2> HIDE DEF V, R
  <2>q. QED BY <1>1, <1>2, RowsOfVersions
<1>6. ASSUME NEW v \in V PROVE Movement(convertVoucher(v)) = 0
  <2> DEFINE Q == RowsAt(v, seen[v])
  <2>1. Sum(Differences(Q), Q) = 0
    BY <1>1, BalanceAssumption, DifferencesAre DEF Differences
  <2>2. SomeRows(Q)
    BY <1>1, RowsAssumption DEF SomeRows, AllRows
  <2> HIDE DEF Q
  <2>3. Movement(Q) = Sum(Differences(Q), Q)
    BY <2>2, MovementIs
  <2>q. QED BY <1>1, <2>1, <2>3 DEF Q
<1>7. \A v, u \in V : v # u => convertVoucher(v) \cap convertVoucher(u) = {}
  BY <1>1, <1>3, RowsAssumption
<1>8. \A v \in V : convertVoucher(v) \subseteq R
  BY DEF Rows
<1>q. QED BY <1>4, <1>5, <1>6, <1>7, <1>8

\* Every window balances, whatever was corrected between its vouchers.
LEMMA WindowBalances ==
  ASSUME LedgerInv, NEW y, NEW from, NEW to
  PROVE  Movement(Rows(y, from, to)) = 0
<1> DEFINE V == Vouchers(y, from, to)
           R == Rows(y, from, to)
           part == [v \in V |-> convertVoucher(v)]
           z == [v \in V |-> 0]
<1>1. IsFiniteSet(V)
  BY BooksAreFinite, FS_Subset DEF Vouchers
<1>2. /\ SomeRows(R)
      /\ \A v \in V : part[v] \subseteq R /\ z[v] = Movement(part[v])
      /\ \A v, u \in V : v # u => part[v] \cap part[u] = {}
      /\ \A v \in V : z[v] = 0
  BY WindowRows
<1>3. UNION {part[v] : v \in V} = R
  BY DEF Rows
<1> HIDE DEF V, R, part, z
<1>4. Sum(z, V) = Movement(R)
  <2>1. Split(R, V, part)
    BY <1>1, <1>2, <1>3 DEF Split, SomeRows
  <2>q. QED BY <1>2, <2>1, MovementParts
<1>5. Sum(z, V) = 0
  BY <1>1, <1>2, SumZero
<1>q. QED BY <1>4, <1>5 DEF R

\* A class is the sum of its closing balances.
LEMMA ClosingsAre ==
  ASSUME NEW y, NEW Q
  PROVE  MapThenSumSet(LAMBDA a : Position(y, a).closing, Q) = Sum([a \in Q |-> Position(y, a).closing], Q)
  BY DEF Sum, MapThenSumSet, MapThenFoldSet

\* Nothing moves on no rows.
LEMMA NoMovement == Movement({}) = 0
<1>1. Debits({}) = 0 /\ Credits({}) = 0
  BY DebitsAre, CreditsAre, SumEmpty
<1>q. QED BY <1>1 DEF Movement

OfClass(y, C) == {r \in YearRows(y) : r.account \in C}

\* A class of accounts closes at what its accounts opened at and what was posted
\* to them: an account that is not listed had neither.
LEMMA ClassIs ==
  ASSUME LedgerInv, NEW y \in Listed, NEW C
  PROVE  /\ ClassSum(y, C) = Sum(opening[y], AccountsUsed \cap C) + Movement(OfClass(y, C))
         /\ Sum(opening[y], AccountsUsed \cap C) \in Int /\ Movement(OfClass(y, C)) \in Int
<1> DEFINE A == AccountsUsed \cap C
           P == Positions(y) \cap C
           R == YearRows(y)
           RC == OfClass(y, C)
           of == [a \in A |-> {r \in R : r.account = a}]
           op == opening[y]
           mv == [a \in A |-> Movement(of[a])]
           cl == [a \in A |-> op[a] + mv[a]]
           pos == [a \in P |-> Position(y, a).closing]
<1>1. SomeRows(R) /\ \A r \in R : r.account \in AccountsUsed
  BY WindowRows DEF YearRows
<1>2. IsFiniteSet(A) /\ A \subseteq AccountsUsed /\ P \in SUBSET A
  <2>1. IsFiniteSet(A)
    BY AccountsAreFinite, FS_Subset
  <2>q. QED BY <2>1 DEF Positions
<1>3. SomeRows(RC) /\ RC \in SUBSET R
  <2>1. RC \in SUBSET R
    BY DEF OfClass
  <2>q. QED BY <1>1, <2>1, FS_Subset DEF SomeRows
<1>4. \A a \in A : of[a] \in SUBSET R /\ of[a] \subseteq RC
  BY DEF OfClass
<1>5. \A a \in A : op[a] \in Int /\ mv[a] \in Int /\ cl[a] = op[a] + mv[a] /\ cl[a] \in Int
  <2>1. \A a \in A : mv[a] \in Int
    <3> SUFFICES ASSUME NEW a \in A PROVE Movement(of[a]) \in Int
      OBVIOUS
    <3>1. of[a] \in SUBSET R
      BY <1>4
    <3> HIDE DEF of, R
    <3>q. QED BY <1>1, <3>1, MovementIs
  <2>2. \A a \in A : op[a] \in Int
    BY DEF LedgerInv
  <2> HIDE DEF mv, op
  <2>q. QED BY <2>1, <2>2
<1>6. Sum(mv, A) = Movement(RC)
  <2>1. UNION {of[a] : a \in A} = RC
    BY <1>1 DEF OfClass
  <2>2. \A a, b \in A : a # b => of[a] \cap of[b] = {}
    OBVIOUS
  <2>3. \A a \in A : mv[a] = Movement(of[a])
    OBVIOUS
  <2> HIDE DEF A, of, mv, RC
  <2>4. Split(RC, A, of)
    BY <1>2, <1>3, <1>4, <2>1, <2>2 DEF Split, SomeRows
  <2>q. QED BY <1>3, <2>3, <2>4, MovementParts
<1>7. \A a \in A \ P : cl[a] = 0
  <2> SUFFICES ASSUME NEW a \in A \ P PROVE op[a] + mv[a] = 0
    OBVIOUS
  <2>1. op[a] = 0 /\ of[a] = {}
    BY DEF Positions, LedgerInv
  <2>2. mv[a] = 0
    BY <2>1, NoMovement
  <2>q. QED BY <2>1, <2>2
<1>8. \A a \in P : pos[a] = cl[a]
  <2> SUFFICES ASSUME NEW a \in P PROVE Position(y, a).closing = op[a] + Movement(of[a])
    BY <1>2
  <2>1. a \in A
    BY <1>2
  <2>q. QED BY <2>1 DEF Position
<1>9. ClassSum(y, C) = Sum(pos, P)
  BY ClosingsAre DEF ClassSum
<1> HIDE DEF A, P, R, RC, of, op, mv, cl, pos
<1>10. ClassSum(y, C) = Sum(cl, P)
  <2>1. IsFiniteSet(P) /\ \A a \in P : pos[a] = cl[a] /\ pos[a] \in Int
    BY <1>2, <1>5, <1>8, FS_Subset
  <2>q. QED BY <1>9, <2>1, SumSame
<1>11. Sum(cl, A) = Sum(cl, P)
  <2>1. IsFiniteSet(A \ P) /\ A \ P \in SUBSET A /\ P \cup (A \ P) = A /\ P \cap (A \ P) = {}
    BY <1>2, FS_Subset
  <2>2. Sum(cl, A \ P) = 0
    BY <1>7, <2>1, SumZero
  <2>3. Sum(cl, P \cup (A \ P)) = Sum(cl, P) + Sum(cl, A \ P)
    BY <1>2, <1>5, <2>1, SumUnion
  <2>4. Sum(cl, P) \in Int
    <3>1. IsFiniteSet(P) /\ \A a \in P : cl[a] \in Int
      BY <1>2, <1>5, FS_Subset
    <3>q. QED BY <3>1, SumType
  <2>5. Sum(cl, A) = Sum(cl, P) + Sum(cl, A \ P)
    BY <2>1, <2>3
  <2>q. QED BY <2>2, <2>4, <2>5
<1>12. Sum(cl, A) = Sum(op, A) + Sum(mv, A)
  BY <1>2, <1>5, SumPlus
<1>13. Sum(op, A) \in Int /\ Sum(mv, A) \in Int
  BY <1>2, <1>5, SumType
<1>q. QED BY <1>6, <1>10, <1>11, <1>12, <1>13 DEF A, RC, op

\* Two classes that have no account in common.
LEMMA TwoClasses ==
  ASSUME LedgerInv, NEW y \in Listed, NEW C, NEW D, C \cap D = {}
  PROVE  ClassSum(y, C \cup D) = ClassSum(y, C) + ClassSum(y, D) /\ ClassSum(y, C) \in Int
<1> DEFINE op == opening[y]
           A == AccountsUsed \cap C
           B == AccountsUsed \cap D
           m == Differences(YearRows(y))
           RC == OfClass(y, C)
           RD == OfClass(y, D)
<1>1. /\ A \in SUBSET AccountsUsed /\ B \in SUBSET AccountsUsed /\ A \cap B = {}
      /\ AccountsUsed \cap (C \cup D) = A \cup B
      /\ RC \in SUBSET YearRows(y) /\ RD \in SUBSET YearRows(y) /\ RC \cap RD = {}
      /\ OfClass(y, C \cup D) = RC \cup RD
  BY DEF OfClass
<1>2. SomeRows(YearRows(y))
  BY WindowRows DEF YearRows
<1>3. \A r \in YearRows(y) : m[r] \in Int
  BY <1>2 DEF SomeRows, Differences
<1>4. \A a \in AccountsUsed : op[a] \in Int
  BY DEF LedgerInv
<1>5. /\ ClassSum(y, C \cup D) = Sum(op, A \cup B) + Movement(RC \cup RD)
      /\ ClassSum(y, C) = Sum(op, A) + Movement(RC) /\ Sum(op, A) \in Int /\ Movement(RC) \in Int
      /\ ClassSum(y, D) = Sum(op, B) + Movement(RD) /\ Sum(op, B) \in Int /\ Movement(RD) \in Int
  BY <1>1, ClassIs
<1> HIDE DEF op, A, B, m, RC, RD
<1>6. Sum(op, A \cup B) = Sum(op, A) + Sum(op, B)
  <2>1. IsFiniteSet(AccountsUsed)
    BY AccountsAreFinite
  <2>q. QED BY <1>1, <1>4, <2>1, SumUnion
<1>7. Movement(RC \cup RD) = Movement(RC) + Movement(RD)
  <2>1. Sum(m, RC \cup RD) = Sum(m, RC) + Sum(m, RD)
    BY <1>1, <1>2, <1>3, SumUnion DEF SomeRows
  <2>2. RC \cup RD \in SUBSET YearRows(y)
    BY <1>1
  <2>3. Movement(RC \cup RD) = Sum(m, RC \cup RD) /\ Movement(RC) = Sum(m, RC) /\ Movement(RD) = Sum(m, RD)
    BY <1>1, <1>2, <2>2, MovementIs DEF m
  <2>q. QED BY <2>1, <2>3
<1>8. \A a, b, c, d \in Int : (a + b) + (c + d) = (a + c) + (b + d)
  OBVIOUS
<1>q. QED BY <1>5, <1>6, <1>7, <1>8

\* What a year opened with, over the chart.
LEMMA OpenedIs == ASSUME NEW y PROVE Opened(y) = Sum([a \in Chart |-> opening[y][a]], Chart)
  BY DEF Opened, Sum, MapThenSumSet, MapThenFoldSet

\* A year that was read, whatever the books did meanwhile.
LEMMA YearIsExplained ==
  ASSUME LedgerInv, NEW y \in Listed
  PROVE  LET ov == BuildFinancialOverview(y) IN
         /\ ov.unbalanced = {}
         /\ ov.discrepancy = Opened(y)
         /\ ov.assets - ov.eqLiab = ov.result - ov.transferred + ov.discrepancy
         /\ LET earned == {r \in YearRows(y) : r.account >= 3000 /\ r.account # resultTransferAccount} IN
            ov.result = Credits(earned) - Debits(earned)
<1> DEFINE A == 0..1999
           E == 2000..2999
           I == 3000..3999
           K == {a \in AccountsUsed : a >= 4000} \ {resultTransferAccount}
           T == {resultTransferAccount}
           S(C) == ClassSum(y, C)
           ov == BuildFinancialOverview(y)
           earned == {r \in YearRows(y) : r.account >= 3000 /\ r.account # resultTransferAccount}
<1>1. /\ ov.assets = S(A) /\ ov.eqLiab = 0 - S(E) /\ ov.result = 0 - S(I) - S(K)
      /\ ov.transferred = S(T) /\ ov.discrepancy = S(AccountsUsed)
      /\ ov.unbalanced = UnbalancedVouchers(y)
  BY DEF BuildFinancialOverview
<1>2. AccountsUsed \subseteq Nat /\ Chart \subseteq AccountsUsed /\ IsFiniteSet(AccountsUsed)
  BY AccountsAreFinite
<1>3. UnbalancedVouchers(y) = {}
  BY WindowRows DEF UnbalancedVouchers
<1>4. S(AccountsUsed) = Opened(y)
  <2> DEFINE op == opening[y]
             ch == [a \in Chart |-> opening[y][a]]
             R == AccountsUsed \ Chart
  <2>1. S(AccountsUsed) = Sum(op, AccountsUsed) + Movement(YearRows(y))
    <3>1. OfClass(y, AccountsUsed) = YearRows(y)
      BY WindowRows DEF OfClass, YearRows
    <3>2. AccountsUsed \cap AccountsUsed = AccountsUsed
      OBVIOUS
    <3>q. QED BY <3>1, <3>2, ClassIs
  <2>2. Movement(YearRows(y)) = 0
    BY WindowBalances DEF YearRows
  <2>3. /\ \A a \in AccountsUsed : op[a] \in Int
        /\ \A a \in R : op[a] = 0
        /\ \A a \in Chart : op[a] = ch[a]
    BY <1>2 DEF LedgerInv
  <2>4. Opened(y) = Sum(ch, Chart)
    BY OpenedIs
  <2>5. /\ R \in SUBSET AccountsUsed /\ Chart \in SUBSET AccountsUsed /\ Chart \cap R = {}
        /\ Chart \cup R = AccountsUsed /\ IsFiniteSet(R) /\ IsFiniteSet(Chart)
    BY <1>2, FS_Subset
  <2> HIDE DEF op, ch, R
  <2>6. Sum(op, Chart \cup R) = Sum(op, Chart) + Sum(op, R)
    <3>1. IsFiniteSet(AccountsUsed)
      BY <1>2
    <3>q. QED BY <2>3, <2>5, <3>1, SumUnion
  <2>7. Sum(op, R) = 0 /\ Sum(op, AccountsUsed) \in Int /\ Sum(op, Chart) \in Int
    <3>1. Sum(op, R) = 0
      BY <2>3, <2>5, SumZero
    <3>2. Sum(op, AccountsUsed) \in Int
      BY <1>2, <2>3, SumType
    <3>3. Sum(op, Chart) \in Int
      <4>1. \A a \in Chart : op[a] \in Int
        BY <2>3, <2>5
      <4>q. QED BY <2>5, <4>1, SumType
    <3>q. QED BY <3>1, <3>2, <3>3
  <2>8. Sum(op, Chart) = Sum(ch, Chart)
    <3>1. \A a \in Chart : op[a] = ch[a] /\ op[a] \in Int
      BY <2>3, <2>5
    <3>q. QED BY <2>5, <3>1, SumSame
  <2>9. Sum(op, AccountsUsed) = Sum(ch, Chart)
    <3>1. Sum(op, AccountsUsed) = Sum(op, Chart) + Sum(op, R)
      BY <2>5, <2>6
    <3>q. QED BY <2>7, <2>8, <3>1
  <2>10. S(AccountsUsed) = Sum(op, AccountsUsed)
    <3> HIDE DEF S
    <3>q. QED BY <2>1, <2>2, <2>7
  <2> HIDE DEF S
  <2>q. QED BY <2>4, <2>9, <2>10
<1>5. /\ S(AccountsUsed) = S(A) + S(E) + S(I) + S(K) + S(T)
      /\ S(A) \in Int /\ S(E) \in Int /\ S(I) \in Int /\ S(K) \in Int /\ S(T) \in Int
      /\ S(I \cup K) = S(I) + S(K)
  <2>1. /\ A \cap (E \cup (I \cup (K \cup T))) = {} /\ E \cap (I \cup (K \cup T)) = {}
        /\ I \cap (K \cup T) = {} /\ K \cap T = {} /\ I \cap K = {} /\ T \cap {} = {}
        /\ AccountsUsed \subseteq A \cup (E \cup (I \cup (K \cup T)))
    <3>1. /\ \A a \in A : a < 2000
          /\ \A a \in E : a >= 2000 /\ a < 3000
          /\ \A a \in I : a >= 3000 /\ a < 4000
          /\ \A a \in K : a >= 4000 /\ a # 8999 /\ a \in Nat
          /\ \A a \in T : a = 8999
      BY <1>2 DEF resultTransferAccount
    <3>2. A \subseteq Nat /\ E \subseteq Nat /\ I \subseteq Nat /\ K \subseteq Nat /\ T \subseteq Nat
      <4>1. A \subseteq Nat /\ E \subseteq Nat /\ I \subseteq Nat
        OBVIOUS
      <4>2. K \subseteq Nat
        <5>1. K \subseteq AccountsUsed
          OBVIOUS
        <5> HIDE DEF K
        <5>q. QED BY <1>2, <5>1
      <4>3. T \subseteq Nat
        BY DEF resultTransferAccount
      <4> HIDE DEF A, E, I, K, T
      <4>q. QED BY <4>1, <4>2, <4>3
    <3>3. ASSUME NEW a \in AccountsUsed PROVE a \in A \cup (E \cup (I \cup (K \cup T)))
      <4>1. a \in Nat
        BY <1>2
      <4>2. a < 2000 \/ (a >= 2000 /\ a < 3000) \/ (a >= 3000 /\ a < 4000) \/ a >= 4000
        BY <4>1
      <4>q. QED BY <4>1, <4>2 DEF resultTransferAccount
    <3> HIDE DEF A, E, I, K, T
    <3>4. \A a \in Nat : ~(a < 2000 /\ a >= 2000) /\ ~(a < 3000 /\ a >= 3000) /\ ~(a < 4000 /\ a >= 4000)
      OBVIOUS
    <3>5. A \cap (E \cup (I \cup (K \cup T))) = {}
      BY <3>1, <3>2
    <3>6. E \cap (I \cup (K \cup T)) = {}
      BY <3>1, <3>2
    <3>7. I \cap (K \cup T) = {} /\ I \cap K = {} /\ K \cap T = {}
      BY <3>1, <3>2
    <3>q. QED BY <3>3, <3>5, <3>6, <3>7
  <2>2. \A C : AccountsUsed \subseteq C => S(AccountsUsed) = S(C)
    <3> SUFFICES ASSUME NEW C, AccountsUsed \subseteq C PROVE S(AccountsUsed) = S(C)
      OBVIOUS
    <3>1. Positions(y) \cap C = Positions(y) \cap AccountsUsed
      BY DEF Positions
    <3>q. QED BY <3>1 DEF ClassSum
  <2>3. ASSUME NEW C, NEW D, C \cap D = {} PROVE S(C \cup D) = S(C) + S(D) /\ S(C) \in Int
    BY <2>3, TwoClasses
  <2> HIDE DEF A, E, I, K, T, S
  <2>4. /\ S(A \cup (E \cup (I \cup (K \cup T)))) = S(A) + S(E \cup (I \cup (K \cup T)))
        /\ S(E \cup (I \cup (K \cup T))) = S(E) + S(I \cup (K \cup T))
        /\ S(I \cup (K \cup T)) = S(I) + S(K \cup T)
        /\ S(K \cup T) = S(K) + S(T) /\ S(I \cup K) = S(I) + S(K)
    BY <2>1, <2>3
  <2>5. S(A) \in Int /\ S(E) \in Int /\ S(I) \in Int /\ S(K) \in Int
    BY <2>1, <2>3
  <2>6. S(T) \in Int
    BY <2>1, <2>3
  <2>7. S(AccountsUsed) = S(A \cup (E \cup (I \cup (K \cup T))))
    BY <2>1, <2>2
  <2>8. \A a, b, c, d, e \in Int : a + (b + (c + (d + e))) = a + b + c + d + e
    OBVIOUS
  <2>q. QED BY <2>4, <2>5, <2>6, <2>7, <2>8
<1>6. S(I \cup K) = Movement(earned)
  <2> DEFINE D == AccountsUsed \cap (I \cup K)
             op == opening[y]
  <2>1. OfClass(y, I \cup K) = earned
    <3>1. \A r \in YearRows(y) : r.account \in AccountsUsed /\ r.account \in Nat
      BY <1>2, WindowRows DEF YearRows
    <3>2. \A a \in AccountsUsed : a \in Nat
      BY <1>2
    <3>3. \A a \in AccountsUsed : a \in I \cup K <=> a >= 3000 /\ a # resultTransferAccount
      BY <3>2 DEF resultTransferAccount
    <3> HIDE DEF I, K
    <3>q. QED BY <3>1, <3>3 DEF OfClass
  <2>2. \A a \in D : op[a] = 0
    <3>1. \A a \in D : a \in AccountsUsed /\ a >= 3000
      BY <1>2
    <3>q. QED BY <3>1 DEF LedgerInv
  <2>3. IsFiniteSet(D)
    BY <1>2, FS_Subset
  <2>4. Sum(op, D) = 0
    <3> HIDE DEF op, D
    <3>q. QED BY <2>2, <2>3, SumZero
  <2>5. ClassSum(y, I \cup K) = Sum(op, D) + Movement(OfClass(y, I \cup K)) /\ Movement(OfClass(y, I \cup K)) \in Int
    <3> HIDE DEF I, K
    <3>q. QED BY ClassIs
  <2> HIDE DEF D, op, earned, I, K
  <2>q. QED BY <2>1, <2>4, <2>5
<1>7. Movement(earned) = Debits(earned) - Credits(earned) /\ Debits(earned) \in Int /\ Credits(earned) \in Int
  <2>1. SomeRows(YearRows(y)) /\ earned \in SUBSET YearRows(y)
    BY WindowRows DEF YearRows
  <2> HIDE DEF earned
  <2>q. QED BY <2>1, MovementIs DEF Movement
<1> HIDE DEF A, E, I, K, T, S, ov, earned
<1>8. ov.assets - ov.eqLiab = ov.result - ov.transferred + ov.discrepancy
  BY <1>1, <1>5
<1>9. ov.result = Credits(earned) - Debits(earned)
  BY <1>1, <1>5, <1>6, <1>7
<1>q. QED BY <1>1, <1>3, <1>4, <1>8, <1>9 DEF ov, earned

\* Whatever is posted and corrected between the requests of a reading: no voucher
\* is out of balance, the year is out by what its opening balances are out by and by
\* nothing else, and its two sides differ by the result that was not transferred.
THEOREM LedgerAddsUp == LedgerSpec => []BooksExplained
<1>1. LedgerInv => BooksExplained
  BY YearIsExplained DEF BooksExplained
<1>q. QED BY <1>1, LedgerInvInit, LedgerInvStep, PTL DEF LedgerSpec

\* What a reader of the books still wants is what was listed to it, and what it holds
\* are vouchers of the books.
THEOREM LedgerTypes == LedgerSpec => []LedgerTypeOK
<1> DEFINE Reading == wanted \subseteq Listed /\ heads \subseteq Entries
<1>1. LedgerInit => Reading
  BY DEF LedgerInit
<1>2. Reading /\ [LedgerNext]_ledgerVars => Reading'
  BY DEF LedgerNext, EditVoucher, GetVoucher, CarryForward, ListVouchers, StartReading, ledgerVars, reader
<1>3. LedgerInv /\ Reading => LedgerTypeOK
  BY DEF LedgerInv, LedgerTypeOK
<1>q. QED BY <1>1, <1>2, <1>3, LedgerInvInit, LedgerInvStep, PTL DEF LedgerSpec

\* A window that is cut in two: every row of it is in one of the parts.
LEMMA WindowCut ==
  ASSUME LedgerInv, NEW y \in Listed, NEW d \in From(y)..(To(y) - 1)
  PROVE  /\ Rows(y, From(y), To(y)) = Rows(y, From(y), d) \cup Rows(y, d + 1, To(y))
         /\ Rows(y, From(y), d) \cap Rows(y, d + 1, To(y)) = {}
<1> DEFINE V == Vouchers(y, From(y), To(y))
           A == Vouchers(y, From(y), d)
           B == Vouchers(y, d + 1, To(y))
<1>1. From(y) \in Nat /\ To(y) \in Nat /\ d \in Nat /\ From(y) <= d /\ d + 1 <= To(y)
  BY YearsAssumption
<1>2. \A f, t, e, x \in Nat : (f <= e /\ e + 1 <= t) =>
        /\ (f <= x /\ x <= t) <=> (f <= x /\ x <= e) \/ (e + 1 <= x /\ x <= t)
        /\ ~(x <= e /\ e + 1 <= x)
  OBVIOUS
<1>3. V = A \cup B /\ A \cap B = {}
  BY <1>1, <1>2, YearsAssumption DEF Vouchers
<1>4. \A v, u \in V : v # u => convertVoucher(v) \cap convertVoucher(u) = {}
  BY WindowRows
<1>5. /\ Rows(y, From(y), To(y)) = UNION {convertVoucher(v) : v \in V}
      /\ Rows(y, From(y), d) = UNION {convertVoucher(v) : v \in A}
      /\ Rows(y, d + 1, To(y)) = UNION {convertVoucher(v) : v \in B}
  BY DEF Rows
<1> HIDE DEF V, A, B
<1>q. QED BY <1>3, <1>4, <1>5

OnClass(Q, C) == {r \in Q : r.account \in C}

\* What was credited, or debited, on the accounts of a class: over the parts of a
\* window it adds up.
LEMMA PartsAddUp ==
  ASSUME NEW R, SomeRows(R), NEW A, NEW B, R = A \cup B, A \cap B = {}, NEW C
  PROVE  /\ Credits(OnClass(R, C)) = Credits(OnClass(A, C)) + Credits(OnClass(B, C))
         /\ Debits(OnClass(R, C)) = Debits(OnClass(A, C)) + Debits(OnClass(B, C))
<1> DEFINE X == OnClass(R, C)
           Y == OnClass(A, C)
           Z == OnClass(B, C)
           d == [r \in R |-> r.debit]
           c == [r \in R |-> r.credit]
<1>1. X = Y \cup Z /\ Y \cap Z = {} /\ X \in SUBSET R /\ Y \in SUBSET R /\ Z \in SUBSET R
  BY DEF OnClass
<1>2. IsFiniteSet(R) /\ \A r \in R : d[r] \in Int /\ c[r] \in Int
  BY DEF SomeRows
<1>3. \A S \in SUBSET R : Debits(S) = Sum(d, S) /\ Credits(S) = Sum(c, S)
  BY MovementIs
<1> HIDE DEF d, c, X, Y, Z
<1>4. Sum(d, Y \cup Z) = Sum(d, Y) + Sum(d, Z)
  BY <1>1, <1>2, SumUnion
<1>5. Sum(c, Y \cup Z) = Sum(c, Y) + Sum(c, Z)
  BY <1>1, <1>2, SumUnion
<1>6. Debits(X) = Debits(Y) + Debits(Z) /\ Credits(X) = Credits(Y) + Credits(Z)
  BY <1>1, <1>3, <1>4, <1>5
<1>q. QED BY <1>6 DEF X, Y, Z

\* Two periods that meet make up the period they cover.
LEMMA PeriodsMeet ==
  ASSUME LedgerInv, NEW y \in Listed, NEW d \in From(y)..(To(y) - 1)
  PROVE  periodMetrics(y, From(y), To(y))
           = Plus(periodMetrics(y, From(y), d), periodMetrics(y, d + 1, To(y)))
<1> DEFINE R == Rows(y, From(y), To(y))
           A == Rows(y, From(y), d)
           B == Rows(y, d + 1, To(y))
<1>1. SomeRows(R) /\ R = A \cup B /\ A \cap B = {}
  BY WindowRows, WindowCut
<1> HIDE DEF R, A, B
<1>2. ASSUME NEW C
      PROVE  /\ Credits(OnClass(R, C)) = Credits(OnClass(A, C)) + Credits(OnClass(B, C))
             /\ Debits(OnClass(R, C)) = Debits(OnClass(A, C)) + Debits(OnClass(B, C))
  BY <1>1, PartsAddUp
<1>3. \A f, t : periodMetrics(y, f, t) = [revenue |-> Credits(OnClass(Rows(y, f, t), 3000..3999)),
                                         cogs |-> Debits(OnClass(Rows(y, f, t), 4000..4999))]
  BY DEF periodMetrics, OnClass
<1>4. /\ Credits(OnClass(R, 3000..3999)) = Credits(OnClass(A, 3000..3999)) + Credits(OnClass(B, 3000..3999))
      /\ Debits(OnClass(R, 4000..4999)) = Debits(OnClass(A, 4000..4999)) + Debits(OnClass(B, 4000..4999))
  <2> DEFINE I == 3000..3999
             G == 4000..4999
  <2> HIDE DEF I, G
  <2>1. Credits(OnClass(R, I)) = Credits(OnClass(A, I)) + Credits(OnClass(B, I))
    BY <1>2
  <2>2. Debits(OnClass(R, G)) = Debits(OnClass(A, G)) + Debits(OnClass(B, G))
    BY <1>2
  <2>q. QED BY <2>1, <2>2 DEF I, G
<1>q. QED BY <1>3, <1>4 DEF Plus, R, A, B

\* A sum over a function's values, as it is written in the tools.
LEMMA SpentAre ==
  ASSUME NEW f, NEW Q
  PROVE  MapThenSumSet(LAMBDA a : f[a], Q) = Sum(f, Q)
  BY DEF Sum

\* The accounts of expenses, and those of the cost of goods among them.
ExpenseAccounts == 4000..7999
GoodsAccounts == 4000..4999
Expenses(from, to) == {r \in Rows(latestYearID, from, to) : r.account \in ExpenseAccounts}

\* The expense analysis, by account.
LEMMA SpentIs ==
  ASSUME NEW from, NEW to
  PROVE  expenseAnalysis(from, to)
           = [a \in {r.account : r \in Expenses(from, to)} |->
                Debits({r \in Expenses(from, to) : r.account = a})]
  BY DEF expenseAnalysis, Expenses, ExpenseAccounts

\* The one are among the other.
LEMMA GoodsAmong == ASSUME NEW n \in GoodsAccounts PROVE n \in ExpenseAccounts
<1>1. n \in Int /\ 4000 <= n /\ n <= 4999
  BY SMT DEF GoodsAccounts
<1>2. n <= 7999
  BY <1>1
<1>q. QED BY <1>1, <1>2, SMT DEF ExpenseAccounts

\* The cost of goods is the part of the expenses that is on its accounts.
LEMMA ExpensesCover ==
  ASSUME LedgerInv
  PROVE  GoodsAreExpenses(latestYearID)
<1> DEFINE from == From(latestYearID)
           to == To(latestYearID)
           spent == expenseAnalysis(from, to)
           R == Rows(latestYearID, from, to)
           E == Expenses(from, to)
           G == {r \in R : r.account \in GoodsAccounts}
           K == DOMAIN spent \cap GoodsAccounts
           d == [r \in R |-> r.debit]
           of == [a \in K |-> {r \in E : r.account = a}]
<1>1. SomeRows(R) /\ \A r \in R : r.account \in AccountsUsed
  BY WindowRows
<1>2. /\ DOMAIN spent = {r.account : r \in E}
      /\ \A a \in DOMAIN spent : spent[a] = Debits({r \in E : r.account = a})
  <2> HIDE DEF E
  <2>1. spent = [a \in {r.account : r \in E} |-> Debits({r \in E : r.account = a})]
    BY SpentIs DEF E
  <2> HIDE DEF spent
  <2>q. QED BY <2>1
<1>0. E = {r \in R : r.account \in ExpenseAccounts}
  BY DEF Expenses
<1> HIDE DEF spent, R, E
<1>3. IsFiniteSet(K)
  <2>1. K \subseteq AccountsUsed /\ IsFiniteSet(AccountsUsed)
    BY <1>0, <1>1, <1>2, AccountsAreFinite
  <2> HIDE DEF K
  <2>q. QED BY <2>1, FS_Subset
<1>4. \A a \in K : of[a] \in SUBSET R /\ spent[a] = Debits(of[a])
  BY <1>0, <1>2
<1>5. (\A a, b \in K : a # b => of[a] \cap of[b] = {}) /\ UNION {of[a] : a \in K} = G
  <2>1. \A r : r \in E <=> r \in R /\ r.account \in ExpenseAccounts
    BY <1>0
  <2>2. \A a : a \in K <=> a \in GoodsAccounts /\ \E r \in E : r.account = a
    BY <1>2
  <2>3. \A a \in K : \A r : r \in of[a] <=> r \in E /\ r.account = a
    <3> HIDE DEF K
    <3>q. QED OBVIOUS
  <2> HIDE DEF K, of
  <2>4. \A a, b \in K : a # b => of[a] \cap of[b] = {}
    BY <2>3
  <2>5. ASSUME NEW r \in R, r.account \in GoodsAccounts PROVE \E a \in K : r \in of[a]
    <3>1. r \in E
      BY <2>1, <2>5, GoodsAmong
    <3>2. r.account \in K
      BY <2>2, <2>5, <3>1
    <3>q. QED BY <2>3, <3>1, <3>2
  <2>6. ASSUME NEW a \in K, NEW r \in of[a] PROVE r \in R /\ r.account \in GoodsAccounts
    BY <2>1, <2>2, <2>3
  <2>q. QED BY <2>4, <2>5, <2>6
<1>7. G \in SUBSET R /\ periodMetrics(latestYearID, from, to).cogs = Debits(G)
  BY DEF periodMetrics, GoodsAccounts, R
<1>8. IsFiniteSet(R) /\ \A r \in R : d[r] \in Int
  BY <1>1 DEF SomeRows
<1>9. \A Q \in SUBSET R : Debits(Q) = Sum(d, Q)
  BY <1>1, MovementIs
<1> HIDE DEF spent, R, E, G, K, d, of
<1>10. Sum(spent, K) = Sum(d, G)
  <2>1. Split(G, K, of)
    BY <1>3, <1>5, <1>7, <1>8, FS_Subset DEF Split
  <2>2. (\A r \in G : d[r] \in Int) /\ \A a \in K : spent[a] = Sum(d, of[a])
    BY <1>4, <1>7, <1>8, <1>9
  <2>q. QED BY <2>1, <2>2, SumParts
<1>11. MapThenSumSet(LAMBDA a : spent[a], K) = Sum(spent, K)
  BY SpentAre
<1>12. periodMetrics(latestYearID, from, to).cogs = MapThenSumSet(LAMBDA a : spent[a], K)
  BY <1>7, <1>9, <1>10, <1>11
<1>q. QED BY <1>12 DEF GoodsAreExpenses, GoodsAccounts, spent, K

\* The members of a set are those of its parts.
LEMMA CardinalityParts ==
  ASSUME NEW S, NEW K, NEW part, Split(S, K, part),
         NEW z, \A k \in K : z[k] = Cardinality(part[k])
  PROVE  Sum(z, K) = Cardinality(S)
<1> DEFINE ones == [x \in S |-> 1]
<1>1. IsFiniteSet(S) /\ \A x \in S : ones[x] = 1 /\ ones[x] \in Int
  BY DEF Split
<1> HIDE DEF ones
<1>2. ASSUME NEW k \in K PROVE z[k] = Sum(ones, part[k])
  <2>1. IsFiniteSet(part[k]) /\ \A x \in part[k] : ones[x] = 1
    BY <1>1, FS_Subset DEF Split
  <2>q. QED BY <2>1, SumOnes
<1>3. Sum(z, K) = Sum(ones, S)
  BY <1>1, <1>2, SumParts
<1>4. Sum(ones, S) = Cardinality(S)
  BY <1>1, SumOnes
<1>q. QED BY <1>3, <1>4

\* A year is found by its first day, and by a window that is the year.
LEMMA OneYear ==
  ASSUME NEW y \in Listed
  PROVE  findFinancialYear(From(y)) = {y} /\ FirstYear({z \in Listed : To(z) >= From(y) /\ From(z) <= To(y)}) = {y}
<1>1. FirstYear({y}) = {y}
  <2>1. PICK i \in DOMAIN Years : Years[i] = y
    BY DEF Listed
  <2>2. {j \in DOMAIN Years : Years[j] \in {y}} = {i}
    BY <2>1, YearsAssumption
  <2>3. i \in Nat
    <3>1. Years \in Seq(Nat)
      BY YearsAssumption
    <3>q. QED BY <2>1, <3>1
  <2>4. Min({i}) = i
    BY <2>3 DEF Min
  <2>q. QED BY <2>1, <2>2, <2>4 DEF FirstYear
<1>2. /\ From(y) \in Nat /\ To(y) \in Nat /\ From(y) <= To(y)
      /\ \A z \in Listed : From(z) \in Nat /\ To(z) \in Nat /\ From(z) <= To(z)
      /\ \A z \in Listed : y # z => To(y) < From(z) \/ To(z) < From(y)
  BY YearsAssumption
<1>3. {z \in Listed : Covers(z, From(y))} = {y}
  BY <1>2 DEF Covers
<1>4. {z \in Listed : To(z) >= From(y) /\ From(z) <= To(y)} = {y}
  BY <1>2
<1>q. QED BY <1>1, <1>3, <1>4 DEF findFinancialYear

\* No row is of two years.
LEMMA YearsApart ==
  ASSUME LedgerInv, NEW y, NEW z, y # z
  PROVE  YearRows(y) \cap YearRows(z) = {}
<1> DEFINE V == Vouchers(y, From(y), To(y))
           U == Vouchers(z, From(z), To(z))
<1>1. /\ \A v \in V : v \in Entries /\ YearOf(v) = y /\ convertVoucher(v) \subseteq AllRows(v)
      /\ \A u \in U : u \in Entries /\ YearOf(u) = z /\ convertVoucher(u) \subseteq AllRows(u)
  BY Converted DEF Vouchers, AllRows
<1>2. YearRows(y) = UNION {convertVoucher(v) : v \in V} /\ YearRows(z) = UNION {convertVoucher(u) : u \in U}
  BY DEF YearRows, Rows
<1> HIDE DEF V, U
<1>3. \A v \in V, u \in U : convertVoucher(v) \cap convertVoucher(u) = {}
  BY <1>1, RowsAssumption
<1>q. QED BY <1>2, <1>3

\* The rows of the projects are those of the year, each of one project.
LEMMA ProjectsBalance ==
  ASSUME LedgerInv, NEW z \in Listed
  PROVE  ProjectsCover(z)
<1> DEFINE tags == {r.project : r \in EveryRow}
           R == YearRows(z)
           part == [id \in tags |-> {r \in R : r.project = id}]
           mv == [id \in tags |-> Movement(part[id])]
           none == [id \in tags |-> 0]
           net == [id \in tags |-> projectProfitability(id, From(z), To(z)).net]
           project == [r \in EveryRow |-> r.project]
<1>1. IsFiniteSet(tags)
  <2>1. tags = {project[r] : r \in EveryRow}
    OBVIOUS
  <2> HIDE DEF tags, project
  <2>q. QED BY <2>1, AccountsAreFinite, ImageFinite
<1>2. SomeRows(R) /\ R \subseteq EveryRow
  <2>1. SomeRows(R)
    BY WindowRows DEF YearRows
  <2>2. \A v \in Vouchers(z, From(z), To(z)) : v \in Entries /\ convertVoucher(v) \subseteq AllRows(v)
    BY Converted DEF Vouchers, AllRows
  <2>q. QED BY <2>1, <2>2 DEF YearRows, Rows, EveryRow
<1>3. \A id : ProjectTransactions(id, From(z), To(z)) = {r \in R : r.project = id}
  BY OneYear DEF ProjectTransactions, YearRows
<1>4. \A id \in tags : part[id] \in SUBSET R
  OBVIOUS
<1>5. \A id \in tags : net[id] = none[id] - mv[id] /\ mv[id] \in Int /\ none[id] = 0
  <2> SUFFICES ASSUME NEW id \in tags
               PROVE  projectProfitability(id, From(z), To(z)).net = 0 - Movement(part[id]) /\ Movement(part[id]) \in Int
    OBVIOUS
  <2>1. projectProfitability(id, From(z), To(z)).net = Credits(part[id]) - Debits(part[id])
    BY <1>3 DEF projectProfitability
  <2>2. part[id] \in SUBSET R
    BY <1>4
  <2> HIDE DEF part, R
  <2>3. Movement(part[id]) = Debits(part[id]) - Credits(part[id]) /\ Debits(part[id]) \in Int /\ Credits(part[id]) \in Int
    BY <1>2, <2>2, MovementIs DEF Movement
  <2>q. QED BY <2>1, <2>3
<1>6. UNION {part[id] : id \in tags} = R
  <2>1. ASSUME NEW r \in R PROVE r.project \in tags /\ r \in part[r.project]
    BY <1>2
  <2>q. QED BY <1>4, <2>1
<1>7. \A i, j \in tags : i # j => part[i] \cap part[j] = {}
  OBVIOUS
<1>8. \A id \in tags : mv[id] = Movement(part[id])
  OBVIOUS
<1>9. MapThenSumSet(LAMBDA id : projectProfitability(id, From(z), To(z)).net, tags) = Sum(net, tags)
  BY DEF Sum, MapThenSumSet, MapThenFoldSet
<1> HIDE DEF tags, R, part, mv, none, net
<1>10. Sum(mv, tags) = Movement(R)
  <2>1. Split(R, tags, part)
    BY <1>1, <1>2, <1>4, <1>6, <1>7 DEF Split, SomeRows
  <2>q. QED BY <1>2, <1>8, <2>1, MovementParts
<1>11. Sum(net, tags) = Sum(none, tags) - Sum(mv, tags)
  <2>1. \A id \in tags : none[id] \in Int /\ mv[id] \in Int /\ net[id] = none[id] - mv[id]
    BY <1>5
  <2>q. QED BY <1>1, <2>1, SumMinus
<1>12. Sum(none, tags) = 0
  BY <1>1, <1>5, SumZero
<1>13. Movement(R) = 0
  BY WindowBalances DEF R, YearRows
<1>14. MapThenSumSet(LAMBDA id : projectProfitability(id, From(z), To(z)).net, tags) = 0
  BY <1>9, <1>10, <1>11, <1>12, <1>13
<1>q. QED BY <1>14 DEF ProjectsCover, tags, EveryRow

CentreRows(code, y, a) == {r \in CostCenterTransactions(code, From(y), To(y)) : r.account = a}

\* What the analysis of a cost centre has of an account: what each year has.
LEMMA AnalysisIs ==
  ASSUME NEW code
  PROVE  /\ DOMAIN costCenterAnalysis(code) = {b \in AccountsUsed : \E y \in Listed : CentreRows(code, y, b) # {}}
         /\ \A a \in DOMAIN costCenterAnalysis(code) : costCenterAnalysis(code)[a].count
              = Sum([y \in Listed |-> Cardinality(CentreRows(code, y, a))], Listed)
<1>1. \A a : MapThenSumSet(LAMBDA y : Cardinality(CentreRows(code, y, a)), Listed)
               = Sum([y \in Listed |-> Cardinality(CentreRows(code, y, a))], Listed)
  BY DEF Sum, MapThenSumSet, MapThenFoldSet
<1>2. \A a \in DOMAIN costCenterAnalysis(code) : costCenterAnalysis(code)[a].count
              = MapThenSumSet(LAMBDA y : Cardinality(CentreRows(code, y, a)), Listed)
  BY DEF costCenterAnalysis, CentreRows
<1>3. DOMAIN costCenterAnalysis(code) = {b \in AccountsUsed : \E y \in Listed : CentreRows(code, y, b) # {}}
  BY DEF costCenterAnalysis, CentreRows
<1>q. QED BY <1>1, <1>2, <1>3

\* The analysis of a cost centre has each of its rows once.
LEMMA CostCentreCounts ==
  ASSUME LedgerInv, NEW code
  PROVE  CentreRowsOnce(code)
<1> DEFINE K == DOMAIN costCenterAnalysis(code)
           All == {r \in UNION {YearRows(z) : z \in Listed} : r.centre = code}
           at == [a \in K |-> [y \in Listed |-> CentreRows(code, y, a)]]
           of == [a \in K |-> {r \in All : r.account = a}]
           n == [a \in K |-> costCenterAnalysis(code)[a].count]
<1>1. IsFiniteSet(Listed)
  <2>1. Years \in Seq(Nat)
    BY YearsAssumption
  <2>2. IsFiniteSet(DOMAIN Years)
    <3>1. DOMAIN Years = 1..Len(Years) /\ Len(Years) \in Nat
      BY <2>1
    <3>q. QED BY <3>1, FS_Interval
  <2>q. QED BY <2>2, ImageFinite DEF Listed
<1>2. IsFiniteSet(All) /\ \A r \in All : r.account \in AccountsUsed
  <2> DEFINE part == [z \in Listed |-> YearRows(z)]
  <2>1. \A z \in Listed : IsFiniteSet(part[z]) /\ \A r \in part[z] : r.account \in AccountsUsed
    BY WindowRows DEF YearRows, SomeRows
  <2>2. All \subseteq UNION {part[z] : z \in Listed}
    OBVIOUS
  <2> HIDE DEF part, All
  <2>3. IsFiniteSet({part[z] : z \in Listed})
    BY <1>1, ImageFinite
  <2>4. \A Q \in {part[z] : z \in Listed} : IsFiniteSet(Q)
    BY <2>1
  <2>5. IsFiniteSet(UNION {part[z] : z \in Listed})
    BY <2>3, <2>4, FS_UNION
  <2>q. QED BY <2>1, <2>2, <2>5, FS_Subset
<1>3. \A y \in Listed : CostCenterTransactions(code, From(y), To(y)) = {r \in YearRows(y) : r.centre = code}
  BY OneYear DEF CostCenterTransactions, YearRows
<1>5. ASSUME NEW a \in K
      PROVE  /\ \A y \in Listed : at[a][y] \subseteq All
             /\ \A y, z \in Listed : y # z => at[a][y] \cap at[a][z] = {}
             /\ UNION {at[a][y] : y \in Listed} = of[a]
  <2>1. \A y \in Listed : at[a][y] = {r \in YearRows(y) : r.centre = code /\ r.account = a}
    BY <1>3 DEF CentreRows
  <2>2. \A y, z \in Listed : y # z => at[a][y] \cap at[a][z] = {}
    BY <2>1, YearsApart
  <2>3. of[a] = {r \in UNION {YearRows(z) : z \in Listed} : r.centre = code /\ r.account = a}
    OBVIOUS
  <2>4. \A y \in Listed : at[a][y] \subseteq All
    BY <2>1
  <2> HIDE DEF at, of, K, All
  <2>5. UNION {at[a][y] : y \in Listed} = of[a]
    BY <2>1, <2>3
  <2>q. QED BY <2>2, <2>4, <2>5
<1>6. ASSUME NEW a \in K PROVE n[a] = Cardinality(of[a])
  <2> DEFINE c == [y \in Listed |-> Cardinality(CentreRows(code, y, a))]
             f == at[a]
  <2>1. n[a] = Sum(c, Listed)
    BY AnalysisIs
  <2>2. \A y \in Listed : c[y] = Cardinality(f[y])
    OBVIOUS
  <2>3. /\ \A y \in Listed : f[y] \subseteq All
        /\ \A y, z \in Listed : y # z => f[y] \cap f[z] = {}
        /\ UNION {f[y] : y \in Listed} = of[a]
    BY <1>5
  <2> HIDE DEF c, f, n, of, All, K
  <2>4. Split(of[a], Listed, f)
    <3>1. of[a] \subseteq All
      BY <2>3
    <3>q. QED BY <1>1, <1>2, <2>3, <3>1, FS_Subset DEF Split
  <2>5. Sum(c, Listed) = Cardinality(of[a])
    BY <2>2, <2>4, CardinalityParts
  <2>q. QED BY <2>1, <2>5
<1>7. UNION {of[a] : a \in K} = All
  <2>1. ASSUME NEW r \in All PROVE r.account \in K
    <3>1. PICK y \in Listed : r \in YearRows(y) /\ r.centre = code
      OBVIOUS
    <3>2. r \in CentreRows(code, y, r.account)
      BY <1>3, <3>1 DEF CentreRows
    <3>3. r.account \in AccountsUsed
      BY <1>2
    <3>q. QED BY <3>2, <3>3, AnalysisIs
  <2> HIDE DEF K, All
  <2>q. QED BY <2>1
<1>8. IsFiniteSet(K)
  <2>1. K \subseteq AccountsUsed
    BY AnalysisIs
  <2> HIDE DEF K
  <2>q. QED BY <2>1, AccountsAreFinite, FS_Subset
<1>9. \A a, b \in K : a # b => of[a] \cap of[b] = {}
  <2> HIDE DEF K, All
  <2>q. QED OBVIOUS
<1>10. \A a \in K : of[a] \subseteq All
  <2> HIDE DEF K, All
  <2>q. QED OBVIOUS
<1>11. MapThenSumSet(LAMBDA a : costCenterAnalysis(code)[a].count, K) = Sum(n, K)
  BY DEF Sum, MapThenSumSet, MapThenFoldSet
<1> HIDE DEF K, All, of, n, at
<1>12. Split(All, K, of)
  BY <1>2, <1>7, <1>8, <1>9, <1>10 DEF Split
<1>13. MapThenSumSet(LAMBDA a : costCenterAnalysis(code)[a].count, K) = Cardinality(All)
  BY <1>6, <1>11, <1>12, CardinalityParts
<1>q. QED BY <1>13 DEF CentreRowsOnce, K, All

\* An account is touched by no more vouchers than it has rows, and by none when it
\* has none: then nothing moved on it either.
LEMMA TouchedIs ==
  ASSUME LedgerInv, NEW z \in Listed, NEW a \in AccountsUsed
  PROVE  TouchedOncePerVoucher(z, a)
<1> DEFINE V == Vouchers(z, From(z), To(z))
           W == {v \in V : touchesAccount(v, a)}
           Q == AccountActivity(z, a, From(z), To(z))
           f == [v \in W |-> CHOOSE r \in convertVoucher(v) : r.account = a]
           all == SummariseAccount(DOMAIN glVouchers(resolveYearID(z), From(z), To(z)), a)
<1>1. all.count = Cardinality(W)
  <2>1. resolveYearID(z) = z
    BY DEF resolveYearID
  <2>2. DOMAIN glVouchers(z, From(z), To(z)) = V
    BY DEF glVouchers
  <2>q. QED BY <2>1, <2>2 DEF SummariseAccount
<1>2. /\ Q = {r \in YearRows(z) : r.account = a}
      /\ YearRows(z) = UNION {convertVoucher(v) : v \in V}
  BY DEF AccountActivity, YearRows, Rows
<1>3. IsFiniteSet(Q) /\ IsFiniteSet(W)
  <2>1. IsFiniteSet(YearRows(z))
    BY WindowRows DEF YearRows, SomeRows
  <2>2. IsFiniteSet(W)
    BY BooksAreFinite, FS_Subset DEF Vouchers
  <2>3. Q \subseteq YearRows(z)
    BY <1>2
  <2> HIDE DEF Q
  <2>q. QED BY <2>1, <2>2, <2>3, FS_Subset
<1>4. \A v \in W : f[v] \in convertVoucher(v) /\ f[v] \in Q
  <2> SUFFICES ASSUME NEW v \in W PROVE f[v] \in convertVoucher(v) /\ f[v] \in Q
    OBVIOUS
  <2>1. \E r \in convertVoucher(v) : r.account = a
    BY DEF touchesAccount
  <2>2. f[v] \in convertVoucher(v) /\ f[v].account = a
    BY <2>1
  <2>q. QED BY <1>2, <2>2
<1>5. \A v, u \in W : v # u => f[v] # f[u]
  BY <1>4, WindowRows
<1>6. W = {} <=> Q = {}
  BY <1>2, <1>4 DEF touchesAccount
<1>7. Cardinality(W) \in Nat /\ Cardinality(Q) \in Nat /\ (Cardinality(W) = 0 <=> W = {})
  BY <1>3, FS_CardinalityType, FS_EmptySet
<1>8. Cardinality(W) <= Cardinality(Q)
  <2>1. f \in [W -> Q]
    BY <1>4
  <2> HIDE DEF f, W, Q
  <2>2. ~(Cardinality(Q) < Cardinality(W))
    BY <1>3, <1>5, <2>1, FS_PigeonHole
  <2>q. QED BY <1>7, <2>2
<1>9. Position(z, a).debit = Debits(Q) /\ Position(z, a).credit = Credits(Q)
  BY <1>2 DEF Position
<1>10. Debits({}) = 0 /\ Credits({}) = 0
  BY DebitsAre, CreditsAre, SumEmpty
<1> HIDE DEF W, Q, f, all
<1>11. /\ all.count <= Cardinality(Q)
       /\ all.count = 0 <=> Q = {}
       /\ all.count = 0 => Position(z, a).debit = 0 /\ Position(z, a).credit = 0
  BY <1>1, <1>6, <1>7, <1>8, <1>9, <1>10
<1>q. QED BY <1>11 DEF TouchedOncePerVoucher, all, Q

\* There are years, and finitely many.
LEMMA YearsAreFinite == IsFiniteSet(Listed) /\ Listed # {}
<1>1. Years \in Seq(Nat) /\ Years # <<>>
  BY YearsAssumption
<1>2. DOMAIN Years = 1..Len(Years) /\ Len(Years) \in Nat /\ Len(Years) # 0
  BY <1>1
<1>3. IsFiniteSet(DOMAIN Years)
  BY <1>2, FS_Interval
<1>4. 1 \in DOMAIN Years
  BY <1>2
<1>q. QED BY <1>3, <1>4, ImageFinite DEF Listed

\* One of the years ends last.
LEMMA LatestIsListed == latestYearID \in Listed
<1> DEFINE Ends(t) == \E y \in t : \A z \in t : To(z) <= To(y)
           G == {t \in SUBSET Listed : t = {} \/ Ends(t)}
<1>1. \A y \in Listed : To(y) \in Nat
  BY YearsAssumption
<1>2. {} \in G
  OBVIOUS
<1>3. \A t \in SUBSET Listed : t \in G => \A x \in Listed \ t : t \cup {x} \in G
  <2> SUFFICES ASSUME NEW t \in SUBSET Listed, t \in G, NEW x \in Listed \ t
               PROVE  Ends(t \cup {x})
    OBVIOUS
  <2>1. CASE t = {}
    <3>1. \A z \in t \cup {x} : To(z) <= To(x)
      BY <1>1, <2>1
    <3>q. QED BY <3>1
  <2>2. CASE t # {}
    <3>1. PICK y \in t : \A z \in t : To(z) <= To(y)
      BY <2>2
    <3>2. CASE To(x) <= To(y)
      <4>1. \A z \in t \cup {x} : To(z) <= To(y)
        BY <3>1, <3>2
      <4>q. QED BY <4>1
    <3>3. CASE ~(To(x) <= To(y))
      <4>1. \A z \in t \cup {x} : To(z) <= To(x)
        BY <1>1, <3>1, <3>3
      <4>q. QED BY <4>1
    <3>q. QED BY <3>2, <3>3
  <2>q. QED BY <2>1, <2>2
<1> HIDE DEF G
<1>4. Listed \in G
  BY <1>2, <1>3, YearsAreFinite, OneByOne
<1>5. \E y \in Listed : \A z \in Listed : To(z) <= To(y)
  BY <1>4, YearsAreFinite DEF G
<1>q. QED BY <1>5 DEF latestYearID

\* Both tools that compare periods give what the year's figures are made up of.
LEMMA ComparedIs ==
  ASSUME LedgerInv, NEW y, y = latestYearID, NEW d \in From(y)..(To(y) - 1)
  PROVE  MakeUpTheYear(y, d)
<1> DEFINE before == periodMetrics(y, From(y), d)
           after == periodMetrics(y, d + 1, To(y))
           one == <<From(y), d>>
           two == <<d + 1, To(y)>>
           months == <<one, two>>
           trend == grossMarginTrend(months)
<1>1. periodMetrics(y, From(y), To(y)) = Plus(before, after)
  BY LatestIsListed, PeriodsMeet
<1>2. periodComparison(From(y), d, d + 1, To(y)) = <<before, after>>
  BY DEF periodComparison
<1>3. one[1] = From(y) /\ one[2] = d /\ two[1] = d + 1 /\ two[2] = To(y)
  OBVIOUS
<1>4. trend = [i \in DOMAIN months |-> periodMetrics(y, months[i][1], months[i][2])]
  BY DEF grossMarginTrend
<1> HIDE DEF trend, one, two, before, after
<1>5. DOMAIN months = 1..2 /\ months[1] = one /\ months[2] = two
  OBVIOUS
<1>6. trend = <<before, after>>
  <2> HIDE DEF months
  <2>1. trend[1] = before /\ trend[2] = after /\ DOMAIN trend = 1..2
    BY <1>3, <1>4, <1>5 DEF before, after
  <2>2. trend = [i \in DOMAIN trend |-> trend[i]]
    BY <1>4
  <2>3. \A i \in 1..2 : i = 1 \/ i = 2
    OBVIOUS
  <2>4. \A b, e : <<b, e>> = [i \in 1..2 |-> IF i = 1 THEN b ELSE e]
    OBVIOUS
  <2>5. trend = [i \in 1..2 |-> IF i = 1 THEN before ELSE after]
    BY <2>1, <2>2, <2>3
  <2>q. QED BY <2>4, <2>5
<1>q. QED BY <1>1, <1>2, <1>6 DEF MakeUpTheYear, before, after, one, two, trend

\* Two periods that meet make up the period they cover, the costs of goods are in
\* the expenses, an account is touched by no more vouchers than rows, a cost centre
\* has each row once, and the projects of a year leave nothing of it out.
THEOREM ToolsAgree == LedgerSpec => []FiguresAgree
<1>1. LedgerInv => FiguresAgree
  <2>1. LET year == periodMetrics(latestYearID, From(latestYearID), To(latestYearID)) IN
        salesVsPurchases(From(latestYearID), To(latestYearID)).net = year.revenue - year.cogs
    BY DEF salesVsPurchases
  <2>q. QED BY <2>1, ComparedIs, ExpensesCover, TouchedIs, CostCentreCounts, ProjectsBalance
            DEF FiguresAgree
<1>q. QED BY <1>1, LedgerInvInit, LedgerInvStep, PTL DEF LedgerSpec

-----------------------------------------------------------------------------
(***************************************************************************)
(* The invoice tools                                                       *)
(***************************************************************************)
SomeInvoices(L) == L \subseteq Invoices /\ IsFiniteSet(L)

\* What is known of an invoice, and of a list of some.
LEMMA InvoicesAre ==
  /\ IsFiniteSet(Invoices) /\ Invoices \subseteq Nat
  /\ \A i \in Invoices : AmountOf(i) \in Nat \ {0} /\ DueOf(i) \in Nat /\ DatedOf(i) \in Nat
  /\ \A L \in SUBSET Invoices : SomeInvoices(L)
  BY InvoiceNumbersAssumption, AmountsAssumption, FS_Subset DEF Invoices, SomeInvoices

\* A total over a list.
LEMMA WorthIs ==
  ASSUME NEW L, SomeInvoices(L), NEW Q \in SUBSET L
  PROVE  SumMinorUnits(Q) = Sum([i \in L |-> AmountOf(i)], Q) /\ SumMinorUnits(Q) \in Int
<1> DEFINE w == [i \in L |-> AmountOf(i)]
           z == [i \in Q |-> AmountOf(i)]
<1>1. SumMinorUnits(Q) = Sum(z, Q)
  BY ZenonT(60) DEF SumMinorUnits, Sum, MapThenSumSet, MapThenFoldSet
<1>2. IsFiniteSet(Q) /\ \A i \in Q : z[i] = w[i] /\ z[i] \in Int
  BY InvoicesAre, FS_Subset DEF SomeInvoices
<1> HIDE DEF w, z
<1>3. Sum(z, Q) = Sum(w, Q) /\ Sum(z, Q) \in Int
  BY <1>2, SumSame, SumType
<1>q. QED BY <1>1, <1>3 DEF w

\* Sums over the figures of an answer,
LEMMA FiguresOver ==
  ASSUME NEW figures
  PROVE  SumOver(figures) = Sum(figures, DOMAIN figures)
  BY DEF SumOver, Sum

\* and over its counts.
LEMMA CountIs ==
  ASSUME NEW answer
  PROVE  Count(answer) = Sum([k \in DOMAIN answer |-> answer[k].count], DOMAIN answer)
  BY DEF Count, Sum, MapThenSumSet, MapThenFoldSet

Keys(L, key) == {key[i] : i \in L}
Having(L, key, k) == {i \in L : key[i] = k}

\* The groups of a list are parts of it.
LEMMA GroupsAre ==
  ASSUME NEW L, SomeInvoices(L), NEW key
  PROVE  LET of == GroupBy(L, key) IN
         /\ IsFiniteSet(DOMAIN of)
         /\ DOMAIN of = Keys(L, key)
         /\ \A k \in DOMAIN of : of[k] = Having(L, key, k) /\ of[k] \subseteq L /\ of[k] # {}
         /\ \A k, m \in DOMAIN of : k # m => of[k] \cap of[m] = {}
         /\ UNION {of[k] : k \in DOMAIN of} = L
<1> DEFINE of == GroupBy(L, key)
<1>1. IsFiniteSet({key[i] : i \in L})
  BY ImageFinite DEF SomeInvoices
<1>2. of = [k \in {key[i] : i \in L} |-> {i \in L : key[i] = k}]
  BY DEF GroupBy
<1> HIDE DEF of
<1>3. DOMAIN of = {key[i] : i \in L} /\ \A k \in DOMAIN of : of[k] = {i \in L : key[i] = k}
  BY <1>2
<1>4. \A k \in DOMAIN of : of[k] \subseteq L /\ of[k] # {}
  BY <1>3
<1>5. \A k, m \in DOMAIN of : k # m => of[k] \cap of[m] = {}
  BY <1>3
<1>6. UNION {of[k] : k \in DOMAIN of} = L
  <2>1. \A i \in L : key[i] \in DOMAIN of /\ i \in of[key[i]]
    BY <1>3
  <2>q. QED BY <1>4, <2>1
<1>q. QED BY <1>1, <1>3, <1>4, <1>5, <1>6 DEF Keys, Having, of

\* Counts of groups add up to the length of the list.
LEMMA CountsAddUp ==
  ASSUME NEW L, SomeInvoices(L), NEW key, NEW answer, DOMAIN answer = DOMAIN GroupBy(L, key),
         \A k \in DOMAIN answer : answer[k].count = Cardinality(GroupBy(L, key)[k])
  PROVE  Count(answer) = Cardinality(L)
<1> DEFINE of == GroupBy(L, key)
           K == DOMAIN of
           z == [k \in DOMAIN answer |-> answer[k].count]
<1>1. /\ IsFiniteSet(L) /\ IsFiniteSet(K) /\ \A k \in K : of[k] \subseteq L
      /\ \A k, m \in K : k # m => of[k] \cap of[m] = {}
      /\ UNION {of[k] : k \in K} = L
  BY GroupsAre DEF SomeInvoices
<1>2. DOMAIN answer = K /\ \A k \in K : z[k] = Cardinality(of[k])
  OBVIOUS
<1>3. Count(answer) = Sum(z, DOMAIN answer)
  BY CountIs
<1> HIDE DEF of, K, z
<1>4. Sum(z, K) = Cardinality(L)
  <2>1. Split(L, K, of)
    BY <1>1 DEF Split
  <2>q. QED BY <1>2, <2>1, CardinalityParts
<1>q. QED BY <1>2, <1>3, <1>4

\* A summary and the totals of the parties, of one list.
LEMMA SummaryIs ==
  ASSUME NEW L
  PROVE  LET of == GroupBy(L, currencyOf)
             currencies == Summary(L).currencies IN
         /\ Summary(L).count = Cardinality(L)
         /\ DOMAIN currencies = DOMAIN of
         /\ \A c \in DOMAIN of : /\ currencies[c].count = Cardinality(of[c])
                                 /\ currencies[c].total = SumMinorUnits(of[c])
                                 /\ currencies[c].oldest = oldestDue(of[c])
  BY DEF Summary

\* One entry for each party.
LEMMA PartiesAre ==
  ASSUME NEW L
  PROVE  LET of == GroupBy(L, partyOf)
             parties == ByParty(L) IN
         /\ DOMAIN parties = DOMAIN of
         /\ \A p \in DOMAIN of : /\ parties[p].count = Cardinality(of[p])
                                 /\ parties[p].currencies = sumCurrencyTotals(of[p])
  BY DEF ByParty

\* One total for each currency.
LEMMA TotalsAre ==
  ASSUME NEW L
  PROVE  LET of == GroupBy(L, currencyOf) IN
         /\ DOMAIN sumCurrencyTotals(L) = DOMAIN of
         /\ \A c \in DOMAIN of : sumCurrencyTotals(L)[c] = SumMinorUnits(of[c])
  BY DEF sumCurrencyTotals

\* Every invoice is in its currency's group and in its party's.
LEMMA KeysAre ==
  ASSUME NEW L, SomeInvoices(L)
  PROVE  \A i \in L : currencyOf[i] = MoneyOf(i) /\ partyOf[i] = PartyOf(i)
  BY DEF SomeInvoices, currencyOf, partyOf

\* Nothing is owed on no invoice.
LEMMA NoWorth == SumMinorUnits({}) = 0
<1>1. SomeInvoices({}) /\ {} \in SUBSET {}
  BY FS_EmptySet DEF SomeInvoices
<1>2. SumMinorUnits({}) = Sum([i \in {} |-> AmountOf(i)], {})
  BY <1>1, WorthIs
<1>q. QED BY <1>2, SumEmpty

\* What a party owes in a currency.
LEMMA InIs ==
  ASSUME NEW L, SomeInvoices(L), NEW p \in DOMAIN ByParty(L), NEW c
  PROVE  In(ByParty(L), p, c) = SumMinorUnits({i \in L : PartyOf(i) = p /\ MoneyOf(i) = c})
<1> DEFINE its == GroupBy(L, partyOf)[p]
           both == {i \in L : PartyOf(i) = p /\ MoneyOf(i) = c}
           money == GroupBy(its, currencyOf)
<1>1. its = {i \in L : PartyOf(i) = p} /\ SomeInvoices(its)
  <2>0. p \in DOMAIN GroupBy(L, partyOf)
    BY PartiesAre
  <2>1. its = {i \in L : partyOf[i] = p}
    BY <2>0, GroupsAre DEF Having
  <2>2. its = {i \in L : PartyOf(i) = p}
    BY <2>1, KeysAre
  <2> HIDE DEF its
  <2>q. QED BY <2>2, InvoicesAre DEF SomeInvoices
<1>2. ByParty(L)[p].currencies = sumCurrencyTotals(its)
  BY PartiesAre
<1> HIDE DEF its
<1>3. /\ DOMAIN money = {currencyOf[i] : i \in its}
      /\ \A k \in DOMAIN money : money[k] = {i \in its : currencyOf[i] = k}
  <2>1. DOMAIN money = Keys(its, currencyOf) /\ \A k \in DOMAIN money : money[k] = Having(its, currencyOf, k)
    BY <1>1, GroupsAre
  <2>q. QED BY <2>1 DEF Keys, Having
<1>4. \A i \in its : currencyOf[i] = MoneyOf(i)
  BY <1>1, KeysAre
<1>5. DOMAIN sumCurrencyTotals(its) = DOMAIN money
      /\ \A k \in DOMAIN money : sumCurrencyTotals(its)[k] = SumMinorUnits(money[k])
  BY TotalsAre
<1> HIDE DEF money
<1>6. CASE c \in DOMAIN money
  <2>1. money[c] = both
    BY <1>1, <1>3, <1>4, <1>6
  <2>q. QED BY <1>2, <1>5, <1>6, <2>1 DEF In
<1>7. CASE c \notin DOMAIN money
  <2>1. both = {}
    BY <1>1, <1>3, <1>4, <1>7
  <2>q. QED BY <1>2, <1>5, <1>7, <2>1, NoWorth DEF In
<1>q. QED BY <1>6, <1>7

\* A currency's total is what the parties have in it.
LEMMA TotalsAddUp ==
  ASSUME NEW L, SomeInvoices(L), NEW c \in DOMAIN Summary(L).currencies
  PROVE  Summary(L).currencies[c].total
           = MapThenSumSet(LAMBDA p : In(ByParty(L), p, c), DOMAIN ByParty(L))
<1> DEFINE K == DOMAIN ByParty(L)
           Q == {i \in L : MoneyOf(i) = c}
           part == [p \in K |-> {i \in L : PartyOf(i) = p /\ MoneyOf(i) = c}]
           w == [i \in L |-> AmountOf(i)]
           z == [p \in K |-> In(ByParty(L), p, c)]
<1>1. MapThenSumSet(LAMBDA p : In(ByParty(L), p, c), K) = Sum(z, K)
  BY DEF Sum, MapThenSumSet, MapThenFoldSet
<1>2. Summary(L).currencies[c].total = SumMinorUnits(Q)
  <2>1. /\ c \in DOMAIN GroupBy(L, currencyOf)
        /\ Summary(L).currencies[c].total = SumMinorUnits(GroupBy(L, currencyOf)[c])
    BY SummaryIs
  <2>2. GroupBy(L, currencyOf)[c] = {i \in L : currencyOf[i] = c}
    BY <2>1, GroupsAre DEF Having
  <2>3. GroupBy(L, currencyOf)[c] = Q
    BY <2>2, KeysAre
  <2>q. QED BY <2>1, <2>3
<1>3. IsFiniteSet(K) /\ K = {PartyOf(i) : i \in L}
  <2>0. K = DOMAIN GroupBy(L, partyOf)
    BY PartiesAre
  <2>1. IsFiniteSet(K) /\ K = Keys(L, partyOf)
    BY <2>0, GroupsAre
  <2> HIDE DEF K
  <2>q. QED BY <2>1, KeysAre DEF Keys
<1>4. \A p \in K : z[p] = Sum(w, part[p])
  <2> SUFFICES ASSUME NEW p \in K PROVE z[p] = Sum(w, part[p])
    OBVIOUS
  <2>1. z[p] = SumMinorUnits(part[p]) /\ part[p] \in SUBSET L
    BY InIs
  <2>q. QED BY <2>1, WorthIs
<1>0. Q \subseteq L
  OBVIOUS
<1>5. \A p \in K : part[p] \subseteq Q
  OBVIOUS
<1>6. \A p, q \in K : p # q => part[p] \cap part[q] = {}
  OBVIOUS
<1>7. UNION {part[p] : p \in K} = Q
  <2> HIDE DEF K
  <2>1. \A i \in Q : PartyOf(i) \in K /\ i \in part[PartyOf(i)]
    BY <1>3
  <2>q. QED BY <2>1
<1>8. IsFiniteSet(L) /\ \A i \in L : w[i] \in Int
  BY InvoicesAre DEF SomeInvoices
<1>9. SumMinorUnits(Q) = Sum(w, Q)
  BY WorthIs
<1> HIDE DEF K, Q, part, w, z
<1>10. Sum(z, K) = Sum(w, Q)
  <2>1. Split(Q, K, part) /\ \A i \in Q : w[i] \in Int
    BY <1>0, <1>3, <1>6, <1>7, <1>8, FS_Subset DEF Split
  <2>q. QED BY <1>4, <2>1, SumParts
<1>q. QED BY <1>1, <1>2, <1>9, <1>10 DEF K

\* The history of a party is its group, and the groups are the list.
LEMMA HistoriesAre ==
  ASSUME NEW L, SomeInvoices(L)
  PROVE  /\ \A p \in DOMAIN ByParty(L) :
              /\ Cardinality(History(L, p)) = ByParty(L)[p].count
              /\ DOMAIN ByParty(L)[p].currencies = {MoneyOf(i) : i \in History(L, p)}
         /\ UNION {History(L, p) : p \in DOMAIN ByParty(L)} = L
<1> DEFINE of == GroupBy(L, partyOf)
<1>1. DOMAIN ByParty(L) = DOMAIN of
  BY PartiesAre
<1>2. \A p \in DOMAIN of : of[p] = Having(L, partyOf, p) /\ of[p] \subseteq L
      /\ ByParty(L)[p].count = Cardinality(of[p])
      /\ ByParty(L)[p].currencies = sumCurrencyTotals(of[p])
  BY GroupsAre, PartiesAre
<1>3. UNION {of[p] : p \in DOMAIN of} = L
  BY GroupsAre
<1> HIDE DEF of
<1>4. \A p \in DOMAIN of : of[p] = History(L, p)
  BY <1>2, KeysAre DEF Having, History
<1>5. ASSUME NEW p \in DOMAIN of
      PROVE  DOMAIN sumCurrencyTotals(of[p]) = {MoneyOf(i) : i \in of[p]}
  <2> DEFINE its == of[p]
  <2>1. SomeInvoices(its)
    BY <1>2, FS_Subset DEF SomeInvoices
  <2> HIDE DEF its
  <2>2. DOMAIN GroupBy(its, currencyOf) = Keys(its, currencyOf)
    BY <2>1, GroupsAre
  <2>3. DOMAIN sumCurrencyTotals(its) = Keys(its, currencyOf)
    BY <2>2, TotalsAre
  <2>4. \A i \in its : currencyOf[i] = MoneyOf(i)
    BY <2>1, KeysAre
  <2>5. Keys(its, currencyOf) = {MoneyOf(i) : i \in its}
    BY <2>4 DEF Keys
  <2>q. QED BY <2>3, <2>5 DEF its
<1>6. UNION {History(L, p) : p \in DOMAIN of} = L
  BY <1>3, <1>4
<1>q. QED BY <1>1, <1>2, <1>4, <1>5, <1>6

\* A finite set of numbers has a least one.
LEMMA LeastIs ==
  ASSUME NEW D \in SUBSET Nat, IsFiniteSet(D), D # {}
  PROVE  Min(D) \in D /\ \A d \in D : Min(D) <= d
<1> DEFINE Has(t) == \E x \in t : \A y \in t : x <= y
           G == {t \in SUBSET D : t = {} \/ Has(t)}
<1>1. {} \in G
  OBVIOUS
<1>2. \A t \in SUBSET D : t \in G => \A e \in D \ t : t \cup {e} \in G
  <2> SUFFICES ASSUME NEW t \in SUBSET D, t \in G, NEW e \in D \ t
               PROVE  Has(t \cup {e})
    OBVIOUS
  <2>1. CASE t = {}
    <3>1. \A y \in t \cup {e} : e <= y
      BY <2>1
    <3>q. QED BY <3>1
  <2>2. CASE t # {}
    <3>1. PICK x \in t : \A y \in t : x <= y
      BY <2>2
    <3>2. CASE x <= e
      <4>1. \A y \in t \cup {e} : x <= y
        BY <3>1, <3>2
      <4>q. QED BY <4>1
    <3>3. CASE ~(x <= e)
      <4>1. \A y \in t \cup {e} : e <= y
        BY <3>1, <3>3
      <4>q. QED BY <4>1
    <3>q. QED BY <3>2, <3>3
  <2>q. QED BY <2>1, <2>2
<1> HIDE DEF G
<1>3. D \in G
  BY <1>1, <1>2, OneByOne
<1>4. \E x \in D : \A y \in D : x <= y
  BY <1>3 DEF G
<1>q. QED BY <1>4 DEF Min

\* With a date on every invoice, the oldest date of a currency is its oldest.
LEMMA OldestIs ==
  ASSUME NEW L, SomeInvoices(L), NEW c \in DOMAIN Summary(L).currencies, WithoutDate(L) = {},
         NEW i \in L, MoneyOf(i) = c
  PROVE  Summary(L).currencies[c].oldest <= DueOf(i)
<1> DEFINE its == GroupBy(L, currencyOf)[c]
           due == [j \in its |-> DueOf(j)]
           dates == {due[j] : j \in its}
<1>1. its = {j \in L : MoneyOf(j) = c} /\ Summary(L).currencies[c].oldest = oldestDue(its)
  <2>1. c \in DOMAIN GroupBy(L, currencyOf) /\ Summary(L).currencies[c].oldest = oldestDue(its)
    BY SummaryIs
  <2>2. its = {j \in L : currencyOf[j] = c}
    BY <2>1, GroupsAre DEF Having
  <2>q. QED BY <2>1, <2>2, KeysAre
<1> HIDE DEF its
<1>2. i \in its /\ IsFiniteSet(its) /\ its \subseteq L /\ \A j \in its : DueOf(j) \in Nat
  BY <1>1, InvoicesAre, FS_Subset DEF SomeInvoices
<1>3. IsFiniteSet(dates) /\ dates \subseteq Nat /\ DueOf(i) \in dates
  <2>1. IsFiniteSet(dates)
    BY <1>2, ImageFinite
  <2>q. QED BY <1>2, <2>1
<1>4. dates = {DueOf(j) : j \in {k \in its : \A m \in WithoutDate(its) : m < k}}
  <2>1. WithoutDate(its) = {}
    BY <1>2 DEF WithoutDate
  <2>2. {k \in its : \A m \in WithoutDate(its) : m < k} = its
    BY <2>1
  <2>q. QED BY <2>2
<1> HIDE DEF dates
<1>5. oldestDue(its) = Min(dates)
  BY <1>3, <1>4 DEF oldestDue
<1>q. QED BY <1>1, <1>3, <1>5, LeastIs

\* A list grouped by party and by currency, and the histories of its parties.
LEMMA ListAgrees ==
  ASSUME NEW L, SomeInvoices(L)
  PROVE  GroupsAgree(Summary(L), ByParty(L), LAMBDA p : History(L, p), L)
<1>1. Count(ByParty(L)) = Cardinality(L)
  BY PartiesAre, CountsAddUp
<1>2. Count(Summary(L).currencies) = Cardinality(L)
  BY SummaryIs, CountsAddUp
<1>3. Summary(L).count = Cardinality(L)
  BY SummaryIs
<1>q. QED BY <1>1, <1>2, <1>3, TotalsAddUp, HistoriesAre, OldestIs DEF GroupsAgree

\* The larger of a number and zero.
LEMMA LargerIs == ASSUME NEW d \in Int PROVE Max({d, 0}) = IF d > 0 THEN d ELSE 0
<1>1. CASE d > 0
  <2>1. d \in {d, 0} /\ \A y \in {d, 0} : d >= y
    BY <1>1
  <2>2. \A x \in {d, 0} : (\A y \in {d, 0} : x >= y) => x = d
    BY <1>1
  <2>q. QED BY <1>1, <2>1, <2>2 DEF Max
<1>2. CASE ~(d > 0)
  <2>1. 0 \in {d, 0} /\ \A y \in {d, 0} : 0 >= y
    BY <1>2
  <2>2. \A x \in {d, 0} : (\A y \in {d, 0} : x >= y) => x = 0
    BY <1>2
  <2>q. QED BY <1>2, <2>1, <2>2 DEF Max
<1>q. QED BY <1>1, <1>2

\* An invoice is overdue from the day after its date.
Late(L) == {i \in L : DueOf(i) # Unread /\ DueOf(i) < today}

\* Days overdue are counted from the day after the date.
LEMMA LateIs ==
  ASSUME today \in Nat \ {0}, NEW i \in Invoices
  PROVE  /\ DaysOverdue(i) \in Nat
         /\ DaysOverdue(i) > 0 <=> DueOf(i) # Unread /\ DueOf(i) < today
<1>1. DueOf(i) \in Nat /\ today - DueOf(i) \in Int
  BY InvoicesAre
<1>2. Max({today - DueOf(i), 0}) = IF today - DueOf(i) > 0 THEN today - DueOf(i) ELSE 0
  BY <1>1, LargerIs
<1>q. QED BY <1>1, <1>2 DEF DaysOverdue

\* Numbering the members of a set makes no more and no fewer of them.
LEMMA NumberedAre ==
  ASSUME NEW Q, IsFiniteSet(Q), NEW days
  PROVE  Cardinality({[number |-> i, days |-> days[i]] : i \in Q}) = Cardinality(Q)
<1> DEFINE f == [i \in Q |-> [number |-> i, days |-> days[i]]]
           T == {[number |-> i, days |-> days[i]] : i \in Q}
<1>1. f \in [Q -> T] /\ (\A i, j \in Q : f[i] = f[j] => i = j) /\ \A t \in T : \E i \in Q : f[i] = t
  OBVIOUS
<1> HIDE DEF f, T
<1>2. f \in Bijection(Q, T)
  BY <1>1 DEF Bijection, Injection, Surjection, IsInjective
<1>3. ExistsBijection(Q, T)
  BY <1>2 DEF ExistsBijection
<1>4. Cardinality(T) = Cardinality(Q)
  BY <1>3, FS_Bijection
<1>q. QED BY <1>4 DEF T

\* The overdue list is of the late ones, once each.
LEMMA OverdueAre ==
  ASSUME today \in Nat \ {0}, NEW L, SomeInvoices(L), NEW threshold \in {0, 1}
  PROVE  /\ Overdue(L, threshold) = {[number |-> i, days |-> DaysOverdue(i)] : i \in Late(L)}
         /\ Cardinality(Overdue(L, threshold)) = Cardinality(Late(L))
<1> DEFINE days == [i \in Late(L) |-> DaysOverdue(i)]
<1>1. {j \in L : DaysOverdue(j) >= threshold /\ DaysOverdue(j) > 0} = Late(L)
  BY LateIs DEF SomeInvoices, Late
<1>2. Overdue(L, threshold) = {[number |-> i, days |-> DaysOverdue(i)] : i \in Late(L)}
  BY <1>1 DEF Overdue
<1>3. IsFiniteSet(Late(L))
  BY FS_Subset DEF SomeInvoices, Late
<1>4. {[number |-> i, days |-> DaysOverdue(i)] : i \in Late(L)}
        = {[number |-> i, days |-> days[i]] : i \in Late(L)}
  OBVIOUS
<1> HIDE DEF days
<1>5. Cardinality({[number |-> i, days |-> days[i]] : i \in Late(L)}) = Cardinality(Late(L))
  BY <1>3, NumberedAre
<1>q. QED BY <1>2, <1>4, <1>5

Ages == {"current", "1-30", "31-60", "61-90", "90+"}
Aged(L, b) == {i \in L : bucketOf(i) = b}

\* Every invoice with a date is in one bucket, and in the first if it is not late.
LEMMA AgesCover ==
  ASSUME today \in Nat \ {0}, NEW L, SomeInvoices(L)
  PROVE  AgesAgree(AgingBuckets(L), Overdue(L, 0), L)
<1> DEFINE part == [b \in Ages |-> Aged(L, b)]
           aging == AgingBuckets(L)
           Dated == L \ WithoutDate(L)
           Early == Aged(L, "current")
<1>1. \A i \in L : DueOf(i) \in Nat /\ today - DueOf(i) \in Int
  BY InvoicesAre DEF SomeInvoices
<1>2. \A i \in L : /\ DueOf(i) # Unread <=> bucketOf(i) \in Ages
                   /\ bucketOf(i) = "current" <=> DueOf(i) # Unread /\ ~(DueOf(i) < today)
  BY <1>1 DEF bucketOf, Ages
<1>3. DOMAIN aging = Ages /\ \A b \in Ages : aging[b] = Cardinality(part[b])
  BY DEF AgingBuckets, Ages, Aged
<1>4. UNION {part[b] : b \in Ages} = Dated
  BY <1>2 DEF Aged, WithoutDate
<1>5. IsFiniteSet(Ages)
  <2>1. ASSUME NEW S, IsFiniteSet(S), NEW b PROVE IsFiniteSet(S \cup {b})
    BY <2>1, FS_AddElement
  <2>2. IsFiniteSet(((({"current"} \cup {"1-30"}) \cup {"31-60"}) \cup {"61-90"}) \cup {"90+"})
    BY <2>1, FS_Singleton
  <2>3. Ages = ((({"current"} \cup {"1-30"}) \cup {"31-60"}) \cup {"61-90"}) \cup {"90+"}
    BY DEF Ages
  <2>q. QED BY <2>2, <2>3
<1>6. /\ \A b \in Ages : part[b] \subseteq L
      /\ \A b, d \in Ages : b # d => part[b] \cap part[d] = {}
  BY DEF Aged
<1>7. Dated = Late(L) \cup Early /\ Late(L) \cap Early = {}
  BY <1>2 DEF Late, Aged, WithoutDate
<1>8. aging["current"] = Cardinality(Early)
  BY <1>3 DEF Ages
<1> HIDE DEF part, aging, Dated, Early
<1>9. IsFiniteSet(L) /\ IsFiniteSet(Late(L)) /\ IsFiniteSet(Early)
  BY FS_Subset DEF SomeInvoices, Late, Early, Aged
<1>10. SumOver(aging) = Cardinality(Dated)
  <2>1. SumOver(aging) = Sum(aging, Ages)
    BY <1>3, FiguresOver
  <2>2. Sum(aging, Ages) = Cardinality(Dated)
    <3>1. Split(Dated, Ages, part)
      BY <1>4, <1>5, <1>6, <1>9, FS_Subset DEF Split, Dated
    <3>q. QED BY <1>3, <3>1, CardinalityParts
  <2>q. QED BY <2>1, <2>2
<1>11. Cardinality(Dated) = Cardinality(Late(L)) + Cardinality(Early)
       /\ Cardinality(Late(L)) \in Nat /\ Cardinality(Early) \in Nat
  <2> DEFINE past == Late(L)
  <2>1. IsFiniteSet(past) /\ IsFiniteSet(Early) /\ Dated = past \cup Early /\ past \cap Early = {}
    BY <1>7, <1>9
  <2> HIDE DEF past
  <2>2. Cardinality(past) \in Nat /\ Cardinality(Early) \in Nat
    BY <2>1, FS_CardinalityType
  <2>3. Cardinality(Dated) = Cardinality(past) + Cardinality(Early)
    BY <2>1, <2>2, FS_Union, FS_EmptySet
  <2>q. QED BY <2>2, <2>3 DEF past
<1>12. Cardinality(Overdue(L, 0)) = Cardinality(Late(L))
  BY OverdueAre
<1>13. Cardinality(Overdue(L, 0)) = SumOver(aging) - aging["current"]
  BY <1>8, <1>10, <1>11, <1>12
<1>q. QED BY <1>10, <1>13 DEF AgesAgree, aging, Dated

\* What falls due up to today is late or is due today.
LEMMA DueByNow ==
  ASSUME today \in Nat \ {0}, NEW L, SomeInvoices(L)
  PROVE  Cardinality({i \in L : Within(i, 0)})
           = Cardinality(Overdue(L, 0)) + Cardinality({i \in L : DueOf(i) = today})
<1> DEFINE Now == {i \in L : DueOf(i) = today}
           By == {i \in L : Within(i, 0)}
<1>1. \A i \in L : DueOf(i) \in Nat
  BY InvoicesAre DEF SomeInvoices
<1>2. By = Late(L) \cup Now /\ Late(L) \cap Now = {}
  BY <1>1, DaysAssumption DEF Within, Late
<1>3. IsFiniteSet(Late(L)) /\ IsFiniteSet(Now)
  BY FS_Subset DEF SomeInvoices, Late
<1> HIDE DEF Now, By
<1>4. Cardinality(By) = Cardinality(Late(L)) + Cardinality(Now)
  <2>1. Cardinality(Late(L)) \in Nat /\ Cardinality(Now) \in Nat
    BY <1>3, FS_CardinalityType
  <2> DEFINE late == Late(L)
  <2>2. /\ By = late \cup Now /\ late \cap Now = {}
        /\ IsFiniteSet(late) /\ IsFiniteSet(Now) /\ Cardinality(late) \in Nat
    BY <1>2, <1>3, <2>1
  <2> HIDE DEF late
  <2>3. Cardinality(By) = Cardinality(late) + Cardinality(Now)
    BY <2>1, <2>2, FS_Union, FS_EmptySet
  <2>q. QED BY <2>3 DEF late
<1>q. QED BY <1>4, OverdueAre DEF Now, By

\* A ranking counts every invoice once.
LEMMA RanksCount == ASSUME NEW L, SomeInvoices(L) PROVE Count(Ranks(L)) = Cardinality(L)
<1>1. /\ DOMAIN Ranks(L) = DOMAIN GroupBy(L, partyOf)
      /\ \A p \in DOMAIN Ranks(L) : Ranks(L)[p].count = Cardinality(GroupBy(L, partyOf)[p])
  BY DEF Ranks
<1> HIDE DEF Ranks
<1>q. QED BY <1>1, CountsAddUp

\* The first of two ranges of days that meet, and the second.
LEMMA RangesMeet ==
  ASSUME today \in Nat \ {0}, today <= LastDay, NEW L, SomeInvoices(L), NEW day, \A i \in L : day[i] \in Nat
  PROVE  Count(Ranks({i \in L : day[i] # Unread /\ day[i] \in 1..today}))
           + Count(Ranks({i \in L : day[i] # Unread /\ day[i] \in (today + 1)..LastDay}))
           = Cardinality({i \in L : day[i] \in 1..LastDay})
<1> DEFINE A == {i \in L : day[i] # Unread /\ day[i] \in 1..today}
           B == {i \in L : day[i] # Unread /\ day[i] \in (today + 1)..LastDay}
           C == {i \in L : day[i] \in 1..LastDay}
<1>1. A \cup B = C /\ A \cap B = {}
  BY DaysAssumption
<1>2. SomeInvoices(A) /\ SomeInvoices(B) /\ IsFiniteSet(A) /\ IsFiniteSet(B)
  BY FS_Subset DEF SomeInvoices
<1> HIDE DEF A, B, C
<1>3. Count(Ranks(A)) = Cardinality(A) /\ Count(Ranks(B)) = Cardinality(B)
  BY <1>2, RanksCount
<1>4. Cardinality(C) = Cardinality(A) + Cardinality(B)
  <2>1. Cardinality(A) \in Nat /\ Cardinality(B) \in Nat
    BY <1>2, FS_CardinalityType
  <2>q. QED BY <1>1, <1>2, <2>1, FS_Union, FS_EmptySet
<1>q. QED BY <1>3, <1>4 DEF A, B, C

\* A rank is a number.
LEMMA RankIs ==
  ASSUME NEW L, SomeInvoices(L), NEW p \in DOMAIN ByParty(L)
  PROVE  Rank(L, p) \in Int
<1> DEFINE its == GroupBy(L, partyOf)[p]
           c == MoneyOf(Min(its))
           of == GroupBy(its, currencyOf)
<1>1. its # {} /\ SomeInvoices(its) /\ its \subseteq Nat
  <2>1. p \in DOMAIN GroupBy(L, partyOf)
    BY PartiesAre
  <2>2. its # {} /\ its \subseteq L
    BY <2>1, GroupsAre
  <2> HIDE DEF its
  <2>q. QED BY <2>2, InvoicesAre DEF SomeInvoices
<1>2. Rank(L, p) = sumCurrencyTotals(its)[c]
  BY DEF Rank
<1> HIDE DEF its
<1>3. Min(its) \in its
  BY <1>1, LeastIs DEF SomeInvoices
<1>4. c \in DOMAIN of
  <2>1. DOMAIN of = Keys(its, currencyOf)
    BY <1>1, GroupsAre
  <2>2. currencyOf[Min(its)] = c
    BY <1>1, <1>3, KeysAre
  <2>q. QED BY <1>3, <2>1, <2>2 DEF Keys
<1>5. sumCurrencyTotals(its)[c] = SumMinorUnits(of[c])
  BY <1>4, TotalsAre
<1>6. of[c] \in SUBSET its
  BY <1>1, <1>4, GroupsAre
<1> HIDE DEF c, of
<1>7. SumMinorUnits(of[c]) \in Int
  BY <1>1, <1>6, WorthIs
<1>q. QED BY <1>2, <1>5, <1>7

\* No party that was left out is ranked over all that were kept.
LEMMA BestIsKept ==
  ASSUME NEW answer, NEW rank, DOMAIN rank = DOMAIN answer, \A p \in DOMAIN answer : rank[p] \in Int,
         NEW kept \in Limited(answer, 1, rank), NEW p \in DOMAIN rank
  PROVE  \E q \in kept : rank[q] >= rank[p]
<1>1. CASE p \in kept
  BY <1>1
<1>2. CASE p \notin kept
  <2>1. /\ kept \in kSubset(1, DOMAIN answer)
        /\ \A q \in kept, r \in DOMAIN answer \ kept : rank[q] >= rank[r]
    BY <1>2 DEF Limited
  <2>2. Cardinality(kept) = 1
    BY <2>1 DEF kSubset
  <2>3. kept # {}
    BY <2>2, FS_EmptySet
  <2>q. QED BY <1>2, <2>1, <2>3
<1>q. QED BY <1>1, <1>2

\* The supplier list cut to one keeps a first.
LEMMA FirstIsKept ==
  ASSUME NEW L, SomeInvoices(L)
  PROVE  LET rank == [p \in DOMAIN ByParty(L) |-> Rank(L, p)] IN
         \A kept \in Limited(ByParty(L), 1, rank), p \in DOMAIN rank :
           \E q \in kept : rank[q] >= rank[p]
<1> DEFINE rank == [p \in DOMAIN ByParty(L) |-> Rank(L, p)]
           answer == ByParty(L)
<1>1. DOMAIN rank = DOMAIN answer /\ \A p \in DOMAIN answer : rank[p] \in Int
  BY RankIs
<1> HIDE DEF rank, answer
<1>2. \A kept \in Limited(answer, 1, rank), p \in DOMAIN rank : \E q \in kept : rank[q] >= rank[p]
  BY <1>1, BestIsKept
<1>q. QED BY <1>2 DEF rank, answer

BooksAreRight ==
  /\ posted \subseteq Invoices /\ balance \in [Invoices -> Nat]
  /\ \A i \in Invoices : balance[i] <= AmountOf(i) /\ (i \notin posted => balance[i] = 0)

\* What a detail tool read is what the books say, unless they were changed since.
DetailIsRight ==
  LET i == detail.number IN
  /\ detail \in Details
  /\ ~changed => /\ detail.left = balance[i]
                 /\ detail.found <=> i \in posted /\ balance[i] > 0
                 /\ detail.done => detail.paid = InvoicePayments(i)

ToolInv ==
  /\ today \in Nat \ {0} /\ today <= LastDay /\ changed \in BOOLEAN
  /\ BooksAreRight
  /\ detail # NoDetail => DetailIsRight

\* At the start no book holds anything and no tool is under way.
LEMMA ToolInvInit == ToolInit => ToolInv
<1> SUFFICES ASSUME ToolInit PROVE ToolInv
  OBVIOUS
<1>1. today \in Nat \ {0} /\ today <= LastDay /\ changed \in BOOLEAN /\ detail = NoDetail
  BY DaysAssumption DEF ToolInit
<1>2. posted = {} /\ balance = [i \in Invoices |-> 0]
  BY DEF ToolInit
<1>3. BooksAreRight
  BY <1>2, InvoicesAre DEF BooksAreRight
<1>q. QED BY <1>1, <1>3 DEF ToolInv

\* Posting or paying one invoice leaves right what was read of another.
LEMMA BookedIs ==
  ASSUME ToolInv, NEW i \in Invoices, NEW rest \in 0..AmountOf(i),
         i \in posted', posted \subseteq posted', posted' \subseteq posted \cup {i},
         balance' = [balance EXCEPT ![i] = rest],
         changed' = (changed \/ (detail # NoDetail /\ detail.number = i)),
         UNCHANGED <<today, detail>>
  PROVE  ToolInv'
<1>1. BooksAreRight'
  BY InvoicesAre DEF ToolInv, BooksAreRight
<1>2. ASSUME detail # NoDetail PROVE DetailIsRight'
  <2>1. DetailIsRight /\ detail.number \in Invoices
    BY <1>2 DEF ToolInv, DetailIsRight, Details
  <2>2. ASSUME ~changed'
        PROVE  ~changed /\ detail.number # i
    BY <1>2, <2>2 DEF ToolInv
  <2>3. ASSUME ~changed'
        PROVE  /\ balance'[detail.number] = balance[detail.number]
               /\ detail.number \in posted' <=> detail.number \in posted
    BY <2>1, <2>2, <2>3 DEF ToolInv, BooksAreRight
  <2>4. ASSUME ~changed'
        PROVE  InvoicePayments(detail.number)' = InvoicePayments(detail.number)
    BY <2>3, <2>4 DEF InvoicePayments
  <2>q. QED BY <2>1, <2>2, <2>3, <2>4 DEF DetailIsRight
<1>3. changed' \in BOOLEAN
  BY DEF ToolInv
<1>q. QED BY <1>1, <1>2, <1>3 DEF ToolInv

\* Posting, paying, asking and the next day keep the invariant.
LEMMA ToolInvStep == ToolInv /\ [ToolNext]_toolVars => ToolInv'
<1> SUFFICES ASSUME ToolInv, [ToolNext]_toolVars PROVE ToolInv'
  OBVIOUS
<1>1. ASSUME NEW i \in Invoices, Post(i) PROVE ToolInv'
  <2>1. AmountOf(i) \in 0..AmountOf(i)
    BY InvoicesAre
  <2>q. QED BY <1>1, <2>1, BookedIs DEF Post
<1>2. ASSUME NEW i \in Invoices, Pay(i) PROVE ToolInv'
  <2>1. PICK rest \in 0..(balance[i] - 1) : balance' = [balance EXCEPT ![i] = rest]
    BY <1>2 DEF Pay
  <2>2. rest \in 0..AmountOf(i) /\ i \in posted
    BY <1>2, InvoicesAre DEF Pay, ToolInv, BooksAreRight
  <2>q. QED BY <1>2, <2>1, <2>2, BookedIs DEF Pay
<1>3. ASSUME NEW i \in Invoices, NEW ledger, InvoiceDetail(i, ledger) PROVE ToolInv'
  <2>1. /\ detail' = [number |-> i, found |-> i \in UnpaidInvoices(ledger), left |-> balance[i],
                      paid |-> 0, done |-> FALSE]
        /\ i \in ledger /\ UNCHANGED <<today, posted, balance>> /\ changed' = FALSE
    BY <1>3 DEF InvoiceDetail
  <2>2. (i \in UnpaidInvoices(ledger)) \in BOOLEAN /\ balance[i] \in Nat
        /\ (i \in UnpaidInvoices(ledger) <=> i \in posted /\ balance[i] > 0)
    BY <2>1 DEF UnpaidInvoices, ToolInv, BooksAreRight
  <2>3. detail'.number = i /\ detail'.left = balance[i] /\ ~detail'.done
        /\ (detail'.found <=> i \in posted /\ balance[i] > 0)
    BY <2>1, <2>2
  <2>4. detail' \in Details
    BY <2>1, <2>2 DEF Details
  <2>5. DetailIsRight'
    BY <2>1, <2>3, <2>4 DEF DetailIsRight
  <2>q. QED BY <2>1, <2>5 DEF ToolInv, BooksAreRight
<1>4. CASE ReadPayments
  <2>1. UNCHANGED <<today, posted, balance, changed>> /\ detail # NoDetail /\ DetailIsRight
    BY <1>4 DEF ReadPayments, ToolInv
  <2>2. ASSUME detail' = [detail EXCEPT !.paid = InvoicePayments(detail.number), !.done = TRUE]
        PROVE  DetailIsRight'
    <3>0. detail \in Details /\ detail.number \in Invoices
      BY <2>1 DEF DetailIsRight, Details
    <3>1. InvoicePayments(detail.number) \in Int
      <4>1. balance[detail.number] \in Nat
        BY <3>0 DEF ToolInv, BooksAreRight
      <4>2. AmountOf(detail.number) \in Nat
        BY <3>0, InvoicesAre
      <4>q. QED BY <4>1, <4>2 DEF InvoicePayments
    <3>2. /\ detail' \in Details /\ detail'.number = detail.number /\ detail'.left = detail.left
          /\ detail'.found = detail.found /\ detail'.paid = InvoicePayments(detail.number)
      BY <2>2, <3>0, <3>1 DEF Details
    <3>3. InvoicePayments(detail.number)' = InvoicePayments(detail.number)
      BY <2>1, <3>2 DEF InvoicePayments
    <3>q. QED BY <2>1, <3>2, <3>3 DEF DetailIsRight
  <2>q. QED BY <1>4, <2>1, <2>2 DEF ReadPayments, ToolInv, BooksAreRight
<1>5. CASE NextDay
  BY <1>5, DaysAssumption DEF ToolInv, NextDay, BooksAreRight, DetailIsRight, InvoicePayments
<1>6. CASE UNCHANGED toolVars
  BY <1>6 DEF ToolInv, toolVars, BooksAreRight, DetailIsRight, InvoicePayments
<1>q. QED BY <1>1, <1>2, <1>3, <1>4, <1>5, <1>6 DEF ToolNext, apInvoiceDetail, arInvoiceDetail

\* A detail answer adds up to the invoice, when the books stood still for it.
LEMMA DetailIs == ToolInv => DetailAddsUp
<1> SUFFICES ASSUME ToolInv, detail # NoDetail, detail.done, ~changed
             PROVE  IF detail.found THEN detail.left + detail.paid = AmountOf(detail.number)
                    ELSE detail.paid \in {0, AmountOf(detail.number)}
  BY DEF DetailAddsUp
<1> DEFINE i == detail.number
<1>1. /\ i \in Invoices /\ detail.left = balance[i] /\ detail.paid = InvoicePayments(i)
      /\ detail.found <=> i \in posted /\ balance[i] > 0
  BY DEF ToolInv, DetailIsRight, Details
<1>2. balance[i] \in Nat /\ AmountOf(i) \in Nat /\ (i \notin posted => balance[i] = 0)
  BY <1>1, InvoicesAre DEF ToolInv, BooksAreRight
<1> HIDE DEF i
<1>3. InvoicePayments(i) = IF i \in posted THEN AmountOf(i) - balance[i] ELSE 0
  BY DEF InvoicePayments
<1>q. QED BY <1>1, <1>2, <1>3 DEF i

\* The lists and totals, over the invoices of the moment.
LEMMA AnswersAre == ToolInv => AnswersReconcile
<1> SUFFICES ASSUME ToolInv PROVE AnswersReconcile
  OBVIOUS
<1>1. SomeInvoices(AP) /\ SomeInvoices(AR) /\ today \in Nat \ {0} /\ today <= LastDay
  BY InvoicesAre DEF ToolInv, AP, AR, UnpaidInvoices, Invoices
<1>2. GroupsAgree(apSummary, apBySupplier, apSupplierHistory, AP)
  BY <1>1, ListAgrees DEF GroupsAgree, apSummary, apBySupplier, apSupplierHistory
<1>3. GroupsAgree(arSummary, arByCustomer, arCustomerHistory, AR)
  BY <1>1, ListAgrees DEF GroupsAgree, arSummary, arByCustomer, arCustomerHistory
<1>4. \A c \in DOMAIN apByCurrency :
        /\ apByCurrency[c].total = apSummary.currencies[c].total
        /\ apByCurrency[c].count = apSummary.currencies[c].count
  BY SummaryIs DEF apByCurrency, apSummary
<1>5. AgesAgree(apAging, apOverdue(0), AP) /\ AgesAgree(arAging, arOverdue(0), AR)
  BY <1>1, AgesCover DEF apAging, apOverdue, arAging, arOverdue
<1>6. arUnpaidReport = arOverdue(1)
  <2>1. {j \in AR : DaysOverdue(j) > 0} = Late(AR)
    BY <1>1, LateIs DEF SomeInvoices, Late
  <2>q. QED BY <1>1, <2>1, OverdueAre DEF arUnpaidReport, arOverdue
<1>7. cashFlowForecast(0).outflowCount =
        Cardinality(apOverdue(0)) + Cardinality({i \in AP : DueOf(i) = today})
  BY <1>1, DueByNow DEF cashFlowForecast, apOverdue
<1>8. Count(topSuppliers(1, today)) + Count(topSuppliers(today + 1, LastDay)) =
        Cardinality({i \in AP : DueOf(i) \in 1..LastDay})
  <2> DEFINE day == [i \in AP |-> DueOf(i)]
  <2>1. \A i \in AP : day[i] \in Nat /\ day[i] = DueOf(i)
    BY <1>1, InvoicesAre DEF SomeInvoices
  <2> HIDE DEF day
  <2>2. Count(Ranks({i \in AP : day[i] # Unread /\ day[i] \in 1..today}))
        + Count(Ranks({i \in AP : day[i] # Unread /\ day[i] \in (today + 1)..LastDay}))
        = Cardinality({i \in AP : day[i] \in 1..LastDay})
    BY <1>1, <2>1, RangesMeet
  <2>3. \A from, to : {i \in AP : DueOf(i) # Unread /\ DueOf(i) \in from..to}
                      = {i \in AP : day[i] # Unread /\ day[i] \in from..to}
    BY <2>1
  <2>4. {i \in AP : DueOf(i) \in 1..LastDay} = {i \in AP : day[i] \in 1..LastDay}
    BY <2>1
  <2>q. QED BY <2>2, <2>3, <2>4 DEF topSuppliers
<1>9. Count(topCustomers(1, today)) + Count(topCustomers(today + 1, LastDay)) =
        Cardinality({i \in AR : DatedOf(i) \in 1..LastDay})
  <2> DEFINE day == [i \in AR |-> DatedOf(i)]
  <2>1. \A i \in AR : day[i] \in Nat /\ day[i] = DatedOf(i)
    BY <1>1, InvoicesAre DEF SomeInvoices
  <2> HIDE DEF day
  <2>2. Count(Ranks({i \in AR : day[i] # Unread /\ day[i] \in 1..today}))
        + Count(Ranks({i \in AR : day[i] # Unread /\ day[i] \in (today + 1)..LastDay}))
        = Cardinality({i \in AR : day[i] \in 1..LastDay})
    BY <1>1, <2>1, RangesMeet
  <2>3. \A from, to : {i \in AR : DatedOf(i) # Unread /\ DatedOf(i) \in from..to}
                      = {i \in AR : day[i] # Unread /\ day[i] \in from..to}
    BY <2>1
  <2>4. {i \in AR : DatedOf(i) \in 1..LastDay} = {i \in AR : day[i] \in 1..LastDay}
    BY <2>1
  <2>q. QED BY <2>2, <2>3, <2>4 DEF topCustomers
<1>10. LET rank == [p \in DOMAIN apBySupplier |-> Rank(AP, p)] IN
       \A kept \in Limited(apBySupplier, 1, rank), p \in DOMAIN rank :
         \E q \in kept : rank[q] >= rank[p]
  BY <1>1, FirstIsKept DEF apBySupplier
<1>q. QED BY <1>2, <1>3, <1>4, <1>5, <1>6, <1>7, <1>8, <1>9, <1>10 DEF AnswersReconcile

\* What the invoice tools answer about the same books adds up, whichever tool is
\* asked, and so does the detail of an invoice that nobody paid on meanwhile.
THEOREM AnswersReconciled == ToolSpec => []AnswersAddUp
<1>1. ToolInv => AnswersAddUp
  BY DetailIs, AnswersAre DEF AnswersAddUp
<1>q. QED BY <1>1, ToolInvInit, ToolInvStep, PTL DEF ToolSpec

\* The tools' books and answers keep their types: no day is before the first.
THEOREM ToolTypes == ToolSpec => []ToolTypeOK
<1> DEFINE Begun == today \in Int /\ FirstDay <= today
<1>1. ToolInit => Begun
  BY DaysAssumption DEF ToolInit
<1>2. Begun /\ [ToolNext]_toolVars => Begun'
  BY DaysAssumption DEF ToolNext, Post, Pay, NextDay, apInvoiceDetail, arInvoiceDetail, InvoiceDetail,
     ReadPayments, toolVars
<1>3. ToolInv /\ Begun => ToolTypeOK
  BY DaysAssumption, InvoicesAre DEF ToolInv, BooksAreRight, DetailIsRight, ToolTypeOK
<1>q. QED BY <1>1, <1>2, <1>3, ToolInvInit, ToolInvStep, PTL DEF ToolSpec
=============================================================================
