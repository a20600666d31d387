---------------------------- MODULE ThreadProofs ----------------------------
(***************************************************************************)
(* Proofs about two programs whose threads share data behind mutexes, for  *)
(* every value of their constants: the shop of lab-11 (Shop) and the pool  *)
(* of reserved workers of lab-16/part-2/2 (WorkerPool).                    *)
(***************************************************************************)
EXTENDS Shop, WorkerPool, FiniteSetTheorems, SequenceTheorems, WellFoundedInduction, TLAPS

-----------------------------------------------------------------------------
(* Induction.                                                              *)

\* Every set of naturals that is not empty has a least member: the induction of all
\* that follows.
LEMMA LeastNumber ==
  ASSUME NEW T \in SUBSET Nat, T # {}
  PROVE  \E m \in T : \A k \in T : m <= k
  <1> DEFINE R == {ss \in Nat \X Nat : ss[1] < ss[2]}
  <1>1. IsWellFoundedOn(R, Nat)
    BY NatLessThanWellFounded DEF OpToRel
  <1>2. PICK m \in T : \A k \in T : ~(<<k, m>> \in R)
    <2> HIDE DEF R
    <2> QED BY <1>1, WFMin
  <1>3. \A k \in T : ~(k < m)
    BY <1>2
  <1> QED BY <1>3

\* Induction over the subsets of a finite set: G holds all of them if it holds a set
\* whenever it holds what is left of it without any one element.
LEMMA SubsetInduction ==
  ASSUME NEW D, IsFiniteSet(D), NEW G \in SUBSET (SUBSET D),
         \A s \in SUBSET D : (\A x \in s : s \ {x} \in G) => s \in G
  PROVE  \A s \in SUBSET D : s \in G
  <1> SUFFICES ASSUME NEW s0 \in SUBSET D, s0 \notin G PROVE FALSE
    OBVIOUS
  <1> DEFINE B == {n \in Nat : \E s \in SUBSET D : s \notin G /\ Cardinality(s) = n}
  <1>1. \A s \in SUBSET D : IsFiniteSet(s) /\ Cardinality(s) \in Nat
    BY FS_Subset, FS_CardinalityType
  <1>2. B # {} /\ B \in SUBSET Nat
    BY <1>1
  <1>3. PICK m \in B : \A k \in B : m <= k
    <2> HIDE DEF B
    <2> QED BY <1>2, LeastNumber
  <1>4. PICK s \in SUBSET D : s \notin G /\ Cardinality(s) = m
    BY <1>3
  <1>5. ASSUME NEW x \in s PROVE s \ {x} \in G
    <2>1. s \ {x} \in SUBSET D /\ Cardinality(s \ {x}) = m - 1
      BY <1>1, <1>4, FS_RemoveElement
    <2>2. m \in Nat /\ m - 1 \in Nat
      BY <1>1, <2>1
    <2>3. m - 1 \notin B
      <3> HIDE DEF B
      <3> QED BY <1>3, <2>2
    <2> QED BY <2>1, <2>2, <2>3
  <1> QED BY <1>4, <1>5

-----------------------------------------------------------------------------
(* Sums.  Total is MapThenSumSet of the community modules, a recursive      *)
(* function over the subsets of the domain that takes elements out in an    *)
(* order of its own.                                                        *)

\* The element it takes out of s.
Pick(s) == CHOOSE x \in s : TRUE

\* The value the recursion gives to s.
SumTo(g, f, s) == IF s = {} THEN 0 ELSE f[Pick(s)] + g[s \ {Pick(s)}]

\* g is a solution of the recursion.
Sums(g, f, D) == g = [s \in SUBSET D |-> SumTo(g, f, s)]

\* What Total is in these terms.
LEMMA TotalDef ==
  ASSUME NEW D, NEW f \in [D -> Int]
  PROVE  Total(f) = (CHOOSE g : Sums(g, f, D))[D]
  <1>1. DOMAIN f = D
    OBVIOUS
  <1> QED BY <1>1 DEF Total, MapThenSumSet, MapThenFoldSet, Sums, SumTo, Pick

\* There is a solution: it is built up by the size of the subsets.
LEMMA SumsExist ==
  ASSUME NEW D, IsFiniteSet(D), NEW f \in [D -> Int]
  PROVE  \E g \in [SUBSET D -> Int] : Sums(g, f, D)
  <1> DEFINE Upto(g, n) == \A s \in SUBSET D : Cardinality(s) <= n => g[s] = SumTo(g, f, s)
             B == {n \in Nat : ~ \E g \in [SUBSET D -> Int] : Upto(g, n)}
  <1>1. \A s \in SUBSET D : /\ IsFiniteSet(s) /\ Cardinality(s) \in Nat
                            /\ Cardinality(s) <= Cardinality(D)
    BY FS_Subset, FS_CardinalityType
  <1>2. ASSUME NEW s \in SUBSET D, s # {}
        PROVE  /\ Pick(s) \in s /\ Cardinality(s) # 0
               /\ s \ {Pick(s)} \in SUBSET D /\ Cardinality(s \ {Pick(s)}) = Cardinality(s) - 1
    <2>1. Pick(s) \in s
      BY <1>2 DEF Pick
    <2> QED BY <1>1, <1>2, <2>1, FS_RemoveElement, FS_EmptySet
  <1>3. B = {}
    <2> SUFFICES ASSUME B # {} PROVE FALSE
      OBVIOUS
    <2>1. PICK m \in B : \A k \in B : m <= k
      <3>1. B \in SUBSET Nat
        OBVIOUS
      <3> HIDE DEF B
      <3> QED BY <3>1, LeastNumber
    <2>2. m \in Nat /\ ~ \E g \in [SUBSET D -> Int] : Upto(g, m)
      BY <2>1
    <2>3. m # 0
      <3> DEFINE g == [s \in SUBSET D |-> 0]
      <3>1. g \in [SUBSET D -> Int]
        OBVIOUS
      <3>2. ASSUME NEW s \in SUBSET D, Cardinality(s) <= 0 PROVE g[s] = SumTo(g, f, s)
        <4>1. s = {}
          BY <1>1, <3>2, FS_EmptySet
        <4> QED BY <4>1 DEF SumTo
      <3> QED BY <2>2, <3>1, <3>2
    <2>4. m - 1 \in Nat /\ m - 1 \notin B
      <3> HIDE DEF B
      <3> QED BY <2>1, <2>2, <2>3
    <2>5. PICK g \in [SUBSET D -> Int] : Upto(g, m - 1)
      BY <2>4
    <2> DEFINE h == [s \in SUBSET D |-> SumTo(g, f, s)]
    <2>6. h \in [SUBSET D -> Int]
      <3>1. ASSUME NEW s \in SUBSET D PROVE SumTo(g, f, s) \in Int
        BY <1>2, <2>5 DEF SumTo
      <3> QED BY <3>1
    <2>7. ASSUME NEW s \in SUBSET D, Cardinality(s) <= m PROVE h[s] = SumTo(h, f, s)
      <3>1. CASE s = {}
        BY <3>1 DEF SumTo
      <3>2. CASE s # {}
        <4>1. /\ s \ {Pick(s)} \in SUBSET D /\ Cardinality(s \ {Pick(s)}) <= m - 1
          BY <1>1, <1>2, <2>2, <2>7, <3>2
        <4>2. g[s \ {Pick(s)}] = SumTo(g, f, s \ {Pick(s)})
          BY <2>5, <4>1
        <4>3. h[s \ {Pick(s)}] = g[s \ {Pick(s)}]
          BY <4>1, <4>2
        <4> QED BY <3>2, <4>3 DEF SumTo
      <3> QED BY <3>1, <3>2
    <2> QED BY <2>2, <2>6, <2>7
  <1>4. Cardinality(D) \in Nat
    BY <1>1
  <1>5. PICK g \in [SUBSET D -> Int] : Upto(g, Cardinality(D))
    BY <1>3, <1>4
  <1>6. g = [s \in SUBSET D |-> SumTo(g, f, s)]
    BY <1>1, <1>5
  <1> QED BY <1>6 DEF Sums

\* The solution that Total uses.
PartSums(f, D) == CHOOSE g : Sums(g, f, D)

\* It has integer values and satisfies the recursion.
LEMMA PartSumsStep ==
  ASSUME NEW D, IsFiniteSet(D), NEW f \in [D -> Int]
  PROVE  /\ PartSums(f, D) \in [SUBSET D -> Int]
         /\ \A s \in SUBSET D : PartSums(f, D)[s] = SumTo(PartSums(f, D), f, s)
  <1> DEFINE p == PartSums(f, D)
  <1>1. p = [s \in SUBSET D |-> SumTo(p, f, s)]
    BY SumsExist DEF PartSums, Sums
  <1> HIDE DEF p
  <1>2. \A s \in SUBSET D : p[s] = SumTo(p, f, s)
    BY <1>1
  <1> DEFINE G == {s \in SUBSET D : p[s] \in Int}
  <1>3. ASSUME NEW s \in SUBSET D, \A x \in s : s \ {x} \in G PROVE s \in G
    <2>0. p[s] = SumTo(p, f, s)
      BY <1>2
    <2>1. CASE s = {}
      BY <2>0, <2>1 DEF SumTo
    <2>2. CASE s # {}
      <3>1. Pick(s) \in s
        BY <2>2 DEF Pick
      <3>2. f[Pick(s)] \in Int /\ p[s \ {Pick(s)}] \in Int
        BY <1>3, <3>1
      <3>3. p[s] = f[Pick(s)] + p[s \ {Pick(s)}]
        BY <2>0, <2>2 DEF SumTo
      <3> QED BY <3>2, <3>3
    <2> QED BY <2>1, <2>2
  <1>4. \A s \in SUBSET D : s \in G
    <2>1. G \in SUBSET (SUBSET D)
      OBVIOUS
    <2> HIDE DEF G
    <2> QED BY <1>3, <2>1, SubsetInduction
  <1>5. p \in [SUBSET D -> Int]
    BY <1>1, <1>4
  <1> QED BY <1>2, <1>5 DEF p

\* Any element may be taken out first.
LEMMA PartSumsAny ==
  ASSUME NEW D, IsFiniteSet(D), NEW f \in [D -> Int]
  PROVE  \A s \in SUBSET D : \A x \in s :
           PartSums(f, D)[s] = f[x] + PartSums(f, D)[s \ {x}]
  <1> DEFINE p == PartSums(f, D)
             G == {s \in SUBSET D : \A x \in s : p[s] = f[x] + p[s \ {x}]}
  <1>1. p \in [SUBSET D -> Int] /\ \A s \in SUBSET D : p[s] = SumTo(p, f, s)
    BY PartSumsStep
  <1> HIDE DEF p
  <1>2. ASSUME NEW s \in SUBSET D, \A x \in s : s \ {x} \in G PROVE s \in G
    <2> SUFFICES ASSUME NEW x \in s PROVE p[s] = f[x] + p[s \ {x}]
      OBVIOUS
    <2> DEFINE y == Pick(s)
    <2>1. y \in s /\ p[s] = f[y] + p[s \ {y}]
      BY <1>1 DEF SumTo, Pick
    <2> HIDE DEF y
    <2>2. CASE x = y
      BY <2>1, <2>2
    <2>3. CASE x # y
      <3>1. p[s \ {y}] = f[x] + p[(s \ {y}) \ {x}]
        BY <1>2, <2>1, <2>3
      <3>2. p[s \ {x}] = f[y] + p[(s \ {x}) \ {y}]
        BY <1>2, <2>1, <2>3
      <3>3. (s \ {y}) \ {x} = (s \ {x}) \ {y}
        OBVIOUS
      <3>4. f[x] \in Int /\ f[y] \in Int /\ p[(s \ {x}) \ {y}] \in Int
        BY <1>1, <2>1
      <3>5. p[s] = f[y] + (f[x] + p[(s \ {x}) \ {y}])
        BY <2>1, <3>1, <3>3
      <3>6. p[s] = f[x] + (f[y] + p[(s \ {x}) \ {y}])
        BY <3>4, <3>5
      <3> QED BY <3>2, <3>6
    <2> QED BY <2>2, <2>3
  <1>3. \A s \in SUBSET D : s \in G
    <2>1. G \in SUBSET (SUBSET D)
      OBVIOUS
    <2> HIDE DEF G
    <2> QED BY <1>2, <2>1, SubsetInduction
  <1> QED BY <1>3 DEF p

\* The sum over T depends on the values in T only.
LEMMA PartSumsAgree ==
  ASSUME NEW D, IsFiniteSet(D), NEW f \in [D -> Int], NEW h \in [D -> Int],
         NEW T \in SUBSET D, \A x \in T : f[x] = h[x]
  PROVE  PartSums(f, D)[T] = PartSums(h, D)[T]
  <1> DEFINE p == PartSums(f, D)
             q == PartSums(h, D)
             G == {s \in SUBSET D : s \subseteq T => p[s] = q[s]}
  <1>1. /\ \A s \in SUBSET D : p[s] = SumTo(p, f, s)
        /\ \A s \in SUBSET D : q[s] = SumTo(q, h, s)
    BY PartSumsStep
  <1> HIDE DEF p, q
  <1>2. ASSUME NEW s \in SUBSET D, \A x \in s : s \ {x} \in G PROVE s \in G
    <2> SUFFICES ASSUME s \subseteq T PROVE p[s] = q[s]
      OBVIOUS
    <2>1. CASE s = {}
      BY <1>1, <2>1 DEF SumTo
    <2>2. CASE s # {}
      <3>1. Pick(s) \in s
        BY <2>2 DEF Pick
      <3>2. p[s \ {Pick(s)}] = q[s \ {Pick(s)}] /\ f[Pick(s)] = h[Pick(s)]
        BY <1>2, <3>1
      <3> QED BY <1>1, <2>2, <3>2 DEF SumTo
    <2> QED BY <2>1, <2>2
  <1>3. \A s \in SUBSET D : s \in G
    <2>1. G \in SUBSET (SUBSET D)
      OBVIOUS
    <2> HIDE DEF G
    <2> QED BY <1>2, <2>1, SubsetInduction
  <1> QED BY <1>3 DEF p, q

\* A sum of integers is an integer.
LEMMA TotalType ==
  ASSUME NEW D, IsFiniteSet(D), NEW f \in [D -> Int]
  PROVE  Total(f) \in Int
  <1>1. Total(f) = PartSums(f, D)[D]
    BY TotalDef DEF PartSums
  <1>2. PartSums(f, D) \in [SUBSET D -> Int] /\ D \in SUBSET D
    BY PartSumsStep
  <1> QED BY <1>1, <1>2

\* A change of one value changes the sum by as much.
LEMMA TotalUpdate ==
  ASSUME NEW D, IsFiniteSet(D), NEW f \in [D -> Int], NEW x \in D, NEW v \in Int
  PROVE  Total([f EXCEPT ![x] = v]) = Total(f) + v - f[x]
  <1> DEFINE h == [f EXCEPT ![x] = v]
             r == D \ {x}
  <1>1. h \in [D -> Int] /\ h[x] = v /\ \A y \in r : f[y] = h[y]
    OBVIOUS
  <1> HIDE DEF h
  <1>2. Total(f) = PartSums(f, D)[D] /\ Total(h) = PartSums(h, D)[D]
    BY <1>1, TotalDef DEF PartSums
  <1>3. PartSums(f, D)[r] = PartSums(h, D)[r]
    BY <1>1, PartSumsAgree
  <1>4. /\ PartSums(f, D)[D] = f[x] + PartSums(f, D)[r]
        /\ PartSums(h, D)[D] = h[x] + PartSums(h, D)[r]
    BY <1>1, PartSumsAny
  <1>5. PartSums(f, D)[D] \in Int /\ PartSums(f, D)[r] \in Int /\ f[x] \in Int
    <2>1. r \in SUBSET D /\ D \in SUBSET D /\ PartSums(f, D) \in [SUBSET D -> Int]
      BY PartSumsStep
    <2> HIDE DEF r
    <2> QED BY <2>1
  <1> HIDE DEF r
  <1>6. Total(h) = Total(f) + v - f[x]
    BY <1>1, <1>2, <1>3, <1>4, <1>5
  <1> QED BY <1>6 DEF h

\* The sum of zeros.
LEMMA TotalZero ==
  ASSUME NEW D, IsFiniteSet(D), NEW f \in [D -> Int], \A x \in D : f[x] = 0
  PROVE  Total(f) = 0
  <1> DEFINE p == PartSums(f, D)
             G == {s \in SUBSET D : p[s] = 0}
  <1>1. \A s \in SUBSET D : p[s] = SumTo(p, f, s)
    BY PartSumsStep
  <1> HIDE DEF p
  <1>2. ASSUME NEW s \in SUBSET D, \A x \in s : s \ {x} \in G PROVE s \in G
    <2>1. CASE s = {}
      BY <1>1, <2>1 DEF SumTo
    <2>2. CASE s # {}
      <3>1. Pick(s) \in s
        BY <2>2 DEF Pick
      <3>2. p[s \ {Pick(s)}] = 0 /\ f[Pick(s)] = 0
        BY <1>2, <3>1
      <3> QED BY <1>1, <2>2, <3>2 DEF SumTo
    <2> QED BY <2>1, <2>2
  <1>3. \A s \in SUBSET D : s \in G
    <2>1. G \in SUBSET (SUBSET D)
      OBVIOUS
    <2> HIDE DEF G
    <2> QED BY <1>2, <2>1, SubsetInduction
  <1>4. p[D] = 0
    BY <1>3
  <1> QED BY <1>4, TotalDef DEF p, PartSums

-----------------------------------------------------------------------------
(* The shop.                                                               *)

\* A customer takes no more than he saw and no more than he needs.
LEMMA TakenRange ==
  ASSUME ShopTypes, NEW c \in Customers
  PROVE  Taken(c) \in Nat /\ Taken(c) <= seen[c] /\ Taken(c) <= need[c]
  <1>1. seen[c] \in Nat /\ need[c] \in Nat
    BY DEF ShopTypes, Threads
  <1>2. \E x \in {seen[c], need[c]} : \A y \in {seen[c], need[c]} : x <= y
    BY <1>1
  <1>3. /\ Taken(c) \in {seen[c], need[c]}
        /\ \A y \in {seen[c], need[c]} : Taken(c) <= y
    BY <1>2 DEF Taken, Min
  <1> QED BY <1>1, <1>3

\* The initial state is typed.
LEMMA ShopTypesInit == ShopInit => ShopTypes
  <1> SUFFICES ASSUME ShopInit PROVE ShopTypes
    OBVIOUS
  <1>1. (CHOOSE s \in Stalls : TRUE) \in Stalls
    BY ShopAssumption
  <1>2. Total(stock) \in Int
    <2>1. stock \in [Stalls -> StartStock] /\ StartStock \subseteq Int
      BY ShopAssumption DEF ShopInit
    <2>2. stock \in [Stalls -> Int]
      BY <2>1
    <2> QED BY <2>2, TotalType, ShopAssumption
  <1> QED BY <1>1, <1>2, ShopAssumption DEF ShopInit, ShopTypes, Threads

\* Every step keeps the types.
LEMMA ShopTypesStep ==
  ASSUME ShopTypes, [ShopNext]_shopVars
  PROVE  ShopTypes'
  <1> USE ShopAssumption
  <1>1. ASSUME NEW t \in Threads, Enter(t) PROVE ShopTypes'
    BY <1>1 DEF Enter, Lock, ShopTypes, history
  <1>2. ASSUME NEW c \in Customers, Buy(c) PROVE ShopTypes'
    <2>1. c \in Threads /\ at[c] \in Stalls /\ seen[c] \in Nat /\ need[c] \in Nat
          /\ bought[c] \in Nat
      BY DEF ShopTypes, Threads
    <2>2. seen[c] - Taken(c) \in Nat /\ need[c] - Taken(c) \in Nat
          /\ bought[c] + Taken(c) \in Nat
      BY <2>1, TakenRange
    <2> QED BY <1>2, <2>1, <2>2 DEF Buy, ShopTypes
  <1>3. ASSUME NEW c \in Customers, CustomerLeave(c) PROVE ShopTypes'
    BY <1>3 DEF CustomerLeave, ShopTypes, history, Threads
  <1>4. ASSUME NEW t \in Threads, NEW s \in Stalls, Choose(t, s) PROVE ShopTypes'
    BY <1>4 DEF Choose, ShopTypes, history
  <1>5. CASE LoaderCheck \/ LoaderIdle \/ LoaderLeave
    BY <1>5 DEF LoaderCheck, LoaderIdle, LoaderLeave, ShopTypes, history, Threads
  <1>6. CASE Load
    <2>1. "loader" \in Threads /\ seen["loader"] + LOADER_ADD \in Nat /\ loads + 1 \in Nat
      BY DEF ShopTypes, Threads
    <2> QED BY <1>6, <2>1 DEF Load, ShopTypes
  <1>7. CASE JoinCustomers \/ Destroy
    BY <1>7 DEF JoinCustomers, Destroy, ShopTypes, history
  <1>8. CASE UNCHANGED shopVars
    BY <1>8 DEF shopVars, ShopTypes
  <1> QED
    BY <1>1, <1>2, <1>3, <1>4, <1>5, <1>6, <1>7, <1>8
    DEF ShopNext, CustomerStep, LoaderStep, CustomerChoose, LoaderChoose, Ended, Threads

\* A step of thread t that leaves the stalls and the mutexes alone, and takes t neither
\* in nor out of a stall, keeps MutexInv.
LEMMA MutexOutside ==
  ASSUME ShopTypes, MutexInv, NEW t \in Threads,
         UNCHANGED <<stock, mutex, seen>>,
         pc[t] \notin {"inside", "unlock"}, pc'[t] \notin {"inside", "unlock"},
         \A u \in Threads \ {t} : pc'[u] = pc[u] /\ at'[u] = at[u]
  PROVE  MutexInv'
  <1>1. ASSUME NEW u \in Threads PROVE pc'[u] \in {"inside", "unlock"} => mutex'[at'[u]] = u
    BY DEF MutexInv
  <1>2. ASSUME NEW s \in Stalls, mutex'[s] # NoOne
        PROVE  at'[mutex'[s]] = s /\ pc'[mutex'[s]] \in {"inside", "unlock"}
    <2>1. mutex[s] \in Threads /\ mutex'[s] = mutex[s] /\ mutex[s] # t
      BY <1>2 DEF MutexInv, ShopTypes
    <2> QED BY <1>2, <2>1 DEF MutexInv
  <1>3. ASSUME NEW u \in Threads, pc'[u] = "inside" PROVE seen'[u] = stock'[at'[u]]
    BY <1>3 DEF MutexInv
  <1> QED BY <1>1, <1>2, <1>3 DEF MutexInv

\* A step of thread t from inside to unlock that writes the stock of its stall.
LEMMA MutexWrite ==
  ASSUME ShopTypes, MutexInv, NEW t \in Threads, pc[t] = "inside", NEW v,
         stock' = [stock EXCEPT ![at[t]] = v], pc' = [pc EXCEPT ![t] = "unlock"],
         UNCHANGED <<mutex, at, seen>>
  PROVE  MutexInv'
  <1>1. ASSUME NEW u \in Threads PROVE pc'[u] \in {"inside", "unlock"} => mutex'[at'[u]] = u
    BY DEF MutexInv, ShopTypes
  <1>2. ASSUME NEW s \in Stalls, mutex'[s] # NoOne
        PROVE  at'[mutex'[s]] = s /\ pc'[mutex'[s]] \in {"inside", "unlock"}
    BY <1>2 DEF MutexInv, ShopTypes
  <1>3. ASSUME NEW u \in Threads, pc'[u] = "inside" PROVE seen'[u] = stock'[at'[u]]
    <2>1. u # t /\ pc[u] = "inside"
      BY <1>3 DEF ShopTypes
    <2>2. mutex[at[u]] = u /\ mutex[at[t]] = t
      BY <2>1 DEF MutexInv
    <2>3. stock'[at[u]] = stock[at[u]]
      BY <2>1, <2>2 DEF ShopTypes
    <2> QED BY <2>1, <2>3 DEF MutexInv
  <1> QED BY <1>1, <1>2, <1>3 DEF MutexInv

\* A step of thread t that gives its mutex back.
LEMMA MutexGiveBack ==
  ASSUME ShopTypes, MutexInv, NEW t \in Threads, pc[t] = "unlock",
         NEW to \in {"done", "choose", "check"},
         mutex' = [mutex EXCEPT ![at[t]] = NoOne], pc' = [pc EXCEPT ![t] = to],
         UNCHANGED <<stock, at, seen>>
  PROVE  MutexInv'
  <1>0. mutex[at[t]] = t /\ at[t] \in Stalls /\ NoOne \notin Threads
    BY ShopAssumption DEF MutexInv, ShopTypes, Threads
  <1>1. ASSUME NEW u \in Threads, pc'[u] \in {"inside", "unlock"} PROVE mutex'[at'[u]] = u
    <2>1. u # t /\ pc[u] \in {"inside", "unlock"}
      BY <1>1 DEF ShopTypes
    <2>2. mutex[at[u]] = u
      BY <2>1 DEF MutexInv
    <2> QED BY <1>0, <2>1, <2>2 DEF ShopTypes
  <1>2. ASSUME NEW s \in Stalls, mutex'[s] # NoOne
        PROVE  at'[mutex'[s]] = s /\ pc'[mutex'[s]] \in {"inside", "unlock"}
    <2>1. s # at[t] /\ mutex'[s] = mutex[s]
      BY <1>0, <1>2 DEF ShopTypes
    <2>2. at[mutex[s]] = s /\ pc[mutex[s]] \in {"inside", "unlock"} /\ mutex[s] \in Threads
      BY <1>2, <2>1 DEF MutexInv, ShopTypes
    <2>3. mutex[s] # t
      BY <2>1, <2>2
    <2> QED BY <2>1, <2>2, <2>3 DEF ShopTypes
  <1>3. ASSUME NEW u \in Threads, pc'[u] = "inside" PROVE seen'[u] = stock'[at'[u]]
    BY <1>3 DEF MutexInv, ShopTypes
  <1> QED BY <1>1, <1>2, <1>3 DEF MutexInv

\* A thread enters a stall whose mutex is free.
LEMMA MutexEnter ==
  ASSUME ShopTypes, MutexInv, NEW t \in Threads, Enter(t)
  PROVE  MutexInv'
  <1>0. /\ mutex[at[t]] = NoOne /\ at[t] \in Stalls /\ NoOne \notin Threads
        /\ mutex' = [mutex EXCEPT ![at[t]] = t] /\ pc' = [pc EXCEPT ![t] = "inside"]
        /\ seen' = [seen EXCEPT ![t] = stock[at[t]]] /\ at' = at /\ stock' = stock
    BY ShopAssumption DEF Enter, Lock, ShopTypes, Threads
  <1>1. ASSUME NEW u \in Threads, pc'[u] \in {"inside", "unlock"} PROVE mutex'[at'[u]] = u
    <2>1. CASE u = t
      BY <1>0, <2>1 DEF ShopTypes
    <2>2. CASE u # t
      <3>1. pc[u] \in {"inside", "unlock"}
        BY <1>0, <1>1, <2>2 DEF ShopTypes
      <3>2. mutex[at[u]] = u
        BY <3>1 DEF MutexInv
      <3> QED BY <1>0, <3>2 DEF ShopTypes
    <2> QED BY <2>1, <2>2
  <1>2. ASSUME NEW s \in Stalls, mutex'[s] # NoOne
        PROVE  at'[mutex'[s]] = s /\ pc'[mutex'[s]] \in {"inside", "unlock"}
    <2>1. CASE s = at[t]
      BY <1>0, <2>1 DEF ShopTypes
    <2>2. CASE s # at[t]
      <3>1. mutex'[s] = mutex[s] /\ mutex[s] \in Threads
        BY <1>0, <1>2, <2>2 DEF ShopTypes
      <3>2. at[mutex[s]] = s /\ pc[mutex[s]] \in {"inside", "unlock"}
        BY <1>2, <3>1 DEF MutexInv
      <3> QED BY <1>0, <3>1, <3>2 DEF ShopTypes
    <2> QED BY <2>1, <2>2
  <1>3. ASSUME NEW u \in Threads, pc'[u] = "inside" PROVE seen'[u] = stock'[at'[u]]
    BY <1>0, <1>3 DEF MutexInv, ShopTypes
  <1> QED BY <1>1, <1>2, <1>3 DEF MutexInv

\* Every step keeps the stalls exclusive and what was read in them current.
LEMMA MutexStep ==
  ASSUME ShopTypes, MutexInv, [ShopNext]_shopVars
  PROVE  MutexInv'
  <1> USE DEF Threads
  <1>1. ASSUME NEW c \in Customers, CustomerStep(c) PROVE MutexInv'
    <2>1. CASE Enter(c)
      BY <2>1, MutexEnter
    <2>2. CASE Buy(c)
      BY <2>2, MutexWrite DEF Buy
    <2>3. CASE CustomerLeave(c)
      BY <2>3, MutexGiveBack DEF CustomerLeave
    <2> QED BY <1>1, <2>1, <2>2, <2>3 DEF CustomerStep
  <1>2. ASSUME NEW c \in Customers, NEW s \in Stalls, CustomerChoose(c, s) PROVE MutexInv'
    BY <1>2, MutexOutside DEF CustomerChoose, Choose, ShopTypes
  <1>3. ASSUME NEW s \in Stalls, LoaderChoose(s) PROVE MutexInv'
    BY <1>3, MutexOutside DEF LoaderChoose, Choose, ShopTypes
  <1>4. CASE LoaderCheck \/ LoaderIdle
    BY <1>4, MutexOutside DEF LoaderCheck, LoaderIdle, ShopTypes
  <1>5. CASE Enter("loader")
    BY <1>5, MutexEnter
  <1>6. CASE Load
    BY <1>6, MutexWrite DEF Load
  <1>7. CASE LoaderLeave
    BY <1>7, MutexGiveBack DEF LoaderLeave
  <1>8. CASE UNCHANGED <<stock, mutex, pc, at, seen>>
    BY <1>8 DEF MutexInv
  <1>9. CASE JoinCustomers \/ Destroy \/ Ended \/ UNCHANGED shopVars
    BY <1>8, <1>9 DEF JoinCustomers, Destroy, Ended, shopVars
  <1> QED
    BY <1>1, <1>2, <1>3, <1>4, <1>5, <1>6, <1>7, <1>9 DEF ShopNext, LoaderStep

\* Every step keeps the joins true.
LEMMA JoinStep ==
  ASSUME ShopTypes, JoinInv, [ShopNext]_shopVars
  PROVE  JoinInv'
  <1> USE ShopAssumption DEF JoinInv, Threads
  <1>1. ASSUME NEW c \in Customers, CustomerStep(c) PROVE JoinInv'
    <2>1. /\ pc[c] # "done" /\ main' = main
          /\ pc'["loader"] = pc["loader"]
      BY <1>1 DEF CustomerStep, Enter, Buy, CustomerLeave, ShopTypes
    <2>2. main = "join"
      BY <2>1
    <2> QED BY <2>1, <2>2
  <1>2. ASSUME NEW c \in Customers, NEW s \in Stalls, CustomerChoose(c, s) PROVE JoinInv'
    <2>1. pc[c] # "done" /\ main' = main
      BY <1>2 DEF CustomerChoose, Choose
    <2>2. main = "join"
      BY <2>1
    <2> QED BY <2>1, <2>2
  <1>3. ASSUME NEW s \in Stalls, LoaderChoose(s) \/ LoaderStep PROVE JoinInv'
    <2>1. /\ pc["loader"] # "done" /\ main' = main
          /\ \A c \in Customers : pc'[c] = pc[c]
      BY <1>3 DEF LoaderChoose, Choose, LoaderStep, LoaderCheck, LoaderIdle, Enter, Load,
                  LoaderLeave, ShopTypes
    <2> QED BY <2>1
  <1>4. CASE JoinCustomers
    BY <1>4 DEF JoinCustomers
  <1>5. CASE Destroy
    BY <1>5 DEF Destroy
  <1>6. CASE Ended \/ UNCHANGED shopVars
    BY <1>6 DEF Ended, shopVars
  <1> QED
    BY <1>1, <1>2, <1>3, <1>4, <1>5, <1>6 DEF ShopNext

\* Every step keeps the balance: what Buy takes from the stall it adds to the customer,
\* and what Load adds it counts.
LEMMA BalanceStep ==
  ASSUME ShopTypes, MutexInv, Conservation, [ShopNext]_shopVars, ShopTypes'
  PROVE  Conservation'
  <1> USE ShopAssumption
  <1>0. \A s \in Stalls : stock'[s] >= 0
    BY DEF ShopTypes
  <1>1. /\ stock \in [Stalls -> Int] /\ bought \in [Customers -> Int]
        /\ start \in Int /\ loads \in Int /\ LOADER_ADD \in Int
        /\ Total(stock) \in Int /\ Total(bought) \in Int
    BY TotalType DEF ShopTypes
  <1>2. CASE UNCHANGED <<stock, bought, start, loads>>
    BY <1>2 DEF Conservation
  <1>3. ASSUME NEW c \in Customers, Buy(c) PROVE Conservation'
    <2>1. /\ c \in Threads /\ at[c] \in Stalls /\ seen[c] \in Int /\ bought[c] \in Int
          /\ Taken(c) \in Int /\ seen[c] = stock[at[c]]
      BY <1>3, TakenRange DEF Buy, ShopTypes, Threads, MutexInv
    <2>2. Total(stock') = Total(stock) + (seen[c] - Taken(c)) - stock[at[c]]
      <3> DEFINE v == seen[c] - Taken(c)
      <3>1. stock' = [stock EXCEPT ![at[c]] = v] /\ v \in Int
        BY <1>3, <2>1 DEF Buy
      <3> HIDE DEF v
      <3>2. Total([stock EXCEPT ![at[c]] = v]) = Total(stock) + v - stock[at[c]]
        <4>1. stock \in [Stalls -> Int] /\ at[c] \in Stalls /\ v \in Int
          BY <1>1, <2>1, <3>1
        <4> QED BY <4>1, TotalUpdate
      <3> QED BY <3>1, <3>2 DEF v
    <2>3. Total(bought') = Total(bought) + (bought[c] + Taken(c)) - bought[c]
      <3> DEFINE v == bought[c] + Taken(c)
      <3>1. bought' = [bought EXCEPT ![c] = v] /\ v \in Int
        BY <1>3, <2>1 DEF Buy
      <3> HIDE DEF v
      <3>2. Total([bought EXCEPT ![c] = v]) = Total(bought) + v - bought[c]
        <4>1. bought \in [Customers -> Int] /\ v \in Int
          BY <1>1, <3>1
        <4> QED BY <4>1, TotalUpdate
      <3> QED BY <3>1, <3>2 DEF v
    <2>4. Total(stock') + Total(bought') = Total(stock) + Total(bought)
      BY <1>1, <2>1, <2>2, <2>3
    <2> QED BY <1>0, <1>3, <2>4 DEF Buy, Conservation
  <1>4. CASE Load
    <2>1. /\ "loader" \in Threads /\ at["loader"] \in Stalls
          /\ seen["loader"] \in Int /\ seen["loader"] = stock[at["loader"]]
      BY <1>4 DEF Load, ShopTypes, Threads, MutexInv
    <2>2. Total(stock') = Total(stock) + (seen["loader"] + LOADER_ADD) - stock[at["loader"]]
      <3> DEFINE v == seen["loader"] + LOADER_ADD
                 s == at["loader"]
      <3>1. stock' = [stock EXCEPT ![s] = v] /\ v \in Int /\ s \in Stalls
        BY <1>1, <1>4, <2>1 DEF Load
      <3> HIDE DEF v, s
      <3>2. Total([stock EXCEPT ![s] = v]) = Total(stock) + v - stock[s]
        <4>1. stock \in [Stalls -> Int] /\ s \in Stalls /\ v \in Int
          BY <1>1, <3>1
        <4> QED BY <4>1, TotalUpdate
      <3> QED BY <3>1, <3>2 DEF v, s
    <2>3. Total(stock') = Total(stock) + LOADER_ADD
      BY <1>1, <2>1, <2>2
    <2>4. loads' = loads + 1 /\ start' = start /\ bought' = bought
      BY <1>4 DEF Load
    <2>5. loads' * LOADER_ADD = loads * LOADER_ADD + LOADER_ADD
      BY <1>1, <2>4
    <2>6. loads * LOADER_ADD \in Int
      BY <1>1
    <2> QED BY <1>0, <1>1, <2>3, <2>4, <2>5, <2>6 DEF Conservation
  <1>5. ASSUME NEW t \in Threads, Enter(t) PROVE Conservation'
    BY <1>2, <1>5 DEF Enter, history
  <1>6. ASSUME NEW c \in Customers, CustomerLeave(c) PROVE Conservation'
    BY <1>2, <1>6 DEF CustomerLeave, history
  <1>7. ASSUME NEW t \in Threads, NEW s \in Stalls, Choose(t, s) PROVE Conservation'
    BY <1>2, <1>7 DEF Choose, history
  <1>8. CASE LoaderCheck \/ LoaderIdle \/ LoaderLeave \/ JoinCustomers \/ Destroy
    BY <1>2, <1>8 DEF LoaderCheck, LoaderIdle, LoaderLeave, JoinCustomers, Destroy, history
  <1>9. CASE UNCHANGED shopVars
    BY <1>2, <1>9 DEF shopVars
  <1> QED
    BY <1>3, <1>4, <1>5, <1>6, <1>7, <1>8, <1>9
    DEF ShopNext, CustomerStep, LoaderStep, CustomerChoose, LoaderChoose, Ended, Threads

-----------------------------------------------------------------------------
(* The shop: theorems.                                                     *)

\* The inductive invariant.
ShopInv == ShopTypes /\ MutexInv /\ JoinInv /\ Conservation

\* It holds at the start and is kept by every step.
LEMMA ShopInvAlways == ShopSpec => []ShopInv
  <1>1. ShopInit => ShopInv
    <2> SUFFICES ASSUME ShopInit PROVE ShopInv
      OBVIOUS
    <2>1. ShopTypes
      BY ShopTypesInit
    <2>2. MutexInv
      BY DEF ShopInit, MutexInv, Threads
    <2>3. JoinInv
      BY DEF ShopInit, JoinInv
    <2>4. Conservation
      <3>1. Total(bought) = 0
        BY ShopAssumption, TotalZero DEF ShopInit
      <3>2. Total(stock) = start /\ start \in Int /\ loads = 0
        BY <2>1 DEF ShopInit, ShopTypes
      <3>3. 0 * LOADER_ADD = 0
        BY ShopAssumption
      <3> QED BY <2>1, <3>1, <3>2, <3>3 DEF Conservation, ShopTypes
    <2> QED BY <2>1, <2>2, <2>3, <2>4 DEF ShopInv
  <1>2. ShopInv /\ [ShopNext]_shopVars => ShopInv'
    BY ShopTypesStep, MutexStep, JoinStep, BalanceStep DEF ShopInv
  <1> QED BY <1>1, <1>2, PTL DEF ShopSpec

\* Nothing is lost or sold twice, whatever the threads of however many customers
\* interleave over however many stalls (main.c:67-75, 118).
THEOREM ShopBalances == ShopSpec => []Conservation
  BY ShopInvAlways, PTL DEF ShopInv

\* A stall is changed only by the thread that holds its mutex, and what that thread has
\* read there is current when it writes.
THEOREM StallExclusive == ShopSpec => []MutexInv
  BY ShopInvAlways, PTL DEF ShopInv

\* No mutex is destroyed in use, and no thread is left (main.c:154-169).
THEOREM DestroyedWhenIdle == ShopSpec => []DestroyedUnused
  <1>1. ShopInv => DestroyedUnused
    <2> SUFFICES ASSUME ShopInv, main = "destroyed"
                 PROVE  /\ \A t \in Threads : pc[t] = "done"
                        /\ \A s \in Stalls : mutex[s] = NoOne
      BY DEF DestroyedUnused
    <2>1. \A t \in Threads : pc[t] = "done"
      BY DEF ShopInv, JoinInv, Threads
    <2>2. ASSUME NEW s \in Stalls PROVE mutex[s] = NoOne
      BY <2>1 DEF ShopInv, ShopTypes, MutexInv
    <2> QED BY <2>1, <2>2
  <1> QED BY <1>1, ShopInvAlways, PTL

-----------------------------------------------------------------------------
(* The pool: queues of connections.                                        *)

\* What a queue holds.
LEMMA QueueDomain ==
  ASSUME NEW S, NEW q \in Seq(S)
  PROVE  /\ Len(q) \in Nat /\ DOMAIN q = 1 .. Len(q) /\ \A i \in DOMAIN q : q[i] \in S
         /\ DOMAIN q = {} => q = <<>>
  BY LenProperties, EmptySeq

\* What accept leaves of a queue.
LEMMA QueueTail ==
  ASSUME NEW S, NEW q \in Seq(S), q # <<>>
  PROVE  /\ 1 \in DOMAIN q /\ Head(q) = q[1] /\ Head(q) \in S /\ Tail(q) \in Seq(S)
         /\ \A i \in DOMAIN Tail(q) : i + 1 \in DOMAIN q /\ Tail(q)[i] = q[i + 1]
         /\ Len(q) <= 1 => Tail(q) = <<>>
  <1>1. Len(q) \in Nat \ {0} /\ DOMAIN q = 1 .. Len(q) /\ Head(q) = q[1] /\ q[1] \in S
    BY LenProperties, EmptySeq
  <1>2. Tail(q) \in Seq(S) /\ Len(Tail(q)) = Len(q) - 1
    BY <1>1
  <1>3. Len(q) <= 1 => Tail(q) = <<>>
    <2>1. Len(q) <= 1 => Len(Tail(q)) = 0
      BY <1>1, <1>2
    <2> QED BY <1>2, <2>1, EmptySeq
  <1> QED BY <1>1, <1>2, <1>3

-----------------------------------------------------------------------------
(* The pool: types.                                                        *)

\* The initial state is typed.
LEMMA TypeInit == Init => TypeOK
  BY PoolAssumption DEF Init, TypeOK

\* Every step keeps the types.
LEMMA TypeStep ==
  ASSUME TypeOK, ListenerInv, [Next]_vars
  PROVE  TypeOK'
  <1> USE PoolAssumption
  <1>1. ASSUME NEW w \in Workers, StartWorker(w) PROVE TypeOK'
    BY <1>1 DEF StartWorker, TypeOK, listenerVars, clientVars
  <1>2. CASE Listen \/ StartFails \/ ReadRequest
    BY <1>2 DEF Listen, StartFails, ReadRequest, TypeOK, workerVars, clientVars
  <1>3. CASE AcceptClient
    <2>1. Head(lbacklog) \in Clients /\ Tail(lbacklog) \in Seq(Clients)
      BY <1>3 DEF AcceptClient, TypeOK
    <2> QED BY <1>3, <2>1 DEF AcceptClient, TypeOK, workerVars, clientVars
  <1>4. CASE reserve_worker
    BY <1>4 DEF reserve_worker, TypeOK, clientVars
  <1>5. CASE WriteAnswer
    BY <1>5 DEF WriteAnswer, TypeOK, ListenerInv, workerVars
  <1>6. ASSUME NEW w \in Workers, WorkerAccept(w) PROVE TypeOK'
    <2>1. Head(wbacklog[w]) \in Clients /\ Tail(wbacklog[w]) \in Seq(Clients)
      BY <1>6 DEF WorkerAccept, TypeOK
    <2> QED BY <1>6, <2>1 DEF WorkerAccept, TypeOK, listenerVars, clientVars
  <1>7. ASSUME NEW w \in Workers, serve_time(w) PROVE TypeOK'
    BY <1>7 DEF serve_time, TypeOK, listenerVars
  <1>8. ASSUME NEW w \in Workers, FreeWorker(w) PROVE TypeOK'
    BY <1>8 DEF FreeWorker, TypeOK, listenerVars, clientVars
  <1>9. ASSUME NEW c \in Clients, Ask(c) \/ ReadPort(c) \/ AskWorker(c) \/ ReadTime(c) \/ Kill(c)
        PROVE  TypeOK'
    BY <1>9 DEF Ask, ReadPort, AskWorker, ReadTime, Kill, Client, TypeOK, listenerVars,
                workerVars
  <1>10. ASSUME NEW c \in Clients, ConnectWorker(c) PROVE TypeOK'
    <2>1. \A w \in Workers : Append(wbacklog[w], c) \in Seq(Clients)
      BY DEF TypeOK
    <2> QED BY <1>10, <2>1 DEF ConnectWorker, Client, TypeOK, listenerVars
  <1>11. ASSUME NEW c \in Clients, Connect(c) PROVE TypeOK'
    <2>1. Append(lbacklog, c) \in Seq(Clients)
      BY DEF TypeOK
    <2> QED BY <1>11, <2>1 DEF Connect, Client, TypeOK, workerVars
  <1>12. CASE UNCHANGED vars
    BY <1>12 DEF vars, listenerVars, workerVars, clientVars, TypeOK
  <1> QED
    BY <1>1, <1>2, <1>3, <1>4, <1>5, <1>6, <1>7, <1>8, <1>9, <1>10, <1>11, <1>12
    DEF Next, ListenerSteps, WorkerSteps, ClientSteps

-----------------------------------------------------------------------------
(* The pool: the listener.                                                 *)

\* A step that leaves the listener's connections alone, and moves clients on only once
\* they are past it, keeps ListenerInv.
LEMMA ListenerIdle ==
  ASSUME TypeOK, ListenerInv, UNCHANGED <<lconn, lport, lbacklog, goal>>,
         lpc' = lpc \/ (lpc' \notin {"start", "read", "reserve", "write"} /\ lport = None)
           \/ (lpc' = "reserve" /\ lpc = "read"),
         lpc' = "start" => cpc' = cpc,
         \A c \in Clients : cpc'[c] = cpc[c]
           \/ (cpc[c] \in {"connected", "asked"} /\ cpc'[c] \in {"connected", "asked", "dead"})
           \/ (cpc[c] \notin {"init", "connected", "asked", "dead"} /\ cpc'[c] # "init"),
         \A c \in Clients : cpc'[c] = "go" => cpc[c] = "go" \/ goal[c] # None
  PROVE  ListenerInv'
  <1>1. \A c \in Clients : /\ cpc[c] \in {"connected", "asked", "dead"} =>
                               cpc'[c] \in {"connected", "asked", "dead"}
                           /\ cpc'[c] = "init" => cpc[c] = "init"
    OBVIOUS
  <1>2. \A i \in DOMAIN lbacklog : lbacklog[i] \in Clients
    BY DEF TypeOK
  <1>3. \A i \in DOMAIN lbacklog' :
          /\ lbacklog'[i] # lconn'
          /\ cpc'[lbacklog'[i]] \in {"connected", "asked", "dead"} /\ goal'[lbacklog'[i]] = None
    BY <1>1, <1>2 DEF ListenerInv
  <1>4. lconn' # None => cpc'[lconn'] \in {"connected", "asked", "dead"} /\ goal'[lconn'] = None
    BY <1>1 DEF ListenerInv, TypeOK
  <1>5. \A c \in Clients : /\ cpc'[c] = "init" => goal'[c] = None
                           /\ cpc'[c] = "go" => goal'[c] # None
    BY <1>1 DEF ListenerInv
  <1>6. /\ lpc' = "start" => \A c \in Clients : cpc'[c] = "init"
        /\ lpc' \in {"read", "reserve", "write"} => lconn' \in Clients
        /\ lport' # None => lpc' = "write"
    BY DEF ListenerInv
  <1> QED BY <1>3, <1>4, <1>5, <1>6 DEF ListenerInv

\* Every step keeps the listener's side in order.
LEMMA ListenerStep ==
  ASSUME TypeOK, ListenerInv, PortInv, [Next]_vars
  PROVE  ListenerInv'
  <1> USE PoolAssumption
  <1>1. ASSUME NEW w \in Workers, StartWorker(w) PROVE ListenerInv'
    BY <1>1, ListenerIdle DEF StartWorker, listenerVars, clientVars
  <1>2. CASE Listen \/ StartFails \/ ReadRequest
    BY <1>2, ListenerIdle DEF Listen, StartFails, ReadRequest, clientVars, ListenerInv
  <1>3. CASE AcceptClient
    <2>1. /\ lconn' = lbacklog[1] /\ 1 \in DOMAIN lbacklog /\ lbacklog[1] \in Clients
          /\ \A i \in DOMAIN lbacklog' :
               i \in Nat /\ i + 1 \in DOMAIN lbacklog /\ i + 1 # 1
               /\ lbacklog'[i] = lbacklog[i + 1]
      BY <1>3 DEF AcceptClient, TypeOK
    <2>2. UNCHANGED <<lport, cpc, goal>> /\ lpc' = "read" /\ lport = None
      BY <1>3 DEF AcceptClient, ListenerInv, clientVars
    <2>3. \A i, j \in DOMAIN lbacklog' : lbacklog'[i] = lbacklog'[j] => i = j
      <3> SUFFICES ASSUME NEW i \in DOMAIN lbacklog', NEW j \in DOMAIN lbacklog',
                          lbacklog'[i] = lbacklog'[j]
                   PROVE  i = j
        OBVIOUS
      <3>1. i + 1 = j + 1
        BY <2>1 DEF ListenerInv
      <3> QED BY <2>1, <3>1
    <2>4. \A i \in DOMAIN lbacklog' :
            /\ lbacklog'[i] # lconn'
            /\ cpc'[lbacklog'[i]] \in {"connected", "asked", "dead"} /\ goal'[lbacklog'[i]] = None
      BY <2>1, <2>2 DEF ListenerInv
    <2>5. cpc'[lconn'] \in {"connected", "asked", "dead"} /\ goal'[lconn'] = None
      BY <2>1, <2>2 DEF ListenerInv
    <2> QED BY <2>1, <2>2, <2>3, <2>4, <2>5 DEF ListenerInv
  <1>4. CASE reserve_worker
    BY <1>4 DEF reserve_worker, ListenerInv, clientVars
  <1>5. CASE WriteAnswer
    <2>1. /\ lconn \in Clients /\ lconn' = None /\ lport' = None /\ lpc' = "accept"
          /\ lbacklog' = lbacklog /\ cpc[lconn] # "init"
          /\ \A c \in Clients \ {lconn} : cpc'[c] = cpc[c] /\ goal'[c] = goal[c]
          /\ cpc'[lconn] \notin {"init", "go"}
      BY <1>5 DEF WriteAnswer, ListenerInv, TypeOK
    <2>2. \A i \in DOMAIN lbacklog : lbacklog[i] \in Clients \ {lconn}
      BY DEF TypeOK, ListenerInv
    <2> QED BY <2>1, <2>2 DEF ListenerInv
  <1>6. ASSUME NEW w \in Workers, WorkerAccept(w) \/ FreeWorker(w) PROVE ListenerInv'
    BY <1>6, ListenerIdle DEF WorkerAccept, FreeWorker, listenerVars, clientVars
  <1>7. ASSUME NEW w \in Workers, serve_time(w) PROVE ListenerInv'
    <2>1. lpc # "start"
      BY <1>7 DEF serve_time, ListenerInv, PortInv, TypeOK
    <2> QED BY <1>7, <2>1, ListenerIdle DEF serve_time, listenerVars, TypeOK
  <1>8. ASSUME NEW c \in Clients, ClientSteps(c) \/ Kill(c) PROVE ListenerInv'
    <2>1. lpc # "start"
      BY <1>8 DEF ClientSteps, Ask, ReadPort, ConnectWorker, AskWorker, ReadTime, Kill,
                  Client, ListenerInv
    <2>2. UNCHANGED listenerVars /\ UNCHANGED goal
      BY <1>8 DEF ClientSteps, Ask, ReadPort, ConnectWorker, AskWorker, ReadTime, Kill
    <2>3. \A d \in Clients : cpc'[d] = cpc[d]
            \/ (cpc[d] \in {"connected", "asked"} /\ cpc'[d] \in {"connected", "asked", "dead"})
            \/ (cpc[d] \notin {"init", "connected", "asked", "dead"} /\ cpc'[d] # "init")
      BY <1>8 DEF ClientSteps, Ask, ReadPort, ConnectWorker, AskWorker, ReadTime, Kill,
                  Client, TypeOK
    <2>4. \A d \in Clients : cpc'[d] = "go" => cpc[d] = "go" \/ goal[d] # None
      BY <1>8 DEF ClientSteps, Ask, ReadPort, ConnectWorker, AskWorker, ReadTime, Kill,
                  Client, TypeOK
    <2> QED BY <2>1, <2>2, <2>3, <2>4, ListenerIdle DEF listenerVars
  <1>9. ASSUME NEW c \in Clients, Connect(c) PROVE ListenerInv'
    <2>1. /\ cpc[c] = "init" /\ cpc' = [cpc EXCEPT ![c] = "connected"] /\ lpc # "start"
          /\ UNCHANGED <<lpc, lconn, lport, goal>>
      BY <1>9 DEF Connect, Client
    <2>2. /\ Len(lbacklog) \in Nat /\ DOMAIN lbacklog = 1 .. Len(lbacklog)
          /\ DOMAIN lbacklog' = 1 .. Len(lbacklog) + 1
          /\ lbacklog'[Len(lbacklog) + 1] = c
          /\ \A i \in DOMAIN lbacklog : lbacklog'[i] = lbacklog[i]
      BY <1>9 DEF Connect, TypeOK
    <2>3. \A i \in DOMAIN lbacklog' : i \in DOMAIN lbacklog \/ i = Len(lbacklog) + 1
      BY <2>2
    <2>4. c # lconn /\ goal[c] = None /\ \A i \in DOMAIN lbacklog : lbacklog[i] # c
      BY <2>1 DEF ListenerInv
    <2>5. \A i, j \in DOMAIN lbacklog' : lbacklog'[i] = lbacklog'[j] => i = j
      BY <2>2, <2>3, <2>4 DEF ListenerInv
    <2>6. \A i \in DOMAIN lbacklog' :
            /\ lbacklog'[i] # lconn'
            /\ cpc'[lbacklog'[i]] \in {"connected", "asked", "dead"} /\ goal'[lbacklog'[i]] = None
      BY <2>1, <2>2, <2>3, <2>4 DEF ListenerInv, TypeOK
    <2> QED BY <2>1, <2>4, <2>5, <2>6 DEF ListenerInv, TypeOK
  <1>10. CASE UNCHANGED vars
    BY <1>10, ListenerIdle DEF vars, listenerVars, clientVars
  <1> QED
    BY <1>1, <1>2, <1>3, <1>4, <1>5, <1>6, <1>7, <1>8, <1>9, <1>10
    DEF Next, ListenerSteps, WorkerSteps

-----------------------------------------------------------------------------
(* The pool: the workers' ports.                                           *)

\* A step that leaves the ports alone, and keeps the clients who are at one there or
\* dead, keeps PortInv.
LEMMA PortIdle ==
  ASSUME TypeOK, PortInv, UNCHANGED <<wconn, wbacklog>>,
         \A w \in Workers : wpc'[w] = "serve" <=> wconn[w] # None,
         \A c \in Clients : cpc[c] \in {"atWorker", "asking", "dead"} /\ goal[c] # None =>
           cpc'[c] \in {"atWorker", "asking", "dead"} /\ goal'[c] = goal[c]
  PROVE  PortInv'
  <1> SUFFICES ASSUME NEW w \in Workers
               PROVE  /\ \A i \in DOMAIN wbacklog[w] :
                           /\ goal'[wbacklog[w][i]] = w
                           /\ cpc'[wbacklog[w][i]] \in {"atWorker", "asking", "dead"}
                      /\ wconn[w] # None =>
                           goal'[wconn[w]] = w /\ cpc'[wconn[w]] \in {"atWorker", "asking", "dead"}
    BY DEF PortInv
  <1>1. w # None
    BY PoolAssumption
  <1>2. \A i \in DOMAIN wbacklog[w] : wbacklog[w][i] \in Clients
    BY DEF TypeOK
  <1>3. wconn[w] # None => wconn[w] \in Clients
    BY DEF TypeOK
  <1> QED BY <1>1, <1>2, <1>3 DEF PortInv

\* Who is on the way to worker w finds nobody at its port.
LEMMA PortFree ==
  ASSUME TypeOK, PortInv, PromiseInv, NEW c \in Clients, cpc[c] = "go", goal[c] \in Workers
  PROVE  wbacklog[goal[c]] = <<>> /\ wconn[goal[c]] = None
  <1> DEFINE w == goal[c]
  <1>1. c \in Holders(w)
    BY DEF Holders
  <1>2. \A i \in DOMAIN wbacklog[w] : wbacklog[w][i] \in Holders(w) /\ wbacklog[w][i] # c
    BY DEF Holders, PortInv
  <1>3. wconn[w] # None => wconn[w] \in Holders(w) /\ wconn[w] # c
    BY DEF Holders, PortInv
  <1>4. wconn[w] = None /\ DOMAIN wbacklog[w] = {}
    BY <1>1, <1>2, <1>3 DEF PromiseInv
  <1>5. wbacklog[w] \in Seq(Clients)
    BY DEF TypeOK
  <1> QED BY <1>4, <1>5, QueueDomain

\* Every step keeps the ports in order.
LEMMA PortStep ==
  ASSUME TypeOK, ListenerInv, PortInv, PromiseInv, [Next]_vars
  PROVE  PortInv'
  <1> USE PoolAssumption
  <1>1. ASSUME NEW w \in Workers, StartWorker(w) PROVE PortInv'
    <2>1. \A v \in Workers : wpc'[v] = "serve" <=> wconn[v] # None
      BY <1>1 DEF StartWorker, PortInv, TypeOK
    <2> QED BY <1>1, <2>1, PortIdle DEF StartWorker, clientVars
  <1>2. CASE StartFails
    <2>1. ASSUME NEW v \in Workers, wconn[v] # None PROVE FALSE
      <3>1. wconn[v] \in Clients /\ cpc[wconn[v]] # "init"
        <4>1. wconn[v] \in Clients
          BY <2>1 DEF TypeOK
        <4> QED BY <2>1, <4>1 DEF PortInv
      <3> QED BY <1>2, <3>1 DEF StartFails, ListenerInv
    <2> QED BY <1>2, <2>1, PortIdle DEF StartFails, clientVars
  <1>3. CASE Listen \/ AcceptClient \/ ReadRequest \/ reserve_worker
    BY <1>3, PortIdle
    DEF Listen, AcceptClient, ReadRequest, reserve_worker, workerVars, clientVars, PortInv
  <1>4. CASE WriteAnswer
    <2>1. lconn \in Clients /\ goal[lconn] = None
      BY <1>4 DEF WriteAnswer, ListenerInv
    <2>2. \A c \in Clients \ {lconn} : cpc'[c] = cpc[c] /\ goal'[c] = goal[c]
      BY <1>4, <2>1 DEF WriteAnswer, TypeOK
    <2> QED BY <1>4, <2>1, <2>2, PortIdle DEF WriteAnswer, workerVars, PortInv
  <1>5. ASSUME NEW w \in Workers, WorkerAccept(w) PROVE PortInv'
    <2>1. /\ wbacklog[w] \in Seq(Clients) /\ wbacklog[w] # <<>> /\ Len(wbacklog[w]) <= 1
          /\ cpc' = cpc /\ goal' = goal
      BY <1>5 DEF WorkerAccept, PortInv, TypeOK, clientVars
    <2>2. 1 \in DOMAIN wbacklog[w] /\ Head(wbacklog[w]) = wbacklog[w][1]
          /\ Head(wbacklog[w]) \in Clients /\ Tail(wbacklog[w]) = <<>>
      BY <2>1, QueueTail
    <2>3. /\ wconn'[w] = wbacklog[w][1] /\ wbacklog'[w] = <<>> /\ wpc'[w] = "serve"
          /\ wbacklog[w][1] \in Clients
          /\ \A v \in Workers \ {w} : wconn'[v] = wconn[v] /\ wbacklog'[v] = wbacklog[v]
                                      /\ wpc'[v] = wpc[v]
      BY <1>5, <2>1, <2>2 DEF WorkerAccept, TypeOK
    <2>4. wconn'[w] # None
      BY <2>3
    <2> QED BY <2>1, <2>2, <2>3, <2>4 DEF PortInv
  <1>6. ASSUME NEW w \in Workers, serve_time(w) PROVE PortInv'
    <2>1. /\ wconn[w] \in Clients /\ wbacklog[w] = <<>> /\ goal[wconn[w]] = w
          /\ wbacklog' = wbacklog /\ goal' = goal /\ wconn'[w] = None /\ wpc'[w] = "free"
          /\ \A v \in Workers \ {w} : wconn'[v] = wconn[v] /\ wpc'[v] = wpc[v]
          /\ \A c \in Clients \ {wconn[w]} : cpc'[c] = cpc[c]
      BY <1>6 DEF serve_time, PortInv, TypeOK
    <2>2. ASSUME NEW v \in Workers \ {w}
          PROVE  /\ \A i \in DOMAIN wbacklog[v] : wbacklog[v][i] \in Clients \ {wconn[w]}
                 /\ wconn[v] # None => wconn[v] \in Clients \ {wconn[w]}
      BY <2>1 DEF PortInv, TypeOK
    <2>3. ASSUME NEW v \in Workers, v # w
          PROVE  /\ Len(wbacklog'[v]) <= 1
                 /\ \A i \in DOMAIN wbacklog'[v] :
                      /\ goal'[wbacklog'[v][i]] = v
                      /\ cpc'[wbacklog'[v][i]] \in {"atWorker", "asking", "dead"}
                 /\ wconn'[v] # None =>
                      /\ wbacklog'[v] = <<>> /\ goal'[wconn'[v]] = v
                      /\ cpc'[wconn'[v]] \in {"atWorker", "asking", "dead"}
                 /\ wpc'[v] = "serve" <=> wconn'[v] # None
      BY <2>1, <2>2, <2>3 DEF PortInv
    <2>4. Len(wbacklog'[w]) <= 1 /\ DOMAIN wbacklog'[w] = {}
      BY <2>1
    <2> QED BY <2>1, <2>3, <2>4 DEF PortInv
  <1>7. ASSUME NEW w \in Workers, FreeWorker(w) PROVE PortInv'
    <2>1. \A v \in Workers : wpc'[v] = "serve" <=> wconn[v] # None
      BY <1>7 DEF FreeWorker, PortInv, TypeOK
    <2> QED BY <1>7, <2>1, PortIdle DEF FreeWorker, clientVars
  <1>8. ASSUME NEW c \in Clients,
               Ask(c) \/ ReadPort(c) \/ AskWorker(c) \/ ReadTime(c) \/ Kill(c) \/ Connect(c)
        PROVE  PortInv'
    <2>1. UNCHANGED <<workerVars, goal>>
      BY <1>8 DEF Ask, ReadPort, AskWorker, ReadTime, Kill, Connect
    <2>2. \A d \in Clients : cpc[d] \in {"atWorker", "asking", "dead"} =>
            cpc'[d] \in {"atWorker", "asking", "dead"}
      BY <1>8 DEF Ask, ReadPort, AskWorker, ReadTime, Kill, Connect, Client, TypeOK
    <2> QED BY <2>1, <2>2, PortIdle DEF workerVars, PortInv
  <1>9. ASSUME NEW c \in Clients, ConnectWorker(c) PROVE PortInv'
    <2> DEFINE w == goal[c]
    <2>1. /\ cpc[c] = "go" /\ w \in Workers /\ wbacklog[w] = <<>> /\ wconn[w] = None
      BY <1>9, PortFree DEF ConnectWorker, Client, ListenerInv, TypeOK
    <2>2. /\ UNCHANGED <<wpc, wconn, goal>> /\ wbacklog'[w] = <<c>>
          /\ \A v \in Workers \ {w} : wbacklog'[v] = wbacklog[v]
          /\ cpc'[c] = "atWorker" /\ \A d \in Clients \ {c} : cpc'[d] = cpc[d]
      BY <1>9, <2>1 DEF ConnectWorker, Client, TypeOK
    <2>3. ASSUME NEW v \in Workers \ {w}
          PROVE  /\ \A i \in DOMAIN wbacklog[v] : wbacklog[v][i] \in Clients \ {c}
                 /\ wconn[v] # None => wconn[v] \in Clients \ {c}
      BY <2>1 DEF PortInv, TypeOK
    <2>4. ASSUME NEW v \in Workers, v # w
          PROVE  /\ Len(wbacklog'[v]) <= 1
                 /\ \A i \in DOMAIN wbacklog'[v] :
                      /\ goal'[wbacklog'[v][i]] = v
                      /\ cpc'[wbacklog'[v][i]] \in {"atWorker", "asking", "dead"}
                 /\ wconn'[v] # None =>
                      /\ wbacklog'[v] = <<>> /\ goal'[wconn'[v]] = v
                      /\ cpc'[wconn'[v]] \in {"atWorker", "asking", "dead"}
                 /\ wpc'[v] = "serve" <=> wconn'[v] # None
      BY <2>2, <2>3, <2>4 DEF PortInv
    <2>5. /\ Len(wbacklog'[w]) <= 1
          /\ \A i \in DOMAIN wbacklog'[w] :
               /\ goal'[wbacklog'[w][i]] = w
               /\ cpc'[wbacklog'[w][i]] \in {"atWorker", "asking", "dead"}
          /\ wconn'[w] = None /\ wpc'[w] # "serve"
      BY <2>1, <2>2 DEF PortInv
    <2> QED BY <2>4, <2>5 DEF PortInv
  <1>10. CASE UNCHANGED vars
    BY <1>10, PortIdle DEF vars, workerVars, clientVars, PortInv
  <1> QED
    BY <1>1, <1>2, <1>3, <1>4, <1>5, <1>6, <1>7, <1>8, <1>9, <1>10
    DEF Next, ListenerSteps, WorkerSteps, ClientSteps

-----------------------------------------------------------------------------
(* The pool: the promises.                                                 *)

\* A step that gives no worker a new holder, and declares none free that was not, keeps
\* PromiseInv.
LEMMA PromiseKept ==
  ASSUME PromiseInv,
         \A w \in Workers :
           /\ Holders(w)' \subseteq Holders(w)
           /\ ~busy'[w] => ~busy[w] /\ wpc'[w] \in {"off", "accept"}
           /\ wpc'[w] = "free" => wpc[w] = "free"
  PROVE  PromiseInv'
  BY DEF PromiseInv

\* Every step keeps the promises.
LEMMA PromiseStep ==
  ASSUME TypeOK, ListenerInv, PortInv, PromiseInv, [Next]_vars
  PROVE  PromiseInv'
  <1> USE PoolAssumption
  <1>1. ASSUME NEW w \in Workers, StartWorker(w) PROVE PromiseInv'
    <2>1. \A v \in Workers : Holders(v)' = Holders(v)
      BY <1>1 DEF StartWorker, Holders, listenerVars, clientVars
    <2>2. \A v \in Workers : /\ ~busy'[v] => ~busy[v] /\ wpc'[v] \in {"off", "accept"}
                             /\ wpc'[v] = "free" => wpc[v] = "free"
      BY <1>1 DEF StartWorker, TypeOK, PromiseInv
    <2> QED BY <2>1, <2>2, PromiseKept
  <1>2. CASE Listen \/ ReadRequest \/ StartFails
    <2>1. \A v \in Workers : Holders(v)' = Holders(v)
      BY <1>2 DEF Listen, ReadRequest, StartFails, Holders, workerVars, clientVars
    <2>2. \A v \in Workers : /\ ~busy'[v] => ~busy[v] /\ wpc'[v] \in {"off", "accept"}
                             /\ wpc'[v] = "free" => wpc[v] = "free"
      BY <1>2 DEF Listen, ReadRequest, StartFails, PromiseInv, workerVars
    <2> QED BY <2>1, <2>2, PromiseKept
  <1>3. CASE AcceptClient
    <2>1. \A v \in Workers : Holders(v)' \subseteq Holders(v)
      BY <1>3 DEF AcceptClient, Holders, ListenerInv, workerVars, clientVars
    <2> QED BY <1>3, <2>1, PromiseKept DEF AcceptClient, workerVars, PromiseInv
  <1>4. CASE reserve_worker
    <2>1. lport = None /\ lconn \in Clients /\ UNCHANGED <<lconn, wpc, wconn, wbacklog, cpc, goal>>
      BY <1>4 DEF reserve_worker, ListenerInv, clientVars
    <2>2. CASE lport' = None /\ busy' = busy
      <3>1. \A v \in Workers : Holders(v)' = Holders(v)
        BY <2>1, <2>2 DEF Holders
      <3> QED BY <2>1, <2>2, <3>1, PromiseKept DEF PromiseInv
    <2>3. ASSUME NEW w \in Workers, ~busy[w], busy' = [busy EXCEPT ![w] = TRUE], lport' = w
          PROVE  PromiseInv'
      <3>1. Holders(w) = {} /\ wpc[w] \in {"off", "accept"}
        BY <2>3 DEF PromiseInv
      <3>2. Holders(w)' = Holders(w) \union {lconn}
        BY <2>1, <2>3 DEF Holders
      <3>3. \A v \in Workers \ {w} : Holders(v)' = Holders(v) /\ busy'[v] = busy[v]
        BY <2>1, <2>3 DEF Holders, TypeOK
      <3>4. busy'[w]
        BY <2>3 DEF TypeOK
      <3> QED BY <2>1, <3>1, <3>2, <3>3, <3>4 DEF PromiseInv
    <2> QED BY <1>4, <2>2, <2>3 DEF reserve_worker
  <1>5. CASE WriteAnswer
    <2>1. /\ lconn \in Clients /\ lport' = None /\ UNCHANGED <<busy, wpc, wconn, wbacklog>>
          /\ goal'[lconn] = lport /\ \A c \in Clients \ {lconn} : cpc'[c] = cpc[c] /\ goal'[c] = goal[c]
      BY <1>5 DEF WriteAnswer, ListenerInv, workerVars, TypeOK
    <2>2. \A v \in Workers : Holders(v)' \subseteq Holders(v)
      BY <2>1 DEF Holders
    <2> QED BY <2>1, <2>2, PromiseKept DEF PromiseInv
  <1>6. ASSUME NEW w \in Workers, WorkerAccept(w) PROVE PromiseInv'
    <2>1. wbacklog[w] \in Seq(Clients) /\ wbacklog[w] # <<>>
          /\ UNCHANGED <<lport, lconn, cpc, goal, busy>>
      BY <1>6 DEF WorkerAccept, TypeOK, listenerVars, clientVars
    <2>2. /\ 1 \in DOMAIN wbacklog[w] /\ Head(wbacklog[w]) = wbacklog[w][1]
          /\ \A i \in DOMAIN Tail(wbacklog[w]) :
               i + 1 \in DOMAIN wbacklog[w] /\ Tail(wbacklog[w])[i] = wbacklog[w][i + 1]
      BY <2>1, QueueTail
    <2>3. /\ wconn'[w] = wbacklog[w][1] /\ wbacklog'[w] = Tail(wbacklog[w]) /\ wpc'[w] = "serve"
          /\ \A v \in Workers \ {w} : wconn'[v] = wconn[v] /\ wbacklog'[v] = wbacklog[v]
                                      /\ wpc'[v] = wpc[v]
      BY <1>6, <2>2 DEF WorkerAccept, TypeOK
    <2>4. \A v \in Workers : Holders(v)' \subseteq Holders(v)
      <3>1. Holders(w)' \subseteq Holders(w)
        <4>1. {wbacklog'[w][i] : i \in DOMAIN wbacklog'[w]}
                \subseteq {wbacklog[w][i] : i \in DOMAIN wbacklog[w]}
          BY <2>2, <2>3
        <4>2. {wconn'[w]} \subseteq {wbacklog[w][i] : i \in DOMAIN wbacklog[w]}
          BY <2>2, <2>3
        <4> QED BY <2>1, <4>1, <4>2 DEF Holders
      <3>2. \A v \in Workers \ {w} : Holders(v)' = Holders(v)
        BY <2>1, <2>3 DEF Holders
      <3> QED BY <3>1, <3>2
    <2>5. wbacklog[w][1] \in Holders(w)
      BY <2>1, <2>2 DEF Holders, PortInv
    <2>6. busy[w]
      BY <2>5 DEF PromiseInv
    <2> QED BY <2>1, <2>3, <2>4, <2>6, PromiseKept DEF PromiseInv
  <1>7. ASSUME NEW w \in Workers, serve_time(w) PROVE PromiseInv'
    <2>1. /\ wconn[w] \in Clients /\ wbacklog[w] = <<>> /\ goal[wconn[w]] = w
          /\ wbacklog' = wbacklog /\ goal' = goal /\ wconn'[w] = None /\ wpc'[w] = "free"
          /\ \A v \in Workers \ {w} : wconn'[v] = wconn[v] /\ wpc'[v] = wpc[v]
          /\ \A c \in Clients \ {wconn[w]} : cpc'[c] = cpc[c]
          /\ cpc'[wconn[w]] \in {"answered", "dead"}
          /\ UNCHANGED <<lport, lconn, busy>> /\ wpc[w] = "serve"
      BY <1>7 DEF serve_time, PortInv, TypeOK, listenerVars
    <2>2. wconn[w] \in Holders(w) /\ \A c \in Holders(w) : c = wconn[w]
      BY <2>1 DEF Holders, PromiseInv
    <2>3. \A v \in Workers : Holders(v)' \subseteq Holders(v)
      BY <2>1 DEF Holders
    <2>4. lport # w
      <3>1. SUFFICES ASSUME lport = w PROVE FALSE
        OBVIOUS
      <3>2. lconn \in Holders(w) /\ goal[lconn] = None
        BY <3>1 DEF Holders, ListenerInv
      <3> QED BY <2>1, <2>2, <3>2
    <2>5. wconn[w] \notin Holders(w)'
      BY <2>1, <2>4 DEF Holders
    <2>6. Holders(w)' = {}
      BY <2>2, <2>3, <2>5
    <2>7. busy[w]
      BY <2>2 DEF PromiseInv
    <2> QED BY <2>1, <2>3, <2>6, <2>7 DEF PromiseInv
  <1>8. ASSUME NEW w \in Workers, FreeWorker(w) PROVE PromiseInv'
    <2>1. \A v \in Workers : Holders(v)' = Holders(v)
      BY <1>8 DEF FreeWorker, Holders, listenerVars, clientVars
    <2>2. /\ Holders(w) = {} /\ wpc'[w] = "accept"
          /\ \A v \in Workers \ {w} : wpc'[v] = wpc[v] /\ busy'[v] = busy[v]
      BY <1>8 DEF FreeWorker, PromiseInv, TypeOK
    <2> QED BY <2>1, <2>2 DEF PromiseInv
  <1>9. ASSUME NEW c \in Clients,
               Ask(c) \/ ReadPort(c) \/ AskWorker(c) \/ ReadTime(c) \/ Kill(c) \/ Connect(c)
        PROVE  PromiseInv'
    <2>1. UNCHANGED <<lport, lconn, workerVars, goal>>
      BY <1>9 DEF Ask, ReadPort, AskWorker, ReadTime, Kill, Connect, listenerVars
    <2>2. \A d \in Clients : cpc'[d] \in {"told", "go", "atWorker", "asking"} =>
            cpc[d] \in {"told", "go", "atWorker", "asking"}
      BY <1>9 DEF Ask, ReadPort, AskWorker, ReadTime, Kill, Connect, Client, TypeOK
    <2>3. \A v \in Workers : Holders(v)' \subseteq Holders(v)
      BY <2>1, <2>2 DEF Holders, workerVars
    <2> QED BY <2>1, <2>3, PromiseKept DEF workerVars, PromiseInv
  <1>10. ASSUME NEW c \in Clients, ConnectWorker(c) PROVE PromiseInv'
    <2> DEFINE w == goal[c]
    <2>1. /\ cpc[c] = "go" /\ w \in Workers /\ wbacklog[w] = <<>>
      BY <1>10, PortFree DEF ConnectWorker, Client, ListenerInv, TypeOK
    <2>2. /\ UNCHANGED <<lport, lconn, busy, wpc, wconn, goal>> /\ wbacklog'[w] = <<c>>
          /\ \A v \in Workers \ {w} : wbacklog'[v] = wbacklog[v]
          /\ cpc'[c] = "atWorker" /\ \A d \in Clients \ {c} : cpc'[d] = cpc[d]
      BY <1>10, <2>1 DEF ConnectWorker, Client, TypeOK, listenerVars
    <2>3. \A v \in Workers : Holders(v)' \subseteq Holders(v)
      BY <2>1, <2>2 DEF Holders
    <2> QED BY <2>2, <2>3, PromiseKept DEF PromiseInv
  <1>11. CASE UNCHANGED vars
    <2>1. \A v \in Workers : Holders(v)' = Holders(v)
      BY <1>11 DEF vars, listenerVars, workerVars, clientVars, Holders
    <2> QED BY <1>11, <2>1, PromiseKept DEF vars, workerVars, PromiseInv
  <1> QED
    BY <1>1, <1>2, <1>3, <1>4, <1>5, <1>6, <1>7, <1>8, <1>9, <1>10, <1>11
    DEF Next, ListenerSteps, WorkerSteps, ClientSteps

-----------------------------------------------------------------------------
(* The pool: theorems.                                                     *)

\* The inductive invariant.
Inv == TypeOK /\ ListenerInv /\ PortInv /\ PromiseInv

\* It holds at the start and is kept by every step.
LEMMA InvAlways == Spec => []Inv
  <1>1. Init => Inv
    <2> SUFFICES ASSUME Init PROVE Inv
      OBVIOUS
    <2>1. TypeOK
      BY TypeInit
    <2>2. ListenerInv /\ PortInv
      BY PoolAssumption DEF Init, ListenerInv, PortInv
    <2>3. ASSUME NEW w \in Workers PROVE Holders(w) = {}
      BY PoolAssumption DEF Init, Holders
    <2>4. PromiseInv
      BY <2>3 DEF Init, PromiseInv
    <2> QED BY <2>1, <2>2, <2>4 DEF Inv
  <1>2. Inv /\ [Next]_vars => Inv'
    BY TypeStep, ListenerStep, PortStep, PromiseStep DEF Inv
  <1> QED BY <1>1, <1>2, PTL DEF Spec

\* The reservation that reserve_worker makes is exclusive until worker_main clears it,
\* for every number of workers and clients, although it passes from the listener to the
\* client and to the worker and clients die on the way.
THEOREM ReservationExclusive == Spec => []OneClientPerWorker
  <1>1. Inv => OneClientPerWorker
    BY DEF Inv, PromiseInv, OneClientPerWorker
  <1> QED BY <1>1, InvAlways, PTL
=============================================================================
