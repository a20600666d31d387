---------------------------- MODULE MqChatProofs ----------------------------
(* Proofs about MqChat for every number of clients and texts, and every     *)
(* size of the table, the queues and the window.                           *)
EXTENDS MqChat, FiniteSetTheorems, SequenceTheorems, WellFoundedInduction, TLAPS

-----------------------------------------------------------------------------
(* Induction.                                                              *)

\* Every set of naturals that is not empty has a least member.
LEMMA LeastNumber ==
  ASSUME NEW T \in SUBSET Nat, T # {}
  PROVE  \E m \in T : \A k \in T : m <= k
  <1> DEFINE R == {ss \in Nat \X Nat : ss[1] < ss[2]}
  <1>1. IsWellFoundedOn(R, Nat)
    BY NatLessThanWellFounded DEF OpToRel
  <1>2. PICK m \in T : \A k \in T : ~(<<k, m>> \in R)
    <2> HIDE DEF R
    <2> QED BY <1>1, WFMin
  <1>3. \A k \in T : ~(k < m)
    BY <1>2
  <1> QED BY <1>3

\* Induction up to n, with a set in the place of the predicate.
LEMMA CountUp ==
  ASSUME NEW n \in Nat, NEW G, 0 \in G, \A i \in 1 .. n : i - 1 \in G => i \in G
  PROVE  \A i \in 0 .. n : i \in G
  <1> SUFFICES ASSUME NEW b \in 0 .. n, b \notin G PROVE FALSE
    OBVIOUS
  <1> DEFINE B == {k \in 0 .. n : k \notin G}
  <1>1. B \in SUBSET Nat /\ B # {}
    OBVIOUS
  <1>2. PICK m \in B : \A k \in B : m <= k
    <2> HIDE DEF B
    <2> QED BY <1>1, LeastNumber
  <1>3. m \in 1 .. n /\ m \notin G /\ m - 1 \in 0 .. n
    BY <1>2
  <1>4. m - 1 \notin B
    <2> HIDE DEF B
    <2> QED BY <1>2, <1>3
  <1> QED BY <1>3, <1>4

-----------------------------------------------------------------------------
(* Sequences.                                                              *)

\* What a sequence holds.
LEMMA SeqDomain ==
  ASSUME NEW S, NEW q \in Seq(S)
  PROVE  /\ Len(q) \in Nat /\ DOMAIN q = 1 .. Len(q) /\ \A k \in DOMAIN q : q[k] \in S
         /\ q = <<>> <=> Len(q) = 0
  BY LenProperties, EmptySeq

\* What taking the head of a queue leaves.
LEMMA SeqTail ==
  ASSUME NEW S, NEW q \in Seq(S), q # <<>>
  PROVE  /\ 1 \in DOMAIN q /\ Head(q) = q[1] /\ Head(q) \in S /\ Tail(q) \in Seq(S)
         /\ Len(q) \in Nat \ {0} /\ Len(Tail(q)) = Len(q) - 1
         /\ \A k \in DOMAIN Tail(q) : k \in Nat \ {0} /\ k + 1 \in DOMAIN q
                                      /\ Tail(q)[k] = q[k + 1]
         /\ \A k \in DOMAIN q : k # 1 => k - 1 \in DOMAIN Tail(q) /\ Tail(q)[k - 1] = q[k]
  <1>1. Len(q) \in Nat \ {0} /\ DOMAIN q = 1 .. Len(q) /\ Head(q) = q[1] /\ q[1] \in S
    BY LenProperties, EmptySeq
  <1>2. Tail(q) \in Seq(S) /\ Len(Tail(q)) = Len(q) - 1
    BY <1>1
  <1> QED BY <1>1, <1>2

\* What an entry at the end adds.
LEMMA SeqAppend ==
  ASSUME NEW S, NEW q \in Seq(S), NEW x \in S
  PROVE  /\ Append(q, x) \in Seq(S) /\ Len(q) \in Nat /\ Len(Append(q, x)) = Len(q) + 1
         /\ DOMAIN Append(q, x) = DOMAIN q \union {Len(q) + 1}
         /\ Len(q) + 1 \notin DOMAIN q
         /\ Append(q, x)[Len(q) + 1] = x
         /\ \A k \in DOMAIN q : Append(q, x)[k] = q[k]
         /\ Append(q, x) # <<>>
  <1>1. Len(q) \in Nat /\ DOMAIN q = 1 .. Len(q)
    BY LenProperties
  <1>2. Append(q, x) \in Seq(S) /\ Len(Append(q, x)) = Len(q) + 1
        /\ DOMAIN Append(q, x) = 1 .. Len(q) + 1
    BY <1>1
  <1> QED BY <1>1, <1>2

-----------------------------------------------------------------------------
(* Filters.                                                                *)

\* The value the recursion of Only gives to i.
KeepTo(f, s, S, i) ==
  IF i = 0 THEN <<>> ELSE IF s[i] \in S THEN Append(f[i - 1], s[i]) ELSE f[i - 1]

\* f is a solution of the recursion up to n.
Keeps(f, s, S, n) == f = [i \in 0 .. n |-> KeepTo(f, s, S, i)]

\* The solution.
Kept(s, S) == CHOOSE f : Keeps(f, s, S, Len(s))

\* Only in these terms.
LEMMA OnlyDef ==
  ASSUME NEW s, NEW S
  PROVE  Only(s, S) = Kept(s, S)[Len(s)]
  BY DEF Only, Kept, Keeps, KeepTo

\* There is a solution.
LEMMA KeepsExist ==
  ASSUME NEW s, NEW S, NEW n \in Nat
  PROVE  \E f : Keeps(f, s, S, n)
  <1> DEFINE G == {k \in 0 .. n : \E f : Keeps(f, s, S, k)}
  <1>1. 0 \in G
    <2> DEFINE f == [i \in 0 .. 0 |-> <<>>]
    <2>1. \A i \in 0 .. 0 : i = 0 /\ KeepTo(f, s, S, i) = <<>>
      BY DEF KeepTo
    <2>2. f = [i \in 0 .. 0 |-> KeepTo(f, s, S, i)]
      BY <2>1
    <2> QED BY <2>2 DEF Keeps
  <1>2. ASSUME NEW k \in 1 .. n, k - 1 \in G PROVE k \in G
    <2>1. PICK f : Keeps(f, s, S, k - 1)
      BY <1>2
    <2> DEFINE g == [i \in 0 .. k |-> IF i = k THEN KeepTo(f, s, S, k) ELSE f[i]]
    <2>2. \A i \in 0 .. k - 1 : g[i] = f[i] /\ f[i] = KeepTo(f, s, S, i)
      BY <2>1 DEF Keeps
    <2>3. \A i \in 0 .. k : i # 0 => i - 1 \in 0 .. k - 1
      OBVIOUS
    <2>4. \A i \in 0 .. k : KeepTo(g, s, S, i) = KeepTo(f, s, S, i)
      <3> HIDE DEF g
      <3> QED BY <2>2, <2>3 DEF KeepTo
    <2>5. \A i \in 0 .. k : i # k => i \in 0 .. k - 1
      OBVIOUS
    <2>6. \A i \in 0 .. k : g[i] = KeepTo(g, s, S, i)
      BY <2>2, <2>4, <2>5
    <2>7. g = [i \in 0 .. k |-> KeepTo(g, s, S, i)]
      BY <2>6
    <2> HIDE DEF g
    <2>8. Keeps(g, s, S, k)
      BY <2>7 DEF Keeps
    <2> QED BY <2>8
  <1>3. \A i \in 0 .. n : i \in G
    <2> HIDE DEF G
    <2> QED BY <1>1, <1>2, CountUp
  <1> QED BY <1>3

\* How the solution goes on.
LEMMA KeptStep ==
  ASSUME NEW U, NEW s \in Seq(U), NEW S
  PROVE  /\ Kept(s, S)[0] = <<>>
         /\ \A i \in 1 .. Len(s) :
              Kept(s, S)[i] = IF s[i] \in S THEN Append(Kept(s, S)[i - 1], s[i])
                              ELSE Kept(s, S)[i - 1]
         /\ \A i \in 0 .. Len(s) : Kept(s, S)[i] \in Seq(S)
  <1> DEFINE K == Kept(s, S)
  <1>1. Len(s) \in Nat
    BY LenProperties
  <1>2. Keeps(K, s, S, Len(s))
    BY <1>1, KeepsExist DEF Kept
  <1> HIDE DEF K
  <1>3. K[0] = <<>> /\ \A i \in 1 .. Len(s) : K[i] = IF s[i] \in S THEN Append(K[i - 1], s[i])
                                              ELSE K[i - 1]
    <2>1. \A i \in 0 .. Len(s) : K[i] = KeepTo(K, s, S, i)
      BY <1>2 DEF Keeps
    <2>2. \A i \in 1 .. Len(s) : i \in 0 .. Len(s) /\ i # 0
      BY <1>1
    <2> QED BY <1>1, <2>1, <2>2 DEF KeepTo
  <1> DEFINE G == {i \in 0 .. Len(s) : K[i] \in Seq(S)}
  <1>4. 0 \in G
    <2>1. <<>> \in Seq(S)
      BY EmptySeq
    <2>2. K[0] \in Seq(S)
      BY <1>3, <2>1
    <2>3. 0 \in 0 .. Len(s)
      BY <1>1
    <2> QED BY <2>2, <2>3
  <1>5. ASSUME NEW i \in 1 .. Len(s), i - 1 \in G PROVE i \in G
    <2>1. K[i - 1] \in Seq(S)
      BY <1>5
    <2>2. s[i] \in S => Append(K[i - 1], s[i]) \in Seq(S)
      BY <2>1, AppendProperties
    <2>3. K[i] \in Seq(S)
      BY <1>3, <2>1, <2>2
    <2> QED BY <1>1, <2>3
  <1>6. \A i \in 0 .. Len(s) : i \in G
    <2> HIDE DEF G
    <2> QED BY <1>1, <1>4, <1>5, CountUp
  <1> QED BY <1>3, <1>6 DEF K

\* A filter keeps elements of S only.
LEMMA OnlyType ==
  ASSUME NEW U, NEW s \in Seq(U), NEW S
  PROVE  Only(s, S) \in Seq(S)
  <1>1. Len(s) \in 0 .. Len(s)
    BY LenProperties
  <1> QED BY <1>1, KeptStep, OnlyDef

\* Filters of sequences that begin alike begin alike.
LEMMA KeptAgree ==
  ASSUME NEW U, NEW s \in Seq(U), NEW t \in Seq(U), NEW S, NEW n \in Nat,
         n <= Len(s), n <= Len(t), \A i \in 1 .. n : s[i] = t[i]
  PROVE  \A i \in 0 .. n : Kept(s, S)[i] = Kept(t, S)[i]
  <1> DEFINE K == Kept(s, S)
             L == Kept(t, S)
             G == {i \in 0 .. n : K[i] = L[i]}
  <1>1. Len(s) \in Nat /\ Len(t) \in Nat
    BY LenProperties
  <1>2. /\ K[0] = <<>> /\ L[0] = <<>>
        /\ \A i \in 1 .. Len(s) : K[i] = IF s[i] \in S THEN Append(K[i - 1], s[i]) ELSE K[i - 1]
        /\ \A i \in 1 .. Len(t) : L[i] = IF t[i] \in S THEN Append(L[i - 1], t[i]) ELSE L[i - 1]
    BY KeptStep
  <1> HIDE DEF K, L
  <1>3. 0 \in G
    BY <1>2
  <1>4. ASSUME NEW i \in 1 .. n, i - 1 \in G PROVE i \in G
    <2>1. i \in 1 .. Len(s) /\ i \in 1 .. Len(t) /\ i \in 0 .. n /\ s[i] = t[i]
      BY <1>1
    <2>2. K[i - 1] = L[i - 1]
      BY <1>4
    <2>3. K[i] = L[i]
      BY <1>2, <2>1, <2>2
    <2> QED BY <2>1, <2>3
  <1>5. \A i \in 0 .. n : i \in G
    <2> HIDE DEF G
    <2> QED BY <1>3, <1>4, CountUp
  <1> QED BY <1>5 DEF K, L

\* A filter of one element more.
LEMMA OnlyAppend ==
  ASSUME NEW U, NEW s \in Seq(U), NEW x \in U, NEW S
  PROVE  Only(Append(s, x), S) = IF x \in S THEN Only(s, S) \o <<x>> ELSE Only(s, S)
  <1> DEFINE t == Append(s, x)
             n == Len(s)
  <1>1. /\ t \in Seq(U) /\ n \in Nat /\ Len(t) = n + 1 /\ t[n + 1] = x
        /\ \A i \in 1 .. n : s[i] = t[i]
    BY LenProperties, AppendProperties
  <1> HIDE DEF t
  <1>2. Kept(s, S)[n] = Kept(t, S)[n]
    <2>1. n <= Len(t) /\ n <= Len(s) /\ n \in 0 .. n
      BY <1>1
    <2> HIDE DEF n
    <2> QED BY <1>1, <2>1, KeptAgree
  <1>3. Kept(t, S)[n + 1] = IF x \in S THEN Append(Kept(t, S)[n], x) ELSE Kept(t, S)[n]
    <2>1. n + 1 \in 1 .. Len(t) /\ (n + 1) - 1 = n
      BY <1>1
    <2> HIDE DEF n
    <2>2. Kept(t, S)[n + 1] = IF t[n + 1] \in S THEN Append(Kept(t, S)[(n + 1) - 1], t[n + 1])
                              ELSE Kept(t, S)[(n + 1) - 1]
      BY <1>1, <2>1, KeptStep
    <2> QED BY <1>1, <2>1, <2>2
  <1>4. Only(t, S) = Kept(t, S)[n + 1] /\ Only(s, S) = Kept(s, S)[n]
    BY <1>1, OnlyDef
  <1>5. x \in S => Append(Only(s, S), x) = Only(s, S) \o <<x>>
    BY OnlyType, AppendIsConcat
  <1> QED BY <1>2, <1>3, <1>4, <1>5 DEF t

\* A filter begins with the first element, if that is kept.
LEMMA OnlyTail ==
  ASSUME NEW U, NEW s \in Seq(U), s # <<>>, NEW S
  PROVE  Only(s, S) = IF Head(s) \in S THEN <<Head(s)>> \o Only(Tail(s), S)
                      ELSE Only(Tail(s), S)
  <1> DEFINE t == Tail(s)
             K == Kept(s, S)
             L == Kept(t, S)
             P == IF s[1] \in S THEN <<s[1]>> ELSE <<>>
             n == Len(t)
             G == {i \in 0 .. n : K[i + 1] = P \o L[i]}
  <1>1. /\ t \in Seq(U) /\ n \in Nat /\ Len(s) = n + 1 /\ Head(s) = s[1]
        /\ \A i \in 1 .. n : t[i] = s[i + 1]
    <2>1. /\ t \in Seq(U) /\ Len(s) \in Nat \ {0} /\ n = Len(s) - 1 /\ Head(s) = s[1]
      BY SeqTail
    <2>2. DOMAIN t = 1 .. n /\ \A i \in DOMAIN t : t[i] = s[i + 1]
      BY <2>1, SeqTail, LenProperties
    <2> QED BY <2>1, <2>2
  <1>2. P \in Seq(S) /\ <<>> \in Seq(S)
    <2>1. <<>> \in Seq(S) /\ (s[1] \in S => <<s[1]>> \in Seq(S))
      BY EmptySeq
    <2> QED BY <2>1
  <1> HIDE DEF t
  <1>3. /\ K[0] = <<>> /\ L[0] = <<>>
        /\ \A i \in 1 .. Len(s) : K[i] = IF s[i] \in S THEN Append(K[i - 1], s[i]) ELSE K[i - 1]
        /\ \A i \in 1 .. n : L[i] = IF t[i] \in S THEN Append(L[i - 1], t[i]) ELSE L[i - 1]
        /\ \A i \in 0 .. n : L[i] \in Seq(S)
    BY <1>1, KeptStep
  <1> HIDE DEF K, L, n
  <1>4. 0 \in G
    <2>1. K[1] = IF s[1] \in S THEN Append(K[0], s[1]) ELSE K[0]
      <3>1. 1 \in 1 .. Len(s) /\ 1 - 1 = 0
        BY <1>1
      <3>2. K[1] = IF s[1] \in S THEN Append(K[1 - 1], s[1]) ELSE K[1 - 1]
        BY <1>3, <3>1
      <3> QED BY <3>1, <3>2
    <2>2. s[1] \in S => Append(<<>>, s[1]) = <<s[1]>>
      OBVIOUS
    <2>3. K[1] = P
      BY <1>3, <2>1, <2>2
    <2> HIDE DEF P
    <2>4. P \o L[0] = P
      BY <1>2, <1>3, ConcatEmptySeq
    <2>5. 0 + 1 = 1 /\ 0 \in 0 .. n
      BY <1>1
    <2>6. K[0 + 1] = P \o L[0]
      BY <2>3, <2>4, <2>5
    <2> QED BY <2>5, <2>6
  <1>5. ASSUME NEW i \in 1 .. n, i - 1 \in G PROVE i \in G
    <2>1. /\ i \in 0 .. n /\ i - 1 \in 0 .. n /\ i + 1 \in 1 .. Len(s)
          /\ (i + 1) - 1 = i /\ (i - 1) + 1 = i
      BY <1>1
    <2>2. K[i + 1] = IF s[i + 1] \in S THEN Append(K[i], s[i + 1]) ELSE K[i]
      <3>1. K[i + 1] = IF s[i + 1] \in S THEN Append(K[(i + 1) - 1], s[i + 1])
                       ELSE K[(i + 1) - 1]
        BY <1>3, <2>1
      <3> QED BY <2>1, <3>1
    <2>3. K[i] = P \o L[i - 1]
      BY <1>5, <2>1
    <2>4. L[i] = IF s[i + 1] \in S THEN Append(L[i - 1], s[i + 1]) ELSE L[i - 1]
      BY <1>1, <1>3
    <2>5. L[i - 1] \in Seq(S)
      BY <1>3, <2>1
    <2> HIDE DEF P
    <2>6. CASE s[i + 1] \in S
      <3> DEFINE l == L[i - 1]
                 y == s[i + 1]
      <3>0. P \in Seq(S) /\ l \in Seq(S) /\ y \in S
        BY <1>2, <2>5, <2>6
      <3> HIDE DEF l, y, G
      <3>1. Append(P \o l, y) = P \o Append(l, y)
        <4>1. P \o l \in Seq(S) /\ <<y>> \in Seq(S)
          BY <3>0, ConcatProperties
        <4>2. Append(P \o l, y) = (P \o l) \o <<y>> /\ Append(l, y) = l \o <<y>>
          BY <3>0, <4>1, AppendIsConcat
        <4>3. (P \o l) \o <<y>> = P \o (l \o <<y>>)
          BY <3>0, <4>1, ConcatAssociative
        <4> QED BY <4>2, <4>3
      <3> USE DEF l, y, G
      <3>2. K[i + 1] = P \o L[i]
        BY <2>2, <2>3, <2>4, <2>6, <3>1
      <3> QED BY <2>1, <3>2
    <2>7. CASE s[i + 1] \notin S
      <3>1. K[i + 1] = P \o L[i]
        BY <2>2, <2>3, <2>4, <2>7
      <3> QED BY <2>1, <3>1
    <2> QED BY <2>6, <2>7
  <1>6. n \in G
    <2>1. \A i \in 0 .. n : i \in G
      <3> HIDE DEF G
      <3> QED BY <1>1, <1>4, <1>5, CountUp
    <2>2. n \in 0 .. n
      BY <1>1
    <2> HIDE DEF G
    <2> QED BY <2>1, <2>2
  <1>7. K[n + 1] = P \o L[n]
    BY <1>6
  <1>8. Only(s, S) = K[n + 1] /\ Only(t, S) = L[n] /\ L[n] \in Seq(S)
    <2>1. Only(s, S) = Kept(s, S)[Len(s)] /\ Only(t, S) = Kept(t, S)[Len(t)]
      BY OnlyDef
    <2>2. n \in 0 .. n
      BY <1>1
    <2> QED BY <1>1, <1>3, <2>1, <2>2 DEF K, L, n
  <1>9. <<>> \o L[n] = L[n]
    BY <1>8, ConcatEmptySeq
  <1> QED BY <1>1, <1>7, <1>8, <1>9 DEF t

\* A filter that keeps one element at most.
LEMMA OnlyFew ==
  ASSUME NEW U, NEW s \in Seq(U), NEW S
  PROVE  /\ (\A i \in DOMAIN s : s[i] \notin S) => Only(s, S) = <<>>
         /\ \A k \in DOMAIN s : s[k] \in S /\ (\A i \in DOMAIN s : s[i] \in S => i = k)
              => Only(s, S) = <<s[k]>>
  <1> DEFINE K == Kept(s, S)
             n == Len(s)
  <1>1. n \in Nat /\ DOMAIN s = 1 .. n /\ n \in 0 .. n
    BY LenProperties
  <1>2. /\ K[0] = <<>>
        /\ \A i \in 1 .. n : K[i] = IF s[i] \in S THEN Append(K[i - 1], s[i]) ELSE K[i - 1]
    BY KeptStep
  <1>3. Only(s, S) = K[n]
    BY OnlyDef
  <1> HIDE DEF K, n
  <1>4. ASSUME \A i \in DOMAIN s : s[i] \notin S PROVE K[n] = <<>>
    <2> DEFINE G == {i \in 0 .. n : K[i] = <<>>}
    <2>1. 0 \in G
      BY <1>1, <1>2
    <2>2. ASSUME NEW i \in 1 .. n, i - 1 \in G PROVE i \in G
      BY <1>1, <1>2, <1>4, <2>2
    <2>3. \A i \in 0 .. n : i \in G
      <3> HIDE DEF G
      <3> QED BY <1>1, <2>1, <2>2, CountUp
    <2> QED BY <1>1, <2>3
  <1>5. ASSUME NEW k \in DOMAIN s, s[k] \in S, \A i \in DOMAIN s : s[i] \in S => i = k
        PROVE  K[n] = <<s[k]>>
    <2> DEFINE G == {i \in 0 .. n : K[i] = IF i < k THEN <<>> ELSE <<s[k]>>}
    <2>0. k \in 1 .. n
      BY <1>1
    <2>1. 0 \in G
      BY <1>1, <1>2, <2>0
    <2>2. ASSUME NEW i \in 1 .. n, i - 1 \in G PROVE i \in G
      <3>1. i - 1 \in 0 .. n /\ i \in 0 .. n
        BY <1>1
      <3>2. K[i - 1] = IF i - 1 < k THEN <<>> ELSE <<s[k]>>
        BY <2>2
      <3>3. CASE i = k
        <4>1. K[i - 1] = <<>> /\ ~(i < k)
          BY <2>0, <3>2, <3>3
        <4>2. K[i] = Append(K[i - 1], s[i])
          BY <1>2, <1>5, <3>3
        <4>3. Append(<<>>, s[k]) = <<s[k]>>
          OBVIOUS
        <4>4. K[i] = <<s[k]>>
          BY <3>3, <4>1, <4>2, <4>3
        <4> QED BY <3>1, <4>1, <4>4
      <3>4. CASE i # k
        <4>1. K[i] = K[i - 1]
          BY <1>1, <1>2, <1>5, <3>4
        <4>2. i < k <=> i - 1 < k
          BY <2>0, <3>4
        <4> QED BY <3>1, <3>2, <4>1, <4>2
      <3> QED BY <3>3, <3>4
    <2>3. \A i \in 0 .. n : i \in G
      <3> HIDE DEF G
      <3> QED BY <1>1, <2>1, <2>2, CountUp
    <2>4. K[n] = IF n < k THEN <<>> ELSE <<s[k]>>
      BY <1>1, <2>3
    <2> QED BY <1>1, <2>0, <2>4
  <1> QED BY <1>3, <1>4, <1>5

-----------------------------------------------------------------------------
(* What the server sends.                                                  *)

\* No client is in the table twice.
Once(cs) == \A i, j \in DOMAIN cs : cs[i] = cs[j] => i = j

\* The sends o bring l to each of M, once, after everything else they bring to it.
Spreads(o, M, l) ==
  /\ o \in Seq(Clients \X Lines)
  /\ \A k \in DOMAIN o : o[k][1] \in M
  /\ \A d \in M : \E k \in DOMAIN o :
       /\ o[k] = <<d, l>>
       /\ \A j \in DOMAIN o : o[j][1] = d /\ j # k => j < k /\ o[j][2] \notin RoomLine

\* The lines of a broadcast and of a snapshot are lines.
LEMMA LineTypes ==
  ASSUME NEW c \in Clients, NEW t \in Texts \union {None}
  PROVE  /\ \A kind \in {"joined", "left", "text"} : Line(kind, c, t) \in RoomLine
         /\ \A kind \in {"reset", "user"} :
              Line(kind, c, t) \in Lines /\ Line(kind, c, t) \notin RoomLine
         /\ \A kind \in {"joined", "left", "text", "reset", "user"} :
              /\ Line(kind, c, t).kind = kind
              /\ Line(kind, c, t).pid = c /\ Line(kind, c, t).text = t
  BY DEF Line, Lines, RoomLine

\* broadcast reaches the table.
LEMMA BroadcastSpreads ==
  ASSUME NEW cs \in Seq(Clients), \A i, j \in DOMAIN cs : cs[i] = cs[j] => i = j,
         NEW l \in RoomLine
  PROVE  /\ Spreads(Broadcast(cs, l), {cs[i] : i \in DOMAIN cs}, l)
         /\ DOMAIN Broadcast(cs, l) = 1 .. Len(cs)
         /\ \A k \in DOMAIN Broadcast(cs, l) : Broadcast(cs, l)[k] = <<cs[k], l>>
  <1> DEFINE o == Broadcast(cs, l)
  <1>1. Len(cs) \in Nat /\ DOMAIN cs = 1 .. Len(cs) /\ \A i \in DOMAIN cs : cs[i] \in Clients
    BY SeqDomain
  <1>2. l \in Lines
    BY DEF RoomLine
  <1>3. DOMAIN o = 1 .. Len(cs) /\ \A k \in DOMAIN o : o[k] = <<cs[k], l>>
    BY DEF Broadcast
  <1>4. o \in Seq(Clients \X Lines)
    BY <1>1, <1>2 DEF Broadcast
  <1> HIDE DEF o
  <1>5. \A k \in DOMAIN o : o[k][1] = cs[k] /\ o[k][2] = l
    BY <1>3
  <1>6. ASSUME NEW d \in {cs[i] : i \in DOMAIN cs}
        PROVE  \E k \in DOMAIN o :
                 /\ o[k] = <<d, l>>
                 /\ \A j \in DOMAIN o : o[j][1] = d /\ j # k => j < k /\ o[j][2] \notin RoomLine
    <2>1. PICK k \in DOMAIN cs : cs[k] = d
      BY <1>6
    <2>2. \A j \in DOMAIN o : o[j][1] = d => j = k
      BY <1>1, <1>3, <1>5, <2>1
    <2> QED BY <1>1, <1>3, <2>1, <2>2
  <1>7. Spreads(o, {cs[i] : i \in DOMAIN cs}, l)
    BY <1>1, <1>3, <1>4, <1>5, <1>6 DEF Spreads
  <1> QED BY <1>3, <1>7 DEF o

\* o welcomes c to the table cs: the names after a reset, and then l to everybody.
Welcomes(o, cs, c, l) ==
  /\ Spreads(o, {cs[i] : i \in DOMAIN cs}, l)
  /\ \A k \in DOMAIN o :
       \/ o[k][2] = l
       \/ o[k] = <<c, Line("reset", c, None)>>
       \/ o[k][1] = c /\ \E i \in DOMAIN cs : o[k][2] = Line("user", cs[i], None)
  /\ \A i \in DOMAIN cs : \E k \in DOMAIN o :
       /\ o[k] = <<c, Line("user", cs[i], None)>>
       /\ \A j \in DOMAIN o : j > k => o[j][2].kind # "reset"

\* A client that is added gets the names after a reset, and the broadcast after these.
LEMMA WelcomeSpreads ==
  ASSUME NEW cs \in Seq(Clients), Once(cs), NEW c \in Clients,
         \E n \in DOMAIN cs : cs[n] = c, NEW l \in RoomLine,
         NEW o, o = Snapshot(c, cs) \o Broadcast(cs, l)
  PROVE  Welcomes(o, cs, c, l)
  <1> PICK n \in DOMAIN cs : cs[n] = c
    OBVIOUS
  <1> USE DEF Once
  <1> DEFINE m == Len(cs)
             b == Broadcast(cs, l)
             u == [i \in 1 .. m |-> <<c, Line("user", cs[i], None)>>]
             r == <<c, Line("reset", c, None)>>
             s == Snapshot(c, cs)
             S == Clients \X Lines
  <1>1. m \in Nat /\ DOMAIN cs = 1 .. m /\ \A i \in 1 .. m : cs[i] \in Clients
    BY SeqDomain
  <1>2. /\ b \in Seq(S) /\ Len(b) = m /\ \A k \in 1 .. m : b[k] = <<cs[k], l>>
    <2>1. b \in Seq(S) /\ DOMAIN b = 1 .. m /\ \A k \in 1 .. m : b[k] = <<cs[k], l>>
      BY BroadcastSpreads DEF Spreads
    <2> HIDE DEF b
    <2> QED BY <1>1, <2>1, SeqDomain
  <1>3. r \in S /\ r[1] = c /\ r[2].kind = "reset" /\ r[2] \notin RoomLine
    BY LineTypes
  <1>4. /\ u \in Seq(S) /\ Len(u) = m
        /\ \A i \in 1 .. m : u[i] = <<c, Line("user", cs[i], None)>>
    <2>1. \A i \in 1 .. m : Line("user", cs[i], None) \in Lines
      BY <1>1, LineTypes
    <2> QED BY <1>1, <2>1
  <1>5. s = <<r>> \o u
    BY DEF Snapshot
  <1> HIDE DEF b, u, r, s, m, S
  <1>6. /\ s \in Seq(S) /\ Len(s) = m + 1 /\ s[1] = r
        /\ \A i \in 1 .. m : s[i + 1] = u[i]
    <2>1. <<r>> \in Seq(S) /\ Len(<<r>>) = 1 /\ <<r>>[1] = r
      BY <1>3
    <2> DEFINE q == <<r>>
    <2> HIDE DEF q
    <2>2. /\ q \o u \in Seq(S) /\ Len(q \o u) = 1 + m
          /\ \A i \in 1 .. 1 + m : (q \o u)[i] = IF i <= 1 THEN q[i] ELSE u[i - 1]
      BY <1>4, <2>1, ConcatProperties DEF q
    <2>3. \A i \in 1 .. m : i + 1 \in 1 .. 1 + m /\ ~(i + 1 <= 1) /\ (i + 1) - 1 = i
      BY <1>1
    <2> QED BY <1>1, <1>5, <2>1, <2>2, <2>3 DEF q
  <1>7. /\ o \in Seq(S) /\ Len(o) = (m + 1) + m /\ DOMAIN o = 1 .. (m + 1) + m
        /\ \A k \in DOMAIN o : o[k] = IF k <= m + 1 THEN s[k] ELSE b[k - (m + 1)]
    <2>1. o = s \o b
      BY DEF s, b
    <2>2. /\ o \in Seq(S) /\ Len(o) = (m + 1) + m
          /\ \A k \in 1 .. (m + 1) + m : o[k] = IF k <= m + 1 THEN s[k] ELSE b[k - (m + 1)]
      <3>1. /\ s \o b \in Seq(S) /\ Len(s \o b) = Len(s) + Len(b)
            /\ \A k \in 1 .. Len(s) + Len(b) :
                 (s \o b)[k] = IF k <= Len(s) THEN s[k] ELSE b[k - Len(s)]
        <4>1. s \in Seq(S) /\ b \in Seq(S)
          BY <1>2, <1>6, Zenon
        <4> QED BY <4>1, ConcatProperties, Zenon
      <3>2. /\ o \in Seq(S) /\ Len(o) = Len(s) + Len(b)
            /\ \A k \in 1 .. Len(s) + Len(b) :
                 o[k] = IF k <= Len(s) THEN s[k] ELSE b[k - Len(s)]
        BY <2>1, <3>1, Zenon
      <3> QED BY <1>2, <1>6, <3>2
    <2> QED BY <2>2, LenProperties
  <1>8. /\ 1 \in DOMAIN o /\ o[1] = r
        /\ \A i \in 1 .. m : /\ i + 1 \in DOMAIN o /\ o[i + 1] = u[i]
                             /\ i + (m + 1) \in DOMAIN o /\ o[i + (m + 1)] = b[i]
    <2>1. 1 \in DOMAIN o /\ 1 <= m + 1
      BY <1>1, <1>7
    <2>2. \A i \in 1 .. m : /\ i + 1 \in DOMAIN o /\ i + 1 <= m + 1
                            /\ i + (m + 1) \in DOMAIN o /\ ~(i + (m + 1) <= m + 1)
                            /\ (i + (m + 1)) - (m + 1) = i
      BY <1>1, <1>7
    <2>3. o[1] = r
      BY <1>6, <1>7, <2>1
    <2>4. ASSUME NEW i \in 1 .. m PROVE o[i + 1] = u[i] /\ o[i + (m + 1)] = b[i]
      <3>1. o[i + 1] = s[i + 1] /\ o[i + (m + 1)] = b[(i + (m + 1)) - (m + 1)]
        BY <1>7, <2>2
      <3> QED BY <1>6, <2>2, <3>1
    <2> QED BY <2>1, <2>2, <2>3, <2>4
  <1>9. \A k \in DOMAIN o : k = 1 \/ (\E i \in 1 .. m : k = i + 1)
                            \/ \E i \in 1 .. m : k = i + (m + 1)
    <2> TAKE k \in DOMAIN o
    <2>1. k \in 1 .. (m + 1) + m
      BY <1>7
    <2>2. CASE k <= m + 1
      <3>1. k = 1 \/ (k - 1 \in 1 .. m /\ k = (k - 1) + 1)
        BY <1>1, <2>1, <2>2
      <3> QED BY <3>1
    <2>3. CASE ~(k <= m + 1)
      <3>1. k - (m + 1) \in 1 .. m /\ k = (k - (m + 1)) + (m + 1)
        BY <1>1, <2>1, <2>3
      <3> QED BY <3>1
    <2> QED BY <2>2, <2>3
  <1>10. \A i \in 1 .. m : /\ u[i][1] = c /\ u[i][2] = Line("user", cs[i], None)
                           /\ u[i][2] \notin RoomLine /\ u[i][2].kind = "user"
                           /\ b[i][1] = cs[i] /\ b[i][2] = l
    BY <1>1, <1>2, <1>4, LineTypes
  <1>11. l.kind # "reset" /\ l \in RoomLine
    BY DEF RoomLine
  <1>12. ASSUME NEW d \in {cs[i] : i \in DOMAIN cs}
         PROVE  \E k \in DOMAIN o :
                  /\ o[k] = <<d, l>>
                  /\ \A j \in DOMAIN o : o[j][1] = d /\ j # k => j < k /\ o[j][2] \notin RoomLine
    <2>1. PICK i \in 1 .. m : cs[i] = d
      BY <1>1, <1>12
    <2>2. i + (m + 1) \in DOMAIN o /\ o[i + (m + 1)] = <<d, l>>
      BY <1>2, <1>8, <2>1
    <2>3. ASSUME NEW j \in DOMAIN o, o[j][1] = d, j # i + (m + 1)
          PROVE  j < i + (m + 1) /\ o[j][2] \notin RoomLine
      <3>1. CASE j = 1
        BY <1>1, <1>3, <1>8, <3>1
      <3>2. ASSUME NEW e \in 1 .. m, j = e + 1 PROVE j < i + (m + 1) /\ o[j][2] \notin RoomLine
        <4>1. e + 1 < i + (m + 1)
          BY <1>1
        <4>2. o[j] = u[e] /\ u[e][2] \notin RoomLine
          BY <1>8, <1>10, <3>2
        <4> QED BY <3>2, <4>1, <4>2
      <3>3. ASSUME NEW e \in 1 .. m, j = e + (m + 1) PROVE FALSE
        <4>1. cs[e] = d
          BY <1>8, <1>10, <2>3, <3>3
        <4>2. e = i
          BY <1>1, <2>1, <4>1
        <4> QED BY <2>3, <3>3, <4>2
      <3> QED BY <1>9, <3>1, <3>2, <3>3
    <2> QED BY <2>2, <2>3
  <1>13. \A k \in DOMAIN o : o[k][1] \in {cs[i] : i \in DOMAIN cs}
    <2>1. c \in {cs[i] : i \in DOMAIN cs} /\ \A i \in 1 .. m : cs[i] \in {cs[j] : j \in DOMAIN cs}
      BY <1>1
    <2> TAKE k \in DOMAIN o
    <2>2. CASE k = 1
      BY <1>3, <1>8, <2>1, <2>2
    <2>3. ASSUME NEW e \in 1 .. m, k = e + 1 PROVE o[k][1] \in {cs[i] : i \in DOMAIN cs}
      <3>1. o[k][1] = c
        BY <1>8, <1>10, <2>3
      <3> QED BY <2>1, <3>1
    <2>4. ASSUME NEW e \in 1 .. m, k = e + (m + 1)
          PROVE  o[k][1] \in {cs[i] : i \in DOMAIN cs}
      <3>1. o[k][1] = cs[e]
        BY <1>8, <1>10, <2>4
      <3> QED BY <2>1, <3>1
    <2> QED BY <1>9, <2>2, <2>3, <2>4
  <1>14. Spreads(o, {cs[i] : i \in DOMAIN cs}, l)
    BY <1>7, <1>12, <1>13 DEF Spreads, S
  <1>15. \A k \in DOMAIN o :
           \/ o[k][2] = l
           \/ o[k] = <<c, Line("reset", c, None)>>
           \/ o[k][1] = c /\ \E i \in DOMAIN cs : o[k][2] = Line("user", cs[i], None)
    <2> TAKE k \in DOMAIN o
    <2>1. CASE k = 1
      BY <1>8, <2>1 DEF r
    <2>2. ASSUME NEW e \in 1 .. m, k = e + 1
          PROVE  o[k][1] = c /\ \E i \in DOMAIN cs : o[k][2] = Line("user", cs[i], None)
      <3>1. o[k] = u[e] /\ u[e][1] = c /\ u[e][2] = Line("user", cs[e], None) /\ e \in DOMAIN cs
        BY <1>1, <1>8, <1>10, <2>2
      <3> QED BY <3>1
    <2>3. ASSUME NEW e \in 1 .. m, k = e + (m + 1) PROVE o[k][2] = l
      BY <1>8, <1>10, <2>3
    <2> QED BY <1>9, <2>1, <2>2, <2>3
  <1>16. ASSUME NEW i \in DOMAIN cs
         PROVE  \E k \in DOMAIN o :
                  /\ o[k] = <<c, Line("user", cs[i], None)>>
                  /\ \A j \in DOMAIN o : j > k => o[j][2].kind # "reset"
    <2>1. i \in 1 .. m /\ i + 1 \in DOMAIN o /\ o[i + 1] = <<c, Line("user", cs[i], None)>>
      BY <1>1, <1>4, <1>8
    <2>2. ASSUME NEW j \in DOMAIN o, j > i + 1 PROVE o[j][2].kind # "reset"
      <3>1. j # 1
        BY <2>1, <2>2
      <3>2. ASSUME NEW e \in 1 .. m, j = e + 1 PROVE o[j][2].kind # "reset"
        BY <1>8, <1>10, <3>2
      <3>3. ASSUME NEW e \in 1 .. m, j = e + (m + 1) PROVE o[j][2].kind # "reset"
        BY <1>8, <1>10, <1>11, <3>3
      <3> QED BY <1>9, <3>1, <3>2, <3>3
    <2> QED BY <2>1, <2>2
  <1> QED BY <1>14, <1>15, <1>16 DEF Welcomes

-----------------------------------------------------------------------------
(* What taking a command does.                                             *)

\* The server broadcasts l to what the table is now.
Tells(l) ==
  /\ l \in RoomLine /\ l.pid = Head(serverQueue).pid
  /\ log' = Append(log, l)
  /\ clients' \in Seq(Clients) /\ Len(clients') <= MaxClients /\ Once(clients')
  /\ Spreads(out', Members', l)

\* A client is added; it gets the table before the line.
Adds(l) ==
  /\ Head(serverQueue).command = "JOIN"
  /\ l = Line("joined", l.pid, None)
  /\ l.pid \notin Members /\ Members' = Members \union {l.pid}
  /\ \A k \in DOMAIN out' :
       \/ out'[k][2] = l
       \/ out'[k] = <<l.pid, Line("reset", l.pid, None)>>
       \/ out'[k][1] = l.pid /\ \E d \in Members' : out'[k][2] = Line("user", d, None)
  /\ \A d \in Members' : \E k \in DOMAIN out' :
       /\ out'[k] = <<l.pid, Line("user", d, None)>>
       /\ \A j \in DOMAIN out' : j > k => out'[j][2].kind # "reset"

\* Nothing but the line is sent.
Repeats(l) ==
  /\ \A k \in DOMAIN out' : out'[k][2] = l
  /\ \/ Members' = Members /\ l.kind \in {"joined", "text"}
     \/ Members' = Members \ {l.pid} /\ l.kind = "left"

\* cs is the table us without c.
Shrinks(us, cs, c) ==
  /\ cs \in Seq(Clients) /\ Len(us) \in Nat /\ Len(cs) = Len(us) - 1 /\ Once(cs)
  /\ {cs[j] : j \in DOMAIN cs} = {us[j] : j \in DOMAIN us} \ {c}

\* cs is the table us with c at its end.
Grows(us, cs, c) ==
  /\ cs \in Seq(Clients) /\ Len(us) \in Nat /\ Len(cs) = Len(us) + 1 /\ Once(cs)
  /\ Len(cs) \in DOMAIN cs /\ cs[Len(cs)] = c
  /\ {cs[j] : j \in DOMAIN cs} = {us[j] : j \in DOMAIN us} \union {c}

\* What is left of the table without its i-th entry.
LEMMA RemoveResult ==
  ASSUME NEW us \in Seq(Clients), Once(us), NEW i \in DOMAIN us,
         NEW cs, cs = SubSeq(us, 1, i - 1) \o SubSeq(us, i + 1, Len(us))
  PROVE  Shrinks(us, cs, us[i])
  <1> DEFINE A == SubSeq(us, 1, i - 1)
             B == SubSeq(us, i + 1, Len(us))
             n == Len(us)
  <1>1. n \in Nat /\ DOMAIN us = 1 .. n /\ i \in 1 .. n /\ \A j \in 1 .. n : us[j] \in Clients
    BY SeqDomain
  <1>2. A \in Seq(Clients) /\ Len(A) = i - 1 /\ \A j \in 1 .. i - 1 : A[j] = us[j]
    <2>1. \A j \in 1 .. i - 1 : us[j] \in Clients
      BY <1>1
    <2> HIDE DEF n
    <2> QED BY <1>1, <2>1, SubSeqProperties
  <1>3. B \in Seq(Clients) /\ Len(B) = n - i /\ \A j \in 1 .. n - i : B[j] = us[i + j]
    <2>1. \A j \in i + 1 .. n : us[j] \in Clients
      BY <1>1
    <2>2. /\ B \in Seq(Clients) /\ Len(B) = IF i + 1 <= n THEN n - (i + 1) + 1 ELSE 0
          /\ \A j \in 1 .. n - (i + 1) + 1 : B[j] = us[(i + 1) + j - 1]
      BY <1>1, <2>1, SubSeqProperties
    <2> HIDE DEF B, n
    <2>3. i \in Nat /\ i >= 1 /\ i <= n
      BY <1>1
    <2>4. Len(B) = n - i
      BY <1>1, <2>2, <2>3
    <2>5. n - (i + 1) + 1 = n - i /\ \A j \in 1 .. n - i : (i + 1) + j - 1 = i + j
      BY <1>1, <2>3
    <2>6. ASSUME NEW j \in 1 .. n - i PROVE B[j] = us[i + j]
      BY <2>2, <2>5
    <2> QED BY <2>2, <2>4, <2>6
  <1>11. i \in Nat /\ i >= 1 /\ i <= n
    BY <1>1
  <1> HIDE DEF A, B, n
  <1>4. /\ cs \in Seq(Clients) /\ Len(cs) = n - 1 /\ DOMAIN cs = 1 .. n - 1
        /\ \A j \in 1 .. n - 1 : cs[j] = IF j < i THEN us[j] ELSE us[j + 1]
    <2>1. /\ A \o B \in Seq(Clients) /\ Len(A \o B) = Len(A) + Len(B)
          /\ \A j \in 1 .. Len(A) + Len(B) :
               (A \o B)[j] = IF j <= Len(A) THEN A[j] ELSE B[j - Len(A)]
      BY <1>2, <1>3, ConcatProperties
    <2>2. cs = A \o B
      BY DEF A, B, n
    <2>3. /\ cs \in Seq(Clients) /\ Len(cs) = Len(A) + Len(B)
          /\ \A j \in 1 .. Len(A) + Len(B) :
               cs[j] = IF j <= Len(A) THEN A[j] ELSE B[j - Len(A)]
      BY <2>1, <2>2, Zenon
    <2>4. Len(A) + Len(B) = n - 1
      BY <1>1, <1>2, <1>3
    <2>5. ASSUME NEW j \in 1 .. n - 1 PROVE cs[j] = IF j < i THEN us[j] ELSE us[j + 1]
      <3>1. cs[j] = IF j <= i - 1 THEN A[j] ELSE B[j - (i - 1)]
        BY <1>2, <2>3, <2>4
      <3>2. CASE j < i
        <4>1. j <= i - 1 /\ j \in 1 .. i - 1
          BY <1>1, <1>11, <3>2
        <4> QED BY <1>2, <3>1, <3>2, <4>1
      <3>3. CASE ~(j < i)
        <4>1. ~(j <= i - 1) /\ j - (i - 1) \in 1 .. n - i /\ i + (j - (i - 1)) = j + 1
          <5> j \in Nat /\ j >= 1 /\ j <= n - 1 /\ j >= i
            BY <1>1, <1>11, <3>3
          <5>1. j - (i - 1) \in Nat /\ j - (i - 1) >= 1 /\ j - (i - 1) <= n - i
            BY <1>1, <1>11
          <5> QED BY <1>1, <1>11, <5>1
        <4>2. cs[j] = B[j - (i - 1)]
          BY <3>1, <4>1
        <4>3. B[j - (i - 1)] = us[i + (j - (i - 1))]
          BY <1>3, <4>1
        <4> QED BY <3>3, <4>1, <4>2, <4>3
      <3> QED BY <3>2, <3>3
    <2>6. DOMAIN cs = 1 .. n - 1
      BY <2>3, <2>4, LenProperties
    <2> QED BY <2>3, <2>4, <2>5, <2>6
  <1> DEFINE f(j) == IF j < i THEN j ELSE j + 1
  <1>5. \A j \in 1 .. n - 1 : f(j) \in 1 .. n /\ f(j) # i /\ cs[j] = us[f(j)]
    <2> TAKE j \in 1 .. n - 1
    <2>1. f(j) \in 1 .. n /\ f(j) # i
      BY <1>1, <1>11
    <2>2. cs[j] = us[f(j)]
      BY <1>4
    <2> QED BY <2>1, <2>2
  <1>6. \A j, k \in 1 .. n - 1 : f(j) = f(k) => j = k
    BY <1>1, <1>11
  <1>7. \A k \in 1 .. n : k # i => \E j \in 1 .. n - 1 : f(j) = k
    <2> TAKE k \in 1 .. n
    <2>1. k < i => k \in 1 .. n - 1 /\ f(k) = k
      BY <1>1, <1>11
    <2>2. k > i => k - 1 \in 1 .. n - 1 /\ f(k - 1) = k
      BY <1>1, <1>11
    <2>3. k < i \/ k > i \/ k = i
      BY <1>1, <1>11
    <2> HIDE DEF f
    <2> QED BY <2>1, <2>2, <2>3
  <1> HIDE DEF f
  <1>8. \A j, k \in 1 .. n : us[j] = us[k] => j = k
    BY <1>1 DEF Once
  <1>9. Once(cs)
    <2> SUFFICES ASSUME NEW j \in 1 .. n - 1, NEW k \in 1 .. n - 1, cs[j] = cs[k]
                 PROVE  j = k
      BY <1>4 DEF Once
    <2>1. us[f(j)] = us[f(k)]
      BY <1>5
    <2>2. f(j) = f(k)
      BY <1>5, <1>8, <2>1
    <2> QED BY <1>6, <2>2
  <1>10. \A j \in 1 .. n - 1 : us[f(j)] # us[i]
    BY <1>1, <1>5, <1>8
  <1>12. {cs[j] : j \in 1 .. n - 1} = {us[j] : j \in 1 .. n} \ {us[i]}
    <2> DEFINE L == {cs[j] : j \in 1 .. n - 1}
               R == {us[j] : j \in 1 .. n} \ {us[i]}
    <2>1. ASSUME NEW j \in 1 .. n - 1 PROVE cs[j] \in R
      BY <1>5, <1>10
    <2>2. ASSUME NEW k \in 1 .. n, us[k] # us[i] PROVE us[k] \in L
      <3>1. PICK j \in 1 .. n - 1 : f(j) = k
        BY <1>7, <2>2
      <3> QED BY <1>5, <3>1
    <2>3. L \subseteq R
      BY <2>1
    <2>4. R \subseteq L
      BY <2>2
    <2> QED BY <2>3, <2>4
  <1> QED BY <1>1, <1>4, <1>9, <1>12 DEF n, Shrinks

\* What one more entry makes of the table.
LEMMA AddResult ==
  ASSUME NEW us \in Seq(Clients), Once(us), NEW c \in Clients,
         c \notin {us[j] : j \in DOMAIN us}, NEW cs, cs = Append(us, c)
  PROVE  Grows(us, cs, c)
  <1>1. /\ cs \in Seq(Clients) /\ Len(us) \in Nat /\ Len(cs) = Len(us) + 1
        /\ DOMAIN cs = DOMAIN us \union {Len(us) + 1}
        /\ cs[Len(us) + 1] = c /\ \A k \in DOMAIN us : cs[k] = us[k]
    BY SeqAppend
  <1>2. Once(cs)
    BY <1>1 DEF Once
  <1>3. {cs[j] : j \in DOMAIN cs} = {us[j] : j \in DOMAIN us} \union {c}
    BY <1>1
  <1> QED BY <1>1, <1>2, <1>3 DEF Grows

\* The log with one line more.
LEMMA LogAppend ==
  ASSUME TypeOK, NEW l \in RoomLine
  PROVE  log \o <<l>> = Append(log, l)
  BY AppendIsConcat DEF TypeOK

\* A command is taken.
LEMMA ReceiveResult ==
  ASSUME TypeOK, JoinInv, Receive
  PROVE  /\ serverQueue # <<>> /\ serverQueue' = Tail(serverQueue)
         /\ UNCHANGED <<queue, named, clientVars>>
         /\ srvPc = "receive" /\ srvPc' = IF out' = <<>> THEN "receive" ELSE "send"
         /\ \/ log' = log /\ clients' = clients /\ out' = <<>>
            \/ \E l \in RoomLine : Tells(l) /\ (Adds(l) \/ Repeats(l))
  <1> DEFINE r == Head(serverQueue)
  <1>1. /\ serverQueue # <<>> /\ serverQueue' = Tail(serverQueue)
        /\ UNCHANGED <<queue, named, clientVars>>
        /\ srvPc = "receive" /\ srvPc' = IF out' = <<>> THEN "receive" ELSE "send"
    <2> USE DEF TakeCommand
    <2>1. srvPc = "receive" /\ serverQueue # <<>>
      BY DEF Receive
    <2>2. CASE HandleJoin(r)
      BY <2>1, <2>2 DEF HandleJoin
    <2>3. CASE HandleJoinFails(r)
      BY <2>1, <2>3 DEF HandleJoinFails
    <2>4. CASE HandleLeave(r)
      BY <2>1, <2>4 DEF HandleLeave
    <2>5. CASE HandleLeaveUnknown(r)
      BY <2>1, <2>5 DEF HandleLeaveUnknown
    <2>6. CASE HandleText(r)
      BY <2>1, <2>6 DEF HandleText
    <2> QED BY <2>2, <2>3, <2>4, <2>5, <2>6 DEF Receive
  <1>2. /\ r \in Requests /\ r = serverQueue[1] /\ 1 \in DOMAIN serverQueue
    BY <1>1, SeqTail DEF TypeOK
  <1>3. r.pid \in Clients /\ r.text \in Texts \union {None} /\ None \in Texts \union {None}
    BY <1>2 DEF Requests
  <1>4. clients \in Seq(Clients) /\ Once(clients) /\ Len(clients) <= MaxClients
    BY DEF TypeOK, JoinInv, Once
  <1>5. HandleJoin(r) \/ HandleJoinFails(r) \/ HandleLeave(r) \/ HandleLeaveUnknown(r)
        \/ HandleText(r)
    BY DEF Receive
  <1> HIDE DEF r
  <1>6. ASSUME NEW l \in RoomLine, l.pid = r.pid, log' = log \o <<l>>,
               clients' \in Seq(Clients), Once(clients'), Len(clients') <= MaxClients,
               out' = Broadcast(clients', l),
               \/ Members' = Members /\ l.kind \in {"joined", "text"}
               \/ Members' = Members \ {l.pid} /\ l.kind = "left"
        PROVE  Tells(l) /\ Repeats(l)
    <2>1. /\ Spreads(out', Members', l)
          /\ \A k \in DOMAIN out' : out'[k] = <<clients'[k], l>>
      <3>1. /\ Spreads(Broadcast(clients', l), {clients'[i] : i \in DOMAIN clients'}, l)
            /\ \A k \in DOMAIN Broadcast(clients', l) : Broadcast(clients', l)[k] = <<clients'[k], l>>
        BY <1>6, BroadcastSpreads DEF Once
      <3>2. Members' = {clients'[i] : i \in DOMAIN clients'}
        BY DEF Members
      <3> QED BY <1>6, <3>1, <3>2
    <2>2. Tells(l)
      BY <1>6, <2>1, LogAppend DEF Tells, r
    <2>3. Repeats(l)
      BY <1>6, <2>1 DEF Repeats
    <2> QED BY <2>2, <2>3
  <1>7. CASE HandleJoin(r)
    <2> DEFINE l == Line("joined", r.pid, None)
    <2>1. l \in RoomLine /\ l.pid = r.pid /\ l.kind = "joined"
      BY <1>3, LineTypes
    <2>2. r.command = "JOIN" /\ r.pid \notin Members
      BY <1>2, <1>7 DEF HandleJoin, JoinInv
    <2>3. CASE CanAdd(r.pid)
      <3>1. clients' = Append(clients, r.pid) /\ log' = log \o <<l>>
        BY <1>7, <2>3 DEF HandleJoin, TakeCommand
      <3>2. /\ clients' \in Seq(Clients) /\ Len(clients) \in Nat
            /\ Len(clients') = Len(clients) + 1 /\ Once(clients')
            /\ Len(clients') \in DOMAIN clients' /\ clients'[Len(clients')] = r.pid
            /\ Members' = Members \union {r.pid}
        <4>1. r.pid \notin {clients[j] : j \in DOMAIN clients}
          BY <2>2 DEF Members
        <4>2. Grows(clients, clients', r.pid)
          BY <1>3, <1>4, <3>1, <4>1, AddResult
        <4> QED BY <4>2 DEF Members, Grows
      <3>3. out' = Snapshot(r.pid, clients') \o Broadcast(clients', l)
        <4>1. \E i \in DOMAIN clients' : clients'[i] = r.pid
          BY <3>2
        <4> QED BY <1>7, <2>3, <3>1, <4>1 DEF HandleJoin, TakeCommand
      <3>4. Len(clients') <= MaxClients
        BY <2>3, <3>2, MqAssumption DEF CanAdd
      <3>5. Members' = {clients'[i] : i \in DOMAIN clients'}
        BY DEF Members
      <3> HIDE DEF l
      <3>6. /\ Spreads(out', {clients'[i] : i \in DOMAIN clients'}, l)
            /\ \A k \in DOMAIN out' :
                 \/ out'[k][2] = l
                 \/ out'[k] = <<r.pid, Line("reset", r.pid, None)>>
                 \/ out'[k][1] = r.pid
                    /\ \E i \in DOMAIN clients' : out'[k][2] = Line("user", clients'[i], None)
            /\ \A i \in DOMAIN clients' : \E k \in DOMAIN out' :
                 /\ out'[k] = <<r.pid, Line("user", clients'[i], None)>>
                 /\ \A j \in DOMAIN out' : j > k => out'[j][2].kind # "reset"
        <4> DEFINE cs == clients'
        <4>1. \E n \in DOMAIN cs : cs[n] = r.pid
          BY <3>2
        <4> HIDE DEF cs
        <4>2. Welcomes(out', cs, r.pid, l)
          BY <1>3, <2>1, <3>2, <3>3, <4>1, WelcomeSpreads DEF cs
        <4> QED BY <4>2 DEF Welcomes, cs
      <3>7. Tells(l)
        BY <2>1, <3>1, <3>2, <3>4, <3>5, <3>6, LogAppend DEF Tells, r
      <3>8. \A k \in DOMAIN out' :
              \/ out'[k][2] = l
              \/ out'[k] = <<l.pid, Line("reset", l.pid, None)>>
              \/ out'[k][1] = l.pid /\ \E d \in Members' : out'[k][2] = Line("user", d, None)
        BY <2>1, <3>5, <3>6
      <3>9. \A d \in Members' : \E k \in DOMAIN out' :
              /\ out'[k] = <<l.pid, Line("user", d, None)>>
              /\ \A j \in DOMAIN out' : j > k => out'[j][2].kind # "reset"
        BY <2>1, <3>5, <3>6
      <3>10. Head(serverQueue).command = "JOIN" /\ l = Line("joined", l.pid, None)
        BY <2>1, <2>2 DEF l, r
      <3>11. Adds(l)
        BY <2>1, <2>2, <3>2, <3>8, <3>9, <3>10 DEF Adds
      <3> QED BY <1>1, <2>1, <3>7, <3>11
    <2>4. CASE ~CanAdd(r.pid)
      <3>1. clients' = clients /\ log' = log \o <<l>>
        BY <1>7, <2>4 DEF HandleJoin, TakeCommand
      <3>2. ~\E i \in DOMAIN clients : clients[i] = r.pid
        BY <2>2 DEF Members
      <3>3. out' = <<>> \o Broadcast(clients, l)
        BY <1>7, <2>4, <3>2 DEF HandleJoin, TakeCommand
      <3> HIDE DEF l
      <3>4. Broadcast(clients, l) \in Seq(Clients \X Lines)
        BY <1>4, <2>1, BroadcastSpreads DEF Spreads, Once
      <3>5. out' = Broadcast(clients', l)
        BY <3>1, <3>3, <3>4, ConcatEmptySeq
      <3>6. Members' = Members
        BY <3>1 DEF Members
      <3>7. Tells(l) /\ Repeats(l)
        BY <1>4, <1>6, <2>1, <3>1, <3>5, <3>6
      <3> QED BY <1>1, <2>1, <3>7
    <2> QED BY <2>3, <2>4
  <1>8. CASE HandleJoinFails(r) \/ HandleLeaveUnknown(r)
    <2>1. clients' = clients /\ out' = <<>> /\ log' = log \o <<>>
      BY <1>8 DEF HandleJoinFails, HandleLeaveUnknown, TakeCommand
    <2>2. log \o <<>> = log
      BY ConcatEmptySeq DEF TypeOK
    <2> QED BY <1>1, <2>1, <2>2
  <1>9. CASE HandleLeave(r)
    <2> DEFINE l == Line("left", r.pid, None)
    <2>1. l \in RoomLine /\ l.pid = r.pid /\ l.kind = "left"
      BY <1>3, LineTypes
    <2>2. PICK i \in DOMAIN clients :
            /\ clients[i] = r.pid
            /\ clients' = SubSeq(clients, 1, i - 1) \o SubSeq(clients, i + 1, Len(clients))
            /\ out' = Broadcast(clients', l) /\ log' = log \o <<l>>
      BY <1>9 DEF HandleLeave, TakeCommand
    <2> HIDE DEF l
    <2>3. /\ clients' \in Seq(Clients) /\ Len(clients') = Len(clients) - 1 /\ Once(clients')
          /\ Members' = Members \ {r.pid}
      <3>1. Shrinks(clients, clients', clients[i])
        BY <1>4, <2>2, RemoveResult
      <3> QED BY <2>2, <3>1 DEF Members, Shrinks
    <2>4. Len(clients') <= MaxClients
      BY <1>4, <2>3, LenProperties, MqAssumption
    <2>5. Tells(l) /\ Repeats(l)
      BY <1>6, <2>1, <2>2, <2>3, <2>4
    <2> QED BY <1>1, <2>1, <2>5
  <1>10. CASE HandleText(r)
    <2> DEFINE l == Line("text", r.pid, r.text)
    <2>1. l \in RoomLine /\ l.pid = r.pid /\ l.kind = "text"
      BY <1>3, LineTypes
    <2>2. clients' = clients /\ out' = Broadcast(clients', l) /\ log' = log \o <<l>>
      BY <1>10 DEF HandleText, TakeCommand
    <2> HIDE DEF l
    <2>3. Members' = Members
      BY <2>2 DEF Members
    <2>4. Tells(l) /\ Repeats(l)
      BY <1>4, <1>6, <2>1, <2>2, <2>3
    <2> QED BY <1>1, <2>1, <2>4
  <1> QED BY <1>5, <1>7, <1>8, <1>9, <1>10

-----------------------------------------------------------------------------
(* Types.                                                                  *)

Shown == Lines \union {Line(Note, c, None) : c \in Clients}

\* A line is shown; the oldest may scroll off.
LEMMA PushType ==
  ASSUME NEW S, NEW ms \in Seq(S), NEW x \in S
  PROVE  Push(ms, x) \in Seq(S) /\ (Len(ms) >= MaxMessages => ms # <<>>)
  <1>1. Len(ms) >= MaxMessages => ms # <<>> /\ Tail(ms) \in Seq(S)
    BY MqAssumption, SeqDomain, SeqTail
  <1>2. Append(ms, x) \in Seq(S)
    BY SeqAppend
  <1>3. Len(ms) \in Nat
    BY SeqDomain
  <1>4. CASE Len(ms) < MaxMessages
    BY <1>2, <1>3, <1>4, MqAssumption DEF Push
  <1>5. CASE ~(Len(ms) < MaxMessages)
    <2>1. Tail(ms) \in Seq(S) /\ ms # <<>>
      BY <1>1, <1>3, <1>5, MqAssumption
    <2>2. Append(Tail(ms), x) \in Seq(S)
      BY <2>1, SeqAppend
    <2> QED BY <1>5, <2>1, <2>2 DEF Push
  <1> QED BY <1>4, <1>5

\* A line adds one name at most, and takes off another one at most.
LEMMA EntersLeaves ==
  ASSUME NEW l \in Lines
  PROVE  /\ \/ Enters(l) = {}
            \/ Enters(l) = {Ghost(l.pid)} /\ l.text \in JoinLike
            \/ Enters(l) = {NameOf[l.pid]} /\ Leaves(l) = {}
         /\ l.kind = "reset" => Enters(l) = {} \/ l.text \in JoinLike
         /\ \A d \in Clients : NameOf[d] \in Leaves(l) =>
              l.kind = "left" /\ NameOf[d] = NameOf[l.pid]
         /\ \A x \in Enters(l) : x \notin Leaves(l)
         /\ \A d : Announces(l, d) => Enters(l) = {NameOf[d]}
  <1>1. l.pid \in Clients /\ \A d \in Clients : NameOf[d] # Ghost(l.pid)
    BY MqAssumption DEF Lines, Ghost
  <1>2. \/ Enters(l) = {}
        \/ Enters(l) = {Ghost(l.pid)} /\ l.text \in JoinLike
        \/ Enters(l) = {NameOf[l.pid]} /\ Leaves(l) = {}
    BY DEF Enters, Leaves
  <1>3. l.kind = "reset" => Enters(l) = {} \/ l.text \in JoinLike
    BY DEF Enters
  <1>4. \A d \in Clients : NameOf[d] \in Leaves(l) =>
          l.kind = "left" /\ NameOf[d] = NameOf[l.pid]
    BY <1>1 DEF Leaves
  <1>5. Ghost(l.pid) \in Leaves(l) => l.text \notin JoinLike
    BY <1>1, MqAssumption DEF Leaves
  <1>6. ASSUME NEW d, Announces(l, d) PROVE Enters(l) = {NameOf[d]}
    BY <1>6, MqAssumption DEF Announces, Enters
  <1> QED BY <1>2, <1>3, <1>4, <1>5, <1>6

\* The list of users stays finite.
LEMMA UsersFinite ==
  ASSUME NEW us, IsFiniteSet(us), NEW l \in Lines
  PROVE  IsFiniteSet(UsersAfter(us, l))
  <1>1. IsFiniteSet({})
    BY FS_EmptySet
  <1>2. IsFiniteSet(Enters(l))
    <2>1. Enters(l) = {} \/ \E x : Enters(l) = {x}
      BY EntersLeaves
    <2>2. ASSUME NEW x, Enters(l) = {x} PROVE IsFiniteSet(Enters(l))
      BY <2>2, FS_Singleton
    <2> QED BY <1>1, <2>1, <2>2
  <1>3. IsFiniteSet(us \union Enters(l))
    BY <1>2, FS_Union
  <1>4. IsFiniteSet(AddUser(us, Enters(l)))
    BY <1>3 DEF AddUser
  <1>5. IsFiniteSet(AddUser(us, Enters(l)) \ Leaves(l))
    BY <1>4, FS_Subset
  <1> QED BY <1>1, <1>5 DEF UsersAfter

\* The initial state is typed.
LEMMA TypeInit == Init => TypeOK
  <1> SUFFICES ASSUME Init PROVE TypeOK
    OBVIOUS
  <1>1. \A c \in Clients : Request("JOIN", c, None) \in Requests
    BY DEF Request, Requests
  <1>2. IsFiniteSet({})
    BY FS_EmptySet
  <1>3. request \in [Clients -> Requests]
    BY <1>1 DEF Init
  <1>4. /\ queue \in [Clients -> Seq(Lines)]
        /\ messages \in [Clients -> Seq(Lines \union {Line(Note, c, None) : c \in Clients})]
    <2>1. \A S : <<>> \in Seq(S)
      OBVIOUS
    <2> QED BY <2>1, Zenon DEF Init
  <1>5. DOMAIN users = Clients /\ \A c \in Clients : IsFiniteSet(users[c])
    BY <1>2 DEF Init
  <1>6. log \in Seq(RoomLine) /\ out \in Seq(Clients \X Lines) /\ clients \in Seq(Clients)
        /\ serverQueue \in Seq(Requests)
    BY DEF Init
  <1> QED BY <1>3, <1>4, <1>5, <1>6 DEF Init, TypeOK

\* A client's step that shows a note at most.
LEMMA NoteType ==
  ASSUME TypeOK, NEW c \in Clients,
         messages' = messages \/ messages' = [messages EXCEPT ![c] = Push(@, Line(Note, c, None))]
  PROVE  messages' \in [Clients -> Seq(Shown)]
  <1>1. messages \in [Clients -> Seq(Shown)]
    BY DEF TypeOK, Shown
  <1>2. Push(messages[c], Line(Note, c, None)) \in Seq(Shown)
    BY <1>1, PushType DEF Shown
  <1> QED BY <1>1, <1>2

\* What the server has to send, its table and its log are typed after a command.
LEMMA ReceiveType ==
  ASSUME TypeOK, JoinInv, Receive
  PROVE  TypeOK'
  <1>1. /\ serverQueue # <<>> /\ serverQueue' = Tail(serverQueue)
        /\ UNCHANGED <<queue, named, clientVars>>
        /\ srvPc' \in {"receive", "send"}
        /\ \/ log' = log /\ clients' = clients /\ out' = <<>>
           \/ \E l \in RoomLine : Tells(l)
    BY ReceiveResult
  <1>2. serverQueue' \in Seq(Requests)
    BY <1>1, SeqTail DEF TypeOK
  <1>3. clients' \in Seq(Clients) /\ out' \in Seq(Clients \X Lines) /\ log' \in Seq(RoomLine)
    <2>1. CASE log' = log /\ clients' = clients /\ out' = <<>>
      BY <2>1 DEF TypeOK
    <2>2. ASSUME NEW l \in RoomLine, Tells(l)
          PROVE clients' \in Seq(Clients) /\ out' \in Seq(Clients \X Lines) /\ log' \in Seq(RoomLine)
      <3>1. log' \in Seq(RoomLine)
        BY <2>2, SeqAppend DEF Tells, TypeOK
      <3> QED BY <2>2, <3>1 DEF Tells, Spreads
    <2> QED BY <1>1, <2>1, <2>2
  <1> QED BY <1>1, <1>2, <1>3 DEF TypeOK, clientVars

\* Every step keeps the types.
LEMMA TypeStep == TypeOK /\ JoinInv /\ LineInv /\ [Next]_vars => TypeOK'
  <1> SUFFICES ASSUME TypeOK, JoinInv, LineInv, [Next]_vars PROVE TypeOK'
    OBVIOUS
  <1> USE DEF clientVars, srvVars
  <1>1. CASE ServerStart
    BY <1>1 DEF TypeOK, ServerStart
  <1>2. CASE Cleanup
    BY <1>2 DEF TypeOK, Cleanup
  <1>3. CASE Receive
    BY <1>3, ReceiveType
  <1>4. CASE SendNext
    <2>0. out # <<>>
      BY <1>4 DEF SendNext, LineInv
    <2>1. Head(out) \in Clients \X Lines /\ out' \in Seq(Clients \X Lines)
      BY <1>4, <2>0, SeqTail DEF TypeOK, SendNext
    <2> DEFINE c == Head(out)[1]
               l == Head(out)[2]
    <2>2. c \in Clients /\ l \in Lines /\ queue[c] \in Seq(Lines)
      BY <2>1 DEF TypeOK
    <2>3. Append(queue[c], l) \in Seq(Lines)
      BY <2>2, SeqAppend
    <2>4. queue' \in [Clients -> Seq(Lines)]
      BY <1>4, <2>2, <2>3 DEF TypeOK, SendNext
    <2>5. srvPc' \in {"receive", "send"}
          /\ UNCHANGED <<clients, log, serverQueue, named, clientVars>>
      BY <1>4 DEF SendNext
    <2> QED BY <2>1, <2>4, <2>5 DEF TypeOK
  <1>5. CASE \E c \in Clients : ReceiverStep(c)
    <2>1. PICK c \in Clients : ReceiverStep(c)
      BY <1>5
    <2> DEFINE l == Head(queue[c])
    <2>2. l \in Lines /\ Tail(queue[c]) \in Seq(Lines)
      BY <2>1, SeqTail DEF TypeOK, ReceiverStep
    <2>3. queue' \in [Clients -> Seq(Lines)]
      BY <2>1, <2>2 DEF TypeOK, ReceiverStep
    <2>4. messages' \in [Clients -> Seq(Shown)]
      <3>1. messages \in [Clients -> Seq(Shown)]
        BY DEF TypeOK, Shown
      <3>2. Push(messages[c], l) \in Seq(Shown)
        BY <2>2, <3>1, PushType DEF Shown
      <3>3. messages' = messages \/ messages' = [messages EXCEPT ![c] = Push(@, l)]
        BY <2>1 DEF ReceiverStep
      <3> QED BY <3>1, <3>2, <3>3
    <2>5. DOMAIN users' = Clients /\ \A d \in Clients : IsFiniteSet(users'[d])
      <3>1. users' = [users EXCEPT ![c] = UsersAfter(@, l)]
        BY <2>1 DEF ReceiverStep
      <3>2. DOMAIN users = Clients /\ \A d \in Clients : IsFiniteSet(users[d])
        BY DEF TypeOK
      <3>3. IsFiniteSet(UsersAfter(users[c], l))
        BY <2>2, <3>2, UsersFinite
      <3> QED BY <3>1, <3>2, <3>3
    <2>6. DOMAIN unlisted' = Clients
      BY <2>1 DEF TypeOK, ReceiverStep
    <2>7. UNCHANGED <<srvVars, serverQueue, named, cpc, receiving, request, typed>>
      BY <2>1 DEF ReceiverStep
    <2> QED BY <2>3, <2>4, <2>5, <2>6, <2>7 DEF TypeOK, Shown
  <1>6. ASSUME NEW c \in Clients, ConnectFails(c) \/ Destroy(c) \/ Kill(c) \/ StopReceiver(c)
        PROVE  TypeOK'
    BY <1>6 DEF TypeOK, ConnectFails, Destroy, Kill, StopReceiver, Move
  <1>7. ASSUME NEW c \in Clients, Connect(c) PROVE TypeOK'
    <2>1. DOMAIN users' = Clients /\ \A d \in Clients : IsFiniteSet(users'[d])
      <3>1. users' = [users EXCEPT ![c] = {NameOf[c]}]
        BY <1>7 DEF Connect
      <3>2. DOMAIN users = Clients /\ \A d \in Clients : IsFiniteSet(users[d])
        BY DEF TypeOK
      <3>3. IsFiniteSet({NameOf[c]})
        BY FS_Singleton
      <3> QED BY <3>1, <3>2, <3>3
    <2> QED BY <1>7, <2>1 DEF TypeOK, Connect, Move
  <1>8. ASSUME NEW c \in Clients, Send(c) \/ SendFails(c) \/ StartReceiver(c) PROVE TypeOK'
    <2>1. AfterSend(c, TRUE) \in {"start", "loop", "cancel"}
          /\ AfterSend(c, FALSE) \in {"destroy", "loop", "cancel"}
      BY DEF TypeOK, AfterSend, Requests
    <2>2. serverQueue' \in Seq(Requests)
      <3>1. Append(serverQueue, request[c]) \in Seq(Requests)
        BY SeqAppend DEF TypeOK
      <3> QED BY <1>8, <3>1 DEF TypeOK, Send, SendFails, StartReceiver
    <2>3. messages' \in [Clients -> Seq(Shown)]
      <3>1. messages' = messages
            \/ messages' = [messages EXCEPT ![c] = Push(@, Line(Note, c, None))]
        BY <1>8 DEF Send, SendFails, StartReceiver
      <3> QED BY <3>1, NoteType
    <2>4. /\ cpc' \in [Clients -> {"init", "sending", "start", "loop", "cancel", "destroy",
                                   "exited", "dead"}]
          /\ receiving' \subseteq Clients
          /\ UNCHANGED <<srvVars, queue, named, request, users, typed, unlisted>>
      BY <1>8, <2>1 DEF TypeOK, Send, SendFails, StartReceiver, Move
    <2> QED BY <2>2, <2>3, <2>4 DEF TypeOK, Shown
  <1>9. ASSUME NEW c \in Clients, NEW from, NEW r \in Requests, Begin(c, from, r),
               typed' \in [Clients -> Nat]
        PROVE  TypeOK'
    BY <1>9 DEF TypeOK, Begin, Move
  <1>10. ASSUME NEW c \in Clients, StartFails(c) \/ KeyExit(c) PROVE TypeOK'
    <2>1. Request("LEAVE", c, None) \in Requests
      BY DEF Request, Requests
    <2>2. typed' \in [Clients -> Nat]
      BY <1>10 DEF TypeOK, StartFails, KeyExit
    <2> QED BY <1>9, <1>10, <2>1, <2>2 DEF StartFails, KeyExit
  <1>11. ASSUME NEW c \in Clients, NEW t \in Texts, KeyText(c, t) PROVE TypeOK'
    <2>1. Request("TEXT", c, t) \in Requests
      BY DEF Request, Requests
    <2>2. typed' \in [Clients -> Nat]
      BY <1>11 DEF TypeOK, KeyText
    <2> QED BY <1>9, <1>11, <2>1, <2>2 DEF KeyText
  <1>12. CASE UNCHANGED vars
    BY <1>12 DEF TypeOK, vars
  <1> QED BY <1>1, <1>2, <1>3, <1>4, <1>5, <1>6, <1>7, <1>8, <1>10, <1>11, <1>12
          DEF Next, ServerSteps, MainSteps, Environment

-----------------------------------------------------------------------------
(* Joining.                                                                *)

\* What one more line in the log says.
LEMMA LogMore ==
  ASSUME TypeOK, NEW l \in RoomLine, log' = Append(log, l)
  PROVE  /\ \A d : Came(d)' <=> Came(d) \/ l.pid = d
         /\ \A d : HasLeft(d)' <=> HasLeft(d) \/ (l.kind = "left" /\ l.pid = d)
         /\ ReadsJoined' <=> ReadsJoined \/ l.text \in JoinLike
  <1> DEFINE n == Len(log) + 1
  <1>1. /\ DOMAIN log' = DOMAIN log \union {n} /\ log'[n] = l
        /\ \A k \in DOMAIN log : log'[k] = log[k]
    BY SeqAppend DEF TypeOK
  <1> HIDE DEF n
  <1>2. ASSUME NEW d PROVE Came(d)' <=> Came(d) \/ l.pid = d
    BY <1>1 DEF Came
  <1>3. ASSUME NEW d PROVE HasLeft(d)' <=> HasLeft(d) \/ (l.kind = "left" /\ l.pid = d)
    BY <1>1 DEF HasLeft
  <1>4. ReadsJoined' <=> ReadsJoined \/ l.text \in JoinLike
    BY <1>1 DEF ReadsJoined
  <1> QED BY <1>2, <1>3, <1>4

\* The same log says the same.
LEMMA LogSame ==
  ASSUME log' = log
  PROVE  /\ \A d : (Came(d)' <=> Came(d)) /\ (HasLeft(d)' <=> HasLeft(d))
         /\ ReadsJoined' <=> ReadsJoined
  BY DEF Came, HasLeft, ReadsJoined

\* At the start nobody has joined.
LEMMA JoinInit == Init => JoinInv
  BY MqAssumption DEF Init, JoinInv, Members, Came, HasLeft, Joining, Request

\* A step that leaves server and log alone and does not begin a JOIN.
LEMMA JoinKept ==
  ASSUME TypeOK, JoinInv, UNCHANGED <<serverQueue, clients, log>>,
         \A c \in Clients : /\ request'[c].pid = c
                            /\ cpc'[c] = "init" => request'[c].command = "JOIN"
                            /\ Joining(c)' => Joining(c)
  PROVE  JoinInv'
  <1>1. Members' = Members
    BY DEF Members
  <1>2. \A d : (Came(d)' <=> Came(d)) /\ (HasLeft(d)' <=> HasLeft(d))
    BY LogSame
  <1> HIDE DEF Joining, Came, HasLeft, Members
  <1>3. (Len(clients) <= MaxClients)' /\ (\A i, j \in DOMAIN clients : clients[i] = clients[j] => i = j)'
    BY DEF JoinInv
  <1>4. (\A c \in Clients :
           /\ request[c].pid = c
           /\ cpc[c] = "init" => request[c].command = "JOIN"
           /\ Joining(c) => /\ c \notin Members /\ ~Came(c)
                            /\ \A i \in DOMAIN serverQueue : serverQueue[i].pid # c)'
    BY <1>1, <1>2 DEF JoinInv
  <1>5. (\A i \in DOMAIN serverQueue : serverQueue[i].command = "JOIN" =>
           /\ serverQueue[i].pid \notin Members /\ ~Came(serverQueue[i].pid)
           /\ \A j \in DOMAIN serverQueue : serverQueue[j].pid = serverQueue[i].pid => i <= j)'
    BY <1>1, <1>2 DEF JoinInv, Came
  <1>6. (\A c \in Members : Came(c) /\ ~HasLeft(c))'
    BY <1>1, <1>2 DEF JoinInv
  <1> QED BY <1>3, <1>4, <1>5, <1>6 DEF JoinInv

\* A command is sent to the server.
LEMMA JoinSend ==
  ASSUME TypeOK, JoinInv, NEW c \in Clients, Send(c)
  PROVE  JoinInv'
  <1> DEFINE n == Len(serverQueue) + 1
  <1>1. UNCHANGED <<clients, log, request>>
    BY DEF Send, srvVars
  <1>2. /\ DOMAIN serverQueue' = DOMAIN serverQueue \union {n} /\ serverQueue'[n] = request[c]
        /\ \A k \in DOMAIN serverQueue : serverQueue'[k] = serverQueue[k] /\ k \in Nat /\ k < n
        /\ n \in Nat
    <2>1. /\ DOMAIN serverQueue' = DOMAIN serverQueue \union {n} /\ serverQueue'[n] = request[c]
          /\ \A k \in DOMAIN serverQueue : serverQueue'[k] = serverQueue[k]
      BY SeqAppend DEF TypeOK, Send
    <2>2. Len(serverQueue) \in Nat /\ DOMAIN serverQueue = 1 .. Len(serverQueue)
      BY SeqDomain DEF TypeOK
    <2> QED BY <2>1, <2>2
  <1> HIDE DEF n
  <1>3. cpc[c] = "sending" /\ cpc' = [cpc EXCEPT ![c] = AfterSend(c, TRUE)]
        /\ AfterSend(c, TRUE) \in {"start", "loop", "cancel"}
    BY DEF Send, Move, AfterSend, TypeOK, Requests
  <1>4. /\ request[c].pid = c
        /\ request[c].command = "JOIN" => Joining(c)
    BY <1>3 DEF JoinInv, Joining
  <1>5. \A d \in Clients : /\ cpc'[d] = "init" => cpc[d] = "init"
                           /\ Joining(d)' => Joining(d) /\ d # c
    BY <1>1, <1>3 DEF TypeOK, Joining
  <1>6. /\ Members' = Members /\ \A d : (Came(d)' <=> Came(d)) /\ (HasLeft(d)' <=> HasLeft(d))
    BY <1>1, LogSame DEF Members
  <1> HIDE DEF Joining, Came, HasLeft, Members
  <1>7. (Len(clients) <= MaxClients)' /\ (\A i, j \in DOMAIN clients : clients[i] = clients[j] => i = j)'
    BY <1>1 DEF JoinInv
  <1>8. ASSUME NEW d \in Clients
        PROVE  (/\ request[d].pid = d
                /\ cpc[d] = "init" => request[d].command = "JOIN"
                /\ Joining(d) => /\ d \notin Members /\ ~Came(d)
                                 /\ \A i \in DOMAIN serverQueue : serverQueue[i].pid # d)'
    BY <1>1, <1>2, <1>4, <1>5, <1>6 DEF JoinInv
  <1>9. ASSUME NEW i \in DOMAIN serverQueue', serverQueue'[i].command = "JOIN"
        PROVE  /\ serverQueue'[i].pid \notin Members /\ ~Came(serverQueue'[i].pid)
               /\ \A j \in DOMAIN serverQueue' : serverQueue'[j].pid = serverQueue'[i].pid => i <= j
    <2>1. CASE i = n
      <3>1. Joining(c) /\ serverQueue'[i].pid = c
        BY <1>2, <1>4, <1>9, <2>1
      <3>2. c \notin Members /\ ~Came(c) /\ \A j \in DOMAIN serverQueue : serverQueue[j].pid # c
        BY <3>1 DEF JoinInv
      <3> QED BY <1>2, <2>1, <3>1, <3>2
    <2>2. CASE i \in DOMAIN serverQueue
      <3>1. serverQueue'[i] = serverQueue[i] /\ i \in Nat /\ i < n
        BY <1>2, <2>2
      <3>2. /\ serverQueue[i].pid \notin Members /\ ~Came(serverQueue[i].pid)
            /\ \A j \in DOMAIN serverQueue : serverQueue[j].pid = serverQueue[i].pid => i <= j
        BY <1>9, <2>2, <3>1 DEF JoinInv
      <3> QED BY <1>2, <3>1, <3>2
    <2> QED BY <1>2, <1>9, <2>1, <2>2
  <1>10. \A d \in Members' : (Came(d) /\ ~HasLeft(d))'
    BY <1>6 DEF JoinInv
  <1>11. (\A i \in DOMAIN serverQueue : serverQueue[i].command = "JOIN" =>
            /\ serverQueue[i].pid \notin Members /\ ~Came(serverQueue[i].pid)
            /\ \A j \in DOMAIN serverQueue : serverQueue[j].pid = serverQueue[i].pid => i <= j)'
    BY <1>1, <1>6, <1>9 DEF Came
  <1> QED BY <1>7, <1>8, <1>10, <1>11 DEF JoinInv

\* The next command is one of the queue, and what is behind it is in order.
LEMMA QueueFacts ==
  ASSUME TypeOK, JoinInv, serverQueue # <<>>, serverQueue' = Tail(serverQueue)
  PROVE  /\ Head(serverQueue) = serverQueue[1] /\ 1 \in DOMAIN serverQueue
         /\ Head(serverQueue) \in Requests
         /\ \A k \in DOMAIN serverQueue' : /\ k \in Nat /\ k + 1 \in DOMAIN serverQueue
                                           /\ serverQueue'[k] = serverQueue[k + 1]
         /\ \A c \in Clients : Joining(c) => Head(serverQueue).pid # c
         /\ Head(serverQueue).command = "JOIN" =>
              Head(serverQueue).pid \notin Members /\ ~Came(Head(serverQueue).pid)
         /\ \A k \in DOMAIN serverQueue' : serverQueue'[k].command = "JOIN" =>
              serverQueue'[k].pid # Head(serverQueue).pid
  <1>1. /\ Head(serverQueue) = serverQueue[1] /\ 1 \in DOMAIN serverQueue
        /\ Head(serverQueue) \in Requests
        /\ \A k \in DOMAIN serverQueue' : /\ k \in Nat \ {0} /\ k + 1 \in DOMAIN serverQueue
                                          /\ serverQueue'[k] = serverQueue[k + 1]
    BY SeqTail DEF TypeOK
  <1>2. \A c \in Clients : Joining(c) => Head(serverQueue).pid # c
    BY <1>1 DEF JoinInv
  <1>3. Head(serverQueue).command = "JOIN" =>
          Head(serverQueue).pid \notin Members /\ ~Came(Head(serverQueue).pid)
    BY <1>1 DEF JoinInv
  <1>4. ASSUME NEW k \in DOMAIN serverQueue', serverQueue'[k].command = "JOIN",
               serverQueue'[k].pid = Head(serverQueue).pid
        PROVE  FALSE
    <2>1. k + 1 <= 1
      BY <1>1, <1>4 DEF JoinInv
    <2> QED BY <1>1, <2>1
  <1> QED BY <1>1, <1>2, <1>3, <1>4

\* A command is taken.
LEMMA JoinReceive ==
  ASSUME TypeOK, JoinInv, Receive
  PROVE  JoinInv'
  <1> DEFINE r == Head(serverQueue)
  <1>1. /\ serverQueue # <<>> /\ serverQueue' = Tail(serverQueue) /\ UNCHANGED <<cpc, request>>
        /\ \/ log' = log /\ clients' = clients
           \/ \E l \in RoomLine : Tells(l) /\ (Adds(l) \/ Repeats(l))
    BY ReceiveResult DEF clientVars
  <1>2. /\ r \in Requests
        /\ \A k \in DOMAIN serverQueue' : /\ k \in Nat /\ k + 1 \in DOMAIN serverQueue
                                          /\ serverQueue'[k] = serverQueue[k + 1]
        /\ \A c \in Clients : Joining(c) => r.pid # c
        /\ r.command = "JOIN" => r.pid \notin Members /\ ~Came(r.pid)
        /\ \A k \in DOMAIN serverQueue' : serverQueue'[k].command = "JOIN" =>
             serverQueue'[k].pid # r.pid
    BY <1>1, QueueFacts
  <1> HIDE DEF r
  <1>3. \A c : Joining(c)' <=> Joining(c)
    BY <1>1 DEF Joining
  <1>4. /\ Len(clients') <= MaxClients /\ Once(clients')
        /\ \A d : Came(d)' => Came(d) \/ d = r.pid
        /\ \A d : d \in Members' => d \in Members \/ d = r.pid
        /\ \A d \in Members' : Came(d)' /\ ~HasLeft(d)'
    <2>1. CASE log' = log /\ clients' = clients
      <3>1. Members' = Members
        BY <2>1 DEF Members
      <3>2. \A d : (Came(d)' <=> Came(d)) /\ (HasLeft(d)' <=> HasLeft(d))
        BY <2>1, LogSame
      <3>3. Len(clients') <= MaxClients /\ Once(clients')
        BY <2>1 DEF JoinInv, Once
      <3>4. \A d \in Members : Came(d) /\ ~HasLeft(d)
        BY DEF JoinInv
      <3> QED BY <3>1, <3>2, <3>3, <3>4
    <2>2. ASSUME NEW l \in RoomLine, Tells(l), Adds(l) \/ Repeats(l)
          PROVE  /\ Len(clients') <= MaxClients /\ Once(clients')
                 /\ \A d : Came(d)' => Came(d) \/ d = r.pid
                 /\ \A d : d \in Members' => d \in Members \/ d = r.pid
                 /\ \A d \in Members' : Came(d)' /\ ~HasLeft(d)'
      <3>1. /\ Len(clients') <= MaxClients /\ Once(clients') /\ l.pid = r.pid
            /\ log' = Append(log, l)
        BY <2>2 DEF Tells, r
      <3>2. /\ \A d : Came(d)' <=> Came(d) \/ l.pid = d
            /\ \A d : HasLeft(d)' <=> HasLeft(d) \/ (l.kind = "left" /\ l.pid = d)
        BY <3>1, LogMore
      <3>3. \A d : HasLeft(d) => Came(d)
        BY DEF HasLeft, Came
      <3>4. \A d \in Members : Came(d) /\ ~HasLeft(d)
        BY DEF JoinInv
      <3>5. CASE Adds(l)
        <4>1. r.command = "JOIN" /\ Members' = Members \union {l.pid} /\ l.kind = "joined"
          BY <3>5 DEF Adds, r, Line
        <4>2. ~HasLeft(l.pid)
          BY <1>2, <3>1, <3>3, <4>1
        <4> QED BY <3>1, <3>2, <3>4, <4>1, <4>2
      <3>6. CASE Repeats(l)
        <4>1. \/ Members' = Members /\ l.kind \in {"joined", "text"}
              \/ Members' = Members \ {l.pid}
          BY <3>6 DEF Repeats
        <4> QED BY <3>1, <3>2, <3>4, <4>1
      <3> QED BY <2>2, <3>5, <3>6
    <2> QED BY <1>1, <2>1, <2>2
  <1> DEFINE F(d) == \E k \in DOMAIN log' : log'[k].pid = d
             C(d) == Came(d)
  <1>6. \A d : F(d) => C(d) \/ d = r.pid
    BY <1>4 DEF Came
  <1>7. ASSUME NEW i \in DOMAIN serverQueue', serverQueue'[i].command = "JOIN"
        PROVE  /\ serverQueue'[i].pid \notin Members' /\ ~F(serverQueue'[i].pid)
               /\ \A j \in DOMAIN serverQueue' : serverQueue'[j].pid = serverQueue'[i].pid => i <= j
    <2>1. /\ i \in Nat /\ i + 1 \in DOMAIN serverQueue /\ serverQueue'[i] = serverQueue[i + 1]
          /\ serverQueue'[i].pid # r.pid
      BY <1>2, <1>7
    <2>2. /\ serverQueue[i + 1].pid \notin Members /\ ~C(serverQueue[i + 1].pid)
          /\ \A j \in DOMAIN serverQueue : serverQueue[j].pid = serverQueue[i + 1].pid => i + 1 <= j
      BY <1>7, <2>1 DEF JoinInv
    <2>3. ASSUME NEW j \in DOMAIN serverQueue', serverQueue'[j].pid = serverQueue'[i].pid
          PROVE  i <= j
      <3>1. i + 1 <= j + 1 /\ j \in Nat
        BY <1>2, <2>1, <2>2, <2>3
      <3> QED BY <2>1, <3>1
    <2>4. serverQueue'[i].pid \notin Members'
      BY <1>4, <2>1, <2>2
    <2> HIDE DEF F, C
    <2>5. ~F(serverQueue'[i].pid)
      BY <1>6, <2>1, <2>2
    <2> QED BY <2>3, <2>4, <2>5
  <1>8. (\A i \in DOMAIN serverQueue : serverQueue[i].command = "JOIN" =>
           /\ serverQueue[i].pid \notin Members /\ ~Came(serverQueue[i].pid)
           /\ \A j \in DOMAIN serverQueue : serverQueue[j].pid = serverQueue[i].pid => i <= j)'
    BY <1>7 DEF Came
  <1>9. ASSUME NEW c \in Clients
        PROVE  /\ request'[c].pid = c
               /\ cpc'[c] = "init" => request'[c].command = "JOIN"
               /\ Joining(c)' => /\ c \notin Members' /\ ~Came(c)'
                                 /\ \A i \in DOMAIN serverQueue' : serverQueue'[i].pid # c
    BY <1>1, <1>2, <1>3, <1>4 DEF JoinInv
  <1> QED BY <1>4, <1>8, <1>9 DEF JoinInv, Once

\* Every step keeps who is in the table, and who is still to join, apart.
LEMMA JoinStep == TypeOK /\ JoinInv /\ [Next]_vars => JoinInv'
  <1> SUFFICES ASSUME TypeOK, JoinInv, [Next]_vars PROVE JoinInv'
    OBVIOUS
  <1> USE DEF clientVars, srvVars
  <1>1. \A c \in Clients : request[c].pid = c /\ (cpc[c] = "init" => request[c].command = "JOIN")
    BY DEF JoinInv
  <1>2. ASSUME UNCHANGED <<serverQueue, clients, log, cpc, request>> PROVE JoinInv'
    <2>1. \A c \in Clients : Joining(c)' => Joining(c)
      BY <1>2 DEF Joining
    <2> QED BY <1>1, <1>2, <2>1, JoinKept
  <1>3. ASSUME NEW c \in Clients, NEW to, cpc' = [cpc EXCEPT ![c] = to],
               UNCHANGED <<serverQueue, clients, log, request>>,
               to \notin {"init", "sending"} \/ (cpc[c] = "init" /\ to = "sending")
        PROVE  JoinInv'
    <2>1. ASSUME NEW d \in Clients
          PROVE  (cpc'[d] = "init" => cpc[d] = "init") /\ (Joining(d)' => Joining(d))
      BY <1>3 DEF Joining, TypeOK
    <2> QED BY <1>1, <1>3, <2>1, JoinKept
  <1>4. ASSUME NEW c \in Clients, NEW from, NEW k \in {"TEXT", "LEAVE"}, NEW t,
               Begin(c, from, Request(k, c, t))
        PROVE  JoinInv'
    <2> DEFINE r == Request(k, c, t)
    <2>1. /\ cpc' = [cpc EXCEPT ![c] = "sending"] /\ request' = [request EXCEPT ![c] = r]
          /\ UNCHANGED <<serverQueue, clients, log>>
      BY <1>4 DEF Begin, Move
    <2>2. r.pid = c /\ r.command # "JOIN"
      BY DEF Request
    <2>3. request'[c] = r /\ cpc'[c] = "sending"
          /\ \A d \in Clients : d # c => request'[d] = request[d] /\ cpc'[d] = cpc[d]
      BY <2>1 DEF TypeOK
    <2> HIDE DEF r
    <2>4. ASSUME NEW d \in Clients
          PROVE  /\ request'[d].pid = d /\ (cpc'[d] = "init" => request'[d].command = "JOIN")
                 /\ Joining(d)' => Joining(d)
      BY <1>1, <2>2, <2>3 DEF Joining
    <2> QED BY <2>1, <2>4, JoinKept
  <1>5. CASE ServerStart \/ Cleanup \/ SendNext
    BY <1>2, <1>5 DEF ServerStart, Cleanup, SendNext
  <1>6. CASE Receive
    BY <1>6, JoinReceive
  <1>7. ASSUME NEW c \in Clients, ReceiverStep(c) PROVE JoinInv'
    BY <1>2, <1>7 DEF ReceiverStep
  <1>8. ASSUME NEW c \in Clients, Send(c) PROVE JoinInv'
    BY <1>8, JoinSend
  <1>9. ASSUME NEW c \in Clients,
               ConnectFails(c) \/ Connect(c) \/ StartReceiver(c) \/ StopReceiver(c)
               \/ Destroy(c) \/ Kill(c)
        PROVE  JoinInv'
    <2>1. /\ \/ \E to \in {"exited", "loop", "destroy", "dead"} : cpc' = [cpc EXCEPT ![c] = to]
             \/ cpc[c] = "init" /\ cpc' = [cpc EXCEPT ![c] = "sending"]
          /\ UNCHANGED <<serverQueue, clients, log, request>>
      BY <1>9 DEF ConnectFails, Connect, StartReceiver, StopReceiver, Destroy, Kill, Move
    <2> QED BY <1>3, <2>1
  <1>10. ASSUME NEW c \in Clients, SendFails(c) PROVE JoinInv'
    <2>1. AfterSend(c, FALSE) \in {"destroy", "loop", "cancel"}
      BY DEF TypeOK, AfterSend, Requests
    <2>2. /\ cpc' = [cpc EXCEPT ![c] = AfterSend(c, FALSE)]
          /\ UNCHANGED <<serverQueue, clients, log, request>>
      BY <1>10 DEF SendFails, Move
    <2> QED BY <1>3, <2>1, <2>2
  <1>11. ASSUME NEW c \in Clients, StartFails(c) \/ KeyExit(c) PROVE JoinInv'
    BY <1>4, <1>11 DEF StartFails, KeyExit
  <1>12. ASSUME NEW c \in Clients, NEW t \in Texts, KeyText(c, t) PROVE JoinInv'
    BY <1>4, <1>12 DEF KeyText
  <1>13. CASE UNCHANGED vars
    BY <1>2, <1>13 DEF vars
  <1> QED BY <1>5, <1>6, <1>7, <1>8, <1>9, <1>10, <1>11, <1>12, <1>13
          DEF Next, ServerSteps, MainSteps, Environment

-----------------------------------------------------------------------------
(* The kinds of steps, as the lines see them.                              *)

\* A step of client c that sends and receives no line.
Own(c) ==
  /\ UNCHANGED <<srvPc, clients, out, log, queue, unlisted>>
  /\ messages' = messages \/ messages' = [messages EXCEPT ![c] = Push(@, Line(Note, c, None))]
  /\ users' = users \/ (Joining(c) /\ users' = [users EXCEPT ![c] = {NameOf[c]}])

\* The server starts or stops.
Idle ==
  /\ UNCHANGED <<clients, out, log, queue, messages, users, unlisted>>
  /\ srvPc' = srvPc \/ (srvPc = "start" /\ srvPc' = "receive") \/ srvPc' = "done"

\* What a step is for the lines of the room: a command taken, a line sent, a line shown, a
\* step of a client of its own, or nothing.
LEMMA StepKinds ==
  ASSUME TypeOK, [Next]_vars
  PROVE  \/ Receive \/ SendNext \/ Idle
         \/ \E c \in Clients : ReceiverStep(c) \/ Own(c)
  <1> USE DEF clientVars, srvVars
  <1>1. CASE ServerStart \/ Cleanup
    BY <1>1 DEF ServerStart, Cleanup, Idle
  <1>2. ASSUME NEW c \in Clients,
               ConnectFails(c) \/ StopReceiver(c) \/ Destroy(c) \/ Kill(c) \/ Send(c)
        PROVE  Own(c)
    BY <1>2 DEF ConnectFails, StopReceiver, Destroy, Kill, Send, Own
  <1>3. ASSUME NEW c \in Clients, Connect(c) PROVE Own(c)
    BY <1>3 DEF Connect, Move, Joining, Own
  <1>4. ASSUME NEW c \in Clients, StartReceiver(c) \/ SendFails(c) PROVE Own(c)
    BY <1>4 DEF StartReceiver, SendFails, Own
  <1>5. ASSUME NEW c \in Clients, StartFails(c) \/ KeyExit(c) PROVE Own(c)
    BY <1>5 DEF StartFails, KeyExit, Begin, Own
  <1>6. ASSUME NEW c \in Clients, NEW t \in Texts, KeyText(c, t) PROVE Own(c)
    BY <1>6 DEF KeyText, Begin, Own
  <1>7. CASE UNCHANGED vars
    BY <1>7 DEF vars, Idle
  <1> QED BY <1>1, <1>2, <1>3, <1>4, <1>5, <1>6, <1>7
          DEF Next, ServerSteps, MainSteps, Environment

-----------------------------------------------------------------------------
(* Lines on their way.                                                     *)

\* Came and Grounded, of the log g.
Heard(g, c) == \E i \in DOMAIN g : g[i].pid = c
Rests(g, l) ==
  /\ Heard(g, l.pid)
  /\ l.kind = "left" => \E i \in DOMAIN g : g[i].kind = "left" /\ g[i].pid = l.pid
  /\ l.text \in JoinLike => \E i \in DOMAIN g : g[i].text \in JoinLike

\* What the log supports, a longer log supports.
LEMMA LongerLog ==
  ASSUME TypeOK, NEW l \in RoomLine, log' = Append(log, l)
  PROVE  /\ \A c : Heard(log, c) => Heard(log', c)
         /\ \A m : Rests(log, m) => Rests(log', m)
         /\ Heard(log', l.pid) /\ Rests(log', l)
  <1> DEFINE n == Len(log) + 1
  <1>1. /\ DOMAIN log' = DOMAIN log \union {n} /\ log'[n] = l
        /\ \A k \in DOMAIN log : log'[k] = log[k]
    BY SeqAppend DEF TypeOK
  <1> HIDE DEF n
  <1>2. ASSUME NEW c, Heard(log, c) PROVE Heard(log', c)
    BY <1>1, <1>2 DEF Heard
  <1>3. ASSUME NEW m, Rests(log, m) PROVE Rests(log', m)
    BY <1>1, <1>2, <1>3 DEF Rests
  <1>4. Heard(log', l.pid) /\ Rests(log', l)
    BY <1>1 DEF Heard, Rests
  <1> QED BY <1>2, <1>3, <1>4

\* Pushing shows the new line and lines shown before.
LEMMA PushShows ==
  ASSUME NEW S, NEW ms \in Seq(S), NEW x \in S, NEW i \in DOMAIN Push(ms, x)
  PROVE  Push(ms, x)[i] = x \/ \E k \in DOMAIN ms : Push(ms, x)[i] = ms[k]
  <1>1. ASSUME NEW q \in Seq(S), NEW k \in DOMAIN Append(q, x)
        PROVE  Append(q, x)[k] = x \/ (k \in DOMAIN q /\ Append(q, x)[k] = q[k])
    BY SeqAppend
  <1>2. CASE Len(ms) < MaxMessages
    BY <1>1, <1>2 DEF Push
  <1>3. CASE ~(Len(ms) < MaxMessages)
    <2>1. ms # <<>>
      BY <1>3, PushType, SeqDomain, MqAssumption
    <2>2. Tail(ms) \in Seq(S) /\ \A k \in DOMAIN Tail(ms) : k + 1 \in DOMAIN ms /\ Tail(ms)[k] = ms[k + 1]
      BY <2>1, SeqTail
    <2>3. Push(ms, x) = Append(Tail(ms), x)
      BY <1>3 DEF Push
    <2> QED BY <1>1, <2>2, <2>3
  <1> QED BY <1>2, <1>3

\* At the start no line is under way.
LEMMA LineInit == Init => LineInv
  BY DEF Init, LineInv

\* Every step sends only lines about what the room has seen.
LEMMA LineStep == TypeOK /\ JoinInv /\ JoinInv' /\ LineInv /\ [Next]_vars => LineInv'
  <1> SUFFICES ASSUME TypeOK, JoinInv, JoinInv', LineInv, [Next]_vars PROVE LineInv'
    OBVIOUS
  <1>1. /\ srvPc \in {"start", "receive"} => out = <<>>
        /\ srvPc = "send" => out # <<>>
        /\ \A i \in DOMAIN out : Heard(log, out[i][1]) /\ Rests(log, out[i][2])
        /\ \A c \in Clients : \A i \in DOMAIN queue[c] : Heard(log, c) /\ Rests(log, queue[c][i])
        /\ \A c \in Clients : ~Heard(log, c) =>
             \A i \in DOMAIN messages[c] : messages[c][i] \notin RoomLine
    BY DEF LineInv, Came, Grounded, HasLeft, ReadsJoined, Heard, Rests
  <1> DEFINE Goal ==
        /\ srvPc' \in {"start", "receive"} => out' = <<>>
        /\ srvPc' = "send" => out' # <<>>
        /\ \A i \in DOMAIN out' : Heard(log', out'[i][1]) /\ Rests(log', out'[i][2])
        /\ \A c \in Clients : \A i \in DOMAIN queue'[c] : Heard(log', c) /\ Rests(log', queue'[c][i])
        /\ \A c \in Clients : ~Heard(log', c) =>
             \A i \in DOMAIN messages'[c] : messages'[c][i] \notin RoomLine
  <1>2. SUFFICES Goal
    BY <1>2 DEF LineInv, Came, Grounded, HasLeft, ReadsJoined, Heard, Rests
  <1> DEFINE T == Lines \union {Line(Note, c, None) : c \in Clients}
  <1>3. messages \in [Clients -> Seq(T)]
    BY DEF TypeOK
  <1>4. CASE Idle
    BY <1>1, <1>4 DEF Idle
  <1>5. ASSUME NEW c \in Clients, Own(c) PROVE Goal
    <2>1. UNCHANGED <<srvPc, clients, out, log, queue>>
      BY <1>5 DEF Own
    <2>2. ASSUME NEW d \in Clients, ~Heard(log', d), NEW i \in DOMAIN messages'[d]
          PROVE  messages'[d][i] \notin RoomLine
      <3>1. CASE messages' = messages \/ d # c
        <4>1. messages'[d] = messages[d]
          BY <1>3, <1>5, <3>1 DEF Own
        <4> QED BY <1>1, <2>1, <2>2, <4>1
      <3>2. CASE messages' # messages /\ d = c
        <4> DEFINE x == Line(Note, c, None)
        <4>1. messages'[c] = Push(messages[c], x)
          BY <1>3, <1>5, <3>2 DEF Own
        <4>2. x \in T /\ messages[c] \in Seq(T)
          BY <1>3
        <4>3. x \notin RoomLine
          BY DEF Line, Note, RoomLine
        <4> HIDE DEF x, T
        <4>4. messages'[d][i] = x \/ \E k \in DOMAIN messages[c] : messages'[d][i] = messages[c][k]
          BY <2>2, <3>2, <4>1, <4>2, PushShows
        <4> QED BY <1>1, <2>1, <2>2, <3>2, <4>3, <4>4
      <3> QED BY <3>1, <3>2
    <2> QED BY <1>1, <2>1, <2>2
  <1>6. CASE Receive
    <2>1. /\ UNCHANGED <<queue, messages>>
          /\ srvPc' = IF out' = <<>> THEN "receive" ELSE "send"
          /\ \/ log' = log /\ out' = <<>>
             \/ \E l \in RoomLine : Tells(l) /\ (Adds(l) \/ Repeats(l))
      BY <1>6, ReceiveResult DEF clientVars
    <2>2. CASE log' = log /\ out' = <<>>
      BY <1>1, <2>1, <2>2
    <2>3. ASSUME NEW l \in RoomLine, Tells(l), Adds(l) \/ Repeats(l) PROVE Goal
      <3>1. log' = Append(log, l) /\ \A k \in DOMAIN out' : out'[k][1] \in Members'
        BY <2>3 DEF Tells, Spreads
      <3>2. /\ \A c : Heard(log, c) => Heard(log', c)
            /\ \A m : Rests(log, m) => Rests(log', m)
            /\ Heard(log', l.pid) /\ Rests(log', l)
        BY <3>1, LongerLog
      <3>3. \A d \in Members' : Heard(log', d)
        BY DEF JoinInv, Came, Heard
      <3>4. \A d \in Members' : Rests(log', Line("user", d, None)) /\ Rests(log', Line("reset", d, None))
        BY <3>3, MqAssumption DEF Line, Rests
      <3>5. CASE Repeats(l)
        BY <1>1, <2>1, <3>1, <3>2, <3>3, <3>5 DEF Repeats
      <3>6. CASE Adds(l)
        <4>1. l.pid \in Members'
          BY <3>6 DEF Adds
        <4>2. ASSUME NEW k \in DOMAIN out' PROVE Rests(log', out'[k][2])
          <5>1. \/ out'[k][2] = l
                \/ out'[k] = <<l.pid, Line("reset", l.pid, None)>>
                \/ \E d \in Members' : out'[k][2] = Line("user", d, None)
            BY <3>6 DEF Adds
          <5> QED BY <3>2, <3>4, <4>1, <5>1
        <4> QED BY <1>1, <2>1, <3>1, <3>2, <3>3, <4>2
      <3> QED BY <2>3, <3>5, <3>6
    <2> QED BY <2>1, <2>2, <2>3
  <1>7. CASE SendNext
    <2>1. /\ out # <<>> /\ out' = Tail(out) /\ UNCHANGED <<log, messages>>
          /\ queue' = [queue EXCEPT ![Head(out)[1]] = Append(@, Head(out)[2])]
          /\ srvPc' = IF out' = <<>> THEN "receive" ELSE "send"
      BY <1>1, <1>7 DEF SendNext, clientVars
    <2>2. /\ 1 \in DOMAIN out /\ Head(out) = out[1] /\ Head(out) \in Clients \X Lines
          /\ \A k \in DOMAIN out' : k + 1 \in DOMAIN out /\ out'[k] = out[k + 1]
      <3>1. out \in Seq(Clients \X Lines)
        BY DEF TypeOK
      <3> QED BY <2>1, <3>1, SeqTail
    <2> DEFINE e == Head(out)[1]
               l == Head(out)[2]
    <2>3. e \in Clients /\ l \in Lines /\ Heard(log, e) /\ Rests(log, l)
      BY <1>1, <2>2
    <2>4. queue \in [Clients -> Seq(Lines)]
      BY DEF TypeOK
    <2> HIDE DEF e, l
    <2>5. ASSUME NEW c \in Clients, NEW i \in DOMAIN queue'[c]
          PROVE  Heard(log', c) /\ Rests(log', queue'[c][i])
      <3>1. CASE c # e
        <4>1. queue'[c] = queue[c]
          BY <2>1, <2>3, <2>4, <3>1 DEF e, l
        <4> QED BY <1>1, <2>1, <2>5, <4>1
      <3>2. CASE c = e
        <4>1. queue'[c] = Append(queue[c], l) /\ queue[c] \in Seq(Lines)
          BY <2>1, <2>3, <2>4, <3>2 DEF e, l
        <4>2. queue'[c][i] = l \/ (i \in DOMAIN queue[c] /\ queue'[c][i] = queue[c][i])
          BY <2>3, <2>5, <4>1, SeqAppend
        <4> QED BY <1>1, <2>1, <2>3, <2>5, <3>2, <4>2
      <3> QED BY <3>1, <3>2
    <2>6. \A i \in DOMAIN out' : Heard(log', out'[i][1]) /\ Rests(log', out'[i][2])
      BY <1>1, <2>1, <2>2
    <2> QED BY <1>1, <2>1, <2>5, <2>6
  <1>8. ASSUME NEW c \in Clients, ReceiverStep(c) PROVE Goal
    <2> DEFINE l == Head(queue[c])
    <2>1. /\ queue[c] # <<>> /\ queue' = [queue EXCEPT ![c] = Tail(@)]
          /\ messages' = messages \/ messages' = [messages EXCEPT ![c] = Push(@, l)]
          /\ UNCHANGED <<srvPc, out, log>>
      BY <1>8 DEF ReceiverStep, srvVars
    <2>2. queue \in [Clients -> Seq(Lines)]
      BY DEF TypeOK
    <2>3. /\ 1 \in DOMAIN queue[c]
          /\ \A k \in DOMAIN Tail(queue[c]) :
               k + 1 \in DOMAIN queue[c] /\ Tail(queue[c])[k] = queue[c][k + 1]
      BY <2>1, <2>2, SeqTail
    <2>4. Heard(log, c)
      BY <1>1, <2>3
    <2>5. ASSUME NEW d \in Clients, NEW i \in DOMAIN queue'[d]
          PROVE  Heard(log', d) /\ Rests(log', queue'[d][i])
      <3>1. queue'[d] = IF d = c THEN Tail(queue[c]) ELSE queue[d]
        BY <2>1, <2>2
      <3> QED BY <1>1, <2>1, <2>3, <2>5, <3>1
    <2>6. ASSUME NEW d \in Clients, ~Heard(log', d)
          PROVE  messages'[d] = messages[d]
      <3>1. d # c
        BY <2>1, <2>4, <2>6
      <3> QED BY <1>3, <2>1, <3>1
    <2> QED BY <1>1, <2>1, <2>5, <2>6
  <1> HIDE DEF Goal
  <1> QED BY <1>4, <1>5, <1>6, <1>7, <1>8, StepKinds

-----------------------------------------------------------------------------
(* Names.                                                                  *)

\* A table of n entries has n names at most.
LEMMA FewNames ==
  ASSUME NEW n \in Nat, NEW g, DOMAIN g = 1 .. n, NEW T, T = {g[i] : i \in 1 .. n}
  PROVE  IsFiniteSet(T) /\ Cardinality(T) \in Nat /\ Cardinality(T) <= n
  <1>1. IsFiniteSet(1 .. n) /\ Cardinality(1 .. n) = n
    BY FS_Interval
  <1> DEFINE f == [i \in 1 .. n |-> g[i]]
  <1>2. f \in Surjection(1 .. n, T)
    BY DEF Surjection
  <1> HIDE DEF f
  <1>3. IsFiniteSet(T) /\ Cardinality(T) <= Cardinality(1 .. n)
    BY <1>1, <1>2, FS_Surjection
  <1> QED BY <1>1, <1>3, FS_CardinalityType

\* A list of names of members has room for one more of them.
LEMMA Room ==
  ASSUME TypeOK, JoinInv, NEW us, IsFiniteSet(us), NEW x,
         \A n \in us \union {x} : \E p \in Members : n = NameOf[p]
  PROVE  x \in us \/ Cardinality(us) < MaxClients
  <1> DEFINE n == Len(clients)
             g == [i \in 1 .. n |-> NameOf[clients[i]]]
             T == {g[i] : i \in 1 .. n}
  <1>1. n \in Nat /\ DOMAIN clients = 1 .. n /\ n <= MaxClients
    BY SeqDomain DEF TypeOK, JoinInv
  <1>2. \A m \in us \union {x} : m \in T
    BY <1>1 DEF Members
  <1>3. DOMAIN g = 1 .. n
    OBVIOUS
  <1> HIDE DEF g, n
  <1>4. IsFiniteSet(T) /\ Cardinality(T) \in Nat /\ Cardinality(T) <= n
    BY <1>1, <1>3, FewNames
  <1> HIDE DEF T
  <1> SUFFICES ASSUME x \notin us PROVE Cardinality(us) < MaxClients
    OBVIOUS
  <1>5. Cardinality(us \union {x}) = Cardinality(us) + 1
    BY FS_AddElement
  <1>6. us \union {x} \in SUBSET T
    BY <1>2
  <1>7. Cardinality(us \union {x}) <= Cardinality(T)
    BY <1>4, <1>6, FS_Subset
  <1>8. Cardinality(us) \in Nat
    BY FS_CardinalityType
  <1> QED BY <1>1, <1>4, <1>5, <1>7, <1>8, MqAssumption

\* The names a client lists and those it has no room for, after a line.
LEMMA ReceiverNames ==
  ASSUME TypeOK, NEW c \in Clients, ReceiverStep(c)
  PROVE  /\ Head(queue[c]) \in Lines /\ 1 \in DOMAIN queue[c] /\ Head(queue[c]) = queue[c][1]
         /\ users'[c] = UsersAfter(users[c], Head(queue[c]))
         /\ unlisted'[c] = (unlisted[c] \union Enters(Head(queue[c]))) \ users'[c]
         /\ \A d \in Clients : d # c => users'[d] = users[d] /\ unlisted'[d] = unlisted[d]
         /\ \A n \in users'[c] : n \in users[c] \/ n \in Enters(Head(queue[c]))
  <1> DEFINE l == Head(queue[c])
  <1>1. l \in Lines /\ 1 \in DOMAIN queue[c] /\ l = queue[c][1]
    BY SeqTail DEF TypeOK, ReceiverStep
  <1>2. /\ users'[c] = UsersAfter(users[c], l)
        /\ unlisted'[c] = (unlisted[c] \union Enters(l)) \ users'[c]
        /\ \A d \in Clients : d # c => users'[d] = users[d] /\ unlisted'[d] = unlisted[d]
    BY DEF TypeOK, ReceiverStep
  <1>3. \A n \in users'[c] : n \in users[c] \/ n \in Enters(l)
    BY <1>2 DEF UsersAfter, AddUser
  <1> QED BY <1>1, <1>2, <1>3

\* At the start nobody lists a name but its own.
LEMMA NameInit == Init => NameInv
  BY DEF Init, NameInv

\* A line is taken.
LEMMA NameReceiver ==
  ASSUME TypeOK, JoinInv, LineInv, NameInv, NEW c \in Clients, ReceiverStep(c)
  PROVE  /\ \A n \in users'[c] :
              (\E p \in Clients : (p = c \/ Came(p)) /\ n = NameOf[p]) \/ ReadsJoined
         /\ unlisted'[c] # {} => ReadsJoined \/ \E i \in DOMAIN log : log[i].pid \notin Members
  <1> DEFINE l == Head(queue[c])
  <1>1. /\ l \in Lines /\ 1 \in DOMAIN queue[c] /\ l = queue[c][1]
        /\ users'[c] = UsersAfter(users[c], l)
        /\ unlisted'[c] = (unlisted[c] \union Enters(l)) \ users'[c]
        /\ \A n \in users'[c] : n \in users[c] \/ n \in Enters(l)
    BY ReceiverNames
  <1> HIDE DEF l
  <1>2. Came(c) /\ Grounded(l)
    BY <1>1 DEF LineInv
  <1>3. l.pid \in Clients
    BY <1>1 DEF Lines
  <1>4. ASSUME NEW n \in Enters(l)
        PROVE  (Came(l.pid) /\ n = NameOf[l.pid]) \/ ReadsJoined
    BY <1>1, <1>2, <1>4, EntersLeaves DEF Grounded
  <1>5. \A n \in users[c] :
          (\E p \in Clients : (p = c \/ Came(p)) /\ n = NameOf[p]) \/ ReadsJoined
    BY DEF NameInv
  <1>6. \A n \in users'[c] :
          (\E p \in Clients : (p = c \/ Came(p)) /\ n = NameOf[p]) \/ ReadsJoined
    BY <1>1, <1>3, <1>4, <1>5
  <1>7. ASSUME unlisted'[c] # {}, ~ReadsJoined, \A i \in DOMAIN log : log[i].pid \in Members
        PROVE  FALSE
    <2>1. \A p : Came(p) => p \in Members
      BY <1>7 DEF Came
    <2>2. unlisted[c] = {}
      BY <1>7 DEF NameInv
    <2>3. PICK x : x \in Enters(l) /\ x \notin users'[c]
      BY <1>1, <1>7, <2>2
    <2>4. x = NameOf[l.pid] /\ l.pid \in Members
      BY <1>4, <1>7, <2>1, <2>3
    <2>5. \A n \in users[c] \union {x} : \E p \in Members : n = NameOf[p]
      BY <1>2, <1>5, <1>7, <2>1, <2>4
    <2>6. IsFiniteSet(users[c])
      BY DEF TypeOK
    <2>7. x \in users[c] \/ Cardinality(users[c]) < MaxClients
      BY <2>5, <2>6, Room
    <2>8. x \in AddUser(users[c], Enters(l))
      BY <2>3, <2>7 DEF AddUser
    <2>9. l.kind # "reset"
      BY <1>1, <1>2, <1>7, <2>3, EntersLeaves DEF Grounded
    <2>10. x \notin Leaves(l)
      BY <1>1, <2>3, EntersLeaves
    <2> QED BY <1>1, <2>3, <2>8, <2>9, <2>10 DEF UsersAfter
  <1> QED BY <1>6, <1>7

\* Every step enters names that come from lines, and leaves one out only when the list is
\* full of names of which one is nobody's in the table.
LEMMA NameStep == TypeOK /\ JoinInv /\ LineInv /\ NameInv /\ [Next]_vars => NameInv'
  <1> SUFFICES ASSUME TypeOK, JoinInv, LineInv, NameInv, [Next]_vars PROVE NameInv'
    OBVIOUS
  <1>1. ASSUME NEW d \in Clients
        PROVE  /\ \A n \in users[d] :
                    (\E p \in Clients : (p = d \/ Came(p)) /\ n = NameOf[p]) \/ ReadsJoined
               /\ unlisted[d] # {} => ReadsJoined \/ \E i \in DOMAIN log : log[i].pid \notin Members
    BY DEF NameInv
  <1>2. ASSUME UNCHANGED <<clients, log>>
        PROVE  /\ Members' = Members /\ (\A d : Came(d)' <=> Came(d))
               /\ ReadsJoined' <=> ReadsJoined
               /\ log' = log
    BY <1>2, LogSame DEF Members
  <1>3. CASE Idle \/ SendNext
    <2>1. UNCHANGED <<clients, log, users, unlisted>>
      BY <1>3 DEF Idle, SendNext, clientVars
    <2> QED BY <1>1, <1>2, <2>1 DEF NameInv
  <1>4. ASSUME NEW c \in Clients, Own(c) PROVE NameInv'
    <2>1. UNCHANGED <<clients, log, unlisted>>
      BY <1>4 DEF Own
    <2>2. ASSUME NEW d \in Clients PROVE users'[d] = users[d] \/ users'[d] = {NameOf[d]}
      BY <1>4 DEF Own, TypeOK
    <2>3. ASSUME NEW d \in Clients
          PROVE  \A n \in users'[d] :
                   (\E p \in Clients : (p = d \/ Came(p)) /\ n = NameOf[p]) \/ ReadsJoined
      BY <1>1, <2>2
    <2> QED BY <1>1, <1>2, <2>1, <2>3 DEF NameInv
  <1>5. ASSUME NEW c \in Clients, ReceiverStep(c) PROVE NameInv'
    <2>1. UNCHANGED <<clients, log>>
      BY <1>5 DEF ReceiverStep, srvVars
    <2>2. /\ \A n \in users'[c] :
               (\E p \in Clients : (p = c \/ Came(p)) /\ n = NameOf[p]) \/ ReadsJoined
          /\ unlisted'[c] # {} => ReadsJoined \/ \E i \in DOMAIN log : log[i].pid \notin Members
      BY <1>5, NameReceiver
    <2>3. \A d \in Clients : d # c => users'[d] = users[d] /\ unlisted'[d] = unlisted[d]
      BY <1>5, ReceiverNames
    <2>4. ASSUME NEW d \in Clients
          PROVE  /\ \A n \in users'[d] :
                      (\E p \in Clients : (p = d \/ Came(p)) /\ n = NameOf[p]) \/ ReadsJoined
                 /\ unlisted'[d] # {} => ReadsJoined \/ \E i \in DOMAIN log : log[i].pid \notin Members
      BY <1>1, <2>2, <2>3
    <2> QED BY <1>2, <2>1, <2>4 DEF NameInv
  <1>6. CASE Receive
    <2>1. /\ UNCHANGED <<users, unlisted>>
          /\ \/ log' = log /\ clients' = clients
             \/ \E l \in RoomLine : Tells(l) /\ (Adds(l) \/ Repeats(l))
          /\ serverQueue # <<>> /\ serverQueue' = Tail(serverQueue)
      BY <1>6, ReceiveResult DEF clientVars
    <2>2. CASE log' = log /\ clients' = clients
      BY <1>1, <1>2, <2>1, <2>2 DEF NameInv
    <2>3. ASSUME NEW l \in RoomLine, Tells(l), Adds(l) \/ Repeats(l) PROVE NameInv'
      <3>1. log' = Append(log, l) /\ l.pid = Head(serverQueue).pid
        BY <2>3 DEF Tells
      <3>2. (\A d : Came(d) => Came(d)') /\ (ReadsJoined => ReadsJoined')
        BY <3>1, LogMore
      <3>3. ASSUME NEW i \in DOMAIN log, log[i].pid \notin Members
            PROVE  \E k \in DOMAIN log' : log'[k].pid \notin Members'
        <4>1. i \in DOMAIN log' /\ log'[i] = log[i]
          BY <3>1, SeqAppend DEF TypeOK
        <4>2. Adds(l) => ~Came(l.pid)
          BY <2>1, <3>1, QueueFacts DEF Adds
        <4>3. Adds(l) => log[i].pid # l.pid
          BY <4>2 DEF Came
        <4>4. Members' \subseteq Members \/ (Adds(l) /\ Members' = Members \union {l.pid})
          BY <2>3 DEF Adds, Repeats
        <4> QED BY <3>3, <4>1, <4>3, <4>4
      <3>4. ASSUME NEW d \in Clients
            PROVE  /\ \A n \in users'[d] :
                        (\E p \in Clients : (p = d \/ Came(p)') /\ n = NameOf[p]) \/ ReadsJoined'
                   /\ unlisted'[d] # {} =>
                        ReadsJoined' \/ \E i \in DOMAIN log' : log'[i].pid \notin Members'
        BY <1>1, <2>1, <3>2, <3>3
      <3> QED BY <3>4 DEF NameInv
    <2> QED BY <2>1, <2>2, <2>3
  <1> QED BY <1>3, <1>4, <1>5, <1>6, StepKinds

-----------------------------------------------------------------------------
(* Who is told of whom.                                                    *)

\* The sends o bring c a line about d, with no reset behind it; or no reset at all.
OutTells(o, c, d) ==
  \E i \in DOMAIN o : /\ o[i][1] = c /\ Announces(o[i][2], d)
                      /\ \A j \in DOMAIN o : j > i /\ o[j][1] = c => o[j][2].kind # "reset"
OutQuiet(o, c) == \A i \in DOMAIN o : o[i][1] = c => o[i][2].kind # "reset"

\* The same of a client's queue.
QueueTells(q, d) ==
  \E i \in DOMAIN q : Announces(q[i], d) /\ \A j \in DOMAIN q : j > i => q[j].kind # "reset"
QueueQuiet(q) == \A j \in DOMAIN q : q[j].kind # "reset"

\* Told, taken apart for a state and for the next one.
LEMMA ToldForm ==
  ASSUME NEW c, NEW d
  PROVE  /\ Told(c, d) <=>
              \/ OutTells(out, c, d)
              \/ OutQuiet(out, c) /\ QueueTells(queue[c], d)
              \/ OutQuiet(out, c) /\ QueueQuiet(queue[c]) /\ NameOf[d] \in users[c] \union unlisted[c]
         /\ Told(c, d)' <=>
              \/ OutTells(out', c, d)
              \/ OutQuiet(out', c) /\ QueueTells(queue'[c], d)
              \/ /\ OutQuiet(out', c) /\ QueueQuiet(queue'[c])
                 /\ NameOf[d] \in users'[c] \union unlisted'[c]
  <1> USE DEF Told, NoReset, OutTells, OutQuiet, QueueTells, QueueQuiet
  <1> HIDE DEF Announces
  <1>1. Told(c, d) <=>
          \/ OutTells(out, c, d)
          \/ OutQuiet(out, c) /\ QueueTells(queue[c], d)
          \/ OutQuiet(out, c) /\ QueueQuiet(queue[c]) /\ NameOf[d] \in users[c] \union unlisted[c]
    BY Zenon
  <1>2. Told(c, d)' <=>
          \/ OutTells(out', c, d)
          \/ OutQuiet(out', c) /\ QueueTells(queue'[c], d)
          \/ /\ OutQuiet(out', c) /\ QueueQuiet(queue'[c])
             /\ NameOf[d] \in users'[c] \union unlisted'[c]
    BY Zenon DEF Announces
  <1> QED BY <1>1, <1>2

\* The first of the sends is done.
LEMMA OutTailTells ==
  ASSUME NEW o \in Seq(Clients \X Lines), o # <<>>, NEW c, NEW d
  PROVE  /\ OutTells(o, c, d) =>
              \/ OutTells(Tail(o), c, d)
              \/ Head(o)[1] = c /\ Announces(Head(o)[2], d) /\ OutQuiet(Tail(o), c)
         /\ OutQuiet(o, c) =>
              OutQuiet(Tail(o), c) /\ (Head(o)[1] = c => Head(o)[2].kind # "reset")
  <1> DEFINE t == Tail(o)
  <1>1. /\ 1 \in DOMAIN o /\ Head(o) = o[1]
        /\ \A k \in DOMAIN t : k \in Nat \ {0} /\ k + 1 \in DOMAIN o /\ t[k] = o[k + 1]
        /\ \A k \in DOMAIN o : k # 1 => k - 1 \in DOMAIN t /\ t[k - 1] = o[k]
    BY SeqTail
  <1>2. \A k \in DOMAIN o : k \in Nat
    BY SeqDomain
  <1> HIDE DEF t
  <1>3. ASSUME OutTells(o, c, d)
        PROVE  OutTells(t, c, d) \/ (Head(o)[1] = c /\ Announces(Head(o)[2], d) /\ OutQuiet(t, c))
    <2>1. PICK i \in DOMAIN o :
            /\ o[i][1] = c /\ Announces(o[i][2], d)
            /\ \A j \in DOMAIN o : j > i /\ o[j][1] = c => o[j][2].kind # "reset"
      BY <1>3 DEF OutTells
    <2>2. CASE i = 1
      <3>1. ASSUME NEW k \in DOMAIN t, t[k][1] = c PROVE t[k][2].kind # "reset"
        <4>1. k \in Nat \ {0} /\ k + 1 \in DOMAIN o /\ t[k] = o[k + 1] /\ k + 1 > i
          BY <1>1, <2>2
        <4> QED BY <2>1, <3>1, <4>1
      <3> QED BY <1>1, <2>1, <2>2, <3>1 DEF OutQuiet
    <2>3. CASE i # 1
      <3>1. i - 1 \in DOMAIN t /\ t[i - 1] = o[i] /\ i \in Nat
        BY <1>1, <1>2, <2>3
      <3>2. ASSUME NEW k \in DOMAIN t, k > i - 1, t[k][1] = c PROVE t[k][2].kind # "reset"
        <4>1. k \in Nat \ {0} /\ k + 1 \in DOMAIN o /\ t[k] = o[k + 1]
          BY <1>1
        <4>2. k + 1 > i
          BY <3>1, <3>2, <4>1
        <4> QED BY <2>1, <3>2, <4>1, <4>2
      <3> QED BY <2>1, <3>1, <3>2 DEF OutTells
    <2> QED BY <2>2, <2>3
  <1>4. ASSUME OutQuiet(o, c)
        PROVE  OutQuiet(t, c) /\ (Head(o)[1] = c => Head(o)[2].kind # "reset")
    BY <1>1, <1>4 DEF OutQuiet
  <1> QED BY <1>3, <1>4 DEF t

\* A queue gets one line more.
LEMMA QueueMore ==
  ASSUME NEW q \in Seq(Lines), NEW l \in Lines, NEW d
  PROVE  /\ Announces(l, d) => QueueTells(Append(q, l), d)
         /\ l.kind # "reset" /\ QueueTells(q, d) => QueueTells(Append(q, l), d)
         /\ l.kind # "reset" /\ QueueQuiet(q) => QueueQuiet(Append(q, l))
  <1> DEFINE t == Append(q, l)
             n == Len(q) + 1
  <1>1. /\ DOMAIN t = DOMAIN q \union {n} /\ t[n] = l
        /\ \A k \in DOMAIN q : t[k] = q[k]
    BY SeqAppend
  <1>2. n \in Nat /\ \A k \in DOMAIN q : k \in Nat /\ k < n
    BY SeqDomain
  <1> HIDE DEF t, n
  <1>3. ASSUME Announces(l, d) PROVE QueueTells(t, d)
    <2>1. n \in DOMAIN t /\ Announces(t[n], d)
      BY <1>1, <1>3
    <2>2. \A j \in DOMAIN t : ~(j > n)
      BY <1>1, <1>2
    <2> QED BY <2>1, <2>2 DEF QueueTells
  <1>4. ASSUME l.kind # "reset", QueueTells(q, d) PROVE QueueTells(t, d)
    <2>1. PICK i \in DOMAIN q :
            Announces(q[i], d) /\ \A j \in DOMAIN q : j > i => q[j].kind # "reset"
      BY <1>4 DEF QueueTells
    <2>2. i \in DOMAIN t /\ Announces(t[i], d)
      BY <1>1, <2>1
    <2>3. \A j \in DOMAIN t : j > i => t[j].kind # "reset"
      BY <1>1, <1>4, <2>1
    <2> QED BY <2>2, <2>3 DEF QueueTells
  <1>5. ASSUME l.kind # "reset", QueueQuiet(q) PROVE QueueQuiet(t)
    BY <1>1, <1>5 DEF QueueQuiet
  <1> QED BY <1>3, <1>4, <1>5 DEF t

\* The first line of a queue is taken.
LEMMA QueueLess ==
  ASSUME NEW q \in Seq(Lines), q # <<>>, NEW d
  PROVE  /\ QueueTells(q, d) =>
              QueueTells(Tail(q), d) \/ (Announces(Head(q), d) /\ QueueQuiet(Tail(q)))
         /\ QueueQuiet(q) => QueueQuiet(Tail(q)) /\ Head(q).kind # "reset"
  <1> DEFINE t == Tail(q)
  <1>1. /\ 1 \in DOMAIN q /\ Head(q) = q[1]
        /\ \A k \in DOMAIN t : k \in Nat \ {0} /\ k + 1 \in DOMAIN q /\ t[k] = q[k + 1]
        /\ \A k \in DOMAIN q : k # 1 => k - 1 \in DOMAIN t /\ t[k - 1] = q[k]
    BY SeqTail
  <1>2. \A k \in DOMAIN q : k \in Nat
    BY SeqDomain
  <1> HIDE DEF t
  <1>3. ASSUME QueueTells(q, d)
        PROVE  QueueTells(t, d) \/ (Announces(Head(q), d) /\ QueueQuiet(t))
    <2>1. PICK i \in DOMAIN q :
            Announces(q[i], d) /\ \A j \in DOMAIN q : j > i => q[j].kind # "reset"
      BY <1>3 DEF QueueTells
    <2>2. CASE i = 1
      <3>1. ASSUME NEW k \in DOMAIN t PROVE t[k].kind # "reset"
        <4>1. k \in Nat \ {0} /\ k + 1 \in DOMAIN q /\ t[k] = q[k + 1] /\ k + 1 > i
          BY <1>1, <2>2
        <4> QED BY <2>1, <4>1
      <3> QED BY <1>1, <2>1, <2>2, <3>1 DEF QueueQuiet
    <2>3. CASE i # 1
      <3>1. i - 1 \in DOMAIN t /\ t[i - 1] = q[i] /\ i \in Nat
        BY <1>1, <1>2, <2>3
      <3>2. ASSUME NEW k \in DOMAIN t, k > i - 1 PROVE t[k].kind # "reset"
        <4>1. k \in Nat \ {0} /\ k + 1 \in DOMAIN q /\ t[k] = q[k + 1]
          BY <1>1
        <4>2. k + 1 > i
          BY <3>1, <3>2, <4>1
        <4> QED BY <2>1, <4>1, <4>2
      <3> QED BY <2>1, <3>1, <3>2 DEF QueueTells
    <2> QED BY <2>2, <2>3
  <1>4. ASSUME QueueQuiet(q) PROVE QueueQuiet(t) /\ Head(q).kind # "reset"
    BY <1>1, <1>4 DEF QueueQuiet
  <1> QED BY <1>3, <1>4 DEF t

\* At the start the table is empty.
LEMMA ToldInit == Init => ToldInv
  BY DEF Init, ToldInv, Members

\* A command is taken: all that was sent before is in the queues.
LEMMA ToldReceive ==
  ASSUME TypeOK, JoinInv, LineInv, ToldInv, Receive, NEW c \in Members', NEW d \in Members'
  PROVE  Told(c, d)' \/ \E e \in Namesakes(d) : HasLeft(e)'
  <1>1. /\ UNCHANGED <<queue, users, unlisted>> /\ srvPc = "receive"
        /\ \/ log' = log /\ clients' = clients /\ out' = <<>>
           \/ \E l \in RoomLine : Tells(l) /\ (Adds(l) \/ Repeats(l))
    BY ReceiveResult DEF clientVars
  <1>2. out = <<>>
    BY <1>1 DEF LineInv
  <1>3. ~OutTells(out, c, d)
    BY <1>2 DEF OutTells
  <1>4. ASSUME c \in Members, d \in Members, OutQuiet(out', c),
               \A e : HasLeft(e) => HasLeft(e)'
        PROVE  Told(c, d)' \/ \E e \in Namesakes(d) : HasLeft(e)'
    <2>1. Told(c, d) \/ \E e \in Namesakes(d) : HasLeft(e)
      BY <1>4 DEF ToldInv
    <2>2. Told(c, d) => QueueTells(queue[c], d)
            \/ (QueueQuiet(queue[c]) /\ NameOf[d] \in users[c] \union unlisted[c])
      BY <1>3, ToldForm
    <2>3. ASSUME \/ QueueTells(queue[c], d)
                 \/ QueueQuiet(queue[c]) /\ NameOf[d] \in users[c] \union unlisted[c]
          PROVE  Told(c, d)'
      BY <1>1, <1>4, <2>3, ToldForm
    <2> QED BY <1>4, <2>1, <2>2, <2>3
  <1>5. CASE log' = log /\ clients' = clients /\ out' = <<>>
    <2>1. Members' = Members /\ OutQuiet(out', c)
      BY <1>5 DEF Members, OutQuiet
    <2>2. \A e : HasLeft(e) => HasLeft(e)'
      BY <1>5, LogSame
    <2> QED BY <1>4, <2>1, <2>2
  <1>6. ASSUME NEW l \in RoomLine, Tells(l), Adds(l) \/ Repeats(l)
        PROVE  Told(c, d)' \/ \E e \in Namesakes(d) : HasLeft(e)'
    <2>1. log' = Append(log, l) /\ Spreads(out', Members', l)
      BY <1>6 DEF Tells
    <2>2. \A e : HasLeft(e) => HasLeft(e)'
      BY <2>1, LogMore
    <2>3. l.kind # "reset"
      BY DEF RoomLine
    <2>4. CASE Repeats(l)
      <3>1. OutQuiet(out', c)
        BY <2>3, <2>4 DEF OutQuiet, Repeats
      <3>2. c \in Members /\ d \in Members
        BY <2>4 DEF Repeats
      <3> QED BY <1>4, <2>2, <3>1, <3>2
    <2>5. CASE Adds(l)
      <3>1. /\ l = Line("joined", l.pid, None) /\ Members' = Members \union {l.pid}
            /\ \A k \in DOMAIN out' :
                 \/ out'[k][2] = l
                 \/ out'[k] = <<l.pid, Line("reset", l.pid, None)>>
                 \/ out'[k][1] = l.pid /\ \E e \in Members' : out'[k][2] = Line("user", e, None)
            /\ \A e \in Members' : \E k \in DOMAIN out' :
                 /\ out'[k] = <<l.pid, Line("user", e, None)>>
                 /\ \A j \in DOMAIN out' : j > k => out'[j][2].kind # "reset"
        BY <2>5 DEF Adds
      <3>2. CASE c = l.pid
        <4>1. PICK k \in DOMAIN out' : /\ out'[k] = <<l.pid, Line("user", d, None)>>
                                       /\ \A j \in DOMAIN out' : j > k => out'[j][2].kind # "reset"
          BY <3>1
        <4>2. out'[k][1] = c /\ Announces(out'[k][2], d)
          BY <3>2, <4>1 DEF Announces, Line
        <4>3. OutTells(out', c, d)
          BY <4>1, <4>2 DEF OutTells
        <4> QED BY <4>3, ToldForm
      <3>3. CASE c # l.pid /\ d = l.pid
        <4>1. PICK k \in DOMAIN out' :
                /\ out'[k] = <<c, l>>
                /\ \A j \in DOMAIN out' : out'[j][1] = c /\ j # k => j < k /\ out'[j][2] \notin RoomLine
          BY <2>1 DEF Spreads
        <4>2. out'[k][1] = c /\ Announces(out'[k][2], d)
          BY <3>1, <3>3, <4>1 DEF Announces, Line
        <4>3. ASSUME NEW j \in DOMAIN out', j > k, out'[j][1] = c PROVE out'[j][2].kind # "reset"
          <5>1. j \in Nat /\ k \in Nat
            BY <2>1, SeqDomain DEF Spreads
          <5>2. j = k \/ j < k
            BY <4>1, <4>3
          <5> QED BY <4>3, <5>1, <5>2
        <4>4. OutTells(out', c, d)
          BY <4>2, <4>3 DEF OutTells
        <4> QED BY <4>4, ToldForm
      <3>4. CASE c # l.pid /\ d # l.pid
        <4>1. ASSUME NEW k \in DOMAIN out', out'[k][1] = c PROVE out'[k][2].kind # "reset"
          <5>1. out'[k][2] = l
            BY <3>1, <3>4, <4>1
          <5> QED BY <2>3, <5>1
        <4>2. OutQuiet(out', c)
          BY <4>1 DEF OutQuiet
        <4>3. c \in Members /\ d \in Members
          BY <3>1, <3>4
        <4> QED BY <1>4, <2>2, <4>2, <4>3
      <3> QED BY <3>2, <3>3, <3>4
    <2> QED BY <1>6, <2>4, <2>5
  <1> QED BY <1>1, <1>5, <1>6

\* A line is sent.
LEMMA ToldSend ==
  ASSUME TypeOK, LineInv, SendNext, NEW c \in Clients, NEW d, Told(c, d)
  PROVE  Told(c, d)'
  <1> DEFINE x == Head(out)[1]
             l == Head(out)[2]
  <1>1. /\ out # <<>> /\ out' = Tail(out) /\ UNCHANGED <<users, unlisted>>
        /\ queue' = [queue EXCEPT ![x] = Append(@, l)]
    BY DEF SendNext, LineInv, clientVars
  <1>2. Head(out) \in Clients \X Lines /\ out \in Seq(Clients \X Lines)
    BY <1>1, SeqTail DEF TypeOK
  <1>3. x \in Clients /\ l \in Lines /\ queue \in [Clients -> Seq(Lines)]
    BY <1>2 DEF TypeOK
  <1>4. /\ OutTells(out, c, d) => OutTells(out', c, d)
             \/ (x = c /\ Announces(l, d) /\ OutQuiet(out', c))
        /\ OutQuiet(out, c) => OutQuiet(out', c) /\ (x = c => l.kind # "reset")
    BY <1>1, <1>2, OutTailTells
  <1> HIDE DEF x, l
  <1>5. CASE x # c
    <2>1. queue'[c] = queue[c]
      BY <1>1, <1>3, <1>5
    <2> QED BY <1>1, <1>4, <1>5, <2>1, ToldForm
  <1>6. CASE x = c
    <2>1. queue'[c] = Append(queue[c], l) /\ queue[c] \in Seq(Lines)
      BY <1>1, <1>3, <1>6
    <2>2. /\ Announces(l, d) => QueueTells(queue'[c], d)
          /\ l.kind # "reset" /\ QueueTells(queue[c], d) => QueueTells(queue'[c], d)
          /\ l.kind # "reset" /\ QueueQuiet(queue[c]) => QueueQuiet(queue'[c])
      BY <1>3, <2>1, QueueMore
    <2> QED BY <1>1, <1>4, <1>6, <2>2, ToldForm
  <1> QED BY <1>5, <1>6

\* A line is taken from c's queue.
LEMMA ToldReceiver ==
  ASSUME TypeOK, JoinInv, LineInv, NEW c \in Clients, ReceiverStep(c), NEW d \in Members, Told(c, d)
  PROVE  Told(c, d)' \/ \E e \in Namesakes(d) : HasLeft(e)
  <1> DEFINE l == Head(queue[c])
  <1>1. /\ queue[c] # <<>> /\ queue' = [queue EXCEPT ![c] = Tail(@)] /\ out' = out
    BY DEF ReceiverStep, srvVars
  <1>2. queue[c] \in Seq(Lines) /\ queue'[c] = Tail(queue[c])
    BY <1>1 DEF TypeOK
  <1>3. /\ l \in Lines /\ 1 \in DOMAIN queue[c] /\ l = queue[c][1]
        /\ users'[c] = UsersAfter(users[c], l)
        /\ unlisted'[c] = (unlisted[c] \union Enters(l)) \ users'[c]
    BY ReceiverNames
  <1>4. /\ QueueTells(queue[c], d) =>
             QueueTells(queue'[c], d) \/ (Announces(l, d) /\ QueueQuiet(queue'[c]))
        /\ QueueQuiet(queue[c]) => QueueQuiet(queue'[c]) /\ l.kind # "reset"
    BY <1>1, <1>2, QueueLess
  <1>5. Grounded(l) /\ l.pid \in Clients
    BY <1>3 DEF LineInv, Lines
  <1>6. d \in Clients /\ ~HasLeft(d)
    <2>1. d \in Clients
      BY SeqDomain DEF TypeOK, Members
    <2> QED BY <2>1 DEF JoinInv
  <1> HIDE DEF l
  <1>7. CASE OutTells(out, c, d)
    BY <1>1, <1>7, ToldForm
  <1>8. CASE OutQuiet(out, c) /\ QueueTells(queue[c], d)
    <2>1. CASE QueueTells(queue'[c], d)
      BY <1>1, <1>8, <2>1, ToldForm
    <2>2. CASE Announces(l, d) /\ QueueQuiet(queue'[c])
      <3>1. Enters(l) = {NameOf[d]}
        BY <1>3, <2>2, EntersLeaves
      <3>2. NameOf[d] \in users'[c] \union unlisted'[c]
        BY <1>3, <3>1
      <3> QED BY <1>1, <1>8, <2>2, <3>2, ToldForm
    <2> QED BY <1>4, <1>8, <2>1, <2>2
  <1>9. CASE OutQuiet(out, c) /\ QueueQuiet(queue[c]) /\ NameOf[d] \in users[c] \union unlisted[c]
    <2>1. QueueQuiet(queue'[c]) /\ l.kind # "reset"
      BY <1>4, <1>9
    <2>2. users'[c] = AddUser(users[c], Enters(l)) \ Leaves(l) /\ users[c] \subseteq AddUser(users[c], Enters(l))
      BY <1>3, <2>1 DEF UsersAfter, AddUser
    <2>3. CASE NameOf[d] \in Leaves(l)
      <3>1. l.kind = "left" /\ NameOf[d] = NameOf[l.pid]
        BY <1>3, <1>6, <2>3, EntersLeaves
      <3>2. HasLeft(l.pid)
        BY <1>5, <3>1 DEF Grounded
      <3>3. l.pid \in Namesakes(d)
        BY <1>5, <1>6, <3>1, <3>2 DEF Namesakes
      <3> QED BY <3>2, <3>3
    <2>4. CASE NameOf[d] \notin Leaves(l)
      <3>1. NameOf[d] \in users'[c] \union unlisted'[c]
        BY <1>3, <1>9, <2>2, <2>4
      <3> QED BY <1>1, <1>9, <2>1, <3>1, ToldForm
    <2> QED BY <2>3, <2>4
  <1> QED BY <1>7, <1>8, <1>9, ToldForm

\* Every step keeps the members told of each other.
LEMMA ToldStep == TypeOK /\ JoinInv /\ LineInv /\ ToldInv /\ [Next]_vars => ToldInv'
  <1> SUFFICES ASSUME TypeOK, JoinInv, LineInv, ToldInv, [Next]_vars PROVE ToldInv'
    OBVIOUS
  <1>1. \A c, d \in Members : Told(c, d) \/ \E e \in Namesakes(d) : HasLeft(e)
    BY DEF ToldInv
  <1>2. Members \subseteq Clients
    BY SeqDomain DEF TypeOK, Members
  <1>3. ASSUME UNCHANGED <<clients, log>>,
               \A c, d \in Members : Told(c, d) => Told(c, d)' \/ \E e \in Namesakes(d) : HasLeft(e)
        PROVE  ToldInv'
    <2>1. Members' = Members /\ \A e : HasLeft(e)' <=> HasLeft(e)
      BY <1>3, LogSame DEF Members
    <2> QED BY <1>1, <1>3, <2>1 DEF ToldInv
  <1>4. CASE Idle
    <2>1. UNCHANGED <<clients, log, out, queue, users, unlisted>>
      BY <1>4 DEF Idle
    <2>2. \A c, d \in Members : Told(c, d) => Told(c, d)'
      BY <2>1, ToldForm
    <2> QED BY <1>3, <2>1, <2>2
  <1>5. ASSUME NEW e \in Clients, Own(e) PROVE ToldInv'
    <2>1. UNCHANGED <<clients, log, out, queue, unlisted>>
      BY <1>5 DEF Own
    <2>2. ASSUME NEW c \in Members PROVE users'[c] = users[c]
      <3>1. c \in Clients /\ ~Joining(c)
        BY <1>2 DEF JoinInv
      <3> QED BY <1>5, <3>1 DEF Own, TypeOK
    <2>3. \A c, d \in Members : Told(c, d) => Told(c, d)'
      BY <2>1, <2>2, ToldForm
    <2> QED BY <1>3, <2>1, <2>3
  <1>6. CASE Receive
    BY <1>6, ToldReceive DEF ToldInv
  <1>7. CASE SendNext
    <2>1. UNCHANGED <<clients, log>>
      BY <1>7 DEF SendNext
    <2> QED BY <1>2, <1>3, <1>7, <2>1, ToldSend
  <1>8. ASSUME NEW e \in Clients, ReceiverStep(e) PROVE ToldInv'
    <2>1. UNCHANGED <<clients, log, out>> /\ queue' = [queue EXCEPT ![e] = Tail(@)]
      BY <1>8 DEF ReceiverStep, srvVars
    <2>2. ASSUME NEW c \in Members, NEW d \in Members, Told(c, d)
          PROVE  Told(c, d)' \/ \E f \in Namesakes(d) : HasLeft(f)
      <3>1. CASE c = e
        BY <1>8, <2>2, <3>1, ToldReceiver
      <3>2. CASE c # e
        <4>1. queue'[c] = queue[c] /\ users'[c] = users[c] /\ unlisted'[c] = unlisted[c]
          BY <1>2, <1>8, <2>1, <3>2, ReceiverNames DEF TypeOK
        <4> QED BY <2>1, <2>2, <4>1, ToldForm
      <3> QED BY <3>1, <3>2
    <2> QED BY <1>3, <2>1, <2>2
  <1> QED BY <1>4, <1>5, <1>6, <1>7, <1>8, StepKinds

-----------------------------------------------------------------------------
(* Endings of the log.                                                     *)

Ends(g, a) == \E b \in Seq(RoomLine) : g = b \o a
Begins(a, c) == \E t \in Seq(RoomLine) : a = <<Line("joined", c, None)>> \o t

\* An ending stays one when both get longer, or it gets shorter.
LEMMA EndsKept ==
  ASSUME NEW g \in Seq(RoomLine), NEW a \in Seq(RoomLine), NEW w \in Seq(RoomLine)
  PROVE  /\ Ends(g, a) => Ends(g \o w, a \o w)
         /\ Ends(g, w \o a) => Ends(g, a)
         /\ Ends(g \o w, w)
         /\ \A c : Begins(a, c) => Begins(a \o w, c)
  <1>1. ASSUME Ends(g, a) PROVE Ends(g \o w, a \o w)
    <2>1. PICK b \in Seq(RoomLine) : g = b \o a
      BY <1>1 DEF Ends
    <2>2. (b \o a) \o w = b \o (a \o w)
      BY ConcatAssociative, SMTT(30)
    <2> QED BY <2>1, <2>2 DEF Ends
  <1>2. ASSUME Ends(g, w \o a) PROVE Ends(g, a)
    <2>1. PICK b \in Seq(RoomLine) : g = b \o (w \o a)
      BY <1>2 DEF Ends
    <2>2. (b \o w) \o a = b \o (w \o a) /\ b \o w \in Seq(RoomLine)
      BY ConcatAssociative, ConcatProperties, SMTT(30)
    <2> QED BY <2>1, <2>2 DEF Ends
  <1>3. Ends(g \o w, w)
    BY DEF Ends
  <1>4. ASSUME NEW c, Begins(a, c) PROVE Begins(a \o w, c)
    <2>1. PICK t \in Seq(RoomLine) : a = <<Line("joined", c, None)>> \o t
      BY <1>4 DEF Begins
    <2> DEFINE j == <<Line("joined", c, None)>>
               T == RoomLine \union {Line("joined", c, None)}
    <2>2. j \in Seq(T) /\ t \in Seq(T) /\ w \in Seq(T)
      <3>1. Seq(RoomLine) \subseteq Seq(T)
        OBVIOUS
      <3> QED BY <3>1
    <2> HIDE DEF j, T
    <2>3. (j \o t) \o w = j \o (t \o w)
      BY <2>2, ConcatAssociative
    <2>4. t \o w \in Seq(RoomLine)
      BY ConcatProperties
    <2> QED BY <2>1, <2>3, <2>4 DEF Begins, j
  <1> QED BY <1>1, <1>2, <1>3, <1>4

\* The word w moves from the second part to the first, which loses v in front.
Moves(g, m, w, e, v, n, p, c) ==
  m \o w = v \o n =>
    /\ Ends(g, (m \o (w \o e)) \o p) => Ends(g, (n \o e) \o p)
    /\ v = <<>> /\ Begins((m \o (w \o e)) \o p, c) => Begins((n \o e) \o p, c)

\* Lines of a client move on from its queue to its window.
LEMMA Moved ==
  ASSUME NEW g, NEW m, NEW w, NEW e, NEW v, NEW n, NEW p, NEW c
  PROVE  /\ g \in Seq(RoomLine) /\ m \in Seq(RoomLine) /\ w \in Seq(RoomLine)
         /\ e \in Seq(RoomLine) /\ v \in Seq(RoomLine) /\ n \in Seq(RoomLine)
         /\ p \in Seq(RoomLine)
         => Moves(g, m, w, e, v, n, p, c)
  <1> DEFINE d == n \o e
             a == d \o p
             R == Seq(RoomLine)
  <1>1. m \in R /\ w \in R /\ e \in R => (m \o w) \o e = m \o (w \o e)
    BY ConcatAssociative
  <1>2. v \in R /\ n \in R /\ e \in R => (v \o n) \o e = v \o (n \o e)
    BY ConcatAssociative
  <1>3. n \in R /\ e \in R => d \in R
    BY ConcatProperties
  <1> HIDE DEF d
  <1>4. d \in R /\ p \in R => a \in R
    BY ConcatProperties
  <1>5. v \in R /\ d \in R /\ p \in R => (v \o d) \o p = v \o (d \o p)
    BY ConcatAssociative
  <1> HIDE DEF a
  <1>6. g \in R /\ v \in R /\ a \in R => (Ends(g, v \o a) => Ends(g, a))
    BY EndsKept
  <1>7. a \in R => <<>> \o a = a
    BY ConcatEmptySeq
  <1> HIDE DEF R
  <1> SUFFICES ASSUME g \in R /\ m \in R /\ w \in R /\ e \in R /\ v \in R /\ n \in R /\ p \in R
               PROVE  Moves(g, m, w, e, v, n, p, c)
    BY DEF R
  <1>8. a \in R /\ (v \o d) \o p = v \o a
    BY <1>3, <1>4, <1>5 DEF a
  <1>9. m \o w = v \o n => (m \o (w \o e)) \o p = v \o a
    BY <1>1, <1>2, <1>8 DEF d
  <1> QED BY <1>6, <1>7, <1>8, <1>9 DEF a, d, Moves

\* An ending is what SubSeq cuts off at the end.
LEMMA EndsIsSuffix ==
  ASSUME NEW g \in Seq(RoomLine), NEW a \in Seq(RoomLine), Ends(g, a)
  PROVE  Len(a) <= Len(g) /\ a = SubSeq(g, Len(g) - Len(a) + 1, Len(g))
  <1>1. PICK b \in Seq(RoomLine) : g = b \o a
    BY DEF Ends
  <1> DEFINE k == Len(a)
             n == Len(g)
             h == Len(b)
             s == SubSeq(g, n - k + 1, n)
  <1>2. k \in Nat /\ n \in Nat /\ h \in Nat /\ n = h + k
    BY <1>1, LenProperties, ConcatProperties
  <1>3. \A i \in 1 .. h + k : g[i] = IF i <= h THEN b[i] ELSE a[i - h]
    <2>1. \A i \in 1 .. h + k : (b \o a)[i] = IF i <= h THEN b[i] ELSE a[i - h]
      BY ConcatProperties
    <2> HIDE DEF h, k
    <2> QED BY <1>1, <2>1
  <1>4. \A i \in 1 .. n : g[i] \in RoomLine
    BY SeqDomain
  <1> HIDE DEF k, n, h
  <1>5. k <= n /\ n - k + 1 = h + 1
    BY <1>2
  <1>6. /\ s \in Seq(RoomLine) /\ Len(s) = IF h + 1 <= n THEN n - (h + 1) + 1 ELSE 0
        /\ \A i \in 1 .. n - (h + 1) + 1 : s[i] = g[(h + 1) + i - 1]
    <2>1. \A i \in h + 1 .. n : g[i] \in RoomLine
      BY <1>2, <1>4
    <2>2. h + 1 \in Int /\ n \in Int
      BY <1>2
    <2>3. s = SubSeq(g, h + 1, n)
      BY <1>5
    <2> HIDE DEF s
    <2>4. /\ SubSeq(g, h + 1, n) \in Seq(RoomLine)
          /\ Len(SubSeq(g, h + 1, n)) = IF h + 1 <= n THEN n - (h + 1) + 1 ELSE 0
          /\ \A i \in 1 .. n - (h + 1) + 1 : SubSeq(g, h + 1, n)[i] = g[(h + 1) + i - 1]
      BY <2>1, <2>2, SubSeqProperties
    <2> QED BY <2>3, <2>4
  <1> HIDE DEF s
  <1>7. Len(s) = k
    BY <1>2, <1>6
  <1>8. ASSUME NEW i \in 1 .. k PROVE s[i] = a[i]
    <2>1. /\ i \in 1 .. n - (h + 1) + 1 /\ (h + 1) + i - 1 = h + i
          /\ h + i \in 1 .. h + k /\ ~(h + i <= h) /\ (h + i) - h = i
      BY <1>2
    <2>2. s[i] = g[h + i]
      BY <1>6, <2>1
    <2>3. g[h + i] = a[(h + i) - h]
      BY <1>3, <2>1
    <2> QED BY <2>1, <2>2, <2>3
  <1>9. s = a
    BY <1>6, <1>7, <1>8, SeqEqual DEF k
  <1> QED BY <1>5, <1>9 DEF k, n, s

\* What begins with c's "joined".
LEMMA BeginsHead ==
  ASSUME NEW c \in Clients, NEW a, Begins(a, c)
  PROVE  a # <<>> /\ Head(a) = Line("joined", c, None)
  <1> DEFINE x == Line("joined", c, None)
  <1>1. x \in RoomLine
    BY LineTypes
  <1>2. PICK t \in Seq(RoomLine) : a = <<x>> \o t
    BY DEF Begins
  <1> HIDE DEF x
  <1>3. <<x>> \in Seq(RoomLine) /\ Len(<<x>>) = 1 /\ <<x>>[1] = x
    BY <1>1
  <1> DEFINE j == <<x>>
  <1> HIDE DEF j
  <1>4. /\ j \o t \in Seq(RoomLine) /\ Len(j \o t) = 1 + Len(t)
        /\ \A i \in 1 .. 1 + Len(t) : (j \o t)[i] = IF i <= 1 THEN j[i] ELSE t[i - 1]
    BY <1>3, ConcatProperties DEF j
  <1>5. Len(t) \in Nat
    BY LenProperties
  <1>6. a \in Seq(RoomLine) /\ Len(a) = 1 + Len(t) /\ a[1] = x
    <2>1. 1 \in 1 .. 1 + Len(t)
      BY <1>5
    <2> QED BY <1>2, <1>3, <1>4, <2>1 DEF j
  <1>7. a # <<>>
    BY <1>5, <1>6, SeqDomain
  <1> QED BY <1>6, <1>7, SeqTail DEF x

-----------------------------------------------------------------------------
(* The lines of the room a client shows or will get.                       *)

Seconds(s) == [i \in DOMAIN s |-> s[i][2]]
PendingIn(o, c) == Seconds(Only(o, {c} \X RoomLine))

\* The line itself, if it is one of the room.
Word(l) == IF l \in RoomLine THEN <<l>> ELSE <<>>

\* A line of the room, or none.
LEMMA WordType == \A l : Word(l) \in Seq(RoomLine)
  <1> SUFFICES ASSUME NEW l PROVE Word(l) \in Seq(RoomLine)
    OBVIOUS
  <1>1. CASE l \in RoomLine
    BY <1>1 DEF Word
  <1>2. CASE l \notin RoomLine
    BY <1>2 DEF Word
  <1> QED BY <1>1, <1>2

\* Second components.
LEMMA SecondsResult ==
  ASSUME NEW c, NEW s \in Seq({c} \X RoomLine), NEW x \in {c} \X RoomLine
  PROVE  /\ Seconds(s) \in Seq(RoomLine)
         /\ Seconds(<<x>> \o s) = <<x[2]>> \o Seconds(s)
         /\ Seconds(<<x>>) = <<x[2]>> /\ Seconds(<<>>) = <<>>
  <1> DEFINE S == {c} \X RoomLine
             n == Len(s)
             w == <<x>>
             y == <<x[2]>>
             u == Seconds(s)
             a == w \o s
  <1>1. n \in Nat /\ DOMAIN s = 1 .. n /\ \A i \in 1 .. n : s[i] \in S
    BY SeqDomain
  <1>2. u \in Seq(RoomLine) /\ Len(u) = n /\ \A i \in 1 .. n : u[i] = s[i][2]
    <2>1. \A i \in 1 .. n : s[i][2] \in RoomLine
      BY <1>1
    <2> HIDE DEF n
    <2>2. Seconds(s) = [i \in 1 .. n |-> s[i][2]]
      BY <1>1 DEF Seconds
    <2>3. [i \in 1 .. n |-> s[i][2]] \in Seq(RoomLine)
      BY <1>1, <2>1
    <2>4. DOMAIN u = 1 .. n /\ \A i \in 1 .. n : u[i] = s[i][2]
      BY <2>2
    <2>5. u \in Seq(RoomLine)
      BY <2>2, <2>3
    <2> HIDE DEF u
    <2> QED BY <1>1, <2>4, <2>5, SeqDomain
  <1>3. /\ w \in Seq(S) /\ Len(w) = 1 /\ w[1] = x
        /\ y \in Seq(RoomLine) /\ Len(y) = 1 /\ y[1] = x[2]
    OBVIOUS
  <1> HIDE DEF S, n, w, y, u
  <1>4. /\ a \in Seq(S) /\ Len(a) = 1 + n
        /\ \A i \in 1 .. 1 + n : a[i] = IF i <= 1 THEN w[i] ELSE s[i - 1]
    BY <1>3, ConcatProperties DEF S, n
  <1>5. /\ y \o u \in Seq(RoomLine) /\ Len(y \o u) = 1 + n
        /\ \A i \in 1 .. 1 + n : (y \o u)[i] = IF i <= 1 THEN y[i] ELSE u[i - 1]
    BY <1>2, <1>3, ConcatProperties, SMTT(30)
  <1> HIDE DEF a
  <1>6. DOMAIN a = 1 .. 1 + n
    BY <1>4, LenProperties
  <1> DEFINE b == y \o u
             t == Seconds(a)
  <1>7. DOMAIN t = 1 .. 1 + n /\ \A i \in 1 .. 1 + n : t[i] = a[i][2]
    BY <1>6 DEF Seconds
  <1>8. DOMAIN b = 1 .. 1 + n
    <2> HIDE DEF b
    <2> QED BY <1>5, LenProperties DEF b
  <1>9. ASSUME NEW i \in 1 .. 1 + n PROVE t[i] = b[i]
    <2>1. CASE i <= 1
      <3>1. i = 1
        BY <1>1, <2>1
      <3> QED BY <1>3, <1>4, <1>5, <1>7, <2>1, <3>1
    <2>2. CASE ~(i <= 1)
      <3>1. i - 1 \in 1 .. n
        BY <1>1, <2>2
      <3>2. a[i] = s[i - 1] /\ b[i] = u[i - 1]
        BY <1>4, <1>5, <2>2
      <3> QED BY <1>2, <1>7, <3>1, <3>2
    <2> QED BY <2>1, <2>2
  <1>10. t = b
    <2>1. t = [i \in 1 .. 1 + n |-> a[i][2]]
      BY <1>6 DEF Seconds
    <2>2. b = [i \in 1 .. 1 + n |-> b[i]]
      <3>1. b \in Seq(RoomLine)
        BY <1>5
      <3> HIDE DEF b
      <3>2. b \in [1 .. Len(b) -> RoomLine]
        BY <3>1, LenProperties
      <3> QED BY <1>8, <3>2
    <2> HIDE DEF b, t
    <2> QED BY <1>7, <1>9, <2>1, <2>2
  <1>11. Seconds(<<x>>) = <<x[2]>> /\ Seconds(<<>>) = <<>>
    BY DEF Seconds
  <1> QED BY <1>2, <1>10, <1>11 DEF u, a, y, w

\* The sends to c that are still to be done.
LEMMA PendingResult ==
  ASSUME NEW o \in Seq(Clients \X Lines), NEW c \in Clients
  PROVE  /\ PendingIn(o, c) \in Seq(RoomLine)
         /\ PendingIn(<<>>, c) = <<>>
         /\ o # <<>> =>
              PendingIn(o, c) = IF Head(o)[1] = c THEN Word(Head(o)[2]) \o PendingIn(Tail(o), c)
                                ELSE PendingIn(Tail(o), c)
         /\ \A k \in DOMAIN o, l \in RoomLine :
              /\ o[k] = <<c, l>>
              /\ \A j \in DOMAIN o : o[j][1] = c /\ j # k => o[j][2] \notin RoomLine
              => PendingIn(o, c) = <<l>>
  <1> DEFINE S == {c} \X RoomLine
             U == Clients \X Lines
  <1>1. \A q \in Seq(U) : Only(q, S) \in Seq(S)
    BY OnlyType
  <1>2. Only(<<>>, S) = <<>>
    <2>1. <<>> \in Seq(U) /\ \A i \in DOMAIN <<>> : <<>>[i] \notin S
      OBVIOUS
    <2> HIDE DEF S, U
    <2> QED BY <2>1, OnlyFew
  <1>3. Seconds(<<>>) = <<>>
    BY DEF Seconds
  <1>4. ASSUME NEW q \in Seq(U) PROVE Seconds(Only(q, S)) \in Seq(RoomLine)
    <2>1. PICK x : x \in S
      <3>1. <<c, Line("left", c, None)>> \in S
        BY LineTypes
      <3> QED BY <3>1
    <2>2. Only(q, S) \in Seq(S)
      BY <1>1
    <2> QED BY <2>1, <2>2, SecondsResult
  <1>5. ASSUME o # <<>>
        PROVE  PendingIn(o, c) = IF Head(o)[1] = c THEN Word(Head(o)[2]) \o PendingIn(Tail(o), c)
                                 ELSE PendingIn(Tail(o), c)
    <2> DEFINE h == Head(o)
               t == Tail(o)
    <2>1. h \in U /\ t \in Seq(U)
      BY <1>5, SeqTail
    <2>2. Only(o, S) = IF h \in S THEN <<h>> \o Only(t, S) ELSE Only(t, S)
      <3> HIDE DEF S, U
      <3> QED BY <1>5, OnlyTail DEF U
    <2>3. Only(t, S) \in Seq(S) /\ Seconds(Only(t, S)) \in Seq(RoomLine)
      BY <1>1, <1>4, <2>1
    <2>4. h \in S <=> h[1] = c /\ h[2] \in RoomLine
      BY <2>1
    <2> HIDE DEF h, t
    <2>5. CASE h \in S
      <3>1. Seconds(<<h>> \o Only(t, S)) = <<h[2]>> \o Seconds(Only(t, S))
        BY <2>3, <2>5, SecondsResult
      <3> QED BY <2>2, <2>4, <2>5, <3>1 DEF PendingIn, Word, h, t
    <2>6. CASE h \notin S
      <3>1. <<>> \o Seconds(Only(t, S)) = Seconds(Only(t, S))
        BY <2>3, ConcatEmptySeq
      <3> QED BY <2>2, <2>4, <2>6, <3>1 DEF PendingIn, Word, h, t
    <2> QED BY <2>5, <2>6
  <1>6. ASSUME NEW k \in DOMAIN o, NEW l \in RoomLine, o[k] = <<c, l>>,
               \A j \in DOMAIN o : o[j][1] = c /\ j # k => o[j][2] \notin RoomLine
        PROVE  PendingIn(o, c) = <<l>>
    <2>1. o[k] \in S /\ o[k][2] = l
      BY <1>6
    <2>2. \A j \in DOMAIN o : o[j] \in S => j = k
      BY <1>6
    <2> HIDE DEF S
    <2>3. Only(o, S) = <<o[k]>>
      BY <2>1, <2>2, OnlyFew
    <2>4. Seconds(<<o[k]>>) = <<o[k][2]>>
      BY DEF Seconds
    <2> QED BY <2>1, <2>3, <2>4 DEF PendingIn, S
  <1> QED BY <1>2, <1>3, <1>4, <1>5, <1>6 DEF PendingIn

-----------------------------------------------------------------------------
(* One order for all.                                                      *)

AllOf(ms, q, o, c) == (Only(ms, RoomLine) \o Only(q, RoomLine)) \o PendingIn(o, c)

\* What a client with these lines has of the log g is the end of it.
OrderOf(g, ms, q, o, c) ==
  /\ Ends(g, AllOf(ms, q, o, c))
  /\ Len(ms) < MaxMessages => Begins(AllOf(ms, q, o, c), c)

OrderInv == \A c \in Members : OrderOf(log, messages[c], queue[c], out, c)

\* A line is shown: what is lost is in front.
LEMMA PushOnly ==
  ASSUME NEW ms \in Seq(Shown), NEW x \in Shown
  PROVE  \E v \in Seq(RoomLine) :
           /\ Only(ms, RoomLine) \o Word(x) = v \o Only(Push(ms, x), RoomLine)
           /\ Len(Push(ms, x)) < MaxMessages => v = <<>> /\ Len(ms) < MaxMessages
  <1> DEFINE R == RoomLine
             w == Word(x)
  <1>1. \A s \in Seq(Shown) : Only(s, R) \in Seq(R)
    BY OnlyType
  <1>2. w \in Seq(R)
    BY WordType
  <1>3. \A s \in Seq(Shown) : Only(Append(s, x), R) = Only(s, R) \o w
    <2> TAKE s \in Seq(Shown)
    <2>1. Only(Append(s, x), R) = IF x \in R THEN Only(s, R) \o <<x>> ELSE Only(s, R)
      BY OnlyAppend
    <2>2. Only(s, R) \o <<>> = Only(s, R)
      BY <1>1, ConcatEmptySeq
    <2> QED BY <2>1, <2>2 DEF Word
  <1>4. Len(ms) \in Nat
    BY SeqDomain
  <1> HIDE DEF R, w
  <1>5. CASE Len(ms) < MaxMessages
    <2>1. Push(ms, x) = Append(ms, x)
      BY <1>5 DEF Push
    <2>2. Only(ms, R) \o w \in Seq(R)
      BY <1>1, <1>2, ConcatProperties
    <2>3. <<>> \o (Only(ms, R) \o w) = Only(ms, R) \o w
      BY <2>2, ConcatEmptySeq
    <2>4. <<>> \in Seq(R)
      BY EmptySeq
    <2> QED BY <1>3, <1>5, <2>1, <2>3, <2>4 DEF R, w
  <1>6. CASE ~(Len(ms) < MaxMessages)
    <2>1. ms # <<>> /\ Push(ms, x) = Append(Tail(ms), x)
      BY <1>4, <1>6, PushType, MqAssumption DEF Push
    <2> DEFINE t == Tail(ms)
               v == Word(Head(ms))
    <2>2. t \in Seq(Shown) /\ Len(t) = Len(ms) - 1
      BY <2>1, SeqTail
    <2>3. v \in Seq(R)
      BY WordType DEF R
    <2>4. Only(ms, R) = v \o Only(t, R)
      <3>1. Only(ms, R) = IF Head(ms) \in R THEN <<Head(ms)>> \o Only(t, R) ELSE Only(t, R)
        BY <2>1, OnlyTail
      <3>2. <<>> \o Only(t, R) = Only(t, R)
        BY <1>1, <2>2, ConcatEmptySeq
      <3> QED BY <3>1, <3>2 DEF Word, R
    <2>5. Len(Push(ms, x)) = Len(ms)
      <3>1. Len(Append(t, x)) = Len(t) + 1
        BY <2>2, SeqAppend
      <3> QED BY <1>4, <2>1, <2>2, <3>1
    <2>6. Only(Push(ms, x), R) = Only(t, R) \o w
      BY <1>3, <2>1, <2>2
    <2> DEFINE k == Only(t, R)
    <2>7. k \in Seq(R)
      BY <1>1, <2>2
    <2> HIDE DEF t, v, k
    <2>8. (v \o k) \o w = v \o (k \o w)
      BY <1>2, <2>3, <2>7, ConcatAssociative
    <2>9. Only(ms, R) \o w = v \o Only(Push(ms, x), R)
      BY <2>4, <2>6, <2>8 DEF k
    <2> QED BY <1>6, <2>3, <2>5, <2>9 DEF R, w
  <1> QED BY <1>5, <1>6

\* A client shows a line from its queue, or a note of its own.
LEMMA OrderShow ==
  ASSUME NEW g \in Seq(RoomLine), NEW ms \in Seq(Shown), NEW q \in Seq(Lines),
         NEW o \in Seq(Clients \X Lines), NEW c \in Clients, OrderOf(g, ms, q, o, c)
  PROVE  /\ \A x \in Shown : x \notin RoomLine => OrderOf(g, Push(ms, x), q, o, c)
         /\ q # <<>> /\ Head(q) \in RoomLine => OrderOf(g, Push(ms, Head(q)), Tail(q), o, c)
         /\ q # <<>> /\ Head(q) \notin RoomLine => OrderOf(g, ms, Tail(q), o, c)
  <1> DEFINE R == RoomLine
             m == Only(ms, R)
             k == Only(q, R)
             p == PendingIn(o, c)
  <1>1. m \in Seq(R) /\ k \in Seq(R) /\ p \in Seq(R)
    BY OnlyType, PendingResult
  <1>2. ASSUME NEW x \in Shown, NEW r \in Seq(Lines), k = Word(x) \o Only(r, R)
        PROVE  OrderOf(g, Push(ms, x), r, o, c)
    <2> DEFINE n == Only(Push(ms, x), R)
               e == Only(r, R)
               w == Word(x)
    <2>1. PICK v \in Seq(R) : /\ m \o w = v \o n
                              /\ Len(Push(ms, x)) < MaxMessages => v = <<>> /\ Len(ms) < MaxMessages
      BY PushOnly
    <2>2. n \in Seq(R) /\ e \in Seq(R) /\ w \in Seq(R)
      <3>1. Push(ms, x) \in Seq(Shown)
        BY PushType
      <3> QED BY <3>1, OnlyType, WordType
    <2>3. Ends(g, (m \o k) \o p) /\ (Len(ms) < MaxMessages => Begins((m \o k) \o p, c))
      BY DEF OrderOf, AllOf
    <2>4. k = w \o e
      BY <1>2
    <2> HIDE DEF R, m, k, p, n, e, w
    <2>5. g \in Seq(R)
      BY DEF R
    <2>9. Moves(g, m, w, e, v, n, p, c)
      BY <1>1, <2>2, <2>5, Moved DEF R
    <2>6. /\ Ends(g, (m \o (w \o e)) \o p) => Ends(g, (n \o e) \o p)
          /\ v = <<>> /\ Begins((m \o (w \o e)) \o p, c) => Begins((n \o e) \o p, c)
      BY <2>1, <2>9 DEF Moves
    <2>7. Ends(g, (n \o e) \o p)
      BY <2>3, <2>4, <2>6
    <2>8. ASSUME Len(Push(ms, x)) < MaxMessages PROVE Begins((n \o e) \o p, c)
      BY <2>1, <2>3, <2>4, <2>6, <2>8
    <2> QED BY <2>7, <2>8 DEF OrderOf, AllOf, R, n, e, p
  <1>3. ASSUME NEW x \in Shown, x \notin R PROVE OrderOf(g, Push(ms, x), q, o, c)
    <2>1. <<>> \o k = k
      BY <1>1, ConcatEmptySeq
    <2>2. Word(x) = <<>>
      BY <1>3 DEF Word
    <2> QED BY <1>2, <1>3, <2>1, <2>2
  <1>4. ASSUME q # <<>> PROVE
          /\ Head(q) \in Lines /\ Tail(q) \in Seq(Lines)
          /\ k = IF Head(q) \in R THEN <<Head(q)>> \o Only(Tail(q), R) ELSE Only(Tail(q), R)
    BY <1>4, SeqTail, OnlyTail
  <1>5. ASSUME q # <<>>, Head(q) \in R PROVE OrderOf(g, Push(ms, Head(q)), Tail(q), o, c)
    <2>1. Head(q) \in Shown
      BY <1>4, <1>5 DEF Shown
    <2>2. k = Word(Head(q)) \o Only(Tail(q), R)
      BY <1>4, <1>5 DEF Word
    <2> QED BY <1>2, <1>4, <1>5, <2>1, <2>2
  <1>6. ASSUME q # <<>>, Head(q) \notin R PROVE OrderOf(g, ms, Tail(q), o, c)
    <2>1. Only(Tail(q), R) = k
      BY <1>4, <1>6
    <2> QED BY <2>1 DEF OrderOf, AllOf
  <1> QED BY <1>3, <1>5, <1>6

\* A line is sent: it moves from the sends to its client's queue.
LEMMA OrderSend ==
  ASSUME NEW g, NEW ms \in Seq(Shown), NEW q \in Seq(Lines),
         NEW o \in Seq(Clients \X Lines), o # <<>>, NEW c \in Clients, OrderOf(g, ms, q, o, c)
  PROVE  /\ Head(o)[1] = c => OrderOf(g, ms, Append(q, Head(o)[2]), Tail(o), c)
         /\ Head(o)[1] # c => OrderOf(g, ms, q, Tail(o), c)
  <1> DEFINE R == RoomLine
             m == Only(ms, R)
             k == Only(q, R)
             p == PendingIn(Tail(o), c)
             l == Head(o)[2]
             w == Word(l)
  <1>1. Head(o) \in Clients \X Lines /\ Tail(o) \in Seq(Clients \X Lines)
    BY SeqTail
  <1>2. m \in Seq(R) /\ k \in Seq(R) /\ p \in Seq(R) /\ w \in Seq(R)
    BY <1>1, OnlyType, PendingResult, WordType
  <1>3. PendingIn(o, c) = IF Head(o)[1] = c THEN w \o p ELSE p
    BY PendingResult
  <1>4. Only(Append(q, l), R) = k \o w
    <2>1. l \in Lines
      BY <1>1
    <2>2. Only(Append(q, l), R) = IF l \in R THEN k \o <<l>> ELSE k
      <3> HIDE DEF l, R
      <3> QED BY <2>1, OnlyAppend
    <2>3. k \o <<>> = k
      BY <1>2, ConcatEmptySeq
    <2> QED BY <2>2, <2>3 DEF Word
  <1> HIDE DEF R, m, k, p, l, w
  <1>5. (m \o k) \o (w \o p) = (m \o (k \o w)) \o p
    <2> DEFINE d == m \o k
    <2>1. d \in Seq(R)
      BY <1>2, ConcatProperties
    <2>2. (m \o k) \o w = m \o (k \o w)
      BY <1>2, ConcatAssociative, SMTT(30)
    <2> HIDE DEF d
    <2>3. (d \o w) \o p = d \o (w \o p)
      BY <1>2, <2>1, ConcatAssociative, SMTT(30)
    <2> QED BY <2>2, <2>3 DEF d
  <1>6. CASE Head(o)[1] = c
    <2>1. AllOf(ms, q, o, c) = AllOf(ms, Append(q, l), Tail(o), c)
      BY <1>3, <1>4, <1>5, <1>6 DEF AllOf, R, m, k, p
    <2> QED BY <1>6, <2>1 DEF OrderOf, l
  <1>7. CASE Head(o)[1] # c
    <2>1. AllOf(ms, q, o, c) = AllOf(ms, q, Tail(o), c)
      BY <1>3, <1>7 DEF AllOf, p
    <2> QED BY <1>7, <2>1 DEF OrderOf
  <1> QED BY <1>6, <1>7

\* A line is broadcast.
LEMMA OrderTell ==
  ASSUME NEW g \in Seq(RoomLine), NEW ms \in Seq(Shown), NEW q \in Seq(Lines), NEW l \in RoomLine,
         NEW o \in Seq(Clients \X Lines), NEW c \in Clients, PendingIn(o, c) = <<l>>
  PROVE  /\ OrderOf(g, ms, q, <<>>, c) => OrderOf(Append(g, l), ms, q, o, c)
         /\ /\ q = <<>> /\ l = Line("joined", c, None)
            /\ \A i \in DOMAIN ms : ms[i] \notin RoomLine
            => OrderOf(Append(g, l), ms, q, o, c)
  <1> DEFINE R == RoomLine
             m == Only(ms, R)
             k == Only(q, R)
             a == m \o k
             w == <<l>>
  <1>1. m \in Seq(R) /\ k \in Seq(R) /\ w \in Seq(R)
    BY OnlyType
  <1>2. a \in Seq(R)
    BY <1>1, ConcatProperties
  <1>3. Append(g, l) = g \o w
    BY AppendIsConcat
  <1>4. AllOf(ms, q, o, c) = a \o w
    BY DEF AllOf
  <1>5. ASSUME OrderOf(g, ms, q, <<>>, c) PROVE OrderOf(Append(g, l), ms, q, o, c)
    <2>1. PendingIn(<<>>, c) = <<>> /\ a \o <<>> = a
      BY <1>2, PendingResult, ConcatEmptySeq
    <2>2. AllOf(ms, q, <<>>, c) = a
      BY <2>1 DEF AllOf
    <2>3. Ends(g, a) /\ (Len(ms) < MaxMessages => Begins(a, c))
      BY <1>5, <2>2 DEF OrderOf
    <2> HIDE DEF a, w, R
    <2>4. Ends(g \o w, a \o w) /\ (Begins(a, c) => Begins(a \o w, c))
      BY <1>1, <1>2, <2>3, EndsKept DEF R
    <2> QED BY <1>3, <1>4, <2>3, <2>4 DEF OrderOf
  <1>6. ASSUME q = <<>>, l = Line("joined", c, None), \A i \in DOMAIN ms : ms[i] \notin RoomLine
        PROVE  OrderOf(Append(g, l), ms, q, o, c)
    <2>1. m = <<>>
      BY <1>6, OnlyFew
    <2>2. k = <<>>
      <3>1. \A i \in DOMAIN q : q[i] \notin R
        BY <1>6
      <3> QED BY <3>1, OnlyFew
    <2> HIDE DEF m, k, w, R
    <2>3. a = <<>>
      BY <1>1, <2>1, <2>2, ConcatEmptySeq
    <2> HIDE DEF a
    <2>4. a \o w = w /\ w \o <<>> = w /\ <<>> \in Seq(R)
      BY <1>1, <2>3, ConcatEmptySeq, EmptySeq
    <2>5. Ends(g \o w, w)
      BY <1>1, EndsKept DEF R
    <2>6. Begins(w, c)
      BY <1>6, <2>4 DEF Begins, w, R
    <2> QED BY <1>3, <1>4, <2>4, <2>5, <2>6 DEF OrderOf
  <1> QED BY <1>5, <1>6

\* At the start the table is empty.
LEMMA OrderInit == Init => OrderInv
  BY DEF Init, OrderInv, Members

\* A command is taken; nothing was left to be sent.
LEMMA OrderReceive ==
  ASSUME TypeOK, JoinInv, LineInv, OrderInv, Receive, NEW c \in Members'
  PROVE  OrderOf(log', messages'[c], queue'[c], out', c)
  <1>1. /\ UNCHANGED <<queue, messages>> /\ srvPc = "receive"
        /\ serverQueue # <<>> /\ serverQueue' = Tail(serverQueue)
        /\ \/ log' = log /\ clients' = clients /\ out' = <<>>
           \/ \E l \in RoomLine : Tells(l) /\ (Adds(l) \/ Repeats(l))
    BY ReceiveResult DEF clientVars
  <1>2. out = <<>>
    BY <1>1 DEF LineInv
  <1>3. CASE log' = log /\ clients' = clients /\ out' = <<>>
    <2>1. c \in Members
      BY <1>3 DEF Members
    <2>2. OrderOf(log, messages[c], queue[c], out, c)
      BY <2>1 DEF OrderInv
    <2> QED BY <1>1, <1>2, <1>3, <2>2
  <1>4. ASSUME NEW l \in RoomLine, Tells(l), Adds(l) \/ Repeats(l)
        PROVE  OrderOf(log', messages'[c], queue'[c], out', c)
    <2>1. /\ log' = Append(log, l) /\ Spreads(out', Members', l) /\ clients' \in Seq(Clients)
          /\ l.pid = Head(serverQueue).pid
      BY <1>4 DEF Tells
    <2>2. c \in Clients
      BY <2>1, SeqDomain DEF Members
    <2>3. out' \in Seq(Clients \X Lines) /\ PendingIn(out', c) = <<l>>
      <3>1. out' \in Seq(Clients \X Lines)
        BY <2>1 DEF Spreads
      <3>2. PICK k \in DOMAIN out' :
              /\ out'[k] = <<c, l>>
              /\ \A j \in DOMAIN out' : out'[j][1] = c /\ j # k => j < k /\ out'[j][2] \notin RoomLine
        BY <2>1 DEF Spreads
      <3>3. \A j \in DOMAIN out' : out'[j][1] = c /\ j # k => out'[j][2] \notin RoomLine
        BY <3>2
      <3> DEFINE o == out'
      <3> HIDE DEF o
      <3>4. PendingIn(o, c) = <<l>>
        BY <2>2, <3>1, <3>2, <3>3, PendingResult DEF o
      <3> QED BY <3>1, <3>4 DEF o
    <2>4. messages[c] \in Seq(Shown) /\ queue[c] \in Seq(Lines) /\ log \in Seq(RoomLine)
      BY <2>2 DEF TypeOK, Shown
    <2>5. /\ OrderOf(log, messages[c], queue[c], <<>>, c) =>
               OrderOf(Append(log, l), messages[c], queue[c], out', c)
          /\ /\ queue[c] = <<>> /\ l = Line("joined", c, None)
             /\ \A i \in DOMAIN messages[c] : messages[c][i] \notin RoomLine
             => OrderOf(Append(log, l), messages[c], queue[c], out', c)
      BY <2>2, <2>3, <2>4, OrderTell
    <2>6. CASE c \in Members
      <3>1. OrderOf(log, messages[c], queue[c], <<>>, c)
        BY <1>2, <2>6 DEF OrderInv
      <3> QED BY <1>1, <2>1, <2>5, <3>1
    <2>7. CASE c \notin Members
      <3>1. Adds(l) /\ c = l.pid
        BY <1>4, <2>7 DEF Adds, Repeats
      <3>2. l = Line("joined", c, None)
        BY <3>1 DEF Adds
      <3>3. ~Came(c)
        BY <1>1, <2>1, <3>1, QueueFacts DEF Adds
      <3>4. \A i \in DOMAIN messages[c] : messages[c][i] \notin RoomLine
        BY <2>2, <3>3 DEF LineInv
      <3>5. queue[c] = <<>>
        <4>1. \A i \in DOMAIN queue[c] : FALSE
          BY <2>2, <3>3 DEF LineInv
        <4>2. queue[c] # <<>> => 1 \in DOMAIN queue[c]
          BY <2>4, SeqTail
        <4> QED BY <4>1, <4>2
      <3> QED BY <1>1, <2>1, <2>5, <3>2, <3>4, <3>5
    <2> QED BY <2>6, <2>7
  <1> QED BY <1>1, <1>3, <1>4

\* Every step keeps what the members have an ending of the log.
LEMMA OrderStep == TypeOK /\ JoinInv /\ LineInv /\ OrderInv /\ [Next]_vars => OrderInv'
  <1> SUFFICES ASSUME TypeOK, JoinInv, LineInv, OrderInv, [Next]_vars PROVE OrderInv'
    OBVIOUS
  <1>1. Members \subseteq Clients
    BY SeqDomain DEF TypeOK, Members
  <1>2. /\ messages \in [Clients -> Seq(Shown)] /\ queue \in [Clients -> Seq(Lines)]
        /\ out \in Seq(Clients \X Lines) /\ log \in Seq(RoomLine)
    BY DEF TypeOK, Shown
  <1>3. \A c \in Members : OrderOf(log, messages[c], queue[c], out, c)
    BY DEF OrderInv
  <1>4. ASSUME clients' = clients,
               \A c \in Members : OrderOf(log', messages'[c], queue'[c], out', c)
        PROVE  OrderInv'
    <2>1. Members' = Members
      BY <1>4 DEF Members
    <2> QED BY <1>4, <2>1 DEF OrderInv
  <1>5. CASE Idle
    <2>1. UNCHANGED <<clients, log, messages, queue, out>>
      BY <1>5 DEF Idle
    <2> QED BY <1>3, <1>4, <2>1
  <1>6. ASSUME NEW e \in Clients, Own(e) PROVE OrderInv'
    <2>1. UNCHANGED <<clients, log, queue, out>>
      BY <1>6 DEF Own
    <2> DEFINE x == Line(Note, e, None)
    <2>2. x \in Shown /\ x \notin RoomLine
      BY DEF Shown, Line, Note, RoomLine
    <2>3. ASSUME NEW c \in Members PROVE OrderOf(log', messages'[c], queue'[c], out', c)
      <3>1. messages'[c] = messages[c] \/ messages'[c] = Push(messages[c], x)
        BY <1>1, <1>2, <1>6 DEF Own
      <3> HIDE DEF x
      <3>2. OrderOf(log, messages[c], queue[c], out, c)
        BY <1>3
      <3>3. OrderOf(log, Push(messages[c], x), queue[c], out, c)
        BY <1>1, <1>2, <2>2, <3>2, OrderShow
      <3> QED BY <2>1, <3>1, <3>2, <3>3
    <2> QED BY <1>4, <2>1, <2>3
  <1>7. CASE Receive
    BY <1>7, OrderReceive DEF OrderInv
  <1>8. CASE SendNext
    <2> DEFINE h == Head(out)
    <2>1. /\ out # <<>> /\ out' = Tail(out) /\ UNCHANGED <<clients, log, messages>>
          /\ queue' = [queue EXCEPT ![h[1]] = Append(@, h[2])]
      BY <1>8 DEF SendNext, LineInv, clientVars
    <2>2. ASSUME NEW c \in Members PROVE OrderOf(log', messages'[c], queue'[c], out', c)
      <3>1. queue'[c] = IF h[1] = c THEN Append(queue[c], h[2]) ELSE queue[c]
        BY <1>1, <1>2, <2>1
      <3>2. OrderOf(log, messages[c], queue[c], out, c) /\ c \in Clients
        BY <1>1, <1>3
      <3>3. messages[c] \in Seq(Shown) /\ queue[c] \in Seq(Lines)
        BY <1>2, <3>2
      <3>4. /\ h[1] = c => OrderOf(log, messages[c], Append(queue[c], h[2]), Tail(out), c)
            /\ h[1] # c => OrderOf(log, messages[c], queue[c], Tail(out), c)
        BY <1>2, <2>1, <3>2, <3>3, OrderSend
      <3> HIDE DEF h
      <3> QED BY <2>1, <3>1, <3>4
    <2> QED BY <1>4, <2>1, <2>2
  <1>9. ASSUME NEW e \in Clients, ReceiverStep(e) PROVE OrderInv'
    <2> DEFINE l == Head(queue[e])
    <2>1. /\ queue[e] # <<>> /\ queue' = [queue EXCEPT ![e] = Tail(@)]
          /\ messages' = IF l.kind \in {"reset", "user"} THEN messages
                         ELSE [messages EXCEPT ![e] = Push(@, l)]
          /\ UNCHANGED <<clients, log, out>>
      BY <1>9 DEF ReceiverStep, srvVars
    <2>2. l \in Lines
      BY <1>2, <2>1, SeqTail
    <2>3. l.kind \in {"reset", "user"} <=> l \notin RoomLine
      BY <2>2 DEF Lines, RoomLine
    <2>4. ASSUME NEW c \in Members PROVE OrderOf(log', messages'[c], queue'[c], out', c)
      <3>1. OrderOf(log, messages[c], queue[c], out, c) /\ c \in Clients
        BY <1>1, <1>3
      <3>2. CASE c # e
        <4>1. queue'[c] = queue[c] /\ messages'[c] = messages[c]
          BY <1>2, <2>1, <3>1, <3>2
        <4> QED BY <2>1, <3>1, <4>1
      <3>3. CASE c = e
        <4>1. queue'[c] = Tail(queue[c])
          BY <1>2, <2>1, <3>3
        <4>2. messages'[c] = IF l \in RoomLine THEN Push(messages[c], l) ELSE messages[c]
          BY <1>2, <2>1, <2>3, <3>3
        <4>3. messages[c] \in Seq(Shown) /\ queue[c] \in Seq(Lines)
          BY <1>2, <3>1
        <4>4. /\ l \in RoomLine => OrderOf(log, Push(messages[c], l), Tail(queue[c]), out, c)
              /\ l \notin RoomLine => OrderOf(log, messages[c], Tail(queue[c]), out, c)
          BY <1>2, <2>1, <3>1, <3>3, <4>3, OrderShow
        <4> HIDE DEF l
        <4> QED BY <2>1, <4>1, <4>2, <4>4
      <3> QED BY <3>2, <3>3
    <2> QED BY <1>4, <2>1, <2>4
  <1> QED BY <1>5, <1>6, <1>7, <1>8, <1>9, StepKinds

-----------------------------------------------------------------------------
(* The theorems.                                                           *)

Inv == TypeOK /\ JoinInv /\ LineInv /\ NameInv /\ ToldInv /\ OrderInv

\* The invariant holds at the start and is kept by every step.
LEMMA InvAlways == Spec => []Inv
  <1>1. Init => Inv
    BY TypeInit, JoinInit, LineInit, NameInit, ToldInit, OrderInit DEF Inv
  <1>2. Inv /\ [Next]_vars => Inv'
    BY TypeStep, JoinStep, LineStep, NameStep, ToldStep, OrderStep DEF Inv
  <1> QED BY <1>1, <1>2, PTL DEF Spec

\* An ending of the log is the stretch of it that SameOrder names.
LEMMA OrderEnough == Inv => SameOrder
  <1> SUFFICES ASSUME Inv, NEW c \in Members
               PROVE  LET all == RoomLines(messages[c]) \o RoomLines(queue[c]) \o Pending(c)
                      IN  /\ Len(all) <= Len(log)
                          /\ all = SubSeq(log, Len(log) - Len(all) + 1, Len(log))
                          /\ Len(messages[c]) < MaxMessages =>
                               all # <<>> /\ Head(all) = Line("joined", c, None)
    BY DEF SameOrder
  <1> DEFINE a == AllOf(messages[c], queue[c], out, c)
  <1>1. RoomLines(messages[c]) \o RoomLines(queue[c]) \o Pending(c) = a
    BY DEF RoomLines, Pending, AllOf, PendingIn, Seconds
  <1>2. c \in Clients
    BY SeqDomain DEF Inv, TypeOK, Members
  <1>3. Ends(log, a) /\ (Len(messages[c]) < MaxMessages => Begins(a, c))
    BY DEF Inv, OrderInv, OrderOf
  <1>4. a \in Seq(RoomLine) /\ log \in Seq(RoomLine)
    <2> DEFINE m == Only(messages[c], RoomLine)
               k == Only(queue[c], RoomLine)
               p == PendingIn(out, c)
    <2>1. messages[c] \in Seq(Shown) /\ queue[c] \in Seq(Lines) /\ out \in Seq(Clients \X Lines)
      BY <1>2 DEF Inv, TypeOK, Shown
    <2>2. m \in Seq(RoomLine) /\ k \in Seq(RoomLine) /\ p \in Seq(RoomLine)
      BY <1>2, <2>1, OnlyType, PendingResult
    <2>3. a = (m \o k) \o p
      BY DEF AllOf
    <2> HIDE DEF m, k, p, a
    <2>4. m \o k \in Seq(RoomLine)
      BY <2>2, ConcatProperties
    <2>5. (m \o k) \o p \in Seq(RoomLine)
      BY <2>2, <2>4, ConcatProperties
    <2> QED BY <2>3, <2>5 DEF Inv, TypeOK
  <1> HIDE DEF a
  <1>5. Len(a) <= Len(log) /\ a = SubSeq(log, Len(log) - Len(a) + 1, Len(log))
    BY <1>3, <1>4, EndsIsSuffix
  <1>6. Len(messages[c]) < MaxMessages => a # <<>> /\ Head(a) = Line("joined", c, None)
    BY <1>2, <1>3, BeginsHead
  <1> QED BY <1>1, <1>5, <1>6

\* Who is told of everybody, and has nothing left to read, lists everybody.
LEMMA UsersEnough == Inv => UsersComplete
  <1> SUFFICES ASSUME Inv PROVE UsersComplete
    OBVIOUS
  <1>1. Len(clients) <= MaxClients
    BY DEF Inv, JoinInv
  <1>2. ASSUME srvPc = "receive", NEW c \in Members, queue[c] = <<>>
        PROVE  /\ \A d \in Members :
                    \/ NameOf[d] \in users[c] \union unlisted[c]
                    \/ \E e \in Namesakes(d) : HasLeft(e)
               /\ unlisted[c] # {} =>
                    \E i \in DOMAIN log : log[i].text \in JoinLike \/ log[i].pid \notin Members
    <2>1. out = <<>>
      BY <1>2 DEF Inv, LineInv
    <2>2. c \in Clients
      BY SeqDomain DEF Inv, TypeOK, Members
    <2>3. ASSUME NEW d \in Members, Told(c, d) PROVE NameOf[d] \in users[c] \union unlisted[c]
      BY <1>2, <2>1, <2>3, ToldForm DEF OutTells, QueueTells
    <2>4. \A d \in Members : Told(c, d) \/ \E e \in Namesakes(d) : HasLeft(e)
      BY DEF Inv, ToldInv
    <2>5. unlisted[c] # {} =>
            \E i \in DOMAIN log : log[i].text \in JoinLike \/ log[i].pid \notin Members
      BY <2>2 DEF Inv, NameInv, ReadsJoined
    <2> QED BY <2>3, <2>4, <2>5
  <1> QED BY <1>1, <1>2 DEF UsersComplete

\* Every client in the table shows, or will get, the lines of the room in the one order
\* in which the server broadcast them, without a gap, up to the last one and from its own
\* "joined" on as long as its window has not scrolled: for every number of clients and
\* texts, every length of the queues and of the window, whoever comes, quits, dies, fails
\* to send or stops reading, and also when the server stops in the middle of a broadcast.
THEOREM RoomInOneOrder == Spec => []SameOrder
  BY InvAlways, OrderEnough, PTL

\* The table holds MaxClients at most, and a client that has taken every line lists every
\* client in it, but for namesakes of one that left and for names that came when the list
\* was full of names of nobody in the table: for every number of clients and every size
\* of the table.
THEOREM ListsAreComplete == Spec => []UsersComplete
  BY InvAlways, UsersEnough, PTL
=============================================================================
