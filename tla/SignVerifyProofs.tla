-------------------------- MODULE SignVerifyProofs --------------------------
(***************************************************************************)
(* Proofs about the verification of signed documents, for any certificates *)
(* and store, any documents, and any answers of the network.  The lists of *)
(* certificates and of jobs are folds of the library: what they compute is *)
(* shown by induction, for which the least counterexample serves.          *)
(***************************************************************************)
EXTENDS SignVerify, TLAPS, FiniteSetTheorems, SequenceTheorems

-----------------------------------------------------------------------------
(* Induction over lists, by the least counterexample. *)

(* A set of natural numbers has a least member. *)
LEMMA LeastNumber ==
    ASSUME NEW T \in SUBSET Nat, T # {}
    PROVE  \E m \in T : \A k \in T : m <= k
  <1> DEFINE Upto(n) == 0..n
             U == {Upto(n) : n \in T}
             R == StrictSubsetOrdering(Nat)
  <1>1. \A n \in T : Upto(n) \in FiniteSubsetsOf(Nat)
    <2> TAKE n \in T
    <2>1. IsFiniteSet(0..n)
      BY FS_Interval
    <2> QED BY <2>1 DEF FiniteSubsetsOf
  <1>2. U \subseteq FiniteSubsetsOf(Nat) /\ U # {}
    BY <1>1
  <1>3. \E x \in U : \A y \in U : ~(<<y, x>> \in R)
    <2> HIDE DEF U, R
    <2> QED BY <1>2, FS_StrictSubsetOrderingWellFounded, WFMin DEF R
  <1>4. PICK m \in T : \A n \in T : <<Upto(n), Upto(m)>> \notin R
    BY <1>3
  <1>5. \A n \in T : m <= n
    <2> TAKE n \in T
    <2> SUFFICES ASSUME n < m PROVE FALSE
      OBVIOUS
    <2>1. Upto(n) \subseteq Upto(m) /\ m \in Upto(m) /\ m \notin Upto(n)
      OBVIOUS
    <2>2. <<Upto(n), Upto(m)>> \in (SUBSET Nat) \X (SUBSET Nat)
      OBVIOUS
    <2> QED BY <1>4, <2>1, <2>2 DEF StrictSubsetOrdering
  <1> QED BY <1>5

(* What holds of 0, and of n + 1 when of n, holds up to any bound. *)
LEMMA Induction ==
    ASSUME NEW b \in Nat, NEW G \in SUBSET (0..b), 0 \in G,
           \A n \in G : n < b => n + 1 \in G
    PROVE  G = 0..b
  <1> SUFFICES ASSUME (0..b) \ G # {} PROVE FALSE
    OBVIOUS
  <1>1. PICK m \in (0..b) \ G : \A k \in (0..b) \ G : m <= k
    <2>1. (0..b) \ G \in SUBSET Nat
      OBVIOUS
    <2> QED BY <2>1, LeastNumber
  <1>2. m # 0 /\ m - 1 \in 0..b
    BY <1>1
  <1>3. m - 1 \in G
    BY <1>1, <1>2
  <1> QED BY <1>1, <1>2, <1>3

(* FlattenSeq, as the library defines it. *)
Flat(s) == CHOOSE f : f = [i \in 1..Len(s) |-> IF i = 1 THEN s[i] ELSE f[i - 1] \o s[i]]

(* FlattenSeq is the last value of that function. *)
LEMMA FlatDef ==
    ASSUME NEW s, Len(s) # 0
    PROVE  FlattenSeq(s) = Flat(s)[Len(s)]
  BY DEF FlattenSeq, Flat

(* The function that FlattenSeq is the last value of exists. *)
LEMMA FlatExists ==
    ASSUME NEW s, Len(s) \in Nat
    PROVE  Flat(s) = [i \in 1..Len(s) |-> IF i = 1 THEN s[i] ELSE Flat(s)[i - 1] \o s[i]]
  <1> DEFINE Rec(g, m) == g = [i \in 1..m |-> IF i = 1 THEN s[i] ELSE g[i - 1] \o s[i]]
             G == {m \in 0..Len(s) : \E g : Rec(g, m)}
  <1>1. 0 \in G
    <2>1. Rec([i \in 1..0 |-> s[i]], 0)
      OBVIOUS
    <2>2. 0 \in 0..Len(s)
      OBVIOUS
    <2> HIDE DEF Rec
    <2> QED BY <2>1, <2>2
  <1>2. ASSUME NEW n \in G, n < Len(s) PROVE n + 1 \in G
    <2>1. PICK g : Rec(g, n)
      OBVIOUS
    <2>0. n \in Nat /\ \A i \in 1..n : g[i] = IF i = 1 THEN s[i] ELSE g[i - 1] \o s[i]
      <3>1. n \in Nat
        OBVIOUS
      <3>2. \A i \in 1..n : [j \in 1..n |-> IF j = 1 THEN s[j] ELSE g[j - 1] \o s[j]][i]
                            = IF i = 1 THEN s[i] ELSE g[i - 1] \o s[i]
        OBVIOUS
      <3> QED BY <2>1, <3>1, <3>2, Zenon
    <2> DEFINE h == [i \in 1..n + 1 |-> IF i <= n THEN g[i]
                                        ELSE IF i = 1 THEN s[i] ELSE g[i - 1] \o s[i]]
    <2>2. ASSUME NEW i \in 1..n + 1
          PROVE  h[i] = IF i = 1 THEN s[i] ELSE h[i - 1] \o s[i]
      <3>1. CASE i <= n
        <4>1. i \in 1..n /\ h[i] = g[i] /\ (i # 1 => h[i - 1] = g[i - 1])
          BY <2>0, <3>1
        <4> HIDE DEF h
        <4> QED BY <2>0, <4>1
      <3>2. CASE i = n + 1
        BY <2>0, <3>2
      <3> QED BY <2>0, <3>1, <3>2
    <2>3. Rec(h, n + 1)
      BY <2>2
    <2>4. n + 1 \in 0..Len(s)
      BY <1>2
    <2> HIDE DEF h, Rec
    <2> QED BY <2>3, <2>4
  <1>3. Len(s) \in G
    <2> HIDE DEF G
    <2>1. G \in SUBSET (0..Len(s))
      BY DEF G
    <2>2. G = 0..Len(s)
      BY <1>1, <1>2, <2>1, Induction
    <2> QED BY <2>2
  <1> QED BY <1>3 DEF Flat

(* x has the members of the first m sequences of s, and no others. *)
Joins(x, s, m, S) ==
    /\ x \in Seq(S)
    /\ \A k \in 1..Len(x) : \E i \in 1..m : \E j \in 1..Len(s[i]) : x[k] = s[i][j]
    /\ \A i \in 1..m : \A j \in 1..Len(s[i]) : \E k \in 1..Len(x) : x[k] = s[i][j]

(* FlattenSeq has the members of its members, and no others. *)
LEMMA Flattened ==
    ASSUME NEW S, NEW s \in Seq(Seq(S))
    PROVE  Joins(FlattenSeq(s), s, Len(s), S)
  <1>1. CASE Len(s) = 0
    <2>1. s = <<>>
      BY <1>1
    <2>2. FlattenSeq(s) = s
      BY <1>1 DEF FlattenSeq
    <2>3. FlattenSeq(s) = <<>> /\ Len(<<>>) = 0 /\ <<>> \in Seq(S)
      BY <2>1, <2>2
    <2> QED BY <1>1, <2>3 DEF Joins
  <1>2. CASE Len(s) # 0
    <2> DEFINE F == Flat(s)
               Holds(m) == Joins(F[m], s, m, S)
               b == Len(s)
               G == {m \in 0..b : m = 0 \/ Holds(m)}
    <2>1. b \in Nat /\ \A i \in 1..b : s[i] \in Seq(S)
      OBVIOUS
    <2>2. /\ b >= 1 /\ F[1] = s[1]
          /\ \A i \in 2..b : F[i] = F[i - 1] \o s[i]
      <3> HIDE DEF F
      <3>1. F = [i \in 1..b |-> IF i = 1 THEN s[i] ELSE F[i - 1] \o s[i]]
        BY <2>1, FlatExists DEF F
      <3>2. b >= 1
        BY <1>2, <2>1
      <3>3. \A i \in 1..b : F[i] = IF i = 1 THEN s[i] ELSE F[i - 1] \o s[i]
        BY <3>1
      <3>4. 1 \in 1..b /\ \A i \in 2..b : i \in 1..b /\ i # 1
        BY <2>1, <3>2
      <3> QED BY <3>2, <3>3, <3>4
    <2> HIDE DEF F
    <2>3. 0 \in G
      OBVIOUS
    <2>4. ASSUME NEW n \in G, n < b PROVE n + 1 \in G
      <3>1. CASE n = 0
        <4>1. F[1] = s[1] /\ s[1] \in Seq(S) /\ 1 \in 0..b
          BY <2>1, <2>2
        <4>2. Holds(1)
          BY <4>1 DEF Joins
        <4> HIDE DEF Holds
        <4> QED BY <3>1, <4>1, <4>2
      <3>2. CASE n # 0
        <4>1. n \in 1..b /\ n + 1 \in 1..b /\ Holds(n) /\ F[n + 1] = F[n] \o s[n + 1]
          <5>1. n + 1 \in 2..b /\ (n + 1) - 1 = n
            BY <2>4, <3>2
          <5>2. n \in 1..b /\ n + 1 \in 1..b /\ Holds(n)
            BY <2>1, <2>4, <3>2
          <5> HIDE DEF Holds
          <5> QED BY <2>2, <5>1, <5>2
        <4> DEFINE x == F[n]
                   y == s[n + 1]
        <4>2. x \in Seq(S) /\ y \in Seq(S) /\ F[n + 1] = x \o y
          BY <2>1, <4>1 DEF Joins
        <4>3. /\ F[n + 1] \in Seq(S) /\ Len(F[n + 1]) = Len(x) + Len(y)
              /\ \A k \in 1..Len(x) : F[n + 1][k] = x[k]
              /\ \A k \in 1..Len(y) : F[n + 1][Len(x) + k] = y[k]
          <5> HIDE DEF x, y
          <5> QED BY <4>2, ConcatProperties
        <4>4. ASSUME NEW k \in 1..Len(F[n + 1])
              PROVE  \E i \in 1..n + 1 : \E j \in 1..Len(s[i]) : F[n + 1][k] = s[i][j]
          <5>1. CASE k \in 1..Len(x)
            <6>1. PICK i \in 1..n : \E j \in 1..Len(s[i]) : x[k] = s[i][j]
              BY <4>1, <5>1 DEF Joins
            <6>2. F[n + 1][k] = x[k] /\ i \in 1..n + 1
              BY <4>3, <5>1
            <6> QED BY <6>1, <6>2
          <5>2. CASE k \notin 1..Len(x)
            <6>0. Len(x) \in Nat /\ Len(y) \in Nat /\ k \in 1..Len(x) + Len(y)
              <7> HIDE DEF x, y
              <7> QED BY <4>2, <4>3
            <6>1. k - Len(x) \in 1..Len(y) /\ Len(x) + (k - Len(x)) = k
              <7> HIDE DEF x, y
              <7> QED BY <5>2, <6>0
            <6>2. F[n + 1][k] = y[k - Len(x)]
              <7> HIDE DEF x, y
              <7> QED BY <4>3, <6>1
            <6>3. n + 1 \in 1..n + 1 /\ k - Len(x) \in 1..Len(s[n + 1])
              BY <4>1, <6>1
            <6> QED BY <6>2, <6>3
          <5> QED BY <5>1, <5>2
        <4>5. ASSUME NEW i \in 1..n + 1, NEW j \in 1..Len(s[i])
              PROVE  \E k \in 1..Len(F[n + 1]) : F[n + 1][k] = s[i][j]
          <5>1. CASE i = n + 1
            <6>0. Len(x) \in Nat /\ Len(y) \in Nat /\ j \in 1..Len(y)
              BY <4>2, <5>1
            <6>1. j \in 1..Len(y) /\ Len(x) + j \in 1..Len(F[n + 1])
              <7> HIDE DEF x, y
              <7> QED BY <4>3, <6>0
            <6>2. F[n + 1][Len(x) + j] = s[i][j]
              BY <4>3, <5>1, <6>1
            <6> QED BY <6>1, <6>2
          <5>2. CASE i # n + 1
            <6>3. i \in 1..n
              BY <4>1, <5>2
            <6>1. PICK k \in 1..Len(x) : x[k] = s[i][j]
              BY <4>1, <6>3 DEF Joins
            <6>0. Len(x) \in Nat /\ Len(y) \in Nat /\ k \in 1..Len(x)
              BY <4>2
            <6>2. k \in 1..Len(F[n + 1]) /\ F[n + 1][k] = x[k]
              <7> HIDE DEF x, y
              <7> QED BY <4>3, <6>0
            <6> QED BY <6>1, <6>2
          <5> QED BY <5>1, <5>2
        <4>6. Holds(n + 1)
          BY <4>3, <4>4, <4>5 DEF Joins
        <4> HIDE DEF Holds
        <4> QED BY <2>1, <4>1, <4>6
      <3> QED BY <3>1, <3>2
    <2>5. b \in G
      <3> HIDE DEF G
      <3>1. G \in SUBSET (0..b)
        BY DEF G
      <3>2. G = 0..b
        BY <2>1, <2>3, <2>4, <3>1, Induction
      <3> QED BY <2>1, <3>2
    <2>6. FlattenSeq(s) = F[b]
      BY <1>2, FlatDef DEF F
    <2>7. Holds(b)
      BY <1>2, <2>1, <2>5
    <2> QED BY <2>6, <2>7
  <1> QED BY <1>1, <1>2

-----------------------------------------------------------------------------
(* The store. *)

Buckets == {Bucket[x] : x \in DOMAIN Bucket}
Stores == [Buckets -> Range(BuiltIn) \cup {Null}]

(* LoadBuiltInCieCertificates, as the library's fold over the list computes it. *)
Loaded(st) == CHOOSE g : g = [s \in SUBSET (DOMAIN BuiltIn) |->
    IF s = {} THEN st ELSE AddCertificate(g[s \ {Max(s)}], BuiltIn[Max(s)])]

(* The library's fold is that function. *)
LEMMA LoadedDef ==
    ASSUME NEW st
    PROVE  LoadBuiltInCieCertificates(st) = Loaded(st)[DOMAIN BuiltIn]
  BY DEF LoadBuiltInCieCertificates, FoldLeft, MapThenFoldSet, Loaded

(* The greatest member of a set up to n that has n. *)
LEMMA MaxIs ==
    ASSUME NEW n \in Nat, NEW s \in SUBSET (1..n), n \in s
    PROVE  Max(s) = n
  <1>1. \A x \in s : (\A y \in s : x >= y) => x = n
    OBVIOUS
  <1>2. \A y \in s : n >= y
    OBVIOUS
  <1> QED BY <1>1, <1>2 DEF Max

(* The fold exists. *)
LEMMA LoadedExists ==
    ASSUME NEW st
    PROVE  Loaded(st) = [s \in SUBSET (DOMAIN BuiltIn) |->
              IF s = {} THEN st ELSE AddCertificate(Loaded(st)[s \ {Max(s)}], BuiltIn[Max(s)])]
  <1> DEFINE b == Len(BuiltIn)
             Val(g, s) == IF s = {} THEN st ELSE AddCertificate(g[s \ {Max(s)}], BuiltIn[Max(s)])
             Rec(g, m) == g = [s \in SUBSET (1..m) |-> Val(g, s)]
             G == {m \in 0..b : \E g : Rec(g, m)}
  <1>0. b \in Nat /\ DOMAIN BuiltIn = 1..b
    BY CertAssumption
  <1>1. 0 \in G
    <2> DEFINE g == [s \in SUBSET (1..0) |-> st]
    <2>1. Rec(g, 0)
      <3>1. \A s \in SUBSET (1..0) : s = {}
        OBVIOUS
      <3> QED BY <3>1
    <2>2. 0 \in 0..b
      BY <1>0
    <2> HIDE DEF Rec, g
    <2> QED BY <2>1, <2>2
  <1>2. ASSUME NEW n \in G, n < b PROVE n + 1 \in G
    <2>1. PICK g : Rec(g, n)
      OBVIOUS
    <2>2. n \in Nat /\ n + 1 \in 0..b
      BY <1>0, <1>2
    <2> DEFINE h == [s \in SUBSET (1..n + 1) |->
                       IF n + 1 \in s THEN AddCertificate(g[s \ {n + 1}], BuiltIn[n + 1]) ELSE g[s]]
    <2>3. ASSUME NEW s \in SUBSET (1..n) PROVE h[s] = g[s] /\ g[s] = Val(g, s)
      <3>1. n + 1 \notin s /\ s \in SUBSET (1..n + 1)
        BY <2>2
      <3>2. [t \in SUBSET (1..n) |-> Val(g, t)][s] = Val(g, s)
        <4> HIDE DEF Val
        <4> QED OBVIOUS
      <3>3. g[s] = Val(g, s)
        <4> HIDE DEF Val
        <4> QED BY <2>1, <3>2, Zenon
      <3> QED BY <3>1, <3>3
    <2>4. ASSUME NEW s \in SUBSET (1..n + 1) PROVE h[s] = Val(h, s)
      <3>1. CASE n + 1 \in s
        <4>1. Max(s) = n + 1 /\ s # {}
          BY <2>2, <3>1, MaxIs
        <4>2. s \ {n + 1} \in SUBSET (1..n)
          BY <2>2
        <4>3. h[s \ {n + 1}] = g[s \ {n + 1}]
          BY <2>3, <4>2
        <4>4. h[s] = AddCertificate(g[s \ {n + 1}], BuiltIn[n + 1])
          BY <3>1
        <4> HIDE DEF h
        <4> QED BY <4>1, <4>3, <4>4
      <3>2. CASE n + 1 \notin s
        <4>1. s \in SUBSET (1..n)
          BY <2>2, <3>2
        <4>2. h[s] = g[s] /\ g[s] = Val(g, s)
          BY <2>3, <4>1
        <4>3. CASE s = {}
          <5> HIDE DEF h
          <5> QED BY <4>2, <4>3
        <4>4. CASE s # {}
          <5>1. s \ {Max(s)} \in SUBSET (1..n)
            BY <4>1
          <5>2. h[s \ {Max(s)}] = g[s \ {Max(s)}]
            BY <2>3, <5>1
          <5> HIDE DEF h
          <5> QED BY <4>2, <4>4, <5>2
        <4> QED BY <4>3, <4>4
      <3> QED BY <3>1, <3>2
    <2>5. Rec(h, n + 1)
      <3> HIDE DEF Val
      <3> QED BY <2>4
    <2> HIDE DEF h, Rec
    <2> QED BY <2>2, <2>5
  <1>3. b \in G
    <2> HIDE DEF G
    <2>1. G \in SUBSET (0..b)
      BY DEF G
    <2>2. G = 0..b
      <3> HIDE DEF b
      <3> QED BY <1>0, <1>1, <1>2, <2>1, Induction
    <2> QED BY <1>0, <2>2
  <1>4. PICK g : Rec(g, b)
    BY <1>3
  <1> QED BY <1>0, <1>4 DEF Loaded

(* The compiled-in certificates are put into buckets of the store. *)
LEMMA LoadTyped ==
    ASSUME NEW st \in Stores
    PROVE  LoadBuiltInCieCertificates(st) \in Stores
  <1> DEFINE b == Len(BuiltIn)
             L == Loaded(st)
             G == {m \in 0..b : \A s \in SUBSET (1..m) : L[s] \in Stores}
  <1>0. b \in Nat /\ DOMAIN BuiltIn = 1..b /\ \A i \in 1..b : BuiltIn[i] \in Range(BuiltIn)
    BY CertAssumption DEF Range
  <1>1. \A s \in SUBSET (1..b) :
           L[s] = IF s = {} THEN st ELSE AddCertificate(L[s \ {Max(s)}], BuiltIn[Max(s)])
    <2> HIDE DEF L
    <2>1. L = [s \in SUBSET (1..b) |->
                 IF s = {} THEN st ELSE AddCertificate(L[s \ {Max(s)}], BuiltIn[Max(s)])]
      BY <1>0, LoadedExists DEF L
    <2> DEFINE Val(s) == IF s = {} THEN st ELSE AddCertificate(L[s \ {Max(s)}], BuiltIn[Max(s)])
    <2>2. L = [s \in SUBSET (1..b) |-> Val(s)]
      BY <2>1
    <2>3. \A s \in SUBSET (1..b) : L[s] = Val(s)
      <3> HIDE DEF Val
      <3> QED BY <2>2
    <2> QED BY <2>3
  <1> HIDE DEF L
  <1>2. 0 \in G
    <2>1. \A s \in SUBSET (1..0) : s = {}
      OBVIOUS
    <2>2. {} \in SUBSET (1..b) /\ L[{}] = st
      BY <1>1
    <2>3. \A s \in SUBSET (1..0) : L[s] \in Stores
      BY <2>1, <2>2
    <2>4. 0 \in 0..b
      BY <1>0
    <2> QED BY <2>3, <2>4
  <1>3. ASSUME NEW n \in G, n < b PROVE n + 1 \in G
    <2>1. n \in Nat /\ n + 1 \in 0..b /\ n + 1 \in 1..b
      BY <1>0, <1>3
    <2>2. ASSUME NEW s \in SUBSET (1..n + 1) PROVE L[s] \in Stores
      <3>1. CASE n + 1 \in s
        <4>1. Max(s) = n + 1 /\ s # {} /\ s \in SUBSET (1..b) /\ s \ {n + 1} \in SUBSET (1..n)
          BY <1>0, <2>1, <3>1, MaxIs
        <4>2. L[s] = AddCertificate(L[s \ {n + 1}], BuiltIn[n + 1])
          BY <1>1, <4>1
        <4>3. L[s \ {n + 1}] \in Stores
          BY <4>1
        <4>4. BuiltIn[n + 1] \in Range(BuiltIn)
          BY <1>0, <2>1
        <4> QED BY <4>2, <4>3, <4>4 DEF AddCertificate, Stores
      <3>2. CASE n + 1 \notin s
        <4>1. s \in SUBSET (1..n)
          BY <2>1, <3>2
        <4> QED BY <4>1
      <3> QED BY <3>1, <3>2
    <2> QED BY <2>1, <2>2
  <1>4. b \in G
    <2> HIDE DEF G
    <2>1. G \in SUBSET (0..b)
      BY DEF G
    <2>2. G = 0..b
      <3> HIDE DEF b
      <3> QED BY <1>0, <1>2, <1>3, <2>1, Induction
    <2> QED BY <1>0, <2>2
  <1>5. L[1..b] \in Stores
    BY <1>4
  <1> QED BY <1>0, <1>5, LoadedDef DEF L

(* The store before anything is loaded. *)
LEMMA EmptyTyped == EmptyStore \in Stores
  BY DEF EmptyStore, Stores, Buckets

-----------------------------------------------------------------------------
(* Chains. *)

(* A path of n links over compiled-in certificates from c to a. *)
Path(c, n, path, a) ==
    /\ path \in [1..n -> Range(BuiltIn)]
    /\ Link(c, path[1]) /\ \A i \in 1..(n - 1) : Link(path[i], path[i + 1])
    /\ path[n] = a
Reaches(c, a) == \E n \in Nat \ {0} : \E path : Path(c, n, path, a)

(* A chain of one link. *)
LEMMA ReachOne ==
    ASSUME NEW c, NEW a \in Range(BuiltIn), Link(c, a)
    PROVE  Reaches(c, a)
  <1>1. Path(c, 1, [i \in 1..1 |-> a], a)
    BY DEF Path
  <1> QED BY <1>1 DEF Reaches

(* A chain of one link more. *)
LEMMA ReachMore ==
    ASSUME NEW c, NEW a, Reaches(c, a), NEW b \in Range(BuiltIn), Link(a, b)
    PROVE  Reaches(c, b)
  <1>0. PICK n \in Nat \ {0} : \E path : Path(c, n, path, a)
    BY DEF Reaches
  <1>1. PICK path : Path(c, n, path, a)
    BY <1>0
  <1> DEFINE q == [i \in 1..n + 1 |-> IF i <= n THEN path[i] ELSE b]
  <1>2. /\ path \in [1..n -> Range(BuiltIn)] /\ Link(c, path[1]) /\ path[n] = a
        /\ \A i \in 1..(n - 1) : Link(path[i], path[i + 1])
    BY <1>1 DEF Path
  <1>3. q \in [1..n + 1 -> Range(BuiltIn)] /\ q[1] = path[1] /\ q[n + 1] = b
    BY <1>2
  <1>4. ASSUME NEW i \in 1..((n + 1) - 1) PROVE Link(q[i], q[i + 1])
    <2>1. CASE i < n
      <3>1. i \in 1..(n - 1) /\ q[i] = path[i] /\ q[i + 1] = path[i + 1]
        BY <2>1
      <3> HIDE DEF q
      <3> QED BY <1>2, <3>1
    <2>2. CASE i = n
      <3>1. q[i] = a /\ q[i + 1] = b
        BY <1>2, <2>2
      <3> HIDE DEF q
      <3> QED BY <3>1
    <2> QED BY <2>1, <2>2
  <1>5. Path(c, n + 1, q, b) /\ n + 1 \in Nat \ {0}
    <2> HIDE DEF q
    <2> QED BY <1>2, <1>3, <1>4 DEF Path
  <1> QED BY <1>5 DEF Reaches

(* A chain that visits a certificate twice has a shorter one. *)
LEMMA Shortcut ==
    ASSUME NEW c, NEW a, NEW n \in Nat \ {0}, NEW path, Path(c, n, path, a),
           NEW i \in 1..n, NEW j \in 1..n, i < j, path[i] = path[j]
    PROVE  \E q : Path(c, n - (j - i), q, a)
  <1> DEFINE m == n - (j - i)
             q == [k \in 1..m |-> IF k <= i THEN path[k] ELSE path[k + (j - i)]]
  <1>1. /\ path \in [1..n -> Range(BuiltIn)] /\ Link(c, path[1]) /\ path[n] = a
        /\ \A k \in 1..(n - 1) : Link(path[k], path[k + 1])
    BY DEF Path
  <1>2. m \in Nat /\ m >= i /\ m >= 1 /\ m < n
    OBVIOUS
  <1>3. \A k \in 1..m : /\ k <= i => q[k] = path[k]
                        /\ k >= i => q[k] = path[k + (j - i)] /\ k + (j - i) \in 1..n
    OBVIOUS
  <1>4. q \in [1..m -> Range(BuiltIn)]
    BY <1>1
  <1> HIDE DEF q, m
  <1>5. Link(c, q[1])
    BY <1>1, <1>2, <1>3
  <1>6. q[m] = a
    <2>1. m \in 1..m /\ m + (j - i) = n
      BY <1>2 DEF m
    <2> QED BY <1>1, <1>2, <1>3, <2>1
  <1>7. ASSUME NEW k \in 1..(m - 1) PROVE Link(q[k], q[k + 1])
    <2>1. CASE k < i
      <3>1. /\ k \in 1..m /\ k <= i /\ k + 1 \in 1..m /\ k + 1 <= i /\ k \in 1..(n - 1)
        BY <1>2, <2>1
      <3>2. q[k] = path[k] /\ q[k + 1] = path[k + 1]
        BY <1>3, <3>1
      <3> QED BY <1>1, <3>1, <3>2
    <2>2. CASE k >= i
      <3>1. /\ k \in 1..m /\ k + 1 \in 1..m /\ k + 1 >= i /\ (k + 1) + (j - i) = (k + (j - i)) + 1
            /\ k + (j - i) \in 1..(n - 1)
        BY <1>2, <2>2 DEF m
      <3>2. q[k] = path[k + (j - i)] /\ q[k + 1] = path[(k + (j - i)) + 1]
        BY <1>3, <2>2, <3>1
      <3> QED BY <1>1, <3>1, <3>2
    <2> QED BY <1>2, <2>1, <2>2
  <1>8. Path(c, m, q, a)
    BY <1>4, <1>5, <1>6, <1>7 DEF Path
  <1> QED BY <1>8 DEF m

(* A certificate that reaches an anchor is trusted: the shortest chain visits *)
(* no certificate twice, so it is no longer than the list.                    *)
LEMMA ReachTrusted ==
    ASSUME NEW c \in DOMAIN Certs, NEW a \in Anchors, Reaches(c, a)
    PROVE  Trusted(c)
  <1> DEFINE T == {n \in Nat \ {0} : \E path : Path(c, n, path, a)}
             b == Len(BuiltIn)
  <1>1. PICK n \in T : \A k \in T : n <= k
    <2>1. T # {} /\ T \in SUBSET Nat
      BY DEF Reaches
    <2> HIDE DEF T
    <2> QED BY <2>1, LeastNumber
  <1>2. PICK path : Path(c, n, path, a)
    OBVIOUS
  <1>3. n \in Nat \ {0} /\ path \in [1..n -> Range(BuiltIn)]
    BY <1>2 DEF Path
  <1>4. b \in Nat /\ BuiltIn \in Surjection(1..b, Range(BuiltIn))
    <2>1. b \in Nat /\ DOMAIN BuiltIn = 1..b /\ BuiltIn = [i \in 1..b |-> BuiltIn[i]]
      BY CertAssumption
    <2> QED BY <2>1 DEF Range, Surjection
  <1>5. IsFiniteSet(1..b) /\ Cardinality(1..b) = b /\ IsFiniteSet(1..n) /\ Cardinality(1..n) = n
    <2> HIDE DEF b
    <2>1. Cardinality(1..b) = IF 1 > b THEN 0 ELSE (b - 1) + 1
      BY <1>4, FS_Interval
    <2>2. Cardinality(1..n) = IF 1 > n THEN 0 ELSE (n - 1) + 1
      BY <1>3, FS_Interval
    <2> QED BY <1>3, <1>4, <2>1, <2>2, FS_Interval
  <1>6. IsFiniteSet(Range(BuiltIn)) /\ Cardinality(Range(BuiltIn)) <= b /\ Cardinality(Range(BuiltIn)) \in Nat
    <2> HIDE DEF b
    <2> QED BY <1>4, <1>5, FS_Surjection, FS_CardinalityType
  <1>7. n <= b
    <2> SUFFICES ASSUME n > b PROVE FALSE
      BY <1>3, <1>4
    <2>1. Cardinality(Range(BuiltIn)) < Cardinality(1..n)
      BY <1>3, <1>4, <1>5, <1>6
    <2>2. \E x, y \in 1..n : x # y /\ path[x] = path[y]
      BY <1>3, <1>5, <1>6, <2>1, FS_PigeonHole
    <2>3. PICK i \in 1..n, j \in 1..n : i < j /\ path[i] = path[j]
      BY <1>3, <2>2
    <2>4. \E q : Path(c, n - (j - i), q, a)
      BY <1>2, <1>3, <2>3, Shortcut
    <2>5. n - (j - i) \in Nat \ {0} /\ n - (j - i) < n
      BY <1>3, <2>3
    <2>6. n - (j - i) \in T
      BY <2>4, <2>5
    <2> HIDE DEF T
    <2> QED BY <1>1, <1>3, <2>5, <2>6
  <1>8. n \in 1..b
    BY <1>3, <1>4, <1>7
  <1>9. /\ path \in [1..n -> Range(BuiltIn)] /\ Link(c, path[1])
        /\ \A i \in 1..(n - 1) : Link(path[i], path[i + 1])
        /\ path[n] \in Anchors
    BY <1>2 DEF Path
  <1> QED BY <1>8, <1>9 DEF Trusted, TrustedCerts

-----------------------------------------------------------------------------
(* The jobs of a document. *)

JobFields == {"kind", "node", "parent", "slot"}

(* The content a signature of d has to be over. *)
ContentOf(d) == IF isDetached(d) THEN "plain" ELSE d.content

(* A job is about a signature that is there. *)
Aims(d, job) == DOMAIN job = JobFields /\ NodeOf(d, job) \in NodeRecord

(* A job asks for the right content, or for none. *)
Asks(d, job, content) ==
    \/ NotEvenTried(d, job)
    \/ SourceOf(NodeOf(d, job), job, content) = SourceOf(NodeOf(d, job), job, ContentOf(d))

(* Every signer that is counted has its job. *)
HasJob(d, jobs, i) == \E j \in 1..Len(jobs) :
    /\ jobs[j].slot = <<i, 0, 0>> /\ jobs[j].kind # "tst"
    /\ d.nodes[jobs[j].node].parent = 0 /\ Place(d, jobs[j].node) = i

(* What a file can hold. *)
LEMMA DocFacts ==
    ASSUME NEW f \in DOMAIN Docs, NEW d, d = Docs[f]
    PROVE  /\ d.nodes \in Seq(NodeRecord) /\ d.token \in Seq(NodeRecord)
           /\ Len(d.nodes) \in Nat /\ DOMAIN d.nodes = 1..Len(d.nodes)
           /\ \A n \in DOMAIN d.nodes : d.nodes[n] \in NodeRecord /\ d.nodes[n].parent \in 0..n - 1
           /\ d.token # <<>> => d.token[1] \in NodeRecord
           /\ d.type \in {"pdf", "xml"} => \A n \in DOMAIN d.nodes : d.nodes[n].parent = 0
           /\ d.detached => d.type \in {"p7m", "m7m", "tsd"}
           /\ d.type \in {"tsd", "tsr", "tst"} /\ d.parses => d.token # <<>>
           /\ (\E n \in DOMAIN d.nodes : d.nodes[n].tst) => d.token # <<>>
  <1>1. d \in DocRecord
    BY DocAssumption
  <1>2. d.nodes \in Seq(NodeRecord) /\ d.token \in Seq(NodeRecord)
    BY <1>1 DEF DocRecord
  <1>3. \A n \in DOMAIN d.nodes : d.nodes[n] \in NodeRecord /\ d.nodes[n].parent \in Nat
    <2>1. \A n \in DOMAIN d.nodes : d.nodes[n] \in NodeRecord
      BY <1>2
    <2>2. \A x \in NodeRecord : x.parent \in Nat
      BY DEF NodeRecord
    <2> QED BY <2>1, <2>2
  <1>4. d.token # <<>> => d.token[1] \in NodeRecord
    BY <1>2
  <1>5. Len(d.nodes) \in Nat /\ DOMAIN d.nodes = 1..Len(d.nodes)
    BY <1>2
  <1>6. \A n \in DOMAIN d.nodes : d.nodes[n].parent < n
    BY ShapeAssumption
  <1>7. \A n \in DOMAIN d.nodes : d.nodes[n].parent \in 0..n - 1
    BY <1>3, <1>5, <1>6
  <1>8. /\ d.type \in {"pdf", "xml"} => \A n \in DOMAIN d.nodes : d.nodes[n].parent = 0
        /\ d.detached => d.type \in {"p7m", "m7m", "tsd"}
        /\ d.type \in {"tsd", "tsr", "tst"} /\ d.parses => d.token # <<>>
        /\ (\E n \in DOMAIN d.nodes : d.nodes[n].tst) => d.token # <<>>
    BY ShapeAssumption
  <1> QED BY <1>2, <1>3, <1>4, <1>5, <1>7, <1>8

(* A signature has a signer above it. *)
LEMMA TopIs ==
    ASSUME NEW f \in DOMAIN Docs, NEW d, d = Docs[f], NEW n \in DOMAIN d.nodes
    PROVE  TopOf(d, n) \in DOMAIN d.nodes
  <1> DEFINE U == {i \in Tops(d) : i <= n}
             D == {n - i : i \in U}
  <1>1. n \in 1..Len(d.nodes) /\ Len(d.nodes) \in Nat /\ DOMAIN d.nodes = 1..Len(d.nodes)
    BY DocFacts
  <1>2. 1 \in U
    <2>1. 1 \in DOMAIN d.nodes /\ d.nodes[1].parent \in 0..1 - 1
      BY <1>1, DocFacts
    <2> QED BY <1>1, <2>1 DEF Tops
  <1>3. U \subseteq 1..n
    BY <1>1 DEF Tops
  <1>4. PICK x \in D : \A y \in D : x <= y
    <2>1. D \in SUBSET Nat /\ D # {}
      BY <1>1, <1>2, <1>3
    <2> HIDE DEF D
    <2> QED BY <2>1, LeastNumber
  <1>5. PICK i \in U : x = n - i
    OBVIOUS
  <1>6. \A j \in U : j <= i
    <2> TAKE j \in U
    <2>1. n - j \in D /\ i \in 1..n /\ j \in 1..n
      BY <1>3
    <2>2. n - i <= n - j
      <3> HIDE DEF D
      <3> QED BY <1>4, <1>5, <2>1
    <2>3. n \in Nat
      BY <1>1
    <2> HIDE DEF D, U
    <2> QED BY <2>1, <2>2, <2>3
  <1>7. i \in Tops(d) /\ i <= n /\ \A j \in Tops(d) : j <= n => j <= i
    BY <1>6
  <1>8. TopOf(d, n) \in Tops(d)
    <2> HIDE DEF U
    <2> QED BY <1>7 DEF TopOf
  <1> QED BY <1>8 DEF Tops

(* Short lists put together. *)
LEMMA Joined ==
    ASSUME NEW a, NEW b, NEW c
    PROVE  /\ <<a>> \o <<>> = <<a>> /\ <<a>> \o <<c>> = <<a, c>> /\ <<a>> \o <<b>> = <<a, b>>
           /\ <<a, b>> \o <<>> = <<a, b>> /\ <<a, b>> \o <<c>> = <<a, b, c>>
  <1> DEFINE S == {a, b, c}
  <1>1. /\ <<a>> \in Seq(S) /\ <<b>> \in Seq(S) /\ <<c>> \in Seq(S) /\ <<a, b>> \in Seq(S)
        /\ <<a, c>> \in Seq(S) /\ <<a, b, c>> \in Seq(S)
    OBVIOUS
  <1> HIDE DEF S
  <1>2. \A x \in Seq(S) : x \o <<>> = x
    BY ConcatEmptySeq
  <1>3. ASSUME NEW x \in Seq(S), NEW y \in S, NEW z \in Seq(S), <<y>> \in Seq(S), Len(z) = Len(x) + 1,
               \A i \in 1..Len(x) : z[i] = x[i], z[Len(x) + 1] = y
        PROVE  x \o <<y>> = z
    <2>1. /\ x \o <<y>> \in Seq(S) /\ Len(x \o <<y>>) = Len(x) + 1
          /\ \A i \in 1..Len(x) : (x \o <<y>>)[i] = x[i]
          /\ (x \o <<y>>)[Len(x) + 1] = y
      BY <1>3, ConcatProperties
    <2>2. Len(x) \in Nat
      OBVIOUS
    <2>3. \A i \in 1..Len(z) : (x \o <<y>>)[i] = z[i]
      BY <1>3, <2>1, <2>2
    <2> QED BY <1>3, <2>1, <2>3, SeqEqual
  <1>4. a \in S /\ b \in S /\ c \in S
    BY DEF S
  <1>5. ASSUME NEW y \in S, <<y>> \in Seq(S), <<a, y>> \in Seq(S)
        PROVE  <<a>> \o <<y>> = <<a, y>>
    <2> DEFINE x == <<a>>
               z == <<a, y>>
    <2>1. Len(x) = 1 /\ Len(z) = Len(x) + 1 /\ z[Len(x) + 1] = y /\ \A i \in 1..Len(x) : z[i] = x[i]
      OBVIOUS
    <2>2. x \in Seq(S) /\ z \in Seq(S)
      BY <1>1, <1>5
    <2> HIDE DEF x, z
    <2>3. x \o <<y>> = z
      BY <1>3, <1>5, <2>1, <2>2
    <2> QED BY <2>3 DEF x, z
  <1>6. <<a, b>> \o <<c>> = <<a, b, c>>
    <2> DEFINE x == <<a, b>>
               z == <<a, b, c>>
    <2>1. Len(x) = 2 /\ Len(z) = Len(x) + 1 /\ z[Len(x) + 1] = c /\ \A i \in 1..Len(x) : z[i] = x[i]
      OBVIOUS
    <2>2. x \in Seq(S) /\ z \in Seq(S) /\ <<c>> \in Seq(S)
      BY <1>1
    <2> HIDE DEF x, z
    <2>3. x \o <<c>> = z
      BY <1>3, <1>4, <2>1, <2>2
    <2> QED BY <2>3 DEF x, z
  <1>7. <<a>> \o <<c>> = <<a, c>> /\ <<a>> \o <<b>> = <<a, b>>
    BY <1>1, <1>4, <1>5
  <1> QED BY <1>1, <1>2, <1>6, <1>7

(* The jobs of one signature: its own, and those of tokens. *)
PartOf(d, n, s) ==
    /\ Len(s) \in 1..3 /\ DOMAIN s = 1..Len(s) /\ s \in Seq({s[j] : j \in 1..3})
    /\ s[1].kind = "sig" /\ s[1].node = n
    /\ d.nodes[n].parent = 0 => s[1].slot = <<Place(d, n), 0, 0>>
    /\ \A j \in 1..Len(s) : DOMAIN s[j] = JobFields
    /\ \A j \in 2..Len(s) : s[j].kind = "tst" /\ d.token # <<>>

(* A signer, its countersignatures and their tokens. *)
LEMMA CmsJobsOfFacts ==
    ASSUME NEW f \in DOMAIN Docs, NEW d, d = Docs[f], NEW n \in DOMAIN d.nodes, NEW s, s = CmsJobsOf(d, n)
    PROVE  PartOf(d, n, s)
  <1> DEFINE p == d.nodes[n].parent
             t == TopOf(d, n)
             a == IF p = 0 THEN Job("sig", n, 0, <<Place(d, n), 0, 0>>)
                           ELSE Job("sig", n, p, <<Place(d, n), n, 0>>)
             b == Job("tst", 0, 0, <<Place(d, n), n, 1>>)
             c == Job("tst", 0, 0, <<Place(d, n), 0, 1>>)
  <1>1. p \in 0..n - 1 /\ (p # 0 => p \in DOMAIN d.nodes) /\ t \in DOMAIN d.nodes /\ n \in Nat
    <2>1. p \in 0..n - 1 /\ DOMAIN d.nodes = 1..Len(d.nodes) /\ Len(d.nodes) \in Nat
      BY DocFacts
    <2> HIDE DEF p, t
    <2>2. t \in DOMAIN d.nodes
      BY TopIs DEF t
    <2> QED BY <2>1, <2>2
  <1>2. \/ s = <<a>> \o <<>>
        \/ s = <<a>> \o <<c>> /\ d.nodes[t].tst
        \/ s = (<<a>> \o <<>>) \o <<>>
        \/ s = (<<a>> \o <<>>) \o <<c>> /\ d.nodes[t].tst
        \/ s = (<<a>> \o <<b>>) \o <<>> /\ p # 0 /\ d.nodes[p].tst
        \/ s = (<<a>> \o <<b>>) \o <<c>> /\ p # 0 /\ d.nodes[p].tst
    <2>1. s = (IF p = 0 THEN <<Job("sig", n, 0, <<Place(d, n), 0, 0>>)>>
               ELSE <<Job("sig", n, p, <<Place(d, n), n, 0>>)>>
                    \o (IF d.nodes[p].tst THEN <<b>> ELSE <<>>))
              \o (IF LastUnder(d, n) /\ d.nodes[t].tst THEN <<c>> ELSE <<>>)
      BY DEF CmsJobsOf
    <2>2. /\ p = 0 => a = Job("sig", n, 0, <<Place(d, n), 0, 0>>)
          /\ p # 0 => a = Job("sig", n, p, <<Place(d, n), n, 0>>)
      OBVIOUS
    <2> HIDE DEF a, b, c, p, t
    <2> DEFINE last == LastUnder(d, n) /\ d.nodes[t].tst
               x == <<a>> \o (IF d.nodes[p].tst THEN <<b>> ELSE <<>>)
    <2>3. CASE p = 0
      <3>1. s = <<a>> \o (IF last THEN <<c>> ELSE <<>>)
        BY <2>1, <2>2, <2>3
      <3>2. CASE last
        BY <3>1, <3>2
      <3>3. CASE ~last
        <4>1. (IF last THEN <<c>> ELSE <<>>) = <<>>
          BY <3>3
        <4> HIDE DEF last
        <4> QED BY <3>1, <4>1, Zenon
      <3> QED BY <3>2, <3>3
    <2>4. CASE p # 0
      <3>1. s = x \o (IF last THEN <<c>> ELSE <<>>)
        BY <2>1, <2>2, <2>4
      <3>2. \/ x = <<a>> \o <<b>> /\ d.nodes[p].tst
            \/ x = <<a>> \o <<>>
        OBVIOUS
      <3>3. CASE last
        <4>1. s = x \o <<c>> /\ d.nodes[t].tst
          BY <3>1, <3>3
        <4> HIDE DEF x, last
        <4> QED BY <2>4, <3>2, <4>1
      <3>4. CASE ~last
        <4>0. (IF last THEN <<c>> ELSE <<>>) = <<>>
          BY <3>4
        <4> HIDE DEF x, last
        <4>1. s = x \o <<>>
          BY <3>1, <4>0, Zenon
        <4> QED BY <2>4, <3>2, <4>1
      <3> QED BY <3>3, <3>4
    <2> QED BY <2>3, <2>4
  <1>3. /\ DOMAIN a = JobFields /\ DOMAIN b = JobFields /\ DOMAIN c = JobFields
        /\ b.kind = "tst" /\ c.kind = "tst" /\ a.kind = "sig" /\ a.node = n /\ a.parent = p
        /\ p = 0 => a.slot = <<Place(d, n), 0, 0>>
    BY DEF Job, JobFields
  <1> HIDE DEF a, b, c
  <1>4. \/ s = <<a>>
        \/ s = <<a, c>> /\ d.nodes[t].tst
        \/ s = <<a, b>> /\ p # 0 /\ d.nodes[p].tst
        \/ s = <<a, b, c>> /\ p # 0 /\ d.nodes[p].tst
    <2> HIDE DEF p, t
    <2>1. /\ <<a>> \o <<>> = <<a>> /\ <<a>> \o <<c>> = <<a, c>> /\ <<a>> \o <<b>> = <<a, b>>
          /\ <<a, b>> \o <<>> = <<a, b>> /\ <<a, b>> \o <<c>> = <<a, b, c>>
      BY Joined
    <2> QED BY <1>2, <2>1
  <1>5. (\E m \in DOMAIN d.nodes : d.nodes[m].tst) => d.token # <<>>
    BY DocFacts
  <1> HIDE DEF p, t
  <1>6. CASE s = <<a>>
    BY <1>1, <1>3, <1>6 DEF p, PartOf
  <1>7. CASE s = <<a, c>> /\ d.nodes[t].tst
    BY <1>1, <1>3, <1>5, <1>7 DEF p, PartOf
  <1>8. CASE s = <<a, b>> /\ p # 0 /\ d.nodes[p].tst
    BY <1>1, <1>3, <1>5, <1>8 DEF p, PartOf
  <1>9. CASE s = <<a, b, c>> /\ p # 0 /\ d.nodes[p].tst
    BY <1>1, <1>3, <1>5, <1>9 DEF p, PartOf
  <1> QED BY <1>4, <1>6, <1>7, <1>8, <1>9

(* The signers are counted without gaps. *)
LEMMA PlaceOnto ==
    ASSUME NEW f \in DOMAIN Docs, NEW d, d = Docs[f], NEW i \in 1..Cardinality(Tops(d))
    PROVE  \E n \in Tops(d) : Place(d, n) = i
  <1> DEFINE len == Len(d.nodes)
             Upto(m) == {t \in Tops(d) : t <= m}
             T == {m \in 0..len : Cardinality(Upto(m)) >= i}
  <1>1. len \in Nat /\ Tops(d) \subseteq 1..len
    <2>1. Len(d.nodes) \in Nat /\ DOMAIN d.nodes = 1..Len(d.nodes)
      BY DocFacts
    <2> QED BY <2>1 DEF Tops
  <1>2. IsFiniteSet(Tops(d)) /\ \A m : IsFiniteSet(Upto(m)) /\ Cardinality(Upto(m)) \in Nat
    <2>1. IsFiniteSet(1..len)
      BY <1>1, FS_Interval
    <2>2. IsFiniteSet(Tops(d))
      <3> HIDE DEF len
      <3> QED BY <1>1, <2>1, FS_Subset
    <2>3. \A m : Upto(m) \in SUBSET Tops(d)
      OBVIOUS
    <2>4. \A m : IsFiniteSet(Upto(m))
      <3> HIDE DEF Upto
      <3> QED BY <2>2, <2>3, FS_Subset
    <2> HIDE DEF Upto
    <2> QED BY <2>2, <2>4, FS_CardinalityType
  <1>3. Cardinality(Tops(d)) \in Nat /\ i \in Nat /\ i >= 1
    BY <1>2, FS_CardinalityType
  <1>4. Upto(0) = {} /\ Upto(len) = Tops(d)
    BY <1>1
  <1>5. len \in T /\ T \in SUBSET Nat
    <2>1. Cardinality(Upto(len)) >= i
      <3> HIDE DEF Upto, len
      <3> QED BY <1>3, <1>4
    <2>2. len \in 0..len
      BY <1>1
    <2> HIDE DEF Upto
    <2> QED BY <1>1, <2>1, <2>2
  <1>6. PICK m \in T : \A k \in T : m <= k
    <2> HIDE DEF T
    <2> QED BY <1>5, LeastNumber
  <1>7. m \in 0..len /\ Cardinality(Upto(m)) >= i
    OBVIOUS
  <1>8. m # 0
    <2>1. Cardinality(Upto(0)) = 0
      BY <1>4, FS_EmptySet
    <2> HIDE DEF Upto, T
    <2> QED BY <1>3, <1>7, <2>1
  <1>9. Cardinality(Upto(m - 1)) < i
    <2>1. m - 1 \in 0..len /\ ~(m <= m - 1)
      BY <1>1, <1>7, <1>8
    <2>2. m - 1 \notin T
      <3> HIDE DEF T
      <3> QED BY <1>6, <2>1
    <2>3. ~(Cardinality(Upto(m - 1)) >= i)
      BY <2>1, <2>2
    <2>4. Cardinality(Upto(m - 1)) \in Nat
      <3> HIDE DEF Upto
      <3> QED BY <1>2
    <2> HIDE DEF Upto
    <2> QED BY <1>3, <2>3, <2>4
  <1>10. m \in Tops(d)
    <2> SUFFICES ASSUME m \notin Tops(d) PROVE FALSE
      OBVIOUS
    <2>1. Upto(m) = Upto(m - 1)
      <3>1. \A t \in Tops(d) : t <= m <=> t <= m - 1
        BY <1>1, <1>7
      <3> QED BY <3>1
    <2>2. Cardinality(Upto(m)) \in Nat
      <3> HIDE DEF Upto
      <3> QED BY <1>2
    <2> HIDE DEF Upto, T
    <2> QED BY <1>3, <1>7, <1>9, <2>1, <2>2
  <1>11. Upto(m) = Upto(m - 1) \cup {m} /\ m \notin Upto(m - 1)
    <2>1. \A t \in Tops(d) : t <= m <=> (t <= m - 1 \/ t = m)
      BY <1>1, <1>7
    <2>2. m <= m /\ ~(m <= m - 1)
      BY <1>1, <1>7
    <2> HIDE DEF T
    <2> QED BY <1>10, <2>1, <2>2
  <1>12. Cardinality(Upto(m)) = Cardinality(Upto(m - 1)) + 1
    <2> HIDE DEF Upto, T
    <2> QED BY <1>2, <1>11, FS_AddElement
  <1>13. Cardinality(Upto(m)) = i
    <2>1. Cardinality(Upto(m - 1)) \in Nat
      <3> HIDE DEF Upto
      <3> QED BY <1>2
    <2> HIDE DEF Upto, T
    <2> QED BY <1>3, <1>7, <1>9, <1>12, <2>1
  <1>14. Place(d, m) = Cardinality(Upto(m))
    BY DEF Place
  <1> QED BY <1>10, <1>13, <1>14

(* The jobs of a CMS message. *)
LEMMA CmsJobsFacts ==
    ASSUME NEW f \in DOMAIN Docs, NEW d, d = Docs[f], NEW jobs, jobs = CmsJobs(d)
    PROVE  /\ \E S : jobs \in Seq(S)
           /\ \A k \in 1..Len(jobs) : Aims(d, jobs[k]) /\ jobs[k].kind \in {"sig", "tst"}
           /\ \A i \in 1..getEmbeddedSignatureCount(d) : HasJob(d, jobs, i)
  <1> DEFINE s == [n \in DOMAIN d.nodes |-> CmsJobsOf(d, n)]
             Of(n) == CmsJobsOf(d, n)
             S == {CmsJobsOf(d, x[1])[x[2]] : x \in (DOMAIN d.nodes) \X (1..3)}
  <1>1. /\ Len(d.nodes) \in Nat /\ DOMAIN d.nodes = 1..Len(d.nodes)
        /\ \A n \in DOMAIN d.nodes : d.nodes[n] \in NodeRecord
        /\ d.token # <<>> => d.token[1] \in NodeRecord
    BY DocFacts
  <1>2. ASSUME NEW n \in DOMAIN d.nodes
        PROVE  PartOf(d, n, Of(n))
    <2>1. Of(n) = CmsJobsOf(d, n)
      OBVIOUS
    <2> HIDE DEF Of
    <2> QED BY <2>1, CmsJobsOfFacts
  <1>3. \A n \in DOMAIN d.nodes : s[n] = Of(n)
    OBVIOUS
  <1>4. ASSUME NEW n \in DOMAIN d.nodes PROVE Of(n) \in Seq(S)
    <2>1. \A j \in 1..3 : Of(n)[j] \in S
      <3> TAKE j \in 1..3
      <3> DEFINE x == <<n, j>>
      <3>1. x \in (DOMAIN d.nodes) \X (1..3) /\ x[1] = n /\ x[2] = j
        OBVIOUS
      <3>2. Of(n)[j] = CmsJobsOf(d, x[1])[x[2]]
        OBVIOUS
      <3> HIDE DEF x, Of
      <3> QED BY <3>1, <3>2
    <2>2. {Of(n)[j] : j \in 1..3} \subseteq S
      BY <2>1
    <2> HIDE DEF Of, S
    <2> QED BY <1>2, <2>2, SeqMonotonic DEF PartOf
  <1>5. s \in Seq(Seq(S)) /\ Len(s) = Len(d.nodes) /\ DOMAIN s = DOMAIN d.nodes
    <2>1. s \in [1..Len(d.nodes) -> Seq(S)]
      <3> HIDE DEF S
      <3> QED BY <1>1, <1>4
    <2> HIDE DEF s, S
    <2> QED BY <1>1, <2>1
  <1>6. Joins(jobs, s, Len(s), S)
    <2> HIDE DEF S
    <2>1. jobs = FlattenSeq(s)
      BY DEF CmsJobs
    <2> HIDE DEF s
    <2> QED BY <1>5, <2>1, Flattened
  <1> HIDE DEF s, S, Of
  <1>7. jobs \in Seq(S)
    BY <1>6 DEF Joins
  <1>8. ASSUME NEW k \in 1..Len(jobs) PROVE Aims(d, jobs[k]) /\ jobs[k].kind \in {"sig", "tst"}
    <2>1. PICK n \in 1..Len(s) : \E j \in 1..Len(s[n]) : jobs[k] = s[n][j]
      BY <1>6 DEF Joins
    <2>2. n \in DOMAIN d.nodes /\ s[n] = Of(n)
      BY <1>1, <1>3, <1>5, <2>1
    <2>3. PICK j \in 1..Len(Of(n)) : jobs[k] = Of(n)[j]
      BY <2>1, <2>2
    <2>0. PartOf(d, n, Of(n))
      BY <1>2, <2>2
    <2>4. DOMAIN jobs[k] = JobFields
      BY <2>0, <2>3 DEF PartOf
    <2>5. CASE j = 1
      <3>1. jobs[k].kind = "sig" /\ jobs[k].node = n
        BY <2>0, <2>3, <2>5 DEF PartOf
      <3>2. NodeOf(d, jobs[k]) = d.nodes[n]
        BY <3>1 DEF NodeOf
      <3> QED BY <1>1, <2>2, <2>4, <3>1, <3>2 DEF Aims
    <2>6. CASE j # 1
      <3>1. j \in 2..Len(Of(n))
        BY <2>0, <2>6 DEF PartOf
      <3>2. jobs[k].kind = "tst" /\ d.token # <<>>
        BY <2>0, <2>3, <3>1 DEF PartOf
      <3>3. NodeOf(d, jobs[k]) = d.token[1]
        BY <3>2 DEF NodeOf
      <3> QED BY <1>1, <2>4, <3>2, <3>3 DEF Aims
    <2> QED BY <2>5, <2>6
  <1>9. ASSUME NEW i \in 1..getEmbeddedSignatureCount(d) PROVE HasJob(d, jobs, i)
    <2>1. getEmbeddedSignatureCount(d) = Cardinality(Tops(d))
      BY DEF getEmbeddedSignatureCount, Tops
    <2>2. PICK n \in Tops(d) : Place(d, n) = i
      BY <2>1, PlaceOnto
    <2>3. n \in DOMAIN d.nodes /\ d.nodes[n].parent = 0
      BY DEF Tops
    <2>4. n \in 1..Len(s) /\ 1 \in 1..Len(s[n]) /\ s[n] = Of(n)
      <3>1. PartOf(d, n, Of(n)) /\ s[n] = Of(n)
        BY <1>2, <1>3, <2>3
      <3>2. 1 \in 1..Len(Of(n))
        BY <3>1 DEF PartOf
      <3> QED BY <1>1, <1>5, <2>3, <3>1, <3>2
    <2>5. PICK k \in 1..Len(jobs) : jobs[k] = s[n][1]
      BY <1>6, <2>4 DEF Joins
    <2>6. jobs[k].slot = <<i, 0, 0>> /\ jobs[k].kind = "sig" /\ jobs[k].node = n
      <3>1. PartOf(d, n, Of(n)) /\ jobs[k] = Of(n)[1]
        BY <1>2, <2>3, <2>4, <2>5
      <3> QED BY <2>2, <2>3, <3>1 DEF PartOf
    <2> QED BY <2>2, <2>3, <2>6 DEF HasJob
  <1> QED BY <1>7, <1>8, <1>9

(* Jobs that were set up for a file. *)
Ready(d, jobs, content, count) ==
    /\ Len(jobs) \in Nat
    /\ \A k \in 1..Len(jobs) : Aims(d, jobs[k]) /\ Asks(d, jobs[k], content)
    /\ d.type # "tsd" => \A i \in 1..count : HasJob(d, jobs, i)

(* One job more does not take a signer's job away. *)
LEMMA HasJobKept ==
    ASSUME NEW S, NEW jobs \in Seq(S), NEW more, more \in Seq(S), NEW d, NEW i, HasJob(d, jobs, i)
    PROVE  HasJob(d, jobs \o more, i)
  <1>1. PICK j \in 1..Len(jobs) :
           /\ jobs[j].slot = <<i, 0, 0>> /\ jobs[j].kind # "tst"
           /\ d.nodes[jobs[j].node].parent = 0 /\ Place(d, jobs[j].node) = i
    BY DEF HasJob
  <1>2. j \in 1..Len(jobs \o more) /\ (jobs \o more)[j] = jobs[j]
    <2>1. /\ Len(jobs) \in Nat /\ Len(more) \in Nat /\ Len(jobs \o more) = Len(jobs) + Len(more)
          /\ \A k \in 1..Len(jobs) + Len(more) :
                (jobs \o more)[k] = IF k <= Len(jobs) THEN jobs[k] ELSE more[k - Len(jobs)]
      BY ConcatProperties
    <2> QED BY <2>1
  <1> QED BY <1>1, <1>2 DEF HasJob

(* The token of a file that has one. *)
LEMMA TstJobFacts ==
    ASSUME NEW f \in DOMAIN Docs, NEW d, d = Docs[f], d.token # <<>>, NEW content
    PROVE  /\ Len(TstJob) = 1 /\ TstJob \in Seq({TstJob[1]})
           /\ Aims(d, TstJob[1]) /\ Asks(d, TstJob[1], content)
  <1> DEFINE job == Job("tst", 0, 0, <<0, 0, 1>>)
  <1>1. d.token[1] \in NodeRecord
    BY DocFacts
  <1>2. DOMAIN job = JobFields /\ job.kind = "tst"
    BY DEF Job, JobFields
  <1>3. TstJob = <<job>>
    BY DEF TstJob
  <1> HIDE DEF job
  <1>4. Aims(d, job) /\ Asks(d, job, content)
    BY <1>1, <1>2 DEF Aims, Asks, NodeOf, SourceOf
  <1> QED BY <1>3, <1>4

(* verify_p7m and verify_m7m, when the content is there; verify_tsd. *)
LEMMA CmsReady ==
    ASSUME NEW f \in DOMAIN Docs, NEW d, d = Docs[f], NEW tail,
           tail = <<>> \/ (tail = TstJob /\ d.token # <<>>),
           NEW content, content = ContentOf(d) \/ (d.type = "tsd" /\ content = d.content),
           NEW count, count = getEmbeddedSignatureCount(d) \/ d.type = "tsd"
    PROVE  Ready(d, CmsJobs(d) \o tail, content, count)
  <1> DEFINE jobs == CmsJobs(d)
  <1>1. /\ \E S : jobs \in Seq(S)
        /\ \A k \in 1..Len(jobs) : Aims(d, jobs[k]) /\ jobs[k].kind \in {"sig", "tst"}
        /\ \A i \in 1..getEmbeddedSignatureCount(d) : HasJob(d, jobs, i)
    BY CmsJobsFacts
  <1> HIDE DEF jobs
  <1>2. PICK R : jobs \in Seq(R)
    BY <1>1
  <1> DEFINE S == R \cup {TstJob[1]}
  <1>3. jobs \in Seq(S)
    <2>1. R \subseteq S
      OBVIOUS
    <2> HIDE DEF S
    <2> QED BY <1>2, <2>1, SeqMonotonic
  <1>4. /\ tail \in Seq(S) /\ Len(tail) \in {0, 1}
        /\ \A k \in 1..Len(tail) : Aims(d, tail[k]) /\ Asks(d, tail[k], content)
    <2>1. CASE tail = <<>>
      <3>1. tail \in Seq(S) /\ Len(tail) = 0
        BY <2>1
      <3> QED BY <3>1
    <2>2. CASE tail = TstJob /\ d.token # <<>>
      <3>1. /\ Len(TstJob) = 1 /\ TstJob \in Seq({TstJob[1]})
            /\ Aims(d, TstJob[1]) /\ Asks(d, TstJob[1], content)
        BY <2>2, TstJobFacts
      <3>2. {TstJob[1]} \subseteq S
        OBVIOUS
      <3>3. TstJob \in Seq(S)
        <4> HIDE DEF S
        <4> QED BY <3>1, <3>2, SeqMonotonic
      <3>4. \A k \in 1..Len(TstJob) : k = 1
        BY <3>1
      <3> HIDE DEF S
      <3> QED BY <2>2, <3>1, <3>3, <3>4
    <2> QED BY <2>1, <2>2
  <1> HIDE DEF S
  <1> DEFINE all == jobs \o tail
  <1>5. /\ Len(jobs) \in Nat /\ Len(all) = Len(jobs) + Len(tail)
        /\ \A k \in 1..Len(jobs) + Len(tail) :
              all[k] = IF k <= Len(jobs) THEN jobs[k] ELSE tail[k - Len(jobs)]
    BY <1>3, <1>4, ConcatProperties
  <1>6. ASSUME NEW k \in 1..Len(jobs) PROVE Asks(d, jobs[k], content)
    <2>1. jobs[k].kind \in {"sig", "tst"}
      BY <1>1
    <2>2. CASE content = ContentOf(d)
      BY <2>2 DEF Asks
    <2>3. CASE d.type = "tsd" /\ content = d.content /\ content # ContentOf(d)
      <3>1. CASE jobs[k].kind = "tst" \/ jobs[k].parent # 0
        BY <2>1, <3>1 DEF Asks, SourceOf
      <3>2. CASE jobs[k].kind = "sig" /\ jobs[k].parent = 0 /\ isDetached(d)
        BY <2>3, <3>2 DEF Asks, NotEvenTried
      <3>3. CASE ~isDetached(d)
        BY <2>3, <3>3 DEF ContentOf
      <3> QED BY <2>1, <3>1, <3>2, <3>3
    <2> QED BY <2>2, <2>3
  <1>7. ASSUME NEW k \in 1..Len(all) PROVE Aims(d, all[k]) /\ Asks(d, all[k], content)
    <2> HIDE DEF all
    <2>0. Len(tail) \in Nat
      BY <1>4
    <2>1. CASE k <= Len(jobs)
      <3>1. all[k] = jobs[k] /\ k \in 1..Len(jobs)
        BY <1>5, <2>0, <2>1
      <3> QED BY <1>1, <1>6, <3>1
    <2>2. CASE ~(k <= Len(jobs))
      <3>1. k - Len(jobs) \in 1..Len(tail) /\ all[k] = tail[k - Len(jobs)]
        BY <1>5, <2>0, <2>2
      <3> QED BY <1>4, <3>1
    <2> QED BY <2>1, <2>2
  <1>8. ASSUME d.type # "tsd", NEW i \in 1..count PROVE HasJob(d, all, i)
    <2>1. HasJob(d, jobs, i)
      BY <1>1, <1>8
    <2> QED BY <1>3, <1>4, <2>1, HasJobKept
  <1>9. Len(all) \in Nat
    BY <1>4, <1>5
  <1>10. Ready(d, all, content, count)
    <2> HIDE DEF all
    <2> QED BY <1>7, <1>8, <1>9 DEF Ready
  <1> QED BY <1>10 DEF jobs


(* In a PDF or an XML file every signature is a signer of its own. *)
LEMMA PlaceFlat ==
    ASSUME NEW f \in DOMAIN Docs, NEW d, d = Docs[f], d.type \in {"pdf", "xml"}, NEW n \in DOMAIN d.nodes
    PROVE  Place(d, n) = n
  <1>1. /\ Len(d.nodes) \in Nat /\ DOMAIN d.nodes = 1..Len(d.nodes)
        /\ \A i \in DOMAIN d.nodes : d.nodes[i].parent = 0
    BY DocFacts
  <1>2. {i \in Tops(d) : i <= n} = 1..n
    BY <1>1 DEF Tops
  <1>3. Cardinality(1..n) = IF 1 > n THEN 0 ELSE (n - 1) + 1
    BY <1>1, FS_Interval
  <1>4. n \in Nat /\ n >= 1
    BY <1>1
  <1>5. Cardinality(1..n) = n
    BY <1>3, <1>4
  <1>6. Place(d, n) = Cardinality(1..n)
    BY <1>2, Zenon DEF Place
  <1> QED BY <1>5, <1>6

(* verify_pdf. *)
LEMMA PdfReady ==
    ASSUME NEW f \in DOMAIN Docs, NEW d, d = Docs[f], d.type = "pdf"
    PROVE  Ready(d, PdfJobs(d), d.content, GetNumberOfSignatures(d))
  <1> DEFINE a(n) == Job("pdf", n, 0, <<n, 0, 0>>)
             b(n) == Job("tst", 0, 0, <<n, 0, 1>>)
             Of(n) == <<a(n)>> \o (IF d.nodes[n].tst THEN <<b(n)>> ELSE <<>>)
             s == [n \in DOMAIN d.nodes |-> Of(n)]
             jobs == PdfJobs(d)
             S == {a(n) : n \in DOMAIN d.nodes} \cup {b(n) : n \in DOMAIN d.nodes}
  <1>1. /\ Len(d.nodes) \in Nat /\ DOMAIN d.nodes = 1..Len(d.nodes)
        /\ \A n \in DOMAIN d.nodes : d.nodes[n] \in NodeRecord /\ d.nodes[n].parent = 0
        /\ d.token # <<>> => d.token[1] \in NodeRecord
        /\ (\E n \in DOMAIN d.nodes : d.nodes[n].tst) => d.token # <<>>
        /\ ~isDetached(d)
    BY DocFacts DEF isDetached
  <1>2. ASSUME NEW n \in DOMAIN d.nodes
        PROVE  /\ Aims(d, a(n)) /\ a(n).kind = "pdf" /\ a(n).node = n /\ a(n).slot = <<n, 0, 0>>
               /\ d.token # <<>> => Aims(d, b(n))
    BY <1>1 DEF Job, JobFields, Aims, NodeOf
  <1>3. \A n \in DOMAIN d.nodes : a(n) \in S /\ b(n) \in S
    OBVIOUS
  <1> HIDE DEF a, b, S
  <1>4. ASSUME NEW n \in DOMAIN d.nodes
        PROVE  \/ Of(n) = <<a(n)>>
               \/ Of(n) = <<a(n), b(n)>> /\ d.token # <<>>
    <2> DEFINE x == a(n)
               y == b(n)
    <2>1. <<x>> \o <<>> = <<x>> /\ <<x>> \o <<y>> = <<x, y>>
      BY Joined
    <2>2. CASE d.nodes[n].tst
      <3>1. Of(n) = <<x>> \o <<y>>
        BY <2>2
      <3> HIDE DEF x, y, Of
      <3> QED BY <1>1, <2>1, <2>2, <3>1 DEF x, y
    <2>3. CASE ~d.nodes[n].tst
      <3>1. (IF d.nodes[n].tst THEN <<y>> ELSE <<>>) = <<>>
        BY <2>3
      <3>2. Of(n) = <<x>> \o <<>>
        BY <3>1, Zenon
      <3> HIDE DEF x, y, Of
      <3> QED BY <2>1, <3>2 DEF x, y
    <2> QED BY <2>2, <2>3
  <1>5. \A n \in DOMAIN d.nodes : s[n] = Of(n)
    <2> HIDE DEF Of
    <2> QED OBVIOUS
  <1> HIDE DEF Of
  <1>6. \A n \in DOMAIN d.nodes : Of(n) \in Seq(S)
    <2> TAKE n \in DOMAIN d.nodes
    <2> DEFINE x == a(n)
               y == b(n)
    <2>1. x \in S /\ y \in S /\ (Of(n) = <<x>> \/ Of(n) = <<x, y>>)
      BY <1>3, <1>4
    <2> HIDE DEF x, y
    <2>2. <<x>> \in Seq(S) /\ <<x, y>> \in Seq(S)
      BY <2>1
    <2> HIDE DEF Of
    <2> QED BY <2>1, <2>2
  <1>7. s \in Seq(Seq(S)) /\ Len(s) = Len(d.nodes) /\ DOMAIN s = DOMAIN d.nodes
    <2>1. s \in [1..Len(d.nodes) -> Seq(S)]
      BY <1>1, <1>6
    <2> HIDE DEF s
    <2> QED BY <1>1, <2>1
  <1>8. Joins(jobs, s, Len(s), S)
    <2>1. jobs = FlattenSeq(s)
      BY DEF PdfJobs, Of, a, b
    <2> HIDE DEF s, jobs
    <2> QED BY <1>7, <2>1, Flattened
  <1> HIDE DEF s, jobs
  <1>9. jobs \in Seq(S) /\ Len(jobs) \in Nat
    BY <1>8 DEF Joins
  <1>10. ASSUME NEW k \in 1..Len(jobs) PROVE Aims(d, jobs[k]) /\ Asks(d, jobs[k], d.content)
    <2>1. PICK n \in 1..Len(s) : \E j \in 1..Len(s[n]) : jobs[k] = s[n][j]
      BY <1>8 DEF Joins
    <2>2. n \in DOMAIN d.nodes /\ s[n] = Of(n)
      BY <1>1, <1>5, <1>7
    <2>3. PICK j \in 1..Len(Of(n)) : jobs[k] = Of(n)[j]
      BY <2>1, <2>2
    <2> DEFINE x == a(n)
               y == b(n)
    <2>4. Of(n) = <<x>> \/ (Of(n) = <<x, y>> /\ d.token # <<>>)
      BY <1>4, <2>2
    <2>5. Aims(d, x) /\ (d.token # <<>> => Aims(d, y))
      BY <1>2, <2>2
    <2> HIDE DEF x, y
    <2>6. jobs[k] = x \/ (jobs[k] = y /\ d.token # <<>>)
      BY <2>3, <2>4
    <2>7. Asks(d, jobs[k], d.content)
      BY <1>1 DEF Asks, ContentOf
    <2> QED BY <2>5, <2>6, <2>7
  <1>11. ASSUME NEW i \in 1..GetNumberOfSignatures(d) PROVE HasJob(d, jobs, i)
    <2>1. i \in DOMAIN d.nodes /\ i \in 1..Len(s) /\ s[i] = Of(i)
      BY <1>1, <1>5, <1>7 DEF GetNumberOfSignatures
    <2> DEFINE x == a(i)
               y == b(i)
    <2>2. Of(i) = <<x>> \/ Of(i) = <<x, y>>
      BY <1>4, <2>1
    <2>3. x.kind = "pdf" /\ x.node = i /\ x.slot = <<i, 0, 0>>
      BY <1>2, <2>1
    <2> HIDE DEF x, y
    <2>4. 1 \in 1..Len(s[i]) /\ s[i][1] = x
      BY <2>1, <2>2
    <2>5. PICK k \in 1..Len(jobs) : jobs[k] = s[i][1]
      BY <1>8, <2>1, <2>4 DEF Joins
    <2>6. Place(d, i) = i
      BY <2>1, PlaceFlat
    <2> QED BY <1>1, <2>1, <2>3, <2>4, <2>5, <2>6 DEF HasJob
  <1> QED BY <1>9, <1>10, <1>11 DEF Ready, jobs

(* verify_xml. *)
LEMMA XmlReady ==
    ASSUME NEW f \in DOMAIN Docs, NEW d, d = Docs[f], d.type = "xml"
    PROVE  Ready(d, XmlJobs(d), d.content, Len(d.nodes))
  <1> DEFINE a(n) == Job("xml", n, 0, <<n, 0, 0>>)
             jobs == XmlJobs(d)
  <1>1. /\ Len(d.nodes) \in Nat /\ DOMAIN d.nodes = 1..Len(d.nodes)
        /\ \A n \in DOMAIN d.nodes : d.nodes[n] \in NodeRecord /\ d.nodes[n].parent = 0
        /\ ~isDetached(d)
    BY DocFacts DEF isDetached
  <1>2. ASSUME NEW n \in DOMAIN d.nodes
        PROVE  Aims(d, a(n)) /\ a(n).kind = "xml" /\ a(n).node = n /\ a(n).slot = <<n, 0, 0>>
    BY <1>1 DEF Job, JobFields, Aims, NodeOf
  <1> HIDE DEF a
  <1>3. jobs = [n \in 1..Len(d.nodes) |-> a(n)]
    BY <1>1 DEF XmlJobs, a
  <1> HIDE DEF jobs
  <1>4. /\ Len(jobs) = Len(d.nodes)
        /\ \A n \in 1..Len(d.nodes) : jobs[n] = a(n)
    BY <1>1, <1>3
  <1>5. \A k \in 1..Len(jobs) : Aims(d, jobs[k]) /\ Asks(d, jobs[k], d.content)
    BY <1>1, <1>2, <1>4 DEF Asks, ContentOf
  <1>6. ASSUME NEW i \in 1..Len(d.nodes) PROVE HasJob(d, jobs, i)
    <2>1. Place(d, i) = i
      BY <1>1, PlaceFlat
    <2> QED BY <1>1, <1>2, <1>4, <2>1 DEF HasJob
  <1> QED BY <1>1, <1>4, <1>5, <1>6 DEF Ready, jobs

(* verify_tst and verify_tsr. *)
LEMMA TokenReady ==
    ASSUME NEW f \in DOMAIN Docs, NEW d, d = Docs[f], d.token # <<>>, NEW content
    PROVE  Ready(d, TstJob, content, -1)
  <1>1. /\ Len(TstJob) = 1 /\ Aims(d, TstJob[1]) /\ Asks(d, TstJob[1], content)
    BY TstJobFacts
  <1>2. \A k \in 1..Len(TstJob) : k = 1
    BY <1>1
  <1>3. \A i \in 1..-1 : FALSE
    OBVIOUS
  <1> QED BY <1>1, <1>2, <1>3 DEF Ready


-----------------------------------------------------------------------------
(* The status of a certificate. *)

(* A lookup finds a compiled-in certificate with the issuer's name and key. *)
LEMMA Looked ==
    ASSUME NEW st \in Stores, NEW c \in DOMAIN Certs, NEW ca, ca = GetCertificate(st, c), ca # Null
    PROVE  /\ ca \in Range(BuiltIn) /\ ca \in DOMAIN Certs
           /\ Certs[ca].subject = Certs[c].issuer
           /\ Certs[c].aki # NoId => Certs[ca].ski = Certs[c].aki
  <1>1. /\ ca = st[IssuerHash(c)] /\ Certs[ca].subject = Certs[c].issuer
        /\ Certs[c].aki # NoId => Certs[ca].ski = Certs[c].aki
    BY DEF GetCertificate
  <1>2. IssuerHash(c) \in Buckets
    <2>1. \A e \in DOMAIN Certs : {Certs[e].subject, Certs[e].issuer}
                                   \cup ({Certs[e].ski, Certs[e].aki} \ {NoId}) \subseteq DOMAIN Bucket
      BY CertAssumption
    <2>2. Certs[c].issuer \in DOMAIN Bucket /\ (Certs[c].aki # NoId => Certs[c].aki \in DOMAIN Bucket)
      BY <2>1
    <2> QED BY <2>2 DEF IssuerHash, Buckets
  <1>3. ca \in Range(BuiltIn)
    BY <1>1, <1>2 DEF Stores
  <1>4. Range(BuiltIn) \subseteq DOMAIN Certs
    BY CertAssumption DEF Range
  <1> QED BY <1>1, <1>3, <1>4

(* What GoodAsOf asks of an answer, up to time t, about c. *)
Fine(info, c, t) == /\ info.upd \in 0..t /\ info.src \in CrlForms \cup {"ocsp", "no_status"}
                    /\ info.src \in {"ocsp", "utc", "generalized"} => ~Revoked(c, info.upd)
                    /\ info.src = "utc" => ~info.late

(* A certificate that its named issuer did not sign is not revoked. *)
LEMMA NotOnAList ==
    ASSUME NEW c \in DOMAIN Certs, NEW ca \in Range(BuiltIn),
           Certs[ca].subject = Certs[c].issuer,
           Certs[c].aki # NoId => Certs[ca].ski = Certs[c].aki,
           Certs[c].signedBy # Certs[ca].key,
           NEW u \in 0..MaxNow
    PROVE  ~Revoked(c, u)
  <1>1. RevokedAt[c] > MaxNow
    BY RevocationAssumption
  <1>2. RevokedAt[c] \in Nat /\ MaxNow \in Nat
    BY CertAssumption
  <1> QED BY <1>1, <1>2 DEF Revoked

(* A list of the issuer in the store that is read and does not have c. *)
LEMMA CrlGood ==
    ASSUME NEW st \in Stores, NEW c \in DOMAIN Certs, NEW ca, ca = GetCertificate(st, c), ca # Null,
           NEW a, CrlVerifySignature(a, ca), a.made \in 0..MaxNow, ~isRevoked(a, c),
           a.form \in {"utc", "generalized"}
    PROVE  ~Revoked(c, a.made)
  <1>1. /\ ca \in Range(BuiltIn) /\ Certs[ca].subject = Certs[c].issuer
        /\ Certs[c].aki # NoId => Certs[ca].ski = Certs[c].aki
    BY Looked
  <1>2. CASE Certs[c].signedBy # Certs[ca].key
    BY <1>1, <1>2, NotOnAList
  <1>3. CASE Certs[c].signedBy = Certs[ca].key
    <2>1. Certs[c].signedBy = a.by
      BY <1>3 DEF CrlVerifySignature
    <2> QED BY <2>1 DEF isRevoked, ListedSerials
  <1> QED BY <1>2, <1>3

(* The answers of the network that are responses. *)
LEMMA Responses ==
    ASSUME NEW c \in DOMAIN Certs, NEW t \in 0..MaxNow,
           NEW a \in NormalOcsp(c, t) \cup OddOcsp(c, t), a.kind = "response"
    PROVE  /\ a.about \in DOMAIN Certs /\ a.made \in 0..t
           /\ a.says \in Says
           /\ a.cert = Null \/ a.cert \in DOMAIN Certs
           /\ Authorised(a, a.about) => a.says \in Truth(a.about, a.made) \cup {"undefined"}
  <1>1. CASE a \in NormalOcsp(c, t)
    <2>1. PICK s \in Truth(c, t) : a = Response([by |-> Certs[c].signedBy, cert |-> Null], c, t, s)
      BY <1>1 DEF NormalOcsp
    <2>2. a.about = c /\ a.made = t /\ a.says = s /\ a.cert = Null
      BY <2>1 DEF Response
    <2>3. s \in Says
      BY DEF Truth, Says
    <2>4. t \in 0..t
      OBVIOUS
    <2> QED BY <2>1, <2>2, <2>3, <2>4
  <1>2. CASE a \in OddOcsp(c, t)
    <2>1. a \notin Failures
      BY DEF Failures
    <2>2. /\ a \in {Response(r, d, u, s) : r \in Responders(c), d \in Talkers \cup {c}, u \in 0..t,
                                  s \in Says}
          /\ a.says \in {"undefined"} \cup IF Authorised(a, a.about) THEN Truth(a.about, a.made)
                                           ELSE {"good", "revoked"}
      BY <1>2, <2>1 DEF OddOcsp
    <2>3. PICK r \in Responders(c), d \in Talkers \cup {c}, u \in 0..t,
               s \in Says : a = Response(r, d, u, s)
      BY <2>2
    <2>4. a.about = d /\ a.made = u /\ a.says = s /\ a.cert = r.cert
      BY <2>3 DEF Response
    <2>5. Talkers \subseteq DOMAIN Certs
      BY CertAssumption
    <2>6. r.cert = Null \/ r.cert \in DOMAIN Certs
      BY <2>5 DEF Responders
    <2> QED BY <2>2, <2>4, <2>5, <2>6
  <1> QED BY <1>1, <1>2

(* An answer that passes the checks and says good. *)
LEMMA OcspGood ==
    ASSUME NEW st \in Stores, NEW c \in DOMAIN Certs, NEW t \in 0..MaxNow,
           NEW a \in NormalOcsp(c, t) \cup OddOcsp(c, t), a.kind = "response", a.says = "good",
           VerifyOCSPResponderSignature(st, c, a), MatchesCertID(c, a.about)
    PROVE  ~Revoked(c, a.made)
  <1> DEFINE ca == GetCertificate(st, c)
             d == a.about
  <1>1. /\ d \in DOMAIN Certs /\ a.made \in 0..t
        /\ a.cert = Null \/ a.cert \in DOMAIN Certs
        /\ Authorised(a, d) => a.says \in Truth(d, a.made) \cup {"undefined"}
    BY Responses
  <1>2. /\ ca # Null
        /\ \/ a.by = Certs[ca].key
           \/ /\ a.cert # Null /\ Certs[a.cert].signedBy = Certs[ca].key
              /\ Certs[a.cert].eku /\ a.by = Certs[a.cert].key
    BY DEF VerifyOCSPResponderSignature, verifySignature, HasExtendedKeyUsage
  <1>3. /\ ca \in Range(BuiltIn) /\ Certs[ca].subject = Certs[c].issuer
        /\ Certs[c].aki # NoId => Certs[ca].ski = Certs[c].aki
    <2> HIDE DEF ca
    <2> QED BY <1>2, Looked DEF ca
  <1>4. /\ RevokedAt[c] = RevokedAt[d] /\ Certs[d].issuer = Certs[c].issuer
        /\ Certs[d].aki = Certs[c].aki
    BY <1>1, RevocationAssumption DEF MatchesCertID
  <1>5. ~Revoked(d, a.made)
    <2> HIDE DEF ca, d
    <2>1. CASE Certs[d].signedBy = Certs[ca].key
      <3>1. Authorised(a, d)
        BY <1>2, <2>1 DEF Authorised
      <3> QED BY <1>1, <3>1 DEF Truth
    <2>2. CASE Certs[d].signedBy # Certs[ca].key
      <3>1. a.made \in 0..MaxNow
        BY <1>1, CertAssumption
      <3>2. Certs[ca].subject = Certs[d].issuer /\ (Certs[d].aki # NoId => Certs[ca].ski = Certs[d].aki)
        BY <1>3, <1>4
      <3> QED BY <1>1, <1>3, <2>2, <3>1, <3>2, NotOnAList
    <2> QED BY <2>1, <2>2
  <1> QED BY <1>4, <1>5 DEF Revoked


-----------------------------------------------------------------------------
(* The verifying thread. *)

VFields == {"pc", "via", "file", "crl", "content", "jobs", "k", "bits", "info", "pCert",
            "pCACert", "role", "dp", "st"}

(* What the steps of one job leave alone. *)
Same(x, w) == /\ DOMAIN x = VFields
              /\ x.via = w.via /\ x.file = w.file /\ x.crl = w.crl /\ x.content = w.content
              /\ x.jobs = w.jobs /\ x.k = w.k

NodeAt(w) == NodeOf(Docs[w.file], w.jobs[w.k])

(* The chain from the certificate of the job to where the walk is. *)
ChainPart(w, c, st) ==
    /\ w.pCert \in DOMAIN Certs /\ (w.pCert = c \/ Reaches(c, w.pCert))
    /\ w.role \in {"signer", "ca"}
    /\ w.pc = "walk" => /\ w.role = "signer" /\ w.pCACert = GetCertificate(st, w.pCert)
                        /\ "CA_FOUND" \in w.bits => Reaches(c, w.pCert)
    /\ w.pc # "walk" /\ w.role = "signer" => w.pCert = c /\ "CA_FOUND" \notin w.bits
    /\ w.pc # "walk" /\ w.role = "ca" => w.pCACert \in Range(BuiltIn) /\ Reaches(c, w.pCACert)
    /\ "CHAIN" \notin w.bits /\ "SIGNATURE" \notin w.bits

(* What has been found out about the certificate of the job. *)
StatusPart(w, c, t) ==
    /\ "GOOD" \in w.bits \/ w.info.status = "GOOD" => Fine(w.info, c, t)
    /\ w.pc \in {"ocsp", "crl"} /\ w.role = "signer" => "GOOD" \notin w.bits
    /\ w.pc = "ocsp" /\ w.role = "signer" => w.info = NoInfo
    /\ w.pc = "crl" /\ w.role = "signer" /\ w.st = "GOOD" => Fine(w.info, c, t)
    /\ w.st \in {"UNKNOWN", "GOOD", "REVOKED"}

Deep(w, c, st, t) == ChainPart(w, c, st) /\ StatusPart(w, c, t)

(* What a chain reaches is compiled in. *)
LEMMA ReachedBuiltIn ==
    ASSUME NEW c, NEW a, Reaches(c, a)
    PROVE  a \in Range(BuiltIn) /\ a \in DOMAIN Certs
  <1>0. PICK n \in Nat \ {0} : \E path : Path(c, n, path, a)
    BY DEF Reaches
  <1>1. PICK path : Path(c, n, path, a)
    BY <1>0
  <1>2. path \in [1..n -> Range(BuiltIn)] /\ path[n] = a /\ n \in 1..n
    BY <1>1 DEF Path
  <1>3. Range(BuiltIn) \subseteq DOMAIN Certs
    BY CertAssumption DEF Range
  <1> QED BY <1>2, <1>3

(* The bits a status adds. *)
LEMMA BitsOfStatus ==
    ASSUME NEW kind, NEW s \in Statuses
    PROVE  /\ "GOOD" \in StatusBits(kind, s) => s = "GOOD"
           /\ \A b \in {"CA_FOUND", "CHAIN", "SIGNATURE"} : b \notin StatusBits(kind, s)
           /\ \A b \in {"GOOD", "CA_FOUND", "CHAIN", "SIGNATURE"} : b \notin CAStatusBits(s)
  BY DEF Statuses, StatusBits, CAStatusBits

(* verifyStatus returns s: the walk goes on from the certificate it was about. *)
LEMMA StatusIsFields ==
    ASSUME NEW w, DOMAIN w = VFields, NEW s, NEW x, x = StatusIs(w, s)
    PROVE  /\ Same(x, w) /\ x.pc = "walk" /\ x.role = "signer" /\ x.info = w.info /\ x.st = w.st
           /\ w.role = "signer" => /\ x.pCert = w.pCert
                                   /\ x.bits = w.bits \cup StatusBits(TheJob.kind, s)
           /\ w.role # "signer" => /\ x.pCert = w.pCACert
                                   /\ x.bits = w.bits \cup CAStatusBits(s)
           /\ x.pCACert = GetCertificate(store, x.pCert)
  <1> DEFINE y == [w EXCEPT !.bits = @ \cup StatusBits(TheJob.kind, s)]
             z == [w EXCEPT !.bits = @ \cup CAStatusBits(s)]
  <1>1. CASE w.role = "signer"
    <2>1. x = WalkFrom(y, w.pCert)
      BY <1>1 DEF StatusIs
    <2>2. /\ Same(y, w) /\ y.info = w.info /\ y.st = w.st
          /\ y.bits = w.bits \cup StatusBits(TheJob.kind, s)
      BY DEF Same, VFields
    <2> HIDE DEF y
    <2> QED BY <1>1, <2>1, <2>2 DEF Same, VFields, WalkFrom
  <1>2. CASE w.role # "signer"
    <2>1. x = WalkFrom(z, w.pCACert)
      BY <1>2 DEF StatusIs
    <2>2. /\ Same(z, w) /\ z.info = w.info /\ z.st = w.st
          /\ z.bits = w.bits \cup CAStatusBits(s)
      BY DEF Same, VFields
    <2> HIDE DEF z
    <2> QED BY <1>2, <2>1, <2>2 DEF Same, VFields, WalkFrom
  <1> QED BY <1>1, <1>2

(* verifyStatus returns: nothing is made good that was not found good. *)
LEMMA StatusIsDeep ==
    ASSUME NEW w, DOMAIN w = VFields, w.pc \in {"ocsp", "crl"}, NEW c \in DOMAIN Certs,
           ChainPart(w, c, store), NEW t, NEW s \in Statuses,
           w.st \in {"UNKNOWN", "GOOD", "REVOKED"},
           "GOOD" \in w.bits \/ w.info.status = "GOOD" => Fine(w.info, c, t),
           w.role = "signer" /\ s = "GOOD" => Fine(w.info, c, t)
    PROVE  /\ Same(StatusIs(w, s), w) /\ StatusIs(w, s).pc = "walk"
           /\ Deep(StatusIs(w, s), c, store, t)
  <1> DEFINE x == StatusIs(w, s)
  <1>1. /\ Same(x, w) /\ x.pc = "walk" /\ x.role = "signer" /\ x.info = w.info /\ x.st = w.st
        /\ w.role = "signer" => /\ x.pCert = w.pCert
                                /\ x.bits = w.bits \cup StatusBits(TheJob.kind, s)
        /\ w.role # "signer" => /\ x.pCert = w.pCACert
                                /\ x.bits = w.bits \cup CAStatusBits(s)
        /\ x.pCACert = GetCertificate(store, x.pCert)
    BY StatusIsFields
  <1> HIDE DEF x
  <1>2. /\ "GOOD" \in StatusBits(TheJob.kind, s) => s = "GOOD"
        /\ \A b \in {"CA_FOUND", "CHAIN", "SIGNATURE"} : b \notin StatusBits(TheJob.kind, s)
        /\ \A b \in {"GOOD", "CA_FOUND", "CHAIN", "SIGNATURE"} : b \notin CAStatusBits(s)
    BY BitsOfStatus
  <1>3. ChainPart(x, c, store)
    <2>1. CASE w.role = "signer"
      BY <1>1, <1>2, <2>1 DEF ChainPart
    <2>2. CASE w.role # "signer"
      <3>1. w.role = "ca" /\ Reaches(c, w.pCACert)
        BY <2>2 DEF ChainPart
      <3>2. w.pCACert \in DOMAIN Certs
        BY <3>1, ReachedBuiltIn
      <3> QED BY <1>1, <1>2, <2>2, <3>1, <3>2 DEF ChainPart
    <2> QED BY <2>1, <2>2
  <1>4. StatusPart(x, c, t)
    BY <1>1, <1>2 DEF StatusPart
  <1> QED BY <1>1, <1>3, <1>4 DEF Deep, x

(* Only the signer's certificate has a REVOCATION_INFO. *)
LEMMA SetInfoFields ==
    ASSUME NEW w, DOMAIN w = VFields, NEW s, NEW upd, NEW src, NEW x, x = SetInfo(w, s, upd, src)
    PROVE  /\ Same(x, w) /\ x.pc = w.pc /\ x.role = w.role /\ x.bits = w.bits /\ x.st = w.st
           /\ x.pCert = w.pCert /\ x.pCACert = w.pCACert /\ x.dp = w.dp
           /\ w.role # "signer" => x.info = w.info
           /\ w.role = "signer" => /\ x.info.status = s /\ x.info.upd = upd /\ x.info.src = src
                                   /\ x.info.late = (now > upd + CrlLife)
  <1>1. CASE w.role = "signer"
    BY <1>1 DEF SetInfo, Same, VFields
  <1>2. CASE w.role # "signer"
    BY <1>2 DEF SetInfo, Same, VFields
  <1> QED BY <1>1, <1>2

(* OCSP decides nothing: the CRLs are next. *)
LEMMA GoToCrlDeep ==
    ASSUME NEW w, DOMAIN w = VFields, w.pc = "ocsp", NEW c \in DOMAIN Certs,
           ChainPart(w, c, store), NEW t,
           "GOOD" \in w.bits \/ w.info.status = "GOOD" => Fine(w.info, c, t),
           w.role = "signer" => "GOOD" \notin w.bits
    PROVE  /\ Same(GoToCrl(w), w) /\ GoToCrl(w).pc = "crl"
           /\ Deep(GoToCrl(w), c, store, t)
  <1> DEFINE x == GoToCrl(w)
  <1>1. /\ Same(x, w) /\ x.pc = "crl" /\ x.role = w.role /\ x.bits = w.bits /\ x.st = "UNKNOWN"
        /\ x.pCert = w.pCert /\ x.pCACert = w.pCACert /\ x.info = w.info
    BY DEF GoToCrl, Same, VFields
  <1> HIDE DEF x
  <1>2. ChainPart(x, c, store)
    BY <1>1 DEF ChainPart
  <1>3. StatusPart(x, c, t)
    BY <1>1 DEF StatusPart
  <1> QED BY <1>1, <1>2, <1>3 DEF Deep, x


(* What verifyStatus is about. *)
LEMMA SubjectIs ==
    ASSUME NEW c \in DOMAIN Certs, v.pc \in {"ocsp", "crl"}, ChainPart(v, c, store)
    PROVE  Subject \in DOMAIN Certs /\ (v.role = "signer" => Subject = c)
  <1>1. CASE v.role = "signer"
    BY <1>1 DEF ChainPart, Subject
  <1>2. CASE v.role # "signer"
    <2>1. v.role = "ca" /\ Reaches(c, v.pCACert) /\ Subject = v.pCACert
      BY <1>2 DEF ChainPart, Subject
    <2> QED BY <1>2, <2>1, ReachedBuiltIn
  <1> QED BY <1>1, <1>2

(* verifyStatus reads an OCSP answer. *)
LEMMA OcspDeep ==
    ASSUME store \in Stores, now \in 0..MaxNow, DOMAIN v = VFields, v.pc = "ocsp",
           NEW c \in DOMAIN Certs, Deep(v, c, store, now),
           NEW a \in NormalOcsp(Subject, now) \cup OddOcsp(Subject, now),
           NEW x, x = OcspAnswer(a)
    PROVE  Same(x, v) /\ x.pc \in {"crl", "walk"} /\ Deep(x, c, store, now)
  <1>1. ChainPart(v, c, store) /\ StatusPart(v, c, now)
    BY DEF Deep
  <1>2. Subject \in DOMAIN Certs /\ (v.role = "signer" => Subject = c) /\ v.role \in {"signer", "ca"}
    BY <1>1, SubjectIs DEF ChainPart
  <1>3. /\ "GOOD" \in v.bits \/ v.info.status = "GOOD" => Fine(v.info, c, now)
        /\ v.role = "signer" => "GOOD" \notin v.bits /\ v.info = NoInfo
        /\ v.st \in {"UNKNOWN", "GOOD", "REVOKED"}
    BY <1>1 DEF StatusPart
  <1> DEFINE ok == /\ a.kind = "response"
                   /\ VerifyOCSPResponderSignature(store, Subject, a)
                   /\ MatchesCertID(Subject, a.about)
             src == IF a.says = "undefined" THEN "no_status" ELSE "ocsp"
             w == SetInfo(v, OcspInfo(a.says, v.info.status), a.made, src)
  <1>4. CASE ~ok
    <2>1. x = GoToCrl(v)
      BY <1>4 DEF OcspAnswer
    <2>2. Same(GoToCrl(v), v) /\ GoToCrl(v).pc = "crl" /\ Deep(GoToCrl(v), c, store, now)
      BY <1>1, <1>3, GoToCrlDeep
    <2> QED BY <2>1, <2>2
  <1>5. CASE ok
    <2>1. x = IF OcspReturns(a.says) = "UNKNOWN" THEN GoToCrl(w) ELSE StatusIs(w, OcspReturns(a.says))
      BY <1>5 DEF OcspAnswer
    <2>2. /\ a.made \in 0..now /\ a.says \in Says
      BY <1>2, <1>5, Responses
    <2>3. /\ Same(w, v) /\ w.pc = v.pc /\ w.role = v.role /\ w.bits = v.bits /\ w.st = v.st
          /\ w.pCert = v.pCert /\ w.pCACert = v.pCACert
          /\ v.role # "signer" => w.info = v.info
          /\ v.role = "signer" => /\ w.info.status = OcspInfo(a.says, v.info.status)
                                  /\ w.info.upd = a.made /\ w.info.src = src
      BY SetInfoFields
    <2> HIDE DEF w
    <2>4. DOMAIN w = VFields /\ ChainPart(w, c, store)
      BY <1>1, <2>3 DEF Same, ChainPart
    <2>5. ASSUME v.role = "signer", a.says \in {"good", "undefined"} PROVE Fine(w.info, c, now)
      <3>1. CASE a.says = "good"
        <4>1. ~Revoked(c, a.made)
          BY <1>2, <1>5, <2>5, <3>1, OcspGood
        <4> QED BY <2>2, <2>3, <2>5, <3>1, <4>1 DEF Fine
      <3>2. CASE a.says = "undefined"
        BY <2>2, <2>3, <2>5, <3>2 DEF Fine
      <3> QED BY <2>5, <3>1, <3>2
    <2>6. v.role = "signer" /\ w.info.status = "GOOD" => a.says \in {"good", "undefined"}
      <3>1. NoInfo.status = "UNKNOWN"
        BY DEF NoInfo
      <3> QED BY <1>3, <2>2, <2>3, <3>1 DEF OcspInfo, OcspReturns, Says
    <2>7. "GOOD" \in w.bits \/ w.info.status = "GOOD" => Fine(w.info, c, now)
      BY <1>2, <1>3, <2>3, <2>5, <2>6
    <2>8. /\ OcspReturns(a.says) \in Statuses
          /\ OcspReturns(a.says) = "GOOD" => a.says \in {"good", "undefined"}
      BY <2>2 DEF OcspReturns, Statuses, Says
    <2>9. Same(GoToCrl(w), w) /\ GoToCrl(w).pc = "crl" /\ Deep(GoToCrl(w), c, store, now)
      BY <1>3, <2>3, <2>4, <2>7, GoToCrlDeep
    <2>10. /\ Same(StatusIs(w, OcspReturns(a.says)), w) /\ StatusIs(w, OcspReturns(a.says)).pc = "walk"
           /\ Deep(StatusIs(w, OcspReturns(a.says)), c, store, now)
      <3> DEFINE s == OcspReturns(a.says)
      <3>1. s \in Statuses /\ (w.role = "signer" /\ s = "GOOD" => Fine(w.info, c, now))
        BY <2>3, <2>5, <2>8
      <3> HIDE DEF s
      <3>2. w.pc \in {"ocsp", "crl"} /\ w.st \in {"UNKNOWN", "GOOD", "REVOKED"}
        BY <1>3, <2>3
      <3>3. Same(StatusIs(w, s), w) /\ StatusIs(w, s).pc = "walk" /\ Deep(StatusIs(w, s), c, store, now)
        BY <2>4, <2>7, <3>1, <3>2, StatusIsDeep
      <3> QED BY <3>3 DEF s
    <2> QED BY <2>1, <2>3, <2>9, <2>10 DEF Same
  <1> QED BY <1>4, <1>5

(* verifyStatus reads a CRL. *)
LEMMA CrlDeep ==
    ASSUME store \in Stores, now \in 0..MaxNow, DOMAIN v = VFields, v.pc = "crl",
           NEW c \in DOMAIN Certs, Deep(v, c, store, now),
           NEW a \in NormalCrl(Subject, now) \cup OddCrl(Subject, now),
           NEW x, x = CrlAnswer(a)
    PROVE  Same(x, v) /\ x.pc \in {"crl", "walk"} /\ Deep(x, c, store, now)
  <1>1. ChainPart(v, c, store) /\ StatusPart(v, c, now)
    BY DEF Deep
  <1>2. Subject \in DOMAIN Certs /\ (v.role = "signer" => Subject = c) /\ v.role \in {"signer", "ca"}
    BY <1>1, SubjectIs DEF ChainPart
  <1>3. /\ "GOOD" \in v.bits \/ v.info.status = "GOOD" => Fine(v.info, c, now)
        /\ v.role = "signer" => "GOOD" \notin v.bits
        /\ v.role = "signer" /\ v.st = "GOOD" => Fine(v.info, c, now)
        /\ v.st \in {"UNKNOWN", "GOOD", "REVOKED"}
    BY <1>1 DEF StatusPart
  <1>4. \A s \in {"NOTLOADED", v.st} :
           Same(StatusIs(v, s), v) /\ StatusIs(v, s).pc = "walk" /\ Deep(StatusIs(v, s), c, store, now)
    <2> TAKE s \in {"NOTLOADED", v.st}
    <2>1. s \in Statuses /\ (v.role = "signer" /\ s = "GOOD" => Fine(v.info, c, now))
      BY <1>3 DEF Statuses
    <2> QED BY <1>1, <1>3, <2>1, StatusIsDeep
  <1> DEFINE ca == GetCertificate(store, Subject)
             s == IF isRevoked(a, Subject) THEN "REVOKED" ELSE "GOOD"
             w == SetInfo(v, CrlReason(a, Subject), ThisUpdate(a), a.form)
             bad == ca = Null \/ ~CrlVerifySignature(a, ca) \/ ~isCurrent(a, now)
  <1>5. CASE a.kind \in {"none", "garbled"}
    <2>1. x = StatusIs(v, "NOTLOADED") \/ x = StatusIs(v, v.st)
      BY <1>5 DEF CrlAnswer
    <2> QED BY <1>4, <2>1
  <1>6. CASE a.kind \notin {"none", "garbled"} /\ bad
    <2>1. x = StatusIs(v, "NOTLOADED")
      BY <1>6 DEF CrlAnswer
    <2> QED BY <1>4, <2>1
  <1>7. CASE a.kind \notin {"none", "garbled"} /\ ~bad
    <2>1. x = IF v.dp < Certs[Subject].dps THEN [w EXCEPT !.dp = @ + 1, !.st = s] ELSE StatusIs(w, s)
      BY <1>7 DEF CrlAnswer
    <2>2. a.made \in Nat /\ a.form \in CrlForms
      <3>1. CASE a \in NormalCrl(Subject, now)
        BY <3>1 DEF NormalCrl, CrlBy, CrlForms
      <3>2. CASE a \in OddCrl(Subject, now)
        BY <1>7, <3>2 DEF OddCrl, CrlBy
      <3> QED BY <3>1, <3>2
    <2>3. /\ now >= ThisUpdate(a) /\ now \in Nat /\ CrlLife \in Nat
          /\ a.form = "utc" => now <= a.made + CrlLife
      BY <1>7, CertAssumption DEF isCurrent
    <2>4. /\ ThisUpdate(a) \in 0..now /\ a.made \in 0..MaxNow
          /\ a.form # "v1" => ThisUpdate(a) = a.made
          /\ a.form = "utc" => ~(now > ThisUpdate(a) + CrlLife)
      BY <2>2, <2>3, CertAssumption DEF ThisUpdate
    <2>5. /\ Same(w, v) /\ w.pc = v.pc /\ w.role = v.role /\ w.bits = v.bits /\ w.st = v.st
          /\ w.pCert = v.pCert /\ w.pCACert = v.pCACert
          /\ v.role # "signer" => w.info = v.info
          /\ v.role = "signer" => /\ w.info.status = CrlReason(a, Subject) /\ w.info.src = a.form
                                  /\ w.info.upd = ThisUpdate(a)
                                  /\ w.info.late = (now > ThisUpdate(a) + CrlLife)
      BY SetInfoFields
    <2>6. ASSUME v.role = "signer", ~isRevoked(a, Subject) PROVE Fine(w.info, c, now)
      <3>1. ca # Null /\ CrlVerifySignature(a, ca)
        BY <1>7
      <3>2. a.form \in {"utc", "generalized"} => ~Revoked(c, ThisUpdate(a))
        <4> HIDE DEF ca
        <4> QED BY <1>2, <2>4, <2>6, <3>1, CrlGood DEF ca
      <3> HIDE DEF w
      <3>3. a.form = "utc" => ~w.info.late
        BY <2>4, <2>5, <2>6, Zenon
      <3>4. /\ w.info.upd = ThisUpdate(a) /\ w.info.src = a.form
        BY <2>5, <2>6
      <3>5. w.info.src \in {"ocsp", "utc", "generalized"} => ~Revoked(c, w.info.upd)
        BY <2>2, <3>2, <3>4 DEF CrlForms
      <3> QED BY <2>2, <2>4, <3>3, <3>4, <3>5 DEF Fine
    <2>7. v.role = "signer" /\ w.info.status = "GOOD" => ~isRevoked(a, Subject)
      <3> HIDE DEF w
      <3> QED BY <2>5 DEF CrlReason
    <2>8. s \in {"REVOKED", "GOOD"} /\ (s = "GOOD" => ~isRevoked(a, Subject))
      OBVIOUS
    <2> HIDE DEF w, s, ca
    <2>9. "GOOD" \in w.bits \/ w.info.status = "GOOD" => Fine(w.info, c, now)
      BY <1>2, <1>3, <2>5, <2>6, <2>7
    <2>10. w.role = "signer" /\ s = "GOOD" => Fine(w.info, c, now)
      BY <2>5, <2>6, <2>8
    <2>11. DOMAIN w = VFields /\ ChainPart(w, c, store)
      BY <1>1, <2>5 DEF Same, ChainPart
    <2>12. CASE x = StatusIs(w, s)
      <3>1. s \in Statuses /\ w.pc \in {"ocsp", "crl"} /\ w.st \in {"UNKNOWN", "GOOD", "REVOKED"}
        BY <1>3, <2>5, <2>8 DEF Statuses
      <3>2. Same(StatusIs(w, s), w) /\ StatusIs(w, s).pc = "walk" /\ Deep(StatusIs(w, s), c, store, now)
        BY <2>9, <2>10, <2>11, <3>1, StatusIsDeep
      <3> QED BY <2>5, <2>12, <3>2 DEF Same
    <2>13. CASE x = [w EXCEPT !.dp = @ + 1, !.st = s]
      <3>1. /\ Same(x, w) /\ x.pc = w.pc /\ x.role = w.role /\ x.bits = w.bits /\ x.st = s
            /\ x.pCert = w.pCert /\ x.pCACert = w.pCACert /\ x.info = w.info
        BY <2>11, <2>13 DEF Same, VFields
      <3>2. ChainPart(x, c, store)
        BY <2>11, <3>1 DEF ChainPart
      <3>3. StatusPart(x, c, now)
        BY <1>3, <2>5, <2>8, <2>9, <2>10, <3>1 DEF StatusPart
      <3> QED BY <2>5, <3>1, <3>2, <3>3 DEF Deep, Same
    <2> QED BY <2>1, <2>12, <2>13
  <1> QED BY <1>5, <1>6, <1>7


(* verifySignature starts with a certificate of which nothing is known. *)
LEMMA BeginDeep ==
    ASSUME DOMAIN v = VFields, NEW c \in DOMAIN Certs, c = TheNode.cert, Begin
    PROVE  /\ Same(v', v) /\ v'.pc \in {"ocsp", "walk"} /\ Deep(v', c, store, now)
           /\ res' = res /\ ret' = ret
  <1> DEFINE bits == CertBits(TheJob.kind, TheNode, now)
             w == [v EXCEPT !.bits = bits, !.info = NoInfo, !.pCert = TheNode.cert,
                            !.role = "signer", !.dp = 1, !.st = "UNKNOWN"]
             x == v'
  <1>1. \A b \in {"CA_FOUND", "CHAIN", "SIGNATURE", "GOOD"} : b \notin bits
    BY DEF CertBits, Bit
  <1>2. /\ x = [w EXCEPT !.pc = "ocsp"]
           \/ x = [w EXCEPT !.pc = "walk", !.pCACert = GetCertificate(store, TheNode.cert)]
        /\ res' = res /\ ret' = ret
    BY DEF Begin
  <1> HIDE DEF bits
  <1>3. /\ Same(w, v) /\ w.bits = bits /\ w.info = NoInfo /\ w.pCert = c /\ w.role = "signer"
        /\ w.st = "UNKNOWN"
    BY DEF Same, VFields
  <1> HIDE DEF w, x
  <1>4. NoInfo.status # "GOOD"
    BY DEF NoInfo
  <1>5. /\ Same(x, v) /\ x.bits = bits /\ x.info = NoInfo /\ x.pCert = c /\ x.role = "signer"
        /\ x.st = "UNKNOWN"
        /\ x.pc = "ocsp" \/ (x.pc = "walk" /\ x.pCACert = GetCertificate(store, c))
    <2>1. CASE x = [w EXCEPT !.pc = "ocsp"]
      BY <1>3, <2>1 DEF Same, VFields
    <2>2. CASE x = [w EXCEPT !.pc = "walk", !.pCACert = GetCertificate(store, TheNode.cert)]
      BY <1>3, <2>2 DEF Same, VFields
    <2> QED BY <1>2, <2>1, <2>2
  <1>6. ChainPart(x, c, store)
    BY <1>1, <1>5 DEF ChainPart
  <1>7. StatusPart(x, c, now)
    BY <1>1, <1>4, <1>5 DEF StatusPart
  <1> QED BY <1>2, <1>5, <1>6, <1>7 DEF Deep, x

(* One link of the chain: the CA that the store has did sign. *)
LEMMA WalkOnDeep ==
    ASSUME store \in Stores, DOMAIN v = VFields, v.pc = "walk", NEW c \in DOMAIN Certs,
           Deep(v, c, store, now), v.pCACert # Null, verifySignature(v.pCert, v.pCACert),
           NEW w, w = [v EXCEPT !.bits = @ \cup {"CA_FOUND"}
                                       \cup Bit("CA_VALIDITY", isValid(v.pCACert, now))],
           NEW x, x = IF v.crl /\ isValid(v.pCACert, now)
                      THEN [w EXCEPT !.pc = "ocsp", !.role = "ca", !.dp = 1, !.st = "UNKNOWN"]
                      ELSE WalkFrom(w, v.pCACert)
    PROVE  Same(x, v) /\ x.pc \in {"ocsp", "walk"} /\ Deep(x, c, store, now)
  <1> DEFINE ca == v.pCACert
  <1>1. ChainPart(v, c, store) /\ StatusPart(v, c, now)
    BY DEF Deep
  <1>2. ca \in Range(BuiltIn) /\ ca \in DOMAIN Certs /\ Certs[ca].subject = Certs[v.pCert].issuer
    <2>1. v.pCert \in DOMAIN Certs /\ ca = GetCertificate(store, v.pCert)
      BY <1>1 DEF ChainPart
    <2> HIDE DEF ca
    <2> QED BY <2>1, Looked DEF ca
  <1>3. Link(v.pCert, ca)
    BY <1>2 DEF Link, verifySignature
  <1>4. Reaches(c, ca)
    <2>1. v.pCert = c \/ Reaches(c, v.pCert)
      BY <1>1 DEF ChainPart
    <2> HIDE DEF ca
    <2> QED BY <1>2, <1>3, <2>1, ReachOne, ReachMore
  <1>5. /\ Same(w, v) /\ w.info = v.info /\ w.st = v.st /\ w.pCert = v.pCert
        /\ w.pCACert = v.pCACert /\ w.role = v.role
        /\ \A b \in {"CHAIN", "SIGNATURE", "GOOD"} : b \in w.bits => b \in v.bits
    BY DEF Same, VFields, Bit
  <1>6. CASE x = [w EXCEPT !.pc = "ocsp", !.role = "ca", !.dp = 1, !.st = "UNKNOWN"]
    <2>1. /\ Same(x, w) /\ x.pc = "ocsp" /\ x.role = "ca" /\ x.st = "UNKNOWN" /\ x.info = w.info
          /\ x.bits = w.bits /\ x.pCert = w.pCert /\ x.pCACert = w.pCACert
      BY <1>5, <1>6 DEF Same, VFields
    <2>2. ChainPart(x, c, store)
      BY <1>1, <1>2, <1>4, <1>5, <2>1 DEF ChainPart
    <2>3. StatusPart(x, c, now)
      BY <1>1, <1>5, <2>1 DEF StatusPart
    <2> QED BY <1>5, <2>1, <2>2, <2>3 DEF Same, Deep
  <1>7. CASE x = WalkFrom(w, ca)
    <2>1. /\ Same(x, w) /\ x.pc = "walk" /\ x.role = "signer" /\ x.st = w.st /\ x.info = w.info
          /\ x.bits = w.bits /\ x.pCert = ca /\ x.pCACert = GetCertificate(store, ca)
      BY <1>5, <1>7 DEF Same, VFields, WalkFrom
    <2>2. ChainPart(x, c, store)
      BY <1>1, <1>2, <1>4, <1>5, <2>1 DEF ChainPart
    <2>3. StatusPart(x, c, now)
      BY <1>1, <1>5, <2>1 DEF StatusPart
    <2> QED BY <1>5, <2>1, <2>2, <2>3 DEF Same, Deep
  <1> QED BY <1>6, <1>7

(* The bits of the signature itself. *)
LEMMA BitsOfSignature ==
    ASSUME NEW kind, NEW node \in NodeRecord, NEW source
    PROVE  /\ "SIGNATURE" \in FinalBits(kind, node, source) => Commits(node, source)
           /\ "CHAIN" \notin FinalBits(kind, node, source)
           /\ "GOOD" \notin FinalBits(kind, node, source)
  <1>1. node.attrs \subseteq {"MD", "CT", "SC"}
    BY DEF NodeRecord
  <1>2. CASE kind = "xml"
    BY <1>1, <1>2 DEF FinalBits, XmlSignatureBits, ReferencesVerify, Commits
  <1>3. CASE kind # "xml"
    BY <1>1, <1>3 DEF FinalBits, SignatureBits, SignatureMatches, Bit, Commits
  <1> QED BY <1>2, <1>3

(* What an entry says of the signature it is about. *)
EntryOk(e, d, t) ==
    \/ NotEvenTried(d, Job(e.kind, e.node, e.parent, e.slot))
    \/ /\ "CHAIN" \in e.bits => Trusted(NodeOf(d, e).cert)
       /\ "SIGNATURE" \in e.bits => Commits(NodeOf(d, e), SourceOf(NodeOf(d, e), e, ContentOf(d)))
       /\ "GOOD" \in e.bits \/ e.info.status = "GOOD" => Fine(e.info, NodeOf(d, e).cert, t)

(* An entry of a job: about the same signature. *)
About(e, job) == /\ e.slot = job.slot /\ e.kind = job.kind /\ e.node = job.node
                 /\ e.parent = job.parent

(* What is said of an entry is said of its job. *)
LEMMA AboutSame ==
    ASSUME NEW e, NEW job, DOMAIN job = JobFields, About(e, job), NEW d, NEW content, NEW node
    PROVE  /\ NodeOf(d, e) = NodeOf(d, job)
           /\ SourceOf(node, e, content) = SourceOf(node, job, content)
           /\ NotEvenTried(d, Job(e.kind, e.node, e.parent, e.slot)) = NotEvenTried(d, job)
  BY DEF About, NodeOf, SourceOf, NotEvenTried, Job

(* The walk has ended, at an anchor or not, and the signature is checked. *)
LEMMA WalkEnd ==
    ASSUME NEW d, NEW job, DOMAIN job = JobFields, NodeOf(d, job) \in NodeRecord,
           NEW c \in DOMAIN Certs, c = NodeOf(d, job).cert,
           v.pc = "walk", Deep(v, c, store, now), Asks(d, job, v.content),
           NEW bits, bits = v.bits \cup (IF v.pCACert = Null THEN ChainBits(v.bits, v.pCert) ELSE {})
                               \cup FinalBits(job.kind, NodeOf(d, job), SourceOf(NodeOf(d, job), job, v.content)),
           NEW e, About(e, job), e.bits = bits, e.info = v.info
    PROVE  EntryOk(e, d, now)
  <1> DEFINE node == NodeOf(d, job)
             final == FinalBits(job.kind, node, SourceOf(node, job, v.content))
  <1>1. ChainPart(v, c, store) /\ StatusPart(v, c, now)
    BY DEF Deep
  <1>2. /\ "SIGNATURE" \in final => Commits(node, SourceOf(node, job, v.content))
        /\ "CHAIN" \notin final /\ "GOOD" \notin final
    BY BitsOfSignature
  <1>3. /\ NodeOf(d, e) = node
        /\ SourceOf(node, e, ContentOf(d)) = SourceOf(node, job, ContentOf(d))
        /\ NotEvenTried(d, Job(e.kind, e.node, e.parent, e.slot)) = NotEvenTried(d, job)
    BY AboutSame
  <1> HIDE DEF final, node
  <1>4. bits = v.bits \cup (IF v.pCACert = Null THEN ChainBits(v.bits, v.pCert) ELSE {}) \cup final
    BY DEF final, node
  <1>5. ASSUME "CHAIN" \in bits PROVE Trusted(c)
    <2>1. "CA_FOUND" \in v.bits /\ SelfIssued(v.pCert) /\ verifySignature(v.pCert, v.pCert)
      BY <1>1, <1>2, <1>4, <1>5 DEF ChainPart, ChainBits
    <2>2. Reaches(c, v.pCert)
      BY <1>1, <2>1 DEF ChainPart
    <2>3. v.pCert \in Anchors
      BY <2>1, <2>2, ReachedBuiltIn DEF Anchors, verifySignature
    <2> QED BY <2>2, <2>3, ReachTrusted
  <1>6. "SIGNATURE" \in bits => Commits(node, SourceOf(node, job, v.content))
    BY <1>1, <1>2, <1>4 DEF ChainPart, ChainBits
  <1>7. "GOOD" \in bits \/ v.info.status = "GOOD" => Fine(v.info, c, now)
    BY <1>1, <1>2, <1>4 DEF StatusPart, ChainBits
  <1>8. NotEvenTried(d, job) \/ SourceOf(node, job, v.content) = SourceOf(node, job, ContentOf(d))
    BY DEF Asks, node
  <1>9. c = node.cert
    BY DEF node
  <1> QED BY <1>3, <1>5, <1>6, <1>7, <1>8, <1>9 DEF EntryOk


-----------------------------------------------------------------------------
(***************************************************************************)
(* The inductive invariant.  EntriesSound and GoodAsOf speak of entries    *)
(* that are written; the invariant adds what holds of the entry that is    *)
(* being made, through every answer of the network and turn of the walk.   *)
(***************************************************************************)
RFields == {"file", "nCount", "done", "ts", "nErrorCode"}

Typed == /\ DOMAIN v = VFields /\ DOMAIN res = RFields
         /\ v.pc \in {"idle", "open", "next", "ocsp", "crl", "walk"}
         /\ store \in Stores /\ now \in 0..MaxNow

(* A call in progress is about one file, and its result too. *)
InCall == /\ v.pc # "idle" => /\ v.file \in DOMAIN Docs /\ res.file = v.file
                              /\ v.via \in {"api", "csp"} /\ v.k \in Nat \ {0}
          /\ v.pc = "open" => /\ v.k = 1 /\ res.nCount = -1
                              /\ v.content \in {"none", "missing", "plain"}

Entries(r, t) == \A e \in r.done : EntryOk(e, Docs[r.file], t)

(* The jobs before the k-th have their entries; a .tsd may skip some. *)
Queue(w, r) ==
    /\ Ready(Docs[w.file], w.jobs, w.content, r.nCount)
    /\ Docs[w.file].type # "tsd" =>
          \A j \in 1..(w.k - 1) : \E e \in r.done : e.slot = w.jobs[j].slot /\ e.node = w.jobs[j].node

(* A job is being done: it is one that is really verified. *)
AtWork(w, st, t) == /\ w.k <= Len(w.jobs) /\ NodeAt(w).cert \in DOMAIN Certs
                    /\ ~NotEvenTried(Docs[w.file], w.jobs[w.k])
                    /\ Deep(w, NodeAt(w).cert, st, t)

Working(w, r, st, t) ==
    /\ w.pc \in {"next", "ocsp", "crl", "walk"} => Queue(w, r)
    /\ w.pc \in {"ocsp", "crl", "walk"} => AtWork(w, st, t)

Inv == /\ Typed /\ InCall /\ Entries(res, now) /\ AnswerIsOfThisFile /\ ZeroMeansVerified
       /\ ~ub => Working(v, res, store, now)

(* Every signer that is counted has its own entry. *)
Complete(r) == \A i \in 1..r.nCount :
    \E e \in r.done : /\ e.slot = <<i, 0, 0>>
                      /\ Docs[r.file].nodes[e.node].parent = 0
                      /\ Place(Docs[r.file], e.node) = i

(* Before the first call. *)
LEMMA InitInv == Init => Inv
  <1> SUFFICES ASSUME Init PROVE Inv
    OBVIOUS
  <1> USE DEF Init
  <1>1. DOMAIN v = VFields /\ v.pc = "idle"
    BY DEF Idle, VFields
  <1>2. DOMAIN res = RFields /\ res.done = {} /\ res.nCount = -1
    BY DEF NoResult, RFields
  <1>3. store \in Stores /\ now \in 0..MaxNow
    BY EmptyTyped, CertAssumption
  <1>4. Entries(res, now)
    BY <1>2 DEF Entries
  <1>5. ret.via = "none"
    BY DEF NotYet
  <1>6. AnswerIsOfThisFile /\ ZeroMeansVerified
    BY <1>5 DEF AnswerIsOfThisFile, ZeroMeansVerified
  <1>7. Typed /\ InCall
    BY <1>1, <1>2, <1>3 DEF Typed, InCall
  <1>8. Working(v, res, store, now)
    BY <1>1 DEF Working
  <1> QED BY <1>4, <1>6, <1>7, <1>8 DEF Inv

(* A call returns. *)
LEMMA ReturnKeeps ==
    ASSUME Inv, v.pc # "idle", NEW r, NEW code, Return(r, code), DOMAIN r = RFields, r.file = res.file,
           r.done \subseteq res.done, UNCHANGED <<store, now>>,
           code = "0" /\ get_file_type(v.file) # "tsd" => Complete(r)
    PROVE  Inv'
  <1>1. v' = Idle /\ res' = r /\ ret'.via = v.via /\ ret'.file = v.file
        /\ (v.via # "csp" => ret'.code = code)
    BY DEF Return
  <1>2. DOMAIN v' = VFields /\ v'.pc = "idle"
    BY <1>1 DEF Idle, VFields
  <1>3. Typed' /\ InCall'
    BY <1>1, <1>2 DEF Inv, Typed, InCall
  <1>4. res'.file = v.file
    BY <1>1 DEF Inv, InCall
  <1>5. Entries(res, now)'
    BY <1>1 DEF Inv, Entries
  <1>6. AnswerIsOfThisFile'
    BY <1>1, <1>4 DEF AnswerIsOfThisFile
  <1>7. ZeroMeansVerified'
    <2> SUFFICES ASSUME ret'.via = "api", ret'.code = "0", get_file_type(res'.file) # "tsd"
                 PROVE  Complete(r)
      BY <1>1 DEF ZeroMeansVerified, Complete
    <2> QED BY <1>1, <1>4
  <1>8. Working(v, res, store, now)'
    BY <1>2 DEF Working
  <1> QED BY <1>3, <1>5, <1>6, <1>7, <1>8 DEF Inv

(* An error code is answered. *)
LEMMA AnswerKeeps ==
    ASSUME Inv, v.pc # "idle", NEW code, Answer(code), UNCHANGED <<store, now>>,
           code = "0" /\ get_file_type(v.file) # "tsd" => Complete(res)
    PROVE  Inv'
  <1> DEFINE r == [res EXCEPT !.nErrorCode = code]
  <1>1. DOMAIN r = RFields /\ r.file = res.file /\ r.done = res.done /\ r.nCount = res.nCount
    BY DEF Inv, Typed, RFields
  <1>2. Return(r, code)
    BY DEF Answer
  <1> HIDE DEF r
  <1>3. Complete(res) => Complete(r)
    BY <1>1 DEF Complete
  <1>4. r.done \subseteq res.done
    BY <1>1
  <1> QED BY <1>1, <1>2, <1>3, <1>4, ReturnKeeps

(* The result is left as it is, or nothing is written to it. *)
LEMMA ResultReturns ==
    ASSUME Inv, v.pc # "idle", NEW r, r = res \/ r = [res EXCEPT !.ts = TRUE], NEW code, code # "0",
           Return(r, code), UNCHANGED <<store, now>>
    PROVE  Inv'
  <1>1. DOMAIN r = RFields /\ r.file = res.file /\ r.done = res.done
    BY DEF Inv, Typed, RFields
  <1>2. r.done \subseteq res.done
    BY <1>1
  <1> QED BY <1>1, <1>2, ReturnKeeps

(* The jobs of the file are set up. *)
LEMMA StartKeeps ==
    ASSUME Inv, v.pc = "open", NEW jobs, NEW r, NEW content, Start(jobs, r, content),
           DOMAIN r = RFields, r.file = res.file, r.done = res.done, UNCHANGED <<store, now>>,
           ~ub' => Ready(Docs[v.file], jobs, content, r.nCount)
    PROVE  Inv'
  <1>1. v' = [v EXCEPT !.pc = "next", !.jobs = jobs, !.content = content] /\ res' = r
    BY DEF Start
  <1>2. /\ DOMAIN v' = VFields /\ v'.pc = "next" /\ v'.jobs = jobs /\ v'.content = content
        /\ v'.file = v.file /\ v'.via = v.via /\ v'.k = v.k
    BY <1>1 DEF Inv, Typed, VFields
  <1>3. Typed'
    BY <1>1, <1>2 DEF Inv, Typed
  <1>4. InCall' /\ v'.k = 1
    BY <1>1, <1>2 DEF Inv, InCall
  <1>5. Entries(res, now)'
    BY <1>1 DEF Inv, Entries
  <1>6. AnswerIsOfThisFile' /\ ZeroMeansVerified'
    BY <1>2 DEF AnswerIsOfThisFile, ZeroMeansVerified
  <1>7. ~ub' => Working(v, res, store, now)'
    <2>1. \A j \in 1..(v'.k - 1) : FALSE
      BY <1>4
    <2> QED BY <1>1, <1>2, <2>1 DEF Working, Queue
  <1> QED BY <1>3, <1>4, <1>5, <1>6, <1>7 DEF Inv


(* The entries are allocated, for as many signers as were counted. *)
LEMMA AllocatedFields ==
    ASSUME Inv, NEW n
    PROVE  /\ DOMAIN Allocated(n) = RFields /\ Allocated(n).file = res.file
           /\ Allocated(n).done = res.done /\ Allocated(n).nCount = n
  BY DEF Inv, Typed, RFields, Allocated

(* verify_p7m and verify_m7m. *)
LEMMA OpenCmsInv ==
    ASSUME Inv, v.pc = "open", NEW d, d = Docs[v.file], NEW tail,
           ~ub' => tail = <<>> \/ (tail = TstJob /\ d.token # <<>>),
           OpenCms(d, tail, Allocated(getEmbeddedSignatureCount(d))), UNCHANGED <<store, now>>
    PROVE  Inv'
  <1> DEFINE n == getEmbeddedSignatureCount(d)
             r == Allocated(n)
             jobs == CmsJobs(d) \o tail
  <1>1. v.file \in DOMAIN Docs /\ v.content \in {"none", "missing", "plain"}
    BY DEF Inv, InCall
  <1>2. DOMAIN r = RFields /\ r.file = res.file /\ r.done = res.done /\ r.nCount = n
    BY AllocatedFields
  <1> HIDE DEF r
  <1>3. \/ Answer("DETACHED_PKCS7") \/ Answer("FILE_NOT_FOUND")
        \/ Start(jobs, r, ContentOf(d))
    BY <1>1 DEF OpenCms, ContentOf, r
  <1>4. ~ub' => Ready(d, jobs, ContentOf(d), r.nCount)
    BY <1>1, <1>2, CmsReady
  <1> HIDE DEF jobs
  <1>5. CASE Start(jobs, r, ContentOf(d))
    BY <1>2, <1>4, <1>5, StartKeeps
  <1>6. CASE Answer("DETACHED_PKCS7")
    BY <1>6, AnswerKeeps
  <1>7. CASE Answer("FILE_NOT_FOUND")
    BY <1>7, AnswerKeeps
  <1> QED BY <1>3, <1>5, <1>6, <1>7

(* verify_pdf and verify_xml. *)
LEMMA OpenFlatInv ==
    ASSUME Inv, v.pc = "open", NEW d, d = Docs[v.file],
           (d.type = "pdf" /\ verify_pdf(d)) \/ (d.type = "xml" /\ verify_xml(d)),
           UNCHANGED <<store, now>>
    PROVE  Inv'
  <1>1. v.file \in DOMAIN Docs
    BY DEF Inv, InCall
  <1>2. \A n : /\ DOMAIN Allocated(n) = RFields /\ Allocated(n).file = res.file
               /\ Allocated(n).done = res.done /\ Allocated(n).nCount = n
    BY AllocatedFields
  <1>3. \/ \E code \in {"FILE_NOT_FOUND", "-2", "INVALID_FILE"} : Answer(code)
        \/ d.type = "pdf" /\ Start(PdfJobs(d), Allocated(GetNumberOfSignatures(d)), d.content)
        \/ d.type = "xml" /\ Start(XmlJobs(d), Allocated(Len(d.nodes)), d.content)
    BY DEF verify_pdf, verify_xml
  <1>4. ASSUME NEW code \in {"FILE_NOT_FOUND", "-2", "INVALID_FILE"}, Answer(code) PROVE Inv'
    BY <1>4, AnswerKeeps
  <1>5. CASE d.type = "pdf" /\ Start(PdfJobs(d), Allocated(GetNumberOfSignatures(d)), d.content)
    <2> DEFINE n == GetNumberOfSignatures(d)
               r == Allocated(n)
    <2>1. DOMAIN r = RFields /\ r.file = res.file /\ r.done = res.done /\ r.nCount = n
      BY <1>2
    <2>2. Ready(d, PdfJobs(d), d.content, n)
      BY <1>1, <1>5, PdfReady
    <2> HIDE DEF r, n
    <2>3. Start(PdfJobs(d), r, d.content)
      BY <1>5 DEF r, n
    <2> QED BY <2>1, <2>2, <2>3, StartKeeps
  <1>6. CASE d.type = "xml" /\ Start(XmlJobs(d), Allocated(Len(d.nodes)), d.content)
    <2> DEFINE n == Len(d.nodes)
               r == Allocated(n)
    <2>1. DOMAIN r = RFields /\ r.file = res.file /\ r.done = res.done /\ r.nCount = n
      BY <1>2
    <2>2. Ready(d, XmlJobs(d), d.content, n)
      BY <1>1, <1>6, XmlReady
    <2> HIDE DEF r, n
    <2>3. Start(XmlJobs(d), r, d.content)
      BY <1>6 DEF r, n
    <2> QED BY <2>1, <2>2, <2>3, StartKeeps
  <1> QED BY <1>3, <1>4, <1>5, <1>6

(* verify_tsd, verify_tsr and verify_tst. *)
LEMMA OpenTokenInv ==
    ASSUME Inv, v.pc = "open", NEW d, d = Docs[v.file],
           (d.type = "tsd" /\ verify_tsd(d)) \/ (d.type \in {"tsr", "tst"} /\ verify_tsr(d)),
           UNCHANGED <<store, now>>
    PROVE  Inv'
  <1>1. v.file \in DOMAIN Docs /\ res.nCount = -1
    BY DEF Inv, InCall
  <1>2. d.parses => d.token # <<>>
    BY <1>1, DocFacts
  <1> DEFINE a == IF d.nodes = <<>> THEN res ELSE Allocated(getEmbeddedSignatureCount(d))
             b == [res EXCEPT !.ts = TRUE]
  <1>3. /\ DOMAIN a = RFields /\ a.file = res.file /\ a.done = res.done
        /\ DOMAIN b = RFields /\ b.file = res.file /\ b.done = res.done /\ b.nCount = -1
    BY <1>1, AllocatedFields DEF Inv, Typed, RFields
  <1>4. \/ Answer("FILE_NOT_FOUND") \/ Return(res, "UNEXPECTED") \/ Return(b, "UNEXPECTED")
        \/ d.type = "tsd" /\ d.parses /\ Start(CmsJobs(d) \o TstJob, a, d.content)
        \/ d.parses /\ Start(TstJob, b, d.content)
    BY DEF verify_tsd, verify_tsr
  <1>5. CASE Answer("FILE_NOT_FOUND")
    BY <1>5, AnswerKeeps
  <1>6. CASE Return(res, "UNEXPECTED") \/ Return(b, "UNEXPECTED")
    BY <1>6, ResultReturns
  <1> HIDE DEF a, b
  <1>7. CASE d.type = "tsd" /\ d.parses /\ Start(CmsJobs(d) \o TstJob, a, d.content)
    <2>1. Ready(d, CmsJobs(d) \o TstJob, d.content, a.nCount)
      BY <1>1, <1>2, <1>7, CmsReady
    <2> QED BY <1>3, <1>7, <2>1, StartKeeps
  <1>8. CASE d.parses /\ Start(TstJob, b, d.content)
    <2>1. Ready(d, TstJob, d.content, -1)
      BY <1>1, <1>2, <1>8, TokenReady
    <2> QED BY <1>3, <1>8, <2>1, StartKeeps
  <1> QED BY <1>4, <1>5, <1>6, <1>7, <1>8

(* Every verify_* function, up to the first signature. *)
LEMMA OpenInv ==
    ASSUME Inv, Open
    PROVE  Inv'
  <1> DEFINE d == Docs[v.file]
  <1>0. v.pc = "open" /\ UNCHANGED <<store, now>> /\ d.type = get_file_type(v.file)
    BY DEF Open, get_file_type
  <1>1. ub' = (/\ d.exists /\ d.parses
               /\ (d.type = "xml" /\ XmlUndefined(d)) \/ (d.type = "m7m" /\ M7mUndefined(d)))
    BY DEF Open, get_file_type
  <1>2. \/ d.type = "p7m" /\ verify_p7m(d)
        \/ d.type = "m7m" /\ verify_m7m(d)
        \/ d.type = "pdf" /\ verify_pdf(d)
        \/ d.type = "tsd" /\ verify_tsd(d)
        \/ d.type \in {"tsr", "tst"} /\ verify_tsr(d)
        \/ d.type = "xml" /\ verify_xml(d)
        \/ Answer("INVALID_FILE")
    BY DEF Open, get_file_type
  <1> HIDE DEF d
  <1>3. CASE Answer("INVALID_FILE")
    BY <1>0, <1>3, AnswerKeeps
  <1>4. CASE (d.type = "pdf" /\ verify_pdf(d)) \/ (d.type = "xml" /\ verify_xml(d))
    BY <1>0, <1>4, OpenFlatInv DEF d
  <1>5. CASE (d.type = "tsd" /\ verify_tsd(d)) \/ (d.type \in {"tsr", "tst"} /\ verify_tsr(d))
    BY <1>0, <1>5, OpenTokenInv DEF d
  <1>6. CASE d.type = "p7m" /\ verify_p7m(d)
    <2>1. \/ Answer("FILE_NOT_FOUND") \/ Answer("INVALID_FILE")
          \/ OpenCms(d, <<>>, Allocated(getEmbeddedSignatureCount(d)))
      BY <1>6 DEF verify_p7m
    <2>2. CASE Answer("FILE_NOT_FOUND")
      BY <1>0, <2>2, AnswerKeeps
    <2>3. CASE OpenCms(d, <<>>, Allocated(getEmbeddedSignatureCount(d)))
      BY <1>0, <2>3, OpenCmsInv DEF d
    <2> QED BY <1>3, <2>1, <2>2, <2>3
  <1>7. CASE d.type = "m7m" /\ verify_m7m(d)
    <2>1. \/ Answer("FILE_NOT_FOUND") \/ Answer("-1") \/ Return(res, "UNEXPECTED")
          \/ d.exists /\ d.parses /\ OpenCms(d, TstJob, Allocated(getEmbeddedSignatureCount(d)))
      BY <1>7 DEF verify_m7m
    <2>2. CASE Answer("FILE_NOT_FOUND")
      BY <1>0, <2>2, AnswerKeeps
    <2>3. CASE Answer("-1")
      BY <1>0, <2>3, AnswerKeeps
    <2>4. CASE Return(res, "UNEXPECTED")
      BY <1>0, <2>4, ResultReturns
    <2>5. CASE d.exists /\ d.parses /\ OpenCms(d, TstJob, Allocated(getEmbeddedSignatureCount(d)))
      <3>1. ~ub' => d.token # <<>>
        BY <1>1, <1>7, <2>5 DEF M7mUndefined
      <3> QED BY <1>0, <2>5, <3>1, OpenCmsInv DEF d
    <2> QED BY <2>1, <2>2, <2>3, <2>4, <2>5
  <1> QED BY <1>2, <1>3, <1>4, <1>5, <1>6, <1>7


(* The job at hand is about a signature that is there. *)
LEMMA JobAtHand ==
    ASSUME Inv, ~ub, v.pc \in {"next", "ocsp", "crl", "walk"}, v.k <= Len(v.jobs)
    PROVE  /\ v.k \in 1..Len(v.jobs) /\ DOMAIN TheJob = JobFields
           /\ TheNode \in NodeRecord /\ TheNode = NodeAt(v)
           /\ Asks(Docs[v.file], TheJob, v.content)
  <1>1. Ready(Docs[v.file], v.jobs, v.content, res.nCount)
    BY DEF Inv, Working, Queue
  <1>2. v.k \in Nat \ {0}
    BY DEF Inv, InCall
  <1>3. v.k \in 1..Len(v.jobs)
    BY <1>1, <1>2 DEF Ready
  <1>4. Aims(Docs[v.file], v.jobs[v.k]) /\ Asks(Docs[v.file], v.jobs[v.k], v.content)
    BY <1>1, <1>3 DEF Ready
  <1> QED BY <1>3, <1>4 DEF Aims, TheJob, TheNode, NodeAt

(* A job writes its entry. *)
LEMMA WriteKeeps ==
    ASSUME Inv, ~ub, v.pc \in {"next", "walk"}, v.k <= Len(v.jobs), NEW bits, NEW info,
           WriteEntry(bits, info), UNCHANGED <<store, now>>,
           \A e : About(e, TheJob) /\ e.bits = bits /\ e.info = info => EntryOk(e, Docs[v.file], now)
    PROVE  Inv'
  <1>0. /\ v.k \in 1..Len(v.jobs) /\ DOMAIN TheJob = JobFields
    BY JobAtHand
  <1>1. /\ DOMAIN v = VFields /\ DOMAIN res = RFields /\ v.file \in DOMAIN Docs /\ res.file = v.file
        /\ v.via \in {"api", "csp"} /\ v.k \in Nat \ {0}
    BY DEF Inv, Typed, InCall
  <1> DEFINE e == Entry([TheJob EXCEPT !.slot = NextSlot(res, TheJob)], bits, info)
  <1>2. About(e, TheJob) /\ e.bits = bits /\ e.info = info
    <2> DEFINE job == [TheJob EXCEPT !.slot = NextSlot(res, TheJob)]
    <2>1. About(job, TheJob)
      BY <1>0 DEF JobFields, NextSlot, About
    <2> HIDE DEF job
    <2>2. About(Entry(job, bits, info), job) /\ Entry(job, bits, info).bits = bits
          /\ Entry(job, bits, info).info = info
      BY DEF Entry, About
    <2> QED BY <2>1, <2>2 DEF About, job
  <1>3. /\ res' = [res EXCEPT !.done = @ \cup {e}, !.ts = @ \/ TheJob.slot = <<0, 0, 1>>]
        /\ v' = [v EXCEPT !.pc = "next", !.k = @ + 1]
    BY DEF WriteEntry
  <1> HIDE DEF e
  <1>4. /\ DOMAIN res' = RFields /\ res'.file = res.file /\ res'.nCount = res.nCount
        /\ res'.done = res.done \cup {e}
    BY <1>1, <1>3 DEF RFields
  <1>5. /\ DOMAIN v' = VFields /\ v'.pc = "next" /\ v'.jobs = v.jobs /\ v'.content = v.content
        /\ v'.file = v.file /\ v'.via = v.via /\ v'.k = v.k + 1
    BY <1>1, <1>3 DEF VFields
  <1>6. Typed' /\ InCall'
    BY <1>1, <1>4, <1>5 DEF Inv, Typed, InCall
  <1>7. Entries(res, now)'
    <2>1. EntryOk(e, Docs[v.file], now)
      BY <1>2
    <2>2. \A x \in res.done : EntryOk(x, Docs[res.file], now)
      BY DEF Inv, Entries
    <2>3. \A x \in res'.done : EntryOk(x, Docs[res.file], now)
      BY <1>1, <1>4, <2>1, <2>2
    <2> QED BY <1>4, <2>3 DEF Entries
  <1>8. AnswerIsOfThisFile' /\ ZeroMeansVerified'
    BY <1>5 DEF AnswerIsOfThisFile, ZeroMeansVerified
  <1>9. Working(v, res, store, now)'
    <2>1. Queue(v, res)
      BY DEF Inv, Working
    <2>2. ASSUME Docs[v.file].type # "tsd", NEW j \in 1..(v'.k - 1)
          PROVE  \E x \in res'.done : x.slot = v.jobs[j].slot /\ x.node = v.jobs[j].node
      <3>1. CASE j = v.k
        <4>1. e.slot = v.jobs[j].slot /\ e.node = v.jobs[j].node
          BY <1>2, <3>1 DEF About, TheJob
        <4> QED BY <1>4, <4>1
      <3>2. CASE j # v.k
        <4>1. j \in 1..(v.k - 1)
          BY <1>1, <1>5, <3>2
        <4>2. PICK x \in res.done : x.slot = v.jobs[j].slot /\ x.node = v.jobs[j].node
          BY <2>1, <2>2, <4>1 DEF Queue
        <4> QED BY <1>4, <4>2
      <3> QED BY <3>1, <3>2
    <2>3. Queue(v', res')
      BY <1>4, <1>5, <2>1, <2>2 DEF Queue
    <2> QED BY <1>5, <2>3 DEF Working
  <1> QED BY <1>6, <1>7, <1>8, <1>9 DEF Inv

(* A job goes on. *)
LEMMA DeepKeeps ==
    ASSUME Inv, ~ub, v.pc \in {"next", "ocsp", "crl", "walk"}, v.k <= Len(v.jobs),
           NodeAt(v).cert \in DOMAIN Certs, ~NotEvenTried(Docs[v.file], TheJob),
           Same(v', v), v'.pc \in {"ocsp", "crl", "walk"},
           Deep(v', NodeAt(v).cert, store, now), UNCHANGED <<store, now, res, ret>>
    PROVE  Inv'
  <1>1. /\ DOMAIN v' = VFields /\ v'.jobs = v.jobs /\ v'.content = v.content
        /\ v'.file = v.file /\ v'.via = v.via /\ v'.k = v.k
    BY DEF Same
  <1>2. Typed' /\ InCall'
    BY <1>1 DEF Inv, Typed, InCall
  <1>3. Entries(res, now)'
    BY DEF Inv, Entries
  <1>4. AnswerIsOfThisFile' /\ ZeroMeansVerified'
    BY DEF AnswerIsOfThisFile, ZeroMeansVerified
  <1>5. Queue(v', res')
    BY <1>1 DEF Inv, Working, Queue
  <1>6. NodeAt(v') = NodeAt(v)
    BY <1>1 DEF NodeAt
  <1>7. AtWork(v', store', now')
    BY <1>1, <1>6 DEF AtWork, TheJob
  <1>8. Working(v, res, store, now)'
    BY <1>5, <1>7 DEF Working
  <1> QED BY <1>2, <1>3, <1>4, <1>8 DEF Inv

(* After the last job every signer has its entry. *)
LEMMA AllDoneInv ==
    ASSUME Inv, ~ub, v.pc = "next", v.k > Len(v.jobs), AllDone, UNCHANGED <<store, now>>
    PROVE  Inv'
  <1> DEFINE d == Docs[v.file]
             code == IF get_file_type(v.file) = "p7m" /\ Docs[v.file].dotPdf THEN "-2" ELSE "0"
  <1>1. Answer(code)
    BY DEF AllDone
  <1>2. /\ Ready(d, v.jobs, v.content, res.nCount) /\ v.k \in Nat \ {0} /\ res.file = v.file
        /\ d.type # "tsd" =>
              \A j \in 1..(v.k - 1) : \E e \in res.done : e.slot = v.jobs[j].slot /\ e.node = v.jobs[j].node
    BY DEF Inv, Working, Queue, InCall
  <1>3. ASSUME d.type # "tsd" PROVE Complete(res)
    <2> SUFFICES ASSUME NEW i \in 1..res.nCount
                 PROVE  \E e \in res.done : /\ e.slot = <<i, 0, 0>> /\ d.nodes[e.node].parent = 0
                                            /\ Place(d, e.node) = i
      BY <1>2 DEF Complete
    <2>1. HasJob(d, v.jobs, i) /\ Len(v.jobs) \in Nat
      BY <1>2, <1>3 DEF Ready
    <2>2. PICK j \in 1..Len(v.jobs) :
             /\ v.jobs[j].slot = <<i, 0, 0>>
             /\ d.nodes[v.jobs[j].node].parent = 0 /\ Place(d, v.jobs[j].node) = i
      BY <2>1 DEF HasJob
    <2>3. j \in 1..(v.k - 1)
      BY <1>2, <2>1
    <2>4. PICK e \in res.done : e.slot = v.jobs[j].slot /\ e.node = v.jobs[j].node
      BY <1>2, <1>3, <2>3
    <2> QED BY <2>2, <2>4
  <1>4. get_file_type(v.file) # "tsd" => Complete(res)
    BY <1>3 DEF get_file_type
  <1> HIDE DEF code
  <1> QED BY <1>1, <1>4, AnswerKeeps

(* An exception in a job. *)
LEMMA ThrowInv ==
    ASSUME Inv, ~ub, v.pc = "next", v.k <= Len(v.jobs), Throw, UNCHANGED <<store, now, ub>>
    PROVE  Inv'
  <1> DEFINE type == get_file_type(v.file)
  <1>0. v.k \in 1..Len(v.jobs) /\ Queue(v, res) /\ Len(v.jobs) \in Nat
    BY JobAtHand DEF Inv, Working, Queue, Ready
  <1>1. \/ /\ type = "tsd" /\ v' = [v EXCEPT !.k = Len(v.jobs)] /\ UNCHANGED <<res, ret>>
        \/ \E code \in {"INVALID_FILE", "UNEXPECTED"} : Answer(code) \/ Return(res, code)
    BY DEF Throw, ThrownFrom
  <1>2. ASSUME NEW code \in {"INVALID_FILE", "UNEXPECTED"}, Answer(code) \/ Return(res, code)
        PROVE  Inv'
    <2>1. code # "0"
      OBVIOUS
    <2>2. CASE Answer(code)
      BY <2>1, <2>2, AnswerKeeps
    <2>3. CASE Return(res, code)
      BY <2>1, <2>3, ResultReturns
    <2> QED BY <1>2, <2>2, <2>3
  <1>3. CASE type = "tsd" /\ v' = [v EXCEPT !.k = Len(v.jobs)] /\ UNCHANGED <<res, ret>>
    <2>1. /\ DOMAIN v' = VFields /\ v'.pc = "next" /\ v'.jobs = v.jobs /\ v'.content = v.content
          /\ v'.file = v.file /\ v'.via = v.via /\ v'.k = Len(v.jobs)
      BY <1>3 DEF Inv, Typed, VFields
    <2>2. v'.k \in Nat \ {0}
      BY <1>0, <2>1
    <2>3. Typed' /\ InCall'
      BY <1>3, <2>1, <2>2 DEF Inv, Typed, InCall
    <2>4. Entries(res, now)'
      BY <1>3 DEF Inv, Entries
    <2>5. AnswerIsOfThisFile' /\ ZeroMeansVerified'
      BY <2>1 DEF AnswerIsOfThisFile, ZeroMeansVerified
    <2>6. Queue(v', res')
      BY <1>0, <1>3, <2>1 DEF Queue, get_file_type
    <2>7. Working(v, res, store, now)'
      BY <2>1, <2>6 DEF Working
    <2> QED BY <2>3, <2>4, <2>5, <2>7 DEF Inv
  <1> QED BY <1>1, <1>2, <1>3

(* The next job begins, is skipped or fails, or all are done. *)
LEMMA NextJobInv ==
    ASSUME Inv, ~ub, NextJob
    PROVE  Inv'
  <1> DEFINE d == Docs[v.file]
  <1>0. v.pc = "next" /\ UNCHANGED <<store, now>>
    BY DEF NextJob
  <1>1. v.k \in Nat /\ Len(v.jobs) \in Nat
    BY <1>0 DEF Inv, InCall, Working, Queue, Ready
  <1>2. \/ v.k > Len(v.jobs) /\ AllDone
        \/ ~(v.k > Len(v.jobs)) /\ NoRect
        \/ ~(v.k > Len(v.jobs)) /\ Throw /\ UNCHANGED ub
        \/ /\ ~(v.k > Len(v.jobs)) /\ NotEvenTried(d, TheJob)
           /\ WriteEntry(ErrorMask(d, TheJob), NoInfo)
        \/ /\ ~(v.k > Len(v.jobs)) /\ TheNode.cert # Null /\ ~NotEvenTried(d, TheJob) /\ Begin
    <2> DEFINE past == v.k > Len(v.jobs)
               rect == HasRect(TheNode)
               null == Throws(TheNode)
               skip == NotEvenTried(d, TheJob)
    <2>1. CASE past
      BY <2>1 DEF NextJob
    <2>2. CASE ~past /\ ~rect
      BY <2>2 DEF NextJob
    <2>3. CASE ~past /\ rect /\ null
      BY <2>3 DEF NextJob
    <2>4. CASE ~past /\ rect /\ ~null /\ skip
      BY <2>4 DEF NextJob
    <2>5. CASE ~past /\ rect /\ ~null /\ ~skip
      BY <2>5 DEF NextJob, Throws
    <2> QED BY <2>1, <2>2, <2>3, <2>4, <2>5
  <1>3. CASE v.k > Len(v.jobs) /\ AllDone
    BY <1>0, <1>3, AllDoneInv
  <1>4. CASE ~(v.k > Len(v.jobs)) /\ NoRect
    <2> DEFINE r == [res EXCEPT !.nCount = -1, !.done = {}, !.nErrorCode = "-4"]
    <2>1. DOMAIN r = RFields /\ r.file = res.file /\ r.done \subseteq res.done
      BY DEF Inv, Typed, RFields
    <2>2. Return(r, "-4")
      BY <1>4 DEF NoRect
    <2> HIDE DEF r
    <2> QED BY <1>0, <2>1, <2>2, ReturnKeeps
  <1>5. CASE ~(v.k > Len(v.jobs)) /\ Throw /\ UNCHANGED ub
    BY <1>0, <1>1, <1>5, ThrowInv
  <1>6. CASE /\ ~(v.k > Len(v.jobs)) /\ NotEvenTried(d, TheJob)
             /\ WriteEntry(ErrorMask(d, TheJob), NoInfo)
    <2>1. v.k <= Len(v.jobs)
      BY <1>1, <1>6
    <2>2. DOMAIN TheJob = JobFields
      BY <1>0, <2>1, JobAtHand
    <2>3. \A e : About(e, TheJob) => EntryOk(e, Docs[v.file], now)
      <3> TAKE e
      <3> HAVE About(e, TheJob)
      <3>1. NotEvenTried(d, Job(e.kind, e.node, e.parent, e.slot)) = NotEvenTried(d, TheJob)
        BY <2>2, AboutSame
      <3> QED BY <1>6, <3>1 DEF EntryOk
    <2> QED BY <1>0, <1>6, <2>1, <2>3, WriteKeeps
  <1>7. CASE /\ ~(v.k > Len(v.jobs)) /\ TheNode.cert # Null /\ ~NotEvenTried(d, TheJob) /\ Begin
    <2>1. v.k <= Len(v.jobs)
      BY <1>1, <1>7
    <2>2. TheNode \in NodeRecord /\ TheNode = NodeAt(v)
      BY <1>0, <2>1, JobAtHand
    <2>3. TheNode.cert \in DOMAIN Certs
      BY <1>7, <2>2 DEF NodeRecord
    <2>4. DOMAIN v = VFields
      BY DEF Inv, Typed
    <2>5. /\ Same(v', v) /\ v'.pc \in {"ocsp", "walk"} /\ Deep(v', TheNode.cert, store, now)
          /\ res' = res /\ ret' = ret
      BY <1>7, <2>3, <2>4, BeginDeep
    <2> QED BY <1>0, <1>7, <2>1, <2>2, <2>3, <2>5, DeepKeeps
  <1> QED BY <1>2, <1>3, <1>4, <1>5, <1>6, <1>7


(* The certificate of the job at hand, and how far it has come. *)
LEMMA Deeply ==
    ASSUME Inv, ~ub, v.pc \in {"ocsp", "crl", "walk"}
    PROVE  /\ v.k <= Len(v.jobs) /\ NodeAt(v).cert \in DOMAIN Certs
           /\ ~NotEvenTried(Docs[v.file], TheJob) /\ Deep(v, NodeAt(v).cert, store, now)
           /\ DOMAIN v = VFields /\ store \in Stores /\ now \in 0..MaxNow
  BY DEF Inv, Working, AtWork, TheJob, Typed

(* An OCSP request is answered, oddly or not. *)
LEMMA OcspInv ==
    ASSUME Inv, ~ub, Ocsp
    PROVE  Inv'
  <1> DEFINE c == NodeAt(v).cert
  <1>0. v.pc = "ocsp" /\ UNCHANGED <<store, now, res, ret>>
    BY DEF Ocsp
  <1>1. /\ v.k <= Len(v.jobs) /\ c \in DOMAIN Certs
        /\ ~NotEvenTried(Docs[v.file], TheJob) /\ Deep(v, c, store, now)
        /\ DOMAIN v = VFields /\ store \in Stores /\ now \in 0..MaxNow
    BY <1>0, Deeply
  <1> HIDE DEF c
  <1>2. \/ \E a \in NormalOcsp(Subject, now) \cup OddOcsp(Subject, now) : v' = OcspAnswer(a)
        \/ v' = GoToCrl(v)
    BY DEF Ocsp
  <1>3. Same(v', v) /\ v'.pc \in {"crl", "walk"} /\ Deep(v', c, store, now)
    <2>1. ASSUME NEW a \in NormalOcsp(Subject, now) \cup OddOcsp(Subject, now), v' = OcspAnswer(a)
          PROVE  Same(v', v) /\ v'.pc \in {"crl", "walk"} /\ Deep(v', c, store, now)
      BY <1>0, <1>1, <2>1, OcspDeep
    <2>2. CASE v' = GoToCrl(v)
      <3>1. /\ ChainPart(v, c, store)
            /\ "GOOD" \in v.bits \/ v.info.status = "GOOD" => Fine(v.info, c, now)
            /\ v.role = "signer" => "GOOD" \notin v.bits
        BY <1>0, <1>1 DEF Deep, StatusPart
      <3>2. Same(GoToCrl(v), v) /\ GoToCrl(v).pc = "crl" /\ Deep(GoToCrl(v), c, store, now)
        BY <1>0, <1>1, <3>1, GoToCrlDeep
      <3> QED BY <2>2, <3>2
    <2> QED BY <1>2, <2>1, <2>2
  <1> QED BY <1>0, <1>1, <1>3, DeepKeeps DEF c

(* A distribution point is asked. *)
LEMMA CrlInv ==
    ASSUME Inv, ~ub, Crl
    PROVE  Inv'
  <1> DEFINE c == NodeAt(v).cert
  <1>0. v.pc = "crl" /\ UNCHANGED <<store, now, res, ret>>
    BY DEF Crl
  <1>1. /\ v.k <= Len(v.jobs) /\ c \in DOMAIN Certs
        /\ ~NotEvenTried(Docs[v.file], TheJob) /\ Deep(v, c, store, now)
        /\ DOMAIN v = VFields /\ store \in Stores /\ now \in 0..MaxNow
    BY <1>0, Deeply
  <1> HIDE DEF c
  <1>2. \/ \E a \in NormalCrl(Subject, now) \cup OddCrl(Subject, now) : v' = CrlAnswer(a)
        \/ v' = StatusIs(v, "UNKNOWN")
    BY DEF Crl
  <1>3. Same(v', v) /\ v'.pc \in {"crl", "walk"} /\ Deep(v', c, store, now)
    <2>1. ASSUME NEW a \in NormalCrl(Subject, now) \cup OddCrl(Subject, now), v' = CrlAnswer(a)
          PROVE  Same(v', v) /\ v'.pc \in {"crl", "walk"} /\ Deep(v', c, store, now)
      BY <1>0, <1>1, <2>1, CrlDeep
    <2>2. CASE v' = StatusIs(v, "UNKNOWN")
      <3>1. /\ ChainPart(v, c, store) /\ v.st \in {"UNKNOWN", "GOOD", "REVOKED"}
            /\ "GOOD" \in v.bits \/ v.info.status = "GOOD" => Fine(v.info, c, now)
        BY <1>0, <1>1 DEF Deep, StatusPart
      <3> DEFINE s == "UNKNOWN"
      <3>2. s \in Statuses /\ s # "GOOD"
        BY DEF Statuses
      <3> HIDE DEF s
      <3>3. Same(StatusIs(v, s), v) /\ StatusIs(v, s).pc = "walk" /\ Deep(StatusIs(v, s), c, store, now)
        BY <1>0, <1>1, <3>1, <3>2, StatusIsDeep
      <3> QED BY <2>2, <3>3 DEF s
    <2> QED BY <1>2, <2>1, <2>2
  <1> QED BY <1>0, <1>1, <1>3, DeepKeeps DEF c

(* One turn of the loop over the chain, or its end. *)
LEMMA WalkInv ==
    ASSUME Inv, ~ub, Walk
    PROVE  Inv'
  <1> DEFINE c == NodeAt(v).cert
             on == v.pCACert # Null /\ verifySignature(v.pCert, v.pCACert)
  <1>0. v.pc = "walk" /\ UNCHANGED <<store, now>>
    BY DEF Walk
  <1>1. /\ v.k <= Len(v.jobs) /\ c \in DOMAIN Certs
        /\ ~NotEvenTried(Docs[v.file], TheJob) /\ Deep(v, c, store, now)
        /\ DOMAIN v = VFields /\ store \in Stores /\ now \in 0..MaxNow
    BY <1>0, Deeply
  <1>2. CASE on
    <2> DEFINE w == [v EXCEPT !.bits = @ \cup {"CA_FOUND"}
                                    \cup Bit("CA_VALIDITY", isValid(v.pCACert, now))]
    <2>1. /\ v' = IF v.crl /\ isValid(v.pCACert, now)
                  THEN [w EXCEPT !.pc = "ocsp", !.role = "ca", !.dp = 1, !.st = "UNKNOWN"]
                  ELSE WalkFrom(w, v.pCACert)
          /\ UNCHANGED <<res, ret>>
      BY <1>2 DEF Walk
    <2> HIDE DEF c
    <2>2. Same(v', v) /\ v'.pc \in {"ocsp", "walk"} /\ Deep(v', c, store, now)
      BY <1>0, <1>1, <1>2, <2>1, WalkOnDeep
    <2> QED BY <1>0, <1>1, <2>1, <2>2, DeepKeeps DEF c
  <1>3. CASE ~on
    <2> DEFINE source == SourceOf(TheNode, TheJob, v.content)
               bits == v.bits \cup (IF v.pCACert = Null THEN ChainBits(v.bits, v.pCert) ELSE {})
                              \cup FinalBits(TheJob.kind, TheNode, source)
    <2>1. WriteEntry(bits, v.info)
      BY <1>3 DEF Walk
    <2>2. /\ DOMAIN TheJob = JobFields /\ TheNode \in NodeRecord /\ TheNode = NodeAt(v)
          /\ Asks(Docs[v.file], TheJob, v.content)
      BY <1>0, <1>1, JobAtHand
    <2>3. \A e : About(e, TheJob) /\ e.bits = bits /\ e.info = v.info => EntryOk(e, Docs[v.file], now)
      <3> DEFINE d == Docs[v.file]
                 job == TheJob
      <3>1. NodeOf(d, job) = TheNode
        BY DEF TheNode
      <3>2. bits = v.bits \cup (IF v.pCACert = Null THEN ChainBits(v.bits, v.pCert) ELSE {})
                          \cup FinalBits(job.kind, NodeOf(d, job), SourceOf(NodeOf(d, job), job, v.content))
        BY <3>1
      <3> HIDE DEF bits, d, job
      <3>3. DOMAIN job = JobFields /\ NodeOf(d, job) \in NodeRecord /\ c = NodeOf(d, job).cert
            /\ Asks(d, job, v.content)
        BY <2>2, <3>1 DEF job, d
      <3> HIDE DEF c
      <3>4. \A e : About(e, job) /\ e.bits = bits /\ e.info = v.info => EntryOk(e, d, now)
        BY <1>0, <1>1, <3>2, <3>3, WalkEnd
      <3> QED BY <3>4 DEF job, d
    <2> HIDE DEF bits
    <2> QED BY <1>0, <1>1, <2>1, <2>3, WriteKeeps
  <1> QED BY <1>2, <1>3

(* cie_sign_verify_verify begins, or is refused for want of a file. *)
LEMMA VerifyApiInv ==
    ASSUME Inv, NEW f \in DOMAIN Docs \cup {NoFile}, NEW crl \in BOOLEAN,
           NEW plain \in {"none", "missing", "plain"}, VerifyApi(f, crl, plain)
    PROVE  Inv'
  <1>0. v.pc = "idle" /\ now' = now /\ store' \in Stores
    BY LoadTyped DEF VerifyApi, verify_init, Inv, Typed
  <1>1. CASE f = NoFile
    <2>1. v' = v /\ res' = res /\ ret'.via = "api" /\ ret'.code = "INVALID_FILE"
      BY <1>1 DEF VerifyApi
    <2>2. Typed' /\ InCall' /\ Entries(res, now)'
      BY <1>0, <2>1 DEF Inv, Typed, InCall, Entries
    <2>3. AnswerIsOfThisFile' /\ ZeroMeansVerified'
      BY <2>1 DEF AnswerIsOfThisFile, ZeroMeansVerified
    <2>4. Working(v, res, store, now)'
      BY <1>0, <2>1 DEF Working
    <2> QED BY <2>2, <2>3, <2>4 DEF Inv
  <1>2. CASE f # NoFile
    <2>1. /\ v' = [Idle EXCEPT !.pc = "open", !.via = "api", !.file = f, !.crl = crl, !.content = plain]
          /\ res' = [NoResult EXCEPT !.file = f, !.nErrorCode = res.nErrorCode]
      BY <1>2 DEF VerifyApi
    <2>2. /\ DOMAIN v' = VFields /\ v'.pc = "open" /\ v'.via = "api" /\ v'.file = f /\ v'.content = plain
          /\ v'.k = 1
      BY <2>1 DEF Idle, VFields
    <2>3. DOMAIN res' = RFields /\ res'.file = f /\ res'.nCount = -1 /\ res'.done = {}
      BY <2>1 DEF NoResult, RFields
    <2>4. Typed' /\ InCall' /\ Entries(res, now)'
      BY <1>0, <1>2, <2>2, <2>3 DEF Inv, Typed, InCall, Entries
    <2>5. AnswerIsOfThisFile' /\ ZeroMeansVerified'
      BY <2>2 DEF AnswerIsOfThisFile, ZeroMeansVerified
    <2>6. Working(v, res, store, now)'
      BY <2>2 DEF Working
    <2> QED BY <2>4, <2>5, <2>6 DEF Inv
  <1> QED BY <1>1, <1>2

(* cie_verify empties the result before anything can fail. *)
LEMMA CieVerifyInv ==
    ASSUME Inv, NEW f \in DOMAIN Docs, NEW proxy, cie_verify(f, proxy)
    PROVE  Inv'
  <1>0. v.pc = "idle" /\ now' = now /\ store' \in Stores
    BY LoadTyped DEF cie_verify, verify_init, Inv, Typed
  <1>1. CASE proxy = "no_port"
    <2>1. v' = v /\ res' = NoResult /\ ret'.via = "csp"
      BY <1>1 DEF cie_verify, verifyResult
    <2>2. DOMAIN res' = RFields /\ res'.nCount = -1 /\ res'.done = {}
      BY <2>1 DEF NoResult, RFields
    <2>3. Typed' /\ InCall' /\ Entries(res, now)'
      BY <1>0, <2>1, <2>2 DEF Inv, Typed, InCall, Entries
    <2>4. AnswerIsOfThisFile' /\ ZeroMeansVerified'
      BY <2>1, <2>2 DEF AnswerIsOfThisFile, ZeroMeansVerified
    <2>5. Working(v, res, store, now)'
      BY <1>0, <2>1 DEF Working
    <2> QED BY <2>3, <2>4, <2>5 DEF Inv
  <1>2. CASE proxy # "no_port"
    <2>1. /\ v' = [Idle EXCEPT !.pc = "open", !.via = "csp", !.file = f, !.crl = TRUE]
          /\ res' = [NoResult EXCEPT !.file = f]
      BY <1>2 DEF cie_verify, verifyResult
    <2>2. /\ DOMAIN v' = VFields /\ v'.pc = "open" /\ v'.via = "csp" /\ v'.file = f
          /\ v'.content = "none" /\ v'.k = 1
      BY <2>1 DEF Idle, VFields
    <2>3. DOMAIN res' = RFields /\ res'.file = f /\ res'.nCount = -1 /\ res'.done = {}
      BY <2>1 DEF NoResult, RFields
    <2>4. Typed' /\ InCall' /\ Entries(res, now)'
      BY <1>0, <2>2, <2>3 DEF Inv, Typed, InCall, Entries
    <2>5. AnswerIsOfThisFile' /\ ZeroMeansVerified'
      BY <2>2 DEF AnswerIsOfThisFile, ZeroMeansVerified
    <2>6. Working(v, res, store, now)'
      BY <2>2 DEF Working
    <2> QED BY <2>4, <2>5, <2>6 DEF Inv
  <1> QED BY <1>1, <1>2

(* cie_sign_verify_cleanup_result empties the result. *)
LEMMA CleanupResultInv ==
    ASSUME Inv, CleanupResult
    PROVE  Inv'
  <1>1. /\ v.pc = "idle" /\ v' = v /\ ret' = ret /\ store' = store /\ now' = now
        /\ res' = [res EXCEPT !.nCount = -1, !.done = {}, !.ts = FALSE]
    BY DEF CleanupResult
  <1>2. DOMAIN res' = RFields /\ res'.nCount = -1 /\ res'.done = {}
    BY <1>1 DEF Inv, Typed, RFields
  <1>3. Typed' /\ InCall' /\ Entries(res, now)'
    BY <1>1, <1>2 DEF Inv, Typed, InCall, Entries
  <1>4. AnswerIsOfThisFile' /\ ZeroMeansVerified'
    BY <1>2 DEF AnswerIsOfThisFile, ZeroMeansVerified
  <1>5. Working(v, res, store, now)'
    BY <1>1 DEF Working
  <1> QED BY <1>3, <1>4, <1>5 DEF Inv

(* cie_extract_p7m does not touch the result. *)
LEMMA ExtractInv ==
    ASSUME Inv, NEW f \in DOMAIN Docs, cie_extract_p7m(f)
    PROVE  Inv'
  <1>1. /\ v.pc = "idle" /\ v' = v /\ res' = res /\ now' = now /\ ret'.via = "extract"
        /\ store' \in Stores
    BY LoadTyped DEF cie_extract_p7m, verify_init, Inv, Typed
  <1>2. Typed' /\ InCall' /\ Entries(res, now)'
    BY <1>1 DEF Inv, Typed, InCall, Entries
  <1>3. AnswerIsOfThisFile' /\ ZeroMeansVerified'
    BY <1>1 DEF AnswerIsOfThisFile, ZeroMeansVerified
  <1>4. Working(v, res, store, now)'
    BY <1>1 DEF Working
  <1> QED BY <1>2, <1>3, <1>4 DEF Inv

(* The clock moves: what was fine stays fine. *)
LEMMA TickInv ==
    ASSUME Inv, Tick
    PROVE  Inv'
  <1>1. /\ now < MaxNow /\ now' = now + 1 /\ v' = v /\ res' = res /\ ret' = ret /\ store' = store
        /\ ub' = ub
    BY DEF Tick
  <1>2. now \in 0..MaxNow /\ MaxNow \in Nat
    BY CertAssumption DEF Inv, Typed
  <1>3. now' \in 0..MaxNow /\ \A u \in 0..now : u \in 0..now'
    BY <1>1, <1>2
  <1>4. \A info, c : Fine(info, c, now) => Fine(info, c, now')
    BY <1>3 DEF Fine
  <1>5. Typed' /\ InCall'
    BY <1>1, <1>3 DEF Inv, Typed, InCall
  <1>6. Entries(res, now)'
    <2>1. \A e \in res.done : EntryOk(e, Docs[res.file], now')
      BY <1>4 DEF Inv, Entries, EntryOk
    <2> QED BY <1>1, <2>1 DEF Entries
  <1>7. AnswerIsOfThisFile' /\ ZeroMeansVerified'
    BY <1>1 DEF Inv, AnswerIsOfThisFile, ZeroMeansVerified
  <1>8. ~ub' => Working(v, res, store, now)'
    <2> SUFFICES ASSUME ~ub PROVE Working(v, res, store, now')
      BY <1>1
    <2>1. Working(v, res, store, now)
      BY DEF Inv
    <2>2. \A c : Deep(v, c, store, now) => Deep(v, c, store, now')
      BY <1>4 DEF Deep, StatusPart
    <2> QED BY <2>1, <2>2 DEF Working, AtWork
  <1> QED BY <1>5, <1>6, <1>7, <1>8 DEF Inv

(* Nothing that the invariant is about changes. *)
LEMMA QuietInv ==
    ASSUME Inv, UNCHANGED <<store, now, v, res, ret, ub>>
    PROVE  Inv'
  <1>1. Typed' /\ InCall' /\ Entries(res, now)'
    BY DEF Inv, Typed, InCall, Entries
  <1>2. AnswerIsOfThisFile' /\ ZeroMeansVerified'
    BY DEF Inv, AnswerIsOfThisFile, ZeroMeansVerified
  <1>3. ~ub' => Working(v, res, store, now)'
    BY DEF Inv
  <1> QED BY <1>1, <1>2, <1>3 DEF Inv

(* Every step keeps the invariant. *)
LEMMA StepInv ==
    ASSUME Inv, [Next]_vars
    PROVE  Inv'
  <1>1. CASE UNCHANGED vars
    BY <1>1, QuietInv DEF vars
  <1>2. CASE Next
    <2>0. ~ub
      BY <1>2 DEF Next
    <2>1. ASSUME NEW f \in DOMAIN Docs \cup {NoFile}, NEW crl \in BOOLEAN,
                 NEW plain \in {"none", "missing", "plain"}, VerifyApi(f, crl, plain)
          PROVE  Inv'
      BY <2>1, VerifyApiInv
    <2>2. ASSUME NEW f \in DOMAIN Docs, NEW proxy \in {"none", "no_port"}, cie_verify(f, proxy)
          PROVE  Inv'
      BY <2>2, CieVerifyInv
    <2>3. CASE Step
      BY <2>0, <2>3, OpenInv, NextJobInv, OcspInv, CrlInv, WalkInv DEF Step
    <2>4. ASSUME NEW i \in 1..3, cie_get_verify_info(i) PROVE Inv'
      BY <2>4, QuietInv DEF cie_get_verify_info
    <2>5. CASE CleanupResult
      BY <2>5, CleanupResultInv
    <2>6. CASE CleanUp
      BY <2>6, QuietInv DEF CleanUp
    <2>7. ASSUME NEW f \in DOMAIN Docs, cie_extract_p7m(f) PROVE Inv'
      BY <2>7, ExtractInv
    <2>8. CASE Tick
      BY <2>8, TickInv
    <2> QED BY <1>2, <2>1, <2>2, <2>3, <2>4, <2>5, <2>6, <2>7, <2>8 DEF Next, Calls
  <1> QED BY <1>1, <1>2

(* The invariant holds in every state of every run. *)
THEOREM VerificationInvariant == Spec => []Inv
  BY InitInv, StepInv, PTL DEF Spec

(***************************************************************************)
(* For any certificates, store and documents and any answers of the        *)
(* network, an entry that says VERIFIED_CERT_CHAIN has a chain to a        *)
(* compiled-in self-signed certificate, and one that says                  *)
(* VERIFIED_SIGNATURE a signature of that certificate over what the        *)
(* verifier looked at: the document, or the part of a PDF or XML file that *)
(* the signature itself points at (CSignerInfo::verifySignature and the    *)
(* loop over the chain in it, PDFVerifier, VerifyReference).               *)
(***************************************************************************)
THEOREM EntriesAreSound == Spec => []EntriesSound
  <1>1. Inv => EntriesSound
    <2> SUFFICES ASSUME Inv, NEW e \in Tried
                 PROVE  /\ "CHAIN" \in e.bits => Trusted(EntryNode(e).cert)
                        /\ "SIGNATURE" \in e.bits => Commits(EntryNode(e), WhatItIsFor(e))
      BY DEF EntriesSound
    <2>1. e \in res.done /\ ~NotEvenTried(Docs[res.file], Job(e.kind, e.node, e.parent, e.slot))
      BY DEF Tried
    <2>2. EntryOk(e, Docs[res.file], now)
      BY <2>1 DEF Inv, Entries
    <2> QED BY <2>1, <2>2 DEF EntryOk, EntryNode, WhatItIsFor, ContentOf
  <1> QED BY <1>1, VerificationInvariant, PTL

(***************************************************************************)
(* What is reported good was not revoked at the time the entry names when  *)
(* it rests on an OCSP status, however old, or on a list in which the      *)
(* entries are found; of a list that has a UTCTime nextUpdate this time is *)
(* not past (CCertificate::verifyStatus, CCrl::isCurrent, isRevoked).      *)
(***************************************************************************)
THEOREM GoodWasGood == Spec => []GoodAsOf
  <1>1. Inv => GoodAsOf
    <2> SUFFICES ASSUME Inv, NEW e \in Tried, "GOOD" \in e.bits \/ e.info.status = "GOOD"
                 PROVE  Fine(e.info, EntryNode(e).cert, now)
      BY DEF GoodAsOf, Fine
    <2>1. e \in res.done /\ ~NotEvenTried(Docs[res.file], Job(e.kind, e.node, e.parent, e.slot))
      BY DEF Tried
    <2>2. EntryOk(e, Docs[res.file], now)
      BY <2>1 DEF Inv, Entries
    <2> QED BY <2>1, <2>2 DEF EntryOk, EntryNode
  <1> QED BY <1>1, VerificationInvariant, PTL

(* An answer of 0 means that every signer counted has its own entry, however *)
(* many signers and countersignatures the file has (cie_sign_verify_verify). *)
THEOREM ZeroCountsEverySigner == Spec => []ZeroMeansVerified
  <1>1. Inv => ZeroMeansVerified
    BY DEF Inv
  <1> QED BY <1>1, VerificationInvariant, PTL

(* What is shown after a cie_verify is about the file of that call. *)
THEOREM AnswersAreOfTheirFile == Spec => []AnswerIsOfThisFile
  <1>1. Inv => AnswerIsOfThisFile
    BY DEF Inv
  <1> QED BY <1>1, VerificationInvariant, PTL

=============================================================================
