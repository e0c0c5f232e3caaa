--------------------------- MODULE CompileProofs ----------------------------
(***************************************************************************)
(* Proofs about the pipeline, for every source.  The batcher: both walks   *)
(* take up every operation, in batches that can run at once and are short  *)
(* only if they must be; the translation finds what it reads and leaves a  *)
(* program that computes what the source does.  The scheduler and the      *)
(* allocator: what is proved of each by itself is true of it in the        *)
(* pipeline, since the passes before it hand it a well-formed program.     *)
(***************************************************************************)
EXTENDS Compile, SchedulerProofs

-----------------------------------------------------------------------------
(* Finite graphs without cycles.                                           *)

(* A finite graph without cycles: N[o] are of lower grade than o.          *)
Graded(n, N, r) ==
  /\ n \in Nat /\ N \in [1 .. n -> SUBSET (1 .. n)] /\ r \in [1 .. n -> 0 .. n]
  /\ \A o \in 1 .. n : \A u \in N[o] : r[u] < r[o]

(* The weight of an operation, from those of its neighbours.               *)
Weighs(N, w, h, o) == w[o] + Max({0} \cup {h[u] : u \in N[o]})

(* Such a graph has weights, each from those of the neighbours.            *)
LEMMA WeightsExist ==
  ASSUME NEW n, NEW N, NEW r, Graded(n, N, r), NEW w \in [1 .. n -> Nat]
  PROVE  \E h \in [1 .. n -> Nat] : \A o \in 1 .. n : h[o] = Weighs(N, w, h, o)
<1> DEFINE D == 1 .. n
           Upto(h, k) == \A o \in D : r[o] < k => h[o] = Weighs(N, w, h, o)
           Good == {k \in 0 .. n + 1 : \E h \in [D -> Nat] : Upto(h, (n + 1) - k)}
<1>1. n \in Nat /\ \A o \in D : r[o] \in 0 .. n /\ N[o] \subseteq D /\ \A u \in N[o] : r[u] < r[o]
  BY DEF Graded
<1>2. n + 1 \in Good
  <2>1. [o \in D |-> 0] \in [D -> Nat] /\ Upto([o \in D |-> 0], (n + 1) - (n + 1))
    BY <1>1
  <2> QED
    BY <1>1, <2>1
<1>3. PICK m \in Good : \A k \in Good : m <= k
  <2>1. Good \subseteq 0 .. n + 1
    OBVIOUS
  <2> HIDE DEF Good
  <2>2. Good \in SUBSET Nat /\ Good # {}
    BY <1>1, <1>2, <2>1
  <2> QED
    BY <2>2, NatMin
<1>4. m \in 0 .. n + 1 /\ \E h \in [D -> Nat] : Upto(h, (n + 1) - m)
  OBVIOUS
<1>5. ASSUME m # 0 PROVE FALSE
  <2> DEFINE k == (n + 1) - m
  <2>1. k \in 0 .. n /\ m - 1 \in 0 .. n + 1 /\ (n + 1) - (m - 1) = k + 1 /\ m - 1 < m
    BY <1>1, <1>4, <1>5
  <2>2. m - 1 \notin Good
    <3>1. m \in Nat
      BY <1>1, <1>4
    <3> HIDE DEF Good, k
    <3>2. \A j \in Good : m <= j
      BY <1>3
    <3> DEFINE j == m - 1
    <3>3. ~ (m <= j)
      BY <3>1
    <3> HIDE DEF j
    <3>4. j \notin Good
      BY <3>2, <3>3
    <3> QED
      BY <3>4 DEF j
  <2> HIDE DEF Good, k
  <2>3. PICK h \in [D -> Nat] : Upto(h, k)
    BY <1>4 DEF k
  <2> DEFINE F(o) == Weighs(N, w, h, o)
             g == [o \in D |-> IF r[o] < k THEN h[o] ELSE F(o)]
  <2>4. \A o \in D : F(o) \in Nat
    <3> TAKE o \in D
    <3> DEFINE U == N[o]
    <3>1. U \in SUBSET (1 .. n) /\ \A u \in U : h[u] \in Nat
      BY <1>1
    <3> HIDE DEF U
    <3>2. Max({0} \cup {h[u] : u \in U}) \in Nat
      BY <1>1, <3>1, MaxOfImage
    <3> QED
      BY <3>2 DEF Weighs, U
  <2>5. g \in [D -> Nat]
    BY <2>4
  <2>6. ASSUME NEW o \in D, r[o] < k + 1 PROVE g[o] = Weighs(N, w, g, o)
    <3>1. \A u \in N[o] : g[u] = h[u]
      <4> TAKE u \in N[o]
      <4>1. u \in D /\ r[u] < r[o] /\ r[u] \in 0 .. n /\ r[o] \in 0 .. n
        BY <1>1
      <4> DEFINE x == r[u]
                 y == r[o]
      <4>a. x < y /\ x \in Nat /\ y \in Nat /\ k \in Nat /\ y < k + 1
        BY <1>1, <2>1, <2>6, <4>1
      <4> HIDE DEF x, y
      <4>b. x < k
        BY <4>a
      <4>2. r[u] < k
        BY <4>b DEF x
      <4> QED
        BY <4>1, <4>2
    <3>2. g[o] = F(o)
      <4>1. CASE r[o] < k
        BY <2>3, <4>1
      <4>2. CASE ~ (r[o] < k)
        BY <4>2
      <4> QED
        BY <4>1, <4>2
    <3> HIDE DEF g
    <3>3. {g[u] : u \in N[o]} = {h[u] : u \in N[o]}
      BY <3>1
    <3> QED
      BY <3>2, <3>3 DEF Weighs
  <2>7. Upto(g, k + 1)
    BY <2>6
  <2> HIDE DEF g
  <2>8. m - 1 \in Good
    BY <2>1, <2>5, <2>7 DEF Good
  <2> QED
    BY <2>2, <2>8
<1>6. PICK h \in [D -> Nat] : Upto(h, n + 1)
  BY <1>1, <1>4, <1>5
<1>7. \A o \in D : h[o] = Weighs(N, w, h, o)
  BY <1>1, <1>6
<1> QED
  BY <1>7

(* All such weights are numbers.                                           *)
LEMMA WeightsAreNumbers ==
  ASSUME NEW n, NEW N, NEW r, Graded(n, N, r), NEW w \in [1 .. n -> Nat],
         NEW B, \A o \in 1 .. n : B[o] = Weighs(N, w, B, o)
  PROVE  \A o \in 1 .. n : B[o] \in Nat
<1> DEFINE Bad == {k \in 0 .. n : \E o \in 1 .. n : r[o] = k /\ B[o] \notin Nat}
<1>1. n \in Nat /\ \A o \in 1 .. n : r[o] \in 0 .. n /\ N[o] \subseteq 1 .. n /\ \A u \in N[o] : r[u] < r[o]
  BY DEF Graded
<1>2. ASSUME Bad # {} PROVE FALSE
  <2>1. PICK m \in Bad : \A k \in Bad : m <= k
    <3>1. Bad \in SUBSET Nat
      BY <1>1
    <3> HIDE DEF Bad
    <3> QED
      BY <1>2, <3>1, NatMin
  <2>2. PICK o \in 1 .. n : r[o] = m /\ B[o] \notin Nat
    OBVIOUS
  <2> DEFINE U == N[o]
  <2>3. U \in SUBSET (1 .. n)
    BY <1>1
  <2>4. \A u \in U : B[u] \in Nat
    <3> TAKE u \in U
    <3>1. u \in 1 .. n /\ r[u] \in 0 .. n /\ r[u] < m /\ m \in Nat
      BY <1>1, <2>2
    <3>2. r[u] \notin Bad
      <4> HIDE DEF Bad
      <4> QED
        BY <2>1, <3>1
    <3> QED
      BY <3>1, <3>2
  <2> HIDE DEF U
  <2>5. Max({0} \cup {B[u] : u \in U}) \in Nat
    <3>1. n \in Nat
      BY <1>1
    <3> HIDE DEF Bad
    <3> QED
      BY ONLY <2>3, <2>4, <3>1, MaxOfImage
  <2>6. B[o] = w[o] + Max({0} \cup {B[u] : u \in U})
    BY DEF Weighs, U
  <2>7. w[o] \in Nat
    OBVIOUS
  <2> QED
    BY <2>2, <2>5, <2>6, <2>7
<1>3. \A o \in 1 .. n : r[o] \in 0 .. n
  BY <1>1
<1> QED
  BY <1>2, <1>3

(* A source program and its graph, both ways.                              *)
LEMMA SourceGraph ==
  ASSUME NEW code, IsSource(code)
  PROVE  /\ Ops(code) = 1 .. Len(code) /\ Len(code) \in Nat /\ Ops(code) = DOMAIN code
         /\ \A o \in Ops(code) : o \in Nat /\ Preds(code, o) \subseteq Ops(code)
         /\ \A o \in Ops(code) : \A p \in Preds(code, o) : p < o
         /\ IsFiniteSet(Ops(code))
         /\ \A o \in Ops(code) : Users(code, o) \subseteq Ops(code) /\ \A u \in Users(code, o) : o < u
         /\ \A o \in Ops(code) : IsFiniteSet(Preds(code, o)) /\ IsFiniteSet(Users(code, o))
         /\ \A o \in Ops(code) : \A i \in DOMAIN code[o].args :
              /\ code[o].args[i] = <<code[o].args[i][1], code[o].args[i][2]>>
              /\ code[o].args[i][1] \in Preds(code, o) /\ code[o].args[i][1] \in Ops(code)
              /\ code[o].args[i][2] \in 1 .. code[code[o].args[i][1]].nret
<1>1. code \in Seq(Range(code))
  BY DEF IsSource
<1>2. Ops(code) = 1 .. Len(code) /\ Len(code) \in Nat /\ Ops(code) = DOMAIN code
  BY <1>1 DEF Ops
<1>3. ASSUME NEW o \in Ops(code), NEW i \in DOMAIN code[o].args
      PROVE  /\ code[o].args[i] = <<code[o].args[i][1], code[o].args[i][2]>>
             /\ code[o].args[i][1] \in 1 .. o - 1 /\ code[o].args[i][1] \in Ops(code)
             /\ code[o].args[i][1] \in Preds(code, o)
             /\ code[o].args[i][2] \in 1 .. code[code[o].args[i][1]].nret
  <2> DEFINE v == code[o].args[i]
             V == UNION {Range(Results(code, q)) : q \in 1 .. o - 1}
  <2>1. code[o].args \in Seq(V)
    BY DEF IsSource
  <2>2. v \in V
    <3> HIDE DEF V
    <3> QED
      BY <2>1, Element
  <2>3. PICK q \in 1 .. o - 1 : v \in Range(Results(code, q))
    BY <2>2
  <2>4. Range(Results(code, q)) = {<<q, j>> : j \in 1 .. code[q].nret}
    BY DEF Results, Range
  <2>5. PICK k \in 1 .. code[q].nret : v = <<q, k>>
    BY <2>3, <2>4
  <2>6. v[1] \in Preds(code, o)
    BY DEF Preds
  <2>7. q \in Ops(code)
    BY <1>2, <2>3
  <2> QED
    BY <2>5, <2>6, <2>7
<1>4. ASSUME NEW o \in Ops(code), NEW p \in Preds(code, o)
      PROVE  p \in Ops(code) /\ p < o
  <2>1. PICK i \in DOMAIN code[o].args : p = code[o].args[i][1]
    BY DEF Preds
  <2>2. p \in Ops(code) /\ p \in 1 .. o - 1
    BY <1>3, <2>1
  <2> QED
    BY <1>2, <2>2
<1>5. IsFiniteSet(Ops(code))
  BY <1>2, FS_Interval
<1>6. \A o \in Ops(code) : Users(code, o) \subseteq Ops(code) /\ \A u \in Users(code, o) : o < u
  BY <1>4 DEF Users
<1>7. \A o \in Ops(code) : Preds(code, o) \subseteq Ops(code)
  BY <1>4
<1>8. \A o \in Ops(code) : IsFiniteSet(Preds(code, o)) /\ IsFiniteSet(Users(code, o))
  BY <1>5, <1>6, <1>7, FS_Subset
<1>9. \A o \in Ops(code) : o \in Nat
  BY <1>2
<1>10. \A o \in Ops(code) : \A p \in Preds(code, o) : p < o
  BY <1>4
<1>11. \A o \in Ops(code) : \A i \in DOMAIN code[o].args :
              /\ code[o].args[i] = <<code[o].args[i][1], code[o].args[i][2]>>
              /\ code[o].args[i][1] \in Preds(code, o) /\ code[o].args[i][1] \in Ops(code)
              /\ code[o].args[i][2] \in 1 .. code[code[o].args[i][1]].nret
  BY <1>3
<1> QED
  BY <1>2, <1>5, <1>6, <1>7, <1>8, <1>9, <1>10, <1>11

-----------------------------------------------------------------------------
(* The priorities of the batcher.                                          *)

(* The two graphs of a program.                                            *)
PredsOf(code) == [o \in Ops(code) |-> Preds(code, o)]
UsersOf(code) == [o \in Ops(code) |-> Users(code, o)]

(* Neither has cycles.                                                     *)
LEMMA GradedBothWays ==
  ASSUME NEW code, IsSource(code)
  PROVE  \E r, q : Graded(Len(code), PredsOf(code), r) /\ Graded(Len(code), UsersOf(code), q)
<1> DEFINE n == Len(code)
           D == 1 .. n
           r == [o \in D |-> o]
           q == [o \in D |-> n - o]
<1>1. /\ Ops(code) = D /\ n \in Nat
      /\ \A o \in D : Preds(code, o) \subseteq D /\ \A p \in Preds(code, o) : p < o
      /\ \A o \in D : Users(code, o) \subseteq D /\ \A u \in Users(code, o) : o < u
  BY SourceGraph
<1> HIDE DEF n
<1>2. Graded(n, PredsOf(code), r)
  <2>1. PredsOf(code) \in [D -> SUBSET D] /\ r \in [D -> 0 .. n]
    BY <1>1 DEF PredsOf
  <2>2. \A o \in D : \A u \in PredsOf(code)[o] : r[u] < r[o]
    BY <1>1 DEF PredsOf
  <2> HIDE DEF r
  <2> QED
    BY <1>1, <2>1, <2>2 DEF Graded
<1>3. Graded(n, UsersOf(code), q)
  <2>1. UsersOf(code) \in [D -> SUBSET D] /\ q \in [D -> 0 .. n]
    BY <1>1 DEF UsersOf
  <2>2. \A o \in D : \A u \in UsersOf(code)[o] : q[u] < q[o]
    <3> TAKE o \in D
    <3> TAKE u \in UsersOf(code)[o]
    <3>1. u \in D /\ o < u
      BY <1>1 DEF UsersOf
    <3> QED
      BY <1>1, <3>1
  <2> HIDE DEF q
  <2> QED
    BY <1>1, <2>1, <2>2 DEF Graded
<1> QED
  BY <1>2, <1>3 DEF n

(* Depth, as the function it chooses.                                      *)
LEMMA DepthIs ==
  Depth = CHOOSE h : h = [o \in Ops(source) |-> Weight(o) + Max({0} \cup {h[p] : p \in Preds(source, o)})]
BY DEF Depth

(* Height, as the function it chooses.                                     *)
LEMMA HeightOfSource ==
  Height = CHOOSE h : h = [o \in Ops(source) |-> Weight(o) + Max({0} \cup {h[u] : u \in Users(source, o)})]
BY DEF Height

(* Every operation has a priority.                                         *)
LEMMA PriorityRight ==
  ASSUME IsSource(source)
  PROVE  \A o \in Ops(source) : Priority[o] \in Nat
<1> DEFINE n == Len(source)
           w == [o \in 1 .. n |-> Weight(o)]
<1>1. Ops(source) = 1 .. n /\ n \in Nat
  BY SourceGraph
<1>2. w \in [1 .. n -> Nat]
  BY DEF Weight
<1>3. PICK r, q : Graded(n, PredsOf(source), r) /\ Graded(n, UsersOf(source), q)
  BY GradedBothWays
<1>4. ASSUME NEW N, NEW r1, Graded(n, N, r1), NEW B,
             B = CHOOSE h : h = [o \in 1 .. n |-> Weighs(N, w, h, o)]
      PROVE  \A o \in 1 .. n : B[o] \in Nat
  <2> DEFINE G(h) == [o \in 1 .. n |-> Weighs(N, w, h, o)]
  <2> HIDE DEF w, n
  <2>1. PICK h \in [1 .. n -> Nat] : \A o \in 1 .. n : h[o] = Weighs(N, w, h, o)
    BY <1>2, <1>4, WeightsExist
  <2>2. h = G(h)
    BY <2>1
  <2>3. B = G(B)
    BY <1>4, <2>2
  <2>4. \A o \in 1 .. n : B[o] = Weighs(N, w, B, o)
    BY <2>3
  <2>5. Graded(n, N, r1) /\ w \in [1 .. n -> Nat]
    BY <1>2, <1>4
  <2> QED
    BY ONLY <2>4, <2>5, WeightsAreNumbers
<1>5. \A o \in 1 .. n : Depth[o] \in Nat
  <2> DEFINE N == PredsOf(source)
             G(h) == [o \in Ops(source) |-> Weight(o) + Max({0} \cup {h[p] : p \in Preds(source, o)})]
             K(h) == [o \in 1 .. n |-> Weighs(N, w, h, o)]
  <2>1. ASSUME NEW h PROVE G(h) = K(h)
    <3>1. \A o \in 1 .. n : Weighs(N, w, h, o) = Weight(o) + Max({0} \cup {h[p] : p \in Preds(source, o)})
      BY <1>1 DEF Weighs, PredsOf
    <3> QED
      BY <1>1, <3>1
  <2>2. Depth = CHOOSE h : h = G(h)
    BY DepthIs
  <2> HIDE DEF G, K
  <2>3. Depth = CHOOSE h : h = K(h)
    BY <2>1, <2>2
  <2> QED
    BY <1>3, <1>4, <2>3 DEF K
<1>6. \A o \in 1 .. n : Height[o] \in Nat
  <2> DEFINE N == UsersOf(source)
             G(h) == [o \in Ops(source) |-> Weight(o) + Max({0} \cup {h[u] : u \in Users(source, o)})]
             K(h) == [o \in 1 .. n |-> Weighs(N, w, h, o)]
  <2>1. ASSUME NEW h PROVE G(h) = K(h)
    <3>1. \A o \in 1 .. n : Weighs(N, w, h, o) = Weight(o) + Max({0} \cup {h[u] : u \in Users(source, o)})
      BY <1>1 DEF Weighs, UsersOf
    <3> QED
      BY <1>1, <3>1
  <2>2. Height = CHOOSE h : h = G(h)
    BY HeightOfSource
  <2> HIDE DEF G, K
  <2>3. Height = CHOOSE h : h = K(h)
    BY <2>1, <2>2
  <2> QED
    BY <1>3, <1>4, <2>3 DEF K
<1> QED
  BY <1>1, <1>5, <1>6 DEF Priority

(* Ancestors, as the function it chooses.                                  *)
LEMMA AncestorsIs ==
  ASSUME NEW code
  PROVE  Ancestors(code) = CHOOSE a : a = [o \in Ops(code) |-> UNION {{p} \cup a[p] : p \in Preds(code, o)}]
BY DEF Ancestors

-----------------------------------------------------------------------------
(* What an operation depends on.                                           *)

(* The ancestors of an operation, from those of its predecessors.          *)
AncestorsStep(code, a, o) == UNION {{p} \cup a[p] : p \in Preds(code, o)}

(* The ancestors of an operation are its predecessors and theirs, though   *)
(* Ancestors is defined by itself.                                         *)
LEMMA AncestorsRight ==
  ASSUME NEW code, IsSource(code), NEW o \in Ops(code)
  PROVE  /\ \A p \in Preds(code, o) : p \in Ancestors(code)[o] /\ Ancestors(code)[p] \subseteq Ancestors(code)[o]
         /\ \A x \in Ancestors(code)[o] : x \in Preds(code, o) \/ \E p \in Preds(code, o) : x \in Ancestors(code)[p]
<1> DEFINE n == Len(code)
           D == 1 .. n
           Upto(a, k) == \A x \in D : x < k => a[x] = AncestorsStep(code, a, x)
           Good == {k \in 0 .. n : \E a : DOMAIN a = D /\ a = [x \in D |-> a[x]] /\ Upto(a, (n + 1) - k)}
           G(a) == [x \in Ops(code) |-> AncestorsStep(code, a, x)]
           A == Ancestors(code)
<1>1. /\ n \in Nat /\ Ops(code) = D /\ \A x \in D : x \in Nat /\ Preds(code, x) \subseteq D
      /\ \A x \in D : \A p \in Preds(code, x) : p < x
  BY SourceGraph
<1>2. n \in Good
  <2> DEFINE a == [x \in D |-> {}]
  <2>1. DOMAIN a = D /\ a = [x \in D |-> a[x]]
    OBVIOUS
  <2>2. Upto(a, (n + 1) - n)
    BY <1>1
  <2>3. n \in 0 .. n
    BY <1>1
  <2> HIDE DEF a
  <2> QED
    BY <2>1, <2>2, <2>3
<1>3. PICK m \in Good : \A k \in Good : m <= k
  <2>1. Good \subseteq 0 .. n
    OBVIOUS
  <2> HIDE DEF Good
  <2>2. Good \in SUBSET Nat /\ Good # {}
    BY <1>1, <1>2, <2>1
  <2> QED
    BY <2>2, NatMin
<1>4. m \in 0 .. n /\ m \in Nat /\ \E a : DOMAIN a = D /\ a = [x \in D |-> a[x]] /\ Upto(a, (n + 1) - m)
  BY <1>1
<1>5. ASSUME m # 0 PROVE FALSE
  <2> DEFINE k == (n + 1) - m
  <2>1. k \in 1 .. n /\ k \in Nat /\ (n + 1) - (m - 1) = k + 1 /\ m - 1 \in 0 .. n
    BY <1>1, <1>4, <1>5
  <2> HIDE DEF k
  <2>2. PICK a : DOMAIN a = D /\ a = [x \in D |-> a[x]] /\ Upto(a, k)
    BY <1>4 DEF k
  <2> DEFINE S == AncestorsStep(code, a, k)
             b == [x \in D |-> IF x = k THEN S ELSE a[x]]
  <2>3. DOMAIN b = D /\ b = [x \in D |-> b[x]]
    OBVIOUS
  <2>4. ASSUME NEW x \in D, x < k + 1 PROVE b[x] = AncestorsStep(code, b, x)
    <3>1. b[x] = AncestorsStep(code, a, x)
      <4>1. CASE x = k
        BY <4>1
      <4>2. CASE x # k
        <5>1. x < k
          BY <1>1, <2>1, <2>4, <4>2
        <5> QED
          BY <2>2, <4>2, <5>1
      <4> QED
        BY <4>1, <4>2
    <3>2. \A p \in Preds(code, x) : b[p] = a[p]
      <4> TAKE p \in Preds(code, x)
      <4>1. p \in D /\ p < x /\ p \in Nat /\ x \in Nat
        BY <1>1
      <4>2. p # k
        BY <2>1, <2>4, <4>1
      <4> QED
        BY <4>1, <4>2
    <3> HIDE DEF b
    <3>3. {{p} \cup b[p] : p \in Preds(code, x)} = {{p} \cup a[p] : p \in Preds(code, x)}
      BY <3>2
    <3> QED
      BY <3>1, <3>3 DEF AncestorsStep
  <2>5. Upto(b, k + 1)
    BY <2>4
  <2>6. m - 1 \in Good
    <3> HIDE DEF b, S
    <3> QED
      BY <2>1, <2>3, <2>5
  <2>7. ~ (m <= m - 1)
    BY <1>4
  <2> HIDE DEF Good
  <2> QED
    BY <1>3, <2>6, <2>7
<1>6. PICK a : DOMAIN a = D /\ a = [x \in D |-> a[x]] /\ Upto(a, n + 1)
  BY <1>1, <1>4, <1>5
<1>7. a = G(a)
  <2>1. \A x \in D : a[x] = AncestorsStep(code, a, x)
    BY <1>1, <1>6
  <2> QED
    BY <1>1, <1>6, <2>1
<1>8. A = CHOOSE f : f = G(f)
  BY AncestorsIs DEF AncestorsStep
<1> HIDE DEF A
<1>9. A = G(A)
  BY <1>7, <1>8
<1>10. A[o] = UNION {{p} \cup A[p] : p \in Preds(code, o)}
  BY <1>9 DEF AncestorsStep
<1>11. \A p \in Preds(code, o) : p \in A[o] /\ A[p] \subseteq A[o]
  BY <1>10
<1>12. \A x \in A[o] : x \in Preds(code, o) \/ \E p \in Preds(code, o) : x \in A[p]
  BY <1>10
<1> QED
  BY <1>11, <1>12 DEF A

(* A set that holds what its elements read, of which nothing is outside Y. *)
LEMMA AncestorsWithin ==
  ASSUME NEW code, IsSource(code), NEW X \in SUBSET Ops(code), NEW Y,
         \A x \in X : Preds(code, x) \subseteq X /\ Preds(code, x) \subseteq Y
  PROVE  \A x \in X : Ancestors(code)[x] \subseteq Y
<1> DEFINE Bad == {x \in X : ~ (Ancestors(code)[x] \subseteq Y)}
<1>1. ASSUME Bad # {} PROVE FALSE
  <2>1. Bad \in SUBSET Nat
    BY SourceGraph
  <2>2. PICK m \in Bad : \A y \in Bad : m <= y
    <3> HIDE DEF Bad
    <3> QED
      BY <1>1, <2>1, NatMin
  <2>3. m \in Ops(code) /\ m \in Nat /\ m \in X
    BY SourceGraph
  <2>4. \A p \in Preds(code, m) : p \in X /\ p \in Y /\ p \in Nat /\ p < m
    BY <2>3, SourceGraph
  <2>5. \A p \in Preds(code, m) : Ancestors(code)[p] \subseteq Y
    <3> TAKE p \in Preds(code, m)
    <3>1. ~ (m <= p)
      BY <2>3, <2>4
    <3>2. p \notin Bad
      <4> HIDE DEF Bad
      <4> QED
        BY <2>2, <3>1
    <3> QED
      BY <2>4, <3>2
  <2>6. Ancestors(code)[m] \subseteq Y
    BY <2>3, <2>4, <2>5, AncestorsRight
  <2> QED
    BY <2>6
<1> QED
  BY <1>1

(* What an ancestor reads is an ancestor.                                  *)
LEMMA AncestorsTransitive ==
  ASSUME NEW code, IsSource(code), NEW q, NEW x, x \in Preds(code, q), q \in Ops(code)
  PROVE  \A p \in Ops(code) : q \in Ancestors(code)[p] => x \in Ancestors(code)[p]
<1> DEFINE Bad == {p \in Ops(code) : q \in Ancestors(code)[p] /\ x \notin Ancestors(code)[p]}
<1>1. ASSUME Bad # {} PROVE FALSE
  <2>1. Bad \in SUBSET Nat
    BY SourceGraph
  <2>2. PICK m \in Bad : \A y \in Bad : m <= y
    <3> HIDE DEF Bad
    <3> QED
      BY <1>1, <2>1, NatMin
  <2>3. m \in Ops(code) /\ m \in Nat
    BY SourceGraph
  <2>4. CASE q \in Preds(code, m)
    <3>1. Ancestors(code)[q] \subseteq Ancestors(code)[m]
      BY <2>3, <2>4, AncestorsRight
    <3>2. x \in Ancestors(code)[q]
      BY AncestorsRight
    <3> QED
      BY <3>1, <3>2
  <2>5. CASE \E p \in Preds(code, m) : q \in Ancestors(code)[p]
    <3>1. PICK p \in Preds(code, m) : q \in Ancestors(code)[p]
      BY <2>5
    <3>2. p \in Ops(code) /\ p < m /\ p \in Nat
      BY <2>3, SourceGraph
    <3>3. ~ (m <= p)
      BY <2>3, <3>2
    <3>4. p \notin Bad
      <4> HIDE DEF Bad
      <4> QED
        BY <2>2, <3>3
    <3>5. x \in Ancestors(code)[p]
      BY <3>1, <3>2, <3>4
    <3>6. Ancestors(code)[p] \subseteq Ancestors(code)[m]
      BY <2>3, AncestorsRight
    <3> QED
      BY <3>5, <3>6
  <2> QED
    BY <2>3, <2>4, <2>5, AncestorsRight
<1> QED
  BY <1>1

(* The two directions of a walk: what an operation waits for, what is      *)
(* looked at after it, and what must be visited before it.                 *)
WaitsFor(code, dir) == IF dir = "forward" THEN PredsOf(code) ELSE UsersOf(code)

(* What follows an operation in either direction.                          *)
Releases(code, dir) == IF dir = "forward" THEN UsersOf(code) ELSE PredsOf(code)

(* What an operation needs, in either direction, be it through others.     *)
Needs(code, dir, u, p) ==
  IF dir = "forward" THEN p \in Ancestors(code)[u] ELSE u \in Ancestors(code)[p]

(* In either direction, an operation comes after finitely many others, and *)
(* a bootstrap after some.                                                 *)
LEMMA Directions ==
  ASSUME NEW code, IsSource(code), NEW dir
  PROVE  /\ \A o \in Ops(code) : WaitsFor(code, dir)[o] \subseteq Ops(code) /\ Releases(code, dir)[o] \subseteq Ops(code)
         /\ \A o \in Ops(code) : IsFiniteSet(WaitsFor(code, dir)[o])
         /\ \A o, u \in Ops(code) : u \in Releases(code, dir)[o] <=> o \in WaitsFor(code, dir)[u]
         /\ \A o \in Ops(code) : code[o].kind = "pbs" => WaitsFor(code, dir)[o] # {}
         /\ \E r : Graded(Len(code), WaitsFor(code, dir), r)
<1>1. /\ Ops(code) = DOMAIN code
      /\ \A o \in Ops(code) : Preds(code, o) \subseteq Ops(code) /\ Users(code, o) \subseteq Ops(code)
      /\ \A o \in Ops(code) : IsFiniteSet(Preds(code, o)) /\ IsFiniteSet(Users(code, o))
  BY SourceGraph
<1>2. \A o, u \in Ops(code) : u \in Users(code, o) <=> o \in Preds(code, u)
  BY DEF Users
<1>3. ASSUME NEW o \in Ops(code), code[o].kind = "pbs"
      PROVE  Preds(code, o) # {} /\ Users(code, o) # {}
  <2>1. Len(code[o].args) = 1 /\ Users(code, o) # {} /\ code[o].args \in Seq(UNION {Range(Results(code, q)) : q \in 1 .. o - 1})
    BY <1>3 DEF IsSource
  <2>2. 1 \in DOMAIN code[o].args
    BY <2>1
  <2> QED
    BY <2>1, <2>2 DEF Preds
<1>4. \E r : Graded(Len(code), WaitsFor(code, dir), r)
  BY GradedBothWays DEF WaitsFor
<1>5. CASE dir = "forward"
  <2>1. /\ \A o \in Ops(code) : WaitsFor(code, dir)[o] = Preds(code, o) /\ Releases(code, dir)[o] = Users(code, o)
    BY <1>5 DEF WaitsFor, Releases, PredsOf, UsersOf
  <2> QED
    BY <1>1, <1>2, <1>3, <1>4, <2>1
<1>6. CASE dir # "forward"
  <2>1. /\ \A o \in Ops(code) : WaitsFor(code, dir)[o] = Users(code, o) /\ Releases(code, dir)[o] = Preds(code, o)
    BY <1>6 DEF WaitsFor, Releases, PredsOf, UsersOf
  <2> QED
    BY <1>1, <1>2, <1>3, <1>4, <2>1
<1> QED
  BY <1>5, <1>6

(* An operation needs what it waits for and what that needs.               *)
LEMMA NeedsStep ==
  ASSUME NEW code, IsSource(code), NEW dir, NEW u \in Ops(code), NEW q \in WaitsFor(code, dir)[u]
  PROVE  Needs(code, dir, u, q) /\ \A p \in Ops(code) : Needs(code, dir, q, p) => Needs(code, dir, u, p)
<1>1. q \in Ops(code)
  BY Directions
<1>2. CASE dir = "forward"
  <2>1. q \in Preds(code, u)
    BY <1>2 DEF WaitsFor, PredsOf
  <2> QED
    BY <1>2, <2>1, AncestorsRight DEF Needs
<1>3. CASE dir # "forward"
  <2>1. u \in Preds(code, q)
    BY <1>3 DEF WaitsFor, UsersOf, Users
  <2>2. u \in Ancestors(code)[q]
    BY <1>1, <2>1, AncestorsRight
  <2>3. \A p \in Ops(code) : q \in Ancestors(code)[p] => u \in Ancestors(code)[p]
    BY <1>1, <2>1, AncestorsTransitive
  <2> QED
    BY <1>3, <2>2, <2>3 DEF Needs
<1> QED
  BY <1>2, <1>3

(* When everything left waits for something not yet visited, and the batch *)
(* is all there is to visit, everything left needs a member of the batch.  *)
LEMMA LeftIsBlocked ==
  ASSUME NEW code, IsSource(code), NEW dir, NEW V, NEW B \in SUBSET Ops(code),
         \A u \in Ops(code) : u \in V \/ u \in B \/ ~ (WaitsFor(code, dir)[u] \subseteq V)
  PROVE  \A u \in Ops(code) : u \in V \/ u \in B \/ \E p \in B : Needs(code, dir, u, p)
<1> DEFINE n == Len(code)
           Left == {u \in Ops(code) : u \notin V /\ u \notin B /\ ~ \E p \in B : Needs(code, dir, u, p)}
<1>1. PICK r : Graded(n, WaitsFor(code, dir), r)
  BY Directions
<1>2. /\ n \in Nat /\ Ops(code) = 1 .. n
      /\ \A o \in 1 .. n : r[o] \in 0 .. n /\ \A u \in WaitsFor(code, dir)[o] : r[u] < r[o]
  BY <1>1, SourceGraph DEF Graded
<1> DEFINE Bad == {r[u] : u \in Left}
<1>3. ASSUME Left # {} PROVE FALSE
  <2>0. \A u \in Left : u \in 1 .. n /\ r[u] \in Nat
    BY <1>2
  <2>1. Bad \in SUBSET Nat /\ Bad # {}
    <3> HIDE DEF Left
    <3> QED
      BY <1>3, <2>0
  <2>2. PICK m \in Bad : \A k \in Bad : m <= k
    <3> HIDE DEF Bad
    <3> QED
      BY <2>1, NatMin
  <2>3. PICK u \in Left : r[u] = m
    <3> HIDE DEF Left
    <3> QED
      OBVIOUS
  <2>4. u \in Ops(code) /\ u \notin V /\ u \notin B /\ ~ \E p \in B : Needs(code, dir, u, p)
    OBVIOUS
  <2>5. PICK q \in WaitsFor(code, dir)[u] : q \notin V
    BY <2>4
  <2>6. q \in Ops(code) /\ r[q] < m /\ r[q] \in Nat /\ m \in Nat
    <3>1. q \in Ops(code)
      BY <2>4, Directions
    <3> HIDE DEF Left, Bad
    <3> QED
      BY <1>2, <2>0, <2>3, <2>4, <3>1
  <2>7. q \notin Left
    <3>1. ~ (m <= r[q])
      BY <2>6
    <3>2. r[q] \notin Bad
      <4> HIDE DEF Bad
      <4> QED
        BY <2>2, <3>1
    <3> HIDE DEF Left
    <3> QED
      BY <3>2
  <2>8. Needs(code, dir, u, q) /\ \A p \in Ops(code) : Needs(code, dir, q, p) => Needs(code, dir, u, p)
    BY <2>4, NeedsStep
  <2> QED
    BY <2>4, <2>5, <2>6, <2>7, <2>8
<1> QED
  BY <1>3

-----------------------------------------------------------------------------
(* The plan of a walk.                                                     *)

(* The first operations of an order.                                       *)
Prefix(seq, s) == {seq[m] : m \in 1 .. s}

(* A batch in the order of a walk: its members follow each other, what     *)
(* they wait for is before them, later batches are after them, and if the  *)
(* batch is short, all that is after them needs one of them.               *)
Together(code, dir, seq, bs, k, s) ==
  /\ s \in Nat /\ s + Len(bs[k]) <= Len(seq)
  /\ \A j \in 1 .. Len(bs[k]) : seq[s + j] = bs[k][j]
  /\ \A o \in Range(bs[k]) : WaitsFor(code, dir)[o] \subseteq Prefix(seq, s)
  /\ \A c \in DOMAIN bs : k < c => \A o \in Range(bs[c]) : o \notin Prefix(seq, s + Len(bs[k]))
  /\ Len(bs[k]) < BatchSize =>
       \A u \in Ops(code) : u \in Prefix(seq, s + Len(bs[k])) \/ \E p \in Range(bs[k]) : Needs(code, dir, u, p)

(* The batches take every bootstrap of S once.                             *)
BatchesOf(code, bs, S) ==
  /\ bs \in Seq(Range(bs))
  /\ \A k \in DOMAIN bs : /\ Lists(bs[k], Range(bs[k])) /\ Len(bs[k]) \in 1 .. BatchSize
                          /\ \A o \in Range(bs[k]) : o \in S /\ code[o].kind = "pbs"
  /\ \A k, c \in DOMAIN bs : \A o \in Range(bs[k]) : o \in Range(bs[c]) => k = c
  /\ \A o \in S : code[o].kind = "pbs" => \E k \in DOMAIN bs : o \in Range(bs[k])

(* The order of a walk: each operation once, after what it waits for.      *)
WalkOrder(code, dir, seq) ==
  /\ Lists(seq, Range(seq)) /\ Range(seq) \subseteq Ops(code)
  /\ \A n \in DOMAIN seq : WaitsFor(code, dir)[seq[n]] \subseteq Prefix(seq, n - 1)

(* What a walk makes: an order with batches, each together in the order.   *)
WalkPlan(code, dir, seq, bs) ==
  /\ WalkOrder(code, dir, seq)
  /\ BatchesOf(code, bs, Range(seq))
  /\ \A k \in DOMAIN bs : \E s : Together(code, dir, seq, bs, k, s)

(* Nothing waits for more.                                                 *)
Supplied(code, dir, T, S) == \A o \in T : WaitsFor(code, dir)[o] \subseteq S

(* A sequence and one more element.                                        *)
LEMMA AppendFits ==
  ASSUME NEW E, NEW s \in Seq(E), NEW x
  PROVE  Append(s, x) \in Seq(Range(Append(s, x)))
<1>1. s \in Seq(E \cup {x})
  OBVIOUS
<1>2. Append(s, x) \in Seq(E \cup {x})
  BY <1>1
<1> DEFINE t == Append(s, x)
<1> HIDE DEF t
<1>3. t \in Seq(E \cup {x})
  BY <1>2 DEF t
<1>4. Len(t) \in Nat /\ t = [n \in 1 .. Len(t) |-> t[n]] /\ \A n \in 1 .. Len(t) : t[n] \in Range(t)
  BY <1>3 DEF Range
<1>5. t \in Seq(Range(t))
  BY <1>4
<1> QED
  BY <1>5 DEF t

(* The order with what a step adds to its end.                             *)
LEMMA OrderGrows ==
  ASSUME NEW code, NEW dir, NEW seq, WalkOrder(code, dir, seq),
         NEW T \in SUBSET Ops(code), NEW t, Lists(t, T), T \cap Range(seq) = {},
         Supplied(code, dir, T, Range(seq))
  PROVE  /\ WalkOrder(code, dir, seq \o t) /\ Range(seq \o t) = Range(seq) \cup T
         /\ Len(seq) \in Nat /\ Len(t) \in Nat /\ Len(seq \o t) = Len(seq) + Len(t)
         /\ \A n \in 1 .. Len(seq) : (seq \o t)[n] = seq[n]
         /\ \A n \in 1 .. Len(t) : (seq \o t)[Len(seq) + n] = t[n]
         /\ \A m \in 0 .. Len(seq) : Prefix(seq \o t, m) = Prefix(seq, m)
         /\ Prefix(seq \o t, Len(seq)) = Range(seq) /\ Prefix(seq \o t, Len(seq) + Len(t)) = Range(seq) \cup T
<1> DEFINE st == seq \o t
           S == Range(seq)
<1>1. Lists(seq, S)
  BY DEF WalkOrder
<1>2. Lists(st, S \cup T)
  BY <1>1, ConcatOnce
<1>3. seq \in Seq(S) /\ t \in Seq(T) /\ DOMAIN seq = 1 .. Len(seq) /\ Len(seq) \in Nat /\ Len(t) \in Nat
      /\ DOMAIN t = 1 .. Len(t)
  BY <1>1 DEF Lists
<1>4. Len(st) = Len(seq) + Len(t) /\ DOMAIN st = 1 .. Len(seq) + Len(t)
  BY <1>3
<1>5. \A n \in 1 .. Len(seq) : st[n] = seq[n]
  BY <1>3
<1>6. \A n \in 1 .. Len(t) : st[Len(seq) + n] = t[n]
  BY <1>3
<1>7. Range(st) = S \cup T
  BY <1>2, ListFacts
<1> HIDE DEF st
<1>8. \A m \in 0 .. Len(seq) : Prefix(st, m) = Prefix(seq, m)
  <2> TAKE m \in 0 .. Len(seq)
  <2>1. \A n \in 1 .. m : st[n] = seq[n]
    BY <1>3, <1>5
  <2> QED
    BY <2>1 DEF Prefix
<1>9. Prefix(seq, Len(seq)) = S
  BY <1>3 DEF Prefix, Range
<1>10. Prefix(st, Len(seq)) = S
  BY <1>3, <1>8, <1>9
<1>11. Prefix(st, Len(seq) + Len(t)) = S \cup T
  BY <1>4, <1>7 DEF Prefix, Range
<1>12. ASSUME NEW n \in DOMAIN st PROVE WaitsFor(code, dir)[st[n]] \subseteq Prefix(st, n - 1)
  <2>1. CASE n \in 1 .. Len(seq)
    <3>1. WaitsFor(code, dir)[seq[n]] \subseteq Prefix(seq, n - 1)
      BY <1>3, <2>1 DEF WalkOrder
    <3>2. n - 1 \in 0 .. Len(seq)
      BY <1>3, <2>1
    <3>3. st[n] = seq[n] /\ Prefix(st, n - 1) = Prefix(seq, n - 1)
      BY <1>5, <1>8, <2>1, <3>2
    <3> QED
      BY <3>1, <3>3
  <2>2. CASE n \notin 1 .. Len(seq)
    <3>1. n - Len(seq) \in 1 .. Len(t) /\ Len(seq) + (n - Len(seq)) = n
      BY <1>3, <1>4, <2>2
    <3>2. st[n] = t[n - Len(seq)]
      BY <1>6, <3>1
    <3>3. st[n] \in T
      BY <1>3, <3>1, <3>2
    <3>4. WaitsFor(code, dir)[st[n]] \subseteq Prefix(st, Len(seq))
      BY <1>10, <3>3 DEF Supplied
    <3>5. Prefix(st, Len(seq)) \subseteq Prefix(st, n - 1)
      <4>1. 1 .. Len(seq) \subseteq 1 .. n - 1
        BY <1>3, <3>1
      <4> QED
        BY <4>1 DEF Prefix
    <3> QED
      BY <3>4, <3>5
  <2> QED
    BY <2>1, <2>2
<1>13. WalkOrder(code, dir, st)
  BY <1>2, <1>7, <1>12 DEF WalkOrder
<1> QED
  BY <1>3, <1>4, <1>5, <1>6, <1>7, <1>8, <1>10, <1>11, <1>13 DEF st

(* Where a batch is, the order may grow behind it.                         *)
LEMMA TogetherStill ==
  ASSUME NEW code, NEW dir, NEW seq, NEW bs, NEW k \in DOMAIN bs, NEW s, Together(code, dir, seq, bs, k, s),
         bs \in Seq(Range(bs)), Len(bs[k]) \in Nat, Len(seq) \in Nat,
         NEW st, Len(st) \in Nat, Len(seq) <= Len(st),
         \A n \in 1 .. Len(seq) : st[n] = seq[n],
         \A m \in 0 .. Len(seq) : Prefix(st, m) = Prefix(seq, m),
         NEW bs2, \A c \in DOMAIN bs : bs2[c] = bs[c],
         \A c \in DOMAIN bs2 : c \in DOMAIN bs \/ \A o \in Range(bs2[c]) : o \notin Prefix(seq, Len(seq))
  PROVE  Together(code, dir, st, bs2, k, s)
<1>1. s \in Nat /\ s + Len(bs[k]) <= Len(seq) /\ s \in 0 .. Len(seq) /\ s + Len(bs[k]) \in 0 .. Len(seq)
  BY DEF Together
<1>2. bs2[k] = bs[k]
  OBVIOUS
<1>3. Prefix(st, s) = Prefix(seq, s) /\ Prefix(st, s + Len(bs[k])) = Prefix(seq, s + Len(bs[k]))
  BY <1>1
<1>4. \A j \in 1 .. Len(bs[k]) : st[s + j] = bs[k][j]
  <2> TAKE j \in 1 .. Len(bs[k])
  <2>1. s + j \in 1 .. Len(seq)
    BY <1>1
  <2>2. seq[s + j] = bs[k][j]
    BY DEF Together
  <2> QED
    BY <2>1, <2>2
<1>5. ASSUME NEW c \in DOMAIN bs2, k < c, NEW o \in Range(bs2[c])
      PROVE  o \notin Prefix(seq, s + Len(bs[k]))
  <2>1. CASE c \in DOMAIN bs
    BY <1>5, <2>1 DEF Together
  <2>2. CASE c \notin DOMAIN bs
    <3>1. o \notin Prefix(seq, Len(seq))
      BY <2>2
    <3>2. 1 .. s + Len(bs[k]) \subseteq 1 .. Len(seq)
      BY <1>1
    <3> QED
      BY <3>1, <3>2 DEF Prefix
  <2> QED
    BY <2>1, <2>2
<1>6. s + Len(bs[k]) <= Len(st)
  BY <1>1
<1>7. /\ \A o \in Range(bs[k]) : WaitsFor(code, dir)[o] \subseteq Prefix(seq, s)
      /\ Len(bs[k]) < BatchSize =>
           \A u \in Ops(code) : u \in Prefix(seq, s + Len(bs[k])) \/ \E p \in Range(bs[k]) : Needs(code, dir, u, p)
  BY DEF Together
<1> QED
  BY <1>1, <1>2, <1>3, <1>4, <1>5, <1>6, <1>7 DEF Together

(* Operations that are no bootstraps may join a plan once what they wait   *)
(* for is in it.                                                           *)
LEMMA PlanGrows ==
  ASSUME NEW code, NEW dir, NEW seq, NEW bs, WalkPlan(code, dir, seq, bs),
         NEW T \in SUBSET Ops(code), NEW t, Lists(t, T), T \cap Range(seq) = {},
         \A o \in T : WaitsFor(code, dir)[o] \subseteq Range(seq) /\ code[o].kind # "pbs"
  PROVE  WalkPlan(code, dir, seq \o t, bs)
<1> DEFINE st == seq \o t
<1>0. WalkOrder(code, dir, seq) /\ Supplied(code, dir, T, Range(seq))
  BY DEF WalkPlan, Supplied
<1>1. /\ WalkOrder(code, dir, st) /\ Range(st) = Range(seq) \cup T
      /\ Len(seq) \in Nat /\ Len(t) \in Nat /\ Len(st) = Len(seq) + Len(t)
      /\ \A n \in 1 .. Len(seq) : st[n] = seq[n]
      /\ \A m \in 0 .. Len(seq) : Prefix(st, m) = Prefix(seq, m)
  <2> HIDE DEF WalkPlan
  <2> QED
    BY ONLY <1>0, OrderGrows, T \in SUBSET Ops(code), Lists(t, T), T \cap Range(seq) = {}
<1> HIDE DEF st
<1>2. BatchesOf(code, bs, Range(st))
  BY <1>1 DEF WalkPlan, BatchesOf
<1>3. ASSUME NEW k \in DOMAIN bs PROVE \E s : Together(code, dir, st, bs, k, s)
  <2>1. PICK s : Together(code, dir, seq, bs, k, s)
    BY DEF WalkPlan
  <2>2. bs \in Seq(Range(bs)) /\ Len(bs[k]) \in Nat
    BY DEF WalkPlan, BatchesOf
  <2>3. Len(st) \in Nat /\ Len(seq) <= Len(st)
    BY <1>1
  <2>4. Together(code, dir, st, bs, k, s)
    BY <1>1, <2>1, <2>2, <2>3, TogetherStill
  <2> QED
    BY <2>4
<1> QED
  BY <1>1, <1>2, <1>3 DEF WalkPlan, st

(* So may a batch, if it is full or everything that remains must wait for  *)
(* it.                                                                     *)
LEMMA PlanBatch ==
  ASSUME NEW code, NEW dir, NEW seq, NEW bs, WalkPlan(code, dir, seq, bs),
         NEW T \in SUBSET Ops(code), NEW t, Lists(t, T), T \cap Range(seq) = {}, Len(t) \in 1 .. BatchSize,
         \A o \in T : WaitsFor(code, dir)[o] \subseteq Range(seq) /\ code[o].kind = "pbs",
         Len(t) < BatchSize =>
           \A u \in Ops(code) : u \in Range(seq) \cup T \/ \E p \in T : Needs(code, dir, u, p)
  PROVE  WalkPlan(code, dir, seq \o t, Append(bs, t))
<1> DEFINE st == seq \o t
           bs2 == Append(bs, t)
           S == Range(seq)
<1>0. WalkOrder(code, dir, seq) /\ Supplied(code, dir, T, Range(seq))
  BY DEF WalkPlan, Supplied
<1>1. /\ WalkOrder(code, dir, st) /\ Range(st) = Range(seq) \cup T
      /\ Len(seq) \in Nat /\ Len(t) \in Nat /\ Len(st) = Len(seq) + Len(t)
      /\ \A n \in 1 .. Len(seq) : st[n] = seq[n]
      /\ \A n \in 1 .. Len(t) : st[Len(seq) + n] = t[n]
      /\ \A m \in 0 .. Len(seq) : Prefix(st, m) = Prefix(seq, m)
      /\ Prefix(st, Len(seq)) = S /\ Prefix(st, Len(seq) + Len(t)) = S \cup T
  <2> HIDE DEF WalkPlan
  <2> QED
    BY ONLY <1>0, OrderGrows, T \in SUBSET Ops(code), Lists(t, T), T \cap Range(seq) = {}
<1>2. bs \in Seq(Range(bs)) /\ Len(bs) \in Nat /\ DOMAIN bs = 1 .. Len(bs)
  BY DEF WalkPlan, BatchesOf
<1>3. /\ DOMAIN bs2 = 1 .. Len(bs) + 1
      /\ \A c \in DOMAIN bs : c \in DOMAIN bs2 /\ bs2[c] = bs[c]
      /\ bs2[Len(bs) + 1] = t
      /\ \A c \in DOMAIN bs2 : c \in DOMAIN bs \/ c = Len(bs) + 1
  BY <1>2
<1>4. Range(t) = T
  BY ListFacts
<1>5. bs2 \in Seq(Range(bs2))
  BY <1>2, AppendFits
<1> HIDE DEF st, bs2
<1>6. BatchesOf(code, bs2, Range(st))
  <2>1. \A k \in DOMAIN bs : /\ Lists(bs[k], Range(bs[k])) /\ Len(bs[k]) \in 1 .. BatchSize
                            /\ \A o \in Range(bs[k]) : o \in S /\ code[o].kind = "pbs"
    BY DEF WalkPlan, BatchesOf
  <2>2. \A k \in DOMAIN bs2 : /\ Lists(bs2[k], Range(bs2[k])) /\ Len(bs2[k]) \in 1 .. BatchSize
                             /\ \A o \in Range(bs2[k]) : o \in Range(st) /\ code[o].kind = "pbs"
    <3> TAKE k \in DOMAIN bs2
    <3>1. CASE k \in DOMAIN bs
      BY <1>1, <1>3, <2>1, <3>1
    <3>2. CASE k = Len(bs) + 1
      BY <1>1, <1>3, <1>4, <3>2
    <3> QED
      BY <1>3, <3>1, <3>2
  <2>3. ASSUME NEW k \in DOMAIN bs2, NEW c \in DOMAIN bs2, NEW o \in Range(bs2[k]), o \in Range(bs2[c])
        PROVE  k = c
    <3>1. CASE k \in DOMAIN bs /\ c \in DOMAIN bs
      BY <1>3, <2>3, <3>1 DEF WalkPlan, BatchesOf
    <3>2. CASE k \notin DOMAIN bs \/ c \notin DOMAIN bs
      <4>1. \A x \in DOMAIN bs : \A y \in Range(bs2[x]) : y \notin T
        BY <1>3, <2>1
      <4>2. \A x \in DOMAIN bs2 : x \notin DOMAIN bs => x = Len(bs) + 1 /\ Range(bs2[x]) = T
        BY <1>3, <1>4
      <4> QED
        BY <2>3, <3>2, <4>1, <4>2
    <3> QED
      BY <3>1, <3>2
  <2>4. ASSUME NEW o \in Range(st), code[o].kind = "pbs"
        PROVE  \E k \in DOMAIN bs2 : o \in Range(bs2[k])
    <3>1. CASE o \in S
      <4>1. PICK k \in DOMAIN bs : o \in Range(bs[k])
        BY <2>4, <3>1 DEF WalkPlan, BatchesOf
      <4> QED
        BY <1>3, <4>1
    <3>2. CASE o \in T
      <4>1. Len(bs) + 1 \in DOMAIN bs2
        BY <1>2, <1>3
      <4> QED
        BY <1>3, <1>4, <3>2, <4>1
    <3> QED
      BY <1>1, <3>1, <3>2
  <2> QED
    BY <1>5, <2>2, <2>3, <2>4 DEF BatchesOf
<1>7. ASSUME NEW k \in DOMAIN bs PROVE \E s : Together(code, dir, st, bs2, k, s)
  <2>1. PICK s : Together(code, dir, seq, bs, k, s)
    BY DEF WalkPlan
  <2>2. Len(bs[k]) \in Nat
    BY DEF WalkPlan, BatchesOf
  <2>3. Len(st) \in Nat /\ Len(seq) <= Len(st)
    BY <1>1
  <2>4. Prefix(seq, Len(seq)) = S
    BY <1>1
  <2>5. \A c \in DOMAIN bs2 : c \in DOMAIN bs \/ \A o \in Range(bs2[c]) : o \notin Prefix(seq, Len(seq))
    BY <1>3, <1>4, <2>4
  <2>6. Together(code, dir, st, bs2, k, s)
    BY <1>1, <1>2, <1>3, <2>1, <2>2, <2>3, <2>5, TogetherStill
  <2> QED
    BY <2>6
<1>8. Together(code, dir, st, bs2, Len(bs) + 1, Len(seq))
  <2>1. bs2[Len(bs) + 1] = t /\ Range(t) = T
    BY <1>3, <1>4
  <2>2. \A c \in DOMAIN bs2 : ~ (Len(bs) + 1 < c)
    BY <1>2, <1>3
  <2>3. \A o \in T : WaitsFor(code, dir)[o] \subseteq Prefix(st, Len(seq))
    BY <1>1
  <2>4. \A j \in 1 .. Len(t) : st[Len(seq) + j] = t[j]
    BY <1>1
  <2>5. Len(seq) \in Nat /\ Len(seq) + Len(t) <= Len(st)
    BY <1>1
  <2>6. Len(t) < BatchSize =>
         \A u \in Ops(code) : u \in Prefix(st, Len(seq) + Len(t)) \/ \E p \in T : Needs(code, dir, u, p)
    BY <1>1
  <2> QED
    BY <2>1, <2>2, <2>3, <2>4, <2>5, <2>6 DEF Together
<1>9. \A k \in DOMAIN bs2 : \E s : Together(code, dir, st, bs2, k, s)
  BY <1>3, <1>7, <1>8
<1> QED
  BY <1>1, <1>6, <1>9 DEF WalkPlan, st, bs2

-----------------------------------------------------------------------------
(* The counts and the queues of a walk.                                    *)

(* The counts of a walk that has visited R.                                *)
Counted(code, dir, count, R) == count = [u \in Ops(code) |-> Cardinality(WaitsFor(code, dir)[u] \ R)]

(* What is visited or waits to be, once R is visited.                      *)
Known(code, dir, R, K) == \A u \in Ops(code) : WaitsFor(code, dir)[u] \subseteq R <=> u \in K

(* The counts when o has been visited, and what may be visited then.       *)
CountsDown(code, dir, o, count, count2, U) ==
  /\ count2 = [u \in Ops(code) |-> count[u] - (IF u \in Releases(code, dir)[o] THEN 1 ELSE 0)]
  /\ U = {u \in Releases(code, dir)[o] : count[u] = 1}

(* Visiting an operation counts down what follows it, and releases what    *)
(* waited for it alone.                                                    *)
LEMMA CountStep ==
  ASSUME NEW code, IsSource(code), NEW dir, NEW R, NEW K, NEW count, NEW o \in Ops(code), o \notin R,
         Counted(code, dir, count, R), Known(code, dir, R, K),
         NEW count2, NEW U, CountsDown(code, dir, o, count, count2, U)
  PROVE  /\ Counted(code, dir, count2, R \cup {o}) /\ Known(code, dir, R \cup {o}, K \cup U)
         /\ U \cap K = {} /\ U \subseteq Ops(code) /\ Supplied(code, dir, U, R \cup {o})
<1> DEFINE B == WaitsFor(code, dir)
           A == Releases(code, dir)
           R2 == R \cup {o}
<1>0. /\ count2 = [u \in Ops(code) |-> count[u] - (IF u \in A[o] THEN 1 ELSE 0)]
      /\ U = {u \in A[o] : count[u] = 1}
  BY DEF CountsDown
<1>1. /\ A[o] \subseteq Ops(code) /\ \A u \in Ops(code) : IsFiniteSet(B[u])
      /\ \A u \in Ops(code) : u \in A[o] <=> o \in B[u]
  BY Directions
<1> HIDE DEF B, A
<1>2. \A u \in Ops(code) : count[u] = Cardinality(B[u] \ R) /\ (B[u] \subseteq R <=> u \in K)
  BY DEF Counted, Known, B
<1>3. ASSUME NEW u \in Ops(code)
      PROVE  /\ Cardinality(B[u] \ R2) = count[u] - (IF u \in A[o] THEN 1 ELSE 0)
             /\ u \in A[o] => (count[u] = 1 <=> B[u] \subseteq R2) /\ ~ (B[u] \subseteq R)
             /\ u \notin A[o] => (B[u] \subseteq R2 <=> B[u] \subseteq R)
  <2> DEFINE P == B[u] \ R
  <2>1. IsFiniteSet(P) /\ Cardinality(P) \in Nat /\ count[u] = Cardinality(P)
    BY <1>1, <1>2, FS_Subset, FS_CardinalityType
  <2>2. CASE o \in B[u]
    <3>1. B[u] \ R2 = P \ {o} /\ o \in P
      BY <2>2
    <3> HIDE DEF P
    <3>2. Cardinality(P \ {o}) = Cardinality(P) - 1 /\ IsFiniteSet(P \ {o})
      BY <2>1, <3>1, FS_RemoveElement
    <3>3. Cardinality(P \ {o}) = 0 <=> P \ {o} = {}
      BY <3>2, FS_EmptySet
    <3>4. B[u] \subseteq R2 <=> P \ {o} = {}
      BY <3>1
    <3>5. ~ (B[u] \subseteq R) /\ u \in A[o]
      BY <1>1, <2>2
    <3>6. count[u] = 1 <=> B[u] \subseteq R2
      BY <2>1, <3>2, <3>3, <3>4
    <3>7. Cardinality(B[u] \ R2) = count[u] - 1
      BY <2>1, <3>1, <3>2
    <3> QED
      BY <3>5, <3>6, <3>7
  <2>3. CASE o \notin B[u]
    <3>1. B[u] \ R2 = P /\ u \notin A[o]
      BY <1>1, <2>3
    <3>2. B[u] \subseteq R2 <=> B[u] \subseteq R
      BY <2>3
    <3>4. Cardinality(B[u] \ R2) = Cardinality(P)
      BY ONLY <3>1, Zenon
    <3> HIDE DEF P, R2
    <3>3. Cardinality(B[u] \ R2) = count[u] - 0
      BY <2>1, <3>4
    <3> QED
      BY <3>1, <3>2, <3>3
  <2> QED
    BY <2>2, <2>3
<1>4. \A u \in U : u \in Ops(code) /\ u \in A[o] /\ count[u] = 1 /\ B[u] \subseteq R2 /\ ~ (B[u] \subseteq R)
  BY <1>0, <1>1, <1>3
<1>5. Counted(code, dir, count2, R2)
  BY <1>0, <1>3 DEF Counted, B
<1>6. Known(code, dir, R2, K \cup U)
  <2> SUFFICES ASSUME NEW u \in Ops(code) PROVE B[u] \subseteq R2 <=> u \in K \cup U
    BY DEF Known, B
  <2>1. CASE u \in A[o]
    <3>1. u \in U <=> count[u] = 1
      BY <1>0, <2>1
    <3> QED
      BY <1>2, <1>3, <2>1, <3>1
  <2>2. CASE u \notin A[o]
    BY <1>2, <1>3, <1>4, <2>2
  <2> QED
    BY <2>1, <2>2
<1>7. U \cap K = {}
  BY <1>2, <1>4
<1>8. Supplied(code, dir, U, R2)
  BY <1>4 DEF Supplied, B
<1> QED
  BY <1>4, <1>5, <1>6, <1>7, <1>8

(* The lists of a walk: visited, to be visited, and the bootstraps that    *)
(* wait for a batch.                                                       *)
Queues(code, visited, list, pbs) ==
  /\ Lists(visited, Range(visited)) /\ Lists(list, Range(list)) /\ Lists(pbs, Range(pbs))
  /\ Range(visited) \cap Range(list) = {}
  /\ Range(pbs) \cap (Range(visited) \cup Range(list)) = {}
  /\ Range(visited) \subseteq Ops(code) /\ Range(list) \subseteq Ops(code)
  /\ \A o \in Range(pbs) : o \in Ops(code) /\ code[o].kind = "pbs"

(* What a walk keeps: its counts, its queues, and the plan of what it has  *)
(* taken up.                                                               *)
WalkInv(code, dir, count, visited, list, pbs, bs) ==
  /\ IsSource(code)
  /\ Queues(code, visited, list, pbs)
  /\ WalkPlan(code, dir, visited \o list, bs)
  /\ Counted(code, dir, count, Range(visited))
  /\ Known(code, dir, Range(visited), (Range(visited) \cup Range(list)) \cup Range(pbs))

(* The start of a walk.                                                    *)
LEMMA WalkStarts ==
  ASSUME NEW code, IsSource(code), NEW dir, NEW count, Counted(code, dir, count, {})
  PROVE  WalkInv(code, dir, count, << >>, Free(count), << >>, << >>)
<1> DEFINE B == WaitsFor(code, dir)
           T == {o \in DOMAIN count : count[o] = 0}
<1>1. /\ \A u \in Ops(code) : IsFiniteSet(B[u])
      /\ \A u \in Ops(code) : code[u].kind = "pbs" => B[u] # {}
  BY Directions
<1>2. IsFiniteSet(Ops(code)) /\ \A u \in Ops(code) : u \in Nat
  BY SourceGraph
<1>3. DOMAIN count = Ops(code) /\ \A u \in Ops(code) : count[u] = Cardinality(B[u])
  BY DEF Counted
<1> HIDE DEF B
<1>4. \A u \in Ops(code) : u \in T <=> B[u] = {}
  BY <1>1, <1>3, FS_EmptySet
<1>5. T \subseteq Ops(code) /\ IsFiniteSet(T) /\ \A u \in T : u \in Nat
  BY <1>2, <1>3, FS_Subset
<1>6. Lists(Free(count), T)
  BY <1>5, AscendingOnce DEF Free
<1> DEFINE t == Free(count)
<1> HIDE DEF T, t
<1>7. Range(t) = T /\ t \in Seq(T) /\ Lists(t, T)
  BY <1>6, ListFacts DEF t, Lists
<1>8. Range(<< >>) = {} /\ Lists(<< >>, Range(<< >>)) /\ << >> \o t = t /\ DOMAIN << >> = {}
  <2>1. DOMAIN << >> = {}
    OBVIOUS
  <2>2. Range(<< >>) = {}
    BY <2>1 DEF Range
  <2>3. << >> \o t = t
    BY <1>7
  <2>4. Lists(<< >>, Range(<< >>))
    BY <2>2, EmptyList, Zenon
  <2> QED
    BY <2>1, <2>2, <2>3, <2>4
<1>9. WalkPlan(code, dir, << >>, << >>)
  <2>1. << >> \in Seq(Range(<< >>))
    OBVIOUS
  <2>2. BatchesOf(code, << >>, Range(<< >>))
    BY <1>8, <2>1 DEF BatchesOf
  <2>3. WalkOrder(code, dir, << >>)
    BY <1>8 DEF WalkOrder
  <2> QED
    BY <1>8, <2>2, <2>3 DEF WalkPlan
<1>10. \A o \in T : B[o] \subseteq Range(<< >>) /\ code[o].kind # "pbs"
  BY <1>1, <1>4, <1>5
<1>11. T \in SUBSET Ops(code) /\ T \cap Range(<< >>) = {}
  BY <1>5, <1>8
<1>12. WalkPlan(code, dir, << >> \o t, << >>)
  BY ONLY <1>7, <1>9, <1>10, <1>11, PlanGrows DEF B
<1>13. Queues(code, << >>, t, << >>)
  BY <1>5, <1>7, <1>8 DEF Queues
<1>14. Counted(code, dir, count, Range(<< >>))
  BY <1>8
<1>15. Known(code, dir, Range(<< >>), (Range(<< >>) \cup Range(t)) \cup Range(<< >>))
  BY <1>4, <1>7, <1>8 DEF Known, B
<1> QED
  BY <1>12, <1>13, <1>14, <1>15 DEF WalkInv, t

(* The first of a list moved to the end of another.                        *)
LEMMA MoveFirst ==
  ASSUME NEW s, NEW t, Lists(s, Range(s)), Lists(t, Range(t)), t # << >>, Range(s) \cap Range(t) = {}
  PROVE  /\ Head(t) \in Range(t) /\ Range(Append(s, Head(t))) = Range(s) \cup {Head(t)}
         /\ Range(Tail(t)) = Range(t) \ {Head(t)}
         /\ Lists(Append(s, Head(t)), Range(s) \cup {Head(t)}) /\ Lists(Tail(t), Range(t) \ {Head(t)})
         /\ Append(s, Head(t)) \o Tail(t) = s \o t
<1> DEFINE x == Head(t)
           S == Range(s)
           T == Range(t)
<1>1. /\ s \in Seq(S) /\ t \in Seq(T) /\ Len(t) \in Nat /\ Len(s) \in Nat /\ DOMAIN t = 1 .. Len(t)
      /\ DOMAIN s = 1 .. Len(s)
  BY DEF Lists
<1> HIDE DEF S, T
<1>2. Len(t) # 0
  BY <1>1
<1>3. x = t[1] /\ 1 \in DOMAIN t
  BY <1>1, <1>2
<1>4. x \in T
  BY <1>1, <1>3
<1>5. x \notin S
  BY <1>4 DEF S, T
<1>6. Lists(<<x>>, {x}) /\ Append(s, x) = s \o <<x>>
  BY <1>1, OneList
<1>7. Lists(s \o <<x>>, S \cup {x})
  <2>1. S \cap {x} = {} /\ Lists(s, S)
    BY <1>5 DEF S
  <2> QED
    BY ONLY <1>6, <2>1, ConcatOnce
<1>8. /\ Tail(t) \in Seq(T) /\ Len(Tail(t)) = Len(t) - 1 /\ DOMAIN Tail(t) = 1 .. Len(t) - 1
      /\ \A n \in 1 .. Len(t) - 1 : Tail(t)[n] = t[n + 1]
  BY <1>1, <1>2
<1>9. Lists(Tail(t), T \ {x})
  <2> DEFINE r == Tail(t)
             n1 == Len(t)
  <2>1. \A n, m \in 1 .. n1 : t[n] = t[m] => n = m
    BY <1>1 DEF Lists
  <2>2. \A y \in T : \E n \in 1 .. n1 : t[n] = y
    BY <1>1 DEF T, Range
  <2>9. n1 \in Nat /\ n1 - 1 \in Nat /\ \A n \in 1 .. n1 - 1 : n + 1 \in 1 .. n1
    BY <1>1, <1>2
  <2>10. DOMAIN r = 1 .. n1 - 1 /\ r = [n \in DOMAIN r |-> r[n]]
    <3>1. r \in Seq(T) /\ DOMAIN r = 1 .. n1 - 1 /\ Len(r) = n1 - 1
      BY <1>8
    <3> HIDE DEF r
    <3> QED
      BY <2>9, <3>1
  <2>3. /\ n1 \in Nat /\ r = [n \in 1 .. n1 - 1 |-> r[n]] /\ DOMAIN r = 1 .. n1 - 1
        /\ \A n \in 1 .. n1 - 1 : r[n] = t[n + 1] /\ n + 1 \in 1 .. n1
        /\ n1 - 1 \in Nat
    BY <1>8, <2>9, <2>10
  <2> HIDE DEF r, n1
  <2>4. \A n \in 1 .. n1 - 1 : r[n] \in T \ {x}
    <3> TAKE n \in 1 .. n1 - 1
    <3>1. n + 1 \in 1 .. n1 /\ r[n] = t[n + 1] /\ n + 1 # 1 /\ 1 \in 1 .. n1
      BY <2>3
    <3>2. t[n + 1] # t[1]
      BY <2>1, <3>1
    <3>3. t[n + 1] \in T
      BY <1>1, <3>1 DEF n1
    <3> QED
      BY <1>3, <3>1, <3>2, <3>3
  <2>5. r \in Seq(T \ {x})
    BY <2>3, <2>4
  <2>6. \A y \in T \ {x} : \E n \in 1 .. n1 - 1 : r[n] = y
    <3> TAKE y \in T \ {x}
    <3>1. PICK n \in 1 .. n1 : t[n] = y
      BY <2>2
    <3>2. n # 1
      BY <1>3, <3>1
    <3>3. n - 1 \in 1 .. n1 - 1 /\ (n - 1) + 1 = n
      BY <2>3, <3>2
    <3> QED
      BY <2>3, <3>1, <3>3
  <2>7. \A n, m \in 1 .. n1 - 1 : r[n] = r[m] => n = m
    <3> TAKE n, m \in 1 .. n1 - 1
    <3>1. t[n + 1] = t[m + 1] => n + 1 = m + 1
      BY <2>1, <2>3
    <3> QED
      BY <2>3, <3>1
  <2>8. Lists(r, T \ {x})
    BY <2>3, <2>5, <2>6, <2>7 DEF Lists
  <2> QED
    BY <2>8 DEF r
<1>10. Append(s, x) \o Tail(t) = s \o t
  <2>1. t \in Seq(T \cup S) /\ s \in Seq(S \cup T) /\ Tail(t) \in Seq(S \cup T) /\ x \in S \cup T
    BY <1>1, <1>4, <1>8
  <2>2. t = <<x>> \o Tail(t)
    BY <1>3, <1>8, <2>1
  <2>3. Append(s, x) \o Tail(t) = s \o (<<x>> \o Tail(t))
    BY <2>1
  <2> QED
    BY <2>2, <2>3
<1>11. Range(Append(s, x)) = S \cup {x} /\ Range(Tail(t)) = T \ {x}
  BY <1>6, <1>7, <1>9, ListFacts
<1> QED
  BY <1>4, <1>6, <1>7, <1>9, <1>10, <1>11 DEF S, T

(* A visit keeps it.                                                       *)
LEMMA VisitKeeps ==
  ASSUME NEW code, NEW dir, NEW count, NEW visited, NEW list, NEW pbs, NEW bs,
         WalkInv(code, dir, count, visited, list, pbs, bs), list # << >>,
         NEW count2, NEW U, CountsDown(code, dir, Head(list), count, count2, U)
  PROVE  WalkInv(code, dir, count2, Append(visited, Head(list)),
                 Tail(list) \o Ascending({u \in U : ~ (code[u].kind = "pbs")}),
                 pbs \o Ascending({u \in U : code[u].kind = "pbs"}), bs)
<1> DEFINE o == Head(list)
           T == {u \in U : ~ (code[u].kind = "pbs")}
           P == {u \in U : code[u].kind = "pbs"}
           t == Ascending(T)
           p == Ascending(P)
           R == Range(visited)
           R2 == R \cup {o}
           L == Range(list)
           Q == Range(pbs)
           vis2 == Append(visited, o)
           rest == Tail(list)
<1>1. /\ IsSource(code) /\ Queues(code, visited, list, pbs) /\ WalkPlan(code, dir, visited \o list, bs)
      /\ Counted(code, dir, count, R) /\ Known(code, dir, R, (R \cup L) \cup Q)
  BY DEF WalkInv
<1>2. /\ Lists(visited, R) /\ Lists(list, L) /\ Lists(pbs, Q) /\ R \cap L = {} /\ Q \cap (R \cup L) = {}
      /\ R \subseteq Ops(code) /\ L \subseteq Ops(code) /\ \A x \in Q : x \in Ops(code) /\ code[x].kind = "pbs"
  BY <1>1 DEF Queues
<1>3. /\ o \in L /\ Range(vis2) = R2 /\ Range(rest) = L \ {o}
      /\ Lists(vis2, R2) /\ Lists(rest, L \ {o}) /\ vis2 \o rest = visited \o list
  BY <1>2, MoveFirst
<1>4. o \in Ops(code) /\ o \notin R
  BY <1>2, <1>3
<1>5. /\ Counted(code, dir, count2, R2) /\ Known(code, dir, R2, ((R \cup L) \cup Q) \cup U)
      /\ U \cap ((R \cup L) \cup Q) = {} /\ U \subseteq Ops(code) /\ Supplied(code, dir, U, R2)
  <2> DEFINE K == (R \cup L) \cup Q
  <2>1. CountsDown(code, dir, o, count, count2, U)
    OBVIOUS
  <2>3. IsSource(code) /\ Counted(code, dir, count, R) /\ Known(code, dir, R, K)
    BY <1>1
  <2>4. R2 = R \cup {o}
    OBVIOUS
  <2> HIDE DEF K, R, R2, o
  <2>5. /\ Counted(code, dir, count2, R \cup {o}) /\ Known(code, dir, R \cup {o}, K \cup U)
        /\ U \cap K = {} /\ U \subseteq Ops(code) /\ Supplied(code, dir, U, R \cup {o})
    BY ONLY <1>4, <2>1, <2>3, CountStep
  <2> QED
    BY <2>4, <2>5 DEF K
<1>6. IsFiniteSet(Ops(code)) /\ \A u \in Ops(code) : u \in Nat
  BY <1>1, SourceGraph
<1>7. T \subseteq U /\ P \subseteq U /\ T \cup P = U /\ T \cap P = {}
  OBVIOUS
<1>8. Lists(t, T) /\ Lists(p, P)
  <2>1. IsFiniteSet(T) /\ IsFiniteSet(P) /\ (\A u \in T : u \in Nat) /\ \A u \in P : u \in Nat
    BY <1>5, <1>6, <1>7, FS_Subset
  <2> QED
    BY <2>1, AscendingOnce
<1>9. /\ \A u \in T : code[u].kind # "pbs"
      /\ \A u \in P : code[u].kind = "pbs"
  OBVIOUS
<1> HIDE DEF vis2, rest, t, p, T, P, o
<1>10. Range(t) = T /\ Range(p) = P
  BY <1>8, ListFacts
<1>11. Lists(rest \o t, (L \ {o}) \cup T) /\ Range(rest \o t) = (L \ {o}) \cup T
  <2>1. (L \ {o}) \cap T = {}
    BY <1>5, <1>7
  <2>2. Lists(rest \o t, (L \ {o}) \cup T)
    BY ONLY <1>3, <1>8, <2>1, ConcatOnce
  <2> QED
    BY <2>2, ListFacts
<1>12. Lists(pbs \o p, Q \cup P) /\ Range(pbs \o p) = Q \cup P
  <2>1. Q \cap P = {}
    BY <1>5, <1>7
  <2>2. Lists(pbs \o p, Q \cup P)
    BY ONLY <1>2, <1>8, <2>1, ConcatOnce
  <2> QED
    BY <2>2, ListFacts
<1>13. Queues(code, vis2, rest \o t, pbs \o p)
  <2>1. R2 \cap ((L \ {o}) \cup T) = {}
    BY <1>2, <1>3, <1>5, <1>7
  <2>2. (Q \cup P) \cap (R2 \cup ((L \ {o}) \cup T)) = {}
    BY <1>2, <1>3, <1>5, <1>7
  <2>3. R2 \subseteq Ops(code) /\ ((L \ {o}) \cup T) \subseteq Ops(code)
    BY <1>2, <1>4, <1>5, <1>7
  <2>4. \A x \in Q \cup P : x \in Ops(code) /\ code[x].kind = "pbs"
    BY <1>2, <1>5, <1>7, <1>9
  <2> HIDE DEF R, L, Q, R2
  <2> QED
    BY <1>3, <1>11, <1>12, <2>1, <2>2, <2>3, <2>4 DEF Queues
<1>14. WalkPlan(code, dir, vis2 \o (rest \o t), bs)
  <2> DEFINE st == visited \o list
  <2>1. Range(st) = R \cup L
    <3>1. Lists(st, R \cup L)
      BY ONLY <1>2, ConcatOnce
    <3> QED
      BY <3>1, ListFacts
  <2>2. vis2 \o (rest \o t) = st \o t
    <3>1. vis2 \in Seq(Ops(code)) /\ rest \in Seq(Ops(code)) /\ t \in Seq(Ops(code))
      <4>1. vis2 \in Seq(R2) /\ rest \in Seq(L \ {o}) /\ t \in Seq(T)
        BY <1>3, <1>8 DEF Lists
      <4>2. R2 \subseteq Ops(code) /\ (L \ {o}) \subseteq Ops(code) /\ T \subseteq Ops(code)
        BY <1>2, <1>4, <1>5, <1>7
      <4> HIDE DEF R2, L
      <4>3. vis2 \in Seq(Ops(code))
        BY <4>1, <4>2
      <4>4. rest \in Seq(Ops(code))
        BY <4>1, <4>2
      <4>5. t \in Seq(Ops(code))
        BY <4>1, <4>2
      <4> QED
        BY <4>3, <4>4, <4>5
    <3>2. vis2 \o (rest \o t) = (vis2 \o rest) \o t
      BY <3>1
    <3> QED
      BY <1>3, <3>2
  <2>3. WalkPlan(code, dir, st, bs)
    BY <1>1
  <2> HIDE DEF st
  <2>4. T \in SUBSET Ops(code) /\ T \cap Range(st) = {}
    BY <1>5, <1>7, <2>1
  <2>5. \A x \in T : WaitsFor(code, dir)[x] \subseteq Range(st) /\ code[x].kind # "pbs"
    <3>1. R2 \subseteq R \cup L
      BY <1>3
    <3>2. \A x \in T : WaitsFor(code, dir)[x] \subseteq R2
      BY <1>5, <1>7 DEF Supplied
    <3> HIDE DEF R2, R, L
    <3> QED
      BY <1>9, <2>1, <3>1, <3>2
  <2>6. WalkPlan(code, dir, st \o t, bs)
    BY ONLY <1>8, <2>3, <2>4, <2>5, PlanGrows
  <2> QED
    BY <2>2, <2>6
<1>15. Known(code, dir, R2, (R2 \cup ((L \ {o}) \cup T)) \cup (Q \cup P))
  <2>1. (R2 \cup ((L \ {o}) \cup T)) \cup (Q \cup P) = ((R \cup L) \cup Q) \cup U
    BY <1>3, <1>7
  <2> HIDE DEF R2, R, L, Q
  <2> QED
    BY <1>5, <2>1, Zenon
<1>16. WalkInv(code, dir, count2, vis2, rest \o t, pbs \o p, bs)
  BY ONLY <1>1, <1>3, <1>5, <1>11, <1>12, <1>13, <1>14, <1>15 DEF WalkInv
<1> QED
  BY <1>16 DEF vis2, rest, t, p, T, P, o

(* Everything is visited once nothing is left to visit.                    *)
LEMMA WalkCompletes ==
  ASSUME NEW code, NEW dir, NEW count, NEW visited, NEW bs,
         WalkInv(code, dir, count, visited, << >>, << >>, bs)
  PROVE  Range(visited) = Ops(code) /\ WalkPlan(code, dir, visited, bs)
<1> DEFINE n == Len(code)
           B == WaitsFor(code, dir)
           R == Range(visited)
<1>1. Range(<< >>) = {}
  <2>1. DOMAIN << >> = {}
    OBVIOUS
  <2> QED
    BY <2>1 DEF Range
<1>2. /\ IsSource(code) /\ Lists(visited, R) /\ R \subseteq Ops(code)
      /\ WalkPlan(code, dir, visited \o << >>, bs) /\ Known(code, dir, R, (R \cup {}) \cup {})
  BY <1>1 DEF WalkInv, Queues
<1>3. visited \o << >> = visited
  BY <1>2 DEF Lists
<1>4. PICK r : Graded(n, B, r)
  BY <1>2, Directions
<1>5. n \in Nat /\ Ops(code) = 1 .. n
  BY <1>2, SourceGraph
<1>6. \A o \in 1 .. n : r[o] \in 0 .. n /\ \A u \in B[o] : u \in 1 .. n /\ r[u] < r[o]
  BY <1>4 DEF Graded
<1> HIDE DEF R, B
<1>7. \A u \in 1 .. n : B[u] \subseteq R => u \in R
  BY <1>2, <1>5 DEF Known, B
<1> DEFINE Bad == {r[u] : u \in {v \in 1 .. n : v \notin R}}
<1>8. ASSUME NEW v \in 1 .. n, v \notin R PROVE FALSE
  <2>1. Bad \in SUBSET Nat /\ Bad # {}
    BY <1>5, <1>6, <1>8
  <2> HIDE DEF Bad
  <2>2. PICK m \in Bad : \A y \in Bad : m <= y
    BY <2>1, NatMin
  <2>3. PICK u \in 1 .. n : u \notin R /\ r[u] = m
    BY DEF Bad
  <2>4. \A q \in B[u] : q \in 1 .. n /\ r[q] < m /\ r[q] \in Nat /\ m \in Nat
    BY <1>5, <1>6, <2>3
  <2>5. \A q \in B[u] : q \in R
    <3> SUFFICES ASSUME NEW q \in B[u], q \notin R PROVE FALSE
      OBVIOUS
    <3>1. r[q] \in Bad
      BY <2>4 DEF Bad
    <3> QED
      BY <2>2, <2>4, <3>1
  <2> QED
    BY <1>7, <2>3, <2>5
<1> QED
  BY <1>2, <1>3, <1>5, <1>8 DEF R

-----------------------------------------------------------------------------
(* Closing a batch.                                                        *)

(* The first elements of a sequence.                                       *)
LEMMA FrontIs ==
  ASSUME NEW S, NEW s \in Seq(S), NEW k \in 0 .. Len(s), NEW f, f = SubSeq(s, 1, k)
  PROVE  f \in Seq(S) /\ Len(f) = k /\ DOMAIN f = 1 .. k /\ \A i \in 1 .. k : f[i] = s[i]
<1>1. k \in Nat /\ k <= Len(s) /\ Len(s) \in Nat
  OBVIOUS
<1>2. f \in Seq(S) /\ Len(f) = k
  BY <1>1
<1>3. DOMAIN f = 1 .. k
  BY <1>2
<1>4. ASSUME NEW i \in 1 .. k PROVE f[i] = s[i]
  BY <1>1
<1> QED
  BY <1>2, <1>3, <1>4

(* A list cut in two, the last k reversed.                                 *)
Cut(s, k, b, r) == b = SubSeq(Reverse(s), 1, k) /\ r = SubSeq(s, 1, Len(s) - k)

(* A list cut in two lists its elements once.                              *)
LEMMA SplitOnce ==
  ASSUME NEW S, NEW s, Lists(s, S), NEW k \in 0 .. Len(s),
         NEW b, NEW r, Cut(s, k, b, r)
  PROVE  /\ Lists(b, Range(b)) /\ Lists(r, Range(r)) /\ Len(b) = k
         /\ Range(b) \cup Range(r) = S /\ Range(b) \cap Range(r) = {}
<1> DEFINE n == Len(s)
           v == Reverse(s)
<1>1. s \in Seq(S) /\ n \in Nat /\ DOMAIN s = 1 .. n /\ k \in Nat /\ k <= n
  BY DEF Lists
<1>2. /\ \A i \in 1 .. n : s[i] \in S
      /\ \A i, j \in 1 .. n : s[i] = s[j] => i = j
      /\ \A x \in S : \E i \in 1 .. n : s[i] = x
  <2>1. \A i \in 1 .. n : s[i] \in S
    BY <1>1
  <2>2. \A i, j \in 1 .. n : s[i] = s[j] => i = j
    BY <1>1 DEF Lists
  <2>3. \A x \in S : \E i \in 1 .. n : s[i] = x
    BY <1>1 DEF Lists
  <2> QED
    BY <2>1, <2>2, <2>3
<1>3. v \in Seq(S) /\ Len(v) = n /\ \A i \in 1 .. n : v[i] = s[(n - i) + 1]
  BY <1>1 DEF Reverse
<1> HIDE DEF v
<1>4. /\ b \in Seq(S) /\ Len(b) = k /\ DOMAIN b = 1 .. k
      /\ \A i \in 1 .. k : b[i] = v[i]
  <2>1. v \in Seq(S) /\ k \in 0 .. Len(v) /\ b = SubSeq(v, 1, k)
    BY <1>1, <1>3 DEF v, Cut
  <2> QED
    BY ONLY <2>1, FrontIs
<1>5. /\ r \in Seq(S) /\ Len(r) = n - k /\ DOMAIN r = 1 .. n - k
      /\ \A i \in 1 .. n - k : r[i] = s[i]
  <2> DEFINE m == n - k
  <2>1. s \in Seq(S) /\ m \in 0 .. Len(s) /\ r = SubSeq(s, 1, m)
    BY <1>1 DEF Cut
  <2> HIDE DEF m
  <2>2. /\ r \in Seq(S) /\ Len(r) = m /\ DOMAIN r = 1 .. m
        /\ \A i \in 1 .. m : r[i] = s[i]
    BY ONLY <2>1, FrontIs
  <2> QED
    BY <2>2 DEF m
<1> HIDE DEF n
<1>6. \A i \in 1 .. k : (n - i) + 1 \in 1 .. n /\ (n - i) + 1 > n - k /\ b[i] = s[(n - i) + 1]
  BY <1>1, <1>3, <1>4
<1>7. \A i \in 1 .. n - k : i \in 1 .. n /\ i <= n - k
  BY <1>1
<1>8. Lists(b, Range(b))
  <2>1. b \in Seq(Range(b))
    <3>1. b = [i \in 1 .. k |-> b[i]] /\ \A i \in 1 .. k : b[i] \in Range(b)
      BY <1>4 DEF Range
    <3> QED
      BY <1>1, <3>1
  <2>2. \A i, j \in 1 .. k : b[i] = b[j] => i = j
    BY <1>1, <1>2, <1>6
  <2> QED
    BY <1>4, <2>1, <2>2 DEF Lists, Range
<1>9. Lists(r, Range(r))
  <2>1. r \in Seq(Range(r))
    <3>1. r = [i \in 1 .. n - k |-> r[i]] /\ \A i \in 1 .. n - k : r[i] \in Range(r)
      BY <1>5 DEF Range
    <3> DEFINE m == n - k
    <3>2. m \in Nat
      BY <1>1
    <3>3. r = [i \in 1 .. m |-> r[i]] /\ \A i \in 1 .. m : r[i] \in Range(r)
      BY <3>1
    <3> HIDE DEF m
    <3> QED
      BY <3>2, <3>3
  <2>2. \A i, j \in 1 .. n - k : r[i] = r[j] => i = j
    BY <1>2, <1>5, <1>7
  <2> QED
    BY <1>5, <2>1, <2>2 DEF Lists, Range
<1>10. Range(b) \cap Range(r) = {}
  <2> SUFFICES ASSUME NEW i \in 1 .. k, NEW j \in 1 .. n - k, b[i] = r[j] PROVE FALSE
    BY <1>4, <1>5 DEF Range
  <2>1. s[(n - i) + 1] = s[j]
    BY <1>5, <1>6
  <2>2. (n - i) + 1 = j
    BY <1>2, <1>6, <1>7, <2>1
  <2> QED
    BY <1>1, <1>6, <1>7, <2>2
<1>11. Range(b) \cup Range(r) \subseteq S
  BY <1>2, <1>4, <1>5, <1>6, <1>7 DEF Range
<1>12. ASSUME NEW x \in S PROVE x \in Range(b) \cup Range(r)
  <2>1. PICK i \in 1 .. n : s[i] = x
    BY <1>2
  <2>2. CASE i <= n - k
    <3>1. i \in 1 .. n - k
      BY <1>1, <2>2
    <3>2. r[i] = x
      BY <1>5, <2>1, <3>1
    <3> QED
      BY <1>5, <3>1, <3>2 DEF Range
  <2>3. CASE ~ (i <= n - k)
    <3>1. (n - i) + 1 \in 1 .. k /\ (n - ((n - i) + 1)) + 1 = i
      BY <1>1, <2>3
    <3>2. b[(n - i) + 1] = x
      BY <1>6, <2>1, <3>1
    <3> QED
      BY <1>4, <3>1, <3>2 DEF Range
  <2> QED
    BY <2>2, <2>3
<1>13. Range(b) \cup Range(r) = S
  BY <1>11, <1>12
<1> QED
  BY <1>4, <1>8, <1>9, <1>10, <1>13

(* Closing a batch keeps it: a batch closed short takes everything ready,  *)
(* and what remains waits for it.                                          *)
LEMMA BatchKeeps ==
  ASSUME NEW code, NEW dir, NEW count, NEW visited, NEW pbs, NEW bs,
         WalkInv(code, dir, count, visited, << >>, pbs, bs), pbs # << >>,
         NEW sorted, Lists(sorted, Range(pbs)),
         NEW size, size = Min({BatchSize, Len(pbs)}),
         NEW b, NEW rest, Cut(sorted, size, b, rest)
  PROVE  WalkInv(code, dir, count, visited, b, rest, Append(bs, b))
<1> DEFINE R == Range(visited)
           Q == Range(pbs)
           T == Range(b)
           P == Range(rest)
<1>1. DOMAIN << >> = {} /\ Range(<< >>) = {}
  <2>1. DOMAIN << >> = {}
    OBVIOUS
  <2> QED
    BY <2>1 DEF Range
<1>2. /\ IsSource(code) /\ Lists(visited, R) /\ Lists(pbs, Q) /\ Q \cap R = {} /\ R \subseteq Ops(code)
      /\ \A o \in Q : o \in Ops(code) /\ code[o].kind = "pbs"
      /\ WalkPlan(code, dir, visited \o << >>, bs) /\ Counted(code, dir, count, R)
      /\ Known(code, dir, R, (R \cup {}) \cup Q)
  BY <1>1 DEF WalkInv, Queues
<1>3. visited \o << >> = visited
  BY <1>2 DEF Lists
<1>4. Len(pbs) \in Nat \ {0} /\ Len(sorted) = Len(pbs)
  <2>1. pbs \in Seq(Q)
    BY <1>2 DEF Lists
  <2>2. Len(pbs) \in Nat \ {0}
    BY <2>1
  <2>3. Len(sorted) = Len(pbs)
    BY <1>2, ListLength
  <2> QED
    BY <2>2, <2>3
<1>5. /\ size \in {BatchSize, Len(pbs)} /\ size <= BatchSize /\ size <= Len(pbs) /\ size \in Nat \ {0}
  <2> DEFINE N == Len(pbs)
  <2> HIDE DEF N
  <2>1. BatchSize \in Nat \ {0} /\ N \in Nat \ {0}
    BY <1>4, BatchSizeAssumption DEF N
  <2>2. size = CHOOSE x \in {BatchSize, N} : \A y \in {BatchSize, N} : x <= y
    BY DEF Min, N
  <2>3. \E x \in {BatchSize, N} : \A y \in {BatchSize, N} : x <= y
    BY <2>1
  <2>4. size \in {BatchSize, N} /\ \A y \in {BatchSize, N} : size <= y
    BY <2>2, <2>3
  <2> QED
    BY <2>1, <2>4 DEF N
<1>6. size \in 0 .. Len(sorted)
  BY <1>4, <1>5
<1>7. /\ Lists(b, T) /\ Lists(rest, P) /\ Len(b) = size /\ T \cup P = Q /\ T \cap P = {}
  <2> HIDE DEF Q
  <2>1. Lists(sorted, Q) /\ Cut(sorted, size, b, rest)
    BY DEF Q
  <2> HIDE DEF T, P
  <2>2. /\ Lists(b, Range(b)) /\ Lists(rest, Range(rest)) /\ Len(b) = size
        /\ Range(b) \cup Range(rest) = Q /\ Range(b) \cap Range(rest) = {}
    BY ONLY <1>6, <2>1, SplitOnce
  <2> QED
    BY <2>2 DEF T, P
<1> HIDE DEF R, Q, T, P
<1>8. T \in SUBSET Ops(code) /\ T \cap R = {} /\ Len(b) \in 1 .. BatchSize
  BY <1>2, <1>5, <1>7, BatchSizeAssumption
<1>9. \A o \in T : WaitsFor(code, dir)[o] \subseteq R /\ code[o].kind = "pbs"
  BY <1>2, <1>7 DEF Known
<1>10. ASSUME Len(b) < BatchSize
       PROVE  \A u \in Ops(code) : u \in R \cup T \/ \E p \in T : Needs(code, dir, u, p)
  <2>1. P = {}
    <3>1. size = Len(pbs)
      BY <1>5, <1>7, <1>10, BatchSizeAssumption
    <3>2. IsFiniteSet(T) /\ Cardinality(T) = Len(pbs) /\ IsFiniteSet(Q) /\ Cardinality(Q) = Len(pbs)
      BY <1>2, <1>7, <3>1, ListLength
    <3>3. T \subseteq Q
      BY <1>7
    <3>4. T = Q
      BY <3>2, <3>3, FS_Subset
    <3> QED
      BY <1>7, <3>4
  <2>2. \A u \in Ops(code) : u \in R \/ u \in T \/ ~ (WaitsFor(code, dir)[u] \subseteq R)
    BY <1>2, <1>7, <2>1 DEF Known
  <2>3. IsSource(code) /\ T \in SUBSET Ops(code)
    BY <1>2, <1>8
  <2>4. \A u \in Ops(code) : u \in R \/ u \in T \/ \E p \in T : Needs(code, dir, u, p)
    BY ONLY <2>2, <2>3, LeftIsBlocked
  <2> QED
    BY <2>4
<1>11. WalkPlan(code, dir, visited, bs) /\ R = Range(visited)
  BY <1>2, <1>3 DEF R
<1>12. WalkPlan(code, dir, visited \o b, Append(bs, b))
  BY <1>7, <1>8, <1>9, <1>10, <1>11, PlanBatch
<1>13. Queues(code, visited, b, rest)
  <2>1. R \cap T = {} /\ P \cap (R \cup T) = {} /\ R \subseteq Ops(code) /\ T \subseteq Ops(code)
    BY <1>2, <1>7
  <2>2. \A o \in P : o \in Ops(code) /\ code[o].kind = "pbs"
    BY <1>2, <1>7
  <2> QED
    BY <1>2, <1>7, <2>1, <2>2 DEF Queues, R, T, P
<1>14. Known(code, dir, R, (R \cup T) \cup P)
  <2>1. (R \cup T) \cup P = (R \cup {}) \cup Q
    BY <1>7
  <2> QED
    BY <1>2, <2>1, Zenon
<1> QED
  BY <1>2, <1>12, <1>13, <1>14 DEF WalkInv, R, T, P

-----------------------------------------------------------------------------
(* What a finished walk has made.                                          *)

(* What a finished walk leaves.                                            *)
WalkDone(code, dir, seq, bs) == Range(seq) = Ops(code) /\ WalkPlan(code, dir, seq, bs)

(* No member of a batch needs another.                                     *)
LEMMA MembersApart ==
  ASSUME NEW code, IsSource(code), NEW dir, NEW seq, NEW bs, WalkPlan(code, dir, seq, bs), NEW k \in DOMAIN bs
  PROVE  /\ Len(bs[k]) \in 1 .. BatchSize /\ Lists(bs[k], Range(bs[k])) /\ Range(bs[k]) \subseteq Ops(code)
         /\ \A o, p \in Range(bs[k]) : o \notin Ancestors(code)[p]
<1> DEFINE b == bs[k]
           B == Range(b)
<1>1. PICK s : Together(code, dir, seq, bs, k, s)
  BY DEF WalkPlan
<1>2. /\ Lists(b, B) /\ Len(b) \in 1 .. BatchSize /\ \A o \in B : o \in Range(seq)
      /\ Lists(seq, Range(seq)) /\ Range(seq) \subseteq Ops(code)
      /\ \A n \in DOMAIN seq : WaitsFor(code, dir)[seq[n]] \subseteq Prefix(seq, n - 1)
  BY DEF WalkPlan, WalkOrder, BatchesOf
<1>3. /\ DOMAIN seq = 1 .. Len(seq) /\ Len(seq) \in Nat /\ DOMAIN b = 1 .. Len(b) /\ Len(b) \in Nat
      /\ \A n, m \in 1 .. Len(seq) : seq[n] = seq[m] => n = m
      /\ \A n \in 1 .. Len(seq) : seq[n] \in Ops(code)
  <2>1. DOMAIN seq = 1 .. Len(seq) /\ Len(seq) \in Nat /\ DOMAIN b = 1 .. Len(b) /\ Len(b) \in Nat
    BY <1>2, ListFacts
  <2>2. \A n, m \in 1 .. Len(seq) : seq[n] = seq[m] => n = m
    BY <1>2, <2>1 DEF Lists
  <2>3. \A n \in 1 .. Len(seq) : seq[n] \in Ops(code)
    BY <1>2, <2>1 DEF Range
  <2> QED
    BY <2>1, <2>2, <2>3
<1>4. /\ s \in Nat /\ s + Len(b) <= Len(seq) /\ \A j \in 1 .. Len(b) : seq[s + j] = b[j]
      /\ \A o \in B : WaitsFor(code, dir)[o] \subseteq Prefix(seq, s)
  BY <1>1 DEF Together
<1>5. B \subseteq Ops(code)
  BY <1>2
<1>6. \A o \in B : \E j \in 1 .. Len(b) : o = seq[s + j] /\ s + j \in 1 .. Len(seq)
  BY <1>3, <1>4 DEF Range
<1>7. \A o \in B : o \notin Prefix(seq, s)
  BY <1>3, <1>4, <1>6 DEF Prefix
<1>8. \A m \in 1 .. s : m \in DOMAIN seq /\ Prefix(seq, m - 1) \subseteq Prefix(seq, s)
  BY <1>3, <1>4 DEF Prefix
<1>9. \A x \in Prefix(seq, s) : WaitsFor(code, dir)[x] \subseteq Prefix(seq, s)
  BY <1>2, <1>8 DEF Prefix
<1>10. Prefix(seq, s) \subseteq Ops(code)
  BY <1>3, <1>8 DEF Prefix
<1> DEFINE Y == Prefix(seq, s)
<1> HIDE DEF B, Y
<1>11. CASE dir = "forward"
  <2>1. \A x \in Ops(code) : WaitsFor(code, dir)[x] = Preds(code, x)
    BY <1>11 DEF WaitsFor, PredsOf
  <2>2. \A x \in B \cup Y : Preds(code, x) \subseteq B \cup Y /\ Preds(code, x) \subseteq Y
    BY <1>4, <1>5, <1>9, <1>10, <2>1 DEF Y
  <2>3. B \cup Y \in SUBSET Ops(code)
    BY <1>5, <1>10 DEF Y
  <2> DEFINE X == B \cup Y
  <2> HIDE DEF X
  <2>4. X \in SUBSET Ops(code) /\ \A x \in X : Preds(code, x) \subseteq X /\ Preds(code, x) \subseteq Y
    BY <2>2, <2>3 DEF X
  <2>5. \A x \in X : Ancestors(code)[x] \subseteq Y
    BY ONLY <2>4, AncestorsWithin, IsSource(code)
  <2> QED
    BY <1>2, <1>5, <1>7, <2>5 DEF X, Y, B
<1>12. CASE dir # "forward"
  <2>1. \A x \in Ops(code) : WaitsFor(code, dir)[x] = Users(code, x)
    BY <1>12 DEF WaitsFor, UsersOf
  <2>2. \A x \in Ops(code) : Preds(code, x) \subseteq Ops(code)
    BY SourceGraph
  <2> DEFINE X == Ops(code) \ Y
             Z == X \ B
  <2>3. \A x \in X : \A q \in Preds(code, x) : q \in Ops(code) /\ x \in Users(code, q)
    BY <2>2 DEF Users
  <2>4. \A x \in X : \A q \in Preds(code, x) : q \notin Y /\ q \notin B
    BY <1>4, <1>5, <1>9, <2>1, <2>3 DEF Y
  <2>5. X \in SUBSET Ops(code) /\ \A x \in X : Preds(code, x) \subseteq X /\ Preds(code, x) \subseteq Z
    BY <2>3, <2>4
  <2>6. B \subseteq X
    BY <1>5, <1>7 DEF Y
  <2>7. \A x \in B : x \notin Z
    OBVIOUS
  <2> HIDE DEF X, Z
  <2>8. \A x \in X : Ancestors(code)[x] \subseteq Z
    BY ONLY <2>5, AncestorsWithin, IsSource(code)
  <2> QED
    BY <1>2, <1>5, <2>6, <2>7, <2>8 DEF B
<1> QED
  BY <1>11, <1>12

(* The batches of a walk, in words of the properties.                      *)
LEMMA PlanRunnable ==
  ASSUME IsSource(source), NEW dir, NEW seq, WalkPlan(source, dir, seq, batches)
  PROVE  BatchesRunnable
<1> SUFFICES ASSUME NEW k \in DOMAIN batches
             PROVE  /\ Len(batches[k]) \in 1 .. BatchSize /\ IsInjective(batches[k])
                    /\ \A o, p \in Members(batches[k]) : o \notin Ancestors(source)[p]
  BY DEF BatchesRunnable, Range
<1> DEFINE b == batches[k]
<1>1. /\ Len(b) \in 1 .. BatchSize /\ Lists(b, Range(b))
      /\ \A o, p \in Range(b) : o \notin Ancestors(source)[p]
  BY MembersApart
<1>2. Members(b) = Range(b)
  BY DEF Members, Range
<1>3. IsInjective(b)
  BY <1>1 DEF IsInjective, Lists
<1> QED
  BY <1>1, <1>2, <1>3

(* A batch of the plan is short only if the next one waits for it.         *)
LEMMA ShortBlocked ==
  ASSUME IsSource(source), NEW seq, WalkPlan(source, walk, seq, batches)
  PROVE  ShortOnlyIfBlocked
<1> SUFFICES ASSUME NEW n \in 1 .. Len(batches) - 1, Len(batches[n]) < BatchSize,
                    NEW o \in Members(batches[n + 1])
             PROVE  \E p \in Members(batches[n]) :
                      IF walk = "forward" THEN p \in Ancestors(source)[o] ELSE o \in Ancestors(source)[p]
  BY DEF ShortOnlyIfBlocked
<1>1. DOMAIN batches = 1 .. Len(batches) /\ Len(batches) \in Nat
  BY DEF WalkPlan, BatchesOf
<1>2. n \in DOMAIN batches /\ n + 1 \in DOMAIN batches /\ n < n + 1
  BY <1>1
<1>3. PICK s : Together(source, walk, seq, batches, n, s)
  BY <1>2 DEF WalkPlan
<1>4. /\ \A c \in DOMAIN batches : n < c =>
           \A u \in Range(batches[c]) : u \notin Prefix(seq, s + Len(batches[n]))
      /\ \A u \in Ops(source) : u \in Prefix(seq, s + Len(batches[n]))
           \/ \E p \in Range(batches[n]) : Needs(source, walk, u, p)
  BY <1>3 DEF Together
<1>5. \A k \in DOMAIN batches : Members(batches[k]) = Range(batches[k])
  BY DEF Members, Range
<1>6. o \in Range(batches[n + 1]) /\ o \notin Prefix(seq, s + Len(batches[n]))
  BY <1>2, <1>4, <1>5
<1>7. o \in Ops(source)
  BY <1>2, <1>6, MembersApart
<1>8. PICK p \in Range(batches[n]) : Needs(source, walk, o, p)
  BY <1>4, <1>6, <1>7
<1> QED
  BY <1>2, <1>5, <1>8 DEF Needs

-----------------------------------------------------------------------------
(* The order of the translation.                                           *)

(* An order to translate in: an operation after what it reads, and where   *)
(* the first member of a batch is, after what any of its members reads.    *)
TransPlan(code, seq, bs) ==
  /\ Lists(seq, Ops(code)) /\ BatchesOf(code, bs, Ops(code))
  /\ \A n \in DOMAIN seq : code[seq[n]].kind # "pbs" => Preds(code, seq[n]) \subseteq Prefix(seq, n - 1)
  /\ \A k \in DOMAIN bs : \E s \in Nat :
       /\ s + 1 \in DOMAIN seq /\ seq[s + 1] \in Range(bs[k])
       /\ \A o \in Range(bs[k]) : o \notin Prefix(seq, s) /\ Preds(code, o) \subseteq Prefix(seq, s)

(* Where a batch is in the order of a walk.                                *)
PlacedAt(code, dir, seq, b, s) ==
  /\ s + Len(b) <= Len(seq) /\ Len(b) \in Nat \ {0}
  /\ \A j \in 1 .. Len(b) : seq[s + j] \in Range(b)
  /\ \A o \in Range(b) : \E j \in 1 .. Len(b) : o = seq[s + j]
  /\ \A o \in Range(b) : WaitsFor(code, dir)[o] \subseteq Prefix(seq, s) /\ o \notin Prefix(seq, s)

(* A batch is in the order after everything it waits for.                  *)
LEMMA BatchPlace ==
  ASSUME NEW code, IsSource(code), NEW dir, NEW seq, NEW bs, WalkDone(code, dir, seq, bs), NEW k \in DOMAIN bs
  PROVE  /\ Lists(seq, Ops(code)) /\ DOMAIN seq = 1 .. Len(seq) /\ Len(seq) \in Nat
         /\ \E s \in Nat : PlacedAt(code, dir, seq, bs[k], s)
<1> DEFINE b == bs[k]
<1>1. Lists(seq, Ops(code)) /\ DOMAIN seq = 1 .. Len(seq) /\ Len(seq) \in Nat
  BY ListFacts DEF WalkDone, WalkPlan, WalkOrder
<1>2. PICK s : Together(code, dir, seq, bs, k, s)
  BY DEF WalkDone, WalkPlan
<1>3. Lists(b, Range(b)) /\ Len(b) \in 1 .. BatchSize
  BY DEF WalkDone, WalkPlan, BatchesOf
<1>4. DOMAIN b = 1 .. Len(b) /\ Len(b) \in Nat \ {0}
  BY <1>3, ListFacts, BatchSizeAssumption
<1>5. /\ s \in Nat /\ s + Len(b) <= Len(seq) /\ \A j \in 1 .. Len(b) : seq[s + j] = b[j]
      /\ \A o \in Range(b) : WaitsFor(code, dir)[o] \subseteq Prefix(seq, s)
  BY <1>2 DEF Together
<1> HIDE DEF b
<1>6. \A j \in 1 .. Len(b) : seq[s + j] \in Range(b)
  BY <1>4, <1>5 DEF Range
<1>7. \A o \in Range(b) : \E j \in 1 .. Len(b) : o = seq[s + j]
  BY <1>4, <1>5 DEF Range
<1>8. \A o \in Range(b) : o \notin Prefix(seq, s)
  <2> SUFFICES ASSUME NEW j \in 1 .. Len(b), NEW m \in 1 .. s, seq[s + j] = seq[m] PROVE FALSE
    BY <1>7 DEF Prefix
  <2>1. s + j \in DOMAIN seq /\ m \in DOMAIN seq /\ s + j # m
    BY <1>1, <1>4, <1>5
  <2> QED
    BY <1>1, <2>1 DEF Lists
<1> QED
  BY <1>1, <1>4, <1>5, <1>6, <1>7, <1>8 DEF b, PlacedAt

(* The order of the forward walk is one to translate in.                   *)
LEMMA ForwardPlan ==
  ASSUME NEW code, IsSource(code), NEW seq, NEW bs, WalkDone(code, "forward", seq, bs)
  PROVE  TransPlan(code, seq, bs)
<1>1. Lists(seq, Ops(code)) /\ DOMAIN seq = 1 .. Len(seq) /\ Len(seq) \in Nat /\ BatchesOf(code, bs, Ops(code))
  BY ListFacts DEF WalkDone, WalkPlan, WalkOrder
<1>2. \A o \in Ops(code) : WaitsFor(code, "forward")[o] = Preds(code, o)
  BY DEF WaitsFor, PredsOf
<1>3. \A n \in DOMAIN seq : seq[n] \in Ops(code) /\ WaitsFor(code, "forward")[seq[n]] \subseteq Prefix(seq, n - 1)
  BY <1>1, ListFacts DEF WalkDone, WalkPlan, WalkOrder
<1>4. ASSUME NEW k \in DOMAIN bs
      PROVE  \E s \in Nat :
               /\ s + 1 \in DOMAIN seq /\ seq[s + 1] \in Range(bs[k])
               /\ \A o \in Range(bs[k]) : o \notin Prefix(seq, s) /\ Preds(code, o) \subseteq Prefix(seq, s)
  <2>1. PICK s \in Nat :
           /\ s + Len(bs[k]) <= Len(seq) /\ Len(bs[k]) \in Nat \ {0}
           /\ \A j \in 1 .. Len(bs[k]) : seq[s + j] \in Range(bs[k])
           /\ \A o \in Range(bs[k]) : WaitsFor(code, "forward")[o] \subseteq Prefix(seq, s) /\ o \notin Prefix(seq, s)
    <3>1. \E s \in Nat : PlacedAt(code, "forward", seq, bs[k], s)
      BY BatchPlace
    <3> QED
      BY <3>1 DEF PlacedAt
  <2>2. 1 \in 1 .. Len(bs[k]) /\ s + 1 \in DOMAIN seq
    BY <1>1, <2>1
  <2>3. \A o \in Range(bs[k]) : o \in Ops(code)
    BY <1>1 DEF BatchesOf
  <2>4. \A o \in Range(bs[k]) : o \notin Prefix(seq, s) /\ Preds(code, o) \subseteq Prefix(seq, s)
    BY <1>2, <2>1, <2>3
  <2>5. seq[s + 1] \in Range(bs[k])
    BY <2>1, <2>2
  <2> QED
    BY <2>2, <2>4, <2>5
<1> QED
  BY <1>1, <1>2, <1>3, <1>4 DEF TransPlan

(* The first operations of a reversed order.                               *)
Mirrored(seq, rev, S, i) == Prefix(rev, i) = S \ Prefix(seq, Len(seq) - i)

(* They are those that are not among the last of the order.                *)
LEMMA ReversedPrefix ==
  ASSUME NEW S, NEW seq, Lists(seq, S), NEW i \in 0 .. Len(seq)
  PROVE  /\ Mirrored(seq, Reverse(seq), S, i)
         /\ Lists(Reverse(seq), S) /\ Len(Reverse(seq)) = Len(seq)
         /\ \A n \in 1 .. Len(seq) : Reverse(seq)[n] = seq[(Len(seq) - n) + 1]
<1> DEFINE N == Len(seq)
           rev == Reverse(seq)
<1>1. /\ DOMAIN seq = 1 .. N /\ N \in Nat /\ \A n \in 1 .. N : seq[n] \in S
  BY ListFacts
<1>2. \A n, m \in 1 .. N : seq[n] = seq[m] => n = m
  BY <1>1 DEF Lists
<1>3. \A x \in S : \E n \in 1 .. N : seq[n] = x
  BY <1>1 DEF Lists
<1>4. rev = [n \in 1 .. N |-> seq[(N - n) + 1]]
  BY DEF Reverse
<1>5. Lists(rev, S)
  BY ReverseOnce
<1>6. Len(rev) = N
  BY <1>1, <1>4
<1> HIDE DEF rev, N
<1>7. \A n \in 1 .. N : rev[n] = seq[(N - n) + 1]
  BY <1>4
<1>8. i \in 0 .. N
  BY DEF N
<1>9. ASSUME NEW x \in Prefix(rev, i) PROVE x \in S \ Prefix(seq, N - i)
  <2>1. PICK n \in 1 .. i : x = rev[n]
    BY DEF Prefix
  <2>2. n \in 1 .. N /\ (N - n) + 1 \in 1 .. N /\ (N - n) + 1 > N - i /\ 1 .. N - i \subseteq 1 .. N
    BY <1>1, <1>8
  <2>3. x = seq[(N - n) + 1] /\ x \in S
    BY <1>1, <1>7, <2>1, <2>2
  <2>4. ASSUME NEW m \in 1 .. N - i, x = seq[m] PROVE FALSE
    <3>1. m = (N - n) + 1
      BY <1>2, <2>2, <2>3, <2>4
    <3> QED
      BY <1>1, <1>8, <2>2, <3>1
  <2> QED
    BY <2>3, <2>4 DEF Prefix
<1>10. ASSUME NEW x \in S \ Prefix(seq, N - i) PROVE x \in Prefix(rev, i)
  <2>1. PICK m \in 1 .. N : seq[m] = x
    BY <1>3
  <2>2. m > N - i
    BY <1>1, <1>8, <2>1 DEF Prefix
  <2> DEFINE n == (N - m) + 1
  <2>3. n \in 1 .. i /\ n \in 1 .. N /\ (N - n) + 1 = m
    BY <1>1, <1>8, <2>2
  <2> HIDE DEF n
  <2> QED
    BY <1>7, <2>1, <2>3 DEF Prefix
<1> QED
  BY <1>5, <1>6, <1>7, <1>9, <1>10 DEF rev, N, Mirrored

(* The order of the backward walk, reversed, is one to translate in.       *)
LEMMA BackwardPlan ==
  ASSUME NEW code, IsSource(code), NEW dir, dir # "forward", NEW seq, NEW bs, WalkDone(code, dir, seq, bs)
  PROVE  TransPlan(code, Reverse(seq), bs)
<1> DEFINE rev == Reverse(seq)
           N == Len(seq)
<1>1. Lists(seq, Ops(code)) /\ DOMAIN seq = 1 .. N /\ N \in Nat /\ BatchesOf(code, bs, Ops(code))
  BY ListFacts DEF WalkDone, WalkPlan, WalkOrder
<1>2. \A o \in Ops(code) : WaitsFor(code, dir)[o] = Users(code, o)
  BY DEF WaitsFor, UsersOf
<1>3. \A n \in 1 .. N : seq[n] \in Ops(code) /\ Users(code, seq[n]) \subseteq Prefix(seq, n - 1)
  BY <1>1, <1>2, ListFacts DEF WalkDone, WalkPlan, WalkOrder
<1>4. \A n, m \in 1 .. N : seq[n] = seq[m] => n = m
  BY <1>1 DEF Lists
<1>5. \A i \in 0 .. N : Prefix(rev, i) = Ops(code) \ Prefix(seq, N - i)
  <2> TAKE i \in 0 .. N
  <2>1. Lists(seq, Ops(code)) /\ i \in 0 .. Len(seq)
    BY <1>1
  <2> HIDE DEF rev, N
  <2> DEFINE S == Ops(code)
  <2> HIDE DEF S
  <2>2. Lists(seq, S) /\ Len(seq) \in Nat /\ i \in 0 .. Len(seq)
    BY <1>1, <2>1 DEF S, N
  <2>3. Mirrored(seq, Reverse(seq), S, i)
    BY ONLY <2>2, ReversedPrefix
  <2> QED
    BY <2>3 DEF rev, N, S, Mirrored
<1>6. /\ Lists(rev, Ops(code)) /\ Len(rev) = N
      /\ \A n \in 1 .. N : rev[n] = seq[(N - n) + 1]
  <2>1. 0 \in 0 .. N
    BY <1>1
  <2> QED
    BY <1>1, <2>1, ReversedPrefix
<1>7. \A x \in Ops(code) : \A q \in Preds(code, x) : q \in Ops(code) /\ x \in Users(code, q)
  BY SourceGraph DEF Users
<1> HIDE DEF rev, N
<1>8. DOMAIN rev = 1 .. N
  BY <1>6, ListFacts
<1>9. ASSUME NEW n \in 1 .. N, NEW q \in Preds(code, rev[n]) PROVE q \in Prefix(rev, n - 1)
  <2> DEFINE j == (N - n) + 1
  <2>1. j \in 1 .. N /\ n - 1 \in 0 .. N /\ N - (n - 1) = j
    BY <1>1
  <2>2. rev[n] = seq[j] /\ seq[j] \in Ops(code)
    BY <1>3, <1>6, <2>1
  <2> HIDE DEF j
  <2>3. q \in Ops(code) /\ seq[j] \in Users(code, q)
    BY <1>7, <1>9, <2>2
  <2>4. ASSUME NEW m \in 1 .. j, seq[m] = q PROVE FALSE
    <3>1. m \in 1 .. N
      BY <1>1, <2>1
    <3>2. seq[j] \in Prefix(seq, m - 1)
      BY <1>3, <2>3, <2>4, <3>1
    <3>3. PICK i \in 1 .. m - 1 : seq[i] = seq[j]
      BY <3>2 DEF Prefix
    <3>4. i \in 1 .. N /\ i # j
      BY <1>1, <2>1, <3>1, <3>3
    <3> QED
      BY <1>4, <2>1, <3>3, <3>4
  <2>5. q \notin Prefix(seq, j)
    BY <2>4 DEF Prefix
  <2> QED
    BY <1>5, <2>1, <2>3, <2>5
<1>10. ASSUME NEW k \in DOMAIN bs
       PROVE  \E s \in Nat :
                /\ s + 1 \in DOMAIN rev /\ rev[s + 1] \in Range(bs[k])
                /\ \A o \in Range(bs[k]) : o \notin Prefix(rev, s) /\ Preds(code, o) \subseteq Prefix(rev, s)
  <2> DEFINE b == bs[k]
             L == Len(b)
  <2>1. PICK s \in Nat :
           /\ s + L <= N /\ L \in Nat \ {0}
           /\ \A j \in 1 .. L : seq[s + j] \in Range(b)
           /\ \A o \in Range(b) : \E j \in 1 .. L : o = seq[s + j]
           /\ \A o \in Range(b) : WaitsFor(code, dir)[o] \subseteq Prefix(seq, s) /\ o \notin Prefix(seq, s)
    <3>1. \E s \in Nat : PlacedAt(code, dir, seq, b, s)
      BY BatchPlace
    <3> QED
      BY <3>1 DEF PlacedAt, N
  <2>2. \A o \in Range(b) : o \in Ops(code)
    BY <1>1 DEF BatchesOf
  <2> HIDE DEF b, L
  <2> DEFINE z == N - (s + L)
  <2>3. z \in Nat /\ z \in 0 .. N /\ N - z = s + L /\ z + 1 \in 1 .. N /\ (N - (z + 1)) + 1 = s + L
    BY <1>1, <2>1
  <2> HIDE DEF z
  <2>4. Prefix(rev, z) = Ops(code) \ Prefix(seq, s + L)
    BY <1>5, <2>3
  <2>5. rev[z + 1] = seq[s + L]
    BY <1>6, <2>3
  <2>6. rev[z + 1] \in Range(b)
    <3>1. L \in 1 .. L
      BY <2>1
    <3> QED
      BY <2>1, <2>5, <3>1
  <2>7. ASSUME NEW o \in Range(b) PROVE o \in Prefix(seq, s + L)
    <3>1. PICK j \in 1 .. L : o = seq[s + j]
      BY <2>1
    <3>2. s + j \in 1 .. s + L
      BY <2>1
    <3> QED
      BY <3>1, <3>2 DEF Prefix
  <2>8. ASSUME NEW o \in Range(b), NEW q \in Preds(code, o), q \in Prefix(seq, s + L) PROVE FALSE
    <3>1. q \in Ops(code) /\ o \in Users(code, q)
      BY <1>7, <2>2, <2>8
    <3>2. PICK m \in 1 .. s + L : q = seq[m]
      BY <2>8 DEF Prefix
    <3>3. CASE m \in 1 .. s
      <4>1. m \in 1 .. N /\ 1 .. m - 1 \subseteq 1 .. s
        BY <1>1, <2>1, <3>3
      <4>2. o \in Prefix(seq, m - 1)
        BY <1>3, <3>1, <3>2, <4>1
      <4>3. o \in Prefix(seq, s)
        BY <4>1, <4>2 DEF Prefix
      <4> QED
        BY <2>1, <4>3
    <3>4. CASE m \notin 1 .. s
      <4>1. m - s \in 1 .. L /\ s + (m - s) = m
        BY <2>1, <3>4
      <4>2. q \in Range(b)
        BY <2>1, <3>2, <4>1
      <4>3. o \in Prefix(seq, s)
        BY <1>2, <2>1, <3>1, <4>2
      <4> QED
        BY <2>1, <4>3
    <3> QED
      BY <3>3, <3>4
  <2>9. \A o \in Range(b) : o \notin Prefix(rev, z) /\ Preds(code, o) \subseteq Prefix(rev, z)
    <3> TAKE o \in Range(b)
    <3>1. o \notin Prefix(rev, z)
      BY <2>4, <2>7
    <3>2. \A q \in Preds(code, o) : q \in Ops(code)
      BY <1>7, <2>2
    <3> QED
      BY <2>4, <2>8, <3>1, <3>2
  <2> QED
    BY <1>8, <2>3, <2>6, <2>9 DEF b
<1> QED
  BY <1>1, <1>6, <1>8, <1>9, <1>10 DEF TransPlan, rev

-----------------------------------------------------------------------------
(* A program and one more operation.                                       *)

(* The values that the operations of D define.                             *)
DefinedBy(code, D) == UNION {Range(Results(code, o)) : o \in D}

(* A value is a result of an operation.                                    *)
LEMMA ValueIn ==
  ASSUME NEW code, NEW D
  PROVE  \A v : v \in DefinedBy(code, D) <=> \E o \in D : \E k \in 1 .. code[o].nret : v = <<o, k>>
<1>1. ASSUME NEW o PROVE Range(Results(code, o)) = {<<o, k>> : k \in 1 .. code[o].nret}
  BY DEF Results, Range
<1> QED
  BY <1>1 DEF DefinedBy

(* The pieces of an operation.                                             *)
OpPieces(op) == IF op.kind # "batch" THEN {0} ELSE DOMAIN op.body

(* The operation of the source that a piece computes, and what it reads.   *)
OpSrc(op, j) == IF j = 0 THEN op.src ELSE op.body[j].src
OpArgs(code, op, j) ==
  IF j = 0 THEN [i \in DOMAIN op.args |-> Denotes(code, op.args[i])]
  ELSE [i \in DOMAIN op.body[j].args |-> Denotes(code, op.args[op.body[j].args[i]])]

(* An operation that may follow code, and the operations E of the source   *)
(* that it computes.                                                       *)
MayFollow(code, op) ==
  /\ DOMAIN op = {"kind", "args", "nret", "src", "body"}
  /\ op.args \in Seq(DefinedBy(code, Ops(code)))
  /\ IF op.kind = "batch"
     THEN /\ op.nret \in Nat /\ op.body \in Seq(Range(op.body))
          /\ \A j \in DOMAIN op.body : IsMember(op, op.body[j])
          /\ WrittenOnce(op)
     ELSE /\ op.kind \in {"ld", "st", "lin", "imm", "cst"} /\ op.body = << >>
          /\ Len(op.args) = Arity(op.kind)
          /\ op.nret = IF op.kind = "st" THEN 0 ELSE 1
          /\ op.src \in Nat /\ op.src < 2 ^ 16

(* The pieces of an operation compute the operations E of the source.      *)
OpComputes(code, src, op, E) ==
  /\ \A j \in OpPieces(op) : OpSrc(op, j) \in E /\ OpArgs(code, op, j) = src[OpSrc(op, j)].args
  /\ \A i, j \in OpPieces(op) : OpSrc(op, i) = OpSrc(op, j) => i = j
  /\ \A x \in E : \E j \in OpPieces(op) : OpSrc(op, j) = x

(* What of the source is translated.                                       *)
Covers(code, src, D) ==
  /\ WellFormed(code) /\ Computes(code, src)
  /\ \A p \in Pieces(code) : PieceSrc(code, p) \in D
  /\ \A x \in D : \E p \in Pieces(code) : PieceSrc(code, p) = x

(* A program and one more operation.                                       *)
Longer(code, op, new, N) ==
  /\ Ops(new) = Ops(code) \cup {N} /\ N \notin Ops(code) /\ new[N] = op
  /\ Ops(code) = 1 .. N - 1 /\ Ops(new) = 1 .. N /\ N \in Nat \ {0} /\ new \in Seq(Range(new))
  /\ \A n \in Ops(code) : new[n] = code[n]
  /\ \A n \in Ops(code) : \A k : Denotes(new, <<n, k>>) = Denotes(code, <<n, k>>)
  /\ \A k : Denotes(new, <<N, k>>) = Origin(op.kind, op.src, op.body, k)

(* The operations before it, and what their values stand for, stay.        *)
LEMMA AppendOp ==
  ASSUME NEW code, WellFormed(code), NEW op, NEW new, new = Append(code, op)
  PROVE  Longer(code, op, new, Len(code) + 1)
<1>1. code \in Seq(Range(code)) /\ Len(code) \in Nat /\ Ops(code) = 1 .. Len(code)
  BY DEF WellFormed, Ops
<1>2. new \in Seq(Range(new))
  BY <1>1, AppendFits
<1>3. /\ DOMAIN new = 1 .. Len(code) + 1 /\ new[Len(code) + 1] = op
      /\ \A n \in 1 .. Len(code) : new[n] = code[n]
  BY <1>1
<1>4. /\ Ops(new) = Ops(code) \cup {Len(code) + 1} /\ Len(code) + 1 \notin Ops(code)
      /\ Ops(code) = 1 .. (Len(code) + 1) - 1 /\ Ops(new) = 1 .. Len(code) + 1 /\ Len(code) + 1 \in Nat \ {0}
  BY <1>1, <1>3 DEF Ops
<1>5. ASSUME NEW n \in Ops(code), NEW k PROVE Denotes(new, <<n, k>>) = Denotes(code, <<n, k>>)
  <2>1. new[n] = code[n]
    BY <1>1, <1>3
  <2>2. Denotes(new, <<n, k>>) = Origin(new[n].kind, new[n].src, new[n].body, k)
    BY DenotesIs
  <2>3. Denotes(code, <<n, k>>) = Origin(code[n].kind, code[n].src, code[n].body, k)
    BY DenotesIs
  <2> QED
    BY <2>1, <2>2, <2>3
<1>6. ASSUME NEW k PROVE Denotes(new, <<Len(code) + 1, k>>) = Origin(op.kind, op.src, op.body, k)
  <2> DEFINE n == Len(code) + 1
  <2>1. new[n] = op
    BY <1>3
  <2> HIDE DEF n
  <2>2. Denotes(new, <<n, k>>) = Origin(new[n].kind, new[n].src, new[n].body, k)
    BY DenotesIs
  <2> QED
    BY <2>1, <2>2 DEF n
<1> QED
  BY <1>1, <1>2, <1>3, <1>4, <1>5, <1>6 DEF Longer

(* The pieces of a program.                                                *)
LEMMA PieceKinds ==
  ASSUME NEW code, NEW p \in Pieces(code)
  PROVE  \/ \E o \in Ops(code) : code[o].kind # "batch" /\ p = <<o, 0>>
         \/ \E o \in Ops(code) : \E j \in DOMAIN code[o].body : p = <<o, j>>
BY DEF Pieces

(* The pieces of a program and one more operation.                         *)
MorePieces(code, op, new, N) ==
  /\ \A p \in Pieces(code) : p \in Pieces(new) /\ PieceSrc(new, p) = PieceSrc(code, p)
                            /\ PieceArgs(new, p) = PieceArgs(code, p)
  /\ \A j \in OpPieces(op) : /\ <<N, j>> \in Pieces(new) /\ PieceSrc(new, <<N, j>>) = OpSrc(op, j)
                             /\ PieceArgs(new, <<N, j>>) = OpArgs(code, op, j)
  /\ \A p \in Pieces(new) : p \in Pieces(code) \/ \E j \in OpPieces(op) : p = <<N, j>>

(* They are those of the program and those of the operation.               *)
LEMMA AppendPieces ==
  ASSUME NEW code, WellFormed(code), NEW op, MayFollow(code, op), NEW new, new = Append(code, op)
  PROVE  MorePieces(code, op, new, Len(code) + 1)
<1> DEFINE N == Len(code) + 1
<1>1. /\ Ops(new) = Ops(code) \cup {N} /\ N \notin Ops(code) /\ new[N] = op
      /\ \A n \in Ops(code) : new[n] = code[n]
      /\ \A n \in Ops(code) : \A k : Denotes(new, <<n, k>>) = Denotes(code, <<n, k>>)
  <2>1. Longer(code, op, new, Len(code) + 1)
    BY AppendOp
  <2> QED
    BY <2>1 DEF Longer
<1> HIDE DEF N
<1>2. /\ op.kind # "batch" => op.body = << >>
      /\ \A n \in Ops(code) : code[n].kind # "batch" => code[n].body = << >>
      /\ op.kind = "batch" => op.body \in Seq(Range(op.body))
      /\ \A n \in Ops(code) : code[n].kind = "batch" => code[n].body \in Seq(Range(code[n].body))
      /\ DOMAIN << >> = {}
  <2>1. \A n \in Ops(code) : code[n].kind # "batch" => code[n].body = << >>
    BY DEF WellFormed
  <2>2. \A n \in Ops(code) : code[n].kind = "batch" => code[n].body \in Seq(Range(code[n].body))
    BY DEF WellFormed
  <2>3. op.kind # "batch" => op.body = << >>
    BY DEF MayFollow
  <2>4. op.kind = "batch" => op.body \in Seq(Range(op.body))
    BY DEF MayFollow
  <2>5. DOMAIN << >> = {}
    OBVIOUS
  <2> QED
    BY <2>1, <2>2, <2>3, <2>4, <2>5
<1>3. \A n \in Ops(code) : \A i \in DOMAIN code[n].args :
        Denotes(new, code[n].args[i]) = Denotes(code, code[n].args[i])
  <2> TAKE n \in Ops(code)
  <2> TAKE i \in DOMAIN code[n].args
  <2>1. code[n].args[i] = <<code[n].args[i][1], code[n].args[i][2]>> /\ code[n].args[i][1] \in Ops(code)
    BY ArgOf
  <2> QED
    BY <1>1, <2>1
<1>4. \A i \in DOMAIN op.args : Denotes(new, op.args[i]) = Denotes(code, op.args[i])
  <2> TAKE i \in DOMAIN op.args
  <2>1. op.args[i] \in DefinedBy(code, Ops(code))
    BY DEF MayFollow
  <2>2. PICK n \in Ops(code) : \E k \in 1 .. code[n].nret : op.args[i] = <<n, k>>
    BY <2>1, ValueIn
  <2> QED
    BY <1>1, <2>2
<1>5. ASSUME NEW p \in Pieces(code)
      PROVE  /\ p \in Pieces(new) /\ PieceSrc(new, p) = PieceSrc(code, p)
             /\ PieceArgs(new, p) = PieceArgs(code, p)
  <2> DEFINE n == p[1]
             j == p[2]
  <2>1. /\ n \in Ops(code) /\ p = <<n, j>> /\ j \in Nat
        /\ j = 0 => code[n].kind # "batch"
        /\ j # 0 => code[n].kind = "batch" /\ j \in DOMAIN code[n].body
    BY PieceIs
  <2>2. n \in Ops(new) /\ new[n] = code[n] /\ new[n].args = code[n].args
    BY <1>1, <2>1
  <2>3. p \in Pieces(new)
    BY <2>1, <2>2, PieceOf
  <2>4. PieceSrc(new, p) = PieceSrc(code, p)
    BY <2>2 DEF PieceSrc
  <2>5. CASE j = 0
    <3>1. PieceArgs(new, p) = [i \in DOMAIN code[n].args |-> Denotes(new, code[n].args[i])]
      BY <2>2, <2>5 DEF PieceArgs
    <3>2. PieceArgs(code, p) = [i \in DOMAIN code[n].args |-> Denotes(code, code[n].args[i])]
      BY <2>2, <2>5 DEF PieceArgs
    <3>3. PieceArgs(new, p) = PieceArgs(code, p)
      BY <1>3, <2>1, <3>1, <3>2
    <3> QED
      BY <2>3, <2>4, <3>3
  <2>6. CASE j # 0
    <3> DEFINE a == code[n].body[j].args
    <3>1. IsMember(code[n], code[n].body[j])
      BY <2>1, <2>6 DEF WellFormed
    <3>2. \A i \in DOMAIN a : a[i] \in DOMAIN code[n].args
      BY <3>1 DEF IsMember
    <3>3. PieceArgs(new, p) = [i \in DOMAIN a |-> Denotes(new, code[n].args[a[i]])]
      BY <2>2, <2>6 DEF PieceArgs
    <3>4. PieceArgs(code, p) = [i \in DOMAIN a |-> Denotes(code, code[n].args[a[i]])]
      BY <2>2, <2>6 DEF PieceArgs
    <3> HIDE DEF a
    <3>5. PieceArgs(new, p) = PieceArgs(code, p)
      BY <1>3, <2>1, <3>2, <3>3, <3>4
    <3> QED
      BY <2>3, <2>4, <3>5
  <2> QED
    BY <2>5, <2>6
<1>6. ASSUME NEW j \in OpPieces(op)
      PROVE  /\ <<N, j>> \in Pieces(new) /\ PieceSrc(new, <<N, j>>) = OpSrc(op, j)
             /\ PieceArgs(new, <<N, j>>) = OpArgs(code, op, j)
  <2>1. N \in Ops(new) /\ new[N] = op
    BY <1>1
  <2>2. /\ op.kind # "batch" => j = 0
        /\ op.kind = "batch" => j \in DOMAIN op.body /\ j # 0
    BY <1>2 DEF OpPieces
  <2>3. <<N, j>> \in Pieces(new)
    BY <2>1, <2>2, PieceOf
  <2>4. PieceSrc(new, <<N, j>>) = OpSrc(op, j)
    BY <2>1 DEF PieceSrc, OpSrc
  <2>5. CASE j = 0
    <3>1. PieceArgs(new, <<N, j>>) = [i \in DOMAIN op.args |-> Denotes(new, op.args[i])]
      BY <2>1, <2>5 DEF PieceArgs
    <3>2. OpArgs(code, op, j) = [i \in DOMAIN op.args |-> Denotes(code, op.args[i])]
      BY <2>5 DEF OpArgs
    <3>3. PieceArgs(new, <<N, j>>) = OpArgs(code, op, j)
      BY <1>4, <3>1, <3>2
    <3> QED
      BY <2>3, <2>4, <3>3
  <2>6. CASE j # 0
    <3> DEFINE a == op.body[j].args
    <3>1. IsMember(op, op.body[j])
      BY <2>2, <2>6 DEF MayFollow
    <3>2. \A i \in DOMAIN a : a[i] \in DOMAIN op.args
      BY <3>1 DEF IsMember
    <3>3. PieceArgs(new, <<N, j>>) = [i \in DOMAIN a |-> Denotes(new, op.args[a[i]])]
      BY <2>1, <2>6 DEF PieceArgs
    <3>4. OpArgs(code, op, j) = [i \in DOMAIN a |-> Denotes(code, op.args[a[i]])]
      BY <2>6 DEF OpArgs
    <3> HIDE DEF a
    <3>5. PieceArgs(new, <<N, j>>) = OpArgs(code, op, j)
      BY <1>4, <3>2, <3>3, <3>4
    <3> QED
      BY <2>3, <2>4, <3>5
  <2> QED
    BY <2>5, <2>6
<1>7. ASSUME NEW p \in Pieces(new) PROVE p \in Pieces(code) \/ \E j \in OpPieces(op) : p = <<N, j>>
  <2>1. CASE \E o \in Ops(new) : new[o].kind # "batch" /\ p = <<o, 0>>
    <3>1. PICK o \in Ops(new) : new[o].kind # "batch" /\ p = <<o, 0>>
      BY <2>1
    <3>2. CASE o \in Ops(code)
      BY <1>1, <3>1, <3>2, PieceOf
    <3>3. CASE o = N
      BY <1>1, <3>1, <3>3 DEF OpPieces
    <3> QED
      BY <1>1, <3>2, <3>3
  <2>2. CASE \E o \in Ops(new) : \E j \in DOMAIN new[o].body : p = <<o, j>>
    <3>1. PICK o \in Ops(new) : \E j \in DOMAIN new[o].body : p = <<o, j>>
      BY <2>2
    <3>2. CASE o \in Ops(code)
      BY <1>1, <3>1, <3>2, PieceOf
    <3>3. CASE o = N
      <4>1. op.kind = "batch"
        BY <1>1, <1>2, <3>1, <3>3
      <4> QED
        BY <1>1, <3>1, <3>3, <4>1 DEF OpPieces
    <3> QED
      BY <1>1, <3>2, <3>3
  <2>3. \/ \E o \in Ops(new) : new[o].kind # "batch" /\ p = <<o, 0>>
        \/ \E o \in Ops(new) : \E j \in DOMAIN new[o].body : p = <<o, j>>
    BY ONLY p \in Pieces(new), PieceKinds
  <2> QED
    BY <2>1, <2>2, <2>3
<1> QED
  BY <1>5, <1>6, <1>7 DEF N, MorePieces

(* A program stays well-formed when an operation follows that computes     *)
(* what has not been.                                                      *)
LEMMA AppendWellFormed ==
  ASSUME NEW code, NEW src, NEW D, Covers(code, src, D),
         NEW op, MayFollow(code, op), NEW E, OpComputes(code, src, op, E), E \cap D = {},
         NEW new, new = Append(code, op)
  PROVE  WellFormed(new)
<1> DEFINE N == Len(code) + 1
<1>0. WellFormed(code)
  BY DEF Covers
<1>1. Longer(code, op, new, N)
  BY <1>0, AppendOp
<1> HIDE DEF N
<1>2. /\ Ops(new) = Ops(code) \cup {N} /\ N \notin Ops(code) /\ new[N] = op
      /\ \A n \in Ops(code) : new[n] = code[n]
      /\ Ops(code) = 1 .. N - 1 /\ N \in Nat \ {0} /\ new \in Seq(Range(new))
  BY <1>1 DEF Longer
<1>3. \A o \in Ops(code) : Results(new, o) = Results(code, o)
  BY <1>2 DEF Results
<1>4. ASSUME NEW n \in Ops(new)
      PROVE  new[n].args \in Seq(UNION {Range(Results(new, o)) : o \in 1 .. n - 1})
  <2>1. \A o \in 1 .. n - 1 : o \in Ops(code)
    BY <1>2
  <2>2. {Range(Results(new, o)) : o \in 1 .. n - 1} = {Range(Results(code, o)) : o \in 1 .. n - 1}
    BY <1>3, <2>1
  <2>3. CASE n \in Ops(code)
    <3>1. code[n].args \in Seq(UNION {Range(Results(code, o)) : o \in 1 .. n - 1})
      BY <1>0, <2>3 DEF WellFormed
    <3>2. new[n] = code[n]
      BY <1>2, <2>3
    <3> QED
      BY ONLY <2>2, <3>1, <3>2, Zenon
  <2>4. CASE n = N
    <3>1. op.args \in Seq(DefinedBy(code, Ops(code)))
      BY DEF MayFollow
    <3>2. DefinedBy(code, Ops(code)) = UNION {Range(Results(code, o)) : o \in 1 .. n - 1}
      BY ONLY <1>2, <2>4, Zenon DEF DefinedBy
    <3> QED
      BY ONLY <1>2, <2>2, <2>4, <3>1, <3>2, Zenon
  <2> QED
    BY <1>2, <2>3, <2>4
<1>5. ASSUME NEW n \in Ops(new)
      PROVE  /\ DOMAIN new[n] = {"kind", "args", "nret", "src", "body"}
             /\ IF new[n].kind = "batch"
                THEN /\ new[n].nret \in Nat /\ new[n].body \in Seq(Range(new[n].body))
                     /\ \A j \in DOMAIN new[n].body : IsMember(new[n], new[n].body[j])
                     /\ WrittenOnce(new[n])
                ELSE /\ new[n].kind \in {"ld", "st", "lin", "imm", "cst"} /\ new[n].body = << >>
                     /\ Len(new[n].args) = Arity(new[n].kind)
                     /\ new[n].nret = IF new[n].kind = "st" THEN 0 ELSE 1
                     /\ new[n].src \in Nat /\ new[n].src < 2 ^ 16
  <2>1. CASE n \in Ops(code)
    <3>1. new[n] = code[n]
      BY <1>2, <2>1
    <3>2. /\ DOMAIN code[n] = {"kind", "args", "nret", "src", "body"}
          /\ IF code[n].kind = "batch"
             THEN /\ code[n].nret \in Nat /\ code[n].body \in Seq(Range(code[n].body))
                  /\ \A j \in DOMAIN code[n].body : IsMember(code[n], code[n].body[j])
                  /\ WrittenOnce(code[n])
             ELSE /\ code[n].kind \in {"ld", "st", "lin", "imm", "cst"} /\ code[n].body = << >>
                  /\ Len(code[n].args) = Arity(code[n].kind)
                  /\ code[n].nret = IF code[n].kind = "st" THEN 0 ELSE 1
                  /\ code[n].src \in Nat /\ code[n].src < 2 ^ 16
      BY <1>0, <2>1 DEF WellFormed
    <3> QED
      BY ONLY <3>1, <3>2, Zenon
  <2>2. CASE n = N
    <3>1. new[n] = op
      BY <1>2, <2>2
    <3>2. /\ DOMAIN op = {"kind", "args", "nret", "src", "body"}
          /\ IF op.kind = "batch"
             THEN /\ op.nret \in Nat /\ op.body \in Seq(Range(op.body))
                  /\ \A j \in DOMAIN op.body : IsMember(op, op.body[j])
                  /\ WrittenOnce(op)
             ELSE /\ op.kind \in {"ld", "st", "lin", "imm", "cst"} /\ op.body = << >>
                  /\ Len(op.args) = Arity(op.kind)
                  /\ op.nret = IF op.kind = "st" THEN 0 ELSE 1
                  /\ op.src \in Nat /\ op.src < 2 ^ 16
      BY DEF MayFollow
    <3> QED
      BY ONLY <3>1, <3>2, Zenon
  <2> QED
    BY <1>2, <2>1, <2>2
<1>6. ASSUME op.kind \in {"ld", "st"}, NEW m \in Ops(code), code[m].kind = op.kind, code[m].src = op.src
      PROVE  FALSE
  <2>1. op.kind # "batch" /\ code[m].kind # "batch"
    BY <1>6
  <2>2. op.src \in E
    BY <2>1 DEF OpComputes, OpPieces, OpSrc
  <2>3. <<m, 0>> \in Pieces(code)
    BY <2>1, PieceOf
  <2>4. PieceSrc(code, <<m, 0>>) \in D
    BY <2>3 DEF Covers
  <2>5. PieceSrc(code, <<m, 0>>) = code[m].src
    BY DEF PieceSrc
  <2> QED
    BY <1>6, <2>2, <2>4, <2>5
<1>7. ASSUME NEW n \in Ops(new), NEW m \in Ops(new),
             new[n].kind = new[m].kind, new[n].kind \in {"ld", "st"}, new[n].src = new[m].src
      PROVE  n = m
  <2>1. CASE n \in Ops(code) /\ m \in Ops(code)
    BY <1>0, <1>2, <1>7, <2>1 DEF WellFormed
  <2>2. CASE n = N /\ m \in Ops(code)
    BY <1>2, <1>6, <1>7, <2>2
  <2>3. CASE m = N /\ n \in Ops(code)
    BY <1>2, <1>6, <1>7, <2>3
  <2> QED
    BY <1>2, <2>1, <2>2, <2>3
<1> QED
  BY <1>2, <1>4, <1>5, <1>7 DEF WellFormed

(* It then computes that, too.                                             *)
LEMMA AppendCovers ==
  ASSUME NEW code, NEW src, NEW D, Covers(code, src, D),
         NEW op, MayFollow(code, op), NEW E, OpComputes(code, src, op, E), E \cap D = {}, E \subseteq Ops(src),
         NEW new, new = Append(code, op)
  PROVE  Covers(new, src, D \cup E)
<1> DEFINE N == Len(code) + 1
<1>0. WellFormed(code)
  BY DEF Covers
<1>1. WellFormed(new)
  BY AppendWellFormed
<1>2. /\ \A p \in Pieces(code) : p \in Pieces(new) /\ PieceSrc(new, p) = PieceSrc(code, p)
                                   /\ PieceArgs(new, p) = PieceArgs(code, p)
      /\ \A j \in OpPieces(op) : /\ <<N, j>> \in Pieces(new) /\ PieceSrc(new, <<N, j>>) = OpSrc(op, j)
                                 /\ PieceArgs(new, <<N, j>>) = OpArgs(code, op, j)
      /\ \A p \in Pieces(new) : p \in Pieces(code) \/ \E j \in OpPieces(op) : p = <<N, j>>
  <2>1. MorePieces(code, op, new, N)
    BY <1>0, AppendPieces
  <2> QED
    BY <2>1 DEF MorePieces
<1>3. /\ \A p \in Pieces(code) : /\ PieceSrc(code, p) \in Ops(src) /\ PieceArgs(code, p) = src[PieceSrc(code, p)].args
                                 /\ PieceSrc(code, p) \in D
      /\ \A p, q \in Pieces(code) : PieceSrc(code, p) = PieceSrc(code, q) => p = q
      /\ \A x \in D : \E p \in Pieces(code) : PieceSrc(code, p) = x
  BY DEF Covers, Computes
<1>4. /\ \A j \in OpPieces(op) : OpSrc(op, j) \in E /\ OpArgs(code, op, j) = src[OpSrc(op, j)].args
      /\ \A i, j \in OpPieces(op) : OpSrc(op, i) = OpSrc(op, j) => i = j
      /\ \A x \in E : \E j \in OpPieces(op) : OpSrc(op, j) = x
  BY DEF OpComputes
<1> HIDE DEF N
<1>5. ASSUME NEW p \in Pieces(new)
      PROVE  PieceSrc(new, p) \in Ops(src) /\ PieceArgs(new, p) = src[PieceSrc(new, p)].args /\ PieceSrc(new, p) \in D \cup E
  <2>1. CASE p \in Pieces(code)
    BY <1>2, <1>3, <2>1
  <2>2. CASE \E j \in OpPieces(op) : p = <<N, j>>
    BY <1>2, <1>4, <2>2
  <2> QED
    BY <1>2, <2>1, <2>2
<1>6. ASSUME NEW p \in Pieces(new), NEW q \in Pieces(new), PieceSrc(new, p) = PieceSrc(new, q) PROVE p = q
  <2>1. CASE p \in Pieces(code) /\ q \in Pieces(code)
    BY <1>2, <1>3, <1>6, <2>1
  <2>2. CASE p \in Pieces(code) /\ \E j \in OpPieces(op) : q = <<N, j>>
    BY <1>2, <1>3, <1>4, <1>6, <2>2
  <2>3. CASE q \in Pieces(code) /\ \E j \in OpPieces(op) : p = <<N, j>>
    BY <1>2, <1>3, <1>4, <1>6, <2>3
  <2>4. CASE (\E i \in OpPieces(op) : p = <<N, i>>) /\ \E j \in OpPieces(op) : q = <<N, j>>
    BY <1>2, <1>4, <1>6, <2>4
  <2> QED
    BY <1>2, <2>1, <2>2, <2>3, <2>4
<1>7. \A x \in D \cup E : \E p \in Pieces(new) : PieceSrc(new, p) = x
  <2> TAKE x \in D \cup E
  <2>1. CASE x \in D
    BY <1>2, <1>3, <2>1
  <2>2. CASE x \in E
    <3>1. PICK j \in OpPieces(op) : OpSrc(op, j) = x
      BY <1>4, <2>2
    <3> QED
      BY <1>2, <3>1
  <2> QED
    BY <2>1, <2>2
<1> QED
  BY <1>1, <1>5, <1>6, <1>7 DEF Covers, Computes

-----------------------------------------------------------------------------
(* The map of the translation.                                             *)

(* The map of the translation: what is translated, and where its values    *)
(* are.                                                                    *)
Mapped(code, src, vm, D) ==
  /\ Covers(code, src, D) /\ D \subseteq Ops(src)
  /\ DOMAIN vm = DefinedBy(src, D)
  /\ \A v \in DOMAIN vm : vm[v] \in DefinedBy(code, Ops(code)) /\ Denotes(code, vm[v]) = v

(* The values that an operation adds to a map.                             *)
MapGrows(code, src, op, E, vm, vm2) ==
  /\ DOMAIN vm2 = DOMAIN vm \cup DefinedBy(src, E)
  /\ \A v \in DOMAIN vm : vm2[v] = vm[v]
  /\ \A v \in DefinedBy(src, E) :
       \E w \in 1 .. op.nret : vm2[v] = <<Len(code) + 1, w>> /\ Origin(op.kind, op.src, op.body, w) = v

(* The map stays right when the values of the operation join it.           *)
LEMMA AppendMapped ==
  ASSUME NEW code, NEW src, NEW vm, NEW D, Mapped(code, src, vm, D),
         NEW op, MayFollow(code, op), NEW E, OpComputes(code, src, op, E), E \cap D = {}, E \subseteq Ops(src),
         NEW vm2, MapGrows(code, src, op, E, vm, vm2)
  PROVE  Mapped(Append(code, op), src, vm2, D \cup E)
<1> DEFINE new == Append(code, op)
           N == Len(code) + 1
<1>1. Covers(code, src, D) /\ WellFormed(code)
  BY DEF Mapped, Covers
<1>2. Covers(new, src, D \cup E)
  BY <1>1, AppendCovers
<1>3. Longer(code, op, new, N)
  BY <1>1, AppendOp
<1> HIDE DEF new
<1>4. /\ Ops(new) = Ops(code) \cup {N} /\ new[N] = op
      /\ \A n \in Ops(code) : new[n] = code[n]
      /\ \A n \in Ops(code) : \A k : Denotes(new, <<n, k>>) = Denotes(code, <<n, k>>)
      /\ \A k : Denotes(new, <<N, k>>) = Origin(op.kind, op.src, op.body, k)
  BY <1>3 DEF Longer
<1>5. /\ DOMAIN vm2 = DOMAIN vm \cup DefinedBy(src, E)
      /\ \A v \in DOMAIN vm : vm2[v] = vm[v]
      /\ \A v \in DefinedBy(src, E) :
           \E w \in 1 .. op.nret : vm2[v] = <<N, w>> /\ Origin(op.kind, op.src, op.body, w) = v
  BY DEF MapGrows
<1> HIDE DEF N
<1>6. DOMAIN vm = DefinedBy(src, D) /\ \A v \in DOMAIN vm : vm[v] \in DefinedBy(code, Ops(code)) /\ Denotes(code, vm[v]) = v
  BY DEF Mapped
<1>7. DOMAIN vm2 = DefinedBy(src, D \cup E)
  <2>1. DefinedBy(src, D \cup E) = DefinedBy(src, D) \cup DefinedBy(src, E)
    BY DEF DefinedBy
  <2> QED
    BY <1>5, <1>6, <2>1
<1>8. ASSUME NEW v \in DOMAIN vm2
      PROVE  vm2[v] \in DefinedBy(new, Ops(new)) /\ Denotes(new, vm2[v]) = v
  <2>1. CASE v \in DOMAIN vm
    <3>1. PICK n \in Ops(code) : \E k \in 1 .. code[n].nret : vm[v] = <<n, k>>
      BY <1>6, <2>1, ValueIn
    <3>2. PICK k \in 1 .. code[n].nret : vm[v] = <<n, k>>
      BY <3>1
    <3>3. n \in Ops(new) /\ k \in 1 .. new[n].nret /\ vm2[v] = <<n, k>>
      BY <1>4, <1>5, <2>1, <3>2
    <3>4. Denotes(new, <<n, k>>) = v
      BY <1>4, <1>6, <2>1, <3>2
    <3> QED
      BY <3>3, <3>4, ValueIn
  <2>2. CASE v \in DefinedBy(src, E)
    <3>1. PICK w \in 1 .. op.nret : vm2[v] = <<N, w>> /\ Origin(op.kind, op.src, op.body, w) = v
      BY <1>5, <2>2
    <3>2. N \in Ops(new) /\ w \in 1 .. new[N].nret
      BY <1>4
    <3> QED
      BY <1>4, <3>1, <3>2, ValueIn
  <2> QED
    BY <1>5, <2>1, <2>2
<1>9. D \cup E \subseteq Ops(src)
  BY DEF Mapped
<1> QED
  BY <1>2, <1>7, <1>8, <1>9 DEF Mapped, new

(* Where an element of a list is.                                          *)
LEMMA PositionIs ==
  ASSUME NEW S, NEW s, Lists(s, S), NEW x \in S
  PROVE  Position(s, x) \in 1 .. Len(s) /\ s[Position(s, x)] = x
<1>1. DOMAIN s = 1 .. Len(s)
  BY ListFacts
<1>2. PICK n \in DOMAIN s : s[n] = x
  BY DEF Lists
<1>3. x \in Range(s)
  BY <1>2 DEF Range
<1> QED
  BY <1>1, <1>2, <1>3 DEF Position

(* The values of a set in their order.                                     *)
LEMMA ByValueOnce ==
  ASSUME NEW S, IsFiniteSet(S), \A v \in S : v = <<v[1], v[2]>> /\ v[1] \in Nat /\ v[2] \in Nat
  PROVE  Lists(ByValue(S), S)
<1> DEFINE N == Cardinality(S)
           B(v) == {w \in S : w[1] < v[1] \/ (w[1] = v[1] /\ w[2] < v[2])}
           below == [v \in S |-> B(v)]
           s == ByValue(S)
<1>1. N \in Nat
  BY FS_CardinalityType
<1>2. Ranks(S, below)
  <2>1. ASSUME NEW x \in S, NEW z \in S
        PROVE  /\ x \notin below[x]
               /\ x = z \/ (x \in below[z] /\ below[x] \subseteq below[z])
                        \/ (z \in below[x] /\ below[z] \subseteq below[x])
    <3>1. x = <<x[1], x[2]>> /\ z = <<z[1], z[2]>> /\ x[1] \in Nat /\ x[2] \in Nat /\ z[1] \in Nat /\ z[2] \in Nat
      OBVIOUS
    <3>2. x \notin below[x]
      BY <3>1
    <3>3. CASE x[1] < z[1] \/ (x[1] = z[1] /\ x[2] < z[2])
      <4>1. x \in below[z]
        BY <3>3
      <4>2. below[x] \subseteq below[z]
        BY <3>1, <3>3
      <4> QED
        BY <3>2, <4>1, <4>2
    <3>4. CASE z[1] < x[1] \/ (x[1] = z[1] /\ z[2] < x[2])
      <4>1. z \in below[x]
        BY <3>4
      <4>2. below[z] \subseteq below[x]
        BY <3>1, <3>4
      <4> QED
        BY <3>2, <4>1, <4>2
    <3>5. CASE x[1] = z[1] /\ x[2] = z[2]
      BY <3>1, <3>2, <3>5
    <3> QED
      BY <3>1, <3>3, <3>4, <3>5
  <2> QED
    BY <2>1 DEF Ranks
<1>3. s = [n \in 1 .. N |-> CHOOSE v \in S : Cardinality(B(v)) = n - 1]
  BY DEF ByValue
<1>4. \A n \in 1 .. N : \E v \in S : Cardinality(below[v]) = n - 1
  <2> HIDE DEF below
  <2> SUFFICES ASSUME NEW n \in 1 .. Cardinality(S) PROVE \E v \in S : Cardinality(below[v]) = n - 1
    OBVIOUS
  <2>1. \E v \in S : Cardinality(below[v]) + 1 = n
    BY ONLY <1>2, RankHeld, n \in 1 .. Cardinality(S)
  <2>2. PICK v \in S : Cardinality(below[v]) + 1 = n
    BY <2>1
  <2>3. Cardinality(below[v]) \in Nat
    <3>1. IsFiniteSet(below[v])
      BY <1>2, FS_Subset DEF Ranks
    <3> QED
      BY <3>1, FS_CardinalityType
  <2> QED
    BY <2>2, <2>3
<1>5. \A x, z \in S : Cardinality(below[x]) = Cardinality(below[z]) => x = z
  BY <1>2, Ranking
<1>6. \A x \in S : Cardinality(below[x]) + 1 \in 1 .. N
  BY <1>2, Ranking
<1>7. \A x \in S : below[x] = B(x)
  OBVIOUS
<1>8. s = [n \in 1 .. N |-> CHOOSE v \in S : Cardinality(below[v]) = n - 1]
  BY <1>3, <1>7
<1> HIDE DEF s, below, N
<1>9. \A n \in 1 .. N : s[n] \in S /\ Cardinality(below[s[n]]) = n - 1
  BY <1>4, <1>8
<1>10. s \in Seq(S) /\ DOMAIN s = 1 .. N
  BY <1>1, <1>8, <1>9
<1>11. ASSUME NEW x \in S PROVE \E n \in 1 .. N : s[n] = x
  <2> DEFINE n == Cardinality(below[x]) + 1
  <2>1. n \in 1 .. N
    BY <1>6
  <2>2. Cardinality(below[x]) \in Nat
    <3>1. IsFiniteSet(below[x])
      BY <1>2, FS_Subset DEF Ranks
    <3> QED
      BY <3>1, FS_CardinalityType
  <2>3. Cardinality(below[s[n]]) = Cardinality(below[x])
    BY <1>9, <2>1, <2>2
  <2> HIDE DEF n
  <2> QED
    BY <1>5, <1>9, <2>1, <2>3
<1>12. ASSUME NEW n \in 1 .. N, NEW m \in 1 .. N, s[n] = s[m] PROVE n = m
  <2>1. n - 1 = m - 1
    BY <1>9, <1>12
  <2> QED
    BY <2>1
<1> QED
  BY <1>10, <1>11, <1>12 DEF Lists, s

(* An operation that is not a bootstrap is translated.                     *)
LEMMA SingleMapped ==
  ASSUME IsSource(source), NEW D, Mapped(batched, source, valmap, D),
         NEW o \in Ops(source), o \notin D, source[o].kind # "pbs", Preds(source, o) \subseteq D
  PROVE  /\ Mapped(Append(batched, Single(o)), source, Define(Results(source, o)), D \cup {o})
         /\ Translatable(source[o].args, Results(source, o))
<1> DEFINE op == Single(o)
           a == source[o].args
           values == Results(source, o)
           vm2 == Define(values)
           V == DefinedBy(batched, Ops(batched))
<1>1. /\ DOMAIN valmap = DefinedBy(source, D)
      /\ \A v \in DOMAIN valmap : valmap[v] \in V /\ Denotes(batched, valmap[v]) = v
  BY DEF Mapped
<1>2. /\ Ops(source) = 1 .. Len(source) /\ Len(source) \in Nat /\ o \in Nat
      /\ \A i \in DOMAIN a : a[i] = <<a[i][1], a[i][2]>> /\ a[i][1] \in Preds(source, o)
                             /\ a[i][2] \in 1 .. source[a[i][1]].nret
  BY SourceGraph
<1>3. /\ source[o].kind \in {"ld", "st", "lin", "imm", "cst"} /\ Len(source) < 2 ^ 16
      /\ a \in Seq(UNION {Range(Results(source, q)) : q \in 1 .. o - 1})
      /\ Len(a) = Arity(source[o].kind) /\ source[o].nret = IF source[o].kind = "st" THEN 0 ELSE 1
  BY DEF IsSource
<1>4. ASSUME NEW i \in DOMAIN a PROVE a[i] \in DOMAIN valmap
  <2>1. a[i][1] \in D
    BY <1>2
  <2>3. \E q \in D : \E k \in 1 .. source[q].nret : a[i] = <<q, k>>
    BY <1>2, <2>1
  <2>2. a[i] \in DefinedBy(source, D)
    BY <2>3, ValueIn
  <2> QED
    BY <1>1, <2>2
<1>5. /\ DOMAIN op = {"kind", "args", "nret", "src", "body"} /\ op.kind = source[o].kind /\ op.nret = source[o].nret
      /\ op.src = o /\ op.body = << >> /\ op.args = [i \in DOMAIN a |-> valmap[a[i]]]
  BY DEF Single
<1> HIDE DEF op
<1>6. /\ DOMAIN a = 1 .. Len(a) /\ Len(a) \in Nat /\ DOMAIN op.args = 1 .. Len(a)
      /\ op.args \in Seq(V) /\ Len(op.args) = Len(a)
  <2>1. DOMAIN a = 1 .. Len(a) /\ Len(a) \in Nat
    BY <1>3
  <2>2. op.args = [i \in 1 .. Len(a) |-> valmap[a[i]]]
    BY <1>5, <2>1
  <2>3. \A i \in 1 .. Len(a) : valmap[a[i]] \in V
    BY <1>1, <1>4, <2>1
  <2> DEFINE n == Len(a)
  <2> HIDE DEF V, a, n
  <2>4. n \in Nat /\ op.args = [i \in 1 .. n |-> valmap[a[i]]] /\ \A i \in 1 .. n : valmap[a[i]] \in V
    BY <2>1, <2>2, <2>3 DEF n
  <2>5. op.args \in Seq(V) /\ Len(op.args) = n /\ DOMAIN op.args = 1 .. n
    BY ONLY <2>4
  <2> QED
    BY <2>1, <2>5 DEF n
<1>7. MayFollow(batched, op)
  <2>1. op.src \in Nat /\ op.src < 2 ^ 16
    <3> DEFINE B == 2 ^ 16
    <3>1. B \in Nat /\ Len(source) < B
      BY <1>3
    <3> HIDE DEF B
    <3>2. o < B
      BY <1>2, <3>1
    <3> QED
      BY <1>2, <1>5, <3>2 DEF B
  <2>2. op.kind # "batch"
    BY <1>3, <1>5
  <2>3. op.nret = IF op.kind = "st" THEN 0 ELSE 1
    BY <1>3, <1>5
  <2>4. Len(op.args) = Arity(op.kind)
    BY <1>3, <1>5, <1>6
  <2> QED
    BY <1>3, <1>5, <1>6, <2>1, <2>2, <2>3, <2>4 DEF MayFollow
<1>8. OpComputes(batched, source, op, {o})
  <2>1. op.kind # "batch" /\ OpPieces(op) = {0} /\ OpSrc(op, 0) = o
    BY <1>3, <1>5 DEF OpPieces, OpSrc
  <2>2. OpArgs(batched, op, 0) = [i \in 1 .. Len(a) |-> Denotes(batched, op.args[i])]
    BY <1>6 DEF OpArgs
  <2>3. \A i \in 1 .. Len(a) : Denotes(batched, op.args[i]) = a[i]
    BY <1>1, <1>4, <1>5, <1>6
  <2>4. a = [i \in 1 .. Len(a) |-> a[i]]
    BY <1>3
  <2>5. OpArgs(batched, op, 0) = a
    BY <2>2, <2>3, <2>4
  <2> QED
    BY <2>1, <2>5 DEF OpComputes
<1>9. /\ DOMAIN values = 1 .. source[o].nret
      /\ \A k \in 1 .. source[o].nret : values[k] = <<o, k>> /\ Position(values, <<o, k>>) = k
      /\ Range(values) = DefinedBy(source, {o}) /\ Range(values) \cap DOMAIN valmap = {}
  <2>1. values = [k \in 1 .. source[o].nret |-> <<o, k>>]
    BY DEF Results
  <2>2. Range(values) = {<<o, k>> : k \in 1 .. source[o].nret}
    BY <2>1 DEF Range
  <2>3. Range(values) = DefinedBy(source, {o})
    BY DEF DefinedBy
  <2>4. \A v \in DOMAIN valmap : \E q \in D : \E k : v = <<q, k>>
    BY <1>1, ValueIn
  <2>5. Range(values) \cap DOMAIN valmap = {}
    BY <2>2, <2>4
  <2> HIDE DEF values
  <2>6. ASSUME NEW k \in 1 .. source[o].nret PROVE Position(values, <<o, k>>) = k
    <3>1. <<o, k>> \in Range(values)
      BY <2>2
    <3>2. Position(values, <<o, k>>) = CHOOSE n \in DOMAIN values : values[n] = <<o, k>>
      BY <3>1 DEF Position
    <3>3. k \in DOMAIN values /\ \A n \in DOMAIN values : values[n] = <<o, k>> <=> n = k
      BY <2>1
    <3> QED
      BY <3>2, <3>3
  <2> QED
    BY <2>1, <2>3, <2>5, <2>6
<1>10. MapGrows(batched, source, op, {o}, valmap, vm2)
  <2>1. vm2 = [v \in DOMAIN valmap \cup Range(values) |->
                 IF v \in DOMAIN valmap THEN valmap[v] ELSE <<Len(batched) + 1, Position(values, v)>>]
    BY DEF Define
  <2> HIDE DEF vm2
  <2>2. DOMAIN vm2 = DOMAIN valmap \cup DefinedBy(source, {o}) /\ \A v \in DOMAIN valmap : vm2[v] = valmap[v]
    BY <1>9, <2>1
  <2>3. ASSUME NEW v \in DefinedBy(source, {o})
        PROVE  \E w \in 1 .. op.nret : vm2[v] = <<Len(batched) + 1, w>> /\ Origin(op.kind, op.src, op.body, w) = v
    <3>1. PICK k \in 1 .. source[o].nret : v = <<o, k>>
      BY ValueIn
    <3>2. v \in Range(values) /\ v \notin DOMAIN valmap
      BY <1>9
    <3>3. vm2[v] = <<Len(batched) + 1, Position(values, v)>>
      BY <2>1, <3>2
    <3>4. Position(values, v) = k /\ k \in 1 .. op.nret
      BY <1>5, <1>9, <3>1
    <3>5. Origin(op.kind, op.src, op.body, k) = <<o, k>>
      BY <1>3, <1>5 DEF Origin
    <3> QED
      BY <3>1, <3>3, <3>4, <3>5
  <2> QED
    BY <2>2, <2>3 DEF MapGrows
<1>11. {o} \cap D = {} /\ {o} \subseteq Ops(source)
  OBVIOUS
<1>12. Mapped(Append(batched, op), source, vm2, D \cup {o})
  BY <1>7, <1>8, <1>10, <1>11, AppendMapped
<1>13. Range(a) \subseteq DOMAIN valmap
  BY <1>4 DEF Range
<1>14. Translatable(a, values)
  BY <1>9, <1>13 DEF Translatable
<1> QED
  BY <1>12, <1>14 DEF op

-----------------------------------------------------------------------------
(* The interface of a batch.                                               *)

(* The values of a source are finitely many pairs of numbers.              *)
LEMMA ValuesFinite ==
  ASSUME NEW code, IsSource(code), NEW S, \A v \in S : v \in DefinedBy(code, Ops(code))
  PROVE  IsFiniteSet(S) /\ \A v \in S : v = <<v[1], v[2]>> /\ v[1] \in Nat /\ v[2] \in Nat
<1>1. IsFiniteSet(Ops(code)) /\ \A o \in Ops(code) : o \in Nat
  BY SourceGraph
<1>2. \A o \in Ops(code) : code[o].nret \in {0, 1, 2}
  BY DEF IsSource
<1>3. \A v \in S : \E o \in Ops(code) : \E k \in 1 .. 2 : v = <<o, k>>
  <2> TAKE v \in S
  <2>1. PICK o \in Ops(code) : \E k \in 1 .. code[o].nret : v = <<o, k>>
    BY ValueIn
  <2>2. 1 .. code[o].nret \subseteq 1 .. 2
    BY <1>2
  <2> QED
    BY <2>1, <2>2
<1>4. IsFiniteSet(1 .. 2)
  <2> DEFINE two == 2
  <2>1. two \in Nat
    OBVIOUS
  <2> HIDE DEF two
  <2>2. IsFiniteSet(1 .. two)
    BY <2>1, FS_Interval
  <2> QED
    BY <2>2 DEF two
<1>5. IsFiniteSet(Ops(code) \X (1 .. 2))
  BY <1>1, <1>4, FS_Product
<1>6. S \subseteq Ops(code) \X (1 .. 2)
  BY <1>3
<1>7. IsFiniteSet(S)
  BY <1>5, <1>6, FS_Subset
<1>8. \A v \in S : v = <<v[1], v[2]>> /\ v[1] \in Nat /\ v[2] \in Nat
  BY <1>1, <1>3
<1> QED
  BY <1>7, <1>8

(* A batch whose members read only what is translated.                     *)
MayBatch(b, D) ==
  /\ Lists(b, Range(b)) /\ Range(b) \cap D = {}
  /\ \A o \in Range(b) : o \in Ops(source) /\ source[o].kind = "pbs" /\ Preds(source, o) \subseteq D

(* The interface of a batch.                                               *)
Interface(b, D, inputs, outputs) ==
  /\ Lists(inputs, Range(inputs)) /\ Range(inputs) \subseteq DOMAIN valmap
  /\ \A o \in Range(b) : \A i \in DOMAIN source[o].args : source[o].args[i] \in Range(inputs)
  /\ Lists(outputs, DefinedBy(source, Range(b))) /\ Range(outputs) = DefinedBy(source, Range(b))
  /\ Range(outputs) \cap DOMAIN valmap = {}

(* The interface of a batch: its members read from outside what is         *)
(* translated, and every result has a user outside.                        *)
LEMMA BatchInterface ==
  ASSUME IsSource(source), NEW D, Mapped(batched, source, valmap, D), NEW b, MayBatch(b, D)
  PROVE  Interface(b, D, Inputs(b), Outputs(b))
<1> DEFINE B == Range(b)
           SI == {v \in UNION {Range(source[o].args) : o \in Members(b)} : v[1] \notin Members(b)}
           SO == UNION {Range(Results(source, o)) : o \in {m \in Members(b) : Users(source, m) \ Members(b) # {}}}
<1>1. Members(b) = B
  BY DEF Members, Range
<1>2. /\ B \cap D = {}
      /\ \A o \in B : o \in Ops(source) /\ source[o].kind = "pbs" /\ Preds(source, o) \subseteq D
  BY DEF MayBatch
<1> HIDE DEF B
<1>3. DOMAIN valmap = DefinedBy(source, D) /\ D \subseteq Ops(source)
  BY DEF Mapped
<1>4. \A o \in Ops(source) : \A i \in DOMAIN source[o].args :
        /\ source[o].args[i] = <<source[o].args[i][1], source[o].args[i][2]>>
        /\ source[o].args[i][1] \in Preds(source, o)
        /\ source[o].args[i][2] \in 1 .. source[source[o].args[i][1]].nret
  BY SourceGraph
<1>5. ASSUME NEW o \in B, NEW i \in DOMAIN source[o].args
      PROVE  source[o].args[i] \in SI /\ source[o].args[i] \in DOMAIN valmap
  <2> DEFINE v == source[o].args[i]
  <2>1. v[1] \in D /\ v[1] \notin B
    BY <1>2, <1>4
  <2>2. \E q \in D : \E k \in 1 .. source[q].nret : v = <<q, k>>
    BY <1>2, <1>4, <2>1
  <2>3. v \in DOMAIN valmap
    BY <1>3, <2>2, ValueIn
  <2>4. v \in Range(source[o].args)
    BY DEF Range
  <2>5. v \in UNION {Range(source[q].args) : q \in Members(b)}
    BY <1>1, <2>4
  <2> QED
    BY <1>1, <2>1, <2>3, <2>5
<1>6. ASSUME NEW v \in SI PROVE v \in DOMAIN valmap
  <2>1. PICK o \in B : v \in Range(source[o].args)
    BY <1>1
  <2>2. PICK i \in DOMAIN source[o].args : v = source[o].args[i]
    BY <2>1 DEF Range
  <2> QED
    BY <1>5, <2>2
<1>7. SO = DefinedBy(source, B)
  <2>1. ASSUME NEW m \in B PROVE Users(source, m) \ B # {}
    <3>1. Users(source, m) # {}
      BY <1>2 DEF IsSource
    <3>2. ASSUME NEW u \in B, m \in Preds(source, u) PROVE FALSE
      BY <1>2, <3>2
    <3> QED
      BY <3>1, <3>2 DEF Users
  <2>2. {m \in Members(b) : Users(source, m) \ Members(b) # {}} = B
    BY <1>1, <2>1
  <2> QED
    BY <2>2 DEF DefinedBy
<1> HIDE DEF SI
<1>8. \A v \in DefinedBy(source, B) : v \in DefinedBy(source, Ops(source)) /\ v \notin DefinedBy(source, D)
  <2> TAKE v \in DefinedBy(source, B)
  <2>1. PICK o \in B : \E k \in 1 .. source[o].nret : v = <<o, k>>
    BY ValueIn
  <2>2. v \in DefinedBy(source, Ops(source))
    BY <1>2, <2>1, ValueIn
  <2>3. v \notin DefinedBy(source, D)
    <3> SUFFICES ASSUME v \in DefinedBy(source, D) PROVE FALSE
      OBVIOUS
    <3>1. PICK q \in D : \E k \in 1 .. source[q].nret : v = <<q, k>>
      BY ValueIn
    <3> QED
      BY <1>2, <2>1, <3>1
  <2> QED
    BY <2>2, <2>3
<1>9. \A v \in SI : v \in DefinedBy(source, Ops(source))
  <2> TAKE v \in SI
  <2>1. v \in DefinedBy(source, D)
    BY <1>3, <1>6
  <2> QED
    BY <1>3, <2>1 DEF DefinedBy
<1>10. Lists(ByValue(SI), SI)
  <2>1. IsFiniteSet(SI) /\ \A v \in SI : v = <<v[1], v[2]>> /\ v[1] \in Nat /\ v[2] \in Nat
    BY <1>9, ValuesFinite
  <2> QED
    BY <2>1, ByValueOnce
<1> DEFINE VO == DefinedBy(source, B)
<1> HIDE DEF VO
<1>11. Lists(ByValue(VO), VO)
  <2>1. \A v \in VO : v \in DefinedBy(source, Ops(source))
    BY <1>8 DEF VO
  <2>2. IsFiniteSet(VO) /\ \A v \in VO : v = <<v[1], v[2]>> /\ v[1] \in Nat /\ v[2] \in Nat
    BY <2>1, ValuesFinite
  <2> QED
    BY <2>2, ByValueOnce
<1>12. Inputs(b) = ByValue(SI) /\ Outputs(b) = ByValue(VO)
  BY <1>7 DEF Inputs, Outputs, SI, VO
<1>13. Range(Inputs(b)) = SI /\ Range(Outputs(b)) = VO
  BY <1>10, <1>11, <1>12, ListFacts
<1>14. /\ Lists(Inputs(b), Range(Inputs(b))) /\ Range(Inputs(b)) \subseteq DOMAIN valmap
       /\ \A o \in B : \A i \in DOMAIN source[o].args : source[o].args[i] \in Range(Inputs(b))
  BY <1>5, <1>6, <1>10, <1>12, <1>13
<1>15. VO \cap DOMAIN valmap = {}
  BY <1>3, <1>8 DEF VO
<1> QED
  BY <1>11, <1>12, <1>13, <1>14, <1>15 DEF Interface, B, VO

(* A batch, field by field.                                                *)
BatchIs(b, inputs, outputs, op) ==
  /\ DOMAIN op = {"kind", "args", "nret", "src", "body"} /\ op.kind = "batch" /\ op.src = 0
  /\ op.nret = Len(outputs) /\ op.args = [i \in DOMAIN inputs |-> valmap[inputs[i]]]
  /\ DOMAIN op.body = DOMAIN b /\ op.body = [j \in DOMAIN b |-> op.body[j]]
  /\ \A j \in DOMAIN b :
       /\ op.body[j].src = b[j] /\ op.body[j].nret = source[b[j]].nret
       /\ op.body[j].args = [i \in DOMAIN source[b[j]].args |-> Position(inputs, source[b[j]].args[i])]
       /\ op.body[j].rets = [k \in 1 .. source[b[j]].nret |-> Position(outputs, <<b[j], k>>)]

(* That is what BatchOp is.                                                *)
LEMMA BatchOpIs ==
  ASSUME NEW b
  PROVE  BatchIs(b, Inputs(b), Outputs(b), BatchOp(b))
BY DEF BatchIs, BatchOp

(* The members of a batch, and the results they write.                     *)
LEMMA BatchMembers ==
  ASSUME IsSource(source), NEW D, Mapped(batched, source, valmap, D), NEW b, MayBatch(b, D),
         NEW inputs, NEW outputs, Interface(b, D, inputs, outputs), NEW op, BatchIs(b, inputs, outputs, op)
  PROVE  /\ DOMAIN b = 1 .. Len(b) /\ Len(b) \in Nat /\ DOMAIN inputs = 1 .. Len(inputs) /\ Len(inputs) \in Nat
         /\ Len(outputs) \in Nat
         /\ \A j \in DOMAIN b : IsMember(op, op.body[j])
         /\ WrittenOnce(op)
         /\ \A j \in DOMAIN b : \A i \in DOMAIN op.body[j].args :
              inputs[op.body[j].args[i]] = source[b[j]].args[i] /\ op.body[j].args[i] \in DOMAIN inputs
         /\ \A j \in DOMAIN b : DOMAIN op.body[j].args = DOMAIN source[b[j]].args
         /\ \A j \in DOMAIN b : \A k \in 1 .. source[b[j]].nret :
              op.body[j].rets[k] \in 1 .. Len(outputs) /\ outputs[op.body[j].rets[k]] = <<b[j], k>>
         /\ \A j \in DOMAIN b : DOMAIN op.body[j].rets = 1 .. source[b[j]].nret /\ source[b[j]].nret \in {1, 2}
<1> DEFINE B == Range(b)
           SI == Range(inputs)
           VO == DefinedBy(source, B)
<1>1. Lists(b, B) /\ \A o \in B : o \in Ops(source) /\ source[o].kind = "pbs"
  BY DEF MayBatch
<1>2. /\ Lists(inputs, SI) /\ Lists(outputs, VO)
      /\ \A o \in B : \A i \in DOMAIN source[o].args : source[o].args[i] \in SI
  BY DEF Interface
<1>3. /\ DOMAIN b = 1 .. Len(b) /\ Len(b) \in Nat /\ DOMAIN inputs = 1 .. Len(inputs) /\ Len(inputs) \in Nat
      /\ Len(outputs) \in Nat /\ DOMAIN outputs = 1 .. Len(outputs)
  BY <1>1, <1>2, ListFacts
<1>4. \A j \in DOMAIN b : b[j] \in B
  BY DEF Range
<1>5. \A o \in Ops(source) : o \in Nat
  BY SourceGraph
<1>6. ASSUME NEW j \in DOMAIN b
      PROVE  /\ b[j] \in Ops(source) /\ b[j] \in Nat /\ source[b[j]].nret \in {1, 2}
             /\ DOMAIN source[b[j]].args = 1 .. 1
  <2>1. b[j] \in Ops(source) /\ source[b[j]].kind = "pbs"
    BY <1>1, <1>4
  <2>2. /\ Len(source[b[j]].args) = 1 /\ source[b[j]].nret \in {1, 2}
        /\ source[b[j]].args \in Seq(UNION {Range(Results(source, q)) : q \in 1 .. b[j] - 1})
    BY <2>1 DEF IsSource
  <2> QED
    BY <1>5, <2>1, <2>2
<1> HIDE DEF SI, B, VO
<1>7. ASSUME NEW j \in DOMAIN b, NEW k \in 1 .. source[b[j]].nret
      PROVE  Position(outputs, <<b[j], k>>) \in 1 .. Len(outputs) /\ outputs[Position(outputs, <<b[j], k>>)] = <<b[j], k>>
  <2>1. <<b[j], k>> \in VO
    BY <1>4, ValueIn DEF VO
  <2> QED
    BY <1>2, <2>1, PositionIs
<1>8. ASSUME NEW j \in DOMAIN b, NEW i \in DOMAIN source[b[j]].args
      PROVE  /\ Position(inputs, source[b[j]].args[i]) \in DOMAIN inputs
             /\ inputs[Position(inputs, source[b[j]].args[i])] = source[b[j]].args[i]
  <2>1. source[b[j]].args[i] \in SI
    BY <1>2, <1>4
  <2> QED
    BY <1>2, <1>3, <2>1, PositionIs
<1>9. /\ op.nret = Len(outputs) /\ op.args = [i \in DOMAIN inputs |-> valmap[inputs[i]]]
      /\ \A j \in DOMAIN b :
           /\ op.body[j].src = b[j] /\ op.body[j].nret = source[b[j]].nret
           /\ op.body[j].args = [i \in DOMAIN source[b[j]].args |-> Position(inputs, source[b[j]].args[i])]
           /\ op.body[j].rets = [k \in 1 .. source[b[j]].nret |-> Position(outputs, <<b[j], k>>)]
  BY DEF BatchIs
<1>10. ASSUME NEW j \in DOMAIN b
       PROVE  /\ op.body[j].args \in [1 .. 1 -> DOMAIN op.args]
              /\ \A i \in DOMAIN op.body[j].args :
                   inputs[op.body[j].args[i]] = source[b[j]].args[i] /\ op.body[j].args[i] \in DOMAIN inputs
              /\ DOMAIN op.body[j].args = DOMAIN source[b[j]].args
  <2> DEFINE a == source[b[j]].args
             f == op.body[j].args
  <2>1. f = [i \in DOMAIN a |-> Position(inputs, a[i])] /\ DOMAIN a = 1 .. 1
    BY <1>6, <1>9
  <2>2. \A i \in DOMAIN a : Position(inputs, a[i]) \in DOMAIN inputs /\ inputs[Position(inputs, a[i])] = a[i]
    BY <1>8
  <2>3. DOMAIN op.args = DOMAIN inputs
    BY <1>9
  <2> HIDE DEF a, f
  <2>4. DOMAIN f = DOMAIN a /\ \A i \in DOMAIN f : f[i] \in DOMAIN inputs /\ inputs[f[i]] = a[i]
    BY <2>1, <2>2
  <2>5. f \in [1 .. 1 -> DOMAIN op.args]
    BY <2>1, <2>3, <2>4
  <2> QED
    BY <2>4, <2>5 DEF a, f
<1>11. ASSUME NEW j \in DOMAIN b
       PROVE  /\ op.body[j].rets \in [1 .. source[b[j]].nret -> 1 .. Len(outputs)]
              /\ DOMAIN op.body[j].rets = 1 .. source[b[j]].nret
              /\ \A k \in 1 .. source[b[j]].nret :
                   op.body[j].rets[k] \in 1 .. Len(outputs) /\ outputs[op.body[j].rets[k]] = <<b[j], k>>
  <2> DEFINE n == source[b[j]].nret
             f == op.body[j].rets
  <2>1. f = [k \in 1 .. n |-> Position(outputs, <<b[j], k>>)]
    BY <1>9
  <2>2. \A k \in 1 .. n : /\ Position(outputs, <<b[j], k>>) \in 1 .. Len(outputs)
                           /\ outputs[Position(outputs, <<b[j], k>>)] = <<b[j], k>>
    BY <1>7
  <2> HIDE DEF n, f
  <2>3. DOMAIN f = 1 .. n /\ \A k \in 1 .. n : f[k] \in 1 .. Len(outputs) /\ outputs[f[k]] = <<b[j], k>>
    BY <2>1, <2>2
  <2>4. f \in [1 .. n -> 1 .. Len(outputs)]
    BY <2>1, <2>2
  <2> QED
    BY <2>3, <2>4 DEF n, f
<1>12. ASSUME NEW j \in DOMAIN b PROVE IsMember(op, op.body[j])
  <2> DEFINE m == op.body[j]
  <2>1. m.nret \in {1, 2} /\ m.src \in Nat /\ m.nret = source[b[j]].nret
    BY <1>6, <1>9
  <2>2. m.args \in [1 .. 1 -> DOMAIN op.args]
    BY <1>10
  <2>3. m.rets \in [1 .. m.nret -> 1 .. op.nret]
    BY <1>9, <1>11, <2>1
  <2>4. IsInjective(m.rets)
    <3> SUFFICES ASSUME NEW x \in DOMAIN m.rets, NEW y \in DOMAIN m.rets, m.rets[x] = m.rets[y] PROVE x = y
      BY DEF IsInjective
    <3>1. outputs[m.rets[x]] = <<b[j], x>> /\ outputs[m.rets[y]] = <<b[j], y>>
      BY <1>11
    <3>2. <<b[j], x>> = <<b[j], y>>
      BY ONLY <3>1, m.rets[x] = m.rets[y], Zenon
    <3> QED
      BY <3>2
  <2> QED
    BY <2>1, <2>2, <2>3, <2>4 DEF IsMember
<1>13. WrittenOnce(op)
  <2> SUFFICES ASSUME NEW r \in 1 .. op.nret
               PROVE  \E j \in DOMAIN op.body : \A i \in DOMAIN op.body : r \in Range(op.body[i].rets) <=> i = j
    BY DEF WrittenOnce
  <2>1. r \in DOMAIN outputs /\ DOMAIN op.body = DOMAIN b
    BY <1>3, <1>9 DEF BatchIs
  <2>2. outputs[r] \in VO
    BY <1>2, <2>1 DEF Lists, Range
  <2>3. PICK o \in B : \E k \in 1 .. source[o].nret : outputs[r] = <<o, k>>
    BY <2>2, ValueIn DEF VO
  <2>4. PICK k \in 1 .. source[o].nret : outputs[r] = <<o, k>>
    BY <2>3
  <2>5. PICK j \in DOMAIN b : b[j] = o
    BY DEF B, Range
  <2>6. outputs[op.body[j].rets[k]] = <<o, k>> /\ op.body[j].rets[k] \in DOMAIN outputs /\ k \in DOMAIN op.body[j].rets
    BY <1>3, <1>11, <2>4, <2>5
  <2>7. op.body[j].rets[k] = r
    BY <1>2, <2>1, <2>4, <2>6 DEF Lists
  <2>8. r \in Range(op.body[j].rets)
    BY <2>6, <2>7 DEF Range
  <2>9. ASSUME NEW i \in DOMAIN b, r \in Range(op.body[i].rets) PROVE i = j
    <3>1. PICK y \in DOMAIN op.body[i].rets : op.body[i].rets[y] = r
      BY <2>9 DEF Range
    <3>2. y \in 1 .. source[b[i]].nret
      BY <1>11, <3>1
    <3>3. outputs[op.body[i].rets[y]] = <<b[i], y>>
      BY <1>11, <3>2
    <3>4. <<b[i], y>> = <<o, k>>
      BY ONLY <2>4, <3>1, <3>3, Zenon
    <3>5. b[i] = b[j]
      BY <2>5, <3>4
    <3> QED
      BY <1>1, <2>5, <3>5 DEF Lists
  <2> QED
    BY <2>1, <2>5, <2>8, <2>9
<1> QED
  BY <1>3, <1>6, <1>10, <1>11, <1>12, <1>13

(* A batch is translated.                                                  *)
LEMMA BatchMapped ==
  ASSUME IsSource(source), NEW D, Mapped(batched, source, valmap, D), NEW b, MayBatch(b, D)
  PROVE  /\ Mapped(Append(batched, BatchOp(b)), source, Define(Outputs(b)), D \cup Range(b))
         /\ Translatable(Inputs(b), Outputs(b))
<1> DEFINE inputs == Inputs(b)
           outputs == Outputs(b)
           op == BatchOp(b)
           B == Range(b)
           V == DefinedBy(batched, Ops(batched))
           vm2 == Define(outputs)
<1>1. Interface(b, D, inputs, outputs) /\ BatchIs(b, inputs, outputs, op)
  BY BatchInterface, BatchOpIs
<1>1a. vm2 = [v \in DOMAIN valmap \cup Range(outputs) |->
                IF v \in DOMAIN valmap THEN valmap[v] ELSE <<Len(batched) + 1, Position(outputs, v)>>]
  BY DEF Define
<1> HIDE DEF inputs, outputs, op, vm2
<1>2. /\ DOMAIN b = 1 .. Len(b) /\ Len(b) \in Nat /\ DOMAIN inputs = 1 .. Len(inputs) /\ Len(inputs) \in Nat
      /\ Len(outputs) \in Nat
      /\ \A j \in DOMAIN b : IsMember(op, op.body[j])
      /\ WrittenOnce(op)
      /\ \A j \in DOMAIN b : \A i \in DOMAIN op.body[j].args :
           inputs[op.body[j].args[i]] = source[b[j]].args[i] /\ op.body[j].args[i] \in DOMAIN inputs
      /\ \A j \in DOMAIN b : DOMAIN op.body[j].args = DOMAIN source[b[j]].args
      /\ \A j \in DOMAIN b : \A k \in 1 .. source[b[j]].nret :
           op.body[j].rets[k] \in 1 .. Len(outputs) /\ outputs[op.body[j].rets[k]] = <<b[j], k>>
      /\ \A j \in DOMAIN b : DOMAIN op.body[j].rets = 1 .. source[b[j]].nret /\ source[b[j]].nret \in {1, 2}
  BY <1>1, BatchMembers
<1>3. /\ DOMAIN op = {"kind", "args", "nret", "src", "body"} /\ op.kind = "batch"
      /\ op.nret = Len(outputs) /\ op.args = [i \in DOMAIN inputs |-> valmap[inputs[i]]]
      /\ DOMAIN op.body = DOMAIN b /\ op.body = [j \in DOMAIN b |-> op.body[j]]
      /\ \A j \in DOMAIN b : op.body[j].src = b[j]
  BY <1>1 DEF BatchIs
<1>4. /\ DOMAIN valmap = DefinedBy(source, D)
      /\ \A v \in DOMAIN valmap : valmap[v] \in V /\ Denotes(batched, valmap[v]) = v
  BY DEF Mapped
<1>5. /\ Lists(b, B) /\ B \cap D = {} /\ B \subseteq Ops(source)
      /\ Range(inputs) \subseteq DOMAIN valmap
      /\ Lists(outputs, DefinedBy(source, B)) /\ Range(outputs) = DefinedBy(source, B)
      /\ Range(outputs) \cap DOMAIN valmap = {}
  BY <1>1 DEF MayBatch, Interface
<1> HIDE DEF V
<1>6. \A i \in DOMAIN inputs : inputs[i] \in DOMAIN valmap
  BY <1>5 DEF Range
<1>7. MayFollow(batched, op)
  <2>1. op.args \in Seq(V)
    <3> DEFINE n == Len(inputs)
    <3>1. n \in Nat /\ op.args = [i \in 1 .. n |-> valmap[inputs[i]]] /\ \A i \in 1 .. n : valmap[inputs[i]] \in V
      BY <1>2, <1>3, <1>4, <1>6
    <3> HIDE DEF n
    <3> QED
      BY ONLY <3>1
  <2>2. op.body \in Seq(Range(op.body))
    <3> DEFINE n == Len(b)
    <3>1. n \in Nat /\ op.body = [j \in 1 .. n |-> op.body[j]] /\ \A j \in 1 .. n : op.body[j] \in Range(op.body)
      BY <1>2, <1>3 DEF Range
    <3> HIDE DEF n
    <3> QED
      BY ONLY <3>1
  <2>3. op.nret \in Nat /\ (\A j \in DOMAIN op.body : IsMember(op, op.body[j])) /\ WrittenOnce(op)
    BY <1>2, <1>3
  <2> QED
    BY <1>3, <2>1, <2>2, <2>3 DEF MayFollow, V
<1>8. OpComputes(batched, source, op, B)
  <2>1. OpPieces(op) = 1 .. Len(b)
    BY <1>2, <1>3 DEF OpPieces
  <2>2. \A j \in 1 .. Len(b) : j # 0 /\ OpSrc(op, j) = b[j] /\ b[j] \in B
    BY <1>2, <1>3 DEF OpSrc, Range
  <2>3. ASSUME NEW j \in 1 .. Len(b) PROVE OpArgs(batched, op, j) = source[b[j]].args
    <3> DEFINE a == source[b[j]].args
               m == op.body[j]
    <3>1. j # 0 /\ j \in DOMAIN b
      BY <1>2
    <3>2. OpArgs(batched, op, j) = [i \in DOMAIN m.args |-> Denotes(batched, op.args[m.args[i]])]
      BY <3>1 DEF OpArgs
    <3>3. DOMAIN m.args = DOMAIN a
      BY <1>2, <3>1
    <3>4. \A i \in DOMAIN a : Denotes(batched, op.args[m.args[i]]) = a[i]
      <4> TAKE i \in DOMAIN a
      <4>1. m.args[i] \in DOMAIN inputs /\ inputs[m.args[i]] = a[i]
        BY <1>2, <3>1, <3>3
      <4> DEFINE x == m.args[i]
      <4>4. op.args[x] = valmap[inputs[x]]
        <5>1. x \in DOMAIN inputs
          BY <4>1
        <5> HIDE DEF x
        <5> QED
          BY <1>3, <5>1
      <4>2. op.args[x] = valmap[a[i]]
        BY ONLY <4>1, <4>4, Zenon
      <4>3. a[i] \in DOMAIN valmap
        BY <1>6, <4>1
      <4> QED
        BY <1>4, <4>2, <4>3
    <3>5. a = [i \in DOMAIN a |-> a[i]]
      <4>1. b[j] \in Ops(source)
        BY <1>5, <2>2
      <4>2. a \in Seq(UNION {Range(Results(source, q)) : q \in 1 .. b[j] - 1})
        BY <4>1 DEF IsSource
      <4> DEFINE U == UNION {Range(Results(source, q)) : q \in 1 .. b[j] - 1}
      <4> HIDE DEF a, U
      <4>3. a \in Seq(U)
        BY <4>2 DEF U
      <4> QED
        BY ONLY <4>3
    <3> HIDE DEF a, m
    <3>6. OpArgs(batched, op, j) = a
      BY <3>2, <3>3, <3>4, <3>5
    <3> QED
      BY <3>6 DEF a
  <2>4. \A i, j \in 1 .. Len(b) : b[i] = b[j] => i = j
    BY <1>2, <1>5 DEF Lists
  <2>5. \A x \in B : \E j \in 1 .. Len(b) : b[j] = x
    BY <1>2, <1>5 DEF Lists
  <2> HIDE DEF B
  <2>6. \A j \in OpPieces(op) : OpSrc(op, j) \in B /\ OpArgs(batched, op, j) = source[OpSrc(op, j)].args
    BY <2>1, <2>2, <2>3
  <2>7. \A i, j \in OpPieces(op) : OpSrc(op, i) = OpSrc(op, j) => i = j
    BY <2>1, <2>2, <2>4
  <2>8. \A x \in B : \E j \in OpPieces(op) : OpSrc(op, j) = x
    BY <2>1, <2>2, <2>5
  <2> QED
    BY <2>6, <2>7, <2>8 DEF OpComputes
<1>8a. ASSUME NEW x \in DOMAIN b, NEW y \in 1 .. source[b[x]].nret,
              NEW j \in DOMAIN b, NEW k \in 1 .. source[b[j]].nret, op.body[x].rets[y] = op.body[j].rets[k]
       PROVE  x = j /\ y = k
  <2> DEFINE r == op.body[x].rets[y]
             q == op.body[j].rets[k]
  <2>1. outputs[r] = <<b[x], y>>
    BY <1>2
  <2>2. outputs[q] = <<b[j], k>>
    BY <1>2
  <2>3. r = q
    BY <1>8a
  <2> HIDE DEF r, q
  <2>4. b[x] = b[j] /\ y = k
    BY ONLY <2>1, <2>2, <2>3
  <2>5. \A n, m \in DOMAIN b : b[n] = b[m] => n = m
    BY <1>5 DEF Lists
  <2> QED
    BY <2>4, <2>5
<1>9. ASSUME NEW j \in DOMAIN b, NEW k \in 1 .. source[b[j]].nret
      PROVE  WrittenBy(op.body, op.body[j].rets[k]) = <<b[j], k>>
  <2> DEFINE w == op.body[j].rets[k]
             P == {<<x, y>> : x \in DOMAIN op.body, y \in 1 .. 8}
             Q(p) == p[2] \in DOMAIN op.body[p[1]].rets /\ op.body[p[1]].rets[p[2]] = w
  <2>1. WrittenBy(op.body, w) = <<op.body[(CHOOSE p \in P : Q(p))[1]].src, (CHOOSE p \in P : Q(p))[2]>>
    BY DEF WrittenBy
  <2>2. <<j, k>> \in P /\ Q(<<j, k>>)
    <3>1. j \in DOMAIN op.body /\ k \in DOMAIN op.body[j].rets
      BY <1>2, <1>3
    <3>2. k \in 1 .. 8
      <4>1. source[b[j]].nret \in {1, 2}
        BY <1>2
      <4> QED
        BY <4>1
    <3> QED
      BY <3>1, <3>2
  <2>3. ASSUME NEW p \in P, Q(p) PROVE p = <<j, k>>
    <3>1. PICK x \in DOMAIN b, y \in 1 .. 8 : p = <<x, y>>
      BY <1>3
    <3>2. y \in 1 .. source[b[x]].nret /\ op.body[x].rets[y] = op.body[j].rets[k]
      BY <1>2, <2>3, <3>1
    <3>3. x = j /\ y = k
      BY <1>8a, <3>2
    <3> QED
      BY <3>1, <3>3
  <2> HIDE DEF P, Q, w
  <2>4. (CHOOSE p \in P : Q(p)) = <<j, k>>
    BY <2>2, <2>3
  <2> DEFINE c == CHOOSE p \in P : Q(p)
  <2>6. c[1] = j /\ c[2] = k
    <3>1. c = <<j, k>>
      BY <2>4
    <3> HIDE DEF c
    <3> QED
      BY ONLY <3>1
  <2>5. WrittenBy(op.body, w) = <<op.body[j].src, k>>
    <3>1. WrittenBy(op.body, w) = <<op.body[c[1]].src, c[2]>>
      BY <2>1
    <3> HIDE DEF c
    <3> QED
      BY ONLY <2>6, <3>1, Zenon
  <2> QED
    BY <1>3, <2>5 DEF w
<1>10. MapGrows(batched, source, op, B, valmap, vm2)
  <2>2. DOMAIN vm2 = DOMAIN valmap \cup DefinedBy(source, B) /\ \A v \in DOMAIN valmap : vm2[v] = valmap[v]
    BY <1>1a, <1>5
  <2>3. ASSUME NEW v \in DefinedBy(source, B)
        PROVE  \E w \in 1 .. op.nret : vm2[v] = <<Len(batched) + 1, w>> /\ Origin(op.kind, op.src, op.body, w) = v
    <3>1. PICK o \in B : \E k \in 1 .. source[o].nret : v = <<o, k>>
      BY ValueIn
    <3>2. PICK k \in 1 .. source[o].nret : v = <<o, k>>
      BY <3>1
    <3>3. PICK j \in DOMAIN b : b[j] = o
      BY DEF Range
    <3>4. vm2[v] = <<Len(batched) + 1, Position(outputs, v)>>
      BY <1>1a, <1>5
    <3> DEFINE w == Position(outputs, v)
               r == op.body[j].rets[k]
    <3>5. w \in 1 .. Len(outputs) /\ outputs[w] = v
      BY <1>5, PositionIs
    <3>6. r \in 1 .. Len(outputs) /\ outputs[r] = v
      BY <1>2, <3>2, <3>3
    <3>7. w = r
      <4>1. DOMAIN outputs = 1 .. Len(outputs)
        BY <1>5, ListFacts
      <4>2. \A x, y \in DOMAIN outputs : outputs[x] = outputs[y] => x = y
        BY <1>5 DEF Lists
      <4> HIDE DEF w, r
      <4> QED
        BY <3>5, <3>6, <4>1, <4>2
    <3>8. WrittenBy(op.body, r) = <<b[j], k>>
      BY <1>9, <3>2, <3>3
    <3>9. Origin(op.kind, op.src, op.body, w) = v
      BY <1>3, <3>2, <3>3, <3>7, <3>8 DEF Origin
    <3> HIDE DEF w, r
    <3>10. vm2[v] = <<Len(batched) + 1, w>> /\ w \in 1 .. op.nret
      BY <1>3, <3>4, <3>5 DEF w
    <3> QED
      BY <3>9, <3>10
  <2> QED
    BY <2>2, <2>3 DEF MapGrows
<1>11. Mapped(Append(batched, op), source, vm2, D \cup B)
  BY <1>5, <1>7, <1>8, <1>10, AppendMapped
<1>12. Translatable(inputs, outputs)
  BY <1>5 DEF Translatable
<1> QED
  BY <1>11, <1>12 DEF inputs, outputs, op, vm2

-----------------------------------------------------------------------------
(* The progress of the translation.                                        *)

(* What is translated when d operations of the order have been taken.      *)
DoneAt(full, bs, d, D) ==
  /\ D \subseteq Ops(source) /\ Prefix(full, d) \subseteq D
  /\ \A o \in D : source[o].kind # "pbs" => o \in Prefix(full, d)
  /\ \A o \in D : source[o].kind = "pbs" =>
       \E k \in DOMAIN bs : /\ o \in Range(bs[k]) /\ Range(bs[k]) \subseteq D
                            /\ \E q \in Range(bs[k]) : q \in Prefix(full, d)

(* What is left of an order.                                               *)
Remains(full, d, rest) ==
  /\ d \in Nat /\ d + Len(rest) = Len(full) /\ rest \in Seq(Range(rest))
  /\ \A n \in 1 .. Len(rest) : rest[n] = full[d + n]

(* The state of the translation.                                           *)
Translating(full, d, rest, bs, D) ==
  TransPlan(source, full, bs) /\ Remains(full, d, rest) /\ DoneAt(full, bs, d, D)

(* The next operation of the order.                                        *)
LEMMA NextTaken ==
  ASSUME NEW full, NEW d, NEW rest, NEW bs, NEW D, Translating(full, d, rest, bs, D), rest # << >>
  PROVE  /\ Head(rest) = full[d + 1] /\ d + 1 \in DOMAIN full /\ Head(rest) \in Ops(source)
         /\ Head(rest) \notin Prefix(full, d) /\ Prefix(full, d + 1) = Prefix(full, d) \cup {Head(rest)}
         /\ Remains(full, d + 1, Tail(rest)) /\ d \in Nat
<1>1. /\ d \in Nat /\ d + Len(rest) = Len(full) /\ rest \in Seq(Range(rest))
      /\ \A n \in 1 .. Len(rest) : rest[n] = full[d + n]
  BY DEF Translating, Remains
<1>2. Lists(full, Ops(source)) /\ DOMAIN full = 1 .. Len(full) /\ Len(full) \in Nat
  BY ListFacts DEF Translating, TransPlan
<1>3. Len(rest) \in Nat \ {0} /\ Head(rest) = rest[1] /\ DOMAIN rest = 1 .. Len(rest)
  BY <1>1
<1>4. Head(rest) = full[d + 1] /\ d + 1 \in DOMAIN full
  <2>1. 1 \in 1 .. Len(rest)
    BY <1>3
  <2> QED
    BY <1>1, <1>2, <1>3, <2>1
<1>5. full[d + 1] \in Ops(source)
  BY <1>2, <1>4, ListFacts
<1>6. full[d + 1] \notin Prefix(full, d)
  <2> SUFFICES ASSUME NEW m \in 1 .. d, full[d + 1] = full[m] PROVE FALSE
    BY DEF Prefix
  <2>1. m \in DOMAIN full /\ m # d + 1
    BY <1>1, <1>2, <1>4
  <2> QED
    BY <1>2, <1>4, <2>1 DEF Lists
<1>7. Prefix(full, d + 1) = Prefix(full, d) \cup {full[d + 1]}
  <2>1. 1 .. d + 1 = (1 .. d) \cup {d + 1}
    BY <1>1
  <2> QED
    BY <2>1 DEF Prefix
<1>8. Remains(full, d + 1, Tail(rest))
  <2> DEFINE t == Tail(rest)
             L == Len(rest)
             E == Range(rest)
  <2>1. rest \in Seq(E) /\ rest # << >>
    BY <1>1
  <2> HIDE DEF E
  <2>2. t \in Seq(E) /\ Len(t) = L - 1 /\ \A n \in 1 .. L - 1 : t[n] = rest[n + 1]
    BY <1>3, <2>1
  <2> HIDE DEF t
  <2>3. t \in Seq(Range(t))
    <3>1. \A n \in 1 .. Len(t) : t[n] \in Range(t)
      BY <2>2 DEF Range
    <3> QED
      BY <2>2, <3>1
  <2>4. \A n \in 1 .. Len(t) : t[n] = full[(d + 1) + n]
    <3> TAKE n \in 1 .. Len(t)
    <3>1. n \in 1 .. L - 1 /\ n + 1 \in 1 .. L /\ d + (n + 1) = (d + 1) + n
      <4>1. d \in Nat /\ L \in Nat /\ n \in 1 .. L - 1
        BY <1>1, <1>3, <2>2
      <4> HIDE DEF L
      <4> QED
        BY ONLY <4>1
    <3>2. rest[n + 1] = full[d + (n + 1)]
      BY <1>1, <3>1
    <3> QED
      BY <2>2, <3>1, <3>2
  <2>5. (d + 1) + Len(t) = Len(full) /\ d + 1 \in Nat
    <3> DEFINE N == Len(full)
               T == Len(t)
    <3>1. d \in Nat /\ L \in Nat /\ d + L = N /\ T = L - 1
      BY <1>1, <1>3, <2>2
    <3> HIDE DEF L, N, T
    <3>2. (d + 1) + T = N /\ d + 1 \in Nat
      BY ONLY <3>1
    <3> QED
      BY <3>2 DEF N, T
  <2> QED
    BY <2>3, <2>4, <2>5 DEF Remains, t
<1> QED
  BY <1>1, <1>4, <1>5, <1>6, <1>7, <1>8

(* When it is no bootstrap, what it reads is translated.                   *)
LEMMA SingleTaken ==
  ASSUME NEW full, NEW d, NEW rest, NEW bs, NEW D, Translating(full, d, rest, bs, D), rest # << >>,
         source[Head(rest)].kind # "pbs"
  PROVE  /\ Head(rest) \notin D /\ Preds(source, Head(rest)) \subseteq D
         /\ Translating(full, d + 1, Tail(rest), bs, D \cup {Head(rest)})
<1> DEFINE o == Head(rest)
<1>1. /\ o = full[d + 1] /\ d + 1 \in DOMAIN full /\ o \in Ops(source)
      /\ o \notin Prefix(full, d) /\ Prefix(full, d + 1) = Prefix(full, d) \cup {o}
      /\ Remains(full, d + 1, Tail(rest)) /\ d \in Nat
  BY NextTaken
<1>2. DoneAt(full, bs, d, D) /\ TransPlan(source, full, bs)
  BY DEF Translating
<1> HIDE DEF o
<1>3. o \notin D
  BY <1>1, <1>2 DEF DoneAt, o
<1>4. Preds(source, o) \subseteq D
  <2>1. (d + 1) - 1 = d
    BY <1>1
  <2>2. Preds(source, o) \subseteq Prefix(full, (d + 1) - 1)
    BY <1>1, <1>2 DEF TransPlan, o
  <2>3. Prefix(full, d) \subseteq D
    BY <1>2 DEF DoneAt
  <2> QED
    BY <2>1, <2>2, <2>3
<1>5. DoneAt(full, bs, d + 1, D \cup {o})
  <2>1. source[o].kind # "pbs"
    BY DEF o
  <2>2. /\ D \subseteq Ops(source) /\ Prefix(full, d) \subseteq D
        /\ \A x \in D : source[x].kind # "pbs" => x \in Prefix(full, d)
        /\ \A x \in D : source[x].kind = "pbs" =>
             \E k \in DOMAIN bs : /\ x \in Range(bs[k]) /\ Range(bs[k]) \subseteq D
                                  /\ \E q \in Range(bs[k]) : q \in Prefix(full, d)
    BY <1>2 DEF DoneAt
  <2>3. /\ D \cup {o} \subseteq Ops(source) /\ Prefix(full, d + 1) \subseteq D \cup {o}
        /\ \A x \in D \cup {o} : source[x].kind # "pbs" => x \in Prefix(full, d + 1)
    BY <1>1, <2>2
  <2>4. \A x \in D \cup {o} : source[x].kind = "pbs" =>
             \E k \in DOMAIN bs : /\ x \in Range(bs[k]) /\ Range(bs[k]) \subseteq D \cup {o}
                                  /\ \E q \in Range(bs[k]) : q \in Prefix(full, d + 1)
    <3> SUFFICES ASSUME NEW x \in D \cup {o}, source[x].kind = "pbs"
                 PROVE  \E k \in DOMAIN bs : /\ x \in Range(bs[k]) /\ Range(bs[k]) \subseteq D \cup {o}
                                             /\ \E q \in Range(bs[k]) : q \in Prefix(full, d + 1)
      OBVIOUS
    <3>1. x \in D
      BY <2>1
    <3>2. PICK k \in DOMAIN bs : /\ x \in Range(bs[k]) /\ Range(bs[k]) \subseteq D
                                 /\ \E q \in Range(bs[k]) : q \in Prefix(full, d)
      BY <2>2, <3>1
    <3> QED
      BY <1>1, <3>2
  <2> QED
    BY <2>3, <2>4 DEF DoneAt
<1> QED
  BY <1>1, <1>2, <1>3, <1>4, <1>5 DEF Translating, o

(* When it is translated, with its batch, nothing changes.                 *)
LEMMA MemberTaken ==
  ASSUME NEW full, NEW d, NEW rest, NEW bs, NEW D, Translating(full, d, rest, bs, D), rest # << >>,
         Head(rest) \in D
  PROVE  Translating(full, d + 1, Tail(rest), bs, D)
<1> DEFINE o == Head(rest)
<1>1. /\ o \notin Prefix(full, d) /\ Prefix(full, d + 1) = Prefix(full, d) \cup {o}
      /\ Remains(full, d + 1, Tail(rest)) /\ d \in Nat
  BY NextTaken
<1>2. DoneAt(full, bs, d, D) /\ TransPlan(source, full, bs) /\ o \in D
  BY DEF Translating
<1> HIDE DEF o
<1>3. DoneAt(full, bs, d + 1, D)
  <2>2. /\ D \subseteq Ops(source) /\ Prefix(full, d) \subseteq D
        /\ \A x \in D : source[x].kind # "pbs" => x \in Prefix(full, d)
        /\ \A x \in D : source[x].kind = "pbs" =>
             \E k \in DOMAIN bs : /\ x \in Range(bs[k]) /\ Range(bs[k]) \subseteq D
                                  /\ \E q \in Range(bs[k]) : q \in Prefix(full, d)
    BY <1>2 DEF DoneAt
  <2>3. /\ Prefix(full, d + 1) \subseteq D
        /\ \A x \in D : source[x].kind # "pbs" => x \in Prefix(full, d + 1)
    BY <1>1, <1>2, <2>2
  <2>4. \A x \in D : source[x].kind = "pbs" =>
             \E k \in DOMAIN bs : /\ x \in Range(bs[k]) /\ Range(bs[k]) \subseteq D
                                  /\ \E q \in Range(bs[k]) : q \in Prefix(full, d + 1)
    BY <1>1, <2>2
  <2> QED
    BY <2>2, <2>3, <2>4 DEF DoneAt
<1> QED
  BY <1>1, <1>2, <1>3 DEF Translating

(* When it is the first of its batch, what the batch reads is translated.  *)
LEMMA BatchTaken ==
  ASSUME NEW full, NEW d, NEW rest, NEW bs, NEW D, Translating(full, d, rest, bs, D), rest # << >>,
         Head(rest) \notin D, source[Head(rest)].kind = "pbs"
  PROVE  \E k \in DOMAIN bs :
           /\ Head(rest) \in Range(bs[k]) /\ MayBatch(bs[k], D)
           /\ \A c \in DOMAIN bs : Head(rest) \in Range(bs[c]) => c = k
           /\ Translating(full, d + 1, Tail(rest), bs, D \cup Range(bs[k]))
<1> DEFINE o == Head(rest)
<1>1. /\ o = full[d + 1] /\ d + 1 \in DOMAIN full /\ o \in Ops(source)
      /\ o \notin Prefix(full, d) /\ Prefix(full, d + 1) = Prefix(full, d) \cup {o}
      /\ Remains(full, d + 1, Tail(rest)) /\ d \in Nat
  BY NextTaken
<1>2. DoneAt(full, bs, d, D) /\ TransPlan(source, full, bs) /\ o \notin D /\ source[o].kind = "pbs"
  BY DEF Translating
<1> HIDE DEF o
<1>3. /\ D \subseteq Ops(source) /\ Prefix(full, d) \subseteq D
      /\ \A x \in D : source[x].kind # "pbs" => x \in Prefix(full, d)
      /\ \A x \in D : source[x].kind = "pbs" =>
           \E k \in DOMAIN bs : /\ x \in Range(bs[k]) /\ Range(bs[k]) \subseteq D
                                /\ \E q \in Range(bs[k]) : q \in Prefix(full, d)
  BY <1>2 DEF DoneAt
<1>4. /\ \A k \in DOMAIN bs : /\ Lists(bs[k], Range(bs[k]))
                              /\ \A x \in Range(bs[k]) : x \in Ops(source) /\ source[x].kind = "pbs"
      /\ \A k, c \in DOMAIN bs : \A x \in Range(bs[k]) : x \in Range(bs[c]) => k = c
      /\ \A x \in Ops(source) : source[x].kind = "pbs" => \E k \in DOMAIN bs : x \in Range(bs[k])
  BY <1>2 DEF TransPlan, BatchesOf
<1>5. PICK k \in DOMAIN bs : o \in Range(bs[k])
  BY <1>1, <1>2, <1>4
<1>6. PICK s \in Nat :
        /\ s + 1 \in DOMAIN full /\ full[s + 1] \in Range(bs[k])
        /\ \A x \in Range(bs[k]) : x \notin Prefix(full, s) /\ Preds(source, x) \subseteq Prefix(full, s)
  BY <1>2 DEF TransPlan
<1>7. s <= d
  <2> SUFFICES ASSUME ~ (s <= d) PROVE FALSE
    OBVIOUS
  <2>1. d + 1 \in 1 .. s
    BY <1>1
  <2>2. o \in Prefix(full, s)
    BY <1>1, <2>1 DEF Prefix
  <2> QED
    BY <1>5, <1>6, <2>2
<1>8. ~ (s < d)
  <2> SUFFICES ASSUME s < d PROVE FALSE
    OBVIOUS
  <2> DEFINE q == full[s + 1]
  <2>1. s + 1 \in 1 .. d
    BY <1>1
  <2>2. q \in Prefix(full, d)
    BY <2>1 DEF Prefix
  <2>3. q \in D /\ q \in Range(bs[k])
    BY <1>3, <1>6, <2>2
  <2> HIDE DEF q
  <2>4. PICK c \in DOMAIN bs : q \in Range(bs[c]) /\ Range(bs[c]) \subseteq D
    BY <1>3, <1>4, <2>3
  <2>5. c = k
    BY <1>4, <2>3, <2>4
  <2> QED
    BY <1>2, <1>5, <2>4, <2>5
<1>9. s = d
  BY <1>1, <1>7, <1>8
<1>10. \A x \in Range(bs[k]) : x \notin Prefix(full, d) /\ Preds(source, x) \subseteq Prefix(full, d)
  BY <1>6, <1>9
<1>11. ASSUME NEW x \in Range(bs[k]), x \in D PROVE FALSE
  <2>1. PICK c \in DOMAIN bs : x \in Range(bs[c]) /\ \E q \in Range(bs[c]) : q \in Prefix(full, d)
    BY <1>3, <1>4, <1>11
  <2>2. c = k
    BY <1>4, <2>1
  <2> QED
    BY <1>10, <2>1, <2>2
<1>12. MayBatch(bs[k], D)
  <2>1. \A x \in Range(bs[k]) : Preds(source, x) \subseteq D
    BY <1>3, <1>10
  <2> QED
    BY <1>4, <1>11, <2>1 DEF MayBatch
<1> DEFINE B == Range(bs[k])
<1>13. DoneAt(full, bs, d + 1, D \cup B)
  <2>1. /\ D \cup B \subseteq Ops(source) /\ Prefix(full, d + 1) \subseteq D \cup B
        /\ \A x \in D \cup B : source[x].kind # "pbs" => x \in Prefix(full, d + 1)
    BY <1>1, <1>3, <1>4, <1>5
  <2>2. \A x \in D \cup B : source[x].kind = "pbs" =>
           \E c \in DOMAIN bs : /\ x \in Range(bs[c]) /\ Range(bs[c]) \subseteq D \cup B
                                /\ \E q \in Range(bs[c]) : q \in Prefix(full, d + 1)
    <3> SUFFICES ASSUME NEW x \in D \cup B, source[x].kind = "pbs"
                 PROVE  \E c \in DOMAIN bs : /\ x \in Range(bs[c]) /\ Range(bs[c]) \subseteq D \cup B
                                             /\ \E q \in Range(bs[c]) : q \in Prefix(full, d + 1)
      OBVIOUS
    <3>1. CASE x \in D
      <4>1. PICK c \in DOMAIN bs : /\ x \in Range(bs[c]) /\ Range(bs[c]) \subseteq D
                                   /\ \E q \in Range(bs[c]) : q \in Prefix(full, d)
        BY <1>3, <3>1
      <4> HIDE DEF B
      <4> QED
        BY <1>1, <4>1
    <3>2. CASE x \in B
      BY <1>1, <1>5, <3>2
    <3> QED
      BY <3>1, <3>2
  <2> QED
    BY <2>1, <2>2 DEF DoneAt
<1>14. Translating(full, d + 1, Tail(rest), bs, D \cup B)
  BY <1>1, <1>2, <1>13 DEF Translating
<1>15. \A c \in DOMAIN bs : o \in Range(bs[c]) => c = k
  BY <1>4, <1>5
<1> QED
  BY <1>5, <1>12, <1>14, <1>15 DEF o

-----------------------------------------------------------------------------
(* The steps of the batcher.                                               *)

(* What the batcher keeps: a walk its counts and its plan, the translation *)
(* that what is translated means what the source does.                     *)
InWalk == WalkInv(source, walk, waiting, order, worklist, ready, batches) /\ batched = << >> /\ valmap = << >>

(* The forward walk is complete, the batches are those of a complete walk, *)
(* the translation goes on, and it is complete.                            *)
TurnedBack == WalkDone(source, "forward", forward.order, forward.batches)
Batched == \E dir, seq : WalkDone(source, dir, seq, batches)
InTranslation ==
  \E full, d, D : Translating(full, d, order, batches, D) /\ Mapped(batched, source, valmap, D)
BatchedRight == WellFormed(batched) /\ Faithful(batched, source)

(* The invariant of the batcher.                                           *)
BatchInv ==
  /\ IsSource(source)
  /\ walk \in {"forward", "backward", "translate", "done"}
  /\ walk \in {"forward", "backward"} => InWalk
  /\ walk = "backward" => TurnedBack
  /\ walk \in {"translate", "done"} => Batched
  /\ walk = "translate" => InTranslation
  /\ walk = "done" => BatchedRight

(* What follows an operation is what waits for it.                         *)
LEMMA WalkGoesOn ==
  ASSUME IsSource(source), NEW o \in Ops(source)
  PROVE  Next_(o) = Releases(source, walk)[o]
BY DEF Next_, Releases, UsersOf, PredsOf

(* The invariant of the batcher holds at the start.                        *)
LEMMA BatcherStarts ==
  ASSUME BatcherInit
  PROVE  BatchInv
<1>1. IsSource(source) /\ walk = "forward" /\ waiting = Predecessors(source) /\ worklist = Free(waiting)
      /\ ready = << >> /\ order = << >> /\ batches = << >> /\ batched = << >> /\ valmap = << >>
  BY SourcesAssumption DEF BatcherInit
<1>2. Counted(source, "forward", waiting, {})
  <2>1. \A o \in Ops(source) : WaitsFor(source, "forward")[o] \ {} = Preds(source, o)
    BY DEF WaitsFor, PredsOf
  <2> QED
    BY <1>1, <2>1 DEF Counted, Predecessors
<1>3. WalkInv(source, "forward", waiting, << >>, Free(waiting), << >>, << >>)
  BY <1>1, <1>2, WalkStarts
<1>4. WalkInv(source, walk, waiting, order, worklist, ready, batches)
  BY ONLY <1>1, <1>3, Zenon
<1> QED
  BY <1>1, <1>4 DEF BatchInv, InWalk

(* Visit keeps it.                                                         *)
LEMMA VisitStep ==
  ASSUME BatchInv, Visit
  PROVE  BatchInv'
<1> DEFINE o == Head(worklist)
           U == Released(o)
           wl == Tail(worklist) \o Ascending({u \in U : ~ (source[u].kind = "pbs")})
           rd == ready \o Ascending({u \in U : source[u].kind = "pbs"})
<1>1. /\ walk \in {"forward", "backward"} /\ worklist # << >>
      /\ order' = Append(order, o)
      /\ waiting' = [u \in Ops(source) |-> waiting[u] - (IF u \in Next_(o) THEN 1 ELSE 0)]
      /\ worklist' = wl /\ ready' = rd
      /\ UNCHANGED <<source, walk, batches, forward, batched, valmap>>
  BY DEF Visit, Walking, Queued, IsPbs
<1>2. IsSource(source) /\ WalkInv(source, walk, waiting, order, worklist, ready, batches)
      /\ batched = << >> /\ valmap = << >> /\ (walk = "backward" => TurnedBack)
  BY <1>1 DEF BatchInv, InWalk
<1>3. o \in Ops(source)
  <2>1. Lists(worklist, Range(worklist)) /\ Range(worklist) \subseteq Ops(source)
    BY <1>2 DEF WalkInv, Queues
  <2>2. worklist \in Seq(Range(worklist))
    BY <2>1 DEF Lists
  <2>3. o \in Range(worklist)
    BY <1>1, <2>2
  <2> QED
    BY <2>1, <2>3
<1>4. CountsDown(source, walk, o, waiting, waiting', U)
  <2>1. Next_(o) = Releases(source, walk)[o]
    BY <1>2, <1>3, WalkGoesOn
  <2> QED
    BY <1>1, <2>1 DEF CountsDown, Released
<1>5. WalkInv(source, walk, waiting', Append(order, o), wl, rd, batches)
  <2> DEFINE w2 == waiting'
  <2>1. CountsDown(source, walk, Head(worklist), waiting, w2, U) /\ worklist # << >>
    BY <1>1, <1>4
  <2> HIDE DEF w2, U
  <2> QED
    BY <1>2, <2>1, VisitKeeps DEF w2
<1> HIDE DEF o, wl, rd
<1>6. WalkInv(source', walk', waiting', order', worklist', ready', batches')
  BY ONLY <1>1, <1>5, Zenon
<1>7. (walk = "backward" => TurnedBack)' /\ walk' = walk /\ IsSource(source')
  BY <1>1, <1>2 DEF TurnedBack
<1> QED
  BY <1>1, <1>2, <1>6, <1>7 DEF BatchInv, InWalk

(* CloseBatch keeps it.                                                    *)
LEMMA CloseStep ==
  ASSUME BatchInv, CloseBatch
  PROVE  BatchInv'
<1> DEFINE sorted == SortedBy(ready, Priority)
           size == Min({BatchSize, Len(ready)})
           b == SubSeq(Reverse(sorted), 1, size)
           rest == SubSeq(sorted, 1, Len(sorted) - size)
<1>1. /\ walk \in {"forward", "backward"} /\ worklist = << >> /\ ready # << >>
      /\ batches' = Append(batches, b) /\ worklist' = worklist \o b /\ ready' = rest
      /\ UNCHANGED <<source, walk, waiting, order, forward, batched, valmap>>
  BY DEF CloseBatch, MayClose, Walking
<1>2. IsSource(source) /\ WalkInv(source, walk, waiting, order, worklist, ready, batches)
      /\ batched = << >> /\ valmap = << >> /\ (walk = "backward" => TurnedBack)
  BY <1>1 DEF BatchInv, InWalk
<1>3. Lists(ready, Range(ready)) /\ \A x \in Range(ready) : x \in Ops(source)
  BY <1>2 DEF WalkInv, Queues
<1>4. Lists(sorted, Range(ready))
  <2>1. \A x \in Range(ready) : Priority[x] \in Nat
    BY <1>2, <1>3, PriorityRight
  <2> DEFINE key == Priority
             S == Range(ready)
  <2> HIDE DEF key, S
  <2>2. Lists(ready, S) /\ \A x \in S : key[x] \in Nat
    BY <1>3, <2>1 DEF key, S
  <2>3. Lists(SortedBy(ready, key), S)
    BY ONLY <2>2, SortedOnce
  <2> QED
    BY <2>3 DEF key, S
<1> HIDE DEF sorted
<1>5. Cut(sorted, size, b, rest)
  BY DEF Cut
<1>6. WalkInv(source, walk, waiting, order, << >>, ready, batches)
  BY <1>1, <1>2
<1> HIDE DEF b, rest
<1>7. WalkInv(source, walk, waiting, order, b, rest, Append(batches, b))
  <2>1. size = Min({BatchSize, Len(ready)})
    OBVIOUS
  <2> HIDE DEF size
  <2> QED
    BY ONLY <1>1, <1>4, <1>5, <1>6, <2>1, BatchKeeps
<1>8. worklist' = b
  <2>1. Lists(b, Range(b))
    BY <1>7 DEF WalkInv, Queues
  <2>2. b \in Seq(Range(b))
    BY <2>1 DEF Lists
  <2> QED
    BY <1>1, <2>2
<1>9. WalkInv(source', walk', waiting', order', worklist', ready', batches')
  BY ONLY <1>1, <1>7, <1>8, Zenon
<1>10. (walk = "backward" => TurnedBack)' /\ walk' = walk /\ IsSource(source')
  BY <1>1, <1>2 DEF TurnedBack
<1> QED
  BY <1>1, <1>2, <1>9, <1>10 DEF BatchInv, InWalk

(* TurnBack keeps it: the queues of the forward walk are empty, so it is   *)
(* complete.                                                               *)
LEMMA TurnBackStep ==
  ASSUME BatchInv, TurnBack
  PROVE  BatchInv'
<1>1. /\ walk = "forward" /\ worklist = << >> /\ ready = << >> /\ walk' = "backward"
      /\ forward' = [batches |-> batches, order |-> order]
      /\ waiting' = Followers(source) /\ worklist' = Free(waiting')
      /\ ready' = << >> /\ order' = << >> /\ batches' = << >>
      /\ UNCHANGED <<source, batched, valmap>>
  BY DEF TurnBack
<1>2. IsSource(source) /\ WalkInv(source, "forward", waiting, order, << >>, << >>, batches)
      /\ batched = << >> /\ valmap = << >>
  BY <1>1 DEF BatchInv, InWalk
<1>3. WalkDone(source, "forward", order, batches)
  BY <1>2, WalkCompletes DEF WalkDone
<1>4. TurnedBack'
  BY <1>1, <1>3 DEF TurnedBack
<1>5. Counted(source, "backward", Followers(source), {})
  <2>1. \A o \in Ops(source) : WaitsFor(source, "backward")[o] \ {} = Users(source, o)
    BY DEF WaitsFor, UsersOf
  <2> QED
    BY <2>1 DEF Counted, Followers
<1>6. WalkInv(source, "backward", Followers(source), << >>, Free(Followers(source)), << >>, << >>)
  BY <1>2, <1>5, WalkStarts
<1>7. WalkInv(source', walk', waiting', order', worklist', ready', batches')
  BY ONLY <1>1, <1>6, Zenon
<1> QED
  BY <1>1, <1>2, <1>4, <1>7 DEF BatchInv, InWalk

(* The empty program computes nothing, and maps nothing.                   *)
LEMMA NothingMapped ==
  ASSUME NEW src
  PROVE  Mapped(<< >>, src, << >>, {})
<1>1. DOMAIN << >> = {} /\ Ops(<< >>) = {} /\ << >> \in Seq(Range(<< >>))
  <2>1. DOMAIN << >> = {}
    OBVIOUS
  <2>2. << >> \in Seq(Range(<< >>))
    OBVIOUS
  <2> QED
    BY <2>1, <2>2 DEF Ops
<1>2. WellFormed(<< >>)
  BY <1>1 DEF WellFormed
<1>3. Pieces(<< >>) = {}
  BY <1>1 DEF Pieces
<1>4. Covers(<< >>, src, {})
  BY <1>2, <1>3 DEF Covers, Computes
<1>5. DefinedBy(src, {}) = {}
  BY DEF DefinedBy
<1> QED
  BY <1>1, <1>4, <1>5 DEF Mapped

(* So the translation starts.                                              *)
LEMMA TranslationStarts ==
  ASSUME NEW full, NEW bs, TransPlan(source, full, bs)
  PROVE  Translating(full, 0, full, bs, {})
<1>1. Lists(full, Ops(source)) /\ Range(full) = Ops(source) /\ Len(full) \in Nat
  BY ListFacts DEF TransPlan
<1>2. Remains(full, 0, full)
  <2>1. full \in Seq(Range(full))
    BY <1>1 DEF Lists
  <2>2. 0 + Len(full) = Len(full) /\ \A n \in 1 .. Len(full) : full[n] = full[0 + n]
    BY <1>1
  <2> QED
    BY <2>1, <2>2 DEF Remains
<1>3. Prefix(full, 0) = {}
  BY DEF Prefix
<1>4. DoneAt(full, bs, 0, {})
  BY <1>3 DEF DoneAt
<1> QED
  BY <1>2, <1>4 DEF Translating

(* Choose keeps it: either order is one to translate in.                   *)
LEMMA ChooseStep ==
  ASSUME BatchInv, Choose
  PROVE  BatchInv'
<1>1. /\ walk = "backward" /\ worklist = << >> /\ ready = << >> /\ walk' = "translate"
      /\ UNCHANGED <<source, waiting, worklist, ready, forward, batched, valmap>>
      /\ \/ batches' = forward.batches /\ order' = forward.order
         \/ batches' = batches /\ order' = Reverse(order)
  BY DEF Choose
<1>2. /\ IsSource(source) /\ WalkInv(source, "backward", waiting, order, << >>, << >>, batches)
      /\ batched = << >> /\ valmap = << >> /\ WalkDone(source, "forward", forward.order, forward.batches)
  BY <1>1 DEF BatchInv, InWalk, TurnedBack
<1>3. WalkDone(source, "backward", order, batches)
  BY <1>2, WalkCompletes DEF WalkDone
<1>4. TransPlan(source, forward.order, forward.batches)
  BY <1>2, ForwardPlan
<1>5. TransPlan(source, Reverse(order), batches)
  BY <1>2, <1>3, BackwardPlan
<1> DEFINE full == order'
           bs == batches'
<1>6. TransPlan(source, full, bs) /\ \E dir, seq : WalkDone(source, dir, seq, bs)
  <2>1. CASE bs = forward.batches /\ full = forward.order
    BY <1>2, <1>4, <2>1
  <2>2. CASE bs = batches /\ full = Reverse(order)
    BY <1>3, <1>5, <2>2
  <2> QED
    BY <1>1, <2>1, <2>2
<1>7. Translating(full, 0, full, bs, {})
  <2> HIDE DEF full, bs
  <2> QED
    BY <1>6, TranslationStarts
<1>8. Mapped(<< >>, source, << >>, {})
  BY NothingMapped
<1>9. source' = source /\ batched' = << >> /\ valmap' = << >>
  BY <1>1, <1>2
<1>10. InTranslation'
  <2>2. Translating(full, 0, order', batches', {}) /\ Mapped(batched', source', valmap', {})
    BY <1>7, <1>8, <1>9
  <2> QED
    BY <1>7, <1>9, <2>2 DEF InTranslation, Translating, TransPlan, DoneAt
<1>11. Batched'
  BY <1>6, <1>9 DEF Batched
<1> QED
  BY <1>1, <1>2, <1>10, <1>11 DEF BatchInv

(* A bootstrap is translated when its first result is in the map.          *)
LEMMA BootstrapDone ==
  ASSUME IsSource(source), NEW D, Mapped(batched, source, valmap, D), NEW o \in Ops(source), source[o].kind = "pbs"
  PROVE  <<o, 1>> \in DOMAIN valmap <=> o \in D
<1>1. DOMAIN valmap = DefinedBy(source, D)
  BY DEF Mapped
<1>2. source[o].nret \in {1, 2}
  BY DEF IsSource
<1>3. ASSUME o \in D PROVE <<o, 1>> \in DOMAIN valmap
  <2>1. \E q \in D : \E k \in 1 .. source[q].nret : <<o, 1>> = <<q, k>>
    BY <1>2, <1>3
  <2> QED
    BY <1>1, <2>1, ValueIn
<1>4. ASSUME <<o, 1>> \in DOMAIN valmap PROVE o \in D
  <2>1. \E q \in D : \E k \in 1 .. source[q].nret : <<o, 1>> = <<q, k>>
    BY <1>1, <1>4, ValueIn
  <2> QED
    BY <2>1
<1> QED
  BY <1>3, <1>4

(* The batch that a bootstrap is translated with.                          *)
LEMMA BatchFound ==
  ASSUME NEW o, NEW k \in DOMAIN batches, o \in Range(batches[k]),
         \A c \in DOMAIN batches : o \in Range(batches[c]) => c = k
  PROVE  BatchOf(o) = batches[k] /\ \E b \in Range(batches) : o \in Members(b)
<1>1. \A b : Members(b) = Range(b)
  BY DEF Members, Range
<1>2. batches[k] \in Range(batches) /\ o \in Members(batches[k])
  BY <1>1 DEF Range
<1>3. ASSUME NEW b \in Range(batches), o \in Members(b) PROVE b = batches[k]
  <2>1. PICK c \in DOMAIN batches : b = batches[c]
    BY DEF Range
  <2>2. o \in Range(batches[c])
    BY <1>1, <1>3, <2>1
  <2> QED
    BY <2>1, <2>2
<1> QED
  BY <1>2, <1>3 DEF BatchOf

(* The next operation of the order can be translated, and what is          *)
(* translated then still computes what the source does.                    *)
LEMMA TranslatesNext ==
  ASSUME IsSource(source), InTranslation, order # << >>
  PROVE  CanTranslate(Head(order)) /\ (Translate => InTranslation')
<1>1. PICK full, d, D : Translating(full, d, order, batches, D) /\ Mapped(batched, source, valmap, D)
  BY DEF InTranslation
<1> DEFINE o == Head(order)
<1>2. o \in Ops(source) /\ o = Head(order)
  BY <1>1, NextTaken
<1>3. ASSUME NEW E, NEW e, NEW code, NEW vm,
             Translating(full, e, Tail(order), batches, E), Mapped(code, source, vm, E),
             Translate, batched' = code, valmap' = vm
      PROVE  InTranslation'
  <2>1. order' = Tail(order) /\ source' = source /\ batches' = batches
    BY <1>3 DEF Translate
  <2>2. Translating(full, e, order', batches', E) /\ Mapped(batched', source', valmap', E)
    BY <1>3, <2>1
  <2> QED
    BY <2>1, <2>2 DEF InTranslation, Translating, TransPlan, DoneAt
<1> HIDE DEF o
<1>4. CASE source[o].kind # "pbs"
  <2>1. o \notin D /\ Preds(source, o) \subseteq D /\ Translating(full, d + 1, Tail(order), batches, D \cup {o})
    BY <1>1, <1>4, SingleTaken DEF o
  <2>2. /\ Mapped(Append(batched, Single(o)), source, Define(Results(source, o)), D \cup {o})
        /\ Translatable(source[o].args, Results(source, o))
    BY <1>1, <1>2, <1>4, <2>1, SingleMapped
  <2>3. CanTranslate(o)
    BY <1>4, <2>2 DEF CanTranslate, IsPbs
  <2>4. Translate => batched' = Append(batched, Single(o)) /\ valmap' = Define(Results(source, o))
    BY <1>4 DEF Translate, IsPbs, o
  <2>5. Translate => InTranslation'
    BY <1>3, <2>1, <2>2, <2>4
  <2> QED
    BY <1>2, <2>3, <2>5
<1>5. CASE source[o].kind = "pbs" /\ o \in D
  <2>1. <<o, 1>> \in DOMAIN valmap
    BY <1>1, <1>2, <1>5, BootstrapDone
  <2>2. Translating(full, d + 1, Tail(order), batches, D)
    BY <1>1, <1>5, MemberTaken DEF o
  <2>3. CanTranslate(o)
    BY <1>5, <2>1 DEF CanTranslate, IsPbs
  <2>4. Translate => batched' = batched /\ valmap' = valmap
    BY <1>5, <2>1 DEF Translate, IsPbs, o
  <2>5. Translate => InTranslation'
    BY <1>1, <1>3, <2>2, <2>4
  <2> QED
    BY <1>2, <2>3, <2>5
<1>6. CASE source[o].kind = "pbs" /\ o \notin D
  <2>1. PICK k \in DOMAIN batches :
          /\ o \in Range(batches[k]) /\ MayBatch(batches[k], D)
          /\ \A c \in DOMAIN batches : o \in Range(batches[c]) => c = k
          /\ Translating(full, d + 1, Tail(order), batches, D \cup Range(batches[k]))
    BY <1>1, <1>6, BatchTaken DEF o
  <2>2. BatchOf(o) = batches[k] /\ \E b \in Range(batches) : o \in Members(b)
    BY <2>1, BatchFound
  <2> DEFINE b == batches[k]
  <2>3. /\ Mapped(Append(batched, BatchOp(b)), source, Define(Outputs(b)), D \cup Range(b))
        /\ Translatable(Inputs(b), Outputs(b))
    BY <1>1, <2>1, BatchMapped
  <2> HIDE DEF b
  <2>4. <<o, 1>> \notin DOMAIN valmap
    BY <1>1, <1>2, <1>6, BootstrapDone
  <2>5. BatchOf(o) = b
    BY <2>2 DEF b
  <2>6. CanTranslate(o)
    BY <1>6, <2>2, <2>3, <2>5 DEF CanTranslate, IsPbs
  <2>7. Translate => batched' = Append(batched, BatchOp(b)) /\ valmap' = Define(Outputs(b))
    BY <1>6, <2>4, <2>5 DEF Translate, IsPbs, o
  <2>8. Translating(full, d + 1, Tail(order), batches, D \cup Range(b))
    BY <2>1 DEF b
  <2>9. Translate => InTranslation'
    BY <1>3, <2>3, <2>7, <2>8
  <2> QED
    BY <1>2, <2>6, <2>9
<1> QED
  BY <1>4, <1>5, <1>6

(* Translate keeps it.                                                     *)
LEMMA TranslateStep ==
  ASSUME BatchInv, Translate
  PROVE  BatchInv'
<1>1. /\ walk = "translate" /\ order # << >>
      /\ UNCHANGED <<source, walk, waiting, worklist, ready, batches, forward>>
  BY DEF Translate
<1>2. IsSource(source) /\ InTranslation /\ Batched
  BY <1>1 DEF BatchInv
<1>3. InTranslation'
  BY <1>1, <1>2, TranslatesNext
<1>4. Batched'
  BY <1>1, <1>2 DEF Batched
<1> QED
  BY <1>1, <1>2, <1>3, <1>4 DEF BatchInv

(* When the order is used up, the whole source is translated.              *)
LEMMA AllTranslated ==
  ASSUME InTranslation, order = << >>
  PROVE  BatchedRight
<1>1. PICK full, d, D : Translating(full, d, order, batches, D) /\ Mapped(batched, source, valmap, D)
  BY DEF InTranslation
<1>2. /\ TransPlan(source, full, batches) /\ d \in Nat /\ d + Len(order) = Len(full)
      /\ D \subseteq Ops(source) /\ Prefix(full, d) \subseteq D
  BY <1>1 DEF Translating, Remains, DoneAt
<1>3. d = Len(full)
  BY <1>2
<1>4. Lists(full, Ops(source)) /\ DOMAIN full = 1 .. Len(full) /\ Range(full) = Ops(source)
  BY <1>2, ListFacts DEF TransPlan
<1>5. D = Ops(source)
  BY <1>2, <1>3, <1>4 DEF Prefix, Range
<1>6. Covers(batched, source, Ops(source))
  BY <1>1, <1>5 DEF Mapped
<1> QED
  BY <1>6 DEF Covers, BatchedRight, Faithful

(* Translated keeps it.                                                    *)
LEMMA TranslatedStep ==
  ASSUME BatchInv, Translated
  PROVE  BatchInv'
<1>1. /\ walk = "translate" /\ order = << >> /\ walk' = "done"
      /\ UNCHANGED <<source, waiting, worklist, ready, order, batches, forward, batched, valmap>>
  BY DEF Translated
<1>2. IsSource(source) /\ InTranslation /\ Batched
  BY <1>1 DEF BatchInv
<1>3. BatchedRight
  BY <1>1, <1>2, AllTranslated
<1>4. Batched' /\ BatchedRight'
  BY <1>1, <1>2, <1>3 DEF Batched, BatchedRight
<1> QED
  BY <1>1, <1>2, <1>4 DEF BatchInv

(* It is about the variables of the batcher.                               *)
LEMMA BatcherStutters ==
  ASSUME BatchInv, UNCHANGED bvars
  PROVE  BatchInv'
<1>1. UNCHANGED <<source, walk, waiting, worklist, ready, order, batches, forward, batched, valmap>>
  BY DEF bvars
<1>2. (walk \in {"forward", "backward"} => InWalk) => (walk \in {"forward", "backward"} => InWalk)'
  BY <1>1 DEF InWalk
<1>3. (walk = "backward" => TurnedBack) => (walk = "backward" => TurnedBack)'
  BY <1>1 DEF TurnedBack
<1>4. (walk \in {"translate", "done"} => Batched) => (walk \in {"translate", "done"} => Batched)'
  BY <1>1 DEF Batched
<1>5. (walk = "done" => BatchedRight) => (walk = "done" => BatchedRight)'
  BY <1>1 DEF BatchedRight
<1>6. (walk = "translate" => InTranslation) => (walk = "translate" => InTranslation)'
  BY <1>1 DEF InTranslation, Translating, TransPlan, DoneAt
<1> QED
  BY <1>1, <1>2, <1>3, <1>4, <1>5, <1>6 DEF BatchInv

(* Every step of the batcher keeps its invariant.                          *)
LEMMA BatcherKeeps ==
  ASSUME BatchInv, [BatcherNext]_bvars
  PROVE  BatchInv'
BY VisitStep, CloseStep, TurnBackStep, ChooseStep, TranslateStep, TranslatedStep, BatcherStutters DEF BatcherNext

(* What the invariant says of the batcher.                                 *)
LEMMA BatcherRight ==
  ASSUME BatchInv
  PROVE  BatcherNeverPanics /\ BatchesRunnable /\ ShortOnlyIfBlocked
<1>1. BatcherNeverPanics
  BY TranslatesNext DEF BatchInv, BatcherNeverPanics
<1>2. CASE walk \in {"forward", "backward"}
  <2>1. IsSource(source) /\ WalkPlan(source, walk, order \o worklist, batches)
    BY <1>2 DEF BatchInv, InWalk, WalkInv
  <2> QED
    BY <1>1, <2>1, PlanRunnable, ShortBlocked
<1>3. CASE walk \in {"translate", "done"}
  <2>1. PICK dir, seq : WalkDone(source, dir, seq, batches)
    BY <1>3 DEF BatchInv, Batched
  <2>2. BatchesRunnable
    BY <2>1, PlanRunnable DEF BatchInv, WalkDone
  <2>3. ShortOnlyIfBlocked
    BY <1>3 DEF ShortOnlyIfBlocked, Walking
  <2> QED
    BY <1>1, <2>2, <2>3
<1> QED
  BY <1>2, <1>3 DEF BatchInv

-----------------------------------------------------------------------------
(* The pipeline.                                                           *)

(* What the pipeline keeps: each pass its own invariant, the scheduler the *)
(* program of the batcher, the allocator one that computes what the source *)
(* does.                                                                   *)
CompileInv ==
  /\ pass \in {"batch", "schedule", "allocate"}
  /\ BatchInv /\ SchedInv
  /\ pass # "batch" => walk = "done"
  /\ pass = "schedule" => program = batched
  /\ ScheduledImplements

(* A source is a sequence.                                                 *)
LEMMA SourceIsList ==
  ASSUME NEW code, IsSource(code)
  PROVE  code \in Seq(Range(code))
BY DEF IsSource

(* What is allocated computes what the source does.                        *)
LEMMA HandsOn ==
  ASSUME CompileInv, StartAllocating
  PROVE  WellFormed(input') /\ Implements(input', source)
<1> DEFINE new == Reschedule(program, issued)
<1>1. pass = "schedule" /\ events = {} /\ input' = new
  BY DEF StartAllocating, StartAllocation
<1>2. WellFormed(batched) /\ Faithful(batched, source) /\ program = batched /\ IsSource(source)
  BY <1>1 DEF CompileInv, BatchInv, BatchedRight
<1>3. Scheduled(program, issued)
  <2>1. Lists(issued, Range(issued)) /\ Ordered(program, issued)
    BY DEF CompileInv, SchedInv, Scheduling, Started
  <2>2. IsSchedule(program, issued)
    BY <1>1, SchedulerComplete DEF CompileInv, ScheduleComplete
  <2>3. Range(issued) = Ops(program)
    BY <2>2 DEF IsSchedule, Range
  <2> QED
    BY <1>2, <2>1, <2>3 DEF Scheduled
<1>4. WellFormed(new)
  BY <1>3, RescheduleWellFormed
<1>5. Faithful(new, source)
  BY <1>2, <1>3, RescheduleFaithful
<1>6. source \in Seq(Range(source))
  BY <1>2, SourceIsList
<1> HIDE DEF new
<1>7. Implements(new, source)
  BY <1>4, <1>5, <1>6, FaithfulImplements
<1> QED
  BY <1>1, <1>4, <1>7

(* Every step of the pipeline keeps its invariant.                         *)
LEMMA CompileKeeps ==
  ASSUME CompileInv, [CompileNext]_vars
  PROVE  CompileInv'
<1>1. CASE BatchProgram
  <2>1. pass = "batch" /\ pass' = pass /\ BatcherNext /\ UNCHANGED svars
    BY <1>1 DEF BatchProgram
  <2>2. BatchInv' /\ SchedInv'
    BY <2>1, BatcherKeeps, SchedStutter DEF CompileInv
  <2> QED
    BY <2>1, <2>2 DEF CompileInv, ScheduledImplements
<1>2. CASE StartScheduling
  <2>1. /\ pass = "batch" /\ walk = "done" /\ pass' = "schedule" /\ UNCHANGED bvars
        /\ StartSchedule(batched)
    BY <1>2 DEF StartScheduling
  <2>2. BatchInv' /\ walk' = walk /\ batched' = batched
    BY <2>1, BatcherStutters DEF CompileInv, bvars
  <2>3. WellFormed(batched)
    BY <2>1 DEF CompileInv, BatchInv, BatchedRight
  <2>4. SchedInv'
    BY <2>1, <2>3, StartScheduleKeeps
  <2>5. program' = batched
    BY <2>1 DEF StartSchedule
  <2> QED
    BY <2>1, <2>2, <2>4, <2>5 DEF CompileInv, ScheduledImplements
<1>3. CASE ScheduleProgram
  <2>1. pass = "schedule" /\ pass' = pass /\ ScheduleNext /\ UNCHANGED bvars
    BY <1>3 DEF ScheduleProgram
  <2>2. BatchInv' /\ walk' = walk /\ batched' = batched
    BY <2>1, BatcherStutters DEF CompileInv, bvars
  <2>3. SchedInv' /\ program' = program
    BY <2>1, RetireOpKeeps DEF CompileInv, ScheduleNext, RetireOp
  <2> QED
    BY <2>1, <2>2, <2>3 DEF CompileInv, ScheduledImplements
<1>4. CASE StartAllocating
  <2>1. pass' = "allocate" /\ UNCHANGED bvars /\ UNCHANGED svars /\ pass = "schedule"
    BY <1>4 DEF StartAllocating
  <2>2. BatchInv' /\ walk' = walk /\ source' = source /\ SchedInv'
    BY <2>1, BatcherStutters, SchedStutter DEF CompileInv, bvars
  <2>3. WellFormed(input') /\ Implements(input', source)
    BY <1>4, HandsOn
  <2> QED
    BY <2>1, <2>2, <2>3 DEF CompileInv, ScheduledImplements
<1>5. CASE AllocateProgram
  <2>1. pass' = pass /\ pass = "allocate" /\ AllocateNext /\ UNCHANGED bvars /\ UNCHANGED svars
    BY <1>5 DEF AllocateProgram
  <2>2. BatchInv' /\ walk' = walk /\ source' = source /\ SchedInv'
    BY <2>1, BatcherStutters, SchedStutter DEF CompileInv, bvars
  <2>3. input' = input
    BY <2>1 DEF AllocateNext, EvictForSource, UnspillSource, EvictForResults, Acquire, Evict,
       RetireRegisters, Allocated, EmitSpill, EmitUnspill, EmitPart, Stabilize
  <2> QED
    BY <2>1, <2>2, <2>3 DEF CompileInv, ScheduledImplements
<1>6. CASE UNCHANGED vars
  <2>1. UNCHANGED bvars /\ UNCHANGED svars /\ pass' = pass /\ input' = input
    BY <1>6 DEF vars, avars
  <2>2. BatchInv' /\ walk' = walk /\ source' = source /\ SchedInv' /\ program' = program /\ batched' = batched
    BY <2>1, BatcherStutters, SchedStutter DEF CompileInv, bvars, svars
  <2> QED
    BY <2>1, <2>2 DEF CompileInv, ScheduledImplements
<1> QED
  BY <1>1, <1>2, <1>3, <1>4, <1>5, <1>6 DEF CompileNext

(* The pipeline keeps CompileInv, for every set of sources, every batch    *)
(* size, all latencies and every register file.                            *)
THEOREM CompilerInvariant == CompileSpec => []CompileInv
<1>1. CompileInit => CompileInv
  <2> SUFFICES ASSUME CompileInit PROVE CompileInv
    OBVIOUS
  <2>1. pass = "batch" /\ BatchInv /\ SchedInv
    BY BatcherStarts, SchedInitKept DEF CompileInit
  <2> QED
    BY <2>1 DEF CompileInv, ScheduledImplements
<1>2. CompileInv /\ [CompileNext]_vars => CompileInv'
  BY CompileKeeps
<1> QED
  BY <1>1, <1>2, PTL DEF CompileSpec

(* The batcher panics in no program.                                       *)
THEOREM BatcherTranslatesAll == CompileSpec => []BatcherNeverPanics
<1>1. CompileInv => BatcherNeverPanics
  BY BatcherRight DEF CompileInv
<1> QED
  BY <1>1, CompilerInvariant, PTL

(* Every batch fits the hardware, and none of its members depends on       *)
(* another, be it through operations outside the batch (batcher.rs).       *)
THEOREM BatcherMakesBatches == CompileSpec => []BatchesRunnable
<1>1. CompileInv => BatchesRunnable
  BY BatcherRight DEF CompileInv
<1> QED
  BY <1>1, CompilerInvariant, PTL

(* A walk closes a batch short only if everything that remains must wait   *)
(* for it (batcher.rs).                                                    *)
THEOREM BatcherFillsBatches == CompileSpec => []ShortOnlyIfBlocked
<1>1. CompileInv => ShortOnlyIfBlocked
  BY BatcherRight DEF CompileInv
<1> QED
  BY <1>1, CompilerInvariant, PTL

(* The scheduler issues every operation of what the batcher hands on,      *)
(* after those it depends on (scheduler.rs).                               *)
THEOREM CompilerSchedulesAll == CompileSpec => []ScheduleComplete
<1>1. CompileInv => ScheduleComplete
  BY SchedulerComplete DEF CompileInv
<1> QED
  BY <1>1, CompilerInvariant, PTL

(* What is allocated computes every operation of the source once, on the   *)
(* values it has in the source (batcher.rs, scheduler.rs).                 *)
THEOREM CompilerComputes == CompileSpec => []ScheduledImplements
<1>1. CompileInv => ScheduledImplements
  BY DEF CompileInv
<1> QED
  BY <1>1, CompilerInvariant, PTL

-----------------------------------------------------------------------------
(* The allocator in the pipeline.                                          *)

(* The pipeline takes the steps of the allocator and no others.            *)
THEOREM CompileAllocates == CompileSpec => AllocateSpec
<1>1. CompileInit => AllocInit
  BY DEF CompileInit
<1>2. ScheduledImplements' /\ [CompileNext]_vars => [Allocate]_avars
  <2> SUFFICES ASSUME ScheduledImplements', [CompileNext]_vars
               PROVE  [Allocate]_avars
    OBVIOUS
  <2>1. CASE StartAllocating
    <3>1. pass' = "allocate" /\ StartAllocation(Reschedule(program, issued))
      BY <2>1 DEF StartAllocating
    <3>2. WellFormed(input')
      BY <3>1 DEF ScheduledImplements
    <3>3. input' = Reschedule(program, issued)
      BY <3>1 DEF StartAllocation
    <3> HIDE DEF StartAllocation
    <3> QED
      BY <3>1, <3>2, <3>3 DEF Allocate
  <2>2. CASE AllocateProgram
    BY <2>2 DEF AllocateProgram, Allocate
  <2>3. CASE BatchProgram \/ StartScheduling \/ ScheduleProgram
    BY <2>3 DEF BatchProgram, StartScheduling, ScheduleProgram
  <2>4. CASE UNCHANGED vars
    BY <2>4 DEF vars
  <2> QED
    BY <2>1, <2>2, <2>3, <2>4 DEF CompileNext
<1> QED
  BY <1>1, <1>2, CompilerComputes, PTL DEF CompileSpec, AllocateSpec

(* A live value of a compiled program is where the allocator says          *)
(* (allocator.rs, register_file.rs).                                       *)
THEOREM CompilerKeepsLiveValues == CompileSpec => []LiveValuesKept
BY CompileAllocates, AllocatorKeepsLiveValues, PTL

(* Every word of a compiled program reads the registers of its operands    *)
(* (translation.rs).                                                       *)
THEOREM CompilerReadsRight == CompileSpec => []ReadsRight
BY CompileAllocates, AllocatorReadsRight, PTL

(* A compiled program computes every operation of the source once, and     *)
(* delivers, for every destination of the source, the value the source     *)
(* stores there.                                                           *)
THEOREM CompilerImplements == CompileSpec => []CompiledImplements
<1>1. ScheduledImplements /\ StoresDelivered => CompiledImplements
  BY DEF CompiledImplements
<1> QED
  BY <1>1, CompileAllocates, CompilerComputes, AllocatorDelivers, PTL

(* The translation of the batcher always finds what it reads, and the      *)
(* allocator, if the program it is given fits the register file and is     *)
(* Regular (reads no value twice in one operation, uses every result,      *)
(* loads no plaintext), the registers and slots it insists on (batcher.rs, *)
(* allocator.rs, register_file.rs).  A program that loads a plaintext is   *)
(* not covered: the allocator panics on it.                                *)
THEOREM CompilerGoesOn == CompileSpec => []CompilerNeverPanics
<1>1. (Fits /\ Regular => CanGoOn) => AllocatorNeverPanics
  BY DEF AllocatorNeverPanics
<1>2. BatcherNeverPanics /\ AllocatorNeverPanics => CompilerNeverPanics
  BY DEF CompilerNeverPanics
<1> QED
  BY <1>1, <1>2, BatcherTranslatesAll, CompileAllocates, AllocatorGoesOn, PTL
=============================================================================
