-------------------------- MODULE SchedulerProofs ---------------------------
(***************************************************************************)
(* Proofs about the list scheduler, for every well-formed program and all  *)
(* latencies: it issues every operation, each after those it depends on,   *)
(* and rescheduling a program in that order leaves it well-formed and      *)
(* computing the same.                                                     *)
(***************************************************************************)
EXTENDS BatchScheduler, RegAllocProofs, WellFoundedInduction

-----------------------------------------------------------------------------
(* Numbers.                                                                *)

(* Counting down ends.                                                     *)
LEMMA LessWF ==
  \E R : IsWellFoundedOn(R, Nat) /\ \A x, y \in Nat : y < x => <<y, x>> \in R
<1>1. \A x, y \in Nat : y < x => <<y, x>> \in OpToRel(<,Nat)
  BY DEF OpToRel
<1> WITNESS OpToRel(<,Nat)
<1> QED
  BY <1>1, NatLessThanWellFounded

(* A set of numbers has a least one.                                       *)
LEMMA NatMin ==
  ASSUME NEW S \in SUBSET Nat, S # {}
  PROVE  \E m \in S : \A y \in S : m <= y
<1>1. PICK R : IsWellFoundedOn(R, Nat) /\ \A x, y \in Nat : y < x => <<y, x>> \in R
  BY LessWF
<1>2. PICK m \in S : \A y \in S : ~ (<<y, m>> \in R)
  BY <1>1, WFMin
<1>3. \A y \in S : ~ (y < m)
  BY <1>1, <1>2
<1> QED
  BY <1>3

(* A finite set of numbers has a greatest one.                             *)
LEMMA NatMax ==
  ASSUME NEW N \in Nat, NEW S, S # {}, \A x \in S : x \in Nat /\ x <= N
  PROVE  Max(S) \in S
<1> DEFINE B == {n \in Nat : \A x \in S : x <= n}
<1>1. N \in B
  OBVIOUS
<1>2. PICK m \in B : \A n \in B : m <= n
  <2>1. B \in SUBSET Nat /\ B # {}
    BY <1>1
  <2> HIDE DEF B
  <2> QED
    BY <2>1, NatMin
<1>3. \E x \in S : x = m
  <2> SUFFICES ASSUME \A x \in S : x # m PROVE FALSE
    OBVIOUS
  <2>1. \A x \in S : x < m
    OBVIOUS
  <2>2. m # 0
    BY <2>1
  <2>3. m - 1 \in B
    BY <2>1, <2>2
  <2> QED
    BY <1>2, <2>3
<1>4. \A y \in S : m >= y
  OBVIOUS
<1> QED
  BY <1>3, <1>4 DEF Max

-----------------------------------------------------------------------------
(* The heights by which the scheduler sorts.                               *)

(* BatchHeight, as the function it chooses.                                *)
LEMMA HeightIs ==
  ASSUME NEW code
  PROVE  BatchHeight(code) =
           CHOOSE h : h = [o \in Ops(code) |->
             Max({0} \cup {h[u] : u \in Users(code, o)}) + (IF code[o].kind = "batch" THEN 1 ELSE 0)]
BY DEF BatchHeight

(* The program and its graph.                                              *)
LEMMA Graph ==
  ASSUME NEW code, WellFormed(code)
  PROVE  /\ Ops(code) = 1 .. Len(code) /\ Len(code) \in Nat /\ Ops(code) = DOMAIN code
         /\ \A o \in Ops(code) : o \in Nat /\ Preds(code, o) \subseteq Ops(code)
         /\ \A o \in Ops(code) : \A p \in Preds(code, o) : p < o
         /\ IsFiniteSet(Ops(code))
<1>1. code \in Seq(Range(code))
  BY DEF WellFormed
<1>2. Ops(code) = 1 .. Len(code) /\ Len(code) \in Nat /\ Ops(code) = DOMAIN code
  BY <1>1 DEF Ops
<1>3. ASSUME NEW o \in Ops(code), NEW p \in Preds(code, o)
      PROVE  p \in Ops(code) /\ p < o
  <2>1. PICK i \in DOMAIN code[o].args : p = code[o].args[i][1]
    BY DEF Preds
  <2> DEFINE V == UNION {Range(Results(code, q)) : q \in 1 .. o - 1}
  <2>2. code[o].args \in Seq(V)
    BY DEF WellFormed
  <2> HIDE DEF V
  <2>3. code[o].args[i] \in V
    BY <2>1, <2>2, Element
  <2>4. PICK q \in 1 .. o - 1 : code[o].args[i] \in Range(Results(code, q))
    BY <2>3 DEF V
  <2>5. p = q
    <3>1. PICK k \in DOMAIN Results(code, q) : code[o].args[i] = Results(code, q)[k]
      BY <2>4 DEF Range
    <3>2. code[o].args[i] = <<q, k>>
      BY <3>1 DEF Results
    <3> QED
      BY <2>1, <3>2
  <2> QED
    BY <1>2, <2>4, <2>5
<1>4. IsFiniteSet(Ops(code))
  BY <1>2, FS_Interval
<1> QED
  BY <1>2, <1>3, <1>4

(* What the height of an operation is, from those of its users; h has it   *)
(* right from k on.                                                        *)
Weighted(code, h, o) ==
  Max({0} \cup {h[u] : u \in Users(code, o)}) + (IF code[o].kind = "batch" THEN 1 ELSE 0)
Heights(code, h, k) == h \in [k .. Len(code) -> Nat] /\ \A o \in k .. Len(code) : h[o] = Weighted(code, h, o)

(* The users of an operation come after it.                                *)
LEMMA UsersAfter ==
  ASSUME NEW code, WellFormed(code), NEW o \in Ops(code)
  PROVE  Users(code, o) \subseteq {u \in Ops(code) : u > o} /\ IsFiniteSet(Users(code, o))
<1>1. Users(code, o) \subseteq {u \in Ops(code) : u > o}
  BY Graph DEF Users
<1>2. IsFiniteSet(Users(code, o))
  <2>1. Users(code, o) \subseteq Ops(code) /\ IsFiniteSet(Ops(code))
    BY Graph DEF Users
  <2> QED
    BY <2>1, FS_Subset
<1> QED
  BY <1>1, <1>2

(* A list of numbers is bounded.                                           *)
LEMMA BoundOf ==
  ASSUME NEW N \in Nat, NEW f, \A i \in 1 .. N : f[i] \in Nat
  PROVE  \E b \in Nat : \A i \in 1 .. N : f[i] <= b
<1> DEFINE Bad == {k \in 0 .. N : ~ \E b \in Nat : \A i \in 1 .. k : f[i] <= b}
<1>1. ASSUME NEW m \in Bad, \A k \in Bad : m <= k
      PROVE  FALSE
  <2>1. CASE m = 0
    <3>1. 0 \in Nat /\ \A i \in 1 .. m : f[i] <= 0
      BY <2>1
    <3> QED
      BY <3>1
  <2>2. CASE m # 0
    <3>1. m \in Nat /\ m - 1 \in 0 .. N /\ m - 1 \notin Bad /\ m \in 1 .. N
      <4>1. m \in 0 .. N
        OBVIOUS
      <4>2. m \in Nat /\ m - 1 \in 0 .. N /\ m \in 1 .. N /\ m - 1 < m
        BY <2>2, <4>1
      <4> HIDE DEF Bad
      <4> QED
        BY <1>1, <4>2
    <3>2. PICK b \in Nat : \A i \in 1 .. m - 1 : f[i] <= b
      BY <3>1
    <3> DEFINE c == IF b < f[m] THEN f[m] ELSE b
    <3>3. c \in Nat /\ f[m] <= c /\ b <= c
      BY <3>1
    <3> HIDE DEF c
    <3>4. ASSUME NEW i \in 1 .. m PROVE f[i] <= c
      <4>1. CASE i = m
        BY <3>3, <4>1
      <4>2. CASE i # m
        <5>1. i \in 1 .. m - 1 /\ i \in 1 .. N
          BY <3>1, <4>2
        <5>2. f[i] \in Nat /\ f[i] <= b
          BY <3>2, <5>1
        <5> QED
          BY <3>3, <5>2
      <4> QED
        BY <4>1, <4>2
    <3> QED
      BY <3>3, <3>4
  <2> QED
    BY <2>1, <2>2
<1>2. Bad = {}
  <2>1. Bad \in SUBSET Nat
    OBVIOUS
  <2> HIDE DEF Bad
  <2> QED
    BY <1>1, <2>1, NatMin
<1>3. N \in 0 .. N
  OBVIOUS
<1> QED
  BY <1>2, <1>3

(* The largest of finitely many numbers is one.                            *)
LEMMA MaxOfImage ==
  ASSUME NEW N \in Nat, NEW U \in SUBSET (1 .. N), NEW h, \A u \in U : h[u] \in Nat
  PROVE  Max({0} \cup {h[u] : u \in U}) \in Nat
<1> DEFINE S == {0} \cup {h[u] : u \in U}
           f == [i \in 1 .. N |-> IF i \in U THEN h[i] ELSE 0]
<1>1. \A i \in 1 .. N : f[i] \in Nat
  OBVIOUS
<1>2. PICK b \in Nat : \A i \in 1 .. N : f[i] <= b
  <2> HIDE DEF f
  <2> QED
    BY <1>1, BoundOf
<1>3. \A x \in S : x \in Nat /\ x <= b
  <2>1. \A u \in U : h[u] <= b
    <3> TAKE u \in U
    <3>1. u \in 1 .. N /\ f[u] = h[u]
      OBVIOUS
    <3> HIDE DEF f
    <3> QED
      BY <1>2, <3>1
  <2> QED
    BY <2>1
<1>4. S # {}
  OBVIOUS
<1> HIDE DEF S
<1>5. Max(S) \in S
  BY <1>3, <1>4, NatMax
<1> QED
  BY <1>3, <1>5 DEF S

(* The heights exist: from the last operation to the first.                *)
LEMMA HeightsExist ==
  ASSUME NEW code, WellFormed(code)
  PROVE  \E h : Heights(code, h, 1)
<1> DEFINE N == Len(code)
           Good == {k \in 1 .. N + 1 : \E h : Heights(code, h, k)}
<1>1. N \in Nat /\ Ops(code) = 1 .. N
  BY Graph
<1>2. N + 1 \in Good
  <2> DEFINE h == [o \in (N + 1) .. N |-> 0]
  <2>1. (N + 1) .. N = {}
    BY <1>1
  <2>2. Heights(code, h, N + 1)
    BY <2>1 DEF Heights
  <2> QED
    BY <1>1, <2>2
<1>3. PICK m \in Good : \A k \in Good : m <= k
  <2>1. Good \in SUBSET Nat /\ Good # {}
    BY <1>2
  <2> HIDE DEF Good
  <2> QED
    BY <2>1, NatMin
<1>4. ASSUME m # 1 PROVE FALSE
  <2> DEFINE k == m - 1
  <2>1. k \in 1 .. N /\ k \in Nat /\ m = k + 1 /\ k \notin Good
    BY <1>1, <1>3, <1>4
  <2> HIDE DEF k
  <2>2. PICK h : Heights(code, h, k + 1)
    BY <2>1
  <2> DEFINE H(o) == Weighted(code, h, o)
             g == [o \in k .. N |-> IF o = k THEN H(k) ELSE h[o]]
  <2>3. \A o \in k + 1 .. N : h[o] \in Nat /\ h[o] = H(o)
    BY <2>2 DEF Heights
  <2>4. H(k) \in Nat
    <3> DEFINE U == Users(code, k)
    <3>1. U \in SUBSET (1 .. N) /\ \A u \in U : h[u] \in Nat
      <4>1. U \subseteq {u \in Ops(code) : u > k}
        BY <1>1, <2>1, UsersAfter
      <4> HIDE DEF U
      <4>2. \A u \in U : u \in 1 .. N /\ u \in k + 1 .. N
        BY <1>1, <2>1, <4>1
      <4> QED
        BY <2>3, <4>2
    <3> HIDE DEF U
    <3>2. Max({0} \cup {h[u] : u \in U}) \in Nat
      BY <1>1, <3>1, MaxOfImage
    <3> QED
      BY <3>2 DEF Weighted, U
  <2>5. \A o \in k .. N : g[o] \in Nat
    BY <1>1, <2>1, <2>3, <2>4
  <2>6. ASSUME NEW o \in k .. N PROVE g[o] = Weighted(code, g, o)
    <3>1. g[o] = H(o)
      BY <1>1, <2>1, <2>3
    <3>2. \A u \in Users(code, o) : g[u] = h[u]
      <4>1. Users(code, o) \subseteq {u \in Ops(code) : u > o}
        BY <1>1, <2>1, UsersAfter
      <4> QED
        BY <1>1, <2>1, <4>1
    <3> HIDE DEF g
    <3>3. {g[u] : u \in Users(code, o)} = {h[u] : u \in Users(code, o)}
      BY <3>2
    <3> QED
      BY <3>1, <3>3 DEF Weighted
  <2>7. Heights(code, g, k)
    BY <2>5, <2>6 DEF Heights
  <2>8. k \in Good
    BY <1>1, <2>1, <2>7
  <2> QED
    BY <2>1, <2>8
<1> QED
  BY <1>3, <1>4

(* Every operation has a height in batches, though the heights are defined *)
(* by one another.                                                         *)
LEMMA HeightRight ==
  ASSUME NEW code, WellFormed(code)
  PROVE  BatchHeight(code) \in [Ops(code) -> Nat]
<1> DEFINE G(h) == [o \in Ops(code) |-> Weighted(code, h, o)]
           B == BatchHeight(code)
<1>1. PICK h : Heights(code, h, 1)
  BY HeightsExist
<1>2. Ops(code) = 1 .. Len(code) /\ Len(code) \in Nat
  BY Graph
<1>3. h = G(h)
  BY <1>1, <1>2 DEF Heights
<1>4. B = CHOOSE f : f = G(f)
  BY HeightIs DEF Weighted
<1> HIDE DEF B
<1>5. B = G(B)
  BY <1>3, <1>4
<1> DEFINE Bad == {k \in 0 .. Len(code) : Len(code) - k \in Ops(code) /\ B[Len(code) - k] \notin Nat}
<1>6. ASSUME NEW m \in Bad, \A k \in Bad : m <= k PROVE FALSE
  <2> DEFINE o == Len(code) - m
             U == Users(code, o)
  <2>1. o \in Ops(code) /\ B[o] \notin Nat
    BY <1>6
  <2>2. U \subseteq {u \in Ops(code) : u > o}
    BY <2>1, UsersAfter
  <2>3. ASSUME NEW u \in U PROVE B[u] \in Nat
    <3>1. u \in 1 .. Len(code) /\ u > o
      BY <1>2, <2>2
    <3> DEFINE k == Len(code) - u
    <3>2. k \in 0 .. Len(code) /\ k < m /\ Len(code) - k = u
      BY <1>2, <3>1
    <3>3. k \notin Bad
      BY <1>6, <3>2
    <3> HIDE DEF k
    <3> QED
      BY <1>2, <3>1, <3>2, <3>3
  <2> HIDE DEF U, o
  <2>4. U \in SUBSET (1 .. Len(code))
    BY <1>2, <2>2
  <2>5. Max({0} \cup {B[u] : u \in U}) \in Nat
    BY <1>2, <2>3, <2>4, MaxOfImage
  <2>6. B[o] = Weighted(code, B, o)
    BY <1>5, <2>1
  <2> QED
    BY <2>1, <2>5, <2>6 DEF Weighted, U
<1>7. Bad = {}
  <2>1. Bad \in SUBSET Nat
    BY <1>2
  <2> HIDE DEF Bad
  <2> QED
    BY <1>6, <2>1, NatMin
<1>8. \A o \in Ops(code) : B[o] \in Nat
  <2> TAKE o \in Ops(code)
  <2>1. Len(code) - o \in 0 .. Len(code) /\ Len(code) - (Len(code) - o) = o
    BY <1>2
  <2> QED
    BY <1>7, <2>1
<1>9. B \in [Ops(code) -> Nat]
  BY <1>5, <1>8
<1> QED
  BY <1>9 DEF B

-----------------------------------------------------------------------------
(* Lists, made of others.                                                  *)

(* Two lists of different elements make one.                               *)
LEMMA ConcatOnce ==
  ASSUME NEW S, NEW s, Lists(s, S), NEW T, NEW t, Lists(t, T), S \cap T = {}
  PROVE  Lists(s \o t, S \cup T)
<1> DEFINE st == s \o t
           U == S \cup T
<1>1. s \in Seq(S) /\ t \in Seq(T)
  BY DEF Lists
<1>2. s \in Seq(U) /\ t \in Seq(U)
  BY <1>1
<1>3. st \in Seq(U) /\ Len(st) = Len(s) + Len(t)
  BY <1>2
<1>4. /\ Len(s) \in Nat /\ Len(t) \in Nat /\ DOMAIN s = 1 .. Len(s) /\ DOMAIN t = 1 .. Len(t)
      /\ DOMAIN st = 1 .. Len(s) + Len(t)
  BY <1>1, <1>3
<1>5. \A n \in 1 .. Len(s) : n \in DOMAIN st /\ st[n] = s[n]
  BY <1>2, <1>4
<1>6. \A n \in 1 .. Len(t) : n + Len(s) \in DOMAIN st /\ st[n + Len(s)] = t[n]
  BY <1>2, <1>4
<1> HIDE DEF st
<1>7. ASSUME NEW x \in U PROVE \E n \in DOMAIN st : st[n] = x
  <2>1. CASE x \in S
    <3>1. PICK n \in 1 .. Len(s) : s[n] = x
      BY <1>4, <2>1 DEF Lists
    <3> QED
      BY <1>5, <3>1
  <2>2. CASE x \in T
    <3>1. PICK n \in 1 .. Len(t) : t[n] = x
      BY <1>4, <2>2 DEF Lists
    <3> QED
      BY <1>6, <3>1
  <2> QED
    BY <2>1, <2>2
<1>8. ASSUME NEW n \in DOMAIN st
      PROVE  \/ n \in 1 .. Len(s) /\ st[n] = s[n] /\ st[n] \in S
             \/ n - Len(s) \in 1 .. Len(t) /\ st[n] = t[n - Len(s)] /\ st[n] \in T
  <2>1. CASE n \in 1 .. Len(s)
    BY <1>1, <1>4, <1>5, <2>1
  <2>2. CASE n \notin 1 .. Len(s)
    <3>1. n - Len(s) \in 1 .. Len(t) /\ (n - Len(s)) + Len(s) = n
      BY <1>4, <2>2
    <3>2. st[n] = t[n - Len(s)]
      BY <1>6, <3>1
    <3> QED
      BY <1>1, <1>4, <3>1, <3>2
  <2> QED
    BY <2>1, <2>2
<1>9. ASSUME NEW n \in DOMAIN st, NEW m \in DOMAIN st, st[n] = st[m] PROVE n = m
  <2>1. CASE st[n] \in S
    <3>1. n \in 1 .. Len(s) /\ m \in 1 .. Len(s) /\ s[n] = s[m]
      BY <1>8, <1>9, <2>1
    <3> QED
      BY <1>4, <3>1 DEF Lists
  <2>2. CASE st[n] \notin S
    <3>1. /\ n - Len(s) \in 1 .. Len(t) /\ m - Len(s) \in 1 .. Len(t)
          /\ t[n - Len(s)] = t[m - Len(s)]
      BY <1>8, <1>9, <2>2
    <3>2. n - Len(s) = m - Len(s)
      BY <1>4, <3>1 DEF Lists
    <3> QED
      BY <1>4, <3>2
  <2> QED
    BY <2>1, <2>2
<1> QED
  BY <1>3, <1>7, <1>9 DEF Lists, st

(* A list reversed lists the same.                                         *)
LEMMA ReverseOnce ==
  ASSUME NEW S, NEW s, Lists(s, S)
  PROVE  Lists(Reverse(s), S)
<1> DEFINE r == Reverse(s)
<1>1. s \in Seq(S) /\ DOMAIN s = 1 .. Len(s) /\ Len(s) \in Nat
  BY DEF Lists
<1>2. r = [n \in 1 .. Len(s) |-> s[(Len(s) - n) + 1]]
  BY DEF Reverse
<1>3. \A n \in 1 .. Len(s) : (Len(s) - n) + 1 \in 1 .. Len(s) /\ r[n] = s[(Len(s) - n) + 1]
  BY <1>1, <1>2
<1>4. r \in Seq(S) /\ DOMAIN r = 1 .. Len(s)
  BY <1>1, <1>2, <1>3
<1> HIDE DEF r
<1>5. ASSUME NEW x \in S PROVE \E n \in DOMAIN r : r[n] = x
  <2>1. PICK n \in 1 .. Len(s) : s[n] = x
    BY <1>1 DEF Lists
  <2> DEFINE k == (Len(s) - n) + 1
  <2>2. k \in 1 .. Len(s) /\ (Len(s) - k) + 1 = n
    BY <1>1
  <2> HIDE DEF k
  <2> QED
    BY <1>3, <1>4, <2>1, <2>2
<1>6. ASSUME NEW n \in DOMAIN r, NEW m \in DOMAIN r, r[n] = r[m] PROVE n = m
  <2> DEFINE i == (Len(s) - n) + 1
             j == (Len(s) - m) + 1
  <2>0. i \in DOMAIN s /\ j \in DOMAIN s /\ s[i] = s[j]
    BY <1>1, <1>3, <1>4, <1>6
  <2> HIDE DEF i, j
  <2>a. i = j
    BY <2>0 DEF Lists
  <2>1. (Len(s) - n) + 1 = (Len(s) - m) + 1
    BY <2>a DEF i, j
  <2> QED
    BY <1>1, <1>4, <2>1
<1> QED
  BY <1>4, <1>5, <1>6 DEF Lists, r

(* A list without its last element lists the others.                       *)
LEMMA FrontOnce ==
  ASSUME NEW S, NEW s, Lists(s, S), s # << >>
  PROVE  s[Len(s)] \in S /\ Lists(SubSeq(s, 1, Len(s) - 1), S \ {s[Len(s)]})
<1> DEFINE f == SubSeq(s, 1, Len(s) - 1)
           x == s[Len(s)]
<1>1. s \in Seq(S) /\ DOMAIN s = 1 .. Len(s) /\ Len(s) \in Nat /\ Len(s) \in DOMAIN s
  BY DEF Lists
<1>2. x \in S
  BY <1>1
<1>3. f \in Seq(S) /\ Len(f) = Len(s) - 1 /\ \A n \in 1 .. Len(s) - 1 : f[n] = s[n]
  BY <1>1
<1>4. DOMAIN f = 1 .. Len(s) - 1
  BY <1>3
<1>5. \A n \in DOMAIN f : f[n] = s[n] /\ n \in DOMAIN s /\ n # Len(s)
  BY <1>1, <1>3, <1>4
<1> HIDE DEF f
<1>6. \A n \in DOMAIN f : f[n] \in S \ {x}
  BY <1>1, <1>5 DEF Lists
<1>7. f \in Seq(S \ {x})
  BY <1>3, <1>6, <1>4, <1>1
<1>8. \A y \in S \ {x} : \E n \in DOMAIN f : f[n] = y
  <2> TAKE y \in S \ {x}
  <2>1. PICK n \in DOMAIN s : s[n] = y
    BY DEF Lists
  <2>2. n \in DOMAIN f
    BY <1>1, <1>4, <2>1
  <2> QED
    BY <1>5, <2>1, <2>2
<1>9. \A n, m \in DOMAIN f : f[n] = f[m] => n = m
  BY <1>5 DEF Lists
<1> QED
  BY <1>2, <1>7, <1>8, <1>9 DEF Lists, f

(* A list sorted by numbers lists the same.                                *)
LEMMA SortedOnce ==
  ASSUME NEW S, NEW s, Lists(s, S), NEW key, \A x \in S : key[x] \in Nat
  PROVE  Lists(SortedBy(s, key), S)
<1> DEFINE N == Len(s)
           D == 1 .. N
           below == [j \in D |-> {i \in D : key[s[i]] < key[s[j]] \/ (key[s[i]] = key[s[j]] /\ i < j)}]
           B(j) == {i \in DOMAIN s : key[s[i]] < key[s[j]] \/ (key[s[i]] = key[s[j]] /\ i < j)}
           r == SortedBy(s, key)
<1>1. s \in Seq(S) /\ DOMAIN s = D /\ N \in Nat /\ \A n \in D : s[n] \in S
  BY DEF Lists
<1>2. IsFiniteSet(D) /\ Cardinality(D) = N
  <2> HIDE DEF N
  <2> QED
    BY <1>1, FS_Interval
<1> DEFINE k == [i \in D |-> key[s[i]]]
<1>3. \A i \in D : k[i] \in Nat /\ i \in Nat
  BY <1>1
<1>4. \A i, j \in D : i \in below[j] <=> (k[i] < k[j] \/ (k[i] = k[j] /\ i < j))
  OBVIOUS
<1>5. below \in [D -> SUBSET D]
  OBVIOUS
<1> HIDE DEF below, k, r
<1>6. Ranks(D, below)
  <2>1. \A x \in D : x \notin below[x]
    BY <1>3, <1>4
  <2>2. ASSUME NEW x \in D, NEW z \in D, x \in below[z]
        PROVE  below[x] \subseteq below[z]
    <3>1. ASSUME NEW y \in below[x] PROVE y \in below[z]
      <4>1. y \in D
        BY <1>5
      <4> QED
        BY <1>3, <1>4, <2>2, <3>1, <4>1
    <3> QED
      BY <3>1
  <2>3. \A x, z \in D : x # z => x \in below[z] \/ z \in below[x]
    BY <1>3, <1>4
  <2>4. \A x, z \in D : x # z => \/ x \in below[z] /\ below[x] \subseteq below[z]
                                 \/ z \in below[x] /\ below[z] \subseteq below[x]
    BY <2>2, <2>3
  <2> HIDE DEF D
  <2> QED
    BY <1>2, <1>5, <2>1, <2>4 DEF Ranks
<1>7. r = [n \in DOMAIN s |-> s[CHOOSE j \in DOMAIN s : Cardinality(B(j)) = n - 1]]
  BY DEF r, SortedBy
<1>a. \A j \in D : B(j) = below[j]
  BY <1>1 DEF below
<1> HIDE DEF B
<1>8. \A n \in D : \E j \in D : Cardinality(below[j]) = n - 1
  <2> TAKE n \in D
  <2>1. n \in 1 .. Cardinality(D)
    BY <1>2
  <2>2. PICK x \in D : Cardinality(below[x]) = n - 1
    <3> HIDE DEF D
    <3> QED
      BY <1>6, <2>1, Ranking
  <2> QED
    BY <2>2
<1> DEFINE p(n) == CHOOSE j \in DOMAIN s : Cardinality(B(j)) = n - 1
<1>9. \A n \in D : p(n) \in D /\ Cardinality(below[p(n)]) = n - 1
  BY <1>1, <1>8, <1>a
<1>10. \A n \in D : r[n] = s[p(n)]
  BY <1>1, <1>7
<1>11. DOMAIN r = D
  BY <1>1, <1>7
<1> HIDE DEF p
<1>12. \A n \in D : r[n] \in S
  BY <1>1, <1>9, <1>10
<1>13. r \in Seq(S)
  <2>1. r = [n \in D |-> r[n]]
    BY <1>1, <1>7
  <2>2. r \in [1 .. N -> S]
    BY <1>12, <2>1
  <2> HIDE DEF N
  <2> QED
    BY <1>1, <2>2
<1>14. ASSUME NEW x \in S PROVE \E n \in D : r[n] = x
  <2>1. PICK j \in D : s[j] = x
    BY <1>1 DEF Lists
  <2> DEFINE n == Cardinality(below[j]) + 1
  <2>2. n \in D /\ Cardinality(below[j]) \in Nat
    <3>1. n \in 1 .. Cardinality(D)
      <4> HIDE DEF D
      <4> QED
        BY <1>6, Ranking
    <3>2. IsFiniteSet(below[j])
      BY <1>2, <1>5, FS_Subset
    <3> QED
      BY <1>2, <3>1, <3>2, FS_CardinalityType
  <2>3. Cardinality(below[p(n)]) = Cardinality(below[j]) /\ p(n) \in D
    <3>1. Cardinality(below[p(n)]) = n - 1 /\ p(n) \in D
      BY <1>9, <2>2
    <3> QED
      BY <2>2, <3>1
  <2>4. p(n) = j
    <3> HIDE DEF D, n
    <3> QED
      BY <1>6, <2>3, Ranking
  <2> QED
    BY <1>10, <2>1, <2>2, <2>4
<1>15. ASSUME NEW n \in D, NEW m \in D, r[n] = r[m] PROVE n = m
  <2>1. p(n) = p(m)
    BY <1>1, <1>9, <1>10, <1>15 DEF Lists
  <2>2. n - 1 = m - 1
    BY <1>9, <2>1
  <2> QED
    BY <1>1, <2>2
<1> QED
  BY <1>11, <1>13, <1>14, <1>15 DEF Lists, r

(* The operations that wait for each lane.                                 *)
Waiting(code, W) ==
  W \in [Lanes -> SUBSET Ops(code)] /\ \A l \in Lanes : \A o \in W[l] : Lane(code[o]) = l

(* A round of issue starts the operations of St and every constant.        *)
Round(code, W, idle, cycle, constantsAt, St, R) ==
  /\ Lists(R.issued, W["ctl"] \cup St)
  /\ R.busy = {l \in Units : l \in idle /\ W[l] # {}} \cup (Units \ idle)
  /\ DOMAIN R.queue = Lanes
  /\ \A l \in Lanes : Lists(R.queue[l], W[l] \ (St \cup W["ctl"]))
  /\ R.events = {[at |-> constantsAt, op |-> o] : o \in W["ctl"]}
                  \cup {[at |-> cycle + Latency(code[o]), op |-> o] : o \in St}
  /\ \A o \in St : \E l \in Units : l \in idle /\ o \in W[l]
  /\ \A l \in Units : l \in idle /\ W[l] # {} => \E o \in St : o \in W[l]
  /\ \A o, q \in St : Lane(code[o]) = Lane(code[q]) => o = q

(* One round of issue takes from each idle lane that has one an operation, *)
(* every constant, and nothing else.                                       *)
LEMMA IssueRound ==
  ASSUME NEW code, WellFormed(code), NEW W, Waiting(code, W),
         NEW queues, \A l \in Lanes : Lists(queues[l], W[l]),
         NEW idle \in SUBSET Units, NEW cycle, NEW constantsAt
  PROVE  \E St : Round(code, W, idle, cycle, constantsAt, St,
                       Issue(code, queues, idle, cycle, constantsAt))
<1> DEFINE H == BatchHeight(code)
           sorted(l) == SortedBy(queues[l], H)
           starts == {l \in Units : l \in idle /\ queues[l] # << >>}
           one(l) == IF l \in starts THEN <<sorted(l)[Len(queues[l])]>> ELSE << >>
           started == one("pep") \o one("pem") \o one("pea")
           O(l) == IF l \in starts THEN {sorted(l)[Len(queues[l])]} ELSE {}
           St == O("pep") \cup O("pem") \cup O("pea")
           R == Issue(code, queues, idle, cycle, constantsAt)
<1>0. Units \subseteq Lanes /\ "ctl" \in Lanes /\ "ctl" \notin Units /\ Lanes = Units \cup {"ctl"}
      /\ "pep" \in Units /\ "pem" \in Units /\ "pea" \in Units /\ Units = {"pep", "pem", "pea"}
  BY DEF Units, Lanes
<1>1. \A l \in Lanes : \A o \in W[l] : o \in Ops(code) /\ Lane(code[o]) = l
  BY DEF Waiting
<1>2. H \in [Ops(code) -> Nat]
  BY HeightRight
<1>3. ASSUME NEW l \in Lanes
      PROVE  /\ Lists(sorted(l), W[l]) /\ Len(sorted(l)) = Len(queues[l])
             /\ (queues[l] = << >> <=> W[l] = {}) /\ (sorted(l) = << >> <=> W[l] = {})
  <2>0. Lists(queues[l], W[l])
    OBVIOUS
  <2>1. \A x \in W[l] : H[x] \in Nat
    BY <1>1, <1>2
  <2> HIDE DEF H
  <2>2. Lists(sorted(l), W[l])
    BY <2>0, <2>1, SortedOnce
  <2>3. Len(sorted(l)) = Len(queues[l])
    BY <2>0, <2>2, ListLength
  <2>4. queues[l] = << >> <=> W[l] = {}
    BY <2>0, ListFacts
  <2>5. sorted(l) = << >> <=> W[l] = {}
    BY <2>2, ListFacts
  <2> QED
    BY <2>2, <2>3, <2>4, <2>5
<1>4. starts = {l \in Units : l \in idle /\ W[l] # {}}
  BY <1>0, <1>3
<1>5. ASSUME NEW l \in Units
      PROVE  Lists(one(l), O(l)) /\ O(l) \subseteq W[l]
  <2>1. CASE l \in starts
    <3>1. sorted(l) # << >> /\ l \in Lanes
      BY <1>0, <1>3, <2>1
    <3>2. sorted(l)[Len(sorted(l))] \in W[l]
      <4> HIDE DEF sorted
      <4> QED
        BY <1>3, <3>1, FrontOnce
    <3>3. one(l) = <<sorted(l)[Len(queues[l])]>> /\ O(l) = {sorted(l)[Len(queues[l])]}
      BY <2>1
    <3> QED
      BY <1>3, <3>1, <3>2, <3>3, OneList
  <2>2. CASE l \notin starts
    BY <2>2, EmptyList
  <2> QED
    BY <2>1, <2>2
<1>6. \A l, k \in Lanes : l # k => W[l] \cap W[k] = {}
  BY <1>1
<1>7. Lists(started, St)
  <2> HIDE DEF one, O
  <2>1. O("pep") \cap O("pem") = {} /\ (O("pep") \cup O("pem")) \cap O("pea") = {}
    <3>1. O("pep") \subseteq W["pep"] /\ O("pem") \subseteq W["pem"] /\ O("pea") \subseteq W["pea"]
      BY <1>0, <1>5
    <3> QED
      BY <1>0, <1>6, <3>1
  <2>2. Lists(one("pep") \o one("pem"), O("pep") \cup O("pem"))
    BY <1>0, <1>5, <2>1, ConcatOnce
  <2> QED
    BY <1>0, <1>5, <2>1, <2>2, ConcatOnce
<1>8. R = [issued |-> Reverse(queues["ctl"]) \o started,
           busy |-> starts \cup (Units \ idle),
           queue |-> [l \in Lanes |-> CASE l = "ctl" -> << >>
                                        [] l \in starts -> SubSeq(sorted(l), 1, Len(queues[l]) - 1)
                                        [] OTHER -> queues[l]],
           events |-> {[at |-> constantsAt, op |-> o] : o \in Range(queues["ctl"])}
                        \cup {[at |-> cycle + Latency(code[o]), op |-> o] : o \in Range(started)}]
  BY DEF Issue
<1>9. Range(queues["ctl"]) = W["ctl"]
  BY <1>0, ListFacts
<1>10. Range(started) = St
  <2> HIDE DEF started, St
  <2> QED
    BY <1>7, ListFacts
<1>11. \A l \in Units : O(l) \subseteq W[l]
  BY <1>5
<1>12. Lists(R.issued, W["ctl"] \cup St)
  <2>1. Lists(Reverse(queues["ctl"]), W["ctl"])
    BY <1>0, ReverseOnce
  <2>2. W["ctl"] \cap St = {}
    <3> HIDE DEF O
    <3>1. O("pep") \subseteq W["pep"] /\ O("pem") \subseteq W["pem"] /\ O("pea") \subseteq W["pea"]
      BY <1>0, <1>11
    <3> QED
      BY <1>0, <1>6, <3>1
  <2>3. R.issued = Reverse(queues["ctl"]) \o started
    <3> HIDE DEF starts, started, R
    <3> QED
      BY <1>8
  <2> HIDE DEF started, St, R
  <2> QED
    BY <1>7, <2>1, <2>2, <2>3, ConcatOnce
<1>13. R.busy = {l \in Units : l \in idle /\ W[l] # {}} \cup (Units \ idle)
  <2> HIDE DEF started, starts, R
  <2> QED
    BY <1>4, <1>8
<1> DEFINE Q == [l \in Lanes |-> CASE l = "ctl" -> << >>
                                   [] l \in starts -> SubSeq(sorted(l), 1, Len(queues[l]) - 1)
                                   [] OTHER -> queues[l]]
<1>14. R.queue = Q
  <2> HIDE DEF started, starts, sorted, R
  <2> QED
    BY <1>8
<1>15. R.events = {[at |-> constantsAt, op |-> o] : o \in W["ctl"]}
                   \cup {[at |-> cycle + Latency(code[o]), op |-> o] : o \in St}
  <2>1. R.events = {[at |-> constantsAt, op |-> o] : o \in Range(queues["ctl"])}
                    \cup {[at |-> cycle + Latency(code[o]), op |-> o] : o \in Range(started)}
    <3> HIDE DEF started, starts, sorted, R
    <3> QED
      BY <1>8
  <2> HIDE DEF started, St, R
  <2> QED
    BY <1>9, <1>10, <2>1
<1>16. ASSUME NEW l \in Lanes
       PROVE  Lists(Q[l], W[l] \ (St \cup W["ctl"]))
  <2>1. CASE l = "ctl"
    <3>1. Q[l] = << >>
      <4>1. l \notin starts
        BY <1>0, <2>1
      <4> HIDE DEF starts, sorted
      <4> QED
        BY <1>0, <2>1, <4>1
    <3>2. W[l] \ (St \cup W["ctl"]) = {}
      BY <2>1
    <3> QED
      BY <3>1, <3>2, EmptyList
  <2>2. CASE l # "ctl" /\ l \in starts
    <3>1. l \in Units /\ Q[l] = SubSeq(sorted(l), 1, Len(sorted(l)) - 1) /\ sorted(l) # << >>
      <4>1. l \in Units /\ queues[l] # << >>
        BY <2>2
      <4>2. Q[l] = SubSeq(sorted(l), 1, Len(queues[l]) - 1)
        <5> HIDE DEF starts, sorted
        <5> QED
          BY <2>2
      <4> HIDE DEF Q, sorted
      <4> QED
        BY <1>3, <4>1, <4>2
    <3>2. W[l] \ (St \cup W["ctl"]) = W[l] \ {sorted(l)[Len(sorted(l))]}
      <4>1. O(l) = {sorted(l)[Len(sorted(l))]}
        BY <1>3, <2>2
      <4>2. W[l] \cap W["ctl"] = {}
        BY <1>0, <1>6, <2>2
      <4>3. \A k \in Units : k # l => W[l] \cap O(k) = {}
        <5> HIDE DEF O
        <5> QED
          BY <1>0, <1>6, <1>11
      <4> HIDE DEF O, sorted
      <4>4. W[l] \cap St = W[l] \cap O(l)
        BY <1>0, <3>1, <4>3
      <4> QED
        BY <4>1, <4>2, <4>4
    <3> HIDE DEF sorted, Q, St
    <3> QED
      BY <1>3, <3>1, <3>2, FrontOnce
  <2>3. CASE l # "ctl" /\ l \notin starts
    <3>1. l \in Units /\ Q[l] = queues[l]
      <4> HIDE DEF starts, sorted
      <4> QED
        BY <1>0, <2>3
    <3>2. W[l] \ (St \cup W["ctl"]) = W[l]
      <4>1. O(l) = {}
        BY <2>3
      <4>2. W[l] \cap W["ctl"] = {}
        BY <1>0, <1>6, <2>3
      <4>3. \A k \in Units : k # l => W[l] \cap O(k) = {}
        <5> HIDE DEF O
        <5> QED
          BY <1>0, <1>6, <1>11
      <4> HIDE DEF O
      <4>4. W[l] \cap St = W[l] \cap O(l)
        BY <1>0, <3>1, <4>3
      <4> QED
        BY <4>1, <4>2, <4>4
    <3> HIDE DEF Q, St
    <3> QED
      BY <3>1, <3>2
  <2> QED
    BY <2>1, <2>2, <2>3
<1>17. \A o \in St : \E l \in Units : l \in starts /\ O(l) = {o} /\ o \in W[l]
  <2>1. \A l \in Units : \A o \in O(l) : l \in starts /\ O(l) = {o}
    <3> HIDE DEF starts, sorted
    <3> QED
      OBVIOUS
  <2> HIDE DEF O, starts
  <2> QED
    BY <1>0, <1>11, <2>1
<1>18. \A l \in Units : l \in idle /\ W[l] # {} => \E o \in St : o \in W[l]
  <2>1. \A l \in starts : O(l) # {} /\ l \in Units
    <3> HIDE DEF sorted
    <3> QED
      OBVIOUS
  <2> HIDE DEF O, starts
  <2> QED
    BY <1>0, <1>4, <1>11, <2>1
<1>19. \A o, q \in St : Lane(code[o]) = Lane(code[q]) => o = q
  <2> HIDE DEF O, starts, St
  <2> TAKE o, q \in St
  <2> HAVE Lane(code[o]) = Lane(code[q])
  <2>1. PICK l \in Units : O(l) = {o} /\ o \in W[l]
    BY <1>17
  <2>2. PICK k \in Units : O(k) = {q} /\ q \in W[k]
    BY <1>17
  <2>3. l = k
    BY <1>0, <1>1, <2>1, <2>2
  <2> QED
    BY <2>1, <2>2, <2>3
<1>20. \A o \in St : \E l \in Units : l \in idle /\ o \in W[l]
  <2> HIDE DEF O, St
  <2> QED
    BY <1>17
<1> HIDE DEF St, R, Q, starts, started, O
<1>21. DOMAIN R.queue = Lanes
  BY <1>14 DEF Q
<1>22. \A l \in Lanes : Lists(R.queue[l], W[l] \ (St \cup W["ctl"]))
  BY <1>14, <1>16
<1>23. Round(code, W, idle, cycle, constantsAt, St, R)
  BY <1>12, <1>13, <1>15, <1>18, <1>19, <1>20, <1>21, <1>22 DEF Round
<1> QED
  BY <1>23 DEF R

-----------------------------------------------------------------------------
(* The state between rounds.                                               *)

(* What the events retire, and what of the issued is retired.              *)
OpsOf(E) == {e.op : e \in E}
Retired(iss, E) == Range(iss) \ OpsOf(E)

(* Every operation runs on a lane.                                         *)
LEMMA LaneOf ==
  ASSUME NEW code, WellFormed(code), NEW o \in Ops(code)
  PROVE  Lane(code[o]) \in Lanes
<1>1. code[o].kind \in {"ld", "st", "lin", "imm", "cst", "batch"}
  BY DEF WellFormed
<1> DEFINE k == code[o].kind
<1>2. k = "ld" \/ k = "st" \/ k = "imm" \/ k = "lin" \/ k = "batch" \/ k = "cst"
  BY <1>1
<1>3. Lane(code[o]) = CASE k = "lin" -> "pea"
                        [] k \in {"ld", "st", "imm"} -> "pem"
                        [] k = "batch" -> "pep"
                        [] k = "cst" -> "ctl"
  BY DEF Lane
<1> HIDE DEF k
<1>4. Lane(code[o]) \in {"pea", "pem", "pep", "ctl"}
  BY <1>2, <1>3
<1> QED
  BY <1>4 DEF Lanes, Units

-----------------------------------------------------------------------------
(* A round of issue.                                                       *)

(* What the scheduler has issued, started and not retired: of a state, and *)
(* of a state between a retirement and the round of issue after it.        *)
Ordered(code, iss) ==
  \A n \in DOMAIN iss : Preds(code, iss[n]) \subseteq {iss[m] : m \in 1 .. n - 1}

(* What is issued so far, each after what it depends on, and at most one   *)
(* of a lane not retired.                                                  *)
Started(code, iss, E) ==
  /\ WellFormed(code)
  /\ Lists(iss, Range(iss)) /\ Range(iss) \subseteq Ops(code)
  /\ Ordered(code, iss)
  /\ \A e \in E : e.op \in Range(iss)
  /\ \A e, f \in E : e.op = f.op => e = f
  /\ \A e, f \in E : Lane(code[e.op]) = Lane(code[f.op]) /\ Lane(code[e.op]) # "ctl" => e = f

(* The queues hold what is not issued but depends on retired operations    *)
(* only.                                                                   *)
Ready(code, iss, E, W) ==
  /\ Waiting(code, W)
  /\ \A l \in Lanes : W[l] \cap Range(iss) = {}
  /\ \A o \in Ops(code) :
       Preds(code, o) \subseteq Range(iss) \ OpsOf(E) <=> o \in Range(iss) \/ \E l \in Lanes : o \in W[l]

(* The lanes that no event will free.                                      *)
LanesIdle(code, E, idle) ==
  idle \in SUBSET Units /\ \A l \in Units : l \in idle <=> ~ \E e \in E : Lane(code[e.op]) = l

(* What each queue holds.                                                  *)
QueueSets(q) == [l \in Lanes |-> Range(q[l])]

(* What a round of issue leaves: no constant waits, and nothing waits for  *)
(* an idle lane.                                                           *)
Scheduling(code, iss, E, q, bz) ==
  /\ Started(code, iss, E)
  /\ DOMAIN q = Lanes /\ \A l \in Lanes : Lists(q[l], Range(q[l]))
  /\ q["ctl"] = << >>
  /\ Ready(code, iss, E, QueueSets(q))
  /\ bz \subseteq Units /\ LanesIdle(code, E, Units \ bz)
  /\ \A l \in Lanes : q[l] # << >> => l \in bz

(* The operations of a list and of the list after it.                      *)
LEMMA RangeOfConcat ==
  ASSUME NEW S, NEW s, Lists(s, S), NEW T, NEW t, Lists(t, T), S \cap T = {}
  PROVE  /\ Lists(s \o t, S \cup T) /\ Range(s \o t) = S \cup T
         /\ Len(s \o t) = Len(s) + Len(t) /\ DOMAIN (s \o t) = 1 .. Len(s) + Len(t)
         /\ \A n \in 1 .. Len(s) : (s \o t)[n] = s[n]
         /\ \A n \in 1 .. Len(s) + Len(t) : n \in 1 .. Len(s) \/ (s \o t)[n] \in T
<1>1. Lists(s \o t, S \cup T)
  BY ConcatOnce
<1>2. Range(s \o t) = S \cup T
  BY <1>1, ListFacts
<1>3. s \in Seq(S) /\ t \in Seq(T) /\ Len(s) \in Nat /\ Len(t) \in Nat
  BY DEF Lists
<1>4. Len(s \o t) = Len(s) + Len(t) /\ DOMAIN (s \o t) = 1 .. Len(s) + Len(t)
  BY <1>3
<1>5. \A n \in 1 .. Len(s) : (s \o t)[n] = s[n]
  BY <1>3
<1>6. \A n \in 1 .. Len(s) + Len(t) : n \in 1 .. Len(s) \/ (s \o t)[n] \in T
  <2> TAKE n \in 1 .. Len(s) + Len(t)
  <2>1. CASE n \notin 1 .. Len(s)
    <3>1. n - Len(s) \in 1 .. Len(t) /\ (s \o t)[n] = t[n - Len(s)]
      BY <1>3, <2>1
    <3>2. t[n - Len(s)] \in T
      BY <1>3, <3>1
    <3> QED
      BY <3>1, <3>2
  <2> QED
    BY <2>1
<1> QED
  BY <1>1, <1>2, <1>4, <1>5, <1>6

(* A round of issue keeps what has been issued in order, and leaves        *)
(* nothing waiting for an idle lane.                                       *)
LEMMA RoundKeeps ==
  ASSUME NEW code, NEW iss, NEW E, NEW W, NEW idle, NEW cycle, NEW constantsAt, NEW St, NEW R,
         Started(code, iss, E), Ready(code, iss, E, W), LanesIdle(code, E, idle),
         Round(code, W, idle, cycle, constantsAt, St, R)
  PROVE  /\ Scheduling(code, iss \o R.issued, E \cup R.events, R.queue, R.busy)
         /\ Retired(iss \o R.issued, E \cup R.events) = Retired(iss, E)
<1> DEFINE I == Range(iss)
           T == W["ctl"] \cup St
           iss2 == iss \o R.issued
           E2 == E \cup R.events
           q == R.queue
           bz == R.busy
<1>0. Units \subseteq Lanes /\ "ctl" \in Lanes /\ "ctl" \notin Units /\ Lanes = Units \cup {"ctl"}
  BY DEF Units, Lanes
<1>1. \A l \in Lanes : W[l] \subseteq Ops(code) /\ \A o \in W[l] : Lane(code[o]) = l /\ o \notin I
  BY DEF Ready, Waiting
<1>2. \A o \in St : \E l \in Units : l \in idle /\ o \in W[l] /\ Lane(code[o]) = l
  BY <1>0, <1>1 DEF Round
<1>3. \A o \in T : o \in Ops(code) /\ o \notin I /\ \E l \in Lanes : o \in W[l]
  BY <1>0, <1>1, <1>2
<1>4. Lists(iss, I) /\ Lists(R.issued, T) /\ I \cap T = {} /\ I \subseteq Ops(code)
  BY <1>3 DEF Started, Round
<1>5. /\ Lists(iss2, I \cup T) /\ Range(iss2) = I \cup T
      /\ DOMAIN iss2 = 1 .. Len(iss) + Len(R.issued) /\ Len(iss) \in Nat /\ DOMAIN iss = 1 .. Len(iss)
      /\ \A n \in 1 .. Len(iss) : iss2[n] = iss[n]
      /\ \A n \in 1 .. Len(iss) + Len(R.issued) : n \in 1 .. Len(iss) \/ iss2[n] \in T
  <2>1. Len(iss) \in Nat /\ DOMAIN iss = 1 .. Len(iss)
    BY <1>4, ListFacts
  <2> DEFINE c == R.issued
  <2>2. Lists(c, T)
    BY <1>4
  <2> HIDE DEF T, I, c
  <2>3. /\ Lists(iss \o c, I \cup T) /\ Range(iss \o c) = I \cup T
        /\ Len(iss \o c) = Len(iss) + Len(c) /\ DOMAIN (iss \o c) = 1 .. Len(iss) + Len(c)
        /\ \A n \in 1 .. Len(iss) : (iss \o c)[n] = iss[n]
        /\ \A n \in 1 .. Len(iss) + Len(c) : n \in 1 .. Len(iss) \/ (iss \o c)[n] \in T
    BY <1>4, <2>2, RangeOfConcat
  <2>4. iss2 = iss \o c
    BY DEF c
  <2> HIDE DEF iss2
  <2>5. Lists(iss2, I \cup T) /\ Range(iss2) = I \cup T /\ DOMAIN iss2 = 1 .. Len(iss) + Len(c)
    BY <2>3, <2>4
  <2>6. /\ \A n \in 1 .. Len(iss) : iss2[n] = iss[n]
        /\ \A n \in 1 .. Len(iss) + Len(c) : n \in 1 .. Len(iss) \/ iss2[n] \in T
    BY <2>3, <2>4
  <2> QED
    BY <2>1, <2>5, <2>6 DEF c
<1>6. /\ \A o \in T : \E e \in R.events : e.op = o
      /\ \A e \in R.events : e.op \in T
      /\ \A e, f \in R.events : e.op = f.op => e = f
  <2>1. W["ctl"] \cap St = {}
    BY <1>0, <1>1, <1>2
  <2>2. R.events = {[at |-> constantsAt, op |-> o] : o \in W["ctl"]}
                     \cup {[at |-> cycle + Latency(code[o]), op |-> o] : o \in St}
    BY DEF Round
  <2>3. \A e \in R.events : \/ e.op \in W["ctl"] /\ e = [at |-> constantsAt, op |-> e.op]
                            \/ e.op \in St /\ e = [at |-> cycle + Latency(code[e.op]), op |-> e.op]
    BY <2>2
  <2>4. ASSUME NEW o \in T PROVE \E e \in R.events : e.op = o
    <3>1. CASE o \in W["ctl"]
      <4>1. [at |-> constantsAt, op |-> o] \in R.events
        BY <2>2, <3>1
      <4> QED
        BY <4>1
    <3>2. CASE o \in St
      <4>1. [at |-> cycle + Latency(code[o]), op |-> o] \in R.events
        BY <2>2, <3>2
      <4> QED
        BY <4>1
    <3> QED
      BY <3>1, <3>2
  <2>5. \A e, f \in R.events : e.op = f.op => e = f
    BY <2>1, <2>3
  <2> QED
    BY <2>3, <2>4, <2>5
<1>7. OpsOf(E) \subseteq I /\ OpsOf(E2) = OpsOf(E) \cup T
  <2>1. OpsOf(E) \subseteq I
    BY DEF OpsOf, Started
  <2>2. OpsOf(E2) = OpsOf(E) \cup OpsOf(R.events)
    BY DEF OpsOf
  <2>3. OpsOf(R.events) = T
    BY <1>6 DEF OpsOf
  <2> QED
    BY <2>1, <2>2, <2>3
<1>8. Range(iss2) \ OpsOf(E2) = I \ OpsOf(E)
  BY <1>4, <1>5, <1>7
<1>9. \A o \in T : Preds(code, o) \subseteq I
  BY <1>3 DEF Ready
<1>10. \A l \in Lanes : q[l] = q[l] /\ Lists(q[l], W[l] \ T) /\ Range(q[l]) = W[l] \ T
  <2> TAKE l \in Lanes
  <2>1. Lists(q[l], W[l] \ T)
    <3>1. Lists(q[l], W[l] \ (St \cup W["ctl"]))
      BY DEF Round
    <3>2. St \cup W["ctl"] = T
      OBVIOUS
    <3> QED
      BY <3>1, <3>2
  <2> HIDE DEF T, q
  <2> QED
    BY <2>1, ListFacts
<1> HIDE DEF iss2, E2, q, bz, I
<1>11. Started(code, iss2, E2)
  <2>1. WellFormed(code) /\ Lists(iss2, Range(iss2)) /\ Range(iss2) \subseteq Ops(code)
    BY <1>3, <1>4, <1>5 DEF Started
  <2>2. ASSUME NEW n \in DOMAIN iss2, NEW p \in Preds(code, iss2[n])
        PROVE  p \in {iss2[m] : m \in 1 .. n - 1}
    <3>1. CASE n \in 1 .. Len(iss)
      <4>1. p \in Preds(code, iss[n])
        BY <1>5, <3>1
      <4>2. PICK m \in 1 .. n - 1 : p = iss[m]
        BY <1>5, <3>1, <4>1 DEF Started, Ordered
      <4>3. m \in 1 .. Len(iss)
        BY <1>5, <3>1
      <4> QED
        BY <1>5, <4>2, <4>3
    <3>2. CASE n \notin 1 .. Len(iss)
      <4>1. p \in I
        BY <1>5, <1>9, <3>2
      <4>2. PICK m \in 1 .. Len(iss) : p = iss[m]
        BY <1>4, <1>5, <4>1 DEF Lists
      <4>3. m \in 1 .. n - 1
        BY <1>5, <3>2
      <4> QED
        BY <1>5, <4>2, <4>3
    <3> QED
      BY <3>1, <3>2
  <2>3. Ordered(code, iss2)
    BY <2>2 DEF Ordered
  <2>a. \A e \in E : e.op \in I
    BY DEF Started, I
  <2>4. \A e \in E2 : (e \in E /\ e.op \in I) \/ (e \in R.events /\ e.op \in T)
    BY <1>6, <2>a DEF E2
  <2>5. \A e \in E2 : e.op \in Range(iss2)
    BY <1>5, <2>4
  <2>6. \A e, f \in E2 : e.op = f.op => e = f
    <3> TAKE e, f \in E2
    <3> HAVE e.op = f.op
    <3>1. CASE e \in E /\ e.op \in I
      <4>1. f \in E
        BY <1>4, <2>4, <3>1
      <4> QED
        BY <3>1, <4>1 DEF Started
    <3>2. CASE e \in R.events /\ e.op \in T
      <4>1. f \in R.events
        BY <1>4, <2>4, <3>2
      <4> QED
        BY <1>6, <3>2, <4>1
    <3> QED
      BY <2>4, <3>1, <3>2
  <2>7. ASSUME NEW e \in E2, NEW f \in E2,
               Lane(code[e.op]) = Lane(code[f.op]), Lane(code[e.op]) # "ctl"
        PROVE  e = f
    <3>1. ASSUME NEW x \in R.events, Lane(code[x.op]) # "ctl" PROVE x.op \in St /\ Lane(code[x.op]) \in idle
      <4>1. x.op \in T
        BY <1>6
      <4>2. x.op \in St
        BY <1>0, <1>1, <3>1, <4>1
      <4> QED
        BY <1>2, <4>2
    <3>2. ASSUME NEW x \in E, Lane(code[x.op]) \in idle PROVE FALSE
      BY <3>2 DEF LanesIdle
    <3>3. CASE e \in E /\ f \in E
      BY <2>7, <3>3 DEF Started
    <3>4. CASE e \in R.events /\ f \in R.events
      <4>1. e.op = f.op
        BY <2>7, <3>1, <3>4 DEF Round
      <4> QED
        BY <1>6, <3>4, <4>1
    <3>5. CASE e \in E /\ f \in R.events
      BY <2>7, <3>1, <3>2, <3>5
    <3>6. CASE f \in E /\ e \in R.events
      BY <2>7, <3>1, <3>2, <3>6
    <3> QED
      BY <3>3, <3>4, <3>5, <3>6 DEF E2
  <2>8. \A e, f \in E2 : Lane(code[e.op]) = Lane(code[f.op]) /\ Lane(code[e.op]) # "ctl" => e = f
    BY <2>7
  <2> QED
    BY <2>1, <2>3, <2>5, <2>6, <2>8 DEF Started
<1>12. DOMAIN q = Lanes /\ \A l \in Lanes : Lists(q[l], Range(q[l]))
  <2>1. DOMAIN q = Lanes
    BY DEF q, Round
  <2> QED
    BY <1>10, <2>1
<1>13. q["ctl"] = << >>
  <2>1. Lists(q["ctl"], W["ctl"] \ T)
    BY <1>0, <1>10
  <2>2. W["ctl"] \ T = {}
    OBVIOUS
  <2> QED
    BY <2>1, <2>2, ListFacts
<1>14. Ready(code, iss2, E2, QueueSets(q))
  <2> DEFINE V == QueueSets(q)
  <2>1. V = [l \in Lanes |-> W[l] \ T]
    BY <1>10 DEF QueueSets
  <2> HIDE DEF V
  <2>2. Waiting(code, V)
    BY <1>1, <2>1 DEF Waiting
  <2>3. \A l \in Lanes : V[l] \cap Range(iss2) = {}
    BY <1>1, <1>5, <2>1
  <2>4. \A o : (o \in Range(iss2) \/ \E l \in Lanes : o \in V[l]) <=> (o \in I \/ \E l \in Lanes : o \in W[l])
    <3> TAKE o
    <3>1. CASE o \in T
      BY <1>3, <1>5, <3>1
    <3>2. CASE o \notin T
      BY <1>5, <2>1, <3>2
    <3> QED
      BY <3>1, <3>2
  <2>5. \A o \in Ops(code) :
          Preds(code, o) \subseteq Range(iss2) \ OpsOf(E2) <=> o \in Range(iss2) \/ \E l \in Lanes : o \in V[l]
    BY <1>8, <2>4 DEF Ready, I
  <2> QED
    BY <2>2, <2>3, <2>5 DEF Ready, V
<1>15. bz = {l \in Units : l \in idle /\ W[l] # {}} \cup (Units \ idle) /\ bz \subseteq Units
  BY DEF bz, Round
<1>16. LanesIdle(code, E2, Units \ bz)
  <2>1. ASSUME NEW l \in Units PROVE l \in bz <=> \E e \in E2 : Lane(code[e.op]) = l
    <3>1. CASE l \notin idle
      <4>1. \E e \in E : Lane(code[e.op]) = l
        BY <3>1 DEF LanesIdle
      <4> QED
        BY <1>15, <3>1, <4>1 DEF E2
    <3>2. CASE l \in idle /\ W[l] # {}
      <4>1. PICK o \in St : o \in W[l]
        BY <3>2 DEF Round
      <4>2. PICK e \in R.events : e.op = o
        BY <1>6, <4>1
      <4>3. Lane(code[e.op]) = l
        BY <1>0, <1>1, <4>1, <4>2
      <4> QED
        BY <1>15, <3>2, <4>2, <4>3 DEF E2
    <3>3. CASE l \in idle /\ W[l] = {}
      <4>1. l \notin bz
        BY <1>15, <3>3
      <4>2. ASSUME NEW e \in E2, Lane(code[e.op]) = l PROVE FALSE
        <5>1. e \in R.events
          BY <3>3, <4>2 DEF E2, LanesIdle
        <5>2. e.op \in T
          BY <1>6, <5>1
        <5>3. PICK k \in Lanes : e.op \in W[k]
          BY <1>3, <5>2
        <5>4. k = l
          BY <1>1, <4>2, <5>3
        <5> QED
          BY <3>3, <5>3, <5>4
      <4> QED
        BY <4>1, <4>2
    <3> QED
      BY <3>1, <3>2, <3>3
  <2> QED
    BY <2>1 DEF LanesIdle
<1>17. \A l \in Lanes : q[l] # << >> => l \in bz
  <2> TAKE l \in Lanes
  <2> HAVE q[l] # << >>
  <2>a. Lists(q[l], W[l] \ T)
    BY <1>10
  <2>1. W[l] \ T # {}
    <3> HIDE DEF T
    <3> QED
      BY <2>a, ListFacts
  <2>2. l \in Units
    BY <1>0, <2>1
  <2> QED
    BY <1>15, <2>1, <2>2
<1>18. Scheduling(code, iss2, E2, q, bz)
  BY <1>11, <1>12, <1>13, <1>14, <1>15, <1>16, <1>17 DEF Scheduling
<1>19. Retired(iss2, E2) = Retired(iss, E)
  BY <1>8 DEF Retired, I
<1> QED
  BY <1>18, <1>19 DEF iss2, E2, q, bz

RetiredOps == Retired(issued, events)

-----------------------------------------------------------------------------
(* The steps of the scheduler.                                             *)

(* What the scheduler keeps: it counts, for each operation, the            *)
(* predecessors that have not retired.                                     *)
SchedInv ==
  /\ Scheduling(program, issued, events, queue, busy)
  /\ pending = [o \in Ops(program) |-> Cardinality(Preds(program, o) \ RetiredOps)]

(* At the start of a program nothing is issued.                            *)
LEMMA NothingStarted ==
  ASSUME NEW code, WellFormed(code)
  PROVE  Started(code, << >>, {}) /\ Range(<< >>) = {} /\ OpsOf({}) = {} /\ LanesIdle(code, {}, Units)
<1>1. Range(<< >>) = {}
  BY DEF Range
<1>2. Lists(<< >>, Range(<< >>))
  BY <1>1, EmptyList
<1>3. OpsOf({}) = {}
  BY DEF OpsOf
<1>4. LanesIdle(code, {}, Units)
  BY DEF LanesIdle
<1>5. Ordered(code, << >>)
  BY DEF Ordered
<1>6. Started(code, << >>, {})
  BY <1>1, <1>2, <1>5 DEF Started
<1> QED
  BY <1>1, <1>3, <1>4, <1>6

(* The invariant holds before a program is given.                          *)
LEMMA SchedInitKept ==
  ASSUME SchedulerInit
  PROVE  SchedInv
<1>1. program = << >> /\ issued = << >> /\ busy = {} /\ events = {} /\ queue = [l \in Lanes |-> << >>] /\ pending = << >>
  BY DEF SchedulerInit
<1>2. WellFormed(<< >>) /\ Ops(<< >>) = {}
  BY DEF WellFormed, Ops
<1>3. Started(program, issued, events) /\ Range(<< >>) = {} /\ OpsOf({}) = {} /\ LanesIdle(program, {}, Units)
  BY <1>1, <1>2, NothingStarted
<1>4. QueueSets(queue) = [l \in Lanes |-> {}]
  BY <1>1, <1>3 DEF QueueSets
<1>5. Waiting(program, QueueSets(queue))
  BY <1>4 DEF Waiting
<1>6. Ready(program, issued, events, QueueSets(queue))
  BY <1>1, <1>2, <1>3, <1>4, <1>5 DEF Ready
<1>7. "ctl" \in Lanes
  BY DEF Lanes
<1>8. DOMAIN queue = Lanes /\ \A l \in Lanes : queue[l] = << >>
  BY <1>1
<1>9. \A l \in Lanes : Lists(queue[l], Range(queue[l]))
  BY <1>3, <1>8, EmptyList
<1>10. busy \subseteq Units /\ Units \ busy = Units
  BY <1>1
<1>11. LanesIdle(program, events, Units \ busy)
  BY <1>1, <1>3, <1>10
<1>12. Scheduling(program, issued, events, queue, busy)
  BY <1>3, <1>6, <1>7, <1>8, <1>9, <1>10, <1>11 DEF Scheduling
<1>13. pending = [o \in Ops(program) |-> Cardinality(Preds(program, o) \ RetiredOps)]
  BY <1>1, <1>2
<1> QED
  BY <1>12, <1>13 DEF SchedInv

(* It holds of every well-formed program that is given.                    *)
LEMMA StartScheduleKeeps ==
  ASSUME NEW code, WellFormed(code), StartSchedule(code)
  PROVE  SchedInv'
<1> DEFINE W == [l \in Lanes |-> {o \in Ops(code) : Preds(code, o) = {} /\ Lane(code[o]) = l}]
           queues == [l \in Lanes |-> Ascending({o \in Ops(code) : Preds(code, o) = {} /\ Lane(code[o]) = l})]
           R == Issue(code, queues, Units, 0, 0)
<1>1. /\ program' = code /\ issued' = R.issued /\ busy' = R.busy /\ queue' = R.queue /\ events' = R.events
      /\ pending' = [o \in Ops(code) |-> Cardinality(Preds(code, o))]
  BY DEF StartSchedule
<1>2. IsFiniteSet(Ops(code)) /\ \A o \in Ops(code) : o \in Nat
  BY Graph
<1>3. \A l \in Lanes : Lists(queues[l], W[l])
  <2> TAKE l \in Lanes
  <2> DEFINE S == {o \in Ops(code) : Preds(code, o) = {} /\ Lane(code[o]) = l}
  <2>1. IsFiniteSet(S) /\ \A o \in S : o \in Nat
    BY <1>2, FS_Subset
  <2>2. queues[l] = Ascending(S) /\ W[l] = S
    OBVIOUS
  <2> HIDE DEF S, queues, W
  <2> QED
    BY <2>1, <2>2, AscendingOnce
<1>4. Waiting(code, W)
  BY DEF Waiting
<1>5. Started(code, << >>, {}) /\ Range(<< >>) = {} /\ OpsOf({}) = {} /\ LanesIdle(code, {}, Units)
  BY NothingStarted
<1>6. Ready(code, << >>, {}, W)
  <2>1. \A o \in Ops(code) : Lane(code[o]) \in Lanes
    BY LaneOf
  <2>2. \A o \in Ops(code) : Preds(code, o) \subseteq {} <=> \E l \in Lanes : o \in W[l]
    BY <2>1
  <2> HIDE DEF W
  <2> QED
    BY <1>4, <1>5, <2>2 DEF Ready
<1> HIDE DEF W, queues, R
<1>7. PICK St : Round(code, W, Units, 0, 0, St, R)
  BY <1>3, <1>4, IssueRound DEF R
<1> DEFINE none == << >>
           E == {}
<1>8. /\ Scheduling(code, none \o R.issued, E \cup R.events, R.queue, R.busy)
      /\ Retired(none \o R.issued, E \cup R.events) = Retired(none, E)
  <2>1. Started(code, none, E) /\ Ready(code, none, E, W) /\ LanesIdle(code, E, Units)
    BY <1>5, <1>6
  <2> HIDE DEF none, E
  <2>2. Scheduling(code, none \o R.issued, E \cup R.events, R.queue, R.busy)
    BY ONLY <1>7, <2>1, RoundKeeps
  <2>3. Retired(none \o R.issued, E \cup R.events) = Retired(none, E)
    BY ONLY <1>7, <2>1, RoundKeeps
  <2> QED
    BY <2>2, <2>3
<1>9. << >> \o R.issued = R.issued /\ {} \cup R.events = R.events
  <2>1. R.issued \in Seq(W["ctl"] \cup St)
    BY <1>7 DEF Round, Lists
  <2> QED
    BY <2>1
<1>10. Scheduling(code, R.issued, R.events, R.queue, R.busy)
  BY <1>8, <1>9
<1>11. Range(R.issued) \ OpsOf(R.events) = {}
  BY <1>5, <1>8, <1>9 DEF Retired
<1>12. (RetiredOps)' = {}
  BY <1>1, <1>11 DEF RetiredOps, Retired, OpsOf
<1>13. pending' = [o \in Ops(code) |-> Cardinality(Preds(code, o) \ {})]
  BY <1>1
<1> QED
  BY <1>1, <1>10, <1>12, <1>13 DEF SchedInv

(* What is retired now, what is released by it, what is left to wait for.  *)
LEMMA RetireOpKeeps ==
  ASSUME SchedInv, NEW e \in events, RetireOp(e)
  PROVE  SchedInv'
<1> DEFINE code == program
           E == events \ {e}
           Rel(l) == {u \in Users(program, e.op) : pending[u] = 1 /\ Lane(program[u]) = l}
           W == [l \in Lanes |-> Range(queue[l]) \cup Rel(l)]
           queues == [l \in Lanes |-> queue[l] \o Ascending(Rel(l))]
           idle == IdleAfter(e)
           R == Issue(program, queues, idle, e.at, e.at + 1)
           Ret == Range(issued) \ OpsOf(events)
           Ret2 == Range(issued) \ OpsOf(E)
<1>1. /\ program' = program /\ issued' = issued \o R.issued /\ busy' = R.busy /\ queue' = R.queue
      /\ events' = E \cup R.events
      /\ pending' = [u \in Ops(program) |-> pending[u] - (IF u \in Users(program, e.op) THEN 1 ELSE 0)]
  BY DEF RetireOp
<1>2. /\ Scheduling(code, issued, events, queue, busy) /\ WellFormed(code) /\ Started(code, issued, events)
      /\ Ready(code, issued, events, QueueSets(queue)) /\ LanesIdle(code, events, Units \ busy)
  BY DEF SchedInv, Scheduling, Started
<1>3. /\ IsFiniteSet(Ops(code)) /\ \A o \in Ops(code) : o \in Nat /\ Preds(code, o) \subseteq Ops(code)
      /\ \A o \in Ops(code) : IsFiniteSet(Preds(code, o))
  <2>1. IsFiniteSet(Ops(code)) /\ \A o \in Ops(code) : o \in Nat /\ Preds(code, o) \subseteq Ops(code)
    BY <1>2, Graph
  <2> QED
    BY <2>1, FS_Subset
<1>4. \A u \in Ops(code) : pending[u] = Cardinality(Preds(code, u) \ Ret)
  BY DEF SchedInv, RetiredOps, Retired
<1>5. e.op \in Range(issued) /\ e.op \in Ops(code) /\ e.op \notin Ret /\ e.op \in OpsOf(events)
  <2>1. e.op \in Range(issued) /\ e.op \in Ops(code)
    BY <1>2 DEF Started
  <2>2. e.op \in OpsOf(events)
    BY DEF OpsOf
  <2> QED
    BY <2>1, <2>2
<1>6. OpsOf(E) = OpsOf(events) \ {e.op}
  BY <1>2 DEF OpsOf, Started
<1>7. Ret2 = Ret \cup {e.op}
  BY <1>5, <1>6
<1> HIDE DEF Ret2, Ret
<1>8. ASSUME NEW u \in Ops(code)
      PROVE  /\ pending[u] \in Nat
             /\ Cardinality(Preds(code, u) \ Ret2) = pending[u] - (IF u \in Users(code, e.op) THEN 1 ELSE 0)
             /\ u \in Users(code, e.op) => (pending[u] = 1 <=> Preds(code, u) \subseteq Ret2)
  <2> DEFINE P == Preds(code, u) \ Ret
  <2>1. IsFiniteSet(P) /\ Cardinality(P) \in Nat /\ pending[u] = Cardinality(P)
    BY <1>3, <1>4, FS_Subset, FS_CardinalityType
  <2>2. u \in Users(code, e.op) <=> e.op \in Preds(code, u)
    BY DEF Users
  <2>3. CASE e.op \in Preds(code, u)
    <3>1. Preds(code, u) \ Ret2 = P \ {e.op} /\ e.op \in P
      BY <1>5, <1>7, <2>3
    <3> HIDE DEF P
    <3>2. Cardinality(P \ {e.op}) = Cardinality(P) - 1 /\ IsFiniteSet(P \ {e.op})
      BY <2>1, <3>1, FS_RemoveElement
    <3>3. Cardinality(P \ {e.op}) = 0 <=> P \ {e.op} = {}
      BY <3>2, FS_EmptySet
    <3>4. Preds(code, u) \subseteq Ret2 <=> P \ {e.op} = {}
      BY <3>1
    <3> QED
      BY <2>1, <2>2, <2>3, <3>1, <3>2, <3>3, <3>4
  <2>4. CASE e.op \notin Preds(code, u)
    <3>1. Preds(code, u) \ Ret2 = P
      BY <1>7, <2>4
    <3> HIDE DEF P
    <3> QED
      BY <2>1, <2>2, <2>4, <3>1
  <2> QED
    BY <2>3, <2>4
<1>9. \A u \in Users(code, e.op) : u \in Ops(code) /\ ~ (Preds(code, u) \subseteq Ret)
  BY <1>5 DEF Users
<1>10. /\ \A l \in Lanes : \A o \in Range(queue[l]) : o \in Ops(code) /\ Lane(code[o]) = l /\ o \notin Range(issued)
       /\ \A o \in Ops(code) : Preds(code, o) \subseteq Ret <=> o \in Range(issued) \/ \E l \in Lanes : o \in Range(queue[l])
  <2>1. \A l \in Lanes : QueueSets(queue)[l] = Range(queue[l])
    BY DEF QueueSets
  <2> DEFINE V == QueueSets(queue)
  <2> HIDE DEF V
  <2>2. Ready(code, issued, events, V) /\ \A l \in Lanes : V[l] = Range(queue[l])
    BY <1>2, <2>1 DEF V
  <2> QED
    BY <2>2 DEF Ready, Waiting, Ret
<1>11. \A l \in Lanes : Lists(queue[l], Range(queue[l])) /\ Rel(l) \cap Range(queue[l]) = {} /\ Rel(l) \cap Range(issued) = {}
  <2> TAKE l \in Lanes
  <2>1. Lists(queue[l], Range(queue[l]))
    BY <1>2 DEF Scheduling
  <2>2. ASSUME NEW u \in Rel(l) PROVE u \notin Range(queue[l]) /\ u \notin Range(issued)
    BY <1>9, <1>10
  <2> QED
    BY <2>1, <2>2
<1>12. \A l \in Lanes : Lists(queues[l], W[l])
  <2> TAKE l \in Lanes
  <2>1. queues[l] = queue[l] \o Ascending(Rel(l)) /\ W[l] = Range(queue[l]) \cup Rel(l)
    OBVIOUS
  <2>2. \A u \in Rel(l) : u \in Ops(code)
    BY <1>9
  <2> HIDE DEF Rel, queues, W
  <2>3. IsFiniteSet(Rel(l)) /\ \A u \in Rel(l) : u \in Nat
    <3>1. Rel(l) \subseteq Ops(code)
      BY <2>2
    <3> QED
      BY <1>3, <3>1, FS_Subset
  <2>4. Lists(Ascending(Rel(l)), Rel(l))
    BY <2>3, AscendingOnce
  <2> QED
    BY <1>11, <2>1, <2>4, ConcatOnce
<1>13. Waiting(code, W)
  BY <1>9, <1>10 DEF Waiting
<1>14. Started(code, issued, E)
  BY <1>2 DEF Started
<1>15. Ready(code, issued, E, W)
  <2>1. \A l \in Lanes : W[l] \cap Range(issued) = {}
    BY <1>10, <1>11
  <2>2. ASSUME NEW o \in Ops(code)
        PROVE  Preds(code, o) \subseteq Ret2 <=> o \in Range(issued) \/ \E l \in Lanes : o \in W[l]
    <3>1. \A l \in Lanes : o \in W[l] <=> o \in Range(queue[l]) \/ o \in Rel(l)
      OBVIOUS
    <3>2. Lane(code[o]) \in Lanes
      BY <1>2, LaneOf
    <3>3. (\E l \in Lanes : o \in Rel(l)) <=> o \in Users(code, e.op) /\ pending[o] = 1
      BY <3>2
    <3> HIDE DEF W, Rel
    <3>4. CASE Preds(code, o) \subseteq Ret
      <4>1. o \in Range(issued) \/ \E l \in Lanes : o \in Range(queue[l])
        BY <1>10, <3>4
      <4>2. Preds(code, o) \subseteq Ret2
        BY <1>7, <3>4
      <4> QED
        BY <3>1, <4>1, <4>2
    <3>5. CASE ~ (Preds(code, o) \subseteq Ret)
      <4>1. ~ (o \in Range(issued) \/ \E l \in Lanes : o \in Range(queue[l]))
        BY <1>10, <3>5
      <4>2. CASE o \in Users(code, e.op)
        <5>1. pending[o] = 1 <=> Preds(code, o) \subseteq Ret2
          BY <1>8, <4>2
        <5> QED
          BY <3>1, <3>3, <4>1, <4>2, <5>1
      <4>3. CASE o \notin Users(code, e.op)
        <5>1. e.op \notin Preds(code, o)
          BY <4>3 DEF Users
        <5>2. ~ (Preds(code, o) \subseteq Ret2)
          BY <1>7, <3>5, <5>1
        <5> QED
          BY <3>1, <3>3, <4>1, <4>3, <5>2
      <4> QED
        BY <4>2, <4>3
    <3> QED
      BY <3>4, <3>5
  <2> HIDE DEF W
  <2> QED
    BY <1>13, <2>1, <2>2 DEF Ready, Ret2
<1>16. LanesIdle(code, E, idle)
  <2>1. idle = Units \ (busy \ {Lane(code[e.op])}) /\ idle \subseteq Units
    BY DEF IdleAfter
  <2>2. ASSUME NEW l \in Units PROVE l \in idle <=> ~ \E f \in E : Lane(code[f.op]) = l
    <3>1. l \in Units \ busy <=> ~ \E f \in events : Lane(code[f.op]) = l
      BY <1>2 DEF LanesIdle
    <3>2. CASE l = Lane(code[e.op])
      <4>1. l # "ctl"
        BY DEF Units
      <4>2. \A f \in events : Lane(code[f.op]) = l => f = e
        BY <1>2, <3>2, <4>1 DEF Started
      <4> QED
        BY <2>1, <3>2, <4>2
    <3>3. CASE l # Lane(code[e.op])
      BY <2>1, <3>1, <3>3
    <3> QED
      BY <3>2, <3>3
  <2> QED
    BY <2>1, <2>2 DEF LanesIdle
<1> HIDE DEF W, queues, R, E, idle
<1>17. PICK St : Round(code, W, idle, e.at, e.at + 1, St, R)
  BY <1>2, <1>12, <1>13, <1>16, IssueRound DEF R, LanesIdle
<1>18. /\ Scheduling(code, issued \o R.issued, E \cup R.events, R.queue, R.busy)
       /\ Retired(issued \o R.issued, E \cup R.events) = Retired(issued, E)
  <2> DEFINE cycle == e.at
             constantsAt == e.at + 1
  <2>1. Round(code, W, idle, cycle, constantsAt, St, R)
    BY <1>17
  <2> HIDE DEF cycle, constantsAt, code
  <2>2. Scheduling(code, issued \o R.issued, E \cup R.events, R.queue, R.busy)
    BY ONLY <1>14, <1>15, <1>16, <2>1, RoundKeeps
  <2>3. Retired(issued \o R.issued, E \cup R.events) = Retired(issued, E)
    BY ONLY <1>14, <1>15, <1>16, <2>1, RoundKeeps
  <2> QED
    BY <2>2, <2>3
<1>19. (RetiredOps)' = Ret2
  BY <1>1, <1>18 DEF RetiredOps, Retired, Ret2, OpsOf
<1>20. pending' = [u \in Ops(code) |-> Cardinality(Preds(code, u) \ Ret2)]
  BY <1>1, <1>8
<1> QED
  BY <1>1, <1>18, <1>19, <1>20 DEF SchedInv

(* It is about the variables of the scheduler.                             *)
LEMMA SchedStutter ==
  ASSUME SchedInv, UNCHANGED svars
  PROVE  SchedInv'
<1>1. /\ program' = program /\ pending' = pending /\ queue' = queue /\ busy' = busy
      /\ events' = events /\ issued' = issued
  BY DEF svars
<1>2. (RetiredOps)' = RetiredOps
  BY <1>1 DEF RetiredOps, Retired
<1> QED
  BY <1>1, <1>2 DEF SchedInv

(* No lane is idle while an operation waits for it, so when the events run *)
(* out the least operation not issued would be ready: there is none.       *)
LEMMA SchedulerComplete ==
  ASSUME SchedInv
  PROVE  ScheduleComplete
<1> DEFINE code == program
<1>1. /\ Scheduling(code, issued, events, queue, busy) /\ WellFormed(code) /\ Started(code, issued, events)
      /\ Ready(code, issued, events, QueueSets(queue)) /\ LanesIdle(code, events, Units \ busy)
  BY DEF SchedInv, Scheduling, Started
<1>2. NoLaneStarves
  BY <1>1 DEF Scheduling, NoLaneStarves
<1>3. \A e \in events : e.op \in Range(issued) /\ e.op \in Ops(code) /\ e.op \in OpsOf(events)
  BY <1>1 DEF Started, OpsOf
<1>4. LanesExclusive
  <2>1. ASSUME NEW l \in Lanes \ {"ctl"}
        PROVE  Cardinality({e \in events : Lane(code[e.op]) = l}) = IF l \in busy THEN 1 ELSE 0
    <3> DEFINE running == {e \in events : Lane(code[e.op]) = l}
    <3>0. l \in Units /\ l # "ctl"
      BY DEF Lanes
    <3>1. l \in busy <=> \E e \in events : Lane(code[e.op]) = l
      BY <1>1, <3>0 DEF LanesIdle
    <3>2. CASE l \in busy
      <4>1. PICK e \in events : Lane(code[e.op]) = l
        BY <3>1, <3>2
      <4>2. running = {e}
        BY <1>1, <3>0, <4>1 DEF Started
      <4>3. Cardinality({e}) = 1
        BY FS_Singleton
      <4> HIDE DEF running
      <4>4. Cardinality(running) = 1
        BY <4>2, <4>3
      <4> QED
        BY <3>2, <4>4 DEF running
    <3>3. CASE l \notin busy
      <4>1. running = {}
        BY <3>1, <3>3
      <4> HIDE DEF running
      <4>2. Cardinality(running) = 0
        BY <4>1, FS_EmptySet
      <4> QED
        BY <3>3, <4>2 DEF running
    <3> QED
      BY <3>2, <3>3
  <2>2. ASSUME NEW e \in events, NEW f \in events PROVE f.op \notin Preds(code, e.op)
    <3>1. Preds(code, e.op) \subseteq Range(issued) \ OpsOf(events)
      BY <1>1, <1>3 DEF Ready
    <3> QED
      BY <1>3, <3>1
  <2> QED
    BY <2>1, <2>2 DEF LanesExclusive
<1>5. ASSUME events = {} PROVE IsSchedule(program, issued)
  <2>1. \A l \in Lanes : Range(queue[l]) = {}
    <3>1. \A l \in Units : l \notin busy
      BY <1>1, <1>5 DEF LanesIdle
    <3>2. \A l \in Lanes : queue[l] = << >>
      BY <1>1, <3>1 DEF Scheduling, Lanes
    <3> QED
      BY <3>2 DEF Range
  <2>2. OpsOf(events) = {}
    BY <1>5 DEF OpsOf
  <2>3. \A o \in Ops(code) : Preds(code, o) \subseteq Range(issued) => o \in Range(issued)
    <3> TAKE o \in Ops(code)
    <3> HAVE Preds(code, o) \subseteq Range(issued)
    <3>1. o \in Range(issued) \/ \E l \in Lanes : o \in QueueSets(queue)[l]
      BY <1>1, <2>2 DEF Ready
    <3> QED
      BY <2>1, <3>1 DEF QueueSets
  <2>4. /\ Ops(code) = 1 .. Len(code) /\ Len(code) \in Nat /\ \A o \in Ops(code) : o \in Nat
        /\ \A o \in Ops(code) : Preds(code, o) \subseteq Ops(code) /\ \A p \in Preds(code, o) : p < o
    BY <1>1, Graph
  <2> DEFINE Left == {o \in Ops(code) : o \notin Range(issued)}
  <2>5. Left = {}
    <3> SUFFICES ASSUME Left # {} PROVE FALSE
      OBVIOUS
    <3>1. PICK m \in Left : \A o \in Left : m <= o
      <4>1. Left \in SUBSET Nat
        BY <2>4
      <4> HIDE DEF Left
      <4> QED
        BY <4>1, NatMin
    <3>2. ASSUME NEW p \in Preds(code, m) PROVE p \in Range(issued)
      <4>1. p \in Ops(code) /\ p < m /\ p \in Nat /\ m \in Nat
        BY <2>4
      <4> QED
        BY <3>1, <4>1
    <3> QED
      BY <2>3, <3>2
  <2>6. Range(issued) = Ops(code) /\ Lists(issued, Range(issued))
    BY <1>1, <2>5 DEF Started
  <2>7. Len(issued) = Cardinality(Ops(code)) /\ DOMAIN issued = 1 .. Len(issued)
    BY <2>6, ListLength, ListFacts
  <2>8. Cardinality(Ops(code)) = Len(code)
    BY <2>4, FS_Interval
  <2>9. {issued[n] : n \in DOMAIN issued} = Ops(code)
    BY <2>6 DEF Range
  <2>10. \A n \in DOMAIN issued : Preds(code, issued[n]) \subseteq {issued[m] : m \in 1 .. n - 1}
    BY <1>1 DEF Started, Ordered
  <2> QED
    BY <2>7, <2>8, <2>9, <2>10 DEF IsSchedule
<1> QED
  BY <1>2, <1>4, <1>5 DEF ScheduleComplete

(* For every well-formed program and all latencies: the scheduler issues   *)
(* every operation, after those it depends on, and never idles a lane that *)
(* is waited for (scheduler.rs).                                           *)
THEOREM SchedulerIssuesAll == ScheduleSpec => []ScheduleComplete
<1>1. SchedulerInit => SchedInv
  BY SchedInitKept
<1>2. SchedInv /\ [Schedule]_svars => SchedInv'
  <2> SUFFICES ASSUME SchedInv, [Schedule]_svars PROVE SchedInv'
    OBVIOUS
  <2>1. CASE \E code : WellFormed(code) /\ StartSchedule(code)
    BY <2>1, StartScheduleKeeps
  <2>2. CASE ScheduleNext
    BY <2>2, RetireOpKeeps DEF ScheduleNext
  <2>3. CASE UNCHANGED svars
    BY <2>3, SchedStutter
  <2> QED
    BY <2>1, <2>2, <2>3 DEF Schedule
<1>3. SchedInv => ScheduleComplete
  BY SchedulerComplete
<1> QED
  BY <1>1, <1>2, <1>3, PTL DEF ScheduleSpec

-----------------------------------------------------------------------------
(* Rescheduling: the program in the order of the schedule.                 *)

(* Where an operation of the order is, and its arguments, renamed.         *)
PlaceIn(order, o) == CHOOSE n \in DOMAIN order : order[n] = o
MovedArgs(code, order, n) ==
  [i \in DOMAIN code[order[n]].args |-> <<PlaceIn(order, code[order[n]].args[i][1]), code[order[n]].args[i][2]>>]

(* A schedule: every operation once, after those it reads.                 *)
Scheduled(code, order) == WellFormed(code) /\ Lists(order, Ops(code)) /\ Ordered(code, order)

(* An operation is at its place.                                           *)
LEMMA PlaceIs ==
  ASSUME NEW S, NEW order, Lists(order, S), NEW o \in S
  PROVE  PlaceIn(order, o) \in DOMAIN order /\ order[PlaceIn(order, o)] = o
<1>1. \E n \in DOMAIN order : order[n] = o
  BY DEF Lists
<1> QED
  BY <1>1 DEF PlaceIn

(* What the operations of the rescheduled program are.                     *)
LEMMA Rescheduled ==
  ASSUME NEW code, NEW order, Scheduled(code, order)
  PROVE  /\ DOMAIN Reschedule(code, order) = Ops(code) /\ DOMAIN order = Ops(code)
         /\ Len(order) = Len(code)
         /\ \A n \in Ops(code) :
              /\ order[n] \in Ops(code)
              /\ DOMAIN Reschedule(code, order)[n] = DOMAIN code[order[n]]
              /\ Reschedule(code, order)[n].kind = code[order[n]].kind
              /\ Reschedule(code, order)[n].nret = code[order[n]].nret
              /\ Reschedule(code, order)[n].src = code[order[n]].src
              /\ Reschedule(code, order)[n].body = code[order[n]].body
              /\ Reschedule(code, order)[n].args = MovedArgs(code, order, n)
<1> DEFINE new == Reschedule(code, order)
<1>1. /\ Ops(code) = 1 .. Len(code) /\ Len(code) \in Nat /\ Lists(order, Ops(code)) /\ WellFormed(code)
  BY Graph DEF Scheduled
<1>2. DOMAIN order = 1 .. Len(order) /\ Len(order) \in Nat /\ \A n \in DOMAIN order : order[n] \in Ops(code)
  BY <1>1, ListFacts
<1>3. Len(order) = Cardinality(Ops(code)) /\ Cardinality(Ops(code)) = Len(code)
  <2>1. Cardinality(1 .. Len(code)) = Len(code)
    <3> DEFINE N == Len(code)
    <3>1. N \in Nat
      BY <1>1
    <3> HIDE DEF N
    <3>2. Cardinality(1 .. N) = N
      BY <3>1, FS_Interval
    <3> QED
      BY <3>2 DEF N
  <2>2. Len(order) = Cardinality(Ops(code))
    BY <1>1, ListLength
  <2> QED
    BY <1>1, <2>1, <2>2
<1>4. DOMAIN order = Ops(code)
  BY <1>1, <1>2, <1>3
<1>5. new = [n \in DOMAIN order |->
         [code[order[n]] EXCEPT !.args = [i \in DOMAIN @ |-> <<PlaceIn(order, @[i][1]), @[i][2]>>]]]
  BY DEF Reschedule, PlaceIn
<1>6. DOMAIN new = Ops(code)
  BY <1>4, <1>5
<1>7. ASSUME NEW n \in Ops(code)
      PROVE  /\ order[n] \in Ops(code) /\ DOMAIN new[n] = DOMAIN code[order[n]]
             /\ new[n].kind = code[order[n]].kind /\ new[n].nret = code[order[n]].nret
             /\ new[n].src = code[order[n]].src /\ new[n].body = code[order[n]].body
             /\ new[n].args = MovedArgs(code, order, n)
  <2>1. order[n] \in Ops(code)
    BY <1>2, <1>4
  <2>2. DOMAIN code[order[n]] = {"kind", "args", "nret", "src", "body"}
    BY <1>1, <2>1 DEF WellFormed
  <2>3. new[n] = [code[order[n]] EXCEPT !.args =
                    [i \in DOMAIN code[order[n]].args |->
                       <<PlaceIn(order, code[order[n]].args[i][1]), code[order[n]].args[i][2]>>]]
    BY <1>4, <1>5
  <2>4. new[n] = [code[order[n]] EXCEPT !.args = MovedArgs(code, order, n)]
    BY <2>3 DEF MovedArgs
  <2> HIDE DEF new
  <2> QED
    BY <2>1, <2>2, <2>4
<1> QED
  BY <1>3, <1>4, <1>6, <1>7

(* Rescheduling leaves a well-formed program.                              *)
LEMMA RescheduleWellFormed ==
  ASSUME NEW code, NEW order, Scheduled(code, order)
  PROVE  WellFormed(Reschedule(code, order))
<1> DEFINE new == Reschedule(code, order)
<1>1. /\ Ops(code) = 1 .. Len(code) /\ Len(code) \in Nat /\ Lists(order, Ops(code)) /\ WellFormed(code)
      /\ Ordered(code, order)
  BY Graph DEF Scheduled
<1>2. /\ DOMAIN new = Ops(code) /\ DOMAIN order = Ops(code) /\ Len(order) = Len(code)
      /\ \A n \in Ops(code) :
              /\ order[n] \in Ops(code) /\ DOMAIN new[n] = DOMAIN code[order[n]]
              /\ new[n].kind = code[order[n]].kind /\ new[n].nret = code[order[n]].nret
              /\ new[n].src = code[order[n]].src /\ new[n].body = code[order[n]].body
              /\ new[n].args = MovedArgs(code, order, n)
  BY Rescheduled
<1>a. new = [n \in Ops(code) |-> new[n]]
  <2>1. \E f : new = [n \in DOMAIN order |-> f[n]]
    <3>1. new = [n \in DOMAIN order |->
         [code[order[n]] EXCEPT !.args = [i \in DOMAIN @ |-> <<PlaceIn(order, @[i][1]), @[i][2]>>]]]
      BY DEF Reschedule, PlaceIn
    <3> DEFINE f == [n \in DOMAIN order |->
         [code[order[n]] EXCEPT !.args = [i \in DOMAIN @ |-> <<PlaceIn(order, @[i][1]), @[i][2]>>]]]
    <3>2. new = [n \in DOMAIN order |-> f[n]]
      BY <3>1
    <3> QED
      BY <3>2
  <2> HIDE DEF new
  <2> QED
    BY <1>2, <2>1
<1> HIDE DEF new
<1>3. new \in Seq(Range(new))
  <2>1. \A n \in Ops(code) : new[n] \in Range(new)
    BY <1>2 DEF Range
  <2>2. new \in [1 .. Len(code) -> Range(new)]
    BY <1>1, <1>a, <2>1
  <2> QED
    BY <1>1, <2>2
<1>4. Ops(new) = Ops(code)
  BY <1>2 DEF Ops
<1>5. ASSUME NEW n \in Ops(code)
      PROVE  new[n].args \in Seq(UNION {Range(Results(new, q)) : q \in 1 .. n - 1}) /\ Len(new[n].args) = Len(code[order[n]].args)
             /\ DOMAIN new[n].args = DOMAIN code[order[n]].args
  <2> DEFINE o == order[n]
             old == code[o].args
             V == UNION {Range(Results(new, q)) : q \in 1 .. n - 1}
             U == UNION {Range(Results(code, q)) : q \in 1 .. o - 1}
  <2>1. o \in Ops(code)
    BY <1>2
  <2>2. old \in Seq(U)
    BY <1>1, <2>1 DEF WellFormed
  <2>3. Len(old) \in Nat /\ DOMAIN old = 1 .. Len(old)
    BY <2>2
  <2>4. ASSUME NEW i \in DOMAIN old
        PROVE  <<PlaceIn(order, old[i][1]), old[i][2]>> \in V
    <3>1. PICK q \in 1 .. o - 1 : old[i] \in Range(Results(code, q))
      <4>1. old[i] \in U
        <5> HIDE DEF U, old
        <5> QED
          BY <2>2, Element
      <4> QED
        BY <4>1
    <3>2. PICK k \in 1 .. code[q].nret : old[i] = <<q, k>>
      <4>1. Range(Results(code, q)) = {<<q, j>> : j \in 1 .. code[q].nret}
        BY DEF Results, Range
      <4> QED
        BY <3>1, <4>1
    <3>3. q \in Preds(code, o)
      BY <3>2 DEF Preds
    <3>4. PICK m \in 1 .. n - 1 : order[m] = q
      BY <1>1, <1>2, <3>3 DEF Ordered
    <3>5. n \in 1 .. Len(code) /\ m \in Ops(code)
      BY <1>1, <3>4
    <3>6. PlaceIn(order, q) = m
      <4>1. q \in Ops(code)
        BY <1>2, <3>4, <3>5
      <4>2. PlaceIn(order, q) \in DOMAIN order /\ order[PlaceIn(order, q)] = q
        BY <1>1, <4>1, PlaceIs
      <4> QED
        BY <1>1, <1>2, <3>4, <3>5, <4>2 DEF Lists
    <3>7. new[m].nret = code[q].nret
      BY <1>2, <3>4, <3>5
    <3>8. <<m, k>> \in Range(Results(new, m))
      <4>1. Range(Results(new, m)) = {<<m, j>> : j \in 1 .. new[m].nret}
        BY DEF Results, Range
      <4> QED
        BY <3>7, <4>1
    <3> QED
      BY <3>2, <3>4, <3>6, <3>8
  <2>5. new[n].args = [i \in DOMAIN old |-> <<PlaceIn(order, old[i][1]), old[i][2]>>]
    BY <1>2 DEF MovedArgs
  <2> HIDE DEF old, V
  <2>6. new[n].args \in [1 .. Len(old) -> V]
    BY <2>3, <2>4, <2>5
  <2>7. new[n].args \in Seq(V) /\ Len(new[n].args) = Len(old)
    BY <2>3, <2>6
  <2> QED
    BY <2>5, <2>7 DEF old, V
<1>6. ASSUME NEW n \in Ops(code)
      PROVE  /\ DOMAIN new[n] = {"kind", "args", "nret", "src", "body"}
             /\ IF new[n].kind = "batch"
                THEN /\ new[n].nret \in Nat /\ new[n].body \in Seq(Range(new[n].body))
                     /\ \A j \in DOMAIN new[n].body : IsMember(new[n], new[n].body[j])
                     /\ WrittenOnce(new[n])
                ELSE /\ new[n].kind \in {"ld", "st", "lin", "imm", "cst"} /\ new[n].body = << >>
                     /\ Len(new[n].args) = Arity(new[n].kind)
                     /\ new[n].nret = IF new[n].kind = "st" THEN 0 ELSE 1
                     /\ new[n].src \in Nat /\ new[n].src < 2 ^ 16
  <2> DEFINE o == order[n]
  <2>1. o \in Ops(code) /\ DOMAIN new[n] = DOMAIN code[o] /\ new[n].kind = code[o].kind
        /\ new[n].nret = code[o].nret /\ new[n].src = code[o].src /\ new[n].body = code[o].body
    BY <1>2
  <2>2. Len(new[n].args) = Len(code[o].args) /\ DOMAIN new[n].args = DOMAIN code[o].args
    BY <1>5
  <2> HIDE DEF o
  <2>3. /\ DOMAIN code[o] = {"kind", "args", "nret", "src", "body"}
        /\ IF code[o].kind = "batch"
           THEN /\ code[o].nret \in Nat /\ code[o].body \in Seq(Range(code[o].body))
                /\ \A j \in DOMAIN code[o].body : IsMember(code[o], code[o].body[j])
                /\ WrittenOnce(code[o])
           ELSE /\ code[o].kind \in {"ld", "st", "lin", "imm", "cst"} /\ code[o].body = << >>
                /\ Len(code[o].args) = Arity(code[o].kind)
                /\ code[o].nret = IF code[o].kind = "st" THEN 0 ELSE 1
                /\ code[o].src \in Nat /\ code[o].src < 2 ^ 16
    BY <1>1, <2>1 DEF WellFormed
  <2>4. \A member : IsMember(code[o], member) => IsMember(new[n], member)
    BY <2>1, <2>2 DEF IsMember
  <2>5. WrittenOnce(code[o]) => WrittenOnce(new[n])
    BY <2>1 DEF WrittenOnce
  <2> QED
    BY <2>1, <2>2, <2>3, <2>4, <2>5
<1>7. \A n, m \in Ops(code) :
       new[n].kind = new[m].kind /\ new[n].kind \in {"ld", "st"} /\ new[n].src = new[m].src => n = m
  <2> TAKE n, m \in Ops(code)
  <2> HAVE new[n].kind = new[m].kind /\ new[n].kind \in {"ld", "st"} /\ new[n].src = new[m].src
  <2> DEFINE o == order[n]
             p == order[m]
  <2>1. o \in Ops(code) /\ p \in Ops(code) /\ code[o].kind = code[p].kind /\ code[o].kind \in {"ld", "st"} /\ code[o].src = code[p].src
    BY <1>2
  <2> HIDE DEF o, p
  <2>2. o = p
    BY <1>1, <2>1 DEF WellFormed
  <2> QED
    BY <1>1, <1>2, <2>2 DEF Lists, o, p
<1>8. WellFormed(new)
  BY <1>3, <1>4, <1>5, <1>6, <1>7 DEF WellFormed
<1> QED
  BY <1>8 DEF new

(* The pieces of a program: its operations outside batches, <<o, 0>>, and  *)
(* the members of its batches, <<o, j>>.                                   *)
Pieces(code) ==
  {<<o, 0>> : o \in {x \in Ops(code) : code[x].kind # "batch"}}
    \cup UNION {{<<o, j>> : j \in DOMAIN code[o].body} : o \in Ops(code)}

-----------------------------------------------------------------------------
(* What a program computes.                                                *)

(* The operation of the source that a piece computes, and what it reads.   *)
PieceSrc(code, p) == IF p[2] = 0 THEN code[p[1]].src ELSE code[p[1]].body[p[2]].src
PieceArgs(code, p) ==
  IF p[2] = 0 THEN [i \in DOMAIN code[p[1]].args |-> Denotes(code, code[p[1]].args[i])]
  ELSE [i \in DOMAIN code[p[1]].body[p[2]].args |->
          Denotes(code, code[p[1]].args[code[p[1]].body[p[2]].args[i]])]

(* Every piece computes an operation of the source, each another one.      *)
Computes(code, src) ==
  /\ \A p \in Pieces(code) : PieceSrc(code, p) \in Ops(src) /\ PieceArgs(code, p) = src[PieceSrc(code, p)].args
  /\ \A p, q \in Pieces(code) : PieceSrc(code, p) = PieceSrc(code, q) => p = q

(* Every operation of the source is computed, once, on what it reads in    *)
(* the source.                                                             *)
Faithful(code, src) ==
  Computes(code, src) /\ \A x \in Ops(src) : \E p \in Pieces(code) : PieceSrc(code, p) = x

(* A piece is an operation or a member of a batch.                         *)
LEMMA PieceIs ==
  ASSUME NEW code, WellFormed(code), NEW p \in Pieces(code)
  PROVE  /\ p[1] \in Ops(code) /\ p = <<p[1], p[2]>> /\ p[2] \in Nat
         /\ p[2] = 0 => code[p[1]].kind # "batch"
         /\ p[2] # 0 => code[p[1]].kind = "batch" /\ p[2] \in DOMAIN code[p[1]].body
<1>1. \A o \in Ops(code) : code[o].body \in Seq(Range(code[o].body)) /\ (code[o].kind # "batch" => code[o].body = << >>)
  <2> TAKE o \in Ops(code)
  <2>1. code[o].kind # "batch" => code[o].body = << >>
    BY DEF WellFormed
  <2>2. code[o].kind = "batch" => code[o].body \in Seq(Range(code[o].body))
    BY DEF WellFormed
  <2>3. CASE code[o].kind = "batch"
    BY <2>2, <2>3
  <2>4. CASE code[o].kind # "batch"
    <3>1. code[o].body = << >>
      BY <2>1, <2>4
    <3>2. << >> \in Seq(Range(<< >>))
      OBVIOUS
    <3> QED
      BY <3>1, <3>2
  <2> QED
    BY <2>3, <2>4
<1>2. CASE \E o \in Ops(code) : code[o].kind # "batch" /\ p = <<o, 0>>
  BY <1>2
<1>3. CASE \E o \in Ops(code) : \E j \in DOMAIN code[o].body : p = <<o, j>>
  <2>0. PICK o \in Ops(code) : \E j \in DOMAIN code[o].body : p = <<o, j>>
    BY <1>3
  <2>1. PICK j \in DOMAIN code[o].body : p = <<o, j>>
    BY <2>0
  <2>2. j \in Nat /\ j # 0
    BY <1>1
  <2>3. code[o].kind = "batch"
    BY <1>1
  <2> QED
    BY <2>1, <2>2, <2>3
<1> QED
  BY <1>2, <1>3 DEF Pieces

(* Every operation that is no batch is a piece, and every member of a      *)
(* batch is.                                                               *)
LEMMA PieceOf ==
  ASSUME NEW code, NEW o \in Ops(code)
  PROVE  /\ code[o].kind # "batch" => <<o, 0>> \in Pieces(code)
         /\ \A j \in DOMAIN code[o].body : <<o, j>> \in Pieces(code)
BY DEF Pieces

(* A faithful program implements the source.                               *)
LEMMA FaithfulImplements ==
  ASSUME NEW code, WellFormed(code), NEW src, src \in Seq(Range(src)), Faithful(code, src)
  PROVE  Implements(code, src)
<1> DEFINE members == UNION {{<<o, j>> : j \in DOMAIN code[o].body} : o \in Ops(code)}
           single == {o \in Ops(code) : code[o].kind # "batch"}
           Member(m) == code[m[1]].body[m[2]]
<1>1. Len(src) \in Nat /\ Ops(src) = 1 .. Len(src)
  BY DEF Ops
<1>a. /\ \A p \in Pieces(code) : PieceSrc(code, p) \in Ops(src)
      /\ \A p, q \in Pieces(code) : PieceSrc(code, p) = PieceSrc(code, q) => p = q
  BY DEF Faithful, Computes
<1>2. \A o \in single : <<o, 0>> \in Pieces(code) /\ PieceSrc(code, <<o, 0>>) = code[o].src
         /\ PieceArgs(code, <<o, 0>>) = [i \in DOMAIN code[o].args |-> Denotes(code, code[o].args[i])]
  BY DEF Pieces, PieceSrc, PieceArgs
<1>3. ASSUME NEW m \in members
      PROVE  /\ m \in Pieces(code) /\ m[2] # 0 /\ PieceSrc(code, m) = Member(m).src
             /\ PieceArgs(code, m) = [i \in DOMAIN Member(m).args |-> Denotes(code, code[m[1]].args[Member(m).args[i]])]
  <2>0. PICK o \in Ops(code) : \E j \in DOMAIN code[o].body : m = <<o, j>>
    OBVIOUS
  <2>1. PICK j \in DOMAIN code[o].body : m = <<o, j>>
    BY <2>0
  <2>2. m \in Pieces(code)
    BY DEF Pieces
  <2>3. j # 0
    <3>1. code[o].body = << >> \/ code[o].body \in Seq(Range(code[o].body))
      BY DEF WellFormed
    <3> QED
      BY <3>1
  <2> HIDE DEF members
  <2> QED
    BY <2>1, <2>2, <2>3 DEF PieceSrc, PieceArgs
<1>4. \A o \in single : [i \in DOMAIN code[o].args |-> Denotes(code, code[o].args[i])] = src[code[o].src].args
  <2> TAKE o \in single
  <2>1. <<o, 0>> \in Pieces(code) /\ PieceSrc(code, <<o, 0>>) = code[o].src
         /\ PieceArgs(code, <<o, 0>>) = [i \in DOMAIN code[o].args |-> Denotes(code, code[o].args[i])]
    BY <1>2
  <2>2. PieceArgs(code, <<o, 0>>) = src[PieceSrc(code, <<o, 0>>)].args
    BY <2>1 DEF Faithful, Computes
  <2> HIDE DEF single
  <2> QED
    BY <2>1, <2>2
<1>5. \A m \in members :
        [i \in DOMAIN Member(m).args |-> Denotes(code, code[m[1]].args[Member(m).args[i]])] = src[Member(m).src].args
  <2> TAKE m \in members
  <2>1. /\ m \in Pieces(code) /\ PieceSrc(code, m) = Member(m).src
        /\ PieceArgs(code, m) = [i \in DOMAIN Member(m).args |-> Denotes(code, code[m[1]].args[Member(m).args[i]])]
    BY <1>3
  <2>2. PieceArgs(code, m) = src[PieceSrc(code, m)].args
    BY <2>1 DEF Faithful, Computes
  <2> HIDE DEF members, Member
  <2> QED
    BY <2>1, <2>2
<1> DEFINE A == {code[o].src : o \in single}
           B == {Member(m).src : m \in members}
<1>6. A \cup B = Ops(src)
  <2>1. A \subseteq Ops(src)
    <3>1. \A o \in single : code[o].src \in Ops(src)
      <4> HIDE DEF single
      <4> QED
        BY <1>2, <1>a
    <3> HIDE DEF single
    <3> QED
      BY <3>1
  <2>2. B \subseteq Ops(src)
    <3>1. \A m \in members : Member(m).src \in Ops(src)
      <4> HIDE DEF members, Member
      <4> QED
        BY <1>3, <1>a
    <3> HIDE DEF members, Member
    <3> QED
      BY <3>1
  <2>3. ASSUME NEW x \in Ops(src) PROVE x \in A \cup B
    <3>1. PICK p \in Pieces(code) : PieceSrc(code, p) = x
      BY DEF Faithful
    <3>2. CASE p[2] = 0
      <4>1. p[1] \in single /\ code[p[1]].src = x
        BY <3>1, <3>2, PieceIs DEF PieceSrc
      <4> QED
        BY <4>1
    <3>3. CASE p[2] # 0
      <4>1. p[1] \in Ops(code) /\ p = <<p[1], p[2]>> /\ p[2] \in DOMAIN code[p[1]].body
        BY <3>3, PieceIs
      <4>2. p \in members
        BY <4>1
      <4>3. Member(p).src = x
        BY <3>1, <3>3 DEF PieceSrc
      <4> HIDE DEF members, Member
      <4> QED
        BY <4>2, <4>3
    <3> QED
      BY <3>2, <3>3
  <2> HIDE DEF A, B
  <2> QED
    BY <2>1, <2>2, <2>3
<1>7. IsFiniteSet(Ops(src)) /\ Cardinality(Ops(src)) = Len(src)
  <2> DEFINE N == Len(src)
  <2>1. N \in Nat /\ Ops(src) = 1 .. N
    BY <1>1
  <2> HIDE DEF N
  <2>2. IsFiniteSet(Ops(src)) /\ Cardinality(Ops(src)) = N
    BY <2>1, FS_Interval
  <2> QED
    BY <2>2 DEF N
<1>8. IsFiniteSet(A) /\ IsFiniteSet(B)
  <2> HIDE DEF A, B
  <2>1. A \subseteq Ops(src) /\ B \subseteq Ops(src)
    BY <1>6
  <2> QED
    BY <1>7, <2>1, FS_Subset
<1>9. Cardinality(single) = Cardinality(A)
  <2> DEFINE f == [o \in single |-> code[o].src]
  <2>1. \A o, x \in single : code[o].src = code[x].src => o = x
    <3> TAKE o, x \in single
    <3> HAVE code[o].src = code[x].src
    <3>1. <<o, 0>> = <<x, 0>>
      <4>1. <<o, 0>> \in Pieces(code) /\ <<x, 0>> \in Pieces(code)
        BY <1>2
      <4>2. PieceSrc(code, <<o, 0>>) = PieceSrc(code, <<x, 0>>)
        BY <1>2
      <4> QED
        BY <1>a, <4>1, <4>2
    <3> QED
      BY <3>1
  <2>2. f \in Injection(single, A)
    <3>1. f \in [single -> A]
      OBVIOUS
    <3>2. IsInjective(f)
      BY <2>1 DEF IsInjective
    <3> QED
      BY <3>1, <3>2 DEF Injection
  <2>3. f \in Surjection(single, A)
    <3>1. f \in [single -> A] /\ \A x \in A : \E o \in single : f[o] = x
      OBVIOUS
    <3> QED
      BY <3>1 DEF Surjection
  <2> HIDE DEF f, A, single
  <2> QED
    BY <1>8, <2>2, <2>3, FS_Injection
<1>10. Cardinality(members) = Cardinality(B)
  <2> DEFINE f == [m \in members |-> Member(m).src]
  <2>1. \A o, x \in members : Member(o).src = Member(x).src => o = x
    <3> HIDE DEF members, Member
    <3> QED
      BY <1>3, <1>a
  <2> HIDE DEF members, Member
  <2>2. f \in Injection(members, B)
    <3>1. f \in [members -> B]
      OBVIOUS
    <3>2. IsInjective(f)
      BY <2>1 DEF IsInjective
    <3> QED
      BY <3>1, <3>2 DEF Injection
  <2>3. f \in Surjection(members, B)
    <3>1. f \in [members -> B] /\ \A x \in B : \E o \in members : f[o] = x
      OBVIOUS
    <3> QED
      BY <3>1 DEF Surjection
  <2> HIDE DEF f, B
  <2> QED
    BY <1>8, <2>2, <2>3, FS_Injection
<1>11. A \cap B = {}
  <2> SUFFICES ASSUME NEW o \in single, NEW m \in members, code[o].src = Member(m).src PROVE FALSE
    OBVIOUS
  <2>1. <<o, 0>> = m
    <3>1. PieceSrc(code, <<o, 0>>) = code[o].src /\ <<o, 0>> \in Pieces(code)
      BY <1>2
    <3>2. PieceSrc(code, m) = Member(m).src /\ m \in Pieces(code)
      BY <1>3
    <3> HIDE DEF members, Member, single
    <3> QED
      BY <1>a, <3>1, <3>2
  <2>2. m[2] # 0
    BY <1>3
  <2> QED
    BY <2>1, <2>2
<1>12. Cardinality(single) + Cardinality(members) = Len(src)
  <2> HIDE DEF A, B, single, members
  <2>1. Cardinality(A \cup B) = Cardinality(A) + Cardinality(B) - Cardinality(A \cap B)
    BY <1>8, FS_Union
  <2>2. Cardinality(A \cap B) = 0
    BY <1>11, FS_EmptySet
  <2>3. Cardinality(A) \in Nat /\ Cardinality(B) \in Nat
    BY <1>8, FS_CardinalityType
  <2>4. Cardinality(A \cup B) = Len(src)
    BY <1>6, <1>7
  <2>5. Cardinality(A) + Cardinality(B) = Len(src)
    BY <2>1, <2>2, <2>3, <2>4
  <2> QED
    BY <1>9, <1>10, <2>5
<1> QED
  BY <1>4, <1>5, <1>6, <1>12 DEF Implements

(* What a result of an operation stands for is a matter of the operation.  *)
Origin(kind, src, body, k) == IF kind # "batch" THEN <<src, k>> ELSE WrittenBy(body, k)

(* What a value stands for, from its operation.                            *)
LEMMA DenotesIs ==
  ASSUME NEW code, NEW o, NEW k
  PROVE  Denotes(code, <<o, k>>) = Origin(code[o].kind, code[o].src, code[o].body, k)
BY DEF Denotes, Origin

(* An argument of a well-formed program.                                   *)
LEMMA ArgOf ==
  ASSUME NEW code, WellFormed(code), NEW o \in Ops(code), NEW i \in DOMAIN code[o].args
  PROVE  /\ code[o].args[i] = <<code[o].args[i][1], code[o].args[i][2]>>
         /\ code[o].args[i][1] \in Preds(code, o) /\ code[o].args[i][1] \in Ops(code)
         /\ code[o].args[i][1] \in 1 .. o - 1
         /\ code[o].args[i][2] \in 1 .. code[code[o].args[i][1]].nret
<1> DEFINE v == code[o].args[i]
           V == UNION {Range(Results(code, q)) : q \in 1 .. o - 1}
<1>1. code[o].args \in Seq(V)
  BY DEF WellFormed
<1>2. v \in V
  <2> HIDE DEF V
  <2> QED
    BY <1>1, Element
<1>3. PICK q \in 1 .. o - 1 : v \in Range(Results(code, q))
  BY <1>2
<1>4. Range(Results(code, q)) = {<<q, j>> : j \in 1 .. code[q].nret}
  BY DEF Results, Range
<1>5. PICK k \in 1 .. code[q].nret : v = <<q, k>>
  BY <1>3, <1>4
<1>6. v[1] \in Preds(code, o)
  BY DEF Preds
<1>7. v[1] \in Ops(code)
  BY <1>6, Graph
<1> QED
  BY <1>3, <1>5, <1>6, <1>7

(* A value stands for the same once its operation has moved.               *)
LEMMA RescheduleDenotes ==
  ASSUME NEW code, NEW order, Scheduled(code, order), NEW p \in Ops(code), NEW k
  PROVE  Denotes(Reschedule(code, order), <<PlaceIn(order, p), k>>) = Denotes(code, <<p, k>>)
<1> DEFINE new == Reschedule(code, order)
           m == PlaceIn(order, p)
<1>1. m \in Ops(code) /\ order[m] = p
  BY PlaceIs, Rescheduled DEF Scheduled
<1>2. new[m].kind = code[p].kind /\ new[m].src = code[p].src /\ new[m].body = code[p].body
  BY <1>1, Rescheduled
<1>3. Denotes(new, <<m, k>>) = Origin(new[m].kind, new[m].src, new[m].body, k)
  BY DenotesIs
<1>4. Denotes(code, <<p, k>>) = Origin(code[p].kind, code[p].src, code[p].body, k)
  BY DenotesIs
<1> QED
  BY <1>2, <1>3, <1>4

(* Rescheduling keeps a program faithful.                                  *)
LEMMA RescheduleFaithful ==
  ASSUME NEW code, NEW order, Scheduled(code, order), NEW src, Faithful(code, src)
  PROVE  Faithful(Reschedule(code, order), src)
<1> DEFINE new == Reschedule(code, order)
<1>1. /\ Ops(code) = 1 .. Len(code) /\ Len(code) \in Nat /\ Lists(order, Ops(code)) /\ WellFormed(code)
  BY Graph DEF Scheduled
<1>2. /\ DOMAIN new = Ops(code) /\ DOMAIN order = Ops(code) /\ Ops(new) = Ops(code)
      /\ \A n \in Ops(code) :
              /\ order[n] \in Ops(code)
              /\ new[n].kind = code[order[n]].kind
              /\ new[n].src = code[order[n]].src /\ new[n].body = code[order[n]].body
              /\ new[n].args = MovedArgs(code, order, n)
  BY Rescheduled DEF Ops
<1>3. WellFormed(new)
  BY RescheduleWellFormed
<1>4. ASSUME NEW n \in Ops(code), NEW i \in DOMAIN code[order[n]].args
      PROVE  i \in DOMAIN new[n].args /\ Denotes(new, new[n].args[i]) = Denotes(code, code[order[n]].args[i])
  <2> DEFINE v == code[order[n]].args[i]
  <2>1. v = <<v[1], v[2]>> /\ v[1] \in Ops(code)
    BY <1>1, <1>2, ArgOf
  <2>2. i \in DOMAIN new[n].args /\ new[n].args[i] = <<PlaceIn(order, v[1]), v[2]>>
    BY <1>2 DEF MovedArgs
  <2> HIDE DEF v, new
  <2>3. Denotes(new, <<PlaceIn(order, v[1]), v[2]>>) = Denotes(code, <<v[1], v[2]>>)
    BY <2>1, RescheduleDenotes DEF new
  <2> QED
    BY <2>1, <2>2, <2>3 DEF v
<1>5. \A n \in Ops(code) : DOMAIN new[n].args = DOMAIN code[order[n]].args
  BY <1>2 DEF MovedArgs
<1> HIDE DEF new
<1>6. ASSUME NEW p \in Pieces(new)
      PROVE  /\ <<order[p[1]], p[2]>> \in Pieces(code) /\ p = <<p[1], p[2]>> /\ p[1] \in Ops(code)
             /\ PieceSrc(new, p) = PieceSrc(code, <<order[p[1]], p[2]>>)
             /\ PieceArgs(new, p) = PieceArgs(code, <<order[p[1]], p[2]>>)
  <2> DEFINE n == p[1]
             j == p[2]
             o == order[n]
  <2>1. /\ n \in Ops(code) /\ p = <<n, j>> /\ j \in Nat
        /\ j = 0 => new[n].kind # "batch"
        /\ j # 0 => new[n].kind = "batch" /\ j \in DOMAIN new[n].body
    BY <1>2, <1>3, PieceIs
  <2>2. o \in Ops(code) /\ new[n].kind = code[o].kind /\ new[n].src = code[o].src /\ new[n].body = code[o].body
    BY <1>2, <2>1
  <2>3. DOMAIN new[n].args = DOMAIN code[o].args
        /\ \A i \in DOMAIN code[o].args : Denotes(new, new[n].args[i]) = Denotes(code, code[o].args[i])
    BY <1>4, <1>5, <2>1
  <2> HIDE DEF n, j, o
  <2>4. <<o, j>> \in Pieces(code)
    BY <2>1, <2>2, PieceOf
  <2>a. p[1] = n /\ p[2] = j /\ <<o, j>>[1] = o /\ <<o, j>>[2] = j
    BY DEF n, j
  <2>5. PieceSrc(new, p) = PieceSrc(code, <<o, j>>)
    BY <2>2, <2>a DEF PieceSrc
  <2>6. PieceArgs(new, p) = PieceArgs(code, <<o, j>>)
    <3>1. CASE j = 0
      <4>1. PieceArgs(new, p) = [i \in DOMAIN new[n].args |-> Denotes(new, new[n].args[i])]
        BY <2>a, <3>1 DEF PieceArgs
      <4>2. PieceArgs(code, <<o, j>>) = [i \in DOMAIN code[o].args |-> Denotes(code, code[o].args[i])]
        BY <2>a, <3>1 DEF PieceArgs
      <4> QED
        BY <2>3, <4>1, <4>2
    <3>2. CASE j # 0
      <4> DEFINE A == code[o].body[j].args
      <4>0. new[n].body[j].args = A /\ j \in DOMAIN code[o].body
        BY <2>1, <2>2, <3>2
      <4>1. PieceArgs(new, p) = [i \in DOMAIN A |-> Denotes(new, new[n].args[A[i]])]
        BY <2>a, <2>2, <3>2 DEF PieceArgs
      <4>2. PieceArgs(code, <<o, j>>) = [i \in DOMAIN A |-> Denotes(code, code[o].args[A[i]])]
        BY <2>a, <3>2 DEF PieceArgs
      <4>3. \A i \in DOMAIN A : A[i] \in DOMAIN code[o].args
        <5>1. IsMember(code[o], code[o].body[j])
          BY <1>1, <2>1, <2>2, <3>2, <4>0 DEF WellFormed
        <5> QED
          BY <5>1 DEF IsMember
      <4> HIDE DEF A
      <4>4. \A i \in DOMAIN A : Denotes(new, new[n].args[A[i]]) = Denotes(code, code[o].args[A[i]])
        BY <2>3, <4>3
      <4> QED
        BY <4>1, <4>2, <4>4
    <3> QED
      BY <3>1, <3>2
  <2> QED
    BY <2>1, <2>2, <2>4, <2>5, <2>6 DEF n, j, o
<1>a. /\ \A p \in Pieces(code) : PieceSrc(code, p) \in Ops(src) /\ PieceArgs(code, p) = src[PieceSrc(code, p)].args
      /\ \A p, q \in Pieces(code) : PieceSrc(code, p) = PieceSrc(code, q) => p = q
      /\ \A x \in Ops(src) : \E p \in Pieces(code) : PieceSrc(code, p) = x
  BY DEF Faithful, Computes
<1>7. \A p \in Pieces(new) : PieceSrc(new, p) \in Ops(src) /\ PieceArgs(new, p) = src[PieceSrc(new, p)].args
  <2> TAKE p \in Pieces(new)
  <2>1. /\ <<order[p[1]], p[2]>> \in Pieces(code)
        /\ PieceSrc(new, p) = PieceSrc(code, <<order[p[1]], p[2]>>)
        /\ PieceArgs(new, p) = PieceArgs(code, <<order[p[1]], p[2]>>)
    BY <1>6
  <2> QED
    BY <1>a, <2>1
<1>8. \A p, q \in Pieces(new) : PieceSrc(new, p) = PieceSrc(new, q) => p = q
  <2> TAKE p, q \in Pieces(new)
  <2> HAVE PieceSrc(new, p) = PieceSrc(new, q)
  <2>1. /\ <<order[p[1]], p[2]>> \in Pieces(code) /\ p = <<p[1], p[2]>> /\ p[1] \in Ops(code)
        /\ PieceSrc(new, p) = PieceSrc(code, <<order[p[1]], p[2]>>)
    BY <1>6
  <2>2. /\ <<order[q[1]], q[2]>> \in Pieces(code) /\ q = <<q[1], q[2]>> /\ q[1] \in Ops(code)
        /\ PieceSrc(new, q) = PieceSrc(code, <<order[q[1]], q[2]>>)
    BY <1>6
  <2>3. <<order[p[1]], p[2]>> = <<order[q[1]], q[2]>>
    BY <1>a, <2>1, <2>2
  <2>4. order[p[1]] = order[q[1]] /\ p[2] = q[2]
    BY <2>3
  <2>5. p[1] = q[1]
    BY <1>1, <1>2, <2>1, <2>2, <2>4 DEF Lists
  <2> QED
    BY <2>1, <2>2, <2>4, <2>5
<1>9. ASSUME NEW x \in Ops(src) PROVE \E p \in Pieces(new) : PieceSrc(new, p) = x
  <2>1. PICK c \in Pieces(code) : PieceSrc(code, c) = x
    BY <1>a
  <2>2. /\ c[1] \in Ops(code) /\ c = <<c[1], c[2]>>
        /\ c[2] = 0 => code[c[1]].kind # "batch"
        /\ c[2] # 0 => code[c[1]].kind = "batch" /\ c[2] \in DOMAIN code[c[1]].body
    BY <1>1, PieceIs
  <2>3. PICK n \in Ops(code) : order[n] = c[1]
    BY <1>1, <1>2, <2>2 DEF Lists
  <2>4. <<n, c[2]>> \in Pieces(new)
    <3>1. CASE c[2] = 0
      <4>1. n \in Ops(new) /\ new[n].kind # "batch"
        BY <1>2, <2>2, <2>3, <3>1
      <4> QED
        BY <3>1, <4>1, PieceOf
    <3>2. CASE c[2] # 0
      <4>1. n \in Ops(new) /\ c[2] \in DOMAIN new[n].body
        BY <1>2, <2>2, <2>3, <3>2
      <4> QED
        BY <4>1, PieceOf
    <3> QED
      BY <3>1, <3>2
  <2> DEFINE p == <<n, c[2]>>
  <2>5. p[1] = n /\ p[2] = c[2] /\ p \in Pieces(new)
    BY <2>4
  <2> HIDE DEF p
  <2>6. PieceSrc(new, p) = PieceSrc(code, <<order[p[1]], p[2]>>)
    BY <1>6, <2>5
  <2>7. <<order[p[1]], p[2]>> = c
    BY <2>2, <2>3, <2>5
  <2> QED
    BY <2>1, <2>5, <2>6, <2>7
<1>10. Faithful(new, src)
  BY <1>7, <1>8, <1>9 DEF Faithful, Computes
<1> QED
  BY <1>10 DEF new
=============================================================================
