------------------------------ MODULE Counting ------------------------------
(***************************************************************************)
(* Counting bits: the number of zeros or ones of an integer, of its        *)
(* leading or trailing ones or zeros, and its integer logarithm.           *)
(***************************************************************************)
EXTENDS Builder

(* Mutant of NU: one message too many.                                     *)
NUPlusOne == 6

(* The largest number of messages (digits up to 3) and of booleans a block *)
(* can sum, as the crate fixes them.                                       *)
NU == 5
NU_BOOL == 8

RECURSIVE NBitsToEncode(_)
NBitsToEncode(v) == IF v = 0 THEN 0 ELSE 1 + NBitsToEncode(v \div 2)

OpNbSingle == 7

(* The message and the carry of the sum of a chunk of the last column.     *)
LastColumnSum(chunk, inverts) ==
  BlockLookup2(VectorAddReduce(chunk),
               IF inverts THEN ManyInvCarryMsg(Len(chunk)) ELSE ManyCarryMsg)

RegularColumnSum(chunk) ==
  LET sum == VectorAddReduce(chunk)
  IN  IF Len(chunk) <= 2 THEN BlockLookup2(sum, ManyCarryMsg)
      ELSE <<BlockLookup(sum, MsgOnly), BlockLookup(sum, CarryInMsg)>>

(* What becomes of column k: messages stay, carries go to the next one.    *)
ReducedColumn(columns, k, kind) ==
  IF Len(columns[k]) = 1 THEN <<columns[k]>>
  ELSE LET sums == IF k = Len(columns)
                   THEN Each(LAMBDA c :
                          LastColumnSum(c, kind = 0 /\ Len(columns) = 1),
                          Chunks(columns[k], OpNbSingle))
                   ELSE Each(RegularColumnSum, Chunks(columns[k], NU))
       IN  <<Each(LAMBDA p : p[1], sums), Each(LAMBDA p : p[2], sums)>>

RECURSIVE CountReduceRecursive(_, _)
CountReduceRecursive(columns, kind) ==
  IF \A k \in DOMAIN columns : Len(columns[k]) <= 1 THEN columns
  ELSE LET n == Len(columns)
           reduced == [k \in 1 .. n |-> ReducedColumn(columns, k, kind)] \o <<>>
           carried(k) == IF k > 1 /\ Len(reduced[k - 1]) = 2
                         THEN reduced[k - 1][2] ELSE <<>>
           kept(k)    == IF k <= n THEN reduced[k][1] ELSE <<>>
       IN  CountReduceRecursive(
             [k \in 1 .. n + 1 |-> carried(k) \o kept(k)] \o <<>>, kind)

CountFromBits(bits, kind) ==
  Each(LAMBDA c : c[1],
       SelectSeq(CountReduceRecursive(<<bits>>, kind), LAMBDA c : c # <<>>))

(* The blocks that a count of at most "size" bits takes, joined in an      *)
(* integer of n blocks; fails when the reduction gave fewer.               *)
JoinedCount(blocks, size, n) ==
  LET used == Ceiling(NBitsToEncode(size), MessageSize)
  IN  IF used > Len(blocks) THEN <<Panic>>
      ELSE CiphertextJoin(SubSeq(blocks, 1, used), n)

IopCount(ct, kind) ==
  LET bits == FlattenSeq(VectorLookup2(ct, ManyMsgSplit))
  IN  JoinedCount(CountFromBits(bits, kind), IntSize(ct), Len(ct))

-----------------------------------------------------------------------------
(* For each digit, whether it or one of those above it (below it, in the   *)
(* direction "lsb to msb") holds a bit equal to "kind".                    *)

(* Within a group of p digits: is one of the digits from i on not null?    *)
GroupStatus(src, p) ==
  [i \in DOMAIN src |->
     LET last == p * Ceiling(i, p)
     IN  BlockLookup(VectorAddReduce(
           SubSeq(src, i, IF last > Len(src) THEN Len(src) ELSE last)),
           NotNull)] \o <<>>

(* The groups of p digits are numbered from 0, and the status of a group   *)
(* is held by its first digit.                                             *)
HeadOf(group, p) == group * p + 1

(* The heads of the groups that are multiples of "stride" take those of    *)
(* the later ones of the same NU_BOOL into account, then those that are    *)
(* multiples of stride * NU_BOOL, and so on.                               *)
RECURSIVE HeadsFrom(_, _, _)
HeadsFrom(g, p, stride) ==
  LET groups == Ceiling(Len(g), p)
      end(c) == Min({groups, NU_BOOL * stride * (c \div (NU_BOOL * stride) + 1)})
      same(c) == [k \in 1 .. Ceiling(end(c) - c, stride) |->
                    g[HeadOf(c + (k - 1) * stride, p)]]
      isHead(i) == i % p = 1 /\ (i \div p) % stride = 0
  IN  IF stride >= groups THEN g
      ELSE HeadsFrom(
             [i \in DOMAIN g |->
                LET c == i \div p
                IN  IF isHead(i) /\ Len(same(c)) > 1
                    THEN BlockLookup(VectorAddReduce(same(c)), NotNull)
                    ELSE g[i]] \o <<>>,
             p, NU_BOOL * stride)

RECURSIVE LevelsOf(_, _)
LevelsOf(groups, stride) ==
  IF stride >= groups THEN 0 ELSE 1 + LevelsOf(groups, NU_BOOL * stride)

(* Mutant of NeighbourOf: only the next group counts.                      *)
NoNeighbour(heads, p, c) == 0

(* The heads of later groups that group c has to take into account beside  *)
(* the head of the next one: for each level, that of the nearest group     *)
(* after c that is a multiple of NU_BOOL ^ level.                          *)
NeighbourOf(heads, p, c) ==
  LET groups == Ceiling(Len(heads), p)
      nearest(level) ==
        LET d == NU_BOOL ^ level * (c \div NU_BOOL ^ level + 1)
        IN  IF d < groups THEN heads[HeadOf(d, p)] ELSE 0
      levels == LevelsOf(groups, 1)
  IN  IF levels <= 1 THEN 0
      ELSE VectorAddReduce([k \in 1 .. levels - 1 |-> nearest(k)])

(* What digit i, of group c, gathers from its group and the later ones.    *)
Status(heads, i, p, c, near) ==
  LET later == IF i # HeadOf(c, p) /\ c + 1 < Ceiling(Len(heads), p)
               THEN BlockAdd(near, heads[HeadOf(c + 1, p)]) ELSE near
  IN  BlockLookup(BlockAdd(heads[i], later), NotNull)

Statuses(heads, p) ==
  LET status(i, c) == Status(heads, i, p, c, NeighbourOf(heads, p, c))
  IN  [i \in DOMAIN heads |-> status(i, (i - 1) \div p)] \o <<>>

Directed(s, msbToLsb) == IF msbToLsb THEN s ELSE Reverse(s)

(* A digit with a bit equal to "kind" is one that is not null.             *)
Marked(ct, kind) ==
  IF kind = 1 THEN ct
  ELSE Each(LAMBDA b : BlockPlaintextSub(MessageSpan - 1, b), ct)

PropagateBlocks(ct, kind, msbToLsb) ==
  LET p           == IF kind = 1 THEN NU ELSE NU - 1
      heads(src)  == HeadsFrom(GroupStatus(src, p), p, 1)
      solved(src) == Statuses(heads(src), p)
  IN  Directed(solved(Directed(Marked(ct, kind), msbToLsb)), msbToLsb)

PropBitTable(kind, msbToLsb) ==
  CASE kind = 1 /\ msbToLsb  -> Manym2lPropBit1MsgSplit
    [] kind = 1 /\ ~msbToLsb -> Manyl2mPropBit1MsgSplit
    [] kind = 0 /\ msbToLsb  -> Manym2lPropBit0MsgSplit
    [] kind = 0 /\ ~msbToLsb -> Manyl2mPropBit0MsgSplit

(* Each digit is looked up together with the status of the one before it.  *)
SplitBits(ct, blocks, msbToLsb, table) ==
  LET start == IF msbToLsb THEN Len(ct) ELSE 1
      packed(i) == IF i = start THEN ct[i]
                   ELSE BlockPack(blocks[IF msbToLsb THEN i + 1 ELSE i - 1],
                                  ct[i])
  IN  FlattenSeq([i \in DOMAIN ct |-> BlockLookup2(packed(i), table)])

(* The bits of ct, least significant first, those after a bit equal to     *)
(* "kind" in the direction of travel made equal to it.                     *)
PropagateBits(ct, kind, msbToLsb) ==
  SplitBits(ct, PropagateBlocks(ct, kind, msbToLsb), msbToLsb,
            PropBitTable(kind, msbToLsb))

-----------------------------------------------------------------------------
CountedBits(ct, bits, kind) ==
  JoinedCount(CountFromBits(bits, kind), IntSize(ct),
              Ceiling(NBitsToEncode(IntSize(ct)), MessageSize))

IopLead0(ct)  == CountedBits(ct, PropagateBits(ct, 1, TRUE), 0)
IopLead1(ct)  == CountedBits(ct, PropagateBits(ct, 0, TRUE), 1)
IopTrail0(ct) == CountedBits(ct, PropagateBits(ct, 1, FALSE), 0)
IopTrail1(ct) == CountedBits(ct, PropagateBits(ct, 0, FALSE), 1)

IopIlog2(ct) == CountedBits(ct, Tail(PropagateBits(ct, 1, TRUE)), 1)
=============================================================================
