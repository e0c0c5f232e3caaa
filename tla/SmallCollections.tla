-------------------------- MODULE SmallCollections --------------------------
(***************************************************************************)
(* The vectors, maps and sets of zhc_utils that live on the stack while    *)
(* they are small: VArray and StackVec, buffers of slots that are not      *)
(* initialised and are read, written and dropped through raw pointers;     *)
(* SmallVec, SmallMap and SmallSet, which move to the heap when the buffer *)
(* is full.  A move is a copy of bits: a slot keeps its element after it   *)
(* was moved out, and only the lengths say who owns what.  What goes wrong *)
(* is an element dropped twice, leaked, or out of place.                   *)
(*                                                                         *)
(* Elements are numbered in the order they are made.  Two collections of   *)
(* one kind, and an iterator that took the elements of one, are worked on  *)
(* in any order.  Vec, HashMap and HashSet are external.                   *)
(***************************************************************************)
EXTENDS Integers, SequencesExt

CONSTANTS Room,     \* how many elements the buffer of each kind holds
          Budget,   \* the number of elements ever made
          Keys      \* the keys of the maps and sets

Names == {"self", "other"}
VectorKinds == {"VArray", "StackVec", "SmallVec"}
TableKinds == {"SmallMap", "SmallSet"}

ASSUME RoomAssumption ==
  Room \in [VectorKinds \cup TableKinds -> Nat \ {0}] /\ Budget \in Nat

VARIABLES kind,     \* the type of the two collections
          made,     \* the number of elements made so far
          vec,      \* the two collections
          iter,     \* the iterator, if any
          gone,     \* how often each element was handed over or dropped
          given,    \* what the last operation returned
          promised  \* ghost: the contents and the answer documented

smallVars == <<kind, made, vec, iter, gone, given, promised>>

-----------------------------------------------------------------------------
(* The buffer of a VArray or of a StackVec.  Zero is a slot never written. *)

Places == Room[kind]
NoBuffer == [slots |-> [s \in 1 .. Places |-> 0], len |-> 0]
AsSlice(b) == SubSeq(b.slots, 1, b.len)
MayAppend(b, n) == b.len + n <= Places

PushIn(b, e) == [slots |-> [b.slots EXCEPT ![b.len + 1] = e], len |-> b.len + 1]
PushAll(b, s) == FoldLeft(PushIn, b, s)

(* A SmallSet is built on a VArray, a SmallMap on a StackVec of pairs.     *)
OnVArray == kind \in {"VArray", "SmallSet"}

(* Mutant of RemovedFrom: the last element is not moved.                   *)
RemovedShort(b, i) ==
  [slots |-> [s \in 1 .. Places |-> IF s \in i .. b.len - 2 THEN b.slots[s + 1] ELSE b.slots[s]],
   len |-> b.len - 1]

(* The elements after index i move one place to the left: the VArray       *)
(* rotates the removed one to the end and pops it, the StackVec reads it   *)
(* first and overwrites it.                                                *)
RemovedFrom(b, i) ==
  [slots |-> [s \in 1 .. Places |-> IF s \in i .. b.len - 1 THEN b.slots[s + 1]
                                  ELSE IF s = b.len /\ OnVArray THEN b.slots[i]
                                  ELSE b.slots[s]],
   len |-> b.len - 1]

(* The VArray pops the elements of the other one from its back and turns   *)
(* what was pushed around; the StackVec copies them one by one.            *)
AppendedTo(b, c) ==
  IF kind = "VArray"
  THEN LET n == b.len + c.len
           pushed == PushAll(b, Reverse(AsSlice(c)))
       IN  [slots |-> [s \in 1 .. Places |-> IF s \in b.len + 1 .. n
                                           THEN pushed.slots[b.len + 1 + n - s]
                                           ELSE pushed.slots[s]],
            len |-> n]
  ELSE PushAll(b, AsSlice(c))

-----------------------------------------------------------------------------
(* A collection, in the buffer or on the heap: a Vec is a sequence, a      *)
(* HashMap or a HashSet a set of pairs of a key and a value, the element   *)
(* of a set being both.                                                    *)

InBuffer(b) == [heap |-> FALSE, buffer |-> b, items |-> <<>>]
OnHeap(s) == [heap |-> TRUE, buffer |-> NoBuffer, items |-> s]
Contents(v) == IF v.heap THEN v.items ELSE AsSlice(v.buffer)

(* A SmallVec moves to the heap by draining its buffer into a Vec.         *)
Spilled(v) == IF v.heap THEN v ELSE OnHeap(AsSlice(v.buffer))

Emptied(v) == IF v.heap THEN OnHeap(<<>>) ELSE InBuffer([v.buffer EXCEPT !.len = 0])

(* The iterator that into_iter and drain_all return: a copy of the buffer  *)
(* with the bounds of what is left, or the iterator of a Vec.              *)
NoIter == [live |-> FALSE, heap |-> FALSE, buffer |-> NoBuffer, start |-> 0, items |-> <<>>]
IterOf(v) == [live |-> TRUE, heap |-> v.heap, buffer |-> v.buffer, start |-> 0, items |-> v.items]
Remaining(it) ==
  IF ~ it.live THEN <<>>
  ELSE IF it.heap THEN it.items ELSE SubSeq(it.buffer.slots, it.start + 1, it.buffer.len)

Fresh(n) == [i \in 1 .. n |-> made + i]

-----------------------------------------------------------------------------
(* The outcome of an operation that makes n elements, hands s to its       *)
(* caller and drops d; collection x is documented to hold c and the answer *)
(* to be p.                                                                *)

Leave(s) ==
  gone' = [e \in 1 .. Budget |-> gone[e] + Cardinality({i \in DOMAIN s : s[i] = e})]

Done(n, s, d, x, c, p) ==
  /\ made' = made + n
  /\ Leave(s \o d)
  /\ given' = s
  /\ promised' = [promised EXCEPT !.contents[x] = c, !.given = p]
  /\ UNCHANGED <<kind, iter>>

SmallInit ==
  /\ kind \in VectorKinds \cup TableKinds
  /\ made = 0
  /\ vec = [x \in Names |-> InBuffer(NoBuffer)]
  /\ iter = NoIter
  /\ gone = [e \in 1 .. Budget |-> 0]
  /\ given = <<>>
  /\ promised = [contents |-> [x \in Names |-> IF kind \in TableKinds THEN [k \in Keys |-> 0]
                                               ELSE <<>>],
                 iter |-> <<>>, given |-> <<>>]

-----------------------------------------------------------------------------
(* The operations of the three vectors.                                    *)

(* A full buffer panics and the value is dropped; a full SmallVec spills.  *)
Push(x) ==
  LET v == vec[x]
      e == made + 1
      room == v.heap \/ MayAppend(v.buffer, 1)
  IN  /\ made < Budget
      /\ \/ /\ ~ room /\ kind # "SmallVec"
            /\ UNCHANGED vec
            /\ Done(1, <<>>, <<e>>, x, promised.contents[x], <<>>)
         \/ /\ room \/ kind = "SmallVec"
            /\ vec' = [vec EXCEPT ![x] = IF room /\ ~ v.heap THEN InBuffer(PushIn(v.buffer, e))
                                         ELSE OnHeap(Append(Spilled(v).items, e))]
            /\ Done(1, <<>>, <<>>, x, Append(promised.contents[x], e), <<>>)

Pop(x) ==
  LET v == vec[x] IN
  /\ Contents(v) # <<>>
  /\ vec' = [vec EXCEPT ![x] = IF v.heap THEN OnHeap(Front(v.items))
                               ELSE InBuffer([v.buffer EXCEPT !.len = @ - 1])]
  /\ Done(0, <<IF v.heap THEN Last(v.items) ELSE v.buffer.slots[v.buffer.len]>>, <<>>, x,
          Front(promised.contents[x]), <<Last(promised.contents[x])>>)

(* An index out of bounds panics and changes nothing.                      *)
RemoveIndex(x, i) ==
  LET v == vec[x] IN
  /\ i <= Len(Contents(v))
  /\ vec' = [vec EXCEPT ![x] = IF v.heap THEN OnHeap(RemoveAt(v.items, i))
                               ELSE InBuffer(RemovedFrom(v.buffer, i))]
  /\ Done(0, <<IF v.heap THEN v.items[i] ELSE v.buffer.slots[i]>>, <<>>, x,
          RemoveAt(promised.contents[x], i), <<promised.contents[x][i]>>)

(* An assignment through index_mut drops what was there.                   *)
AssignIndex(x, i) ==
  LET v == vec[x] IN
  /\ made < Budget /\ i <= Len(Contents(v))
  /\ vec' = [vec EXCEPT ![x] = IF v.heap THEN OnHeap([v.items EXCEPT ![i] = made + 1])
                               ELSE InBuffer([v.buffer EXCEPT !.slots[i] = made + 1])]
  /\ Done(1, <<>>, <<Contents(v)[i]>>, x, [promised.contents[x] EXCEPT ![i] = made + 1], <<>>)

Clear(x) ==
  /\ Contents(vec[x]) # <<>>
  /\ vec' = [vec EXCEPT ![x] = Emptied(@)]
  /\ Done(0, <<>>, Contents(vec[x]), x, <<>>, <<>>)

(* self.append(other) moves every element and leaves the other one empty.  *)
(* Two SmallVecs stay in the buffer when it has room for both.             *)
AppendOther ==
  LET l == vec["self"]
      r == vec["other"]
      inPlace == ~ l.heap /\ ~ r.heap /\ MayAppend(l.buffer, r.buffer.len)
  IN  /\ inPlace \/ kind = "SmallVec"
      /\ Contents(r) # <<>>
      /\ vec' = [self |-> IF inPlace THEN InBuffer(AppendedTo(l.buffer, r.buffer))
                          ELSE OnHeap(Spilled(l).items \o Contents(r)),
                 other |-> Emptied(r)]
      /\ promised' = [promised EXCEPT
                        !.contents = [self |-> @["self"] \o @["other"], other |-> <<>>],
                        !.given = <<>>]
      /\ given' = <<>>
      /\ UNCHANGED <<iter, gone, made, kind>>

(* from_iter over n new elements, of which the iterator announces at most  *)
(* "max", takes the place of a vector; only a SmallVec looks at the hint.  *)
(* A buffer that overflows panics: what was collected and the value are    *)
(* dropped, and x is kept.                                                 *)
FromIter(x, n, max) ==
  /\ made + n <= Budget
  /\ \/ /\ kind # "SmallVec" /\ n > Places
        /\ UNCHANGED vec
        /\ Done(Places + 1, <<>>, Fresh(Places + 1), x, promised.contents[x], <<>>)
     \/ /\ kind = "SmallVec" \/ n <= Places
        /\ vec' = [vec EXCEPT ![x] = IF kind = "SmallVec" /\ max > Places THEN OnHeap(Fresh(n))
                                     ELSE InBuffer(PushAll(NoBuffer, Fresh(n)))]
        /\ Done(n, <<>>, Contents(vec[x]), x, Fresh(n), <<>>)

(* extend by n new elements.  A buffer that overflows keeps what was       *)
(* pushed before the panic.                                                *)
Extend(x, n, max) ==
  LET v == vec[x]
      fits == Places - v.buffer.len
  IN  /\ made + n <= Budget
      /\ \/ /\ kind # "SmallVec" /\ n > fits
            /\ vec' = [vec EXCEPT ![x] = InBuffer(PushAll(v.buffer, Fresh(fits)))]
            /\ Done(fits + 1, <<>>, <<made + fits + 1>>, x,
                    promised.contents[x] \o Fresh(fits), <<>>)
         \/ /\ kind = "SmallVec" \/ n <= fits
            /\ vec' = [vec EXCEPT ![x] =
                         IF kind = "SmallVec" /\ (v.heap \/ ~ MayAppend(v.buffer, max))
                         THEN OnHeap(Spilled(v).items \o Fresh(n))
                         ELSE InBuffer(PushAll(v.buffer, Fresh(n)))]
            /\ Done(n, <<>>, <<>>, x, promised.contents[x] \o Fresh(n), <<>>)

(* other = self.clone(): the clones are new elements.                      *)
CloneSelf ==
  LET v == vec["self"]
      n == Len(Contents(v))
  IN  /\ n > 0 /\ made + n <= Budget
      /\ vec' = [vec EXCEPT !["other"] = IF v.heap THEN OnHeap(Fresh(n))
                                         ELSE InBuffer(PushAll(NoBuffer, Fresh(n)))]
      /\ Done(n, <<>>, Contents(vec["other"]), "other",
              [i \in 1 .. Len(promised.contents["self"]) |-> made + i], <<>>)

(* into_vec, drain_to_vec, and into_array or try_into when the length fits *)
(* hand every element to the caller in order.                              *)
TakeAll(x) ==
  /\ Contents(vec[x]) # <<>>
  /\ vec' = [vec EXCEPT ![x] = Emptied(@)]
  /\ Done(0, Contents(vec[x]), <<>>, x, <<>>, promised.contents[x])

(* into_array of a VArray that is not full panics, which drops it.         *)
IntoArrayFails(x) ==
  /\ kind = "VArray" /\ vec[x].buffer.len \in 1 .. Places - 1
  /\ vec' = [vec EXCEPT ![x] = InBuffer(NoBuffer)]
  /\ Done(0, <<>>, Contents(vec[x]), x, <<>>, <<>>)

SortUnstable(x) ==
  LET v == vec[x]
      sorted == SetToSortSeq(ToSet(Contents(v)), <)
  IN  /\ kind = "SmallVec" /\ Contents(v) # sorted
      /\ vec' = [vec EXCEPT ![x] = IF v.heap THEN OnHeap(sorted)
                                   ELSE InBuffer(PushAll([v.buffer EXCEPT !.len = 0], sorted))]
      /\ Done(0, <<>>, <<>>, x, SetToSortSeq(ToSet(promised.contents[x]), <), <<>>)

-----------------------------------------------------------------------------
(* drain_all and into_iter, and what is done with the iterator.            *)

Drain(x) ==
  /\ ~ iter.live /\ Contents(vec[x]) # <<>>
  /\ iter' = IterOf(vec[x])
  /\ vec' = [vec EXCEPT ![x] = Emptied(@)]
  /\ promised' = [promised EXCEPT !.contents[x] = <<>>, !.iter = promised.contents[x],
                                  !.given = <<>>]
  /\ given' = <<>>
  /\ UNCHANGED <<gone, made, kind>>

IterDone(s, d, c, p) ==
  /\ Leave(s \o d)
  /\ given' = s
  /\ promised' = [promised EXCEPT !.iter = c, !.given = p]
  /\ UNCHANGED <<vec, made, kind>>

IterNext ==
  /\ Remaining(iter) # <<>>
  /\ iter' = IF iter.heap THEN [iter EXCEPT !.items = Tail(@)] ELSE [iter EXCEPT !.start = @ + 1]
  /\ IterDone(<<IF iter.heap THEN Head(iter.items) ELSE iter.buffer.slots[iter.start + 1]>>, <<>>,
              Tail(promised.iter), <<Head(promised.iter)>>)

(* The iterator of a VArray has no back.                                   *)
IterNextBack ==
  /\ kind # "VArray" /\ Remaining(iter) # <<>>
  /\ iter' = IF iter.heap THEN [iter EXCEPT !.items = Front(@)]
             ELSE [iter EXCEPT !.buffer.len = @ - 1]
  /\ IterDone(<<IF iter.heap THEN Last(iter.items) ELSE iter.buffer.slots[iter.buffer.len]>>, <<>>,
              Front(promised.iter), <<Last(promised.iter)>>)

(* What the iterator has not yielded is dropped with it.                   *)
IterDrop ==
  /\ iter.live
  /\ iter' = NoIter
  /\ IterDone(<<>>, Remaining(iter), <<>>, <<>>)

-----------------------------------------------------------------------------
(* Maps and sets.  The value of a map is a new element, that of a set the  *)
(* key.  Zero stands for None and FALSE.                                   *)

InBufferAt(b, k) == {i \in 1 .. b.len : b.slots[i][1] = k}
PairsOf(v) == IF v.heap THEN v.items ELSE ToSet(AsSlice(v.buffer))
ValuesAt(v, k) == {p[2] : p \in {q \in PairsOf(v) : q[1] = k}}
ValueAt(v, k) == IF ValuesAt(v, k) = {} THEN 0 ELSE CHOOSE w \in ValuesAt(v, k) : TRUE

(* get of a map and contains of a set look from the front of the buffer.   *)
Found(v, k) ==
  IF v.heap THEN ValueAt(v, k)
  ELSE IF InBufferAt(v.buffer, k) = {} THEN 0
  ELSE v.buffer.slots[Min(InBufferAt(v.buffer, k))][2]

Without(v, k) == {p \in PairsOf(v) : p[1] # k}

(* A key that is present keeps its place, and a map its new value; a new   *)
(* one goes to the buffer, or moves the collection to the heap.            *)
Inserted(v, k, w) ==
  LET present == InBufferAt(v.buffer, k) IN
  IF v.heap THEN OnHeap(Without(v, k) \cup {<<k, w>>})
  ELSE IF present # {} THEN InBuffer([v.buffer EXCEPT !.slots[Min(present)] = <<k, w>>])
  ELSE IF MayAppend(v.buffer, 1) THEN InBuffer(PushIn(v.buffer, <<k, w>>))
  ELSE OnHeap(PairsOf(v) \cup {<<k, w>>})

(* The old value of a map is returned, the new one of a set dropped.       *)
Insert(x, k) ==
  LET map == kind = "SmallMap"
      w == IF map THEN made + 1 ELSE k
      old == Found(vec[x], k)
  IN  /\ map => made < Budget
      /\ vec' = [vec EXCEPT ![x] = Inserted(@, k, w)]
      /\ made' = IF map THEN made + 1 ELSE made
      /\ IF map /\ old # 0 THEN Leave(<<old>>) ELSE UNCHANGED gone
      /\ given' = <<old>>
      /\ promised' = [promised EXCEPT !.contents[x][k] = w, !.given = <<promised.contents[x][k]>>]
      /\ UNCHANGED <<kind, iter>>

RemoveKey(x, k) ==
  LET v == vec[x]
      old == Found(v, k)
  IN  /\ vec' = [vec EXCEPT ![x] =
                   IF v.heap THEN OnHeap(Without(v, k))
                   ELSE IF old = 0 THEN v
                   ELSE InBuffer(RemovedFrom(v.buffer, Min(InBufferAt(v.buffer, k))))]
      /\ IF kind = "SmallMap" /\ old # 0 THEN Leave(<<old>>) ELSE UNCHANGED gone
      /\ given' = <<old>>
      /\ promised' = [promised EXCEPT !.contents[x][k] = 0, !.given = <<promised.contents[x][k]>>]
      /\ UNCHANGED <<kind, iter, made>>

(* get, contains and contains_key.                                         *)
Lookup(x, k) ==
  /\ given' = <<Found(vec[x], k)>>
  /\ promised' = [promised EXCEPT !.given = <<promised.contents[x][k]>>]
  /\ UNCHANGED <<kind, iter, made, gone, vec>>

(* An assignment through get_mut of a map.                                 *)
GetMut(x, k) ==
  LET v == vec[x]
      old == Found(v, k)
  IN  /\ kind = "SmallMap" /\ old # 0 /\ made < Budget
      /\ vec' = [vec EXCEPT ![x] = Inserted(v, k, made + 1)]
      /\ made' = made + 1
      /\ Leave(<<old>>)
      /\ given' = <<>>
      /\ promised' = [promised EXCEPT !.contents[x][k] = made + 1, !.given = <<>>]
      /\ UNCHANGED <<kind, iter>>

(* Equality of two sets, which may live in different places.               *)
SetEq(l, r) ==
  LET size(v) == IF v.heap THEN Cardinality(v.items) ELSE v.buffer.len
  IN  /\ size(l) = size(r)
      /\ IF l.heap THEN \A p \in PairsOf(r) : Found(l, p[1]) # 0
         ELSE \A p \in PairsOf(l) : Found(r, p[1]) # 0

Compare ==
  /\ kind = "SmallSet"
  /\ given' = <<SetEq(vec["self"], vec["other"])>>
  /\ promised' = [promised EXCEPT !.given = <<promised.contents["self"] = promised.contents["other"]>>]
  /\ UNCHANGED <<kind, iter, made, gone, vec>>

-----------------------------------------------------------------------------
VectorNext ==
  \/ \E x \in Names : \/ Push(x) \/ Pop(x) \/ Clear(x) \/ TakeAll(x) \/ IntoArrayFails(x)
                      \/ SortUnstable(x) \/ Drain(x)
                      \/ \E i \in 1 .. Budget : RemoveIndex(x, i) \/ AssignIndex(x, i)
                      \/ \E n \in 0 .. Places + 1, max \in 0 .. Places + 1 :
                           /\ n <= max /\ (kind = "SmallVec" \/ max = n)
                           /\ FromIter(x, n, max) \/ (n > 0 /\ Extend(x, n, max))
  \/ AppendOther \/ CloneSelf
  \/ IterNext \/ IterNextBack \/ IterDrop

TableNext ==
  \/ \E x \in Names, k \in Keys : Insert(x, k) \/ RemoveKey(x, k) \/ Lookup(x, k) \/ GetMut(x, k)
  \/ Compare

SmallNext ==
  \/ kind \in VectorKinds /\ VectorNext
  \/ kind \in TableKinds /\ TableNext

-----------------------------------------------------------------------------
(* How often an element is in the live part of a collection or iterator.   *)
Times(s, e) == Cardinality({i \in DOMAIN s : s[i] = e})
Held(e) ==
  IF kind = "SmallMap"
  THEN Cardinality({<<x, k>> \in Names \X Keys : e \in ValuesAt(vec[x], k)})
  ELSE Times(Contents(vec["self"]), e) + Times(Contents(vec["other"]), e)
       + Times(Remaining(iter), e)

(* Every element that was made has exactly one owner: it is in the live    *)
(* part of one collection or iterator, or it was handed over or dropped    *)
(* once.  Nothing is leaked and nothing is dropped twice, although every   *)
(* move leaves a copy behind in the slot.                                  *)
OwnedOnce == kind # "SmallSet" => \A e \in 1 .. made : Held(e) + gone[e] = 1

(* The collections hold, in order, what their documentation says after the *)
(* same calls: a Vec, a map or a set, wherever they live and however often *)
(* they moved; no key is in a buffer twice, and every answer is that of    *)
(* the documented collection.                                              *)
ContentsRight ==
  /\ given = promised.given
  /\ Remaining(iter) = promised.iter
  /\ \A x \in Names :
       IF kind \in VectorKinds THEN Contents(vec[x]) = promised.contents[x]
       ELSE /\ \A k \in Keys : ValuesAt(vec[x], k) = {promised.contents[x][k]} \ {0}
            /\ vec[x].heap \/ \A k \in Keys : Cardinality(InBufferAt(vec[x].buffer, k)) <= 1

(* Whatever the sequence of calls, a small collection behaves as the heap  *)
(* collection it stands for and owns each of its elements exactly once.    *)
CollectionsSound == OwnedOnce /\ ContentsRight
=============================================================================
