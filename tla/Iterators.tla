----------------------------- MODULE Iterators -----------------------------
(***************************************************************************)
(* The iterator adapters of zhc_utils that keep state between two calls of *)
(* next(): chunks, sliding windows, the mapper with special first and last *)
(* elements, separators, interleaving, deduplication and zipping.  Each    *)
(* must look ahead, or remember, exactly as far as its documentation says: *)
(* what goes wrong is an element lost, repeated or treated as a middle one *)
(* at the ends of a short iterator, and an adapter that yields again after *)
(* it has returned None.                                                   *)
(*                                                                         *)
(* The iterators they are built on yield None for ever once they have.  An *)
(* element is its place in its iterator and a key.                         *)
(***************************************************************************)
EXTENDS Integers, SequencesExt

CONSTANTS MaxLen,    \* the longest input
          MaxSize,   \* the largest chunk and window, and the most mappers of an end
          ItemKeys   \* what deduplication compares

ASSUME IteratorsAssumption == MaxLen \in Nat /\ MaxSize \in Nat \ {0, 1}

VARIABLES adapter,   \* its name, its size, and the mappers it has not used up
          stage,     \* the state of its state machine
          held,      \* the elements it has taken and keeps
          source,    \* what its iterator has not yielded
          second,    \* the same of the other iterator, if it has one
          out,       \* what it has yielded
          ended,     \* TRUE once it has returned None
          expected   \* ghost: what it is documented to yield

iterVars == <<adapter, stage, held, source, second, out, ended, expected>>

-----------------------------------------------------------------------------
(* What the adapters are documented to yield for the input s.              *)

ChunksOf(s, n) ==
  [i \in 1 .. (Len(s) + n - 1) \div n |->
     <<IF i * n <= Len(s) THEN "Complete" ELSE "Rest",
       SubSeq(s, (i - 1) * n + 1, Min({i * n, Len(s)}))>>]

(* The windows grow at the left end of s, slide, and shrink at its right   *)
(* end by one element each.  Those of an input shorter than the window are *)
(* never complete.  (For such an input the documentation gives the sizes   *)
(* of the last windows and a number of them that disagree; these are the   *)
(* sizes.)                                                                 *)
WindowsOf(s, n) ==
  LET widest == Min({n, Len(s)}) IN
  [t \in 1 .. Len(s) + widest - (IF s = <<>> THEN 0 ELSE 1) |->
     <<CASE t <= Min({Len(s), n - 1}) -> "Prelude"
         [] t > Len(s)                -> "Postlude"
         [] OTHER                     -> "Complete",
       SubSeq(s, Max({1, t - widest + 1}), Min({t, Len(s)}))>>]

(* A mapper is its number: i for the i-th of the firsts, 0 for the rest,   *)
(* -i for the i-th of the lasts.                                           *)
MappedBy(s, first, last) ==
  [i \in DOMAIN s |-> <<IF i <= first THEN i
                        ELSE IF i > Len(s) - last THEN Len(s) - last - i ELSE 0, s[i]>>]

(* Mappers for the firsts and the lasts need one element for the rest      *)
(* between them.  An input too short for all of them ends early: only the  *)
(* firsts are mapped, or one element for the rest when there are no firsts.*)
MappedOf(s, first, last) ==
  IF last = 0 \/ Len(s) >= first + last + 1 THEN MappedBy(s, first, last)
  ELSE MappedBy(SubSeq(s, 1, Min({Len(s), Max({1, first})})), first, 0)

AlternatingOf(s, r, n) == [i \in 1 .. n |-> IF i % 2 = 1 THEN s[(i + 1) \div 2] ELSE r[i \div 2]]
SeparatedOf(s, r) == AlternatingOf(s, r, IF s = <<>> THEN 0 ELSE 2 * Len(s) - 1)
InterleavedOf(s, r) == AlternatingOf(s, r, Min({2 * Len(s), 2 * Len(r) + 1}))
FirstsOf(s) == SelectSeq(s, LAMBDA x : \A y \in ToSet(s) : y.key = x.key => x.at <= y.at)
ZippedOf(s, r) == [i \in 1 .. Min({Len(s), Len(r)}) |-> <<s[i], r[i]>>]

-----------------------------------------------------------------------------
(* The outcome of a call of next().                                        *)

Yields(x) == out' = Append(out, x) /\ UNCHANGED ended
YieldsNone == ended' = TRUE /\ UNCHANGED out
(* The elements from place i to place j, as many as there are.             *)
Upto(s, i, j) == SubSeq(s, i, Min({j, Len(s)}))
Advance == source' = Tail(source)
KeepsOnly(vars) == UNCHANGED vars /\ UNCHANGED expected

ItemsOf(keys, tag) == [i \in DOMAIN keys |-> [at |-> i, key |-> keys[i], of |-> tag]]
Inputs(tag, n) == {ItemsOf([i \in 1 .. k |-> CHOOSE x \in ItemKeys : TRUE], tag) : k \in 0 .. n}
KeyedInputs == UNION {{ItemsOf(keys, "main") : keys \in [1 .. k -> ItemKeys]} : k \in 0 .. MaxLen}

Built(name, size, leading, lasts) ==
  adapter = [name |-> name, size |-> size, leading |-> leading, lasts |-> lasts]

(* Adapters that take nothing before the first call.                       *)
Waiting(s, r, e) == source = s /\ second = r /\ held = <<>> /\ stage = "Start" /\ expected = e

ChunkInit ==
  \E s \in Inputs("main", MaxLen), n \in 1 .. MaxSize :
    Built("Chunked", n, <<>>, <<>>) /\ Waiting(s, <<>>, ChunksOf(s, n))

(* slide() takes the first element.                                        *)
SlideInit ==
  \E s \in Inputs("main", MaxLen), n \in 2 .. MaxSize :
    /\ Built("Slided", n, <<>>, <<>>)
    /\ held = Upto(s, 1, 1)
    /\ source = SubSeq(s, 2, Len(s))
    /\ stage = IF s = <<>> THEN "Postlude" ELSE "Prelude"
    /\ second = <<>>
    /\ expected = WindowsOf(s, n)

(* Without firsts the mapper of the rest is applied to the first element   *)
(* before anything is looked ahead.                                        *)
MapInit ==
  \E s \in Inputs("main", MaxLen), first \in 0 .. MaxSize, last \in 0 .. MaxSize :
    /\ first > 0 \/ last > 0
    /\ Built("MapMany", first, IF first = 0 THEN <<0>> ELSE [i \in 1 .. first |-> i],
             [i \in 1 .. last |-> -i])
    /\ Waiting(s, <<>>, MappedOf(s, first, last))

(* separate() takes the first element; there are enough separators.        *)
SeparateInit ==
  \E s \in Inputs("main", MaxLen) :
    LET r == ItemsOf([i \in DOMAIN s |-> 1], "separator") IN
    /\ Built("Separated", 0, <<>>, <<>>)
    /\ held = Upto(s, 1, 1)
    /\ source = SubSeq(s, 2, Len(s))
    /\ stage = IF s = <<>> THEN "Finished" ELSE "OnIter"
    /\ second = r
    /\ expected = SeparatedOf(s, r)

InterleaveInit ==
  \E s \in Inputs("main", MaxLen), r \in Inputs("other", MaxLen) :
    Built("Interleaved", 0, <<>>, <<>>) /\ Waiting(s, r, InterleavedOf(s, r))

DedupInit ==
  \E s \in KeyedInputs : Built("Dedup", 0, <<>>, <<>>) /\ Waiting(s, <<>>, FirstsOf(s))

ZipInit ==
  \E s \in Inputs("main", MaxLen), r \in Inputs("other", MaxLen) :
    Built("Zip", 0, <<>>, <<>>) /\ Waiting(s, r, ZippedOf(s, r))

IteratorsInit ==
  /\ ChunkInit \/ SlideInit \/ MapInit \/ SeparateInit \/ InterleaveInit \/ DedupInit \/ ZipInit
  /\ out = <<>>
  /\ ended = FALSE

-----------------------------------------------------------------------------
(* next() of each adapter.                                                 *)

ChunkNext ==
  LET n == Min({adapter.size, Len(source)}) IN
  /\ adapter.name = "Chunked"
  /\ IF source = <<>> THEN YieldsNone
     ELSE Yields(<<IF n = adapter.size THEN "Complete" ELSE "Rest", SubSeq(source, 1, n)>>)
  /\ source' = SubSeq(source, n + 1, Len(source))
  /\ KeepsOnly(<<adapter, stage, held, second>>)

(* The window that was built by the last call is yielded, and the next one *)
(* built from what the source yields.                                      *)
SlideTakes ==
  /\ source # <<>>
  /\ Yields(<<stage, held>>)
  /\ held' = Append(IF Len(held) = adapter.size THEN Tail(held) ELSE held, Head(source))
  /\ stage' = IF Len(held) >= adapter.size - 1 THEN "Complete" ELSE "Prelude"
  /\ Advance

SlideDrains ==
  /\ source = <<>>
  /\ IF stage = "Postlude" /\ held = <<>> THEN YieldsNone ELSE Yields(<<stage, held>>)
  /\ held' = IF held = <<>> THEN held ELSE Tail(held)
  /\ stage' = "Postlude"
  /\ UNCHANGED source

SlideNext ==
  /\ adapter.name = "Slided"
  /\ SlideTakes \/ SlideDrains
  /\ KeepsOnly(<<adapter, second>>)

(* Mutant of LookaheadOf: one element too few.                             *)
LookaheadShort(lasts) == Len(lasts)

(* How many elements are taken when the firsts are used up.                *)
LookaheadOf(lasts) == Len(lasts) + 1

(* The firsts, and the first element of all when there are none.           *)
MapLeading ==
  LET n == LookaheadOf(adapter.lasts) IN
  /\ stage = "Start"
  /\ \/ /\ source = <<>>
        /\ YieldsNone
        /\ stage' = "Finished"
        /\ UNCHANGED <<adapter, held, source>>
     \/ /\ source # <<>>
        /\ Yields(<<Head(adapter.leading), Head(source)>>)
        /\ adapter' = [adapter EXCEPT !.leading = Tail(@)]
        /\ IF Len(adapter.leading) > 1 THEN Advance /\ UNCHANGED <<stage, held>>
           ELSE IF adapter.lasts = <<>> THEN stage' = "RestWithoutLasts" /\ Advance /\ UNCHANGED held
           ELSE /\ stage' = IF Len(source) > n THEN "Rest" ELSE "Finished"
                /\ held' = Upto(source, 2, n + 1)
                /\ source' = SubSeq(source, n + 2, Len(source))

(* An element is known not to be one of the lasts when the element that    *)
(* many places behind it exists.                                           *)
MapRest ==
  /\ stage = "Rest"
  /\ Yields(<<0, Head(held)>>)
  /\ IF source = <<>> THEN stage' = "Lasts" /\ held' = Tail(held) /\ UNCHANGED source
     ELSE held' = Append(Tail(held), Head(source)) /\ Advance /\ UNCHANGED stage
  /\ UNCHANGED adapter

MapRestWithoutLasts ==
  /\ stage = "RestWithoutLasts"
  /\ IF source = <<>> THEN YieldsNone /\ UNCHANGED source
     ELSE Yields(<<0, Head(source)>>) /\ Advance
  /\ UNCHANGED <<adapter, stage, held>>

MapLasts ==
  /\ stage = "Lasts"
  /\ Yields(<<Head(adapter.lasts), Head(held)>>)
  /\ adapter' = [adapter EXCEPT !.lasts = Tail(@)]
  /\ stage' = IF Len(adapter.lasts) = 1 THEN "Finished" ELSE stage
  /\ held' = Tail(held)
  /\ UNCHANGED source

MapFinished ==
  /\ stage = "Finished"
  /\ YieldsNone
  /\ UNCHANGED <<adapter, stage, held, source>>

MapNext ==
  /\ adapter.name = "MapMany"
  /\ MapLeading \/ MapRest \/ MapRestWithoutLasts \/ MapLasts \/ MapFinished
  /\ KeepsOnly(<<second>>)

(* The element to yield is taken one call ahead: a separator is asked for  *)
(* only when another element follows it.                                   *)
SeparateNext ==
  /\ adapter.name = "Separated"
  /\ \/ /\ stage = "OnIter"
        /\ Yields(held[1])
        /\ held' = Upto(source, 1, 1)
        /\ source' = SubSeq(source, 2, Len(source))
        /\ stage' = IF source = <<>> THEN "Finished" ELSE "OnSep"
        /\ UNCHANGED second
     \/ /\ stage = "OnSep"
        /\ Yields(Head(second))
        /\ second' = Tail(second)
        /\ stage' = "OnIter"
        /\ UNCHANGED <<held, source>>
     \/ /\ stage = "Finished"
        /\ YieldsNone
        /\ UNCHANGED <<held, source, second, stage>>
  /\ KeepsOnly(<<adapter>>)

(* It starts on the main iterator, and is finished by the first None.      *)
InterleaveNext ==
  LET turn == CASE stage = "Finished" -> <<>> [] stage = "OnSep" -> second [] OTHER -> source IN
  /\ adapter.name = "Interleaved"
  /\ \/ turn = <<>> /\ YieldsNone /\ stage' = "Finished" /\ UNCHANGED <<source, second>>
     \/ /\ turn # <<>>
        /\ Yields(Head(turn))
        /\ IF stage = "OnSep" THEN second' = Tail(second) /\ stage' = "OnMain" /\ UNCHANGED source
           ELSE Advance /\ stage' = "OnSep" /\ UNCHANGED second
  /\ KeepsOnly(<<adapter, held>>)

(* Dedup calls itself and DedupByKey loops until an element has a new key. *)
DedupNext ==
  LET new == {i \in DOMAIN source : ~ Contains(held, source[i].key)} IN
  /\ adapter.name = "Dedup"
  /\ \/ new = {} /\ YieldsNone /\ source' = <<>> /\ UNCHANGED held
     \/ /\ new # {}
        /\ Yields(source[Min(new)])
        /\ held' = Append(held, source[Min(new)].key)
        /\ source' = SubSeq(source, Min(new) + 1, Len(source))
  /\ KeepsOnly(<<adapter, stage, second>>)

(* Every iterator is asked, also after one of them has returned None.      *)
ZipNext ==
  /\ adapter.name = "Zip"
  /\ IF source = <<>> \/ second = <<>> THEN YieldsNone ELSE Yields(<<Head(source), Head(second)>>)
  /\ source' = SubSeq(source, 2, Len(source))
  /\ second' = SubSeq(second, 2, Len(second))
  /\ KeepsOnly(<<adapter, stage, held>>)

IteratorsNext ==
  ChunkNext \/ SlideNext \/ MapNext \/ SeparateNext \/ InterleaveNext \/ DedupNext \/ ZipNext

-----------------------------------------------------------------------------
(* The one element for the rest that an input without firsts has room for  *)
(* is its first, and is followed by one of the lasts.                      *)
LastsFollowFirst ==
  /\ adapter.name = "MapMany" /\ adapter.size = 0
  /\ Len(expected) > 1 /\ expected[2][1] < 0

YieldsExpected == IsPrefix(out, expected) /\ (ended => out = expected)

(* Every adapter yields, call by call, what it is documented to yield for  *)
(* its input, returns None only after all of it, and nothing afterwards.   *)
(* Left out are the shortest inputs that map_rest with map_last should     *)
(* take, which are the subject of MappedAsDocumented; the number of the    *)
(* windows of an input shorter than a window, which the documentation      *)
(* contradicts itself about (WindowsOf); and, by the inputs, separators    *)
(* that run out.                                                           *)
IteratorsRight == ~ LastsFollowFirst => YieldsExpected

(* map_rest followed by map_last applies "to all elements except those     *)
(* later designated as trailing", and ends early only if the iterator is   *)
(* "too short to satisfy the number of distinct mappers".  It ends early   *)
(* also with one element for each mapper: after the first element it looks *)
(* for one more than there are lasts.                                      *)
MappedAsDocumented == adapter.name = "MapMany" => YieldsExpected
=============================================================================
