---------------------------- MODULE MCIntegerOps ----------------------------
(***************************************************************************)
(* Instances of the integer operations on blocks of two message and two    *)
(* carry bits.  Up to three digits, every pair of integers.  Beyond, runs  *)
(* of zeros or of threes broken at one digit, whose carries and borrows    *)
(* travel across the borders of the circuits: four digits is a group of    *)
(* the Hillis-Steele adder, 8 two of them and 9 the first of the next      *)
(* stage; 9 and 14 are cut in two by the Kogge-Stone adder; 5 digits make  *)
(* the multiplier merge its overflow flags in two rounds; the search for   *)
(* the first bit takes groups of five digits (four when it looks for a     *)
(* zero), eight groups together, then eight of these.                      *)
(***************************************************************************)
EXTENDS IntegerOps

Digits(n) == [1 .. n -> Message]

Broken(n, bases, breaks) ==
  {[i \in 1 .. n |-> IF i = p THEN d ELSE base] :
     p \in 1 .. n, d \in breaks, base \in bases}

Edges(n) == Broken(n, {0, 3}, Message)

AllPairs     == UNION {Digits(n) \X Digits(n) : n \in 1 .. 3}
ProductPairs == UNION {Edges(n) \X Edges(n) : n \in {4, 5}}
CarryPairs   ==
  UNION {Edges(n) \X (Broken(n, {0}, {1}) \cup Broken(n, {3}, {3})) :
           n \in {6, 7, 8, 9, 14}}
LongIntegers == UNION {{<<s, s>> : s \in Edges(n)} : n \in {20, 34, 44}}

Instances == AllPairs \cup ProductPairs \cup CarryPairs \cup LongIntegers
=============================================================================
