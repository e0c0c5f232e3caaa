------------------------------- MODULE MCHpu -------------------------------
(***************************************************************************)
(* Instances of the simulated HPU for TLC: small capacities and latencies, *)
(* and streams of DOps chosen or enumerated to fill queues, to overlap     *)
(* batches and to make the events of several elements fall in one cycle.   *)
(***************************************************************************)
EXTENDS Hpu, Streams

(* As in the configurations of the repository, the operands of a lane are  *)
(* read strictly before the result is written.                             *)
MCReadLatency == [lane \in Lanes |-> IF lane = "Alu" THEN 3 ELSE 2]
MCWriteLatency == [lane \in Lanes |-> IF lane = "Alu" THEN 5 ELSE 3]

IsPbs(d) == Affinity(d) = "Pbs"

(* The streams of the compiler: a batch of PBSes is contiguous, its last   *)
(* one and no other is a flush, and its PBSes do not depend on each other. *)
Batched(p) ==
  \A i \in DOMAIN p : IsPbs(p[i]) /\ ~ IsPbsFlush(p[i]) =>
    /\ i < Len(p)
    /\ IsPbs(p[i + 1])
    /\ \A t \in p[i].dst : ~ HasSource(p[i + 1], t)

(* Every batched stream of four DOps over a small instruction set, and one *)
(* that fills the queue of the ALU.                                        *)
Alphabet == {ADD(1, 0, 0), LD(0, 0), ST(0, 1), PBS(1, 2), PBSF(0, 1),
             PBS2F(2, 3), SYNC}
ShortStreams ==
  {p \in [1 .. 4 -> Alphabet] : Batched(p)}
  \cup {[i \in 1 .. 6 |-> ADD(1 + i, 0, 0)]}

(* Longer ones: several batches in flight, a full PBS memory, control and  *)
(* memory DOps between the batches.                                        *)
BatchStreams == {
  <<PBS(1, 0), PBS(2, 0), PBSF(3, 0), PBS(4, 0), PBSF(5, 0), PBS(6, 0), PBSF(7, 0)>>,
  <<LD(1, 1), PBS(2, 1), PBSF(3, 0), PBS(4, 2), PBS(5, 0), PBSF(6, 3), ADD(7, 6, 4)>>,
  <<PBS(1, 0), PBSF(2, 0), ADD(3, 1, 2), LD(4, 1), PBS(5, 3), PBS(6, 0), PBSF(7, 4)>>,
  <<LD(1, 1), LD(2, 2), ADD(3, 1, 2), PBS(4, 3), PBSF(5, 0), PBS(6, 1), PBSF(8, 2)>>,
  <<INIT, PBS2F(2, 3), ADD(0, 3, 3), SYNC, LD(1, 1), ST(0, 1)>>,
  <<PBS(1, 0), PBSF(2, 0), ADD(3, 1, 2), PBSF(4, 3), ST(1, 4), SYNC>> }

(* A flush that is a batch by itself, behind one that waits for an ADD or  *)
(* a load.                                                                 *)
OvertakingStreams == {
  <<ADD(1, 0, 0), PBS(2, 0), PBSF(3, 1), PBSF(4, 0)>>,
  <<LD(1, 0), PBS(2, 0), PBS(5, 0), PBSF(3, 1), PBSF(4, 0), PBS(6, 0), PBSF(7, 0)>> }

(* Streams without flush, whose batches wait for the timeout.              *)
TimedStreams == {
  <<PBS(1, 0), ADD(2, 1, 0), PBS(3, 2), ST(0, 3)>>,
  <<PBS(1, 0), PBS(2, 0), ADD(3, 1, 2), PBS(4, 3)>>,
  <<LD(1, 1), PBS(2, 1), INIT, PBS(3, 1), ADD(4, 2, 3), SYNC>> }

(* Every stream of five DOps that keeps the PBS element busy, in batches   *)
(* of at most three PBSes that do not depend on each other.                *)
SameBatch(p, i, j) == \A k \in i .. j : IsPbs(p[k]) /\ (k < j => ~ IsPbsFlush(p[k]))
BusyStreams ==
  {p \in [1 .. 5 -> {ADD(1, 0, 2), PBS(1, 0), PBS(3, 2), PBSF(0, 1), PBSF(2, 3)}] :
     /\ Batched(p)
     /\ \A i, j \in 1 .. 5 : i < j /\ SameBatch(p, i, j) =>
          /\ j < i + 3
          /\ \A t \in p[i].dst : ~ HasSource(p[j], t) /\ ~ HasDestination(p[j], t)}

MCStreams ==
  ShortStreams \cup BatchStreams \cup OvertakingStreams \cup TimedStreams \cup BusyStreams

(* The stream of the stale timeout.                                        *)
MixedStreams == { <<PBSF(1, 0), PBS(2, 1)>> }
=============================================================================
