# A verification project for ZHC

ZHC compiles integer operations on encrypted data to the HPU, an accelerator
whose instructions ("DOps") work on a file of ciphertext registers. The
repository also holds a discrete-event simulator of the HPU, `zhc_sim`, which
the compiler uses to compute latencies. This directory holds TLA+ modules
translated from the Rust source, the TLC runs that check them and the TLAPS
proofs about them. Paths below are relative to `src/`.

The project covers four layers:

1. the **simulated HPU**: an out-of-order scheduler, processing elements that
   work at the same time, an event queue without order within a cycle;
2. the **compiler**: the intermediate representation and its mutators, the
   passes on circuits, the lowering, batching, list scheduling, register
   allocation and the encoding of the DOps;
3. the **arithmetic**: the circuits of the integer operations, evaluated on
   blocks of a message, a carry and a padding bit;
4. the **collections** that all of this is built from, as far as they use unsafe
   code or keep state of their own.

## 1. Inventory

### Components, their state and how they interact

| component | source | state | operations |
|---|---|---|---|
| DOp instruction set | `zhc_langs/src/doplang/` | none; the interpreter's registers and memories | operands with masked comparison, lane (`affinity`), flush kind, sources and destination; `read_ct`, `write_ct`, `interpret` |
| Instruction scheduler (ISC) | `zhc_sim/src/hpu/isc.rs` | front buffer, pool of slots with three lock sets each, lane trackers, two unlock buffers, two counters | one event handler: push, three unlocks, lane (un)available, query, retire |
| ALU, memory element | `pe_alu.rs`, `pe_mem.rs` | a FIFO, the current DOp | issue, launch, land |
| Control element | `pe_ctl.rs` | none | issue |
| PBS element | `pe_pbs.rs` | a FIFO, a memory cut by four boundaries, a timeout flag | issue, launch/land load, timeout, launch/land processing, launch/land unload |
| Retirement | `retirement.rs` | list of retired DOps | retire |
| Event queue | `zhc_sim/src/simulator/dispatch.rs`, `trigger.rs`, `traits.rs` | current cycle, binary heap of triggers | dispatch (deduplicated within a cycle), dispatch if not there, advance, pop |
| Simulation loop | `simulator.rs` | none of its own | `step_cond`, `play_until_event` |
| IR core | `zhc_ir/src/ir.rs`, `op_ref.rs`, `val_ref.rs` | operations, values, use lists, active flags, depths | add, replace a value's uses, delete, delete a batch, walks |
| IR passes | `zhc_ir/src/dce.rs`, `cse.rs` | work list, value numbering | dead code, common subexpressions |
| Ioplang passes | `zhc_langs/src/ioplang/*.rs` | a map of replacements | alias elimination, store/load forwarding, redundant stores |
| Lowering | `zhc_pipeline/src/translation.rs` | positions found by two walks | `lower_iop_to_hpu` |
| Batcher | `zhc_pipeline/src/batcher.rs` | readiness states, work list, batches | forward and backward extraction, choice between them, rewriting |
| Batch scheduler | `zhc_pipeline/src/batch_scheduler.rs` | readiness states, busy lanes, retire events | list scheduling by height, replay |
| Register allocator | `zhc_pipeline/src/allocator/` | live ranges, register file, value states, spill heap | unspill sources, retire, find destination ranges, evict, stabilise, translate |
| Encoding | `zhc_pipeline/src/translation_table.rs` | none | one word per DOp |
| Circuit builder | `zhc_builder/src/builder/` | an IR, the values handed out | inputs, splits, joins, outputs, inspections, block and vector operations, `optimize_ir` |
| Integer operations | `zhc_builder/src/iops/` | none | additions, subtractions, multiplication, division, counts, comparisons, selections, bitwise |
| Integer semantics | `zhc_crypto/src/integer_semantics/` | none | block arithmetic with its assertions, lookup tables |
| Collections, iterators | `zhc_utils/src/fifo.rs`, `small/`, `iter/` | buffers of uninitialised slots, look-ahead | push, pop, remove, append, drain, convert, insert, look up; `next` |
| Configuration, tracing, visualisation, formatting, benchmarks, macros | | | see section 7 |

Everything in the repository is single threaded. In the simulator components
never call each other: a handler dispatches events, the loop pops the events of
the current cycle one by one and gives each to every component in turn
(`Hpu::handle`, `hpu/mod.rs`). The concurrency is that of the simulated
hardware: events of one cycle come in an arbitrary order, and latencies decide
which activities overlap. The life of a DOp is:

    IscPushDOps -> front buffer -(query: refill)-> pool, Pending
      -(query: issue)-> IscIssueDOp -> queue of its lane; IscUnlockIssue -> Issued
      -> operands read: IscUnlockRead, buffered -(query)-> Loaded
      -> result written: IscUnlockWrite, buffered -(query)-> Finished, retired

In the compiler each pass takes the program of the one before it:

    Builder calls -> ioplang IR -(six passes of optimize_ir)-> ioplang IR
      -(lower_iop_to_hpu)-> hpulang -(batch)-> -(schedule)-> -(allocate)-> DOps -> words

### What is hard, and what correctness means

* **Out-of-order issue.** A DOp may be issued before earlier ones. The ISC must
  never let it read or write a register too early; its locks are computed once,
  at refill, from the state of the pool at that moment. Correct: no data hazard,
  hence the results of sequential execution; no lock that is never released.
* **Order of PBSes.** A batch is launched when its flush is loaded, so a flush
  must not overtake the PBSes of its batch. A batch that is one flush may overtake
  an earlier flush (section 4).
* **Ordering within a cycle.** `Trigger` is ordered by cycle only. No handler
  may depend on the order of the events of one cycle: its assertions must hold
  whenever its event comes up.
* **Bounded resources.** The pool, the three queues and the PBS memory are
  bounded; fullness is announced by events that arrive later than the fact.
* **Timeout.** A PBS that no flush follows is started by a timeout, which is
  never removed from the queue once armed but only disarmed by a flag.
* **Liveness.** The scheduler sleeps unless a query is pending; each event that
  changes something must arm one. The loop panics if the queue runs empty.
* **Mutable graphs.** Use lists, arguments, activity flags and depths of the IR
  are redundant and kept in step by hand; depths are maintained through deleted
  users and cut short the test that keeps the graph acyclic.
* **Replacements collected on one graph, made on another.** Every pass analyses
  the graph as it stands and then applies its replacements one after the other.
  Correct: no assertion of a mutator fails, and the outputs keep their meaning.
* **Allocation.** Spills, unspills and the reuse of retiring registers happen
  within one operation; a batch must not overwrite what
  another of its members still reads. Correct: every emitted word reads, in the
  registers it names, the values of the program.
* **Carries.** Every circuit packs messages, carries and booleans into blocks
  with one padding bit, with limits fixed by hand and chains that cross groups,
  stages and rounds.
* **Unsafe code.** A ring buffer, a stack vector and their iterators move
  elements by copying bits; only the lengths say who owns what.

The `hazards` of `PROJECT.json` list these at their source lines, with the
properties that would catch each.

## 2. Modules

    Dop --- Program --+-- Dataflow --- DataflowValues --- DataflowProofs
                      +-- Isc ------------------------- IscProofs
                      |    |  (Isc implements Dataflow)
                      |    +--------------+
    Dispatcher --+-- PeLanes -------------+-- Hpu -- HpuProofs
                 +-- PePbs (and Program) -+

    HpuProgram --+-- Batcher ---------+
                 +-- BatchScheduler --+-- Compile
    Words -------+-- RegAlloc --------+

    RegAlloc -- RegAllocProofs -- SchedulerProofs -- CompileProofs
                                  (and BatchScheduler)  (and Compile)

    IrGraph -- Ir -- IrPasses --+-- IrProofs
                                +-- IopPasses -- IopPipeline

    Blocks -- Builder --+-- Additions --+-- Products -- IntegerOps
                        +-- Counting ---+

    Fifo -(implements)-> BoundedQueue      SmallCollections      Iterators

The modules `MC...` and `Streams` instantiate these for TLC. `MCIsc` holds the
scheduler and the dataflow with values, `MCDataStructures` the IR with its passes,
the ring, the small collections and the iterators: components that share nothing,
of which one is chosen in the initial state (`subject`). The others are one
composition each (`MCHpu`, `MCCompile`, `MCIopPipeline`, `MCIntegerOps`).

### The simulated HPU

* **Dop.** An instruction is an opcode, at most one destination and a set of
  ciphertext sources; an operand is a file, an address and a width. The masks
  of the code clear the low bits of a register number; agreeing on the
  bits kept by two masks is agreeing on the block number at the wider width,
  which is how `Same` (`Argument::eq`) is written. Symbolic variables, which
  are compared by two numbers in the code, carry one address here. Immediates
  and LUT names are left out: the simulator never compares them.
* **Program.** The stream, chosen once from the constant `Programs`. A DOp is
  its position in the stream: ids are unique and increase with it, and the pool
  is a vector pushed at its end, so "first in the pool" is "smallest id". The
  relations `ReadAfterWrite`, `WriteAfterRead`, `WriteAfterWrite` and `Barrier`
  say what the order of the stream means.
* **Isc.** The scheduler without time. `pool` maps the ids in the pool to their
  slots; the front buffer is the interval `refilled + 1 .. pushed`. One action
  per event; `IscQuery` is one action per branch of the handler, each guarded
  by the negation of the branches before it. `write_unlock` and `retire` happen
  in one branch and are one action, so the state `Finished` is never visible.
  Three history variables record which DOps were issued and which messages
  came. `IscNext` lets any legal processing element send any message at any
  time: a message about an issued DOp, once, read before write.
* **Dispatcher.** The event queue as a set of triggers: dispatch is union (which
  is what discarding an equal trigger of the same cycle means),
  `AfterIfNotThere` looks at events whatever their cycle, and any trigger of
  the current cycle may be popped. Notifications that no component handles
  (`NotifyIsc`, `NotifyStartOnTimeout`, `IscRefillDOp`) are left out.
* **PeLanes**, **PePbs.** The processing elements, one action per event. The
  assertions of a handler are named operators (`LaneIssueAsserts`, ...): an
  action is enabled only when they hold, and the invariant `NoPanic` of Hpu
  says that they hold whenever the event is due.
* **Hpu.** The composition: for each event, the components that react to it;
  the re-arming of the query; the loop of `play_until_event(IscProcessOver)`,
  with the outcome of `step_cond` in `outcome`.
* **Dataflow.** The abstract specification of out-of-order execution: an
  instruction fetches when everything that writes its sources has stored, and
  stores when everything that must access its destination has done so.
* **DataflowValues.** Dataflow with a memory that records who wrote each
  register and who read what, to say that the outcome is that of sequential
  execution. Registers are counted one by one, so that a PBS with several
  outputs writes a block.

Two refinements connect the levels. `HpuSpec => IscSpec` (run `hpu`, theorem
`HpuImplementsIsc`): the processing elements and the event queue are a legal
environment of the scheduler. `IscSpec => FollowsDataflow` (run `isc`, theorem
`IscImplementsDataflow`): the scheduler executes the stream in dataflow order.
With the theorems on DataflowValues, an execution of the simulated HPU has
the meaning of sequential execution.

### The compiler

* **HpuProgram.** A program of hpulang as a sequence of operations; a value is
  an operation and a result number. A batch carries its members. `WellFormed`
  says which programs the batcher hands on: nothing is read before it is
  defined, arities are those of the instructions, a member of a batch writes one
  or two results of its own.
* **Batcher.** The two walks over the graph, one action per operation visited
  (`Visit`) and per batch closed (`CloseBatch`), the choice of the walk with
  fewer batches, and the translation, one operation at a time, into the program
  where a batch stands in the place of the first of its members. Translating an
  operation whose operands have no translation yet is the panic of the code.
  `IsSource` says which programs the lowering hands on.
* **BatchScheduler.** List scheduling on three lanes: `RetireOp` is one turn of
  the event loop. `Reschedule` replays the order into a new program.
  `ScheduleSpec` is the scheduler by itself, on any well-formed program.
* **RegAlloc.** The allocator's loop body cut at the places where it picks a
  register: bring back a source (`UnspillSource`, `EvictForSource`), retire
  (`RetireRegisters`), acquire a range for the results (`Acquire`,
  `EvictForResults`), clear the victims one by one (`Evict`), settle
  (`Stabilize`). The actions of phase "emit" run the words the translator and
  the encoder produce on a register file and a memory whose contents are values
  of the program; this is the interpreter of doplang with names for ciphertexts.
  A panic of the code is an action whose guard fails; `CanGoOn` says that none
  does. Registers are at most the 128 that a field names, in whole pairs
  (`NRegsAssumption`); the heap has `HeapSlots` slots, after which the counter of
  `heap.rs` overflows and panics.
* **Words.** The fields of a word, the encoding of a DOp, and which registers and
  places in memory a word reads and writes. Lookups with two results write a
  pair of registers from the aligned base.
* **Compile.** The three passes in sequence, and what the result must mean.
* **IrGraph**, **Ir.** The intermediate representation as a value, with the
  public mutators as operators (`MayAddOp` / `AddOp`, `MayReplace` /
  `ReplaceValUse`, `MayDelete` / `DeleteOp`, `BatchDelete`); `Ir` applies them in
  any legal order. Deleted operations stay in the stores and in the use lists,
  as in the code. The tables of instructions and types are parameters.
* **IrPasses.** Dead code elimination and value numbering, each one action that
  runs to its end, with the assertions of every edit it makes (`DceAsserts`,
  `CseAsserts`), and that of the walk over the effects, which meets deleted ones
  too (`EffectsActive`).
* **IopPasses.** The instructions circuits are made of; the three passes of
  ioplang and the reference interpretation of a circuit as symbolic terms.
* **IopPipeline.** The translation to hpulang and the run of its result; the
  Builder's calls, one action per function, then the passes of `optimize_ir` in
  their order, then the lowering. A circuit is `Plain` when it has one output and stores no block as it was taken from
  another joined integer; on these no pass may panic.

### The arithmetic

* **Blocks.** A block is the natural number it stores. Every operation
  asserts the part of the block its operands and result may use; a failed
  assertion gives `Panic`, which fails every later operation. A table is a
  function on the data bits.
* **Builder**, **Additions**, **Counting**, **Products**, **IntegerOps.** The
  circuits as functions from sequences of blocks to sequences of blocks, with
  the loops of the code as recursive operators where a round depends on the
  last. `IntegerOps` chooses operands and evaluates one circuit on them. TLC
  compares with the integers the blocks stand for.

### The collections

* **BoundedQueue** and **Fifo.** What the fixed-capacity queue promises, and the
  ring of uninitialised slots that implements it. `Fifo` includes the proof.
* **SmallCollections.** VArray and StackVec with their raw moves, SmallVec,
  SmallMap and SmallSet with their move to the heap, and the iterator that takes
  the elements of a buffer. A moved element stays in its slot, as bits do; what
  is checked is that each element is dropped once.
* **Iterators.** Chunks, sliding windows, the mapper with special ends,
  separators, interleaving, deduplication, zipping: one action per call of
  `next`.

An operator that stands just before a definition and has its name with a suffix
(`ReadLockOnLoaded` before `ReadLock`) is a mutant: the definition as a
plausible bug would leave it. It is used by no specification; it is there to
show that the property named in `PROJECT.json` can tell the difference.

## 3. Runs

| run | question | result |
|---|---|---|
| `isc` | Whatever the elements do, does the scheduler keep hazards, flush order and lock discipline, and follow the dataflow? Does dataflow order give the values of sequential execution, with overlapping register blocks? | holds |
| `hpu` | No panic, no early stall, sound completion, no lost or duplicated DOp, statuses and timeout flag that say what the queues hold, batches that one flush closes, a legal environment for the scheduler, completion of every stream with and without flushes | holds |
| `isc_overtaking` | Does the issue lock order the batches of PBSes? | no: one flush passes another |
| `hpu_stale_timeout` | Is a timeout event always expected? | no: panic |
| `data_structures` | Do the mutators of the IR keep use lists, activity and depths, are the two passes sound and complete, and do they panic only at a deleted effect? Ring buffer, small collections and adapters against what they stand for | holds |
| `iterators_mapped` | Does `map_rest` with `map_last` map an input that has just enough elements? | no: it ends after one |
| `compile` | From hpulang to words: does no pass panic, can batches run, is the schedule complete, does every word read the right values and every destination get its block? | holds |
| `compile_plaintexts` | Can a program with a plaintext input be allocated? | no: panic |
| `arith` | Does every circuit compute its operation, without a block running into its padding? | holds |
| `arith_compare` | Does every comparison return its boolean? | no: panic |
| `iop` | Do the passes and the lowering keep what outputs receive, and is every panic one of the two known kinds? | holds |
| `iop_unchanged` | Does the lowered program write an output that is an input? | no: it writes nothing |

Properties worth a sentence:

* `IscInv` is the inductive invariant of the proofs, checked on every reachable
  state of `isc`.
* `ShortOnlyIfBlocked`: a batch is smaller than the limit only if nothing else
  was ready. `BatchesRunnable`: batches and single operations have an order in
  which everything is computed before it is read.
* `CompiledImplements`: the allocated program contains every operation of the
  source once, on the operands it has in the source, and the words, run to the
  end, have left at every destination, and nowhere else, the value stored there.
  `ReadsRight` is the same of every operand on the way, and `LiveValuesKept` says
  that between operations the value map is the inverse of the register file
  and tells where each live value really is.
* `FlushOrder` is the order the lock does keep: a flush after the rest of its
  batch, and a PBS that is no flush after every earlier flush.
* `BatchIntegrity` compares what the PBS element works on with the batches of the
  stream: the last to arrive is the only flush, and nothing of its batch is still
  to come. It does not say that batches are processed one by one: when a flush that
  is a batch by itself overtakes another, what waited for the other is processed
  with it, in the order of arrival. The streams of `isc_overtaking` are among
  those of `hpu`.
* `PanicsAtDeletedEffects`: both passes panic if an effect has been deleted, and
  never otherwise. The histories include deletions of effects.
* `PruneSound`: whenever the walk of `reaches` is cut short by a depth, the
  full walk would not have found the operation.
* `MeaningKept`, `OutputsKept`, `LoweredRight` compare the symbolic terms that
  effects, outputs and destinations receive before and after a pass. `LoweredRight`
  demands every block of the outputs that a store has made, and that whatever else
  is written is a block of an output, with the right value; `OutputsDelivered`
  demands every block of every output.
* `PanicsExplained`: a plain circuit meets no panic; any other panics at one of
  two places only, at an integer still used twice when redundant stores are
  skipped, or in the lowering.
* `SelectionsRight` covers bitwise operations, selections, and the comparisons
  whose subtraction does not underflow; the others are `ComparesRight`.
* `IteratorsRight` compares each adapter with a definition of what its documentation
  says. `map_rest` with `map_last` on the inputs where the two differ is the subject
  of `MappedAsDocumented`.
* `CollectionsSound` is agreement with a sequence, or a map, kept beside the
  collection, and that every element ever made is held or dropped exactly once.

### Bounds

* `isc`: for the scheduler, ten streams of three or four DOps and a pool of 3 slots,
  so that a stream of four refills while others are issued. Among them are every
  kind of dependency, a register block, both control instructions, batches whose
  flush or member waits for a load, and a flush right behind one that waits.
  Messages are unconstrained by latency, so every interleaving of up to three DOps
  in flight occurs. For the values, all 7^4 streams of four DOps: a read that can
  see a wrong value involves a reader, two writers and at most one DOp between them.
* `hpu`: all streams of four DOps over seven instructions that a compiler can
  emit (a batch is contiguous, closed by its only flush, and no PBS reads the
  result of the one before it in its batch), and one of six that fills the ALU
  queue; every stream of five over a PBS-heavy alphabet; six of six or
  seven DOps, four of them with up to three batches of up to three PBSes, two with
  control and memory DOps between the batches; two streams in which a flush can
  overtake another; three streams without any flush, which wait for the timeout.
  A pool of four slots, queues of two places, a PBS memory of four and a maximal
  batch of three let every queue and the memory fill up, and loading,
  processing and unloading go on at once.
  Latencies are small and distinct enough that events of different elements
  meet in one cycle; the timeout is longer than a batch takes to gather, as the
  test suite of the repository sets it (100 000 cycles).
* `data_structures`: every history of at most four additions to the IR (two inputs,
  one effect), with replacements, deletions and passes in between: enough for two
  paths of different length to one operation, and for duplicates of duplicates. A
  ring of four slots and every sequence of operations; buffers of two and three
  elements, at most four elements ever made and three keys, so that every
  collection moves to the heap and is emptied again; iterators of up to eight
  elements with adapter sizes up to three.
* `compile`: every program of two loads, or a load and a constant, three
  operations and a store for every value left over, 2100 with four longer ones
  for the cases these are too short for (spills of several values, batches cut
  differently by the two walks, carry chains). Batches of at most two PBSes and
  four registers, so that batches fill up and values are spilled.
* `arith`: blocks of two message and two carry bits, the ones all circuits are
  written for. All pairs of integers of up to three digits; beyond that, runs of
  zeros or threes broken at one digit, of the lengths at which a circuit changes:
  one group of four digits of the Hillis-Steele adder, two groups, a second
  stage, the cut of the Kogge-Stone adder at 9 and 14 digits, the second merging
  round of the overflow flags at 5, the levels of the bit search at 20, 34, 44.
* `iop`: seven budgets of Builder calls on integers of two blocks; a circuit is
  compiled when its budget is spent. One addition of ciphertexts, one of a
  plaintext and one lookup with two results stand for all arithmetic, which the
  passes treat alike.
The streams, programs and inputs of the violations are those of the findings, most
of them two to four operations long; `iterators_mapped` has the iterators of
`data_structures`.

### Assumptions

* The operands of a lane are read strictly before its result is written
  (`ReadLatency < WriteLatency`, in `LaneAssumption`), as `HpuConfig::from` computes
  them: the write latency is the read latency plus one (`config/mod.rs:189-193`). With equal
  latencies the two unlocks come in one cycle in either order; the buffers and
  the priority of read unlocks in a query usually hide it, but nothing asserts
  it.
* All DOps are pushed in one event at cycle 0, as `compute_latency` and the
  tests do.
* Any order of the events of a cycle is considered. A `BinaryHeap` realises
  only some of them. What holds in the model holds of the code; a violation may
  need an order that the heap does not produce. The stream of
  `hpu_stale_timeout` has been replayed on the exact heap discipline and fails
  there too.
* `CompilerNeverPanics` is about programs that fit the register file (`Fits`: a
  register, or an aligned range, for every source and every result of one
  operation, wherever the others lie) and are `Regular`: nothing is read twice by
  one operation, every result is used, there is no plaintext input. Section 4
  says what happens otherwise.
* Ties of a maximum over registers are broken as `max_by_key` does, for the last
  of equals.

### Fairness and deadlock

`FairHpuSpec` requires weak fairness of the simulation loop as a whole,
`WF_vars(PopAndHandle \/ EndCycle)`: `play_until_event` is a `loop` whose every
turn takes a step. No fairness is assumed of a particular event: within a
cycle the choice is arbitrary, and a cycle ends only when it is empty. A
handler that would panic is a disabled action, so a panic shows up as a failed
`NoPanic` or as a stream that does not complete.

`CHECK_DEADLOCK FALSE` is set where the system really stops: a stream whose
DOps have all been issued and retired, or fetched and stored (`isc`), a program that is compiled or
on which a pass has panicked (`compile`, `iop`, `iop_unchanged`), a circuit that has been
evaluated (`arith`), histories that have used up their additions or elements
(`data_structures`, `iterators_mapped`). That a pass stops only where it is done is stated by
`ScheduleComplete` and `CompilerNeverPanics`. The HPU model stutters explicitly
once the loop has returned (`Stopped`), so that any other deadlock is reported.

## 4. What the violations mean, and other observations

The six violations:

1. **A stale timeout panics** (`pe_pbs.rs:425-443`). Launching a batch "dearms"
   the timeout by clearing a flag; the event stays in the queue. A PBS issued
   later sets the flag again, and the old event then fires on a PBS that is
   still loading. The tests raise the timeout to 100 000 cycles, which makes that
   rare. A stale timeout that comes while some PBSes of a batch wait launches
   them without the others, which is why `hpu` has a timeout that no batch
   with a flush reaches.
2. **Plaintext inputs cannot be allocated** (`allocator.rs:291`). The result of an
   immediate load has no register and is asked for one.
3. **Comparisons underflow** (`cmp.rs:257`). The packed digits are subtracted with
   the protected subtraction, which panics when the left one is smaller. Where
   none is, and the number of packed digits is not a power of two, the last
   result is reduced without a partner and equal integers compare as different.
4. **Flushes overtake each other** (`isc.rs:86-106`). The comment says of the issue
   lock that it "induces a total order on the pbses" (`isc.rs:88`). Only PBSes of
   opposite flush kinds are ordered. In ADD, PBS, PBS_F of the sum, PBS_F the second
   flush is issued while the first waits, and closes a batch in which the PBS of the
   first is processed too. Dependencies and results are not affected.
5. **An output that is an input is lost** (`translation.rs:373-375`). Outputs are
   written by the stores that joined their blocks. An input that is output
   unchanged, as in the examples of `builder.rs:270-276` and `680-685`, has none: the
   circuit is lowered without complaint to a program that writes nothing there.
6. **`map_rest` with `map_last` ends one element early** (`few_mapped.rs:440-453`). It
   is documented to map the k last elements by the `map_last`s and those before by
   `map_rest` (`few_mapped.rs:237-240`, `275-278`) if there is an element for
   each mapper (47-49). It looks for one element more, and yields one element
   of k + 1; it prints no warning. With `map_first` it needs k + 1 elements
   after the firsts: one for each mapper.

Met while modelling, and kept out of the runs:

* **A timeout is lost** (`pe_pbs.rs:488-490`). Landing a batch when nothing waits
  clears the flag although a PBS may be loading; landing a load arms no timeout.
  Unless another DOp follows, that PBS is never processed and the loop panics on
  an empty queue. The stream is a flush, an addition and a PBS without flush, with
  processing slow enough that the PBS loads meanwhile.
* **A lane tracker gets stuck** (`pe_alu.rs:74-81`) when an issue fills the queue of
  a lane in the cycle in which the lane lands: `Unavailable` and `Available` of
  one cycle may be handled in the wrong order. With queues of one place every
  issue fills the queue; with longer ones the order in which the heap yields the
  events of a cycle has not been seen to do it. The configurations have queues of
  eight. It is the second reason of `StallExplained`, a lost timeout the third.
* **Dead code elimination** (`dce.rs:41`) visits every operation with an effect,
  deleted ones included, and panics on an IR from which one was deleted, in common
  subexpression elimination too, which ends with it. No pass of the
  repository deletes an effect; `delete_op` is public. `PanicsAtDeletedEffects`
  says that this is their only panic.
* **Lowering** (`translation.rs`) asserts more than the Builder promises. Two outputs that share
  their low blocks have the integers they are stored into merged, and the
  assertion that a store has one user fails (`translation.rs`). An integer output
  twice, or a block that goes through two joins and splits, fails an assertion of
  `skip_redundant_stores.rs` or a branch of the lowering. Tables
  not among the built-in ones all get the identifier of the same table.
* **Allocation.** A result of a two-result lookup that is never used may be
  evicted before its range ends, and then has no register to retire. An operation
  that reads one spilled value twice unspills it twice, the second time from a
  state that is unreachable by assertion. Registers can be free without a free
  aligned range; `Fits` is the bound under which one can always be cleared.
* **Words.** A variable and its block share sixteen bits, eight for the block;
  plaintext variables with an id above seven do not fit the eleven bits of an
  immediate, and lose their high bits in a build without assertions.
* **Emulated arithmetic.** `EmulatedCiphertext::overflow_mul_lsb` (`ops.rs:441`)
  shifts by the mask where the size is meant, and the test
  `correctness_overflow_mul_lsb` (`mul.rs:266`) builds `mul_lsb`, so that the
  overflow flag is not tested; `ProductsRight` covers it. Division by zero and the
  logarithm of zero have no specified result; they do not panic.
  `CiphertextSpec::new` documents a panic (`spec.rs:56`) that it does not have.
* **Collections.** `SmallVec::with_capacity(0)` and collecting an empty iterator
  panic for elements of more than 64 bytes, and so does `SmallMap::new`. A slide
  that is abandoned does not drop the window it holds. The counts in the
  documentation of `slide` (`window.rs:242-246`) do not fit iterators shorter than
  the window; the sizes do, and those are checked.
  `separate` with a separator iterator that ends early returns `None` in the
  middle. `StackVec::clear` drops twice if the drop of an element panics.

## 5. Proofs

TLAPS proves the following for every value of the constants.

* **IscProofs** (`IscSpec`, any streams, any `IscDepth` > 0):
  `IscTypeCorrect`, `IscLockInvariant`, `IscHazardFree`, `IscFlushOrder`,
  `IscNoDanglingLock`, `IscImplementsDataflow`.

  `HazardFree` is not inductive: that an issued DOp meets no hazard depends on
  why its locks were empty. The inductive invariant `SchedulerInv` consists of
  the types and of
  - `HistoryInv`: what the state of a slot and the buffers say about the
    messages that came. A slot that was not issued is `Pending`, one that is
    `Loaded` had its read message, buffered unlocks name DOps whose message
    came, a retired DOp had both;
  - `LockInv`: a conflict between two slots that is not yet settled is held by
    a lock of the later one. It is established at refill, where the new slot
    is later than all others, and kept because a lock is removed only by the
    step that settles its conflict;
  - `IssuedUnlocked`: an issued slot holds no read or write lock. `QueryIssue`
    demands it and locks never grow;
  - `NoDanglingLock` and `FlushOrder`, inductive given the rest.

  Each part has a lemma about one step. They use four lemmas that say what each
  operation does to the slots, so that the case analysis is over six kinds of
  steps rather than eleven actions. The refinement then needs only that a DOp
  that has left the pool had all its messages: a DOp whose read message arrives
  has no lock, so everything before it that writes its sources is gone.

* **HpuProofs** (`HpuSpec`: any stream, latency, capacity, query
  period and batch size, and any order of the events of a cycle): `HpuInvariant`,
  `HpuTypeCorrect`, `HpuImplementsIsc`, `HpuHazardFree`, `HpuConservation`,
  `HpuStatusRight`, `HpuCompletionSound`, `HpuNoOtherPanic`, `HpuStallsExplained`.

  The difficulty is that a handler trusts what other components did several
  events ago, in whatever order the events of one cycle came. The inductive
  invariant `HpuInv` (at the end of `Hpu.tla`) ties what components note to the
  events that are still to come:
  - `HpuTypeOK` and `Once`: an event is well formed and never in the past, the
    events of `NowTypes` are due in the cycle that schedules them, and none but
    `PePbsTimeout` is pending twice, so that popping one leaves no copy;
  - `IssueInv`: at most one issue is under way, and no query is due before it is
    acknowledged. A query rearms for a later cycle, which is what makes the
    unlocks of the scheduler find a slot that is no longer `Pending`;
  - `PlaceInv`: where each DOp is, and which messages about it can exist while
    it is there. `Conservation` is a weakening of it;
  - `ReadInv`: a result is written after the operands are read. For the lanes
    this is the order of two latencies, for the PBS element the order of the
    memory (`MemoryRead`: what is parked has been read, what is loading has
    not), for the control element that both come before the next query;
  - `BufferInv`: a read unlock is buffered exactly while its slot is not marked;
  - `LaneInv`: a busy lane has its landing to come, and an idle one with work the
    launch, in this cycle;
  - `AvailableInv`: a full lane is marked unavailable or will be before the next
    query, with no `PeAvailable` behind it that would undo it; a lane to which a
    DOp is on its way has room;
  - `PbsInv`: the four boundaries of the memory are in order, each area that is at
    work has the event that ends it, with the size of the batch or the DOp it is
    about, a timer that is noted as running has its event, and no timer runs
    beside a batch;
  - `RetireInv`: what has retired, once each, and when the process is over;
  - `IscInv`, the invariant of the scheduler, which is kept because every step is
    a step of `IscNext` or none (`IscStep`).

  The module shows what every handler does to the pending events (`PopStep`) and
  leaves alone (`Untouched`), and has a lemma for each part and kind of event
  that can disturb it. With `HpuImplementsIsc` the theorems about the
  scheduler hold of the composed system: `HpuHazardFree` says so.

  `HpuNoOtherPanic` is the part of `NoPanic` that does not depend on latencies.
  Three assertions do, and `NoPanic` is false for some values of the constants:
  `PePbsTimeout` finds a DOp still loading when the timer is one that was disarmed
  (section 4); `PePbsLaunchProcessing` finds a batch at work when a load and a
  timer ask for it in one cycle; `PePbsLaunchUnloadMemory` finds an unload under
  way when a batch lands before the last result of the one before has left.

  `HpuStallsExplained` is `NeverStalls` with its exceptions. The queue of events
  runs empty before the program is over for one of three reasons
  (`StallExplained`): the program is empty, so that nothing retires; a lane is
  marked unavailable and has room (section 4); or PBSes wait for the rest of a
  batch and no timeout is running. It needs a second invariant, `ProgressInv`,
  which says of what there is to do that an event is pending for it: `QueryComes`,
  a query unless the scheduler has nothing to do; `PbsComes`, the launch of a batch
  that is complete, the load of a PBS that finds room, the unload of a result;
  `RetireComes`, the next refill, the retirement of what has left the pool, the end
  of the process when all has retired. At a stall nothing is pending: lanes
  are idle, and the PBS memory is empty unless the third reason holds; what was
  issued has left the pool, and its least slot, which by `NoDanglingLock` has
  no lock, can be issued unless its lane is not available, the second reason.

* **DataflowProofs** (any stream):
  `SameMeansOverlap`: the masked comparison is true exactly when the blocks
  of registers overlap, at every address, so that comparing operands is enough
  to find every conflict between registers.
  `OperandsAreSequential`, `ResultIsSequential`: by an invariant that says that
  the fetched and stored DOps respect the three dependencies (`OrderInv`) and
  that each register holds the largest of the stored DOps that write it
  (`MemoryInv`).

* **IrProofs** (`IrPassesSpec`: any instruction set, any history of edits and
  passes; `IrSpec` is the part of it without passes): `UseDefExact`,
  `NothingDeadUsed`, `DepthsAlwaysExact`, `PruneAlwaysSound`, `PassesPanicAtDeletedEffects`,
  `MeaningAlwaysKept`, `NothingDuplicated`.

  All follow from `PassesInvariant`. The inductive invariant `PassInv` is made of
  `GraphOK`, `DepthsOK` and `SignedOK`, the last one saying that every operation has
  the results of its signature. `GraphOK` has four
  parts: `StoresOK` (types), `LinksOK` (arguments exist, a value and its producer
  name each other), `UsesOK` (a use list holds exactly the positions where the
  value stands, those in deleted operations included) and `LiveOK` (results
  share the fate of their operation, nothing active takes something deleted).
  None of `UseDef` and `NoDeadUse` is inductive alone: that a deletion leaves
  no active user follows from the use lists being exact, and that a replacement
  finds all its positions from links that survive deletions. One lemma per
  mutator; `DepthsIrrelevant` says that depths may change freely.

  `DepthsOK` says that no depth is
  wrong (`Wrong`, the operations whose depth is not one more than
  their deepest predecessor's, is empty). Exact depths rule out a cycle, so the
  invariant says that too. A replacement breaks both for a moment:
  - that it makes no cycle needs the check in `MayReplace`. After it, the old
    depths still rank the graph once everything that does not reach the new
    producer is lifted above it (`ReplaceRanks`);
  - that the update repairs every depth is an induction on such a rank, from the
    last operations to the first: a call for some operations ends with each of
    them right and with no operation wrong that was not wrong before (`Settles`,
    `SettlesOver`, `AllSettle`). A depth that changes makes only its direct users
    wrong (`WrongAfter`), and these are visited next. The update visits an
    operation once for each path, so counting visits would not do;
  - that the recursion is a function at all, `update` being defined by itself,
    is a least fixed point of the calls that end (`FixedPoint`, `UpdateFollows`).

  The walk by depth has each operation at the place that the number of operations
  before it says (`WalkSorted`). The search of `PruneSound` by its definition is
  complete after as many steps as there are operations, because one that is not
  complete has found as many as it made steps (`ClosureClosed`), and a step
  leads to a greater depth, so that stopping at the depth of the goal loses
  nothing (`ReachesFound`).

  The passes are sequences of edits, and what is to be shown of each edit is that
  it is legal when its turn comes and that nothing but arguments (`Swapped`) or
  activity (`Fewer`) has changed since the pass began:
  - a batch of operations that holds all its users goes deepest first, so an
    operation has lost them when it goes (`BatchDeleted`). The
    worklist of dead code elimination ends with the effects and what they need, no
    more and no less, because a round that adds nothing is the last (`LiveIs`);
  - value numbering keeps three things along the walk (`NumberingOK`):
    each visited operation has a representative, the first of its kind, and its
    results are numbered by those of the representative; the table holds the
    expressions of what was visited; each pair to be replaced is there. A visit keeps them (`VisitKeeps`),
    and the walk sees the arguments of an operation before it (`Numbered`);
  - a representative is not deeper than what it stands for, so the depths of the
    graph *before* the pass rank every graph on the way (`SwappedRanked`), though
    its own depths change with every replacement. A path would have
    to climb in that rank (`ReachesRank`), so none closes a cycle (`ReplaceStep`,
    `AllReplaced`);
  - values with one number have one term (`NumbersSound`), and values with one term
    have one number (`NumbersComplete`), both by induction on depth. For commutative
    instructions arguments are compared by how often each stands there;
    that they are then equal but for their order (`PermutationOf`) lets one
    comparison stand for the other (`NormalCarries`). What survives the last
    elimination is its own representative, because something live takes it
    as an argument and every argument is one (`LeftIsFirst`).

  That the recursive functions of the model (`Deletions`, `Live`, `Numberings`,
  `Replacing`, `Terms`) satisfy their equations is shown for each one by
  extending a function defined up to n by one more value (`DeletionsAre`,
  `WithinIs`, `NumberingsAre`, `ReplacingAre`, `TermsAre`).

* **Fifo** (any capacity, zero included, and any set of elements): `RingCorrect`
  from `RingSound`: exactly the `len` slots from `ptr` on, wrapped around, hold an
  element. `FifoIsQueue`: the ring implements `BoundedQueue` when the queue is
  read off the ring slot by slot (`Elements`). The arithmetic is confined to the
  lemmas `NoWrap`, `OneWrap`, `Wrap` and `SlotsDistinct`: within the capacity a
  distance wraps around at most once, and different distances are different slots.

* **RegAllocProofs** (`AllocateSpec`: any well-formed program, any register file of
  at most 128 registers in whole pairs): `AllocatorInvariant`,
  `AllocatorKeepsLiveValues`, `AllocatorReadsRight`, `AllocatorDelivers`,
  `AllocatorGoesOn`.

  `LiveValuesKept` speaks of the moments between operations, when register file
  and value map are in order; what makes it true happens in between. While one
  operation is allocated its spills and unspills are noted and not yet run, its
  sources give up their registers to its results, and the machine still has the
  values of before. The inductive invariant `RegInv` says what holds at every
  step of the loop body:
  - `MapsAgree`: map and register file are each other's inverse, where a register
    that changes hands (`Transitioning`) belongs to its old and its new value;
  - `Ages`: what a register holds was defined before the current operation, or by
    it if it is fresh, and what retires or has retired is not read any more. This
    is why a register that may be taken over is not needed;
  - `Stages`: which states of a register occur in which phase; in particular no
    register changes hands under a batch, whose members run one after the other;
  - `ResultsPlaced`: the results of a part are in consecutive registers from a
    base that is a multiple of their number, which is what the machine makes of
    the one register a word names;
  - `SpillsRight`, `UnspillsRight`: a pending spill still finds its value in its
    register, a slot without one holds its value, and a pending unspill brings
    back what its register is to hold;
  - `FileRight`, `DeliveredRight`: the registers and the destinations hold at run
    time what they should, except where an unspill or a result is yet to come.

  Under it are lemmas about the encoding (`StoreWord`, `LoadWord`, `AddWord`,
  `AddsWord`, `LookupWord`: the registers and places that an encoded word names
  are those of the DOp, and the base of a lookup survives the division of
  `WriteBase` because it is aligned), about the slots of ciphertext blocks
  (`PlacesDiffer`: two stores never share one), and about `Ascending` (it lists a
  finite set, each element once). There is one lemma per action.

  `AllocatorGoesOn`: on a program that fits (`Fits`: at each operation its
  arguments and the results of its parts, in blocks of the width it needs, fit the
  register file, and all values the heap) and is `Regular` no `expect`, `unwrap`
  or `unreachable!` of the allocator is met. `Regular` is a hypothesis that matters:
  a plaintext that is loaded, a value read twice by one operation, or a result that
  is not used can each make the allocator panic (section 4). Beyond `RegInv` it needs `Unstuck`:
  no value has two slots (`HeapOnce`), so that the heap does not overflow; what is
  picked for eviction is idle (`VictimsIdle`); the arguments still spilled are those
  still to be brought back (`ArgumentsWait`), the parts without registers those still
  to get them (`ResultsWait`). That there is a register to take is a count: a
  block of registers that may not be cleared holds an argument or the first result of
  a part that has its registers (`BlockedBy`, `Blockers`), these are fewer than the
  blocks (`FewBlockers`), so one block is free of them (`SlotLeft`). A batch
  in which no member writes some result would be a part that never gets its
  registers: `WellFormed` excludes it (`WrittenOnce`), and the batcher's programs
  are well formed.

* **SchedulerProofs** (`ScheduleSpec`: any well-formed program, any latencies):
  `SchedulerIssuesAll`.

  The scheduler has no test that its output is complete: it stops when its heap
  of events is empty. That this is the end of the program follows from
  `SchedInv`: the queues hold exactly the operations not issued all of whose
  predecessors have retired (`Ready`, by way of the counts in `pending`), a
  lane is busy exactly while an event will free it (`LanesIdle`), and
  nothing waits for an idle lane, because a round of issue serves every one
  (`IssueRound`, `RoundKeeps`). With no event left every lane is idle,
  so the queues are empty; the least operation not issued would be in one
  (`SchedulerComplete`). The priorities need a lemma of their own: `BatchHeight`
  is a function defined by itself, and that it has numbers as values is proved
  from the last operation to the first (`HeightRight`).

  `RescheduleWellFormed` and `RescheduleFaithful`: the program in another order
  that respects its dependencies is well formed and computes what it did.
  `FaithfulImplements`: a program whose pieces, operations and members of
  batches, compute every operation of the source once (`Faithful`) implements it.

* **CompileProofs** (`CompileSpec`: any set of sources, any batch size, any
  latencies, any register file): `CompilerInvariant`, `BatcherTranslatesAll`,
  `BatcherMakesBatches`, `BatcherFillsBatches`, `CompilerSchedulesAll`,
  `CompilerComputes`, `CompileAllocates`, `CompilerKeepsLiveValues`,
  `CompilerReadsRight`, `CompilerImplements`, `CompilerGoesOn`.

  What the pipeline promises, that a compiled program delivers what its source
  stores, is proved through all three passes. Of the batcher, `BatchInv` says:
  - `WalkInv`, of either walk: an operation waits for exactly its predecessors
    (users) not visited (`Counted`); what waits for nothing has been visited or
    is in a queue, once (`Known`, `Queues`); and `order` with the work list is a
    plan (`WalkPlan`): each operation after what it waits for, and the members of
    a batch next to each other (`Together`), after everything any of them waits
    for. That the order and the work list make one plan is what first in, first
    out is for: a batch joins it as a whole when it is closed. A batch closed
    short has taken all that was ready, and whatever remains needs one of its
    members (`PlanBatch`), by going down to a least operation not taken;
  - `WalkDone`: a finished walk has taken every operation (`WalkCompletes`);
  - `TransPlan`: the order chosen, backwards if it is that of the backward walk,
    has the first member of a batch after all the batch reads (`ForwardPlan`,
    `BackwardPlan`);
  - `Translating` and `Mapped`: what has been translated are the operations taken
    and the batches of which a member was, their values are those in `valmap`,
    and the program so far computes them (`Covers`). `AppendMapped` is the step:
    an operation that reads mapped values and computes what was not computed.
    That the interface of a batch is all its members read and write uses
    that each bootstrap has a user outside its batch (`BatchInterface`).

  `PlanRunnable` and `ShortBlocked` derive `BatchesRunnable` and
  `ShortOnlyIfBlocked` from the plan: an ancestor of an operation precedes
  it, and a batch comes after all it waits for, so no member waits for another.
  `CompileInv` adds that the scheduler works on what the batcher made and the
  allocator on what the scheduler made of it (`HandsOn`), so that the theorems
  of SchedulerProofs and RegAllocProofs apply. `CompilerGoesOn` joins the absence of panics in
  the batcher, for every source, and in the allocator, for programs that fit and are
  `Regular`.

The proofs assume `ProgramsAssumption` (streams are sequences of well-formed
DOps: a control DOp has no operand, any other has one destination and one or two
sources), `IscDepthAssumption`, the well-formedness of signatures, and that a
capacity is a natural number and an uninitialised slot is no element. TLC
evaluates each of them in the runs.

The proofs about the pipeline assume of a source (`SourcesAssumption`) what the
lowering and the elimination of dead operations before it (`builder.rs:224`)
leave: operations read what earlier ones define, with the arity of
their kind, a bootstrap reads one value and its result has a user, and there
are fewer than 2^16 operations; of the batch size that it is not zero; of the
latencies that they are numbers; and of the register file what is said above.

The proofs about the HPU assume further that latencies, capacities and the query
period are positive, that a batch fits the PBS memory, and
`ReadLatency < WriteLatency`.

Model-checked only: of the HPU, `NoPanic` in full and `BatchIntegrity`, which
hold for latencies like those of the configurations and not for all (section 4),
that the reasons of `StallExplained` do not arise there (`NeverStalls` by itself),
and `Completes`, which is liveness; the passes of ioplang and the translation of
circuits (IopPipeline); the arithmetic (IntegerOps), small collections and iterators.
Out of the prover's reach are liveness under fairness, `ENABLED`, and the recursive
circuits and folds, whose results for every length of the operands would need
induction over data.

## 6. Plan

Done: the four layers above. Next, in this order:

1. The binary heap of the event queue as a refinement of `Dispatcher`, and with
   it the exact order of events.
2. The table of LUT identifiers, plaintext operands in the words.

## 7. What is not modelled

* `HpuConfig::from(PhysicalConfig)` computes constants; the models take them as
  parameters.
* Tracing, serialisation, formatting, visualisation and graph layout produce
  output only; they and the tests, documentation and tables of constants make up
  most of the lines that no definition stands for.
* `play`, `play_until` and `step` differ from `play_until_event` in their stop
  condition. `PePbsMemory::mutate_to_flush` has no caller.
* The IR: comments, in-place mutation of instructions, maps keyed by operations,
  generic traversals with annotations, as far as the modelled passes do not
  use them; the `_consume` instruction.
* Lookups with four and eight results, which the batcher and allocator pass
  through and the interpreter of doplang rejects; the length at the head of a
  word stream, I/O addresses.
* `legacy.rs` keeps an older form of the tables, which the tests of the repository
  compare with the present one on every input.
* The reference arithmetic of `ops.rs` on whole integers, random values, shifts and
  products of blocks that no circuit uses.
* Of the collections: sorting, reconciliation, collectors, averages, predicates
  over iterators, BiMap, Store.
* Entry points, benchmarks and procedural macros.
