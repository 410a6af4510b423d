---------------------------- MODULE ParallelFor ----------------------------
(***************************************************************************)
(* ThreadPoolDevice::ParallelFor                                           *)
(* (src/core/base/thread/device_thread_pool.h) over the cost model         *)
(* (cost_model.h): a caller picks a block size, splits [0, n) in halves    *)
(* that go through the pool, and waits on a barrier of its own stack for   *)
(* the blocks.  The pool is abstract here (TaskPool): a scheduled range is *)
(* taken by some worker, or executed at once by the thread that schedules  *)
(* it when its queue is full.  The barrier is a count (Barrier shows what  *)
(* Wait promises).                                                         *)
(***************************************************************************)
EXTENDS Integers, Sequences, FiniteSets

CONSTANTS
  Workers,          \* the threads of the pool
  Callers,          \* the threads that call ParallelFor; some may be workers
  Calls,            \* the arguments it is called with: the total n, the cost of
                    \* a unit in cycles, and block_align, which rounds up to a
                    \* multiple of align
  kStartupCycles, kPerThreadCycles, kTaskSize,
  IntLimit          \* an Index is in -IntLimit..(IntLimit - 1); 2^31 in the code

ASSUME PoolAssumption == IsFiniteSet(Workers) /\ Workers # {}
ASSUME InputAssumption ==
  /\ IntLimit \in Nat \ {0}
  /\ \A a \in Calls :
       /\ a.n \in 0..(IntLimit - 1)         \* the two CHECKs of Impl::ParallelFor
       /\ a.cost \in Int /\ a.align \in Nat \ {0}
ASSUME CostAssumption ==
  kStartupCycles \in Nat /\ kPerThreadCycles \in Nat \ {0} /\ kTaskSize \in Nat

Threads == Workers \cup Callers
NumThreads == Cardinality(Workers)

VARIABLES
  call,      \* call[c]: the arguments and the locals of caller c's ParallelFor
  pc,        \* pc[c]: where caller c is
  count,     \* count[c]: the notifications the barrier of c still expects
  scheduled, \* the ranges in the queues of the pool
  stack,     \* stack[t]: the calls of handleRange thread t is in, innermost first
  runs       \* runs[c][i]: how often f was called for index i

vars == <<call, pc, count, scheduled, stack, runs>>

-----------------------------------------------------------------------------
(* Arithmetic on Index, which wraps, and divides towards zero *)
Wrap(x) == ((x + IntLimit) % (2 * IntLimit)) - IntLimit
Quotient(x, y) == IF x >= 0 THEN x \div y ELSE -((-x) \div y)
Lesser(x, y) == IF x < y THEN x ELSE y
Greater(x, y) == IF x > y THEN x ELSE y

divup(x, y) == Quotient(Wrap(x + y - 1), y)

(* (cost - kStartupCycles) / kPerThreadCycles + 0.9, cut to an int: a      *)
(* value out of range gives INT_MIN on x86.                                *)
numThreads(n, cost) ==
  LET v == Quotient(10 * (n * cost - kStartupCycles) + 9 * kPerThreadCycles,
                    10 * kPerThreadCycles)
      threads == IF v >= IntLimit THEN -IntLimit ELSE v
  IN Lesser(NumThreads, Greater(1, threads))

(* factor * block_size_f as an Index of at least 1 and at most n *)
BlockSizeFor(n, cost, factor) == Lesser(n, Greater(1, (factor * kTaskSize) \div cost))

Aligned(n, size, align) == Lesser(n, align * ((size + align - 1) \div align))
FirstSize(n, cost, align) == Aligned(n, BlockSizeFor(n, cost, 1), align)

(* block_count / (divup(block_count, NumThreads()) * NumThreads()), as a   *)
(* pair, and a + slack / 100 >= b                                          *)
Efficiency(blocks) == <<blocks, divup(blocks, NumThreads) * NumThreads>>
AtLeast(a, slack, b) == (100 * a[1] + slack * a[2]) * b[2] >= 100 * b[1] * a[2]

(* handleRange: where it cuts a range that is larger than a block *)
MidUnaligned(first, last, size) ==           \* mutant: cuts inside a block
  first + (last - first) \div 2
Mid(first, last, size) == first + divup((last - first) \div 2, size) * size

-----------------------------------------------------------------------------
Go(c, label) == pc' = [pc EXCEPT ![c] = label]

NoCall == [n |-> 0, cost |-> 1, align |-> 1, size |-> 0, blocks |-> 0, best |-> <<0, 1>>,
           prev |-> 0]

Init ==
  /\ call = [c \in Callers |-> NoCall]
  /\ pc = [c \in Callers |-> "start"]
  /\ count = [c \in Callers |-> 0]
  /\ scheduled = {}
  /\ stack = [t \in Threads |-> <<>>]
  /\ runs = [c \in Callers |-> <<>>]

RunIndices(c, first, last) ==
  runs' = [runs EXCEPT ![c] = [i \in DOMAIN @ |-> IF i \in first..(last - 1) THEN @[i] + 1 ELSE @[i]]]

(* The call, up to the loop that looks for a better block size *)
Start(c, a) ==
  LET n == a.n
      size == FirstSize(n, a.cost, a.align)
      blocks == divup(n, size)
      inline == n <= 1 \/ NumThreads = 1 \/ numThreads(n, a.cost) = 1 IN
  /\ pc[c] = "start" /\ stack[c] = <<>>
  /\ call' = [call EXCEPT ![c] =
       IF inline THEN [NoCall EXCEPT !.n = n]
       ELSE [n |-> n, cost |-> a.cost, align |-> a.align, size |-> size,
             blocks |-> blocks, best |-> Efficiency(blocks), prev |-> blocks]]
  /\ runs' = [runs EXCEPT ![c] = [i \in 0..(n - 1) |-> IF inline THEN 1 ELSE 0]]
  /\ Go(c, IF inline THEN "returned" ELSE "search")
  /\ UNCHANGED <<count, scheduled, stack>>

CoarserSizeStuck(k) ==                       \* mutant: prev_block_count, not one less
  Aligned(k.n, divup(k.n, k.prev), k.align)
CoarserSize(k) == Aligned(k.n, divup(k.n, k.prev - 1), k.align)
SearchGoesOnForever(k) == k.prev > 1         \* mutant: max_block_size is not tested
SearchGoesOn(k) == k.prev > 1 /\ CoarserSize(k) <= BlockSizeFor(k.n, k.cost, 2)

(* One iteration: a coarser division is taken if it keeps the threads as   *)
(* busy as the best one so far.                                            *)
Coarsen(c) ==
  LET k == call[c]
      size == CoarserSize(k)
      blocks == divup(k.n, size)
      eff == Efficiency(blocks)
      taken == AtLeast(eff, 1, k.best) IN
  /\ pc[c] = "search" /\ SearchGoesOn(k)
  /\ call' = [call EXCEPT ![c] =
       [k EXCEPT !.prev = blocks,
                 !.size = IF taken THEN size ELSE @,
                 !.blocks = IF taken THEN blocks ELSE @,
                 !.best = IF taken /\ ~AtLeast(@, 0, eff) THEN eff ELSE @]]
  /\ UNCHANGED <<pc, count, scheduled, stack, runs>>

(* The barrier is built and the caller itself handles [0, n). *)
HandleAllWith(c, blocks) ==
  /\ pc[c] = "search" /\ ~SearchGoesOn(call[c])
  /\ count' = [count EXCEPT ![c] = blocks % IntLimit]
  /\ stack' = [stack EXCEPT ![c] = <<[of |-> c, first |-> 0, last |-> call[c].n, at |-> "enter"]>>]
  /\ Go(c, "wait")
  /\ UNCHANGED <<call, scheduled, runs>>

(* mutants: the barrier is built for one block less, or one more *)
HandleAllOneShort(c) == HandleAllWith(c, call[c].blocks - 1)
HandleAllOneMore(c) == HandleAllWith(c, call[c].blocks + 1)

HandleAll(c) == HandleAllWith(c, call[c].blocks)

-----------------------------------------------------------------------------
(* handleRange *)

Frame(t) == Head(stack[t])
Busy(t, label) == stack[t] # <<>> /\ Frame(t).at = label
Reach(t, label) == stack' = [stack EXCEPT ![t] = <<[Frame(t) EXCEPT !.at = label]>> \o Tail(@)]
IsBlock(r) == r.last - r.first <= call[r.of].size

RunBlock(t) ==
  /\ Busy(t, "enter") /\ IsBlock(Frame(t))
  /\ RunIndices(Frame(t).of, Frame(t).first, Frame(t).last)
  /\ Reach(t, "notify")
  /\ UNCHANGED <<call, pc, count, scheduled>>

NotifyBarrier(t) ==
  /\ Busy(t, "notify")
  /\ count' = [count EXCEPT ![Frame(t).of] = @ - 1]
  /\ stack' = [stack EXCEPT ![t] = Tail(@)]
  /\ UNCHANGED <<call, pc, scheduled, runs>>

Split(t) ==
  /\ Busy(t, "enter") /\ ~IsBlock(Frame(t))
  /\ Reach(t, "right")
  /\ UNCHANGED <<call, pc, count, scheduled, runs>>

Half(r, label) ==
  LET mid == Mid(r.first, r.last, call[r.of].size) IN
  IF label = "right" THEN [r EXCEPT !.first = mid, !.at = "enter"]
                     ELSE [r EXCEPT !.last = mid, !.at = "enter"]

(* After the second Schedule handleRange has nothing left to do. *)
AfterHalf(t, label) ==
  IF label = "right" THEN <<[Frame(t) EXCEPT !.at = "left"]>> \o Tail(stack[t])
                     ELSE Tail(stack[t])

ScheduleHalf(t, label) ==
  /\ Busy(t, label)
  /\ \/ /\ scheduled' = scheduled \cup {Half(Frame(t), label)}
        /\ stack' = [stack EXCEPT ![t] = AfterHalf(t, label)]
     \/ /\ stack' = [stack EXCEPT ![t] = <<Half(Frame(t), label)>> \o AfterHalf(t, label)]
        /\ UNCHANGED scheduled
  /\ UNCHANGED <<call, pc, count, runs>>

(* A worker takes a range, unless it is inside a ParallelFor of its own:   *)
(* the caller of Wait runs nothing meanwhile.                              *)
Take(t, r) ==
  /\ stack[t] = <<>>
  /\ t \in Callers => pc[t] \in {"start", "returned"}
  /\ scheduled' = scheduled \ {r}
  /\ stack' = [stack EXCEPT ![t] = <<r>>]
  /\ UNCHANGED <<call, pc, count, runs>>

(* barrier.Wait() returns and the frame with handleRange, barrier, f dies. *)
Return(c) ==
  /\ pc[c] = "wait" /\ stack[c] = <<>>
  /\ count[c] = 0
  /\ Go(c, "returned")
  /\ UNCHANGED <<call, count, scheduled, stack, runs>>

-----------------------------------------------------------------------------
HandleRange(t) ==
  \/ RunBlock(t) \/ NotifyBarrier(t) \/ Split(t)
  \/ \E label \in {"right", "left"} : ScheduleHalf(t, label)

CallerStep(c) == Coarsen(c) \/ HandleAll(c) \/ Return(c)
WorkerStep(t) == \E r \in scheduled : Take(t, r)

AllReturned == \A c \in Callers : pc[c] = "returned"
Terminated == AllReturned /\ UNCHANGED vars

Next ==
  \/ \E c \in Callers :
       \/ \E a \in Calls : Start(c, a)
       \/ CallerStep(c)
  \/ \E t \in Workers : WorkerStep(t)
  \/ \E t \in Threads : HandleRange(t)
  \/ Terminated

Spec == Init /\ [][Next]_vars

(* Threads that can run do; the pool's own liveness (ThreadPool:           *)
(* QueuedTaskRuns) is the fairness of WorkerStep.                          *)
FairSpec ==
  /\ Spec
  /\ \A c \in Callers : WF_vars(CallerStep(c))
  /\ \A t \in Workers : WF_vars(WorkerStep(t))
  /\ \A t \in Threads : WF_vars(HandleRange(t))

-----------------------------------------------------------------------------
(* Types *)

Ranges == [of : Callers, first : Int, last : Int, at : {"enter", "right", "left", "notify"}]

TypeOK ==
  /\ \A c \in Callers :
       /\ call[c].n \in 0..(IntLimit - 1)
       /\ call[c].size \in 0..call[c].n /\ call[c].blocks \in 0..call[c].n
  /\ pc \in [Callers -> {"start", "search", "wait", "returned"}]
  /\ count \in [Callers -> Nat]
  /\ scheduled \subseteq Ranges
  /\ \A t \in Threads : stack[t] \in Seq(Ranges)
  /\ \A c \in Callers : \A i \in DOMAIN runs[c] : runs[c][i] \in Nat

-----------------------------------------------------------------------------
(* Safety *)

Frames(t) == {stack[t][i] : i \in 1..Len(stack[t])}
Live(c) == {r \in scheduled \cup UNION {Frames(t) : t \in Threads} : r.of = c}

(* When ParallelFor returns, f has been called for every index of [0, n),  *)
(* and never twice for one (threadpool_test.cc:61).                        *)
EveryIndexOnce ==
  \A c \in Callers : \A i \in DOMAIN runs[c] :
    /\ runs[c][i] <= 1
    /\ pc[c] = "returned" => runs[c][i] = 1

(* The barrier, handleRange and f are locals of ParallelFor, captured by   *)
(* reference: once the caller has left, no queue and no thread holds a     *)
(* range of that call.                                                     *)
FrameOutlivesItsRanges == \A c \in Callers : pc[c] = "returned" => Live(c) = {}

(* What is left of a range: once the right half is scheduled, the left one *)
End(r) == IF r.at = "left" THEN Mid(r.first, r.last, call[r.of].size) ELSE r.last
Holds(r, i) == r.first <= i /\ i < End(r)

(* The blocks of c not yet notified, by who holds them and where they start *)
OwedBlocks(c) ==
  {b \in Live(c) \X (0..(call[c].n - 1)) : Holds(b[1], b[2]) /\ b[2] % call[c].size = 0}

(* The halving by multiples of the block size cuts [0, n) into exactly the *)
(* number of blocks the barrier was built with, at every moment: one more  *)
(* and the barrier is touched after its death, one less and Wait hangs.    *)
BarrierCountsTheBlocks ==
  \A c \in Callers : pc[c] = "wait" => count[c] = Cardinality(OwedBlocks(c))

(* The barrier counts what the queues and the stacks still hold of a call, *)
(* so the frame it guards is there for all of them.                        *)
BarrierGuardsTheFrame == TypeOK /\ FrameOutlivesItsRanges /\ BarrierCountsTheBlocks

(* The search ends with a division that keeps the threads, within one      *)
(* percent, as busy as the finest one and as the coarser one it tried last,*)
(* with blocks of at most twice the ideal size unless they were aligned.   *)
SearchKeepsThreadsBusy ==
  \A c \in Callers :
    LET k == call[c]
        finest == divup(k.n, FirstSize(k.n, k.cost, k.align)) IN
    pc[c] \in {"search", "wait"} =>
      /\ AtLeast(Efficiency(k.blocks), 1, Efficiency(finest))
      /\ AtLeast(Efficiency(k.blocks), 1, Efficiency(k.prev))
      /\ k.blocks = divup(k.n, k.size)
      /\ k.size <= Greater(BlockSizeFor(k.n, k.cost, 2), FirstSize(k.n, k.cost, k.align))

(* DCHECK(coarser_block_count < prev_block_count), line 182: the search    *)
(* makes progress at every iteration, so it ends.                          *)
SearchMakesProgress ==
  [][\A c \in Callers :
       pc[c] = "search" /\ call'[c] # call[c] => call'[c].prev \in 1..(call[c].prev - 1)]_vars

(* Every ParallelFor returns, as long as some worker is not itself inside  *)
(* one.                                                                    *)
CallersReturn == \A c \in Callers : pc[c] # "start" ~> pc[c] = "returned"

(* The constructor's DCHECK(((count << 1) >> 1) == count), line 41: the    *)
(* block count converted to unsigned leaves room for the waiter flag.      *)
BarrierCountFits ==
  \A c \in Callers : pc[c] = "search" => call[c].blocks >= 0
=============================================================================
