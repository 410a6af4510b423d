# Verification of `distribued`

TLA+ models of this repository (a C++11 code base with pieces in the style of
TensorFlow, Eigen and protobuf): its concurrent core, and the library that
stands beside it. TLC checks them on small instances, TLAPS proves theorems
about some of them. File names without a directory are under
`src/core/base/thread/`, names that begin with `core/` or `dr/` under `src/`.

- `tlc -config RunQueue.cfg RunQueueHistory` runs one check (the table below gives the
  module and the configuration of each);
- `tlapm BarrierProofs.tla` checks the proofs of one module.

`PROJECT.json` holds the same inventory for tools: components, runs, the mutant
each property must catch, the lines of code each definition stands for,
hazards, theorems and findings.

## 1. The system

### The thread pool and what stands on it

| part | state | operations | what makes it hard | correct when |
|---|---|---|---|---|
| `RunQueue` (`run_queue.h`) | `front_`, `back_`, an array of (state, work), `mutex_` for the back | the owner's `PushFront`, `PopFront`; anybody's `PushBack`, `PopBack`, `PopBackHalf`; `Size`, `Empty` | the owner takes no lock; both ends meet in an element's state byte; `Size` reads two words | it is a double-ended queue, nothing lost or twice; `Empty` does not hide work |
| `EventCount` (`event_count.h`) | one 64-bit word (epoch, undecided waiters, top of a stack of sleepers), a `Waiter` per thread | `Prewait`, then `CommitWait` or `CancelWait`; `Notify(all)` | a lock-free stack (ABA); turns by epoch; a signal may come before the sleep | no notification is lost between the check and the sleep |
| `NonBlockingThreadPool` (`non_blocking_thread_pool.h`) | a queue per worker, `blocked_`, `spinning_`, `done_`, an event count | `Schedule`, the worker loop (`PopFront`, `Steal`, `WaitForWork`), the destructor | pushes race with workers that go to sleep; the last blocked worker ends the pool | every task runs once; the destructor waits for all and returns |
| `Barrier`, `Notification` (`device_thread_pool.h`) | `state_` (count and waiter flag), `mu_`, `cv_`, `notified_` | `Notify`, `Wait` | lives on the stack of the waiter | `Wait` waits for all; nobody touches it after `Wait` |
| `ThreadPoolDevice::ParallelFor` (`device_thread_pool.h`), `CostModel` (`cost_model.h`) | block size, block count, a barrier, ranges in the pool | the search for a block size, recursive halving through the pool, `Wait` | ranges refer to the caller's stack; integer arithmetic | every index once, and the call outlives its ranges |
| `RefCounted` (`core/base/refcount.h`) | `ref_` | `Ref`, `Unref`, `RefCountIsOne` | `Unref` skips the decrement if it reads 1 | deleted once, after the last use |
| `ThreadPool` (`core/base/threadpool.cc`) | a pool | forwards to the above; checks the arguments | | |

How they interact: `ThreadPool::Schedule` and the device's `ParallelFor` call
`Schedule`, which pushes on a run queue and notifies the event count; when a
queue refuses, the task runs on the scheduling thread. Workers pop, steal,
announce themselves with `Prewait`, look at all queues once more, and sleep.
`ParallelFor` schedules ranges that schedule ranges, and its barrier is
notified by each block.

### Input, output and files

| part | state | operations | what makes it hard | correct when |
|---|---|---|---|---|
| input streams (`core/io/zero_copy_stream_impl*.cc`, `FileStream` in `core/system/env.cc`) | position, buffer, bytes backed up, a limit, the list of concatenated streams | `Next`, `BackUp`, `Skip`, `ByteCount` | sequences of calls through several layers; short and failing reads; a limit in the middle of a buffer | the client reads the underlying bytes in order, up to the limit, and a legal call is legal in every layer |
| output streams | buffer, bytes used, a sticky failure | `Next`, `BackUp`, `Flush`, `Close` | partial writes, and a client that writes on after one failed | what arrives is a prefix of what was written, all of it once a flush says so |
| `Env`, `FileSystemRegistry` (`core/system/env.cc`) | a map from schemes to file systems; the tree of files | `RecursivelyCreateDir`, `DeleteRecursively`, `ReadFileToString`, `WriteStringToFile`, `RenameFile`, single calls | several system calls, each of which may fail while others change the tree | statuses and counts tell what is left; contents are whole |
| `LinuxFileSystem` (`core/files/linux`), `Status` (`core/base/status.cc`) | none; a code | system calls, their errnos as codes; `Update` keeps the first error | | |

### Objects and functions of the library

| part | state | operations | what makes it hard | correct when |
|---|---|---|---|---|
| `InlinedVector` (`core/base/inlined_vector.h`) | a tag, a size, cells inside or on the heap | those of `std::vector` | raw memory, growth, arguments that lie in the vector, swapping the two representations | it is a sequence, and every element is constructed and destroyed once |
| callbacks (`core/base/callback.h`) | a flag | `NewCallback`, `NewPermanentCallback`, `Run` | deletion from inside a run | freed once and in time |
| `CallOptions` (`dr/call_options.cc`) | a callback and a timeout under `mu_` | `StartCancel`, `SetCancelCallback`, `ClearCancelCallback`, the timeout | the callback runs while `mu_` is held | a cleared callback is not running |
| `OrderedCode`, `base64`, `numbers`, `str_util`, `scanner`, `string_piece` (`core/strings`) | none | encodings, conversions, escapes, searches | limits of integers, escapes, prefixes | order kept, read back what was written |
| `core/io/path.cc`, schemes (`core/files/file_system.cc`) | none | `CleanPath`, `JoinPath`, `SplitPath` and the parts of a name | in-place backtracking | the path still names the same place |
| messages (`src/protobuf/*.pb.cc`) | fields | setters, `Clear`, `MergeFrom`, `Swap`, serialising, parsing | defaults, unknown and repeated fields | parsing two wires in a row merges the messages |

`Env` calls a file system by the scheme of a name, and file systems answer with
a `Status`; streams read and write through descriptors; the pool's threads come
from `Env`. The rest of the library is called by its clients only.

## 2. Modules

    WorkDeque <-- implemented by -- RunQueue <-- RunQueueHistory
    EventCountSpec <-- implemented by -- EventCount
    ThreadPool = queues as WorkDeque has them + EventCountSpec + StealOrder
    TaskPool <-- implemented by -- ThreadPool
    Barrier             ParallelFor = TaskPool's promise + a barrier's count
    StealOrder <-- StealWalk      RefCount      CallOptions      Callbacks

    ByteStream <-- implemented by -- InputStreams      OutputStreams
    Env = FileTree + Status
    Sequence <-- implemented by -- InlinedVector
    OrderedCode  Base64  Numbers  Scanner <-- StrUtil, Path   StringPiece
    Messages <-- DeviceMessages

    EventCountProofs, ParallelForProofs, BarrierProofs: theorems about the
    module of the name
    RunQueueProofs: theorems about RunQueue and RunQueueHistory
    ThreadPoolProofs: theorems about ThreadPool and StealWalk
    IoProofs: theorems about OutputStreams, InputStreams and Env
    LibraryProofs: theorems about InlinedVector, RefCount, Callbacks, CallOptions
    Iteration: what they need of recursive functions and of induction
    MCEventCount, MCThreadPool, MCParallelFor, MCIo, MCLibrary: for TLC

The composition is by levels. `RunQueue` and `EventCount` have one action per
atomic access, and each is shown to implement an abstract object whose
operations are single steps. `ThreadPool` uses the abstract objects, so that
its interleavings are those of whole queue and event-count operations, and is
itself shown to implement `TaskPool`; `ParallelFor` uses what `TaskPool` and
`Barrier` promise.

**RunQueue.** A thread's position in an operation is a label in `pc`, its
locals are in `reg`. A label names the access the thread makes next:
`PushFrontClaim` is the compare-and-swap to `kBusy`, `PushFrontAdvance` the
store to `front_`, and so on. A load of the state byte followed by the
compare-and-swap is one action: what the load alone may refuse, the exchange
refuses too, and a refusal has no effect. `front_` and `back_` are integers
modulo `2 * kSize * Laps`; the code's counter wraps at 2^32. `Size` is three
loads, and restarts when `front_` moved. `RunQueueHistory` adds a history
variable: how often `front_` has been moved while a thread is in `Size`.
The refinement to `WorkDeque` places
the effect of a pop at the exchange that claims its element, from which on it is
counted as having moved its index (`FrontOfDeque`, `BackOfDeque`), and that of a
push at the store that makes its element ready.

**EventCount.** `state_` is a record, exchanged as a whole. `Prewait` is
atomic in the code (`fetch_add`). The turn of a waiter is computed by
`TurnFrom`, and `Behind`, `OnTurn`, `Ahead` are the signed comparison of
`CommitWait`. The loops load, prepare and exchange in separate actions, so
`seen[t]` may be stale. `Park` and `Unpark` take the waiter's mutex for one
action each; the condition variable may wake spuriously. `EventCountSpec` says
what remains: threads that announced themselves decide in turn; a notification
goes to the oldest undecided one, else to the last who went to sleep. Epochs
wrap at `EpochMod` (2^32 in the code), and the number of prewaits is bounded by
`MaxWaits < EpochMod \div 2`: two epochs that meet in a comparison are then less
than half the circle apart. In the code this means that no thread stands still
inside an operation while the others make 2^31 decisions; nothing there prevents
it, and without it a stale word could pass a compare-and-swap.

**ThreadPool.** `frames[t]` is the stack of `ExecuteTask` calls of a thread
(a refused push runs a task inside another), `walk[t]` its loop over the
queues. An operation on the back of a queue keeps the queue's lock until the
thread's next action, as `PopBack` keeps `mutex_` after its effect; other
thieves then fail. `Empty()` may report work that is still being pushed
(`BeingPushed`). `done_` and `blocked_` are loaded in two actions
(`TestDone`, `TestBlocked`), as the `&&` at line 169 does. The destructor is
`SetDone`, `DestroyNotify`, `JoinAndDelete`. The owner schedules `Roots` and
then destroys the pool, so tasks that are still queued, and those that they
schedule, meet the shutdown. A task stands for one call of `Schedule`, so no
two calls schedule the same one (`TaskAssumption`).

**StealOrder, StealWalk.** The walk over the queues: the coprimes the
constructor computes, and one random number for both start and step. StealWalk
visits the queues for every number of them and every draw.

**Barrier.** The word is an integer, the flag its lowest bit. `Destroy` is the
end of the scope of a barrier on the stack: it may happen as soon as all
waiters have returned, at whatever point the notifiers are.

**ParallelFor.** Costs are whole cycles (loads and stores cost nothing, as
`threadpool.cc:91` passes them), `Index` arithmetic wraps at `IntLimit`,
efficiencies are compared as fractions. `scheduled` holds the ranges in the
pool's queues; a thread that schedules may run a range at once. `call[c].align`
is a callback that rounds up to a multiple.

**RefCount.** References are tokens that threads hold, copy (`Ref`), hand over
and drop; whoever calls a method holds one, as the class comment says. `Unref`
is the load that looks for 1, the decrement, and the deletion.

**InputStreams.** A stream is a record and a method an operator that yields the
set of its outcomes, because reads may be short and may fail. The client holds
a `ConcatenatingInputStream` and now and then makes a `LimitingInputStream` over
it and destroys it again. `lim.left` is `limit_`, below zero when a part of the
last buffer is hidden. `lost` counts the bytes of streams that were given up
after a read error. The refinement to `ByteStream`, which is what
`zero_copy_stream.h` says of every input stream, has the position as the bytes
counted and lost, without the hidden ones.

**OutputStreams.** The client stores the numbers 1, 2, ... in the buffers it
gets and backs up what it does not fill, at once, as the contract demands. A
write that fails may leave a part behind. A string that grows takes what
capacity the allocator gives.

**FileTree, Status, Env.** `FileTree` gives the errno of a system call in a
tree, and the tree afterwards; `Status` the codes. A job of `Env` is the
operation with its locals, and each action is one system call, which may also
fail for a reason outside the tree (`MaxFaults`). A file is an identity with
bytes that are marked by their writer, so a mixture of two writers shows.
`data` changes under an open descriptor, and a name may come to mean another
file between two calls.

**InlinedVector.** Cells are raw until an element is constructed in them;
constructing twice, assigning to or destroying a raw cell gives `Bad`, which
stays. Operators are the methods, in the order of the code's constructions,
moves and destructions, for elements whose destructors matter. `made` is the
call as `Sequence` sees it.

**Callbacks.** A run is a frame of one thread's stack; functions make, run and
delete callbacks too. Memory that was freed may be allocated at once, so a
flag read after the call would be another callback's.

**CallOptions.** The methods under the lock, the callback as two actions with
the lock held in between; `cleared` is what clients may have freed.

**OrderedCode, Base64, Numbers, StrUtil, Scanner, StringPiece, Path.** Pure
operators, each module with the reference definition it is held against (a
comparison of sequences, the value a text spells, the place a path leads to).
`OrderedCode` and `Numbers` have the width of bytes and words as a parameter;
`OrderedCode` gives the tables of lengths and header bits by the rule their
comment states.

**Messages, DeviceMessages.** A message is a record of its fields, a wire a
sequence of entries, the units the generated parser switches on. Embedded
messages and map entries hold wires of their own. `Merged...` is written from
`MergeFrom`, the reading from `MergePartialFromCodedStream`, and the property
compares the two.

Memory model: all accesses are sequentially consistent in these models. The
fences and acquire/release orders of the code are what is to justify that; they
are not verified here.

## 3. Runs

| run | bounds | shows |
|---|---|---|
| `run_queue` | 1 owner, 1 thief, 5 works, `kSize` 4, a counter of 3 values | fill, refuse, both ends at the last element, `PopBackHalf` of a full queue, indices that pass the end of the array and a counter that comes round during a `Size`; five works are one more than fit |
| `run_queue_lock` | 2 thieves, 2 works | the lock at the back under contention |
| `event_count` | 2 waiters, 2 notifiers, 3 prewaits, 16 epochs starting just below the wrap-around | a stack of two, a waiter that comes back to it (ABA needs a third prewait), two notifiers on one stack |
| `event_count_live` | 2 waiters, 1 notifier | notified waiters leave, `CancelWait` returns |
| `thread_pool` | 2 workers, 3 tasks (one scheduled by another), queues of 1, 1 spinning round | sleep against push, refused pushes, shutdown with work queued |
| `barrier` | 4 notifiers, 2 waiters | early and late waiters, destruction |
| `parallel_for` | 2 workers; calls by the owner and by a worker; loops of 0 to 4 blocks | every index once; nested use |
| `parallel_for_search` | 4 threads, totals to 80, costs -1 to 25, alignments 1, 3, 4 | the search ends and does no harm |
| `parallel_for_largest` | totals up to the largest `Index` | a disagreement, see below |
| `input_output` | six concatenations of up to 3 streams of 0 to 4 bytes, limits 0, 1, 3, 5, skips of 0 to 7; eight sinks, 9 bytes written; 2 threads, 6 paths, 3 files, 1 fault | streams and files, see below |
| `library` | 2 vectors with room for 2 inside and up to 3 elements; 3 threads with 4 references; 3 clients of a call's options with 2 callbacks; 2 addresses and 3 nested runs; up to 24 queues; inputs listed below | the rest of the library |
| `library_negatives` | all integers of 8 bits | a disagreement, see below |

The cost constants of the ParallelFor runs keep the ratio of the code's
(100000, 100000, 40000) as (50, 50, 20). Waiters and notifiers of `event_count`
are symmetric; no liveness is checked under symmetry. Two is enough for most
races here because they are between two ends, or between a waiter and a
notifier; the third actor where it matters is a third task, prewait or
reference.

*Bounds of `input_output`.* The concatenations have every kind of stream first,
in the middle and last, blocks that divide the content and blocks that do not,
a pipe (where `lseek` fails), an empty stream and faulty ones; the limits fall
below, inside, at the end of and beyond a buffer; the skips end inside a stream,
at its end and in the next one. The sinks are arrays that fill up, strings with
and without room, and adaptors with blocks of 1 to 3 bytes. With `MaxInt` 11 a
string reaches the size at which it refuses to double. In the file system every
operation that takes several calls runs against every other one, against each
single call and alone; one failing call is enough to take each error path, and
two levels of directories to have more than one of them in the queue.
`OverrunFiles` is false: no client skips past the end of a file whose stream
would not notice (see the observations).

*Bounds of `library`.* Three elements with room for two inside go through every
change of representation, and `reserve` up to five makes blocks with room to
spare. Four references on three threads give a thread two of them. Inputs:
strings of up to 3 bytes of a byte of 4 bits (those with escapes, their
neighbours, one without), with pairs for the comparison; all words of 16 bits,
where lengths run from 1 to 5 bytes, each boundary occurs and numbers are
compared with their successors; numbers of 8 bits, all of them, and spellings
around every limit, with signs, zeros and spaces; texts over bytes with, without
and next to an escape; all paths of up to 7 and names of up to 6 characters of
"/", ".", ":" and a letter; pairs of messages with default, negative, long and
ill-formed fields. The functions are examined in the initial states, the
objects in behaviours; `part` says which a behaviour is about.

Deadlock is checked in the first nine runs: the only states without a real
step are those after a normal end, where the action `Terminated` stutters. It
is not checked in the last three, where a behaviour that is about an input, a
finished set of operations or a closed stream has no step.

**The properties that matter most.**

- `ElementsAreSafe`: every work is in one place; the unlocked field `w` of an
  element is never used by two threads at once; and the `DCHECK(s == kReady)` at
  `run_queue.h:106` holds. `SizeNeverTooSmall`: what `Size` reports is at least
  the least number of elements ready during the call, so a worker about to sleep
  is not told "empty" about a queue that never was, unless `front_` was moved so
  often during the call that its index or its counter came round (`Brief`; see
  the observations). `IsADeque` is the refinement.
- `NobodyIsForgotten`: a parked waiter is on the stack or in the hands of a
  notifier that will wake it, and the turns of the undecided waiters are the
  next epochs, one each. `KeepsItsContract` is the refinement.
- `WorkIsNeverStranded`: while a task is queued some worker is up, or the
  thread that pushed has its `Notify` ahead; at the end no task, waiter or lock
  is left. `CountersAreExact`: `blocked_` and `spinning_` say what the workers
  do. `RunsEveryTaskOnce` is the refinement to `TaskPool`.
- `DestroyedAfterUse`: the last notifier is out of the barrier before the last
  waiter may return. `BarrierGuardsTheFrame` is the same for the ranges of
  ParallelFor: the halving always owes the barrier exactly the notifications it
  expects.
- `ReadsInOrder` is the refinement to `ByteStream`; `BackUpIsAccepted`: no layer
  turns a legal `BackUp` into one that fails a CHECK; `LimitIsKept`: a limit
  holds for all sequences of calls. `OnlyWhatWasWritten` and `NothingIsHeldBack`
  bound what arrives from above and below; the second also says that a legal
  `BackUp` passes its CHECKs and that `ByteCount` is the number of bytes written
  since the stream was created, as its interface documents. Two cases are left
  out of that count: an adaptor whose write failed has given bytes up, and of a
  string that was not empty the code counts something else (see the
  observations).
- `TreesAreAsTold`: if `DeleteRecursively` counts nothing as left then nothing
  is left, whatever others do; when it is alone and nothing fails it leaves
  nothing. If `RecursivelyCreateDir` says OK the path is there, and of several
  that make the same path without faults, the path is there in the end, unless
  a file is in the way.
- `ContentIsWhole`: `ReadFileToString` returns as many bytes as the file had,
  and just its bytes if nobody wrote meanwhile; a writer that has a file for
  itself leaves its bytes and no others.
- `IsASequence` and `StorageIsSound`: the vector as a sequence, and its memory.
  `FreedOnceAndInTime`, `ClearedCallbackIsQuiet`, `CountIsTrusted`: nothing is
  used after it was freed.
- `EncodingsKeepOrder`, `NumbersAreRead`, `TextIsKept`, `PathsKeepThePlace`,
  `MessagesMerge`: round trips and comparisons against reference definitions.

**Fairness.** `event_count_live`: a thread inside an operation keeps running,
and whoever called `Prewait` goes on to decide; nobody must call `Notify`.
`thread_pool`: weak fairness of each thread as a whole, that is, the scheduler
runs every runnable thread. `barrier`: strong fairness of each thread, because
a mutex that is free again and again must in the end be got; spurious wake-ups
are not required to happen. `parallel_for`: each thread runs, and idle workers
take ranges, which is what `QueuedTaskRuns` says of the pool. The other runs
check safety only and assume no fairness: their clients may stop at any time.

**Observations.** `Size` compares two loads of `front_`, a word of an index and a
counter of pushes. A pop moves the index and leaves the counter alone, so
`2 * kSize` pops by the owner during one `Size`, refilled from the back by
`PushBack`, bring the word back to what it was, and pushes and pops in turn do
when the counter, of 2^32 / (2 * kSize) values, has come round. `Size` then may
report 0 of a queue that never was empty. So `SizeNeverTooSmall` could not allow as
many as 2 * kSize moves; a thief must be stopped between two loads for as long
for it to matter.

With `done_` set, the last worker to block wakes the others
to exit; `blocked_` also counts a worker that was just notified and has not yet
decremented it. So a worker may leave while another is still about to run
tasks; those tasks and what they schedule are then run by the remaining
workers, and `WorkIsNeverStranded` and `DestructorReturns` show that none is
lost. `CallersReturn` needs a worker that is not itself inside `ParallelFor`:
calls from all workers at once would wait for each other's ranges for ever.

What the models of the library brought to light, and how they treat it:

- Streams. `Skip` past the end of a seekable file (`lseek` does not complain) or
  of a `FileStream` moves the position beyond the content; `ByteCount` then
  counts bytes that do not exist. The runs leave this out (`OverrunFiles`).
  A copying output adaptor hands out buffers again after a failed write, and
  drops what is stored in them; `Flush` keeps saying so. The interface
  says of `ByteCount`: "Returns the total number of bytes written since this
  object was created" (`core/io/zero_copy_stream.h:190`). `StringOutputStream`
  appends to the string it is given (`core/io/zero_copy_stream_impl_lite.h:94`)
  and returns the size of the whole string (`core/io/zero_copy_stream_impl_lite.cc:161`),
  so code and comment disagree on a string that was not empty, already before
  the first `Next`; a `LazyStringOutputStream` goes from 0 to that size with its
  first `Next`. `CountsBytesWritten` is what the comment says;
  `NothingIsHeldBack` asks it of every stream but those (`AppendsToText`).
- `DeleteRecursively` puts the first error together in `ret` and returns OK
  (`env.cc:227`); a directory it could not read is counted again when it cannot
  be removed. `RecursivelyCreateDir` answers OK for a path that is a file, and
  the second of two concurrent callers may get ALREADY_EXISTS though the
  directory is there. The branch ABORTED of `ReadFileToString` is unreachable:
  a file that shrank ends in OUT_OF_RANGE.
- Names. For names without a scheme the file system in use is a plain
  `LinuxFileSystem`, which does not override `TranslateName`, so that calls get
  a name with "NOT_IMPLEMENTED_" in front, and `RecursivelyCreateDir` of an
  absolute path would climb for ever, because the parent of "/" is "/". With
  "file://", the climb passes the root into "file:" and makes a relative path
  if nothing but "/" exists. The model has the names of the file system "local"
  and a base directory that exists, where neither happens. `GetSchemeFromURI`
  does not ask that the scheme ends the text it scans ("dir/file:x" has the
  scheme "dir/file") and wants two characters at least; `GetNameFromURI` reads
  the terminator of short names.
- `CallOptions`: a callback that calls back locks `mu_` twice; the timeout is
  not initialised (any member of `Timeouts` at the start).
- `InlinedVector`: `insert(pos, v[i])` and `resize(n, v[i])` use an element that
  was moved or freed before; the model's arguments lie in the vector only for
  `push_back`, which the code takes care of.
- `StringPiece`: `find_first_not_of` of an empty piece returns 0 instead of
  `npos` or the position; `ends_with` wants a strictly longer text. A hex escape
  of more than 7 digits wraps in `CUnescape`; the inputs have none.
- `callback.h`: the destructors of the closures are declared and nowhere
  defined. Messages: a setter by parsing stores a string before it finds that
  the string is not UTF-8, and what serialising writes of such a string parsing
  refuses.

**Findings.**

*`parallel_for_largest`.* `divup` adds before it divides, in
`Index` (an `int`): for a total within a block of the largest `Index`, which
`threadpool.cc:90` accepts, the sum overflows and the block count is wrong. The
barrier's constructor asserts `((count << 1) >> 1) == count`
(`device_thread_pool.h:41`), which then fails; without assertions `Wait` waits
for notifications that never come.

*`library_negatives`.* `safe_strto64` uses the largest `int64_t` as the limit of
negative numbers as well (`core/strings/numbers.cc:194`, whose comment names the
smallest). Its test for overflow, `(vlimit + digit) / 10 > result`, then holds
for every digit 0, because `result` is not positive: "-0" and "-120" are
refused, and so is "-9223372036854775808", which
`src/unittests/strings/numbers_test.cc:166` expects to be read. For the other
digits the sum overflows, which the model takes as the wrap-around of two's
complement. `NumbersAreRead` therefore asks about negative numbers only of the
32-bit function and about the others of all.

## 4. Proofs

| theorem | says |
|---|---|
| `RunQueueProofs`: `RunQueueElementsAreSafe`, `RunQueueRefusesOnlyWhenCrowded` (from `RunQueueInvariant`), `RunQueueIsADeque` | the run queue's elements, and the refinement of `WorkDeque`, for every size of the array, any thieves and works, any wrap-around of the indices |
| `RunQueueProofs`: `SizeIsTrusted` (from `HistoryHolds`) | `Size` hides no work while `front_` does not come round, for the same queues |
| `EventCountProofs`: `EventCountForgetsNobody` (from `EventCountInvariant`), `EventCountKeepsItsContract` | no waiter is forgotten, and the refinement of `EventCountSpec`, for any finite set of waiters, any notifiers, any width of the epoch |
| `ThreadPoolProofs`: `WalkIsComplete` | a walk that finds nothing has looked at every queue, for any number of queues and every random draw |
| `ThreadPoolProofs`: `NoTaskIsStranded`, `PoolRunsEveryTaskOnce` (from `PoolInvariant`), `ExactCounters` (from `BlockedCountIsExact`, `AtMostOneSpinner`) | sleep against push, the refinement of `TaskPool`, and the counters, for any number of workers, any tasks and what they schedule, any capacity |
| `ParallelForProofs`: `EveryIndexIsRunOnce`, `BarrierIsExact` (from `InvHolds`), `SearchProgress`, `SearchIsGood` (from `CallsHold`) | `f` runs once per index, the barrier counts the blocks to come, the search ends well, for any pool, any callers and any calls with `RoomForABlock` |
| `BarrierProofs`: `NoEarlyReturn`, `DestructionIsSafe` (from `SafeDestruction`, `NoAssertionFails`, `TypeCorrect`) | the barrier's safety, for any finite set of notifiers and any waiters |
| `IoProofs`: `OutputIsClean`, `OutputIsComplete` (from `OutInvHolds`) | what a client writes arrives in order and without additions, and all of it once Flush or Close says so; `ByteCount` is as documented but for the two cases named in section 3; for any array, string or copying stream and any sequence of calls |
| `IoProofs`: `BackUpsAreAccepted`, `LimitsAreKept`, `ReadingIsInOrder` (from `InputInvariant`) | a legal BackUp is legal in every layer, a limit is kept, and the refinement of `ByteStream`, for any list of streams, any limits and any sequence of calls |
| `IoProofs`: `ContentsAreWhole` (from `ContentInv`) | an action property: what is read is the file, what a lone writer leaves are its bytes, for any tree, any threads and operations, any calls that fail |
| `IoProofs`: `TreesAreTold` (from `DeleteInv` and `CreateInv`) | an action property: what `DeleteRecursively` and `RecursivelyCreateDir` tell is so, for the same trees, threads and operations |
| `LibraryProofs`: `StorageStaysSound`, `VectorsAreSequences` (from `VectorInvHolds`) | the vectors' memory, and the refinement of `Sequence`, for any inline capacity, any vectors and values and any sequence of operations; arguments may lie in the vector itself for `push_back` only |
| `LibraryProofs`: `TrustedCount` (from `RefInvHolds`) | reference counting, for any threads and any finite set of references |
| `LibraryProofs`: `ClearedIsQuiet` (from `OptionsInvHolds`) | no callback runs once it is cleared, for any threads and callbacks |
| `LibraryProofs`: `FreedInTime` (from `CallbackInvHolds`) | an action property: when callbacks are freed, for any addresses and depth of nesting |

Assumptions: the named ASSUMEs of the modules, which TLC evaluates in the runs.
Sizes of arrays are the powers of two from 4 to 2^16 that the constructor of
`RunQueue` allows. Paths are sequences of names closed under their beginnings,
a plan of `Env` is any function from threads to jobs, and a tree one in which
what is there lies in a directory (`PathAssumption`, `EnvAssumption`). Two
theorems have a hypothesis besides. `ReadingIsInOrder` is about clients that do
not skip past the end of a source that would not notice (`OverrunFiles`), as the
run is. The theorems of `ParallelForProofs` have `RoomForABlock`, which says that
twice the total of a call, and the total plus the number of threads, are Index
values, so that no sum in `divup` overflows; the runs `parallel_for` and
`parallel_for_search` have it, and without it the theorems are false, as
`parallel_for_largest` shows.

*RunQueue.* The array is a ring of which the queue is an arc. Neither the
indices nor the states say so by themselves, because claiming an element and
moving `front_` or `back_` are two steps. The invariant counts an index as moved
from the step at which its element stops, or starts, being `kEmpty`
(`FrontEnd`, `BackEnd`). With the indices counted so, the elements that are not
`kEmpty` are the arc between them without the gap that a `PopBackHalf` has
opened in it, and an element is `kBusy` exactly if it is the one that the owner
or the thief with the lock has claimed (`Shape`). The owner's element is at the
front end and the thief's at the back end or under the gap, so they are
different ones, and `PopBackHalf` finds every element it takes after the first
one `kReady`, which is what the `DCHECK` asks. `ItemsOK` follows the works: each
one is in one element or in one hand. A refused push found its element taken,
so the arc has all the elements but for the gap, which is never larger than
half of the array.

The refinement of `WorkDeque` reads the contents off the same arc, cut at what
is claimed at either end and at the gap (`DequeView`): all the elements that are
left are ready, and none is used by any thread (`UsesOffDeque`). A step that
moves neither end of that arc and hands nothing over is a stuttering step
(`Stutters`), and four lemmas say what the others are (`FrontPush`, `BackPush`,
`FrontPop`, `BackPop`), from facts on the items of an arc (`SpanFront`,
`SpanBack`, `SpanDrops`). What remains is to see for each action where the ends
are before and after it. `PopBackHalf` takes effect as a whole at its only
compare-and-swap: what it has claimed and what lies behind it leave the deque
together, and an item it has not moved yet is counted among those it has taken
(`Under`), so the moves that follow, one by one and without an exchange, show
nothing.

*Size.* The two loads of `front_` that agree are compared with the history of
the moves in between. After u pushes and d pops, of which z took the index past
0, the word is what it was plus u - d in the index and u + z in the counter
(`Within`, with as many rounds as it takes); if u + d is less than either comes round
(`Brief`) and the word is the same, both are 0. Then the load of `back_` in
between is of a moment at which `front_` was what was loaded, and the elements
ready at that moment lie between the two (`SizeSuffices`), on the arc of the
invariant above.

*EventCount.* Epochs wrap, so the proof turns them into tickets: `Count` of a
word is how many waiters had decided by then, `Ticket(w)` how many were
announced before `w`. The undecided waiters hold the tickets from
`Count(state)` to `waits`, one each (`TicketsOK`); under `EpochAssumption` the
signed comparison of `CommitWait` compares tickets. The stack and the list that
each notifier carries off are sequences spelled by the `next` pointers, without
repetition and without a common waiter (`ChainsOK`, `LinesOK`), and a parked
waiter that nobody has signalled is in one of them (`SignalsOK`). What a stale
word means is `SeenOK`: if it still has the epoch of the current word, and its
top is still on the stack, what was read below that is what is there now. That is where ABA is
excluded: a push raises the epoch, so a compare-and-swap of a word from before
the push fails even if the top is the same waiter again. A step either
leaves the tickets alone, hands one out or serves one (`Serves`), and it leaves
the lists alone or changes them in one of three ways (`Quiet`, `Pushed`,
`Taken`, `Signalled`); the invariant is shown to survive these.
The refinement maps the queue of undecided waiters to the tickets in order.

*StealWalk.* The walk adds a coprime of n modulo n, so after k < n steps it is
back at a place it has been only if n divides k times the coprime. The proof has
to show what that needs of divisibility, from the recursive function that
computes the greatest common divisor as the constructor does: by a least
counterexample (`WFMin`), which takes a set where an induction theorem would
take an operator.

*ThreadPool.* `Counted` says that `blocked_` is the number of workers at the
labels between increment and decrement, and that `spinning_` tells whether one
is at the labels of spinning. `Attended` is the argument of the sleep: a
queue that holds a task is either still ahead in the check of a worker, or some
worker is awake or has a notification, or the thread that pushed has its
`Notify` ahead. A worker that parks announced itself before it looked, so a push
that it missed found it announced; a worker that leaves does so only when all
others are blocked and the queues were empty. After `done_` is set the same
holds of the worker that is last to be blocked. `Book` accounts for the tasks:
one that is queued is in one queue, one that is running is on one stack, and one
that is new is still to be scheduled by one frame, which is where
`TaskAssumption` is used. From it follows each step of the refinement: a pop or
a steal followed by the start of the task is `TaskPool`'s start, at most once,
and the destructor returns with all queues and stacks empty.

*ParallelFor.* The search compares efficiencies, which are fractions. What it
keeps (`Divided`) is that the best efficiency so far is at least that of the
finest division, and that of the chosen blocks is within one percent of it
and of the last tried; transitivity of that comparison (`Slack`) is what one
iteration needs. A coarser size has fewer blocks because the size is at least
the total divided by one block less (`CoarserHasFewerBlocks`).
The handling is about ranges, wherever they are: `Placed` says that each is in
one place, `RangesOK` that it begins and ends on the grid of its call's blocks,
`PartsApart` that no two hold the same index. Each step of `handleRange` puts
parts of a range in its place: the same range under another label, what is left
and the right half, the left half. Since the parts hold what the range held
(`Parts`, `Covered`), neither the blocks to come nor the indices to run change
but in the two steps that run a block and notify the barrier. That the cut of a
range is inside it and on the grid is `MidIsInside`. `CountsOK` counts the
multiples of the block size that some range holds, `Starts`; at the start these
are as many as `divup` says (`BlocksOfACall`), a block holds one of them
(`OneStartInABlock`), and as the ranges are apart, there are as many as there
are pairs of a range and a block in it, which the property counts
(`BlocksByTheirStart`). When the count is zero no range is left, because
every range begins on the grid, so `Return` leaves none behind.

*OutputStreams.* A property of the destination alone is not inductive, since it
says nothing of what is under way. `OutInv` has one part for each kind of
stream. An array is the client's up to `position_`, less the buffer handed out
(`ArrayOK`); a string is the client's behind what it held at the start
(`StringOK`). For a copying stream (`CopyingOK`) what arrived is bytes 1, 2, ...
up to `position_`, and the filled part of the buffer is the ones that follow;
after a write that failed only the first half is kept: the buffer is given up and
since `failed_` is never reset nothing arrives behind the gap. `flushed` implies
that everything arrived, and only a client's store could change that, which
needs a Next before it. `SinkAssumption` says that a stream is what its
constructor makes of its arguments; the block of a copying stream is not empty.

*InputStreams.* One lemma per method and kind of stream says what it makes of a
stream and of the client's buffer (`LeafBackUpIs`, `LeafNextIs`, `LeafSkipIs`).
The invariant puts every buffer in its place: the buffer the client holds lies,
with what the limit hid of it, right before the place of the current stream, so
a BackUp of no more than that is one of the stream; and the bytes read, retired
and lost add up to that place. That the loop over the concatenated streams goes
on from one to the next is by recursion on their number (`Follows`,
`ReachedFollows`): a recursive function is a choice among the solutions of its
equation, so `Iteration` first shows that there is one, and does induction by a
least counterexample. The refinement reads the position off the same sum.
`SetupAssumption` says that the streams are as their constructors make them.

*Env.* One lemma per action says what the system call makes of the tree, the
bytes and the locals (`LookupIs` to `WriteCloseIs`); with them every step keeps a
tree a tree, each job at a label of its operation, the name it makes cut in two
parts, and the directory it deletes first on its list (`EnvBasics`, `StepKeeps`).
A reader has, of a file that nobody wrote to since it asked for the size, a
beginning of the file (`ReadingOK`); files that are written to are counted in
`writes`, so an equal count means equal bytes (`StepGrows`). A lone writer's file
is its bytes up to what was flushed (`WriterOK`), as no other thread truncates
or writes any.
`DeletionTold` has two halves. If nothing is counted, the last directory to be
removed was the one named, and in a tree nothing can be below what is absent
(`NothingBelow`, by a least counterexample). That a lone deletion counts nothing
needs the search: the list and the queue behind it have no repetition, and the
children of a directory on the list come later in that order or are still to be
looked at (`Search`). So when the queue is empty every directory has its
children behind it (`Ranked`), and is empty when its turn comes from the end.
`CreationTold`: as long as the directory is absent, either one thread is about
to make the next part of the path, whose parent is there and which is not
there, or all still look for what there is, and what they found missing is
missing (`CreateOK`). A thread that finds its part made by another stops with an
error, but then the other one is the one that goes on.

*InlinedVector.* A vector is the representation of a sequence (`Is`): inline or
a block with its capacity, whose memory holds exactly the elements and raw
cells behind them. A lemma per method says which sequence the vector is
afterwards, from what constructing, assigning and destroying a cell do to the
memory (`ConstructedIs`, `AssignedIs`, `DestroyedIs`); the loops over elements are
recursive functions again. `Becomes` and `StepIs` tie each operation to the one
of `Sequence` of the same arguments, so soundness of the storage and the
refinement come from one invariant. `FitAssumption` says that one element at
least fits inline, `CellAssumption` that raw cells, cells that were moved from
and ruined memory are no values.

*Barrier.* Return early and use after destruction are not inductive by
themselves. `Inv` says that the word is twice the notifications to come plus
the flag (`WordIsExact`), that `mu_` is held exactly at the labels of the
critical sections (`LockIsExact`), and that a notifier that goes on to wake is
the last one and that some waiter is then inside and cannot leave before
`notified_` is set and `mu_` released (`LastNotifier`). The one step that needs
arithmetic is the decrement, where 2c + f = 1 only if c = 0 and f = 1.

*RefCount.* The count is the number of references held until the deletion
(`CountIsExact`); a thread about to delete holds the only reference or has
given it up as the last (`DeleterIsAlone`), and after the deletion nothing is
held. The bypass in `Unref` is sound because a count of one is the caller's own
reference, and only a holder can make another.

*CallOptions.* The thread that is inside a method is the one that holds `mu_`
(`InsideHoldsTheLock`), so while one acts on `cancel_func_` all others are
outside and run nothing; the callback that runs is the one that is set
(`RunsWhatIsSet`), and what is set is not among the cleared
(`SetIsNotCleared`).

*Callbacks.* A run that will delete its callback finds it, started and
self-deleting, where it was (`DeleterFindsIt`), no other run will delete it
(`OneDeleter`), and every started callback of `NewCallback` has such a run
(`StartedIsRunning`). The action property follows: the only step that frees a
self-deleting callback is the end of that run. It needs the first fact, because
what a permanent callback's run finds at its end may be another object.

Only model-checked, and why:

- all liveness, which rests on fairness and ENABLED;
- the functions of the library (`EncodingsKeepOrder`, `NumbersAreRead`,
  `TextIsKept`, `PathsKeepThePlace`, `MessagesMerge`): their definitions are
  RECURSIVE operators, and what they compute for every input is an induction
  over data, both beyond the prover.

## 5. Not modelled, and why

Of what is modelled: weak memory orders; the values of the random generator
(every draw is considered); stack sizes and other thread options; exceptions
thrown by tasks or elements; the overflow of `unsigned` indices beyond `Laps`
wraps; loops of `ParallelFor` with costs of loads and stores; symbolic links,
permissions and memory-mapped files; messages of a `Status`; arenas,
reflection, cached sizes and the bytes of wire entries.

| part | why |
|---|---|
| `MaxSizeVector` | an array that is filled before the threads start |
| `simple_thread_pool.h` | nothing instantiates it and it does not compile |
| `dr/server_interface`, `dr/rpc`, `dr/master_env.h` | a map under one lock with single critical sections; methods without logic |
| `ArraySlice`, `map_util.h`, `stl_util.h`, `template_util.h`, `type_traits.h`, `mem.cc`, `macros.h` | views, wrappers and compile-time code |
| `strcat`, `stringprintf`, `proto_text_util` | formatting |
| `core/system/load_library.cc`, `linux_env.cc`, `core/system/context.h` | `dlopen`, clocks, sleeping and detached threads; `Context` is empty |
| `cr/`, `framework/`, `public/` | data holders |

## 6. Plan

1. Done: the pool with its queue and event count, the barrier, `ParallelFor`,
   reference counts; the streams, `Env` and the tree of files; `InlinedVector`,
   callbacks, `CallOptions`; the functions on texts, numbers, paths and
   messages; the proofs above.
2. Proved: every safety property of the runs but those of the functions (see
   section 4).
3. To model next: `ParallelFor` called from tasks on every worker at once, which
   the code does not survive; clients that skip past the end of a file.
