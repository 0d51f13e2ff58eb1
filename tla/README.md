# Verification of dpll_sim

TLA+ models of dpll_sim, a digital phase-locked loop simulated with threads,
and of the libraries it is built on: message queues, buffer pools, intrusive
lists, time arithmetic, locks, counted pointers, threads, tickers, sockets and
poll sets. TLC checks the models on small instances; the TLA+ proof system
(tlapm) proves the type invariants, every safety property the runs check, two
refinements and the arithmetic for every instance. Liveness stays with TLC.

- `X.tla`: the model of a component, with its properties.
- `MCX.tla` and `X_<what>.cfg`: a small instance for TLC.
- `X_proofs.tla`: theorems about X. Three of these are about several models:
  `PhaseLoop_proofs` about what measures and steers the phase (`Timespec`,
  `ClockSource`, `PhaseDetector`, `OutlierFilter`, `LoopBandwidth`),
  `DpllSim_proofs` about the program and its `LockStages`, and `PosixFe_proofs`
  about `posix_fe.h` (`Timeval`, `PosixThread`, `Ticker`, `Descriptors`,
  `PollSet`, `EventLoop`). `MessageRefs` is in `SlingerPool_proofs`, `LockGuards`
  and `SharedPtr` in `GuardedPtr_proofs`.
- `PROJECT.json`: the runs, the source lines of every definition, the mutants,
  the hazards and the theorems.

## 1. The system

`dpll_sim` starts three threads. `ref_thread` stands for a 1PPS reference and
`osc_thread` for a local oscillator; each stamps a message with
CLOCK_MONOTONIC about 100 times a second. `dpll_thread` pairs the messages,
measures the phase error and tunes `osc_interval`, the period of
`osc_thread`. Messages come from a pool of 100 buffers, travel through one
queue, and go back to the pool. `main` creates the threads, waits for a key,
sets `done` and joins them.

    ref_thread --\                                  /--> osc_interval
                  >-- q.enqueue -- q.dequeue -- dpll_thread
    osc_thread --/                                  \--> p.release
        ^ p.alloc                                         |
        +------------------------- pool p <---------------+

`dpll_sim2` is the same program with another loop: its sources, detector and
`main` are those of `dpll_sim`, and a loop bandwidth that shrinks and grows
takes the place of the stages of gains. The rest of `lib/` is general: the two
programs use a part of it.

### Inventory

| component | state it keeps | operations | used by |
|---|---|---|---|
| single queue (`thread_slinger.*`) | list, mutex, condition variable, `waiter` | enqueue, enqueue_head, dequeue, dequeue_tail | `q`, and the free list of each pool |
| multi-queue dequeue (`thread_slinger.cc`) and `Semaphore` (`LockWait.h`) | `waiter_sem` of each queue, `value` | dequeue from several queues; init, give, take | library only |
| buffer pool (`thread_slinger.tcc`) | free list, `usedCount`, `freeCount`, the pool pointer and the `refcount` of each buffer | alloc, add, release, getCounts; ref, deref | `p` |
| DLL3 list (`dll3.*`) | `next`, `prev`, `lst` of each Links, `cnt` | four adds, remove, two dequeues, promote, four gets | all queues |
| DLL3 Hash, HashLRU | buckets, `cnt`, `hashorder`; list and table | add, remove, find, rehash, promote, get_oldest | nobody here |
| time arithmetic (`posix_fe.h`) | - | +=, -=, comparisons, conversions and units of pxfe_timespec and pxfe_timeval | the sources |
| clock sources (`dpll_sim.cc`) | `ref_desired`, `osc_desired`, the clamp on `osc_interval` | one loop each | - |
| phase detector (`dpll_sim.cc`) | IDLE, UP, DOWN; `last_ref`, `last_osc` | one message | - |
| statistics (`stddev.h`, `dpll_sim.cc`) | ring buffer of 100 readings | add, average, variance, slope; 3-sigma test | dpll_thread |
| lock stages (`dpll_sim.cc`) | `stage`, `lock_count`, `unlock_count`, sign of the accumulated error | one reading | dpll_thread |
| loop bandwidth (`dpll_sim2.cc`) | `loop_bw`, the ring of readings | one message | dpll_thread |
| program (`dpll_sim.cc`) | `done`, the pool, the queue | start, run, shutdown | - |
| threads and tickers (`posix_fe.h`) | `state`, `id`; `paused`, two pipes | create, stop, join, stopjoin; start, pause, resume, destroy | library only |
| descriptors and sockets (`posix_fe.h`) | `fd`, the path of a unix socket; the kernel's table and names | open, init, accept, setFd, close, destroy | library only |
| poll set (`posix_fe.h`) | `fds`, `by_fd`, `freestack` | set, eget, rget, compact, poll | library only |
| shared pointers (`posix_fe.h`) | `ptr`; a count in each object | construct, assign, move, reset, _give, _take, cast, destroy | library only |
| lock helpers (`LockWait.h`) | mutex, `locked`; `lockCount` of each Lock | Lock, Waiter, signal, broadcast | library only |
| rest of `posix_fe.h` | - | wrappers of mutexes, strings, directories, addresses | the programs use a few |
| signal backtrace, plot scripts, `saved/` | - | - | - |

### What is hard, and what makes each part correct

- **Single queue.** A sender reads `waiter` under the mutex and signals after
  it has let the mutex go; a receiver can be woken for a message another one
  took, by nobody at all, or by its deadline while a message is being added.
  Correct: no message is slept on, none is received twice or lost, NULL is
  returned only from an empty queue, and a timed call returns.
- **Multi-queue dequeue.** The receiver publishes a semaphore without the
  mutexes of the queues, resets it without its lock, and scans. Correct: no
  order of a give, the reset and the scan leaves it asleep on a message.
- **Pool.** The list and the counters are under different locks, and `deref`
  releases with the message's lock held. Correct: a buffer is never with two
  users and never lost, the counters are right whenever nobody is between the
  two, and a message goes back with its last reference and not before.
- **Lists.** Pointer surgery through a head that is itself a node. Correct:
  the pointers behave as sequences do, for any calls on any lists.
- **Clock sources.** Normalised and not quite normalised timespecs, negative
  sleeps, scheduling delays, and a period rewritten under way, without a lock.
  Correct: no drift, valid sleeps, no early stamp, and a period out of range in
  the round that a store falls into at most.
- **Phase detector.** Messages arrive in another order than their stamps, and
  a source may tick twice in a row. Correct: exact errors, between adjacent ticks
  wherever the stamps tell which came first.
- **Outlier filter.** A ring that wraps, and a threshold computed from what it
  accepted before. Correct: the ring is the last accepted readings, and only
  rare readings are rejected.
- **Lock stages.** An index that moves on three conditions and two counters
  that outlive a move. Correct: legal index, moves only when earned, and
  steady input leads to the last stage.
- **Loop bandwidth.** A floor, a cap and two factors pull at one number.
  Correct: it gets to the end of its band that the loop asks for.
- **Threads and tickers.** A stop finds the thread unborn, between two flags,
  in a select, in a blocked write or gone; a stop byte nobody read would end
  the next thread. Correct: one thread at most, nothing of it left when the
  object is used again, and calls that return.
- **Sockets and the poll set.** The kernel gives numbers again, and an object or
  a slot may still know them. Correct: every descriptor has one owner, a name is
  removed by its owner only, and the poll set answers for the right descriptor.
- **Locks and shared pointers.** Counts in the Lock, in the recursive mutex and
  in the object; two halves of an assignment with other threads between them.
  Correct: the mutex is held exactly as the Locks say, and an object is deleted
  once, when its last holder lets go.
- **Program.** Sources that end for good when the pool is empty, and a
  shutdown in which nobody wakes anybody. Correct: buffers are conserved, the
  pool lasts, every message is handled, and the program ends.

## 2. The models

### MessageDeque and SlingerQueue (the single queue)

`SlingerQueue` models `_enqueue`, `_enqueue_head` and `_dequeue_int`. A
critical section touches protected state only and is one step; the steps that
are separate are those the code separates: the call, the critical section, the
signal after `unlock()`, the wait, its end (signalled, expired or spurious) and
the next critical section. `waiter` stays set once set, as in the code, where
the lines that would clear it are commented out; the mutant that restores one
makes a blocked receiver invisible. uSecs is one of the four classes that
`_dequeue_int` tells apart. Every thread may send and receive.

`MessageDeque` is what the queue promises: a deque on which each call takes
effect in one step between its call and its return, with fairness for
receivers. `ImplementsDeque` is the refinement. Fairness: a thread that is not
blocked runs (weak); a deadline that has passed ends the wait at the latest
when the waiter is woken again (strong fairness of `Expire`, as the abstime is
computed once). Nothing is assumed of callers, nor of spurious wakeups.

### MultiQueue (several queues at once, and Semaphore)

The receiver publishes the semaphore in each queue, resets it, scans the queues
in order and takes from the semaphore. `value++` in `give` is a load and a
store under the semaphore's lock; `init(0)` takes no lock and can fall between
them. A give may belong to an earlier call. One receiver, as the header asks
("send a message to the receiver").

### SlingerPool and MessageRefs

`SlingerPool` has `alloc`, `add` and `release` with the list operation and each
counting as steps of their own. The list operations are atomic, which
`SlingerQueue` justifies. A release may name any pool: the buffer goes to its own. An alloc that returns NULL and a refused release
change nothing and are no steps; `CountsConserved` says how far each counter may
be off while calls are under way.

`MessageRefs` extends it with `ref` and `deref`: the message's lock is held over
the release inside `deref`. A holder counts itself first and then each of the
others, and who holds a counted message gives it back with `deref` only.

### ListContents and DllList

`DllList` has `next`, `prev`, `lst` and `cnt` as the code has them; a list and
its head are one node. Every public call is an action (`get_cnt`, `onlist` and
`onthislist` read `cnt` and `lst`, which `RingsAgree` is about).
`checkvalid` and `lockwarn` print and carry on, so what they test is the
caller's duty and a guard here. `ListContents` is the abstract specification:
sequences, and the result of each call. The refinement mapping walks the ring
from the head, as a loop over `get_head` and `get_next` does, and
`ImplementsLists` maps every call to the abstract call of the same name.

### Timespec, Timeval and ClockSource

`Timespec` holds the arithmetic and the comparisons of pxfe_timespec as operators
on records, `Timeval` those of pxfe_timeval and the conversions between the two,
from a double (a fraction here), and into other units, in words of the code's
width. Time is an integer; a second has NSEC units. Both `+=` test `>` where
a carry needs `>=`, so a sum of exactly one second is left in the small field:
`Timespecs` and `Timevals` contain that value, the `Normalised` sets do not.

`ClockSource` is the loop of either thread: two tests, clamp, plan, look at the
clock, sleep, wake, spin, enqueue, with the clock moving between any two. A round
of `osc_thread` reads `osc_interval` in each test and for the period, and may
store a bound (dpll_sim.cc:169, 171, 170 and 172, 174); each of these is a step, and
dpll_thread stores at any moment in between. A build that keeps the value in a
register has some of these behaviours and no others. The ghost `raced` says
that what `osc_interval` holds was stored after the first test of the round:
`PeriodInRange` is about the rounds that use another value. The relative sleep
starts after the reading it was computed from; a negative or invalid argument
returns at once.

### PhaseDetector

Both sources, the queue and the first half of the message handler. A source
stamps a tick between its due time and the jitter bound and enqueues it in a
later step, so that stamps and arrivals can be in different orders. The
oscillator's period changes in every round. `nsecs()` is computed modulo a
power of two and cast back, as the code does.

The sources here are on time, within the jitter; lateness is the subject of
`ClockSource` and `DpllSim`. `PairsAdjacent` needs this. It says of the ghost
`ticks`, the stamps of all messages, that none lies between the two compared
unless it is within the jitter of one of them. Two ticks that close can be
enqueued against the order of their stamps: REF 4 is handled, REF 8 stamped, OSC 9
stamped and enqueued first, and compared with REF 4.

### OutlierFilter and LoopBandwidth

`OutlierFilter` is `stats_history` as a ring of integer readings, and the 3-sigma
test. Averages and variances are fractions and are compared by
cross-multiplication, so the model is exact where the code rounds: with n
readings x, sum S and D the sum of (n x - S)^2, the average is S/n and the
variance D/n^3.

`LoopBandwidth` extends it to the message handler of `dpll_sim2.cc`: a message
completes a pair or not, a pair gives a reading, an accepted reading adjusts the
bandwidth. Which gains follow is floating point and left out; that the slopes
were small (`calm`) and which row of `calc_min_bw` the average selects
(`err_level`) are free in every step. `BandwidthSettles` has no fairness in the
specification: its premise says which readings go on coming.

### LockStages

The second half of the handler. A reading is abstracted to what the stage
machine asks of it: outlier or not, good in both tests or not, sign of the
accumulated error. The thresholds are constants, functions of the stage. The
gains are left out: no transition depends on them otherwise. `Settles`
assumes that pairs keep coming and that not all are outliers for ever.

### DpllSim

The whole program: creation, the loops of the three threads on the pool and
the queue, the key, the joins. The pool is a number and the queue a sequence:
`SlingerPool` and `SlingerQueue` justify single steps. A source that finds the
pool empty ends. `ref_thread` starts at the last full second with a backlog of
up to HZ - 1 ticks. `main` sleeps 100 microseconds after each creation (`NapEnds`).
`prompt` tells behaviours in which threads run as soon as they can from those of
any scheduling: time then passes only when all wait, which they may also do
while `main` sleeps between the creations. Three such naps are far shorter than
the 10 milliseconds of a tick, so prompt behaviours have one tick at most in
them (`early`), and it comes to `ref_thread`, whose ticks are those of the second:
the first of `osc_thread` is a whole INTERVAL after its start. Fairness: every
thread and the clock keep going; the key may never come.

### PosixThread and Ticker

`PosixThread` is pxfe_pthread: a critical section on `mut` is one step; what is
outside of it (pthread_create, the signal of `_entry`, the wait of `create`,
pthread_join) is a step of its own. `Ticker` extends it with the loop of
`entry()`, the two pipes and the calls of its users, who start, pause, resume,
stop, join and destroy in any order. After the destructor the object is
constructed anew. `late` is a ghost. Duties of the users, as guards: one of them
joins at a time, and nobody calls an object that is being destroyed. Fairness is
weak: a thread or a call that can go on does, and the 5 seconds of the wait of
`create` end. Nobody need read the ticks, and `StopReturns` shows that this alone
can make a stop hang (posix_fe.h:2430).

### Descriptors, PollSet and EventLoop

`Descriptors` has the objects that hold a descriptor, the kernel's table, which
gives the lowest free number, and the names of unix sockets. Any system call may
fail. `PollSet` is pxfe_poll with its three vectors; the ghosts `asked`, `heard`
and `polled` remember what was last asked for and reported; `Compact` is the loop
of compact, one round for each hole of the sorted stack. `EventLoop` composes
them to a server in one thread. Its duties are three: it takes a descriptor out
of the set before it closes it (`Unpolled`); it closes an object before it
initialises it again (`fd[o] = -1` in `Open` and the inits); and it gives a unix
socket a descriptor by the `open` or `setFd` it inherits only if the path that is
left in it is empty or one it bound itself (`MayAdopt`), which is what `NameKept`
rests on. The code checks none of the three.

### LockGuards, SharedPtr and GuardedPtr

`LockGuards` has Lockable, Lock, Waitable and Waiter; a Waiter waits only while
it is the one locked Lock of its thread, as pthread_cond_wait gives a recursive
mutex up once. `SharedPtr` has pxfe_shared_ptr: every call that points a pointer
elsewhere is two steps, the deref of the old object and the new value with its
ref. `GuardedPtr` composes them: each thread has a pointer of its own, and uses
the shared one only under a Lock. No pointer is assigned to itself, which would
delete the object if it is the only one (posix_fe.h:495).

## 3. What TLC checks

Sizes are in distinct states.

| run | properties | bounds and why they are enough |
|---|---|---|
| `queue` (95 316) | `NoLostWakeup`, `ImplementsDeque`, `TimedDequeueReturns`, `QueuedMessageMoves` | 3 threads, 2 messages: two receivers compete while one sends, or two senders signal one receiver; the list has 0, 1 or 2 elements |
| `multi` (263 781) | `NoSleepOnMessage`, `PriorityKept`, `MessageServed`, `TimedReturns` | 2 queues, 2 senders, 2 messages, value up to 3: a stale give and a new one meet in one call, in either queue |
| `pool_counts` (61 589) | `CountsConserved`, `OnePlace`, `NoneLost`, `LastDerefReleases` | 3 threads, 2 pools, 3 buffers, 3 holders of a message, with symmetry (no liveness): each window open at once, a wrong pool to release into, and two derefs that meet |
| `lists` (2 680) | `RingsAgree`, `ImplementsLists` | 2 lists, 4 items: removal from the middle, and neighbours on both sides that change lists |
| `clock_timing` (4 094 392) | `NoDrift`, `SleepsToTheAlarm`, `StampedWhenDue`, `PeriodInRange` | seconds of 8 units, period 4 within 3 .. 5, time up to 20: the aligned reference meets the second boundary in every other round, where the carry errs; settings in, below and above the range, stored before, between and after the reads of a round |
| `phase_pairs` (2 918 927) | `PhaseErrExact`, `PairsAdjacent` | period 4, oscillator 3 to 5, jitter 2, every phase; three to four ticks of each source, enough for a double tick and a reversed pair |
| `bandwidth` (79 038) | `RingIsWindow`, `SlopeExact`, `CommonAccepted`, `BandwidthSettles` | 5 slots, filter from 3 readings, three readings on both sides of 0: the ring wraps, and the filter works on a partial and on a full ring; a band of 2 .. 11 with two floors, entered from both ends |
| `lock_stages` (649) | `UpEarned`, `DownEarned`, `Settles` | 4 stages: the first, two inner ones (up and down both ways), the last; counts in the order of those in `pll_coeff.py` |
| `sim_shutdown` (408 535) | `BuffersConserved`, `SourcesOutlast`, `Terminates`, `SentIsHandled` | 5 buffers, backlog up to 3, ticks owed counted up to 3: backlogs on both sides of the bound of `SourcesOutlast`, a tick in a nap with the whole backlog in the queue; the pool runs empty, and every place holds a buffer |
| `ticker` (201 558) | `IdleIsClean`, `OneLateTick`, `StopReturns`, `CreateReturns` | 3 users, a pipe of 2 bytes, one thread id more than can live at once: two users in calls while the third pauses or creates; the pipe fills |
| `server` (948 886) | `AnswersRight`, `Owned`, `NameKept` | 5 sockets of three kinds, 3 descriptors, one name for two: the descriptors run out, every number is given again with an old slot about, and a bind finds the name taken |
| `guarded_ptr` (400 548) | `CountExact`, `LocksHold` | 2 threads, 2 objects, 2 Locks of 2 levels each, with symmetry (no liveness): each thread in the middle of a call while the other drops, waits or signals |

The type invariants (`TypeOK` and its like) are proved rather than run, except
`RefTypeOK` of `MessageRefs`, whose bound on holders is the run's. Every property of a run has a mutant, an operator
`M_...` beside the one it stands for, that breaks it the way a plausible bug
would.

### Disagreements between the code and its comments

No property above depends on these; they were met while modelling.

- The documentation of `dequeue` (thread_slinger.h:155) says that a negative
  uSecs waits for ever. Only -1 does; another one goes to a timed wait without
  a deadline (thread_slinger.tcc:263).
- `operator+=` of both time classes, the deadline of a queue
  (thread_slinger.tcc:239) and that of `Waiter::wait` (LockWait.h:309, 318) carry
  only when the sum is more than a second, so exactly one second stays in the
  small field. A system call refuses such a value. `NoDrift` and
  `SleepsToTheAlarm` show that the clock sources come out right all the same;
  `AddExact` and `TvAddExact` that the value is right, if not normalised.
- `set(double)` rounds to the nearest unit from 0 up (`SecondsRound`), where it can
  leave a whole second in the small field; it rounds a negative number of seconds
  by up to one and a half units.
- An empty pool "shouldn't happen" (dpll_sim.cc:117, 166), but a start late in a second
  with prompt threads empties it, and a source ends for good. `SourcesOutlast` is
  the condition under which it does not: a backlog at least three below the size
  of the pool. With two below, a tick during a sleep of `main` between the creations
  takes the last buffer before `dpll_thread` is there.
- `isLocked()` (LockWait.h:61) answers false for a mutex that is held after the
  unlock of a second Lock of the same thread, and after a wait during which
  another thread locked and unlocked it (LockWait.h:193). Its comment warns of
  changes after the answer only.
- `pxfe_semaphore::take` with a time never gives up: pthread_cond_timedwait answers
  with a positive number, and the test is for a negative one (posix_fe.h:981).
- `rget` answers 0 "if none" (posix_fe.h:2362), but the revents of the slot's last
  life for a descriptor that was set after the last poll.
- `report_pools` and `unregister_pool` use the list of pools without asking whether
  any pool has made it (thread_slinger.cc:204, 214).
- A udp or stream socket whose bind fails keeps its descriptor (posix_fe.h:2004,
  2156), where the unix one closes it: a caller that retries init without close
  leaks one each time.
- `Hash::rehash` with `hashorder` 15 steps past the 16 primes, and `_rehash` counts
  every item again (dll3.tcc:383).

### What the properties leave room for

Three things the code can do are exceptions in the properties above. The runs
reach the first two; a duty of `EventLoop` rules the third out.

- A value that dpll_thread stores after the first test of a round of `osc_thread`
  can be used as the period of that round without being in MIN_INTERVAL ..
  MAX_INTERVAL (dpll_sim.cc:169-174). The next round tests it.
- Ticks of the two sources within the jitter of each other can be enqueued in
  the opposite order of their stamps; that reading compares a tick with the one before
  its neighbour, and is off by about a period (dpll_sim.cc:191).
- The destructor of a unix socket removes the name in its path, also when its
  bind failed and it got its descriptor by `open` or `setFd`: the name of another
  socket (posix_fe.h:1146, 1180, 1871).

## 4. What is proved

| module | theorems | argument |
|---|---|---|
| `SlingerQueue_proofs` | `QueueTypes`, `QueueWaiterVisible`, `QueueNoLostWakeup`, `QueueOnePlace`, `QueueRefinesDeque` | `NoLostWakeup` counts messages against signals under way; it is inductive with `WaiterVisible` and the shape of each call (what a thread's position says of its locals). The refinement maps each step to a step of the deque or a stutter; its fairness stays with TLC |
| `MultiQueue_proofs` | `MultiTypes`, `MultiNoSleepOnMessage`, `MultiPriorityKept` | a message behind the scan is in the semaphore or about to be (`Counted`): its sender saw the semaphore published and has not stored yet, and a store makes `value` positive even when the reset falls into it. For the priority: what the queues already passed hold has come since the pass began (`Pass`), and no step takes a message but from the queue the scan is at |
| `SlingerPool_proofs` | `PoolTypes`, `PoolFreeCount`, `PoolUsedCount`, `PoolCounts`, `PoolOnePlace`, `PoolNoneLost`; `RefsArePools`, `RefsConserve`, `RefsLastDeref` | the counters are right up to the number of threads in each window; `OnePlace` needs that only born buffers are anywhere and that a resting buffer is at home; the used count needs both. A held message knows its pool, so every step with counts is one of the pool or none, and all of that holds with reference counts, as the run checks it |
| `DllList_proofs` | `ListTypes`, `ListRingsAgree`; `ListImplementsLists` | `TypeOK /\ RingsAgree` is inductive: neighbours on a ring point at each other, so linking and unlinking change one ring at two places, and an item off its list is pointed to by no ring. The refinement: see below |
| `GuardedPtr_proofs` | `GuardsTypes`, `GuardsLocksHold`, `GuardsCountExact` | the mutex: a thread that waits has exactly one locked Lock, so that what it gives up and takes again is what it had. The pointers: a thread in the middle of a call runs and may still use the pointers of the call (`HalfHeld`), so by `LocksHold` no other thread fills or drops them, and each half moves one holder in or out of one object |
| `PhaseLoop_proofs`: time | `AddExact`, `SubExact`, `LessExact`; `ClockTypes`, `ClockNoDrift`, `ClockSleepsToTheAlarm`, `ClockStampedWhenDue`, `ClockPeriodInRange` | the arithmetic of timespecs is exact for operands whose tv_nsec is 0 .. NSEC, one value more than normalised; no chain of += and -= leaves that range, so the value of the due time is a plain sum. When `raced` is false before the period is read, the value is one that both tests let pass, or the bound (`PeriodChecked`) |
| `PhaseLoop_proofs`: phase | `DetectorTypes`, `DetectorPhaseErrExact`, `DetectorPairsAdjacent` | the invariant says which ticks are stamped, in the queue and handled, and that the stamps of a pair differ by less than a period and the jitter (`InReach`), which `PhaseErrExact` needs. `QueueAdjacent`: messages of different sources that follow each other in the queue are of adjacent ticks, and a tick later than the jitter after the last one enqueued is still held by its source. The 64-bit products and sums of `nsecs()` wrap, and cancel out when the difference is less than half the word |
| `PhaseLoop_proofs`: filter | `FilterRingIsWindow`, `FilterCommonAccepted`, `FilterSlopeExact`; `BandwidthInBand` | the slot of the i-th oldest reading holds it, before the ring is full and after (`RInv`). A value that enough slots hold is within 3 sigma of the average: its own squares are a part of the variance. The slope of the code, a sum of differences, telescopes. The bandwidth is in the band of the row that set it |
| `DpllSim_proofs`: program | `SimTypes`, `SimBuffersConserved`, `SimSourcesOutlast` | free, queued and held buffers are all there are, less those `add` has not made yet; a prompt source has sent its backlog and the tick of a nap, or owes at most what is left of them (`Bounded`, under the `Roof` of backlog and `early`), so that all that is pending leaves the pool one buffer |
| `DpllSim_proofs`: stages | `StagesTypes`, `StagesExclusive`, `StagesBounded`, `StagesUpEarned`, `StagesDownEarned` | `CountsAreRuns` strengthens the invariant: a counter never exceeds the run of readings since the stage was entered |
| `PosixFe_proofs`: time | `TvAddExact`, `TvSubExact`, `OrderExact`, `RoundTrip`, `ToTimevalCuts`, `SecondsRound`, `BreakdownExact`, `CountsExact` | arithmetic, for every value of the fields, and the comparisons of both classes for normalised ones; seconds in floating point come out nearest, and units cut off by less than one (`CutOff`), from 0 up and as long as the word holds them |
| `PosixFe_proofs`: ticker | `TickerTypes`, `TickerIdleIsClean`, `TickerOneLateTick` | `TInv`: which phases of the thread go with which `state` (`Phase`), which caller is in which call (`Calling`), and when a tick may still come after the pause (`Lateness`). A stop byte is in the pipe only while a stop is under way and the thread has not read it |
| `PosixFe_proofs`: server | `DescriptorsOwned`, `DescriptorsNameKept`, `PollAnswersRight`, `ServerTypes` | `DInv`: an open descriptor has one holder and none other is held (`FdHeld`), and a path with a descriptor is remembered by the object that bound it (`NameKept`, inductive with the duty `MayAdopt`). `PInv`: index, slots and stack agree (`Agreed`), and the entries answer what was asked and reported. compact sorts the stack and moves the last slot into each hole: each of its rounds keeps `Agreed` with one hole less |

**ListImplementsLists.** The invariant is `Spelled`: for every list there is a
sequence of the items whose `lst` names it, without repetition, and next and prev
run through it from the head and back to it. Four lemmas carry the weight. A walk
with get_next reads that sequence (`WalkReads`: the recursive function of the
refinement mapping has one solution, found by induction, and it ends within as
many steps as there are items). Linking an item in between the nodes at places
n - 1 and n is `InsertAt` (`ReadsLinked`); taking one out is `RemoveAt`
(`ReadsUnlinked`); `promote`, which the code does in one go over six pointers, is
one and then the other (`PromoteLinks`). And a list none of whose nodes is
touched reads as before. Each call is then one of these at a place that
`ListContents` names as well. The property relates every call to the call of the same
name, so it is more than that some abstract step explains each.

Inductions over numbers (the walk, the rounds of compact, the sums of the
statistics) go through a lemma of that name in the modules that need it: a set of
naturals with a least element that is missing has none, by the library's theorem
that < is well founded on Nat. The recursive functions of the models are each
shown to have one value before anything is said of it.

The assumptions are the named `ASSUME`s of the modules:

- *names and sets*: finite sets of threads, buffers and items; a null pointer that is
  no message, buffer, pool or object; the empty name is no object (`Descriptors`); a
  non-empty set of natural numbers for descriptors and nonzero naturals for poll
  events; a shared pointer that is no thread's own; the two kinds of message differ.
- *time*: a second of KILO^3 nanoseconds; an early alarm within a second; a nominal
  period within its limits; what dpll_thread stores as the period is not negative:
  its adjustments are smaller than a period.
- *the detector*: the reference's jitter is below its period, and every oscillator
  period above the jitter and at most `MaxOscPeriod`; the word the phase error is cast
  to is even and more than twice the longest jittered period, which 64 bits are.
- *the loop*: thresholds that are positive and `lock_thresh_count < lock_fail_count`,
  as in `pll_coeff.py`; a history ring with `MinHistory` at least one and at most its
  size; the lowest bandwidth of level 0 is the least of the floors and no floor
  exceeds `MAX_LOOP_BW`.
- *the program*: the pool holds four buffers at least, one sent and one held by each
  source; a pipe holds one byte at least.

Model-checked only: the liveness properties, as fairness and ENABLED are beyond the
prover: `TimedDequeueReturns`, `QueuedMessageMoves`, `MessageServed`,
`TimedReturns`, `Settles`, `Terminates`, `SentIsHandled`, `BandwidthSettles`,
`StopReturns`, `CreateReturns`, and the fairness of `MessageDeque` in
`ImplementsDeque`, whose safety part is `QueueRefinesDeque`.

## 5. What is not modelled

- The gain formulas (`pll_coeff.py`, `calc_coeffs.cc`, and those of
  `dpll_sim2.cc`) and how the loop converges: floating-point control theory.
  `LockStages` and `LoopBandwidth` take whatever readings the loop produces.
- `Hash` and `HashLRU` of DLL3, and `pxfe_semaphore`: no program uses them. What
  was met while reading them is listed above.
- The list of pools for `report_pools`: reporting only.
- Sending and receiving on sockets, files, directories and address helpers of
  `posix_fe.h`: thin wrappers of system calls, without state of their own.
- `signal_backtrace.*`, the plot scripts, `make_bund.sh`, `saved/`: diagnostics,
  presentation and data.
- Scheduling classes and the printing of the status line: they change timing,
  which the models leave free. `prompt` in `DpllSim` is the one assumption about
  timing, and `SourcesOutlast` the one property that makes it.

Left for later: the steps that the liveness properties rest on, as theorems of
their own (what a stop waits for is always under way); and Hash over
`ListContents` as its buckets, should a program come to use it.
