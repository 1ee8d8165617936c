# A TLA+ model of Argobots with preemptive user-level threads

This project models the threading runtime of this repository: Argobots
(`src/argobots/src`) extended with preemption of user-level threads (ULTs) by
*KLT switching*. A ULT preempted at an arbitrary instruction keeps the
kernel-level thread (KLT) it runs on, because its signal frame lives there; the
execution stream (ES) goes on in another KLT taken from a pool. File and line
references below are relative to `src/argobots/src`.

## 1. Inventory

| Part | State it keeps | Operations | What makes it correct |
|---|---|---|---|
| KLT pool and KLT switching (`sub_stream.c`, futexes of `arch/abtd_signal.c`) | per KLT: `sleep_flag`, `p_local`, `ready`, `p_return_thread`; per ES: `p_wakeup_thread`, `p_cur_sub`, local list; global list | sleep with a callback, wakeup, base loop, trampoline, `exit_main`, `back_to_main`, list add and pop | each ES has one driver, each context one KLT, no wakeup is lost, a listed KLT sleeps, `back_to_main` ends and ends on the main KLT |
| KLT allocator (`sub_stream.c`) | `create_count`, `sleep_flag`, `terminate_flag` | request, create, free | one batch at a time, every request is answered, nothing is created after the end |
| Preemption timer (`preemption_timer.c`) | group: `index_next`, `index_until`, `in_chain`, `delete_counter`; ES: `ptimer_on`, `preemptive` | tick, chain of signals, start, stop, delete | every preemptive ES of a group is hit once per period; after delete no handler reads the group |
| Execution streams (`stream.c`) | `state`, `request`, `should_sleep`, `disable_sleep`, the table of ranks | create, start, schedule, check events, join, sleep and wake, set the main scheduler | a rank names one ES, join returns once the ES has terminated, a sleeping ES is woken |
| ULTs (`thread.c`, `abti_thread.h`, `arch/abtd_thread.c`) | `state`, `request`, pool, context and its `p_link`, `p_last_xstream` | create, yield, yield_to, join, suspend, resume, exit, cancel, migrate, revive | a ULT is in one pool or runs on one ES, join returns after the end, no ULT is lost |
| Schedulers (`sched/*.c`) | `state`, `request`, stack of schedulers per ES | run, has_to_stop, finish, exit | a scheduler does not stop while its pools have ULTs that are ready, blocked or migrating |
| Pools (`pool/*.c`) | queue, `num_blocked`, `num_migrations`, `consumer` | push, pop, remove | counters never understate the pool |
| Mutexes (`mutex.c`, `thread_htable.c`) | `val`, per-ES queues, handover fields | lock (three priorities), unlock (three kinds) | mutual exclusion, no waiter is forgotten |
| Condition variables, eventuals, futures, barriers | queue of waiters, `ready`, `counter` | wait, timed wait, signal, set, reset | no wakeup is lost, no waiter woken twice |
| Tasklets, keys, memory pools, info, events, attributes | see `components` in `PROJECT.json` | | |

How they interact. A scheduler (running as a context on some KLT) pops a ULT
and switches to it; the ULT comes back by yielding, blocking, ending, or by a
timer signal. The handler of that signal (`ABTI_preemption_timer_preempt`) pops
a KLT from the list of its ES, sleeps on its own futex, and from the sleep
callback marks the ULT as preempted and wakes the popped KLT, passing the
ES-local data (`lp_ABTI_local`). The woken KLT continues with the ES's
scheduler, which sees the preempted ULT come back and returns it to its pool.
Whichever scheduler pops it later cannot switch to it: it stores it in
`p_wakeup_thread`, switches to the base thread of its own KLT, which goes back
to a list and wakes the KLT of the ULT. `ABT_xstream_join` and `ABT_finalize`
must end on the Pthread that started the ES and use `back_to_main` for it.

What is hard: these handoffs are made of unlocked stores to fields shared by
the KLTs of an ES and ordered by the futex alone; KLTs enter the lists, and
ULTs the pools, before the KLT concerned really sleeps; the data of an ES change
hands at every step; the pool of KLTs may be empty; the main KLT of an ES may be
in use by another ES. `hazards` in `PROJECT.json` lists these at their lines.

## 2. Modules

| Module | Models | Role |
|---|---|---|
| `KltSwitch` | KLT switching, with scheduling as far as it moves contexts | core specification and its properties |
| `UltSched` | what ULT scheduling promises, without KLTs | abstract specification that `KltSwitch` implements |
| `KltSwitchInductive`, `KltSwitchProofs` | - | the inductive invariant `IInv`, its proof, the safety theorems, and the proof that `KltSwitch` implements `UltSched` |
| `SubAllocator` | the lists of KLTs and the allocator, access by access | detailed specification behind the atomic lists of `KltSwitch` |
| `KltList` | what the global list promises | abstract specification that `SubAllocator` implements |
| `UltSync` | how ULTs wait for each other, and when a scheduler stops | the blocking protocol of ULTs |
| `UltSyncInvariant`, `UltSyncProofs` | - | the inductive invariant `IInv` of `UltSync`, its proof and the safety theorems |
| `Blocking` | how a caller gets and loses an ES, as a synchronisation object sees it | part that the next three modules extend |
| `SyncObjects` | eventuals, futures and barriers | waiting, waking, resetting and freeing |
| `SyncObjectsProofs` | - | proofs about `SyncObjects` |
| `Mutex` | the mutex with its table of waiters, two priorities and handover | detailed specification of a lock |
| `Lock` | what a mutex promises | abstract specification that `Mutex` implements |
| `MutexProofs` | - | proofs about `Mutex`, among them that it implements `Lock` |
| `CondVar` | condition variables with time-outs, readers-writer locks | the queue of waiters and what is built on it |
| `CondVarProofs` | - | proofs about `CondVar` |
| `EsSleep` | the adaptive number of ESs, join and timer deletion against sleeping ESs | signals, sleep and wakeup of ESs |
| `EsSleepProofs` | - | proofs about `EsSleep` |
| `TimerGroup` | the preemption timers of a group: the chain of signals, start, stop and delete | handlers of several ESs on unprotected fields |
| `TimerGroupProofs` | - | proofs about `TimerGroup` |
| `MCKltSwitch`, `MCSubAllocator`, `MCUltSync`, `MCSyncObjects`, `MCMutex`, `MCCondVar`, `MCEsSleep`, `MCTimerGroup` | - | constants and programs for TLC |

The modules meet at a few interfaces. `UltSync` takes from `KltSwitch` that
parking a ULT on its KLT and resuming it looks like a yield (`UltSched`).
`KltSwitch` takes the lists to be atomic (`KltList`), which `SubAllocator` shows
them to be until a pop installs a stale link (3).
`Blocking` has of `UltSync` what a synchronisation object uses: block, suspend
and `set_ready` with its wait for the BLOCK request. `CondVar` uses the mutex
as `Lock` describes it, which is what `Mutex` implements.

### KltSwitch

A *context* is what a KLT executes: the scheduler of an ES, a ULT, or the base
thread of the KLT (for a main KLT, the trampoline). `ctx[k]`, `tls[k]`
(`lp_ABTI_local`) and `stage[k]` say what KLT `k` executes, for which ES, and
where it is in `ABTI_sub_xstream_sleep`:

    on -> arm -> callback -> (handoff ->) wait -> (asleep ->) woken -> on

`Arm` is the store of `sleep_flag`, the callbacks are `OnInitialSleep`,
`PreemptOnSleep`, `OnSleepAddSelf`/`Handoff` and `TrampolineOnSleep`/`Handoff`,
`FutexWait` compares the flag and blocks or not, and the `Resume...` actions
are the code after `FUTEX_WAIT`. The two callbacks that first publish the KLT
(add it to a list, set `ready`) and then wake another are two steps, because
another ES can act between them; code that only its own ES can see is merged
into the step before it. A scheduler is `Dispatch`, `SchedReturn` and
`CheckEvents`; a ULT is `Yield`, `Finish`, `Preempt` and the `BackToMain...`
actions; the allocator is `AllocatorCreate` and `OnInitialSleep`.

Abstractions of `KltSwitch`. List operations are atomic and a pop returns any member (the
local list is a stack, the global one a lock-free stack). The allocator creates
its batch in one step and a request is remembered as one bit. `Klts` is
finite: KLTs that do not exist yet are `"unborn"`; when none is left the
allocator creates nothing, a bound of the model (`Klts`). Blocking ULTs, stacked schedulers, tasklets
and migration do not touch KLTs and are left out; a preempted ULT of type YIELD
takes `Yield`. A wait loop (`while (!ready) sched_yield()`) is a guard.

### SubAllocator

The local lists, the global list and the allocator of `sub_stream.c`. `pc[c]`
is where ES `c`, or a KLT that has just been created, is in a pop
(`PopRead`, `PopNext`, `PopCas`, `PopTake`), a request (`ReqTest`, `ReqWake`) or
an addition (`AddLoad`, `AddLink`, `AddCas`, `AddCasFails`, and `CountDown` for
a new KLT); `p_next`, `p_head`, `l_head` and `num` are the fields of the lists.
The allocator is `a_pc` with `AllocStore` and `AllocWait` (its futex),
`AllocStart`, `AllocCreate` and `AllocEnd`; `ABTI_sub_xstream_allocator_free` is
`FreeCount`, `FreeSleeps`, `FreeWake` and `FreeList` of the primary ES. Local
lists are used by their own ES only, so `PopLocal` and `AddLocal` are one step.

What the KLTs are for is reduced to `driver`, `parked` and `resting`: a tick
parks the driver of an ES and puts the popped KLT in its place; a ULT that
resumes makes the driver list itself and its own KLT the driver. The futex of
the allocator needs no separate asleep state, because whoever changes the flag
from 1 also wakes. Bounds: `Klts` (a request that the unborn KLTs could not
fill wakes nobody) and `CountMod`, at which the unsigned `create_count` wraps.
`Garbage` is what the uninitialised `sleep_flag` may hold, 0 or not; 2 stands for
every other value, so that it can be told from the 1 that the allocator stores.

A pop reads the link of the head and then compares the head only
(`PopNext`, `PopCas`). The history variable `cut` becomes true when the link that it
stores in the head was not that KLT's link any more. What is claimed of the lists
is claimed up to this step; that it happens, and what follows, is shown by `SubAllocatorStale.cfg`.

### UltSync

The code of `thread.c`, `arch/abtd_thread.c`, `stream.c` and `sched/sched.c` by
which ULTs wait for one another, at the grain of the fields that several ESs
share. `cur[e]` is the context ES `e` executes, a ULT or its own scheduler;
`pc[c]` is where that context is inside the runtime (`"user"`: in the function
of the ULT; `"pop"`: in the loop of the scheduler), `arg`, `ret` and `from` are
the locals it carries from one step to the next. `state`, `request`, `p_link`,
`p_pool`, `p_last_xstream` and `preempted` are fields of a ULT; a pool is a set
of ULTs with `num_blocked` and `num_migrations`.

| Operation | Its steps |
|---|---|
| `ABT_thread_yield` and preemption | `Yield`, `Preempt` |
| `ABT_self_suspend` | `SuspendBlock`, `SuspendSwitch` |
| `ABT_thread_resume`, `ABTI_thread_set_ready` | `Resume`, then `SetReadySpin` (until the BLOCK request is taken back), `SetReadyPush`, `SetReadyDec` |
| `ABT_thread_join` | `JoinStart`; `JoinPool` (take the target out of the pool and switch to it); or `JoinRequest`, `JoinBlock`, `JoinLink`, `JoinSuspend`, `JoinResumed`; or `JoinYield` |
| `ABTDI_thread_terminate` | `ExitJump` (switch straight to the joiner), or `ExitWake`, `ExitStore`; with no joiner yet `ExitAlone`, `ExitRequest`, `ExitLink`; at last `ExitLeave` |
| `ABT_thread_yield_to` | `YieldToPush`, `YieldToSwitch` |
| `ABT_thread_cancel` | `Cancel`, and in the scheduler `CancelStart`, `CancelRequest`, `CancelLink` |
| `ABT_thread_migrate_to_*` | `MigrateToXstream`, `MigrateToPool`, `MigrateRequest`, `MigrateCount`, and in the scheduler `MigrateThread`, `MigrateDec` |
| `ABTI_xstream_schedule_thread` | `Pop`, `Run`, `AfterYield`, `AfterBlock`, `AfterTerminate`, `End` |
| `ABTI_sched_has_to_stop` | `HasToStop`, `ReadSize`, `ReadMigrations`, `ReadBlocked`, up to three rounds |

What a program calls is a constant: the pairs in `Joins`, `Cancels`, `YieldsTo`
and `Migrates`, the ULTs that suspend or yield, the ESs that are joined. The
handles a program uses are assumed valid (the runtime is built with
`--disable-checks`), and one caller at a time migrates a given ULT.

Abstractions of `UltSync`. A preemption that parks a ULT on its KLT is one
step, `Preempt`, and running it again is `Run`: that this is sound is what
`KltSwitch` shows. A pool pops any of its ULTs (the order of the queue is
fairness). Each scheduler has one pool; there are no stacked schedulers and no
tasklets. The scheduler of a pool that nobody asks to finish only reads when it
asks `has_to_stop`, so that is left out for it.

### Blocking and the synchronisation objects

`Blocking` keeps `cur[e]`, the pool and `blocking`, the ULTs whose BLOCK
request stands: `SetBlocked`, then `SuspendUlt` (the ES is given up and its
scheduler resets the request), then `SetReady` by a waker, which waits for the
reset. Callers are ULTs or external threads, which have no ES and poll.

`SyncObjects`. A critical section of an object is one step, except the loop
that wakes the waiters with the lock held, because a waiter that has been woken
runs at once, on another ES, and may call the object again. `Wait`, `EventualSet` and
`FutureSet` (then `Wake`, `WakeLast`), `Reset`; `BarrierWait` (then
`BarrierWake`, `BarrierLast`); `FreeCall` and `FreeObject`. A program frees an
object when its own waits have returned.

`Mutex`. `LockCas`, `LockExch`, `WaitCheck` (the re-check of `val` under the lock
of the table), `WaitPush`, `Suspend`, `Resumed` are the lock with its two
priorities, `LockLowSwitch`/`LockLowSwitched` the switch to another waiter of
`lock_low`; `Unlock`, `UnlockStore`, `WakePopHigh`, `WakePopLow`, `WakeNobody`,
`WakeReady` the unlock that wakes; `SeCheck`, `SePop`, `SePopLow`, `SeSwitch`,
`Given` the handover of `unlock_se`. `h_row[e]`, `l_row[e]` are the queues of
the ES, `h_list`, `l_list` the rows that are linked.

`CondVar`. The circular list of waiters is kept link by link (`p_next`,
`p_prev`, `p_head`, `p_tail`, `num_waiters`), since `remove_unit` takes a waiter
out of its middle. A timed waiter polls `ext_signal` in a unit of its own;
`TimeOut`, `RemoveTest` (without the lock) and `RemoveLocked` are its way out.
`Signal`; `Broadcast`, `Detach`, `Wake`, `Clear`. On top of it are the
readers-writer lock (`RdLock`, `WrLock`, `RwUnlock`) and a program of takers and
putters (`Take`, `GiveUp`, `Put`), like the ones of `test/basic`.

### EsSleep

The handler of the signals that change the number of active ESs runs on the
allocator's thread: `Signal`, then `GrowWait`, `GrowWake` for each ES that is to be
active, or `ShrinkTest`, `ShrinkSet` for each that is not, and `HandlerEnd`.
An ES looks at `should_sleep` in `check_events`: `CheckSleep`, `StoreFlag`,
`SleepCallback`, `FutexWait`, `Events` (which serves FREE_TIMER and JOIN). The
client calls `ABT_preemption_timer_delete` and `ABT_xstream_join`, which both first make
sure that the ES is awake: `DisableSleep`, `TestShouldSleep`, `Spin`,
`TestFlag`, `ClientWake`, in delete after, in join before the `Request`.

The client stores `disable_sleep` whatever the handler does. If it does so between
the handler's test of that field and its store of `should_sleep`, the ES falls asleep
although it was forbidden to, and may sleep for good. The history variable `late`
names the ESs to which that happened; the properties that exclude them say so, and
`EsSleepLate.cfg` shows what happens without. `Hogs` are the ESs that may run a ULT
which never gives them back. `should_sleep` is a plain field, and the loops that
wait for it are taken to read it anew each time, as they are meant to.

### TimerGroup

A handler of the timer signal goes through `Deliver` (the test of `ptimer_on`),
`Claim` and `Own` (`index_next`), `Reset` (an unintended signal), `Chain` and `Start`
(`in_chain`, `index_until`), `Forward` (the signal to the next ES, or the end of
the chain) and `Preempt`; the steps of the handlers of different ESs interleave.
`Tick` is a timer that expires. The client is in `CallStart`, `StartTimer`,
`Started`; `CallStop`, `StopTimer`, `Stopped`; and, for delete, `Request` and `Free`;
`FreeTimer` is the answer of a scheduler. `round`, `solo` and `lost` are history
variables: they record what the signals that one tick has caused have reached, and
ticks that came to nothing although no other tick overlapped them.

The ULTs of the group are of type YIELD, so that an ES and its KLT are the same
thing; `KltSwitch` has what a tick does to a ULT of type NEW_ES. `EsSleep` has how
delete wakes ESs that sleep, and abstracts from what the answer protects, which is
the subject here.

## 3. Runs

| Run | Instance | What it shows |
|---|---|---|
| `klt_switch` | 2 ESs, 2 main KLTs, 3 more (one created on demand), 2 preemptible ULTs in shared pools, one of which joins | no ES, context or wakeup is lost or duplicated; ES-local data stay with their ES; `back_to_main` ends on the main KLT; `UltSched` is implemented |
| `klt_live_preempt` | 1 ES, ULTs that need not yield | the scheduler regains the ES, preempted ULTs resume |
| `klt_live_join` | 2 ESs, joiner not preemptible | `back_to_main` returns |
| `ult_shared` | 2 ESs on one pool; 3 ULTs: one joins another, two suspend, one yields or is preempted, one is cancelled | no ULT is run twice, queued while it runs, lost, or touched after its end; a join sees the end |
| `ult_private` | a single-consumer pool for each of 2 ESs; a chain of joins within and across the pools, `yield_to`, self-migration; one ES is joined | `num_blocked` agrees with the ULTs; an ES does not stop while a ULT of its pool may still come; joins return, the ES stops |
| `ult_join_preempted` | join of a preempted ULT in a single-consumer pool | a context is resumed that sleeps on another KLT (a finding) |
| `sub_alloc` | 2 ESs with local lists of one KLT, two more created on demand, finalisation; `sleep_flag` initially 0 or not | up to the first stale link every KLT is in one place and the global list is an atomic one; the allocator sees that it is to end, unless its flag is what the memory held |
| `sync_objects` | 2 ESs, 2 ULTs and an external thread, an eventual, a future and a barrier of two, two calls each | no waiter is forgotten, nobody passes a barrier early, a free waits for the waker, waits return |
| `mutex` | 2 ESs, 3 ULTs, an external thread, three programs: high priority in a shared pool; low priority on one ES; both priorities on one ES | a lock with handover is implemented, no two ESs execute one ULT, no waiter is forgotten, every lock of a ULT is granted (an external thread spins and may starve) |
| `cond_var` | 2 ESs, 3 ULTs and an external thread, two programs: readers and writers; three takers, two with a time-out, and one item | the queue is right under removals, no signal is lost, writers are alone, calls return |
| `es_sleep` | 3 ESs, one of which may run a ULT that never gives it back; 3 signals | active ESs are awake, others fall asleep; the handler ends, and delete and join return, unless they wait for the ES that is kept, or for one that was forbidden to sleep too late |
| `timer_group` | 3 ESs, one tick that overlaps others, any number that do not; start and stop any number of times, delete | a round of signals hits every ES once, the group recovers from handlers that have met, delete frees a group that no handler reads |

With two ESs both kinds of migration occur in `KltSwitch`: a ULT preempted on
one ES and resumed by the other, and an ES that ends up on the other's main
KLT. Five KLTs make the local lists overflow into the global one, run dry and
call the allocator; two ULTs can be preempted together, which takes all KLTs of
an ES. `InitNum` is the length of a local list and the batch of the allocator.
`VIEW MCLiveState` drops fields that are overwritten before they are read
again, so states that differ only in such a field are merged; the invariants
read no dropped value.

Fairness. `RuntimeFairness` states what the kernel and the loops of the runtime
give: a KLT that does not wait goes on; a scheduler keeps popping from FIFO
pools, so a ULT that is again and again at a polling scheduler's disposal is
popped; `check_events` is called every `event_freq` iterations; the allocator,
once woken, creates. `FairSpec` adds that timer ticks keep hitting a ULT that
keeps running (strong, because a ULT runs on after a tick that found no KLT),
and that ULTs that cannot be preempted give up the ES themselves. `EndingSpec`
adds instead that ULTs that keep getting processor time end.

`FairSpec` of `UltSync` asks that an ES with a step to take takes one (its KLT
is scheduled by the kernel; a step is any the context it executes can take),
that a ULT again and again in reach of a polling scheduler is popped (FIFO
pools), that a ULT which again and again gets processor time ends, that
schedulers keep asking `has_to_stop` (every `event_freq` iterations), and that
the program does join the ESs in `Finishing`. Nothing is assumed of the steps of
the protocol itself.

The synchronisation objects assume of their callers that a call goes on while
it has an ES, that a ULT again and again in the pool is popped (FIFO pools),
and of the programs that a critical section ends and a signal is sent in the
end; where a waker spins for a ULT that shares its ES, the timer preempts it.
No fairness is assumed of who gets the mutex: that everybody does follows from
`uses`, the bound on how often each caller locks. In `EsSleep` the kernel runs the
handler and the client, and an ES comes to its events again and again
(`event_freq`), unless it is one of `Hogs`, which may stay in a ULT for ever, and
terminates once its pools have run dry, which is the business of `UltSync`.

Only the runs of `KltSwitch` check for deadlock: a scheduler there can always go
on idling. The other systems may stop: when all ULTs have ended and the ESs with
them, when a program suspends a ULT and never resumes it, when the runtime is
finalised, when every caller has made its calls (`MaxCalls`, `uses`, `calls`,
`MaxSignals`), or when a group has been freed.

`SubAllocator` has no liveness property. An ES may stop for ever between two ticks,
and an addition may in theory fail its compare-and-swap for ever, so nothing is
claimed about when a KLT is listed.

The bounds of `UltSync`: three ULTs are a joiner, its target and a third party
(a waker, a canceller, the next link of a chain), two ESs are a runner and a
competitor for the same pool, or the two ends of a migration; every ULT uses
each of its operations in any order and any number of times until it ends.

The bounds of `SubAllocator`: with `InitNum` 1 one more KLT overflows into the
global list, and four KLTs give a global list of several, on which the pops of
two ESs and the additions of drivers and new KLTs contend; they are enough for a
stale link. `sub_alloc` uses that the two KLTs that do not exist yet are alike
(`NewAlike`) and does not go on after a stale link (`Uncut`), of which it claims
nothing. The atomic lists of `KltSwitch` are therefore what the code gives to
programs whose ESs do not meet that window.

The bounds of the synchronisation objects: two calls let a caller come back to
an object while the wakeups of the first round go on; three ULTs are an owner, a
waiter and one that comes between; `MaxHandovers` and `MaxWakeups` 1 make the
limit of each be reached. Three waiters on a condition variable are the least
with a middle. Three ESs with three signals put two ESs to sleep, wake one
and put it to sleep again.

The bounds of `TimerGroup`: three ESs are the least for which a chain has a middle
and can leave out an ES; with `MaxOverlaps` 1 two timers expire together once, on
top of the signals of chains that a stop has cut, and any number of times one
after the other.

### Where the code disagrees with itself

The run `ult_join_preempted` exhibits a behaviour that contradicts a comment of the
source; `findings` in `PROJECT.json` quotes it. It was the first of several. The
programs and the properties of the passing runs leave the others out, each
by a condition that names it. They are shown by configurations that are not
runs of the project: `tlc -config X.cfg M` stops with a trace to the violation.

| Configuration | Module | Violates | What the source says |
|---|---|---|---|
| `SubAllocatorStale.cfg` | `MCSubAllocator` | `AdditionSerialized` | "It is allowed because the addition is serialized in the ES execution" (`sub_stream.c:44`) |
| `SubAllocatorCount.cfg` | `MCSubAllocator` | `CreateCountAssert` | `ABTI_ASSERT(p_allocator->create_count == 0)` (`sub_stream.c:671`) |
| `SubAllocatorAdded.cfg` | `MCSubAllocator` | `FreedAfterAdded` | "wait until all sub ESes previously allocated are added to the list" (`sub_stream.c:723`) |
| `SubAllocatorSleeps.cfg` | `MCSubAllocator` | `SurelySleeps` | "wait until the allocator surely sleeps" (`sub_stream.c:728`) |
| `EsSleepLate.cfg` | `MCEsSleep` | `ClientReturns` | "Wait for xstream to terminate." (`stream.c:455`) |
| `UltSyncYieldTo.cfg` | `MCUltSync` | `OneHolder` | "the ULT can be pushed to a pool here and be scheduled by another scheduler", of what `set_ready` waits for (`thread.c:2148`) |
| `UltSyncTwoJoiners.cfg` | `MCUltSync` | `JoinReturns` | "Wait for thread to terminate." (`thread.c:385`) |
| `UltSyncCountLate.cfg` | `MCUltSync` | `StopsOnEmptyPool` | "the ES terminates after finishing execution of all work units" (`stream.c:1510`) |
| `UltSyncMoveEnded.cfg` | `MCUltSync` | `EsStops` | the same |
| `UltSyncCancelJoiner.cfg` | `MCUltSync` | `NoUseAfterEnd` | "we must not access any field of p_thead after changing the state to TERMINATED" (`include/abti_stream.h:146`) |
| `MutexSharedLow.cfg` | `MCMutex` | `RunsOnce` | as for `UltSyncYieldTo.cfg` |
| `SyncObjectsFree.cfg` | `MCSyncObjects` | `BarrierFreeAssert` | `ABTI_ASSERT(p_barrier->counter == 0)` (`barrier.c:117`) |

The list below says what happens in each, and in a few more that are read off the code.

KLTs and their allocator:

- `ABTI_sub_xstream_back_to_main` (`sub_stream.c:389`) keeps its ES while it waits for
  the main KLT to sleep as its own. If that KLT keeps a preempted ULT that only
  this ES could resume, the wait never ends. (`BackToMainReturns`, with one ES
  and a ULT other than the joiner in `NewEs`.)
- `ABTI_sub_xstream_list_global_pop` (`sub_stream.c:574`) reads `p_next` of the head
  without protection; with two ESs that pop, the head can be taken, used and
  listed again in between, and a KLT in use is handed out. (`SubAllocatorStale.cfg`)
- `ABTI_sub_xstream_allocator_free` (`sub_stream.c:724`) can free the allocator before
  the KLTs it creates have added themselves. (`SubAllocatorAdded.cfg`)
- A request for KLTs can wake the allocator while the KLTs of the last one are
  still starting (`sub_stream.c:767`, admitted there): the assertion on line 671
  fails, and as built without it `create_count` is overwritten, wraps below 0, and
  no KLT is ever created again. (`SubAllocatorCount.cfg`)
- `sleep_flag` of the allocator is never initialised (`sub_stream.c:691`): if the
  memory does not hold 0, an immediate finalisation hangs. (`SubAllocatorSleeps.cfg`)
- `ABTI_xstream_check_events` (`stream.c:1240`) leaves a foreign main KLT by a
  thread-to-thread switch of a scheduler, which the assertion of that switch
  (`include/abti_thread.h:147`) excludes; `KltSwitch` models the switch.

ULTs and ESs:

- `ABT_thread_yield_to` (`thread.c:911`) pushes its caller before it leaves it: in a
  pool of two ESs the caller can be run twice. (`UltSyncYieldTo.cfg`)
- Cancelling a ULT that is blocked in a join (`stream.c:1674`) leaves the link of its
  target to it. (`UltSyncCancelJoiner.cfg`) One that is suspended stays counted in `num_blocked`.
- `ABT_thread_migrate_to_pool` (`thread.c:1208`) counts the migration only after it has
  posted the request, so that the target ES may stop with the ULT on its way.
  (`UltSyncCountLate.cfg`)
- `ABTDI_thread_terminate` (`arch/abtd_thread.c:142`) overwrites the request of
  the ending ULT with TERMINATE, dropping JOIN; a second joiner that comes then
  blocks and is never woken. (`UltSyncTwoJoiners.cfg`)
- `num_migrations` is only taken back by the scheduler that handles the request
  (`stream.c:1823`). If the ULT ends first, the target ES never stops. (`UltSyncMoveEnded.cfg`)
- `ABT_thread_get_last_pool` (`thread.c:763`) never calls `ABTI_LEAVE`, so its KLT
  is not preempted any more. Other error returns have the same defect
  (`stream.c:206`).
- The handler of a signal tests `disable_sleep` and then sets `should_sleep`
  (`arch/abtd_signal.c:109`); `ABT_xstream_join` or `ABT_preemption_timer_delete`
  between the two finds the ES awake, and it then sleeps for good. (`EsSleepLate.cfg`)
- The loops that wait for `should_sleep` (`stream.c:490`, `arch/abtd_signal.c:102`,
  `preemption_timer.c:496`) read a plain field and call nothing: with the optimisation
  the runtime is built with a compiler may read it once and spin for ever.
- `ABT_preemption_timer_delete` waits for an answer of each ES, not of each KLT. With
  ULTs of type NEW_ES a handler on a KLT that has just left its ES is waited for by
  nobody, and the answer blocks the signal on one KLT (`stream.c:1259`) and for any
  later group too. An ES whose ULT relies on being preempted does not answer at
  all, because the timers are off by then. (Read off the code: `TimerGroup` has type YIELD.)

Synchronisation objects:

- `ABTI_thread_htable_switch_low` (`thread_htable.c:250`) pops a waiter, queues its
  caller and switches without waiting for the BLOCK request of either to be reset,
  as `ABTI_thread_set_ready` does (`thread.c:2148`): in a pool of two ESs a ULT is run
  by both. (`MutexSharedLow.cfg`)
- A timed waiter of a condition variable that finds its unit gone from the
  queue frees it, and leaves its stack frame, while the signaller that took it off
  is still about to store `ext_signal` in it (`cond.c:148`). `Release` of `CondVar` lets
  the store hit a later call or nothing; what else the memory may hold by then is
  outside the model, and no property covers it.
- `ABT_barrier_free` asserts that the counter is 0 before it takes the lock
  (`barrier.c:117`), while the last to arrive resets it only after it has woken the
  others; the assertion fails if one of these frees the barrier. (`SyncObjectsFree.cfg`)
- `ABT_future_reset` does not reset the counter, so that a future is set once only;
  a set beyond the number of compartments writes past the array, and as its error
  return keeps the lock (`futures.c:260`) would stop all others if the check
  were built in.

## 4. Proofs

TLAPS proves, for every set of ESs, KLTs and ULTs that satisfies
`ConstantsAssumption`, the safety properties of `KltSwitch` as theorems about
`Spec` (`KltSwitchProofs`). None of them is inductive: that a wakeup is not
lost depends on which KLT every ES is about to wake, which depends on where the
ULT of that ES was preempted, and so on. `IInv` makes this explicit. Each ES is
a token owned by one KLT (`OneOwner`, `SomeOwner`); what its owner is doing
determines its ES-local data (`OnInv`, `PreemptingInv`, `LeavingInv`,
`GrantedInv`); a KLT that no ES owns is listed, keeps a preempted ULT, is a
parked main KLT, or is the target of exactly one owner (`TargetInv`,
`PreemptedInv`, `ListInv`, `ReadyInv`). The proof has one lemma per action and
in it one step per part of `IInv`; `Invariance` combines them.

`KltSwitchProofs` also proves that `KltSwitch` implements `UltSched`
(`Refinement`): the refinement mapping reads off from contexts and ES-local
data which ULTs are pooled, dispatched and running, and every action either maps
to one abstract action or leaves the mapped state unchanged. It rests on
`Invariance`: that `SchedReturn` gives back the ULT that was dispatched, for
instance, is a part of `IInv`.

`EsSleepProofs` proves about `EsSleep`, for every number of ESs and of signals,
that variables keep their types, that the active ESs are awake between two signals
(`ActiveTheorem`) and that an ES the client has seen awake stays awake, unless it was
forbidden to sleep too late (`AnswersTheorem`: `late` is the only exception, and the
theorem has no hypothesis). The idea is a rank (`AwakeBound`) below which
every ES is awake: while it wakes ESs the handler raises this rank one by one, while it
puts them to sleep the rank is the new number from the start (`AwakeBelow`).
That `should_sleep` and `sleep_flag` overlap while an ES falls asleep
(`FlagsHold`) is why a waker that looks at them in this order misses none.

`TimerGroupProofs` proves, for every number of ESs and of ticks that overlap, the three
properties of the run.

- Delete does not free a group that a handler still reads (`DeleteTheorem`). That an ES
  has answered says nothing by itself, since another signal may follow; the invariant
  `DeleteInv` adds that delete has turned `ptimer_on` off everywhere before its first
  request, so that an ES that is once out of its handler stays out of the group, and
  that `delete_counter` and the open requests add up to the requests that were made.
- `GroupRecovers`: after a tick that nothing overlaps there is one signal in the group,
  pending or in one handler (`Alone`), and a tick that came to nothing has left
  `index_next` at -1 with nobody in the chain (`LostInv`), so the next one claims the
  group.
- `RoundHitsAll`: the ESs are numbered from `index_until` on (`Pos`), which turns the
  modular distance of the code into a difference (`Ring`). A live round is in one of
  four stages (`Begins`, `Owns`, `Holds`, `Goes`); in the last two all ESs before the
  one that has the signal have got it or could not be preempted, and none behind has
  got it, so nobody gets it twice and at the end nobody is left.

`SyncObjectsProofs` proves, for all sets of callers, ESs and objects with
`ObjectsAssumption`, that no waiter of an eventual, a future or a barrier is forgotten
(`NobodyIsForgotten`), that a barrier holds (`BarriersHold`), that who comes to a
barrier finds its counter below its size, as `ABT_barrier_wait` asserts
(`BarriersHaveRoom`), and that nobody works on an object that was freed
(`FreedIsUnused`). The counter of a future has no such bound, as said above. The
lists are linked by a field of the waiters, which the code follows without a bound, so the invariant speaks of the least
set that contains the head and is closed under `p_next` (`From`): the sleepers of an
object that nobody is at work on are in it, those that a waker has yet to wake are
reached from the one it wakes next (`ReachInv`), and links join sleepers of one object
and do not meet (`NextInv`). Leaving a list from the front or joining it at the end
then needs no induction over its length. For barriers the waiters are the sleepers, each
once, as many as the counter says (`WaitersInv`), and all users have arrived equally
often, the waiters once more (`RoundInv`); a barrier has a finite set of users, as many
as its size, which is what `test/basic` does and the code needs.

`MutexProofs` proves that `Mutex` implements `Lock` (`MutexImplementsLock`), for every
program: who owns the mutex is read off the labels and `p_handover`, and `val` is 0 if and
only if nobody does (`OwnerInv`); the queues only matter in that a popped waiter
exists, for which rows with waiters must be linked (`RowInv`). That two ESs never
run one ULT (`MutexRunsOnce`; it may be in the pool while the ES it leaves is still
switching) and that no waiter is forgotten (`MutexForgetsNobody`) need
that a waiter is held in one place (`HeldOnce`: a row, a popper, or a handover), asleep
or about to be (`HeldSleeps`), in a row of an ES that may run it (`HomeInv`), and that
giver and receiver of a handover do not execute together (`GiveInv`). They have the
hypothesis `LowStaysHome`: the ULTs that lock with low priority are each served by one ES.
It is not an artefact of the proof: without it `ABTI_thread_htable_switch_low` lets two ESs
run one ULT (`MutexSharedLow.cfg`); the three programs of `mutex` satisfy it.

`CondVarProofs` proves the three safety properties of `CondVar`, for all sets of
callers and ESs and all programs. The queue (`QueueIsKept`): its units form a circle
that is reached from the head (`IsCircle`), or, while a broadcast takes them off, a
chain from the one it takes next to the old head (`IsChain`); joining, leaving from
the middle and being taken off are lemmas about links alone. A caller is parked if and
only if it is in the queue or in the hands of the one waker (`ParkInv`), which is why
`remove_unit` may test `p_next` without the lock. The items (`SignalsArrive`):
for every item somebody is on the way, and one more while a signal is being
delivered (`SignalInv`): a signaller that wakes a waiter pays for itself. The
readers-writer lock (`RwLockExcludes`): the last part of `CondAssumption` says that a
condition variable is used for a readers-writer lock or by takers and putters, not
both, as `ABTI_rwlock` has one of its own; only `SignalInv` needs it.

`UltSyncProofs` proves the safety properties of `UltSync`, for every number of ESs,
pools and ULTs and every program with `Program`. `Invariance` is about `IInv`
(`UltSyncInvariant`), whose parts say

- what an ES executes, and that a ULT inside the runtime, wherever it cannot be
  descheduled, is on the ES that ran it last (`EsInv`, `LabelInv`, `RunInv`); of one
  that runs also what its state and its requests are at each label;
- what is true of a ULT in a pool, between the push and the switch of a yield_to, and
  in the hands of a scheduler, which is then the only one (`PoolInv`, `YieldInv`, `HandInv`);
- that the BLOCK request is there until the scheduler of the blocked ULT has it back,
  and that one waker at most makes it ready, after that (`BlockedInv`, `WakeInv`). A
  resumer and the end of the target of a join go through the same `set_ready`; `Ender`
  and `Resumer` tell them apart;
- that no ULT that can run is lost (`PlaceInv`): the converse of the parts before;
- that a joiner links itself to its target before this looks for it, and stays blocked
  until the target has come past that point (`JoinInv`, `LinkInv`, `EndInv`). `Woke` is
  that point; it comes before the target has ended, and that it is passed once and
  for all (`WokeStays`) is what both sides rest on.

`OneHolder` and `NoUseAfterEnd` follow from `IInv`, and so does the step of
`JoinSeesEnd`. For the counters every step is first classified by what it does to the
sets that are counted (`CountSteps`, `MigSteps`), one ULT at a time; `BlockedCounted` is
then inductive beside `IInv`, and so is `MigCounted`, that `num_migrations` is at least
the number of migrations on their way. `StopInv` says what a scheduler that stops knows
after each of its reads: once it has read 0 migrations under `sched_lock` there are
none, and none can come; blocked ULTs and ULTs in the pool can then only get
fewer, as nobody but this scheduler runs them. With `PlaceInv` an empty pool without
blocked ULTs is a pool whose ULTs have all ended: `EsStopsEmpty`.

The theorems have hypotheses about the program, which all passing runs satisfy. Each
stands for a defect of the code listed above. Without `YieldToAtHome` (no two
ESs share a pool if yield_to is used) `OneHolder` is false. Without `WaitersStay` (a ULT
that is cancelled waits for nothing) `NoUseAfterEnd` is false, and so is
`BlockedCounted`: cancelling a suspended ULT ends it without taking it off the count. Without
`CountedFirst` (migrations to the pool of an ES that is joined come from
`migrate_to_xstream`) `EsStopsEmpty` is false. `OneJoiner` (a ULT has one joiner) is
the one that only the proof needs for these properties: with two joiners TLC finds none of them
violated in small instances, but `IInv` is, since the second joiner waits on a
target that has met its only one, and it is `JoinReturns` that fails.

That the variables keep their types is proved for `KltSwitch`, `EsSleep`, `UltSync`,
`SyncObjects`, `Mutex`, `CondVar` and `TimerGroup` and is in no run.

Out of TLAPS's reach, and only model-checked: the liveness properties of all runs.
So far only model-checked, for lack of an inductive invariant: `SubAllocator`, which
is about lists under a lock-free pop. Its `OnePlace` needs that the list from a head
that is read, and not taken yet, is still the list at the successful compare-and-swap,
which is what `cut` is about.

## 5. Plan

Done: KLT switching with its proofs and its refinement; the blocking protocol
of ULTs; the lock-free lists and the allocator; mutexes, condition variables,
readers-writer locks, eventuals, futures and barriers; the adaptive number of
ESs and the group of a preemption timer; proofs about all of them but the lock-free lists. Left,
in this order:

1. Proofs: for `SubAllocator` `OnePlace`; for `UltSync` without `OneJoiner`.
2. `TimerGroup` with ESs that switch KLTs, so that a signal can reach a KLT that has left its ES; dedicated timer threads.
3. The table of ranks and the creation and freeing of ESs while signals arrive.
4. A composition of cancellation with `KltSwitch`: the KLT that sleeps under a cancelled ULT.

### Not modelled

- Creation, revival and freeing of ULTs and ESs while others hold their handles; stacked schedulers; several pools per scheduler with priorities or stealing; user-defined pools and `pop_wait`; migration callbacks; recursive mutexes.
- `ABTI_xstream_return_rank` (`stream.c:2211`) takes an ES that may sleep off the number of active ones, and the handler reads `p_xstreams[i]` (`arch/abtd_signal.c:101`), which may be gone by then. `EsSleep` has a fixed set of ESs and says nothing about it.
- Tasklets run to completion on the stack of the scheduler and are never preempted; keys, memory pools, info, events and attributes are sequential or diagnostic.
- Everything but `src/argobots/src`, which is nearly all lines of the repository: BOLT is a vendored OpenMP runtime, Chol, HPGMG and LAMMPS are the applications of the evaluation, and the benchmarks measure the runtime. They are clients of the modelled runtime, numerical or sequential codes without a protocol of their own.
