------------------------------- MODULE UltSync -------------------------------
(***************************************************************************)
(* How ULTs wait for each other: yield, suspend and resume, join, the end  *)
(* of a ULT, cancel, yield_to and migration, against the schedulers of     *)
(* several ESs and the condition on which a scheduler stops.               *)
(* Sources: thread.c, arch/abtd_thread.c (terminate, cancel), stream.c     *)
(* (schedule_thread, migrate_thread, schedule), sched/sched.c              *)
(* (has_to_stop, get_effective_size), self.c (suspend).                    *)
(*                                                                         *)
(* The code runs inside the runtime between two steps of a context, which  *)
(* is a ULT or the scheduler of an ES (named by the ES); a step is an      *)
(* access to data that another ES can read or write at the same time.  A   *)
(* preemption that leaves a ULT on its sleeping KLT is one step here: its  *)
(* details are those of KltSwitch.  As built by build_argobots.bash        *)
(* (--disable-checks) no argument is checked.                              *)
(***************************************************************************)
EXTENDS Integers, FiniteSets

CONSTANTS
  Threads, Xstreams, Pools,
  SchedPool,    \* SchedPool[e]: the pool of the scheduler of ES e
  FirstPool,    \* FirstPool[t]: the pool ULT t is created in
  Access,       \* Access[p]: the access mode of pool p
  Joins,        \* the <<joiner, target>> pairs of the program
  Cancels,      \* the <<caller, target>> pairs of its calls of cancel,
  YieldsTo,     \* of yield_to,
  Migrates,     \* and of migrate_to_xstream or migrate_to_pool,
  MigrateBy,    \* which depends on the target: MigrateBy[p] is "xstream" or "pool"
  Suspenders,   \* the ULTs that suspend themselves
  Yielders,     \* the ULTs that yield
  Finishing,    \* the ESs that ABT_xstream_join is called for
  NewEs,        \* the ULTs that are preempted in NEW_ES mode
  None

Contexts == Threads \cup Xstreams
SingleConsumer == {"PRIV", "SPSC", "MPSC"}

(* A pool with a single consumer is served by one ES.                      *)
ASSUME ConstantsAssumption ==
  /\ Threads \cap Xstreams = {} /\ None \notin Contexts \cup Pools
  /\ SchedPool \in [Xstreams -> Pools] /\ FirstPool \in [Threads -> Pools]
  /\ Access \in [Pools -> SingleConsumer \cup {"MPMC"}]
  /\ \A d, e \in Xstreams :
       SchedPool[d] = SchedPool[e] /\ Access[SchedPool[d]] \in SingleConsumer => d = e
  /\ Joins \subseteq Threads \X Threads /\ \A j \in Joins : j[1] # j[2]
  /\ Cancels \subseteq Threads \X Threads /\ Migrates \subseteq Threads \X Threads
  /\ YieldsTo \subseteq Threads \X Threads /\ \A y \in YieldsTo : y[1] # y[2]
  /\ MigrateBy \in [Pools -> {"xstream", "pool"}]
  /\ Suspenders \subseteq Threads /\ Yielders \subseteq Threads /\ NewEs \subseteq Threads
  /\ Finishing \subseteq Xstreams /\ IsFiniteSet(Xstreams) /\ IsFiniteSet(Threads)

VARIABLES
  cur,             \* cur[e]: the context that ES e executes
  pc,              \* where a context is in the runtime
  arg,             \* the ULT its current operation is about
  ret,             \* where ABTI_thread_set_ready returns to
  from,            \* p_pool in ABTI_thread_set_ready, or the pool to migrate to
  \* fields of an ABTI_thread
  state, request, p_link, p_pool, p_last_xstream,
  preempted,       \* the ULTs with the preempted flag
  mig,             \* the argument of the MIGRATE request
  \* fields of an ABTI_pool
  pool,            \* the ULTs in the pool
  num_blocked, num_migrations,
  finish,          \* the ESs that have been asked to terminate
  seen,            \* what a scheduler that wants to stop has counted so far,
  round            \* and how often: 1, then 2 under sched_lock, then 3 once terminated

stackVars  == <<cur, pc, arg, ret, from>>
threadVars == <<state, request, p_link, p_pool, p_last_xstream, preempted, mig>>
poolVars   == <<pool, num_blocked, num_migrations>>
stopVars   == <<finish, seen, round>>
vars == <<stackVars, threadVars, poolVars, stopVars>>

Requests == {"JOIN", "CANCEL", "MIGRATE", "TERMINATE", "BLOCK"}
NonYield == Requests \ {"JOIN"}

InSetReady == {"spin", "push", "dec"}
InJoin     == {"join.pool", "join.request", "join.block", "join.link", "join.suspend",
               "join.resumed", "join.yield"}
InExit     == {"exit.request", "exit.link", "exit.store", "exit.leave"}
UltLabels  == InSetReady \cup InJoin \cup InExit \cup
              {"user", "suspend", "yield_to", "mig.request", "mig.count", "done"}
InStop     == {"size", "migrations", "blocked"}
EsLabels   == InSetReady \cup InStop \cup
              {"pop", "run", "after", "migrate", "mig.dec", "cancel", "cancel.request",
               "cancel.link", "end", "stopped"}

TypeOK ==
  /\ cur \in [Xstreams -> Contexts] /\ \A e \in Xstreams : cur[e] \in Threads \cup {e}
  /\ pc \in [Contexts -> UltLabels \cup EsLabels]
  /\ \A t \in Threads : pc[t] \in UltLabels
  /\ \A e \in Xstreams : pc[e] \in EsLabels
  /\ arg \in [Contexts -> Threads \cup {None}]
  /\ ret \in [Contexts -> {"user", "exit.store", "exit.leave", "end"}]
  /\ from \in [Contexts -> Pools \cup {None}]
  /\ state \in [Threads -> {"READY", "RUNNING", "BLOCKED", "TERMINATED"}]
  /\ request \in [Threads -> SUBSET Requests]
  /\ p_link \in [Threads -> Threads \cup {None}]
  /\ p_pool \in [Threads -> Pools]
  /\ p_last_xstream \in [Threads -> Xstreams \cup {None}]
  /\ preempted \in SUBSET Threads
  /\ mig \in [Threads -> Pools \cup {None}]
  /\ pool \in [Pools -> SUBSET Threads]
  /\ num_blocked \in [Pools -> Int] /\ num_migrations \in [Pools -> Int]
  /\ finish \in SUBSET Xstreams
  /\ seen \in [Xstreams -> Int] /\ round \in [Xstreams -> 1..3]
-----------------------------------------------------------------------------
(* Steps shared by several operations.                                     *)

(* ES e executes context c, which is at l.                                 *)
At(e, c, l) == cur[e] = c /\ pc[c] = l

Goto(c, l) == pc' = [pc EXCEPT ![c] = l]

(* ULT t, to go on at l, gives ES e back to its scheduler.                 *)
ToSched(e, t, l) ==
  /\ cur' = [cur EXCEPT ![e] = e]
  /\ pc' = [pc EXCEPT ![t] = l, ![e] = "after"]
  /\ arg' = [arg EXCEPT ![e] = t]

Pooled(t) == \E p \in Pools : t \in pool[p]

AddRequest(t, r) == request' = [request EXCEPT ![t] = @ \cup {r}]

(* ABTI_thread_set_blocked                                                 *)
SetBlocked(t) ==
  /\ AddRequest(t, "BLOCK")
  /\ state' = [state EXCEPT ![t] = "BLOCKED"]
  /\ num_blocked' = [num_blocked EXCEPT ![p_pool[t]] = @ + 1]

-----------------------------------------------------------------------------
(* ABTI_thread_set_ready(Woken(c)), called by context c.                   *)
Woken(c) == IF c \in Xstreams THEN p_link[arg[c]] ELSE arg[c]

(* Mutant: nobody waits for the scheduler of the blocked ULT.              *)
SetReadyAtOnce(e, c) ==
  /\ At(e, c, "spin")
  /\ from' = [from EXCEPT ![c] = p_pool[Woken(c)]]
  /\ state' = [state EXCEPT ![Woken(c)] = "READY"]
  /\ Goto(c, "push")
  /\ UNCHANGED <<cur, arg, ret, request, p_link, p_pool, p_last_xstream, preempted, mig,
                 poolVars, stopVars>>

SetReadySpin(e, c) ==
  /\ At(e, c, "spin")
  /\ "BLOCK" \notin request[Woken(c)]
  /\ from' = [from EXCEPT ![c] = p_pool[Woken(c)]]
  /\ state' = [state EXCEPT ![Woken(c)] = "READY"]
  /\ Goto(c, "push")
  /\ UNCHANGED <<cur, arg, ret, request, p_link, p_pool, p_last_xstream, preempted, mig,
                 poolVars, stopVars>>

SetReadyPush(e, c) ==
  /\ At(e, c, "push")
  /\ pool' = [pool EXCEPT ![from[c]] = @ \cup {Woken(c)}]
  /\ Goto(c, "dec")
  /\ UNCHANGED <<cur, arg, ret, from, threadVars, num_blocked, num_migrations, stopVars>>

SetReadyDec(e, c) ==
  /\ At(e, c, "dec")
  /\ num_blocked' = [num_blocked EXCEPT ![from[c]] = @ - 1]
  /\ Goto(c, ret[c])
  /\ UNCHANGED <<cur, arg, ret, from, threadVars, pool, num_migrations, stopVars>>
-----------------------------------------------------------------------------
(* ABT_thread_yield                                                        *)
Yield(e, t) ==
  /\ At(e, t, "user") /\ t \in Yielders
  /\ state' = [state EXCEPT ![t] = "READY"]
  /\ ToSched(e, t, "user")
  /\ UNCHANGED <<ret, from, request, p_link, p_pool, p_last_xstream, preempted, mig,
                 poolVars, stopVars>>

(* A tick of the preemption timer: the KLT of ULT t sleeps with t and      *)
(* another one goes on with the scheduler.                                 *)
Preempt(e, t) ==
  /\ At(e, t, "user") /\ t \in NewEs
  /\ state' = [state EXCEPT ![t] = "READY"]
  /\ preempted' = preempted \cup {t}
  /\ ToSched(e, t, "user")
  /\ UNCHANGED <<ret, from, request, p_link, p_pool, p_last_xstream, mig, poolVars, stopVars>>

(* ABT_self_suspend, and the waits of the synchronisation objects, which   *)
(* make the ULT known to its wakers once set_blocked has returned.         *)
SuspendBlock(e, t) ==
  /\ At(e, t, "user") /\ t \in Suspenders
  /\ SetBlocked(t)
  /\ Goto(t, "suspend")
  /\ UNCHANGED <<cur, arg, ret, from, p_link, p_pool, p_last_xstream, preempted, mig,
                 pool, num_migrations, stopVars>>

SuspendSwitch(e, t) ==
  /\ At(e, t, "suspend")
  /\ ToSched(e, t, "user")
  /\ UNCHANGED <<ret, from, threadVars, poolVars, stopVars>>

Suspended(t) == state[t] = "BLOCKED" /\ pc[t] \in {"suspend", "user"}

(* ABT_thread_resume: a suspended ULT is resumed by one ULT.               *)
Resume(e, t, u) ==
  /\ At(e, t, "user") /\ Suspended(u)
  /\ \A c \in Threads : ~ (pc[c] \in InSetReady /\ arg[c] = u)
  /\ arg' = [arg EXCEPT ![t] = u] /\ ret' = [ret EXCEPT ![t] = "user"]
  /\ Goto(t, "spin")
  /\ UNCHANGED <<cur, from, threadVars, poolVars, stopVars>>
-----------------------------------------------------------------------------
(* ABT_thread_join                                                         *)
JoinStart(e, t, u) ==
  /\ At(e, t, "user") /\ <<t, u>> \in Joins
  /\ state[u] # "TERMINATED"
  /\ arg' = [arg EXCEPT ![t] = u]
  /\ LET access == Access[p_pool[t]]
         same == p_pool[t] = p_pool[u]
     IN Goto(t, IF same /\ access \in SingleConsumer /\ state[u] = "READY"
                THEN "join.pool"
                ELSE IF ~ same /\ access \in {"PRIV", "SPSC"} THEN "join.yield"
                ELSE "join.request")
  /\ UNCHANGED <<cur, ret, from, threadVars, poolVars, stopVars>>

(* Mutant: the joiner that switches to its target is not counted.          *)
JoinPoolUncounted(e, t) ==
  LET u == arg[t] IN
  /\ At(e, t, "join.pool")
  /\ u \in pool[p_pool[u]]
  /\ pool' = [pool EXCEPT ![p_pool[u]] = @ \ {u}]
  /\ p_link' = [p_link EXCEPT ![u] = t]
  /\ p_last_xstream' = [p_last_xstream EXCEPT ![u] = e]
  /\ state' = [state EXCEPT ![u] = "RUNNING", ![t] = "BLOCKED"]
  /\ cur' = [cur EXCEPT ![e] = u]
  /\ Goto(t, "join.resumed")
  /\ UNCHANGED <<arg, ret, from, request, p_pool, preempted, mig, num_blocked,
                 num_migrations, stopVars>>

(* The target waits in the pool that only this ES pops from: switch to it. *)
JoinPool(e, t) ==
  LET u == arg[t] IN
  /\ At(e, t, "join.pool")
  /\ u \in pool[p_pool[u]]
  /\ num_blocked' = [num_blocked EXCEPT ![p_pool[t]] = @ + 1]
  /\ pool' = [pool EXCEPT ![p_pool[u]] = @ \ {u}]
  /\ p_link' = [p_link EXCEPT ![u] = t]
  /\ p_last_xstream' = [p_last_xstream EXCEPT ![u] = e]
  /\ state' = [state EXCEPT ![u] = "RUNNING", ![t] = "BLOCKED"]
  /\ cur' = [cur EXCEPT ![e] = u]
  /\ Goto(t, "join.resumed")
  /\ UNCHANGED <<arg, ret, from, request, p_pool, preempted, mig, num_migrations, stopVars>>

(* The first to set JOIN waits for the other.                              *)
JoinRequest(e, t) ==
  LET u == arg[t] IN
  /\ At(e, t, "join.request")
  /\ AddRequest(u, "JOIN")
  /\ Goto(t, IF "JOIN" \in request[u] THEN "join.yield" ELSE "join.block")
  /\ UNCHANGED <<cur, arg, ret, from, state, p_link, p_pool, p_last_xstream, preempted, mig,
                 poolVars, stopVars>>

JoinBlock(e, t) ==
  /\ At(e, t, "join.block")
  /\ SetBlocked(t)
  /\ Goto(t, "join.link")
  /\ UNCHANGED <<cur, arg, ret, from, p_link, p_pool, p_last_xstream, preempted, mig,
                 pool, num_migrations, stopVars>>

JoinLink(e, t) ==
  /\ At(e, t, "join.link")
  /\ p_link' = [p_link EXCEPT ![arg[t]] = t]
  /\ Goto(t, "join.suspend")
  /\ UNCHANGED <<cur, arg, ret, from, state, request, p_pool, p_last_xstream, preempted, mig,
                 poolVars, stopVars>>

JoinSuspend(e, t) ==
  /\ At(e, t, "join.suspend")
  /\ ToSched(e, t, "join.resumed")
  /\ UNCHANGED <<ret, from, threadVars, poolVars, stopVars>>

(* Mutant: the joiner that has been made ready returns at once.            *)
JoinResumedReturns(e, t) ==
  /\ At(e, t, "join.resumed")
  /\ IF state[t] = "BLOCKED"
     THEN /\ state' = [state EXCEPT ![t] = "RUNNING"]
          /\ num_blocked' = [num_blocked EXCEPT ![p_pool[t]] = @ - 1]
     ELSE UNCHANGED <<state, num_blocked>>
  /\ Goto(t, "user")
  /\ UNCHANGED <<cur, arg, ret, from, request, p_link, p_pool, p_last_xstream, preempted, mig,
                 pool, num_migrations, stopVars>>

(* Still BLOCKED: the target has ended on this ES and jumped here.         *)
JoinResumed(e, t) ==
  /\ At(e, t, "join.resumed")
  /\ IF state[t] = "BLOCKED"
     THEN /\ state' = [state EXCEPT ![t] = "RUNNING"]
          /\ num_blocked' = [num_blocked EXCEPT ![p_pool[t]] = @ - 1]
          /\ Goto(t, "user")
     ELSE /\ Goto(t, "join.yield")
          /\ UNCHANGED <<state, num_blocked>>
  /\ UNCHANGED <<cur, arg, ret, from, request, p_link, p_pool, p_last_xstream, preempted, mig,
                 pool, num_migrations, stopVars>>

JoinYield(e, t) ==
  /\ At(e, t, "join.yield")
  /\ IF state[arg[t]] = "TERMINATED"
     THEN Goto(t, "user") /\ UNCHANGED <<cur, arg, state>>
     ELSE state' = [state EXCEPT ![t] = "READY"] /\ ToSched(e, t, "join.yield")
  /\ UNCHANGED <<ret, from, request, p_link, p_pool, p_last_xstream, preempted, mig,
                 poolVars, stopVars>>

JoinStep(e, t) ==
  JoinPool(e, t) \/ JoinRequest(e, t) \/ JoinBlock(e, t) \/ JoinLink(e, t)
    \/ JoinSuspend(e, t) \/ JoinResumed(e, t) \/ JoinYield(e, t)
-----------------------------------------------------------------------------
(* ABTDI_thread_terminate: the function of ULT t has returned.             *)

(* Mutant: t jumps to its joiner wherever that last ran.                   *)
ExitJumpAnywhere(e, t) ==
  /\ At(e, t, "user")
  /\ p_link[t] # None
  /\ state' = [state EXCEPT ![t] = "TERMINATED"]
  /\ cur' = [cur EXCEPT ![e] = p_link[t]]
  /\ Goto(t, "done")
  /\ UNCHANGED <<arg, ret, from, request, p_link, p_pool, p_last_xstream, preempted, mig,
                 poolVars, stopVars>>

(* A joiner that last ran on the same ES goes on in the place of t.        *)
ExitJump(e, t) ==
  /\ At(e, t, "user")
  /\ p_link[t] # None /\ p_last_xstream[t] = p_last_xstream[p_link[t]]
  /\ state' = [state EXCEPT ![t] = "TERMINATED"]
  /\ cur' = [cur EXCEPT ![e] = p_link[t]]
  /\ Goto(t, "done")
  /\ UNCHANGED <<arg, ret, from, request, p_link, p_pool, p_last_xstream, preempted, mig,
                 poolVars, stopVars>>

(* A joiner of another ES is made ready, for its own scheduler.            *)
ExitWake(e, t) ==
  /\ At(e, t, "user")
  /\ p_link[t] # None /\ p_last_xstream[t] # p_last_xstream[p_link[t]]
  /\ arg' = [arg EXCEPT ![t] = p_link[t]] /\ ret' = [ret EXCEPT ![t] = "exit.store"]
  /\ Goto(t, "spin")
  /\ UNCHANGED <<cur, from, threadVars, poolVars, stopVars>>

ExitStore(e, t) ==
  /\ At(e, t, "exit.store")
  /\ request' = [request EXCEPT ![t] = {"TERMINATE"}]
  /\ Goto(t, "exit.leave")
  /\ UNCHANGED <<cur, arg, ret, from, state, p_link, p_pool, p_last_xstream, preempted, mig,
                 poolVars, stopVars>>

(* No joiner has left its link yet.                                        *)
ExitAlone(e, t) ==
  /\ At(e, t, "user")
  /\ p_link[t] = None
  /\ Goto(t, "exit.request")
  /\ UNCHANGED <<cur, arg, ret, from, threadVars, poolVars, stopVars>>

(* Mutant: a joiner whose link is still missing is forgotten.              *)
ExitRequestForgets(e, t) ==
  /\ At(e, t, "exit.request")
  /\ request' = [request EXCEPT ![t] = @ \cup {"JOIN", "TERMINATE"}]
  /\ Goto(t, "exit.leave")
  /\ UNCHANGED <<cur, arg, ret, from, state, p_link, p_pool, p_last_xstream, preempted, mig,
                 poolVars, stopVars>>

ExitRequest(e, t) ==
  /\ At(e, t, "exit.request")
  /\ request' = [request EXCEPT ![t] = @ \cup {"JOIN", "TERMINATE"}]
  /\ Goto(t, IF "JOIN" \in request[t] THEN "exit.link" ELSE "exit.leave")
  /\ UNCHANGED <<cur, arg, ret, from, state, p_link, p_pool, p_last_xstream, preempted, mig,
                 poolVars, stopVars>>

ExitLink(e, t) ==
  /\ At(e, t, "exit.link")
  /\ p_link[t] # None
  /\ arg' = [arg EXCEPT ![t] = p_link[t]] /\ ret' = [ret EXCEPT ![t] = "exit.leave"]
  /\ Goto(t, "spin")
  /\ UNCHANGED <<cur, from, threadVars, poolVars, stopVars>>

ExitLeave(e, t) ==
  /\ At(e, t, "exit.leave")
  /\ ToSched(e, t, "done")
  /\ UNCHANGED <<ret, from, threadVars, poolVars, stopVars>>

ExitStart(e, t) == ExitJump(e, t) \/ ExitWake(e, t) \/ ExitAlone(e, t)
ExitStep(e, t) ==
  ExitStore(e, t) \/ ExitRequest(e, t) \/ ExitLink(e, t) \/ ExitLeave(e, t)
-----------------------------------------------------------------------------
(* ABT_thread_cancel                                                       *)
Cancel(e, t, u) ==
  /\ At(e, t, "user") /\ <<t, u>> \in Cancels
  /\ state[u] # "TERMINATED"
  /\ AddRequest(u, "CANCEL")
  /\ UNCHANGED <<stackVars, state, p_link, p_pool, p_last_xstream, preempted, mig,
                 poolVars, stopVars>>

(* ABT_thread_yield_to: the caller is in the pool before it has left.      *)
YieldToPush(e, t, u) ==
  /\ At(e, t, "user") /\ <<t, u>> \in YieldsTo
  /\ p_pool[t] = p_pool[u]
  /\ state[u] = "READY" /\ Pooled(u)
  /\ state' = [state EXCEPT ![t] = "READY"]
  /\ pool' = [pool EXCEPT ![p_pool[t]] = @ \cup {t}]
  /\ arg' = [arg EXCEPT ![t] = u]
  /\ Goto(t, "yield_to")
  /\ UNCHANGED <<cur, ret, from, request, p_link, p_pool, p_last_xstream, preempted, mig,
                 num_blocked, num_migrations, stopVars>>

YieldToSwitch(e, t) ==
  LET u == arg[t] IN
  /\ At(e, t, "yield_to")
  /\ pool' = [pool EXCEPT ![p_pool[u]] = @ \ {u}]
  /\ p_last_xstream' = [p_last_xstream EXCEPT ![u] = e]
  /\ state' = [state EXCEPT ![u] = "RUNNING"]
  /\ cur' = [cur EXCEPT ![e] = u]
  /\ Goto(t, "user")
  /\ UNCHANGED <<arg, ret, from, request, p_link, p_pool, preempted, mig,
                 num_blocked, num_migrations, stopVars>>
-----------------------------------------------------------------------------
(* ABT_thread_migrate_to_xstream and ABT_thread_migrate_to_pool.  A ULT is *)
(* not migrated again before it has arrived.                               *)
Migratable(t, u) ==
  /\ <<t, u>> \in Migrates
  /\ state[u] # "TERMINATED" /\ "MIGRATE" \notin request[u]
  /\ \A c \in Threads : pc[c] \in {"mig.request", "mig.count"} => arg[c] # u

Locked(e)     == round[e] = 2 /\ pc[e] \in InStop
Terminated(e) == pc[e] = "stopped" \/ (round[e] = 3 /\ pc[e] \in InStop)

(* The number of migrations is increased while sched_lock is held.         *)
MigrateToXstream(e, t, u, d) ==
  /\ At(e, t, "user") /\ Migratable(t, u) /\ MigrateBy[SchedPool[d]] = "xstream"
  /\ ~ Locked(d) /\ ~ Terminated(d)
  /\ SchedPool[d] # p_pool[u]
  /\ num_migrations' = [num_migrations EXCEPT ![SchedPool[d]] = @ + 1]
  /\ from' = [from EXCEPT ![t] = SchedPool[d]] /\ arg' = [arg EXCEPT ![t] = u]
  /\ Goto(t, "mig.request")
  /\ UNCHANGED <<cur, ret, threadVars, pool, num_blocked, stopVars>>

MigrateToPool(e, t, u, p) ==
  /\ At(e, t, "user") /\ Migratable(t, u) /\ MigrateBy[p] = "pool"
  /\ p # p_pool[u]
  /\ from' = [from EXCEPT ![t] = p] /\ arg' = [arg EXCEPT ![t] = u]
  /\ Goto(t, "mig.request")
  /\ UNCHANGED <<cur, ret, threadVars, poolVars, stopVars>>

(* ABTI_thread_migrate_to_pool; migrate_to_pool counts when it returns.    *)
MigrateRequest(e, t) ==
  LET u == arg[t]
      next == IF MigrateBy[from[t]] = "pool" THEN "mig.count" ELSE "user"
  IN /\ At(e, t, "mig.request")
     /\ mig' = [mig EXCEPT ![u] = from[t]]
     /\ AddRequest(u, "MIGRATE")
     /\ IF t = u THEN state' = [state EXCEPT ![t] = "READY"] /\ ToSched(e, t, next)
                 ELSE Goto(t, next) /\ UNCHANGED <<state, cur, arg>>
     /\ UNCHANGED <<ret, from, p_link, p_pool, p_last_xstream, preempted, poolVars, stopVars>>

MigrateCount(e, t) ==
  /\ At(e, t, "mig.count")
  /\ num_migrations' = [num_migrations EXCEPT ![from[t]] = @ + 1]
  /\ Goto(t, "user")
  /\ UNCHANGED <<cur, arg, ret, from, threadVars, pool, num_blocked, stopVars>>
-----------------------------------------------------------------------------
(* The scheduler of ES e: ABTI_xstream_schedule_thread.                    *)
Pop(e, t) ==
  /\ At(e, e, "pop") /\ t \in pool[SchedPool[e]]
  /\ pool' = [pool EXCEPT ![SchedPool[e]] = @ \ {t}]
  /\ arg' = [arg EXCEPT ![e] = t]
  /\ Goto(e, "run")
  /\ UNCHANGED <<cur, ret, from, threadVars, num_blocked, num_migrations, stopVars>>

Run(e) ==
  LET t == arg[e] IN
  /\ At(e, e, "run") /\ request[t] \cap {"CANCEL", "MIGRATE"} = {}
  /\ p_last_xstream' = [p_last_xstream EXCEPT ![t] = e]
  /\ state' = [state EXCEPT ![t] = "RUNNING"]
  /\ preempted' = preempted \ {t}
  /\ cur' = [cur EXCEPT ![e] = t]
  /\ UNCHANGED <<pc, arg, ret, from, request, p_link, p_pool, mig, poolVars, stopVars>>

(* Request r of a ULT is handled before the scheduler runs it, or when it  *)
(* has come back and has none of the requests in rs, which go first.       *)
Handles(e, r, rs) ==
  /\ At(e, e, "run") \/ (At(e, e, "after") /\ request[arg[e]] \cap rs = {})
  /\ r \in request[arg[e]]

(* The ULT has yielded.                                                    *)
AfterYield(e) ==
  LET t == arg[e] IN
  /\ At(e, e, "after") /\ request[t] \cap NonYield = {}
  /\ state' = [state EXCEPT ![t] = "READY"]
  /\ pool' = [pool EXCEPT ![p_pool[t]] = @ \cup {t}]
  /\ Goto(e, "pop")
  /\ UNCHANGED <<cur, arg, ret, from, request, p_link, p_pool, p_last_xstream, preempted, mig,
                 num_blocked, num_migrations, stopVars>>

AfterBlock(e) ==
  /\ At(e, e, "after")
  /\ request[arg[e]] \cap {"TERMINATE", "CANCEL", "BLOCK"} = {"BLOCK"}
  /\ request' = [request EXCEPT ![arg[e]] = @ \ {"BLOCK"}]
  /\ Goto(e, "pop")
  /\ UNCHANGED <<cur, arg, ret, from, state, p_link, p_pool, p_last_xstream, preempted, mig,
                 poolVars, stopVars>>

AfterTerminate(e) ==
  /\ At(e, e, "after") /\ "TERMINATE" \in request[arg[e]]
  /\ Goto(e, "end")
  /\ UNCHANGED <<cur, arg, ret, from, threadVars, poolVars, stopVars>>

(* ABTI_xstream_terminate_thread                                           *)
End(e) ==
  /\ At(e, e, "end")
  /\ state' = [state EXCEPT ![arg[e]] = "TERMINATED"]
  /\ Goto(e, "pop")
  /\ UNCHANGED <<cur, arg, ret, from, request, p_link, p_pool, p_last_xstream, preempted, mig,
                 poolVars, stopVars>>

(* ABTI_xstream_migrate_thread                                             *)
MigrateThread(e) ==
  LET t == arg[e] IN
  /\ Handles(e, "MIGRATE", {"TERMINATE", "BLOCK"}) /\ "CANCEL" \notin request[t]
  /\ request' = [request EXCEPT ![t] = @ \ {"MIGRATE"}]
  /\ p_pool' = [p_pool EXCEPT ![t] = mig[t]]
  /\ pool' = [pool EXCEPT ![mig[t]] = @ \cup {t}]
  /\ from' = [from EXCEPT ![e] = mig[t]]
  /\ Goto(e, "mig.dec")
  /\ UNCHANGED <<cur, arg, ret, state, p_link, p_last_xstream, preempted, mig,
                 num_blocked, num_migrations, stopVars>>

(* Mutant: the count of the pool that the ULT leaves is taken back.        *)
MigrateDecOfSource(e) ==
  /\ At(e, e, "mig.dec")
  /\ num_migrations' = [num_migrations EXCEPT ![SchedPool[e]] = @ - 1]
  /\ Goto(e, "pop")
  /\ UNCHANGED <<cur, arg, ret, from, threadVars, pool, num_blocked, stopVars>>

MigrateDec(e) ==
  /\ At(e, e, "mig.dec")
  /\ num_migrations' = [num_migrations EXCEPT ![from[e]] = @ - 1]
  /\ Goto(e, "pop")
  /\ UNCHANGED <<cur, arg, ret, from, threadVars, pool, num_blocked, stopVars>>

(* ABTD_thread_cancel: as ABTDI_thread_terminate, but never by a jump.     *)
CancelStart(e) ==
  LET t == arg[e] IN
  /\ Handles(e, "CANCEL", {"TERMINATE"})
  /\ ret' = [ret EXCEPT ![e] = "end"]
  /\ Goto(e, IF p_link[t] # None THEN "spin" ELSE "cancel.request")
  /\ UNCHANGED <<cur, arg, from, threadVars, poolVars, stopVars>>

CancelRequest(e) ==
  LET t == arg[e] IN
  /\ At(e, e, "cancel.request")
  /\ request' = [request EXCEPT ![t] = @ \cup {"JOIN", "TERMINATE"}]
  /\ Goto(e, IF "JOIN" \in request[t] THEN "cancel.link" ELSE "end")
  /\ UNCHANGED <<cur, arg, ret, from, state, p_link, p_pool, p_last_xstream, preempted, mig,
                 poolVars, stopVars>>

CancelLink(e) ==
  /\ At(e, e, "cancel.link")
  /\ p_link[arg[e]] # None
  /\ Goto(e, "spin")
  /\ UNCHANGED <<cur, arg, ret, from, threadVars, poolVars, stopVars>>
-----------------------------------------------------------------------------
(* ABTI_sched_has_to_stop and the end of ABTI_xstream_schedule: the size   *)
(* of the pool, its migrations and its blocked ULTs are read one by one.   *)
(* A scheduler that nobody ever asks to finish only reads.                 *)
HasToStop(e) ==
  /\ At(e, e, "pop") /\ e \in Finishing
  /\ Goto(e, "size")
  /\ UNCHANGED <<cur, arg, ret, from, threadVars, poolVars, stopVars>>

ReadSize(e) ==
  /\ At(e, e, "size")
  /\ seen' = [seen EXCEPT ![e] = Cardinality(pool[SchedPool[e]])]
  /\ Goto(e, "migrations")
  /\ UNCHANGED <<cur, arg, ret, from, threadVars, poolVars, finish, round>>

ReadMigrations(e) ==
  /\ At(e, e, "migrations")
  /\ seen' = [seen EXCEPT ![e] = @ + num_migrations[SchedPool[e]]]
  /\ Goto(e, "blocked")
  /\ UNCHANGED <<cur, arg, ret, from, threadVars, poolVars, finish, round>>

(* Blocked ULTs count in the pools of one scheduler only.                  *)
Served(p) == {e \in Xstreams : SchedPool[e] = p}
Single(p) == \E e \in Xstreams : Served(p) = {e}

EffectiveSize(e) ==
  seen[e] + IF Single(SchedPool[e]) THEN num_blocked[SchedPool[e]] ELSE 0

(* Mutant: no third look at the pool once the lock has been released.      *)
ReadBlockedTwice(e) ==
  LET zero == EffectiveSize(e) = 0 /\ (round[e] = 1 => e \in finish) IN
  /\ At(e, e, "blocked")
  /\ Goto(e, IF ~ zero THEN "pop" ELSE IF round[e] = 2 THEN "stopped" ELSE "size")
  /\ round' = [round EXCEPT ![e] = IF zero /\ @ < 2 THEN @ + 1 ELSE 1]
  /\ seen' = [seen EXCEPT ![e] = 0]
  /\ UNCHANGED <<cur, arg, ret, from, threadVars, poolVars, finish>>

ReadBlocked(e) ==
  LET zero == EffectiveSize(e) = 0 /\ (round[e] = 1 => e \in finish) IN
  /\ At(e, e, "blocked")
  /\ Goto(e, IF ~ zero THEN "pop" ELSE IF round[e] = 3 THEN "stopped" ELSE "size")
  /\ round' = [round EXCEPT ![e] = IF zero /\ @ < 3 THEN @ + 1 ELSE 1]
  /\ seen' = [seen EXCEPT ![e] = 0]
  /\ UNCHANGED <<cur, arg, ret, from, threadVars, poolVars, finish>>

(* Somebody calls ABT_xstream_join.                                        *)
XstreamJoin(e) ==
  /\ e \in Finishing \ finish
  /\ finish' = finish \cup {e}
  /\ UNCHANGED <<stackVars, threadVars, poolVars, seen, round>>
-----------------------------------------------------------------------------
Init ==
  /\ cur = [e \in Xstreams |-> e]
  /\ pc = [c \in Contexts |-> IF c \in Xstreams THEN "pop" ELSE "user"]
  /\ arg = [c \in Contexts |-> None]
  /\ ret = [c \in Contexts |-> "user"]
  /\ from = [c \in Contexts |-> None]
  /\ state = [t \in Threads |-> "READY"]
  /\ request = [t \in Threads |-> {}]
  /\ p_link = [t \in Threads |-> None]
  /\ p_pool = FirstPool
  /\ p_last_xstream = [t \in Threads |-> None]
  /\ preempted = {}
  /\ mig = [t \in Threads |-> None]
  /\ pool = [p \in Pools |-> {t \in Threads : FirstPool[t] = p}]
  /\ num_blocked = [p \in Pools |-> 0]
  /\ num_migrations = [p \in Pools |-> 0]
  /\ finish = {}
  /\ seen = [e \in Xstreams |-> 0]
  /\ round = [e \in Xstreams |-> 1]

UserStep(e, t) ==
  \/ Yield(e, t) \/ Preempt(e, t) \/ SuspendBlock(e, t) \/ ExitStart(e, t)
  \/ \E u \in Threads : Resume(e, t, u) \/ JoinStart(e, t, u) \/ Cancel(e, t, u)
                          \/ YieldToPush(e, t, u)
  \/ \E u \in Threads, d \in Xstreams : MigrateToXstream(e, t, u, d)
  \/ \E u \in Threads, p \in Pools : MigrateToPool(e, t, u, p)

(* A step that ULT t takes inside the runtime.                             *)
RuntimeStep(e, t) ==
  \/ SuspendSwitch(e, t) \/ JoinStep(e, t) \/ ExitStep(e, t) \/ YieldToSwitch(e, t)
  \/ MigrateRequest(e, t) \/ MigrateCount(e, t)
  \/ SetReadySpin(e, t) \/ SetReadyPush(e, t) \/ SetReadyDec(e, t)

SchedStep(e) ==
  \/ \E t \in Threads : Pop(e, t)
  \/ Run(e) \/ AfterYield(e) \/ AfterBlock(e) \/ AfterTerminate(e) \/ End(e)
  \/ MigrateThread(e) \/ MigrateDec(e) \/ CancelStart(e) \/ CancelRequest(e) \/ CancelLink(e)
  \/ SetReadySpin(e, e) \/ SetReadyPush(e, e) \/ SetReadyDec(e, e)
  \/ HasToStop(e) \/ ReadSize(e) \/ ReadMigrations(e) \/ ReadBlocked(e)

EsStep(e) == SchedStep(e) \/ \E t \in Threads : UserStep(e, t) \/ RuntimeStep(e, t)

Next == \E e \in Xstreams : EsStep(e) \/ XstreamJoin(e)

Spec == Init /\ [][Next]_vars
-----------------------------------------------------------------------------
(* Safety.                                                                 *)

InHand == {"run", "after", "cancel.request", "cancel.link", "end"}

(* Who holds ULT t: an ES that executes it, a pool, a scheduler that has   *)
(* popped it or got it back, or a waker that is about to push it.  The     *)
(* caller of yield_to is in the pool and still executes, which is harmless *)
(* if only its own ES pops from that pool.                                 *)
Holders(t) ==
  {<<"es", e>> : e \in {d \in Xstreams : cur[d] = t}}
    \cup {<<"pool", p>> : p \in {q \in Pools : t \in pool[q] /\ pc[t] # "yield_to"}}
    \cup {<<"sched", e>> : e \in {d \in Xstreams : arg[d] = t /\ cur[d] = d /\
            (pc[d] \in InHand \/ (pc[d] \in InSetReady /\ ret[d] = "end"))}}
    \cup {<<"waker", c>> : c \in {d \in Contexts : pc[d] = "push" /\ Woken(d) = t}}

(* A ULT is in one place: never executed by two ESs, in a pool while it    *)
(* runs or is about to be pushed again, or nowhere unless it waits or has  *)
(* ended (ABTI_thread_set_ready waits for the BLOCK request to be taken    *)
(* back, thread.c:2148).                                                   *)
OneHolder ==
  \A t \in Threads :
    /\ Cardinality(Holders(t)) <= 1
    /\ Holders(t) = {} => state[t] \in {"BLOCKED", "TERMINATED"}

(* A scheduler stops only if its pool counts: num_blocked is the number of *)
(* blocked ULTs of the pool and of those just pushed by their wakers.      *)
BlockedCounted ==
  \A p \in Pools :
    num_blocked[p] =
      Cardinality({t \in Threads : state[t] = "BLOCKED" /\ p_pool[t] = p})
        + Cardinality({c \in Contexts : pc[c] \in {"push", "dec"} /\ from[c] = p})

(* The only scheduler of a pool stops when every ULT of the pool has ended *)
(* and none is on its way to it, although it reads the pool, its           *)
(* migrations and its blocked ULTs one after the other while others push.  *)
EsStopsEmpty ==
  \A e \in Xstreams : pc[e] = "stopped" /\ Single(SchedPool[e]) =>
    /\ \A t \in Threads : p_pool[t] = SchedPool[e] => state[t] = "TERMINATED"
    /\ \A t \in Threads : "MIGRATE" \in request[t] /\ mig[t] = SchedPool[e]
                            => state[t] = "TERMINATED"

(* A ULT that has ended is not touched any more (abti_stream.h:144): no ES *)
(* executes it, nobody wakes it, and no ULT that still runs has it as its  *)
(* joiner.                                                                 *)
NoUseAfterEnd ==
  \A u \in Threads : state[u] = "TERMINATED" =>
    /\ \A e \in Xstreams : cur[e] # u
    /\ \A c \in Contexts : pc[c] \in {"spin", "push"} => Woken(c) # u
    /\ \A t \in Threads : p_link[t] = u => state[t] = "TERMINATED"

(* Nobody switches to a ULT whose KLT still sleeps (stream.c:1592).        *)
ResumedOnItsKlt == \A e \in Xstreams : cur[e] \notin preempted

(* ABT_thread_join returns only when its target has ended.                 *)
JoinSeesEnd ==
  [][\A t \in Threads :
       pc[t] \in InJoin /\ pc'[t] = "user" => state[arg[t]] = "TERMINATED"]_vars
-----------------------------------------------------------------------------
(* Liveness.                                                               *)

(* The kernel schedules the KLT of every ES; a scheduler loops, pops from  *)
(* a FIFO pool and asks has_to_stop again and again; the function of a ULT *)
(* that gets processor time ends; everybody calls ABT_xstream_join.        *)
FairSpec ==
  /\ Spec
  /\ \A e \in Xstreams : WF_vars(EsStep(e))
  /\ \A e \in Finishing : SF_vars(HasToStop(e)) /\ WF_vars(XstreamJoin(e))
  /\ \A t \in Threads : SF_vars(\E e \in Xstreams : Pop(e, t))
  /\ SF_vars(\E e \in Xstreams, t \in Threads : ExitStart(e, t))

(* A join returns, wherever the joiner and its target meet.                *)
JoinReturns == \A t \in Threads : pc[t] \in InJoin ~> pc[t] = "user"

(* When join is requested, the ES terminates after finishing execution of  *)
(* all work units (stream.c:1510).                                         *)
EsStops ==
  (\A t \in Threads : state[t] = "TERMINATED") ~> (\A e \in Finishing : pc[e] = "stopped")
=============================================================================
