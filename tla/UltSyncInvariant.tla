-------------------------- MODULE UltSyncInvariant --------------------------
(***************************************************************************)
(* The inductive invariant IInv of UltSync, which UltSyncProofs proves:    *)
(* where a ULT is, by whom and by what it is going to be run, and who      *)
(* waits for it.  Here: its parts, what they say of the ULT that a step is *)
(* about, how a ULT ends, and the steps for the parts about what an ES     *)
(* executes, what its scheduler has in its hands and what a pool holds.    *)
(***************************************************************************)
EXTENDS UltSync, FiniteSetTheorems, TLAPS

-----------------------------------------------------------------------------
(* What the theorems ask of the program.  The code checks none of it; what *)
(* goes wrong without it is in the README, under findings.                 *)

(* Nobody joins a ULT that another one joins: a ULT has one field for its  *)
(* joiner, and a second joiner may wait for ever.                          *)
OneJoiner == \A i, j \in Joins : i[2] = j[2] => i = j

(* A ULT that is cancelled waits for nothing.                              *)
WaitersStay == \A c \in Cancels : c[2] \notin Suspenders /\ \A j \in Joins : j[1] # c[2]

(* yield_to is used where no two ESs share a pool.                         *)
YieldToAtHome ==
  YieldsTo # {} => \A d, e \in Xstreams : SchedPool[d] = SchedPool[e] => d = e

Program == OneJoiner /\ WaitersStay /\ YieldToAtHome
-----------------------------------------------------------------------------
(* The invariant.  TypeOK, by variables.                                   *)
StackOK ==
  /\ cur \in [Xstreams -> Contexts] /\ \A e \in Xstreams : cur[e] \in Threads \cup {e}
  /\ arg \in [Contexts -> Threads \cup {None}]
  /\ from \in [Contexts -> Pools \cup {None}]
RetOK ==
  /\ ret \in [Contexts -> {"user", "exit.store", "exit.leave", "end"}]
  /\ \A t \in Threads : ret[t] # "end"
PcOK ==
  /\ pc \in [Contexts -> UltLabels \cup EsLabels]
  /\ \A t \in Threads : pc[t] \in UltLabels
  /\ \A e \in Xstreams : pc[e] \in EsLabels
ThreadOK ==
  /\ request \in [Threads -> SUBSET Requests]
  /\ p_link \in [Threads -> Threads \cup {None}]
  /\ p_pool \in [Threads -> Pools]
  /\ p_last_xstream \in [Threads -> Xstreams \cup {None}]
  /\ preempted \in SUBSET Threads
  /\ mig \in [Threads -> Pools \cup {None}]
StateOK == state \in [Threads -> {"READY", "RUNNING", "BLOCKED", "TERMINATED"}]
CountOK ==
  /\ pool \in [Pools -> SUBSET Threads]
  /\ num_blocked \in [Pools -> Int] /\ num_migrations \in [Pools -> Int]
StopOK == finish \in SUBSET Xstreams /\ seen \in [Xstreams -> Int] /\ round \in [Xstreams -> 1..3]

(* Where a ULT is when no ES executes it; where it is BLOCKED and still    *)
(* executes; where a scheduler cancels the ULT in its hands.               *)
Off       == {"user", "join.resumed", "join.yield", "mig.count", "done"}
Blocking  == {"suspend", "join.link", "join.suspend"}
Canceling == InSetReady \cup {"cancel.request", "cancel.link"}

(* An ES executes t: if any does, it is the last that ran it.              *)
On(t) == p_last_xstream[t] \in Xstreams /\ cur[p_last_xstream[t]] = t

(* The scheduler of e has t in its hands.                                  *)
Hand(e, t) == cur[e] = e /\ arg[e] = t /\ pc[e] \in InHand \cup InSetReady

Cancelled(t) == \E c \in Cancels : c[2] = t

EsInv ==
  \A e \in Xstreams :
    /\ cur[e] # e => pc[e] = "run"
    /\ cur[e] = e /\ pc[e] \in InHand \cup InSetReady => arg[e] \in Threads
    /\ pc[e] \in Canceling => ret[e] = "end"
    /\ pc[e] \in InSetReady => p_link[arg[e]] # None

LabelInv == \A t \in Threads : pc[t] \notin Off => On(t)

(* What is true of a ULT that ES e executes.                               *)
RunsOn(e, t) ==
  /\ p_last_xstream[t] = e /\ p_pool[t] = SchedPool[e] /\ pc[t] # "done"
  /\ pc[t] \in Blocking => state[t] = "BLOCKED"
  /\ pc[t] = "yield_to" => state[t] = "READY"
  /\ pc[t] \notin Blocking \cup {"yield_to", "join.resumed"} => state[t] = "RUNNING"
  /\ pc[t] = "join.resumed" =>
       state[t] = "RUNNING" \/ (state[t] = "BLOCKED" /\ state[arg[t]] = "TERMINATED")
  /\ "BLOCK" \in request[t] <=> pc[t] \in Blocking
  /\ "TERMINATE" \in request[t] <=>
       \/ pc[t] \in {"exit.link", "exit.leave"}
       \/ pc[t] \in InSetReady /\ ret[t] = "exit.leave"
  /\ \A p \in Pools : t \in pool[p] => pc[t] = "yield_to"

RunInv == \A e \in Xstreams, t \in Threads : cur[e] = t => RunsOn(e, t)

YieldingAt(t) ==
  pc[t] = "yield_to" =>
    /\ <<t, arg[t]>> \in YieldsTo
    /\ t \in pool[p_pool[t]] /\ arg[t] \in pool[p_pool[t]]

YieldInv == \A t \in Threads : YieldingAt(t)

InPool(t, p) ==
  /\ p = p_pool[t] /\ state[t] = "READY" /\ pc[t] # "done"
  /\ "BLOCK" \notin request[t] /\ "TERMINATE" \notin request[t]

PoolInv == \A t \in Threads, p \in Pools : t \in pool[p] => InPool(t, p)

(* What is true of a ULT that the scheduler of e has in its hands: it has  *)
(* been popped or has yielded, it is being cancelled, it blocks, or ends.  *)
HeldBy(e, t) ==
  /\ p_pool[t] = SchedPool[e]
  /\ \A d \in Xstreams : cur[d] # t
  /\ \A d \in Xstreams : Hand(d, t) => d = e
  /\ \A p \in Pools : t \notin pool[p]
  /\ \/ /\ pc[e] \in {"run", "after"} /\ state[t] = "READY" /\ pc[t] # "done"
        /\ "BLOCK" \notin request[t] /\ "TERMINATE" \notin request[t]
     \/ /\ pc[e] \in Canceling \cup {"end"} /\ state[t] = "READY" /\ pc[t] # "done"
        /\ "BLOCK" \notin request[t] /\ Cancelled(t)
     \/ /\ pc[e] = "after" /\ state[t] = "BLOCKED" /\ p_last_xstream[t] = e
        /\ "BLOCK" \in request[t]
     \/ /\ pc[e] \in {"after", "end"} /\ state[t] = "RUNNING" /\ pc[t] = "done"
        /\ "TERMINATE" \in request[t] /\ "BLOCK" \notin request[t]

HandInv == \A e \in Xstreams, t \in Threads : Hand(e, t) => HeldBy(e, t)

(* A blocked ULT goes on in the pool, and on the ES, where it blocked; its *)
(* BLOCK request is there until the scheduler of that ES has it back.      *)
BlockedAt(t) ==
  /\ state[t] = "BLOCKED" =>
       /\ p_last_xstream[t] \in Xstreams /\ p_pool[t] = SchedPool[p_last_xstream[t]]
       /\ \/ t \in Suspenders /\ pc[t] \in {"suspend", "user"}
          \/ pc[t] \in {"join.link", "join.suspend", "join.resumed"}
       /\ "TERMINATE" \notin request[t]
  /\ "BLOCK" \in request[t] =>
       /\ state[t] = "BLOCKED"
       /\ On(t) \/ Hand(p_last_xstream[t], t)

BlockedInv == \A t \in Threads : BlockedAt(t)

(* The end of t has come past the point where it meets its joiner.         *)
Woke(t) ==
  \/ state[t] = "TERMINATED" \/ pc[t] \in {"exit.store", "exit.leave", "done"}
  \/ pc[t] \in {"push", "dec"} /\ ret[t] # "user"
  \/ \E e \in Xstreams : Hand(e, t) /\ pc[e] \in {"push", "dec", "end"}

(* Who calls set_ready: ABT_thread_resume, or the end of ULT Ender(c).     *)
Resumer(c) == c \in Threads /\ ret[c] = "user"
Ender(c)   == IF c \in Xstreams THEN arg[c] ELSE c

(* What is true of the ULT that c makes ready.                             *)
WokenBy(c) ==
  /\ Woken(c) \in Threads
  /\ Resumer(c) =>
       /\ pc[Woken(c)] \in {"suspend", "user"}
       /\ \A d \in Threads :
            pc[d] \in {"spin", "push"} /\ ret[d] = "user" /\ arg[d] = arg[c] => d = c
  /\ ~ Resumer(c) =>
       /\ p_link[Ender(c)] = Woken(c) /\ arg[Woken(c)] = Ender(c)
       /\ pc[Woken(c)] \in {"join.suspend", "join.resumed"}
  /\ pc[c] = "spin" => state[Woken(c)] = "BLOCKED"
  /\ pc[c] = "push" =>
       /\ state[Woken(c)] = "READY" /\ pc[Woken(c)] \in Off
       /\ from[c] = p_pool[Woken(c)]
       /\ "BLOCK" \notin request[Woken(c)] /\ "TERMINATE" \notin request[Woken(c)]
       /\ \A e \in Xstreams : cur[e] # Woken(c) /\ ~ Hand(e, Woken(c))
       /\ \A p \in Pools : Woken(c) \notin pool[p]

WakeInv == \A c \in Contexts : pc[c] \in {"spin", "push"} => WokenBy(c)

(* No ULT that can run is lost.                                            *)
Placed(t) ==
  \/ On(t) \/ t \in pool[p_pool[t]]
  \/ \E e \in Xstreams : Hand(e, t)
  \/ \E c \in Contexts : pc[c] = "push" /\ Woken(c) = t

PlaceInv == \A t \in Threads : state[t] \in {"READY", "RUNNING"} => Placed(t)

(* What is true of a ULT that joins another one.                           *)
Joining(j) ==
  /\ <<j, arg[j]>> \in Joins /\ state[j] # "TERMINATED"
  /\ pc[j] \in {"join.pool", "join.request", "join.block", "join.link"} => p_link[arg[j]] = None
  /\ pc[j] \in {"join.block", "join.link"} => "JOIN" \in request[arg[j]] /\ ~ Woke(arg[j])
  /\ pc[j] = "join.pool" =>
       Access[p_pool[j]] \in SingleConsumer /\ p_pool[arg[j]] = p_pool[j]

JoinInv == \A j \in Threads : pc[j] \in InJoin => Joining(j)

(* What is true of the joiner of t until t has ended.                      *)
Linked(t) ==
  LET j == p_link[t] IN
  /\ arg[j] = t /\ pc[j] \in {"join.suspend", "join.resumed", "join.yield"}
  /\ ~ Woke(t) => pc[j] # "join.yield" /\ state[j] = "BLOCKED"

LinkInv == \A t \in Threads : p_link[t] # None /\ state[t] # "TERMINATED" => Linked(t)

EndInv ==
  \A t \in Threads :
    /\ Woke(t) => "JOIN" \in request[t] \/ p_link[t] # None
    /\ pc[t] \in InSetReady /\ ret[t] # "user" => p_link[t] # None
    /\ pc[t] = "exit.store" => p_link[t] # None
    /\ "CANCEL" \in request[t] => Cancelled(t)

MigInv ==
  \A t \in Threads :
    /\ "MIGRATE" \in request[t] => mig[t] \in Pools
    /\ pc[t] = "mig.request" =>
         /\ arg[t] \in Threads /\ from[t] \in Pools /\ "MIGRATE" \notin request[arg[t]]
         /\ \A u \in Threads : pc[u] = "mig.request" /\ arg[u] = arg[t] => u = t
    /\ pc[t] = "mig.count" => MigrateBy[from[t]] = "pool"

IInv ==
  /\ StackOK /\ RetOK /\ PcOK /\ ThreadOK /\ StateOK /\ CountOK /\ StopOK
  /\ EsInv /\ LabelInv /\ RunInv /\ YieldInv /\ PoolInv /\ HandInv /\ BlockedInv /\ WakeInv
  /\ PlaceInv /\ JoinInv /\ LinkInv /\ EndInv /\ MigInv
-----------------------------------------------------------------------------
(* What the other parts of the invariant say of the ULT that a step is     *)
(* about.                                                                  *)

(* The ULT that a scheduler has in its hands.                              *)
LEMMA HandTarget ==
  ASSUME ConstantsAssumption, IInv, NEW e \in Xstreams, cur[e] = e,
         pc[e] \in InHand \cup InSetReady,
         NEW t, t = arg[e]
  PROVE  t \in Threads /\ Hand(e, t) /\ HeldBy(e, t)
BY DEF IInv, EsInv, HandInv, Hand

(* The ES of a ULT in a pool with a single consumer, or of one in          *)
(* yield_to, has its pool for itself.                                      *)
LEMMA AloneAtHome ==
  ASSUME ConstantsAssumption, Program, IInv, NEW e \in Xstreams, NEW t \in Threads, cur[e] = t,
         YieldsTo # {} \/ Access[p_pool[t]] \in SingleConsumer, NEW d \in Xstreams,
         SchedPool[d] = SchedPool[e]
  PROVE  d = e
BY DEF ConstantsAssumption, IInv, RunInv, RunsOn, Program, YieldToAtHome

(* The joiner that a ULT jumps to as it ends is blocked, and nowhere else. *)
LEMMA JumpTarget ==
  ASSUME ConstantsAssumption, IInv, NEW e \in Xstreams, NEW t \in Threads, ExitJump(e, t),
         NEW j, j = p_link[t]
  PROVE  /\ j \in Threads /\ j # t /\ p_last_xstream[j] = e /\ p_pool[j] = SchedPool[e]
         /\ state[j] = "BLOCKED" /\ pc[j] = "join.resumed" /\ arg[j] = t
         /\ "BLOCK" \notin request[j] /\ "TERMINATE" \notin request[j]
         /\ \A d \in Xstreams : cur[d] # j /\ ~ Hand(d, j)
         /\ \A p \in Pools : j \notin pool[p]
         /\ ~ Woke(t)
<1> USE DEF IInv, ExitJump, At, Goto
<1>1. /\ cur[e] = t /\ pc[t] = "user" /\ j \in Threads /\ p_last_xstream[t] = e
      /\ p_last_xstream[j] = e /\ p_pool[t] = SchedPool[e] /\ state[t] = "RUNNING" /\ t # e
  BY DEF RunInv, RunsOn, ThreadOK, ConstantsAssumption, Blocking
<1>2. ~ Woke(t)
  BY <1>1 DEF Woke, HandInv, HeldBy
<1>3. arg[j] = t /\ pc[j] \in {"join.suspend", "join.resumed"} /\ state[j] = "BLOCKED"
  BY <1>1, <1>2 DEF LinkInv, Linked, ConstantsAssumption
<1>4. j # t /\ p_pool[j] = SchedPool[e] /\ "TERMINATE" \notin request[j]
  BY <1>1, <1>3 DEF BlockedInv, BlockedAt
<1>5. \A d \in Xstreams : cur[d] # j
  BY <1>1, <1>4 DEF RunInv, RunsOn
<1>6. pc[j] = "join.resumed"
  BY <1>1, <1>3, <1>5 DEF LabelInv, On, Off
<1>7. "BLOCK" \notin request[j]
  BY <1>1, <1>3, <1>5 DEF BlockedInv, BlockedAt, On, Hand
<1>8. \A d \in Xstreams : ~ Hand(d, j)
  BY <1>1, <1>3, <1>7 DEF HandInv, HeldBy
<1>9. \A p \in Pools : j \notin pool[p]
  BY <1>1, <1>3 DEF PoolInv, InPool
<1> QED
  BY <1>1, <1>2, <1>3, <1>4, <1>5, <1>6, <1>7, <1>8, <1>9

(* A ULT in a pool is not executed, unless it is about to yield to another one. *)
LEMMA PoolTarget ==
  ASSUME ConstantsAssumption, IInv, NEW p \in Pools, NEW t \in Threads, t \in pool[p]
  PROVE  /\ p_pool[t] = p /\ state[t] = "READY" /\ pc[t] # "done"
         /\ "BLOCK" \notin request[t] /\ "TERMINATE" \notin request[t]
         /\ \A d \in Xstreams : ~ Hand(d, t) /\ (cur[d] = t => pc[t] = "yield_to"
              /\ SchedPool[d] = p)
         /\ pc[t] # "yield_to" => pc[t] \in Off /\ \A d \in Xstreams : cur[d] # t
         /\ ~ Woke(t)
<1> USE DEF IInv
<1>1. /\ p_pool[t] = p /\ state[t] = "READY" /\ pc[t] # "done"
      /\ "BLOCK" \notin request[t] /\ "TERMINATE" \notin request[t]
  BY DEF PoolInv, InPool
<1>2. \A d \in Xstreams : ~ Hand(d, t)
  BY DEF HandInv, HeldBy
<1>3. \A d \in Xstreams : cur[d] = t => pc[t] = "yield_to" /\ SchedPool[d] = p
  BY <1>1 DEF RunInv, RunsOn
<1>4. pc[t] # "yield_to" => pc[t] \in Off /\ \A d \in Xstreams : cur[d] # t
  BY <1>3 DEF LabelInv, On
<1>5. ~ Woke(t)
  BY <1>1, <1>2, <1>4 DEF Woke, Off
<1> QED
  BY <1>1, <1>2, <1>3, <1>4, <1>5

(* A target found in the pool of its joiner has not started and stays there. *)
LEMMA JoinPoolTarget ==
  ASSUME ConstantsAssumption, Program, IInv, NEW e \in Xstreams, NEW t \in Threads, cur[e] = t,
         pc[t] = "join.pool", arg[t] \in pool[p_pool[arg[t]]]
  PROVE  LET u == arg[t] IN
         /\ u \in Threads /\ u # t /\ u \in pool[SchedPool[e]] /\ pc[u] # "yield_to"
         /\ p_link[u] = None /\ <<t, u>> \in Joins
         /\ \A d \in Xstreams : SchedPool[d] = SchedPool[e] => d = e
<1> USE DEF IInv
<1> DEFINE u == arg[t]
<1>1. /\ cur[e] = t /\ pc[t] = "join.pool" /\ p_pool[t] = SchedPool[e] /\ p_last_xstream[t] = e
  BY DEF RunInv, RunsOn
<1>2. /\ u \in Threads /\ u # t /\ p_link[u] = None /\ <<t, u>> \in Joins
      /\ Access[p_pool[t]] \in SingleConsumer /\ p_pool[u] = p_pool[t]
  BY <1>1 DEF JoinInv, Joining, InJoin, ConstantsAssumption
<1>3. \A d \in Xstreams : SchedPool[d] = SchedPool[e] => d = e
  BY <1>1, <1>2, AloneAtHome
<1>4. u \in pool[SchedPool[e]]
  BY <1>1, <1>2
<1>5. pc[u] # "yield_to"
  BY <1>1, <1>2, <1>3, <1>4 DEF LabelInv, On, Off, RunInv, RunsOn
<1> QED
  BY <1>1, <1>2, <1>3, <1>4, <1>5

(* The target of a yield_to has not ended and is in the pool.              *)
LEMMA YieldToTarget ==
  ASSUME ConstantsAssumption, Program, IInv, NEW e \in Xstreams, NEW t \in Threads,
         At(e, t, "yield_to"),
         NEW u, u = arg[t]
  PROVE  /\ u \in Threads /\ u # t /\ u \in pool[SchedPool[e]] /\ t \in pool[SchedPool[e]]
         /\ pc[u] # "yield_to" /\ p_pool[u] = SchedPool[e] /\ p_pool[t] = SchedPool[e]
         /\ \A d \in Xstreams : SchedPool[d] = SchedPool[e] => d = e
<1> USE DEF IInv, At
<1>1. /\ cur[e] = t /\ pc[t] = "yield_to" /\ p_pool[t] = SchedPool[e] /\ p_last_xstream[t] = e
  BY DEF RunInv, RunsOn
<1>2. /\ u \in Threads /\ u # t /\ <<t, u>> \in YieldsTo
      /\ t \in pool[p_pool[t]] /\ u \in pool[p_pool[t]]
  BY <1>1 DEF YieldInv, YieldingAt, ConstantsAssumption
<1>3. \A d \in Xstreams : SchedPool[d] = SchedPool[e] => d = e
  BY <1>1, <1>2, AloneAtHome
<1>4. p_pool[u] = SchedPool[e]
  BY <1>1, <1>2 DEF PoolInv, InPool, ThreadOK
<1>5. pc[u] # "yield_to"
  BY <1>1, <1>2, <1>3, <1>4 DEF LabelInv, On, Off, RunInv, RunsOn
<1> QED
  BY <1>1, <1>2, <1>3, <1>4, <1>5

(* The ULT that somebody is about to make ready has left its ES.           *)
LEMMA SpinTarget ==
  ASSUME ConstantsAssumption, IInv, NEW e \in Xstreams, NEW c \in Contexts, At(e, c, "spin"),
         NEW j, j = Woken(c), "BLOCK" \notin request[j]
  PROVE  /\ j \in Threads /\ state[j] = "BLOCKED" /\ pc[j] \in {"user", "join.resumed"} /\ j # c
         /\ "TERMINATE" \notin request[j]
         /\ \A d \in Xstreams : cur[d] # j /\ ~ Hand(d, j)
         /\ \A p \in Pools : j \notin pool[p]
         /\ ~ Resumer(c) => /\ p_link[Ender(c)] = j /\ arg[j] = Ender(c) /\ pc[j] = "join.resumed"
                            /\ Ender(c) \in Threads /\ state[Ender(c)] # "TERMINATED"
         /\ Resumer(c) => pc[j] = "user"
<1> USE DEF IInv, At
<1>1. j \in Threads /\ state[j] = "BLOCKED"
  BY DEF WakeInv, WokenBy
<1>2. ~ Resumer(c) => /\ p_link[Ender(c)] = j /\ arg[j] = Ender(c)
        /\ pc[j] \in {"join.suspend", "join.resumed"}
                      /\ Ender(c) \in Threads /\ state[Ender(c)] # "TERMINATED"
  <2>1. CASE c \in Threads
    <3>1. state[c] = "RUNNING"
      BY <2>1 DEF RunInv, RunsOn, Blocking
    <3> QED
      BY <2>1, <3>1 DEF WakeInv, WokenBy, Ender, ConstantsAssumption
  <2>2. CASE c \in Xstreams
    <3>1. e = c
      BY <2>2 DEF StackOK, ConstantsAssumption
    <3>2. arg[e] \in Threads /\ HeldBy(e, arg[e])
      BY <3>1, HandTarget DEF InSetReady
    <3> QED
      BY <2>2, <3>1, <3>2 DEF WakeInv, WokenBy, Ender, HeldBy
  <2> QED
    BY <2>1, <2>2 DEF Contexts
<1>3. Resumer(c) => pc[j] \in {"suspend", "user"}
  BY DEF WakeInv, WokenBy
<1>4. \A d \in Xstreams : cur[d] # j
  BY <1>1, <1>2, <1>3 DEF RunInv, RunsOn, Blocking
<1>5. pc[j] \in {"user", "join.resumed"}
  BY <1>1, <1>2, <1>3, <1>4 DEF LabelInv, On, Off
<1>6. "TERMINATE" \notin request[j]
  BY <1>1 DEF BlockedInv, BlockedAt
<1>7. \A d \in Xstreams : ~ Hand(d, j)
  BY <1>1 DEF HandInv, HeldBy
<1>8. \A p \in Pools : j \notin pool[p]
  BY <1>1 DEF PoolInv, InPool
<1>9. j # c
  BY <1>5
<1> QED
  BY <1>1, <1>2, <1>3, <1>5, <1>4, <1>6, <1>7, <1>8, <1>9

(* Who joins whom.                                                         *)
LEMMA JoinTarget ==
  ASSUME ConstantsAssumption, IInv, NEW t \in Threads, pc[t] \in InJoin
  PROVE  arg[t] \in Threads /\ arg[t] # t /\ Joining(t)
<1>1. Joining(t)
  BY DEF IInv, JoinInv
<1> QED
  BY <1>1 DEF Joining, ConstantsAssumption

(* A ULT that its scheduler is about to cancel does not wait.              *)
LEMMA CancelTarget ==
  ASSUME ConstantsAssumption, Program, IInv, NEW e \in Xstreams, CancelStart(e), NEW u, u = arg[e]
  PROVE  /\ u \in Threads /\ HeldBy(e, u) /\ cur[e] = e /\ pc[e] \in {"run", "after"}
         /\ Cancelled(u) /\ state[u] = "READY" /\ pc[u] # "done"
         /\ "BLOCK" \notin request[u] /\ "TERMINATE" \notin request[u]
<1>1. /\ u \in Threads /\ HeldBy(e, u) /\ cur[e] = e /\ pc[e] \in {"run", "after"}
      /\ "CANCEL" \in request[u] /\ (pc[e] = "after" => "TERMINATE" \notin request[u])
  BY HandTarget DEF CancelStart, Handles, At, InHand
<1>2. Cancelled(u)
  BY <1>1 DEF IInv, EndInv
<1>3. u \notin Suspenders /\ \A j \in Joins : j[1] # u
  BY <1>2 DEF Cancelled, Program, WaitersStay
<1>4. pc[u] \in InJoin => <<u, arg[u]>> \in Joins
  BY <1>1 DEF IInv, JoinInv, Joining
<1>5. pc[u] \notin InJoin
  BY <1>3, <1>4
<1>6. state[u] # "BLOCKED"
  BY <1>1, <1>3, <1>5 DEF IInv, BlockedInv, BlockedAt, InJoin
<1> QED
  BY <1>1, <1>2, <1>6 DEF HeldBy, Canceling, InSetReady

(* Whoever makes ULT j ready executes, or holds the ULT that ends; j is in *)
(* no pool, and executes only as long as the waker waits for it.           *)
LEMMA WakerTarget ==
  ASSUME ConstantsAssumption, IInv, NEW c \in Contexts, pc[c] \in {"spin", "push"}, NEW j,
         j = Woken(c)
  PROVE  /\ j \in Threads /\ j # c /\ (\E y \in Xstreams : cur[y] = c)
         /\ c \in Xstreams => cur[c] = c /\ Hand(c, arg[c])
         /\ Ender(c) \in Threads /\ state[Ender(c)] # "TERMINATED"
         /\ \A p \in Pools : j \notin pool[p]
         /\ \A y \in Xstreams : cur[y] = j => pc[j] \in {"suspend", "join.suspend"}
              /\ pc[c] = "spin"
         /\ \A y \in Xstreams : Hand(y, j) => pc[c] = "spin" /\ state[j] = "BLOCKED"
<1>1. WokenBy(c) /\ j \in Threads
  BY DEF IInv, WakeInv, WokenBy
<1>2. \A p \in Pools : j \notin pool[p]
  BY <1>1 DEF IInv, PoolInv, InPool, WokenBy
<1>3. /\ \E y \in Xstreams : cur[y] = c
      /\ c \in Xstreams => cur[c] = c /\ Hand(c, arg[c])
      /\ Ender(c) \in Threads /\ state[Ender(c)] # "TERMINATED"
  <2>1. CASE c \in Threads
    <3> DEFINE y == p_last_xstream[c]
    <3>1. y \in Xstreams /\ cur[y] = c
      BY <2>1 DEF IInv, LabelInv, On, Off
    <3>2. state[c] # "TERMINATED"
      BY <2>1, <3>1 DEF IInv, RunInv, RunsOn, Blocking
    <3> QED
      BY <2>1, <3>1, <3>2 DEF Ender, ConstantsAssumption
  <2>2. CASE c \in Xstreams
    <3>1. cur[c] = c
      BY <2>2 DEF IInv, EsInv
    <3>2. arg[c] \in Threads /\ Hand(c, arg[c]) /\ HeldBy(c, arg[c])
      BY <2>2, <3>1, HandTarget DEF InSetReady
    <3> QED
      BY <2>2, <3>1, <3>2 DEF Ender, HeldBy
  <2> QED
    BY <2>1, <2>2 DEF Contexts
<1>4. j # c
  BY <1>1 DEF WokenBy, Off
<1>5. ASSUME NEW y \in Xstreams, cur[y] = j
      PROVE  pc[j] \in {"suspend", "join.suspend"} /\ pc[c] = "spin"
  <2>1. pc[c] = "spin" /\ state[j] = "BLOCKED"
    BY <1>1, <1>5 DEF WokenBy
  <2>2. RunsOn(y, j)
    BY <1>1, <1>5 DEF IInv, RunInv
  <2> QED
    BY <1>1, <1>3, <2>1, <2>2 DEF WokenBy, RunsOn, Blocking
<1>6. \A y \in Xstreams : Hand(y, j) => pc[c] = "spin" /\ state[j] = "BLOCKED"
  BY <1>1 DEF WokenBy
<1> QED
  BY <1>1, <1>2, <1>3, <1>4, <1>5, <1>6

(* Nobody is made ready by two at the same time.                           *)
LEMMA OneWaker ==
  ASSUME ConstantsAssumption, IInv, NEW c \in Contexts, NEW d \in Contexts,
         pc[c] \in {"spin", "push"}, pc[d] \in {"spin", "push"}, Woken(c) = Woken(d)
  PROVE  c = d
<1>1. WokenBy(c) /\ WokenBy(d)
  BY DEF IInv, WakeInv
<1>2. CASE Resumer(c) /\ Resumer(d)
  BY <1>1, <1>2 DEF WokenBy, Resumer, Woken, ConstantsAssumption
<1>3. CASE ~ Resumer(c) /\ ~ Resumer(d)
  <2>1. Ender(c) = Ender(d)
    BY <1>1, <1>3 DEF WokenBy
  <2>2. \A y \in Xstreams : Hand(y, Ender(c)) => /\ \A x \in Xstreams : cur[x] # Ender(c)
                                                 /\ \A x \in Xstreams : Hand(x, Ender(c)) => x = y
    BY WakerTarget DEF IInv, HandInv, HeldBy
  <2>3. c \in Threads \/ Hand(c, Ender(c))
    BY WakerTarget DEF Ender, Contexts
  <2>4. d \in Threads \/ Hand(d, Ender(d))
    BY WakerTarget DEF Ender, Contexts
  <2>5. (c \in Threads => c \notin Xstreams) /\ (d \in Threads => d \notin Xstreams)
    BY DEF ConstantsAssumption
  <2>6. (\E y \in Xstreams : cur[y] = c) /\ (\E y \in Xstreams : cur[y] = d)
    BY WakerTarget
  <2>7. (c \in Threads => Ender(c) = c) /\ (d \in Threads => Ender(d) = d)
    BY <2>5 DEF Ender
  <2> QED
    BY <2>1, <2>2, <2>3, <2>4, <2>5, <2>6, <2>7 DEF Contexts
<1> QED
  BY <1>1, <1>2, <1>3 DEF WokenBy

(* A waker and the ULT it makes ready are not the ULT of another step.     *)
LEMMA WakerApart ==
  ASSUME ConstantsAssumption, IInv, NEW c \in Contexts, pc[c] \in {"spin", "push"},
         NEW e \in Xstreams, NEW t \in Threads, cur[e] = t,
         pc[t] \notin {"spin", "push", "suspend", "join.suspend"}
  PROVE  Woken(c) # t /\ c # t /\ c # e
<1>1. Woken(c) # t
  BY WakerTarget
<1>2. c = e => cur[e] = e
  BY WakerTarget
<1> QED
  BY <1>1, <1>2 DEF ConstantsAssumption
-----------------------------------------------------------------------------
(* The end of a ULT.                                                       *)

(* A ULT that has ended stays so.                                          *)
LEMMA EndStays ==
  ASSUME ConstantsAssumption, Program, IInv, [Next]_vars, NEW v \in Threads,
         state[v] = "TERMINATED"
  PROVE  state'[v] = "TERMINATED"
<1> USE ConstantsAssumption DEF ConstantsAssumption, StackOK, PcOK, ThreadOK, StateOK,
  CountOK, RetOK, InHand, InSetReady, Goto, At, ToSched, AddRequest, SetBlocked, Pooled,
  Contexts, Handles, Suspended, Migratable, stackVars, threadVars, poolVars, stopVars
<1>0. StackOK /\ PcOK /\ ThreadOK /\ StateOK /\ CountOK /\ RetOK
  BY DEF IInv
<1> USE <1>0
<1>a. /\ \A y \in Xstreams : cur[y] # v /\ ~ Hand(y, v)
      /\ \A p \in Pools : v \notin pool[p]
  <2>1. \A y \in Xstreams : cur[y] # v
    <3>1. \A y \in Xstreams : cur[y] = v => RunsOn(y, v)
      BY DEF IInv, RunInv
    <3> QED
      BY <3>1 DEF RunsOn, Blocking
  <2>2. \A y \in Xstreams : ~ Hand(y, v)
    BY DEF IInv, HandInv, HeldBy
  <2>3. \A p \in Pools : v \notin pool[p]
    BY DEF IInv, PoolInv, InPool
  <2> QED
    BY <2>1, <2>2, <2>3
<1>1. ASSUME NEW e \in Xstreams, NEW t \in Threads,
             Yield(e, t) \/ Preempt(e, t) \/ SuspendBlock(e, t) \/ ExitJump(e, t)
               \/ ExitWake(e, t) \/ ExitAlone(e, t) \/ SuspendSwitch(e, t)
               \/ JoinRequest(e, t) \/ JoinBlock(e, t) \/ JoinLink(e, t)
      PROVE  state'[v] = "TERMINATED"
  BY <1>a, <1>1 DEF Yield, Preempt, SuspendBlock, ExitJump, ExitWake, ExitAlone, SuspendSwitch,
       JoinRequest, JoinBlock, JoinLink, Hand
<1>2. ASSUME NEW e \in Xstreams, NEW t \in Threads, JoinPool(e, t)
      PROVE  state'[v] = "TERMINATED"
  <2>1. cur[e] = t /\ pc[t] = "join.pool" /\ arg[t] \in pool[p_pool[arg[t]]]
    BY <1>2 DEF JoinPool
  <2>2. arg[t] \in Threads /\ arg[t] \in pool[SchedPool[e]]
    BY <2>1, JoinPoolTarget
  <2> QED
    BY <1>a, <1>2, <2>1, <2>2 DEF JoinPool
<1>3. ASSUME NEW e \in Xstreams, NEW t \in Threads,
             JoinSuspend(e, t) \/ JoinResumed(e, t) \/ ExitStore(e, t)
               \/ ExitRequest(e, t) \/ ExitLink(e, t) \/ ExitLeave(e, t)
               \/ MigrateCount(e, t) \/ Pop(e, t)
      PROVE  state'[v] = "TERMINATED"
  BY <1>a, <1>3 DEF JoinSuspend, JoinResumed, ExitStore, ExitRequest, ExitLink, ExitLeave,
       MigrateCount, Pop, Hand
<1>4. ASSUME NEW e \in Xstreams, NEW t \in Threads, JoinYield(e, t)
      PROVE  state'[v] = "TERMINATED"
  <2>1. v # t
    BY <1>a, <1>4 DEF JoinYield
  <2>2. CASE state[arg[t]] = "TERMINATED"
    BY <1>4, <2>2 DEF JoinYield
  <2>3. CASE state[arg[t]] # "TERMINATED"
    BY <1>4, <2>1, <2>3 DEF JoinYield
  <2> QED
    BY <2>2, <2>3
<1>5. ASSUME NEW e \in Xstreams, NEW t \in Threads, YieldToSwitch(e, t)
      PROVE  state'[v] = "TERMINATED"
  <2>1. arg[t] \in Threads /\ arg[t] \in pool[SchedPool[e]]
    BY <1>5, YieldToTarget DEF YieldToSwitch
  <2> QED
    BY <1>a, <1>5, <2>1 DEF YieldToSwitch
<1>6. ASSUME NEW e \in Xstreams, NEW t \in Threads, MigrateRequest(e, t)
      PROVE  state'[v] = "TERMINATED"
  <2>1. v # t
    BY <1>a, <1>6 DEF MigrateRequest
  <2>2. CASE t = arg[t]
    BY <1>6, <2>1, <2>2 DEF MigrateRequest
  <2>3. CASE t # arg[t]
    BY <1>6, <2>1, <2>3 DEF MigrateRequest
  <2> QED
    BY <2>2, <2>3
<1>7. ASSUME NEW e \in Xstreams, NEW t \in Threads, NEW u \in Threads,
             Resume(e, t, u) \/ JoinStart(e, t, u) \/ Cancel(e, t, u)
               \/ YieldToPush(e, t, u)
      PROVE  state'[v] = "TERMINATED"
  BY <1>a, <1>7 DEF Resume, JoinStart, Cancel, YieldToPush, Hand
<1>8. ASSUME NEW e \in Xstreams, NEW t \in Threads, NEW u \in Threads, NEW d \in Xstreams,
             MigrateToXstream(e, t, u, d)
      PROVE  state'[v] = "TERMINATED"
  BY <1>a, <1>8 DEF MigrateToXstream, Hand
<1>9. ASSUME NEW e \in Xstreams, NEW t \in Threads, NEW u \in Threads, NEW p \in Pools,
             MigrateToPool(e, t, u, p)
      PROVE  state'[v] = "TERMINATED"
  BY <1>a, <1>9 DEF MigrateToPool, Hand
<1>10. ASSUME NEW e \in Xstreams, NEW c \in Contexts, SetReadySpin(e, c)
       PROVE  state'[v] = "TERMINATED"
  <2>1. state[Woken(c)] = "BLOCKED"
    BY <1>10, SpinTarget DEF SetReadySpin
  <2> QED
    BY <1>10, <2>1 DEF SetReadySpin
<1>11. ASSUME NEW e \in Xstreams, NEW c \in Contexts,
              SetReadyPush(e, c) \/ SetReadyDec(e, c)
       PROVE  state'[v] = "TERMINATED"
  BY <1>a, <1>11 DEF SetReadyPush, SetReadyDec, Hand
<1>12. ASSUME NEW e \in Xstreams,
              Run(e) \/ AfterYield(e) \/ AfterBlock(e) \/ AfterTerminate(e)
                \/ End(e) \/ MigrateThread(e) \/ MigrateDec(e) \/ CancelStart(e)
                \/ CancelRequest(e) \/ CancelLink(e)
       PROVE  state'[v] = "TERMINATED"
  BY <1>a, <1>12 DEF Run, AfterYield, AfterBlock, AfterTerminate, End, MigrateThread, MigrateDec,
       CancelStart, CancelRequest, CancelLink, Hand
<1>13. ASSUME NEW e \in Xstreams,
              HasToStop(e) \/ ReadSize(e) \/ ReadMigrations(e) \/ ReadBlocked(e)
                \/ XstreamJoin(e)
       PROVE  state'[v] = "TERMINATED"
  BY <1>a, <1>13 DEF HasToStop, ReadSize, ReadMigrations, ReadBlocked, XstreamJoin, Hand
<1>14. CASE UNCHANGED vars
  BY <1>a, <1>14 DEF vars
<1> QED
  BY <1>1, <1>2, <1>3, <1>4, <1>5, <1>6, <1>7, <1>8, <1>9, <1>10, <1>11, <1>12, <1>13, <1>14
    DEF Next, EsStep, SchedStep, UserStep, RuntimeStep, JoinStep, ExitStep, ExitStart

(* A ULT meets its joiner at the end: it finds the link or is the first to *)
(* set JOIN.                                                               *)
LEMMA WokeStarts ==
  ASSUME ConstantsAssumption, Program, IInv, [Next]_vars, NEW v \in Threads,
         ~ Woke(v), p_link[v] = None, "JOIN" \in request[v]
  PROVE  ~ Woke(v)'
<1> USE ConstantsAssumption DEF ConstantsAssumption, StackOK, PcOK, ThreadOK, StateOK,
  CountOK, RetOK, Woke, Hand, InHand, InSetReady, Goto, At, ToSched, AddRequest, SetBlocked,
  Pooled, Contexts, Handles, Suspended, Migratable, stackVars, threadVars, poolVars,
  stopVars
<1>0. StackOK /\ PcOK /\ ThreadOK /\ StateOK /\ CountOK /\ RetOK
  BY DEF IInv
<1> USE <1>0
<1>a. /\ state[v] # "TERMINATED" /\ pc[v] \notin {"exit.store", "exit.leave", "done"}
      /\ ~ (pc[v] \in {"push", "dec"} /\ ret[v] # "user")
      /\ \A y \in Xstreams : Hand(y, v) => pc[y] \notin {"push", "dec", "end"}
  OBVIOUS
<1>b. pc[v] = "spin" => ret[v] = "user"
  BY DEF IInv, EndInv
<1>1. ASSUME NEW e \in Xstreams, NEW t \in Threads, Yield(e, t) PROVE ~ Woke(v)'
  <2>3. /\ cur' = [cur EXCEPT ![e] = e] /\ arg' = [arg EXCEPT ![e] = t] /\ ret' = ret /\ cur[e] = t
        /\ pc' = [pc EXCEPT ![t] = "user", ![e] = "after"]
    BY <1>1 DEF Yield
  <2>4. \A y \in Xstreams : Hand(y, v)' => pc'[y] = "after" \/ (Hand(y, v) /\ pc'[y] = pc[y])
    BY <2>3
  <2>5. pc'[v] # pc[v] => pc'[v] \in {"user", "join.resumed", "join.yield", "mig.count"}
    BY <2>3
  <2>6. state'[v] # "TERMINATED"
    BY <1>a, <1>1 DEF Yield
  <2> QED
    BY <1>a, <2>3, <2>4, <2>5, <2>6
<1>2. ASSUME NEW e \in Xstreams, NEW t \in Threads, Preempt(e, t) PROVE ~ Woke(v)'
  <2>1. cur[e] = t => RunsOn(e, t)
    BY DEF IInv, RunInv
  <2>2. \A y \in Xstreams : ~ Hand(y, t)
    BY <1>2 DEF Preempt, IInv, HandInv, HeldBy
  <2> QED
    BY <1>a, <1>b, <1>2, <2>1, <2>2 DEF Preempt, RunsOn, Blocking
<1>3. ASSUME NEW e \in Xstreams, NEW t \in Threads, SuspendBlock(e, t) PROVE ~ Woke(v)'
  <2>1. cur[e] = t => RunsOn(e, t)
    BY DEF IInv, RunInv
  <2>2. \A y \in Xstreams : ~ Hand(y, t)
    BY <1>3 DEF SuspendBlock, IInv, HandInv, HeldBy
  <2> QED
    BY <1>a, <1>b, <1>3, <2>1, <2>2 DEF SuspendBlock, RunsOn, Blocking
<1>4. ASSUME NEW e \in Xstreams, NEW t \in Threads, ExitJump(e, t) PROVE ~ Woke(v)'
  <2>1. cur[e] = t => RunsOn(e, t)
    BY DEF IInv, RunInv
  <2>2. \A y \in Xstreams : ~ Hand(y, t)
    BY <1>4 DEF ExitJump, IInv, HandInv, HeldBy
  <2> QED
    BY <1>a, <1>b, <1>4, <2>1, <2>2 DEF ExitJump, RunsOn, Blocking
<1>5. ASSUME NEW e \in Xstreams, NEW t \in Threads, ExitWake(e, t) PROVE ~ Woke(v)'
  <2>1. cur[e] = t => RunsOn(e, t)
    BY DEF IInv, RunInv
  <2>2. \A y \in Xstreams : ~ Hand(y, t)
    BY <1>5 DEF ExitWake, IInv, HandInv, HeldBy
  <2> QED
    BY <1>a, <1>b, <1>5, <2>1, <2>2 DEF ExitWake, RunsOn, Blocking
<1>6. ASSUME NEW e \in Xstreams, NEW t \in Threads, ExitAlone(e, t) PROVE ~ Woke(v)'
  <2>1. cur[e] = t => RunsOn(e, t)
    BY DEF IInv, RunInv
  <2>2. \A y \in Xstreams : ~ Hand(y, t)
    BY <1>6 DEF ExitAlone, IInv, HandInv, HeldBy
  <2> QED
    BY <1>a, <1>b, <1>6, <2>1, <2>2 DEF ExitAlone, RunsOn, Blocking
<1>7. ASSUME NEW e \in Xstreams, NEW t \in Threads,
             SuspendSwitch(e, t) \/ JoinPool(e, t) \/ JoinRequest(e, t)
               \/ JoinBlock(e, t) \/ JoinLink(e, t)
      PROVE  ~ Woke(v)'
  <2>1. cur[e] = t => RunsOn(e, t)
    BY DEF IInv, RunInv
  <2>2. \A y \in Xstreams : ~ Hand(y, t)
    BY <1>7 DEF SuspendSwitch, JoinPool, JoinRequest, JoinBlock, JoinLink, IInv, HandInv, HeldBy
  <2> QED
    BY <1>a, <1>b, <1>7, <2>1, <2>2 DEF SuspendSwitch, JoinPool, JoinRequest, JoinBlock, JoinLink,
         RunsOn, Blocking
<1>8. ASSUME NEW e \in Xstreams, NEW t \in Threads, JoinSuspend(e, t) PROVE ~ Woke(v)'
  <2>3. /\ cur' = [cur EXCEPT ![e] = e] /\ arg' = [arg EXCEPT ![e] = t] /\ ret' = ret /\ cur[e] = t
        /\ pc' = [pc EXCEPT ![t] = "join.resumed", ![e] = "after"]
    BY <1>8 DEF JoinSuspend
  <2>4. \A y \in Xstreams : Hand(y, v)' => pc'[y] = "after" \/ (Hand(y, v) /\ pc'[y] = pc[y])
    BY <2>3
  <2>5. pc'[v] # pc[v] => pc'[v] \in {"user", "join.resumed", "join.yield", "mig.count"}
    BY <2>3
  <2>6. state'[v] # "TERMINATED"
    BY <1>a, <1>8 DEF JoinSuspend
  <2> QED
    BY <1>a, <2>3, <2>4, <2>5, <2>6
<1>9. ASSUME NEW e \in Xstreams, NEW t \in Threads, JoinResumed(e, t) PROVE ~ Woke(v)'
  <2>1. cur[e] = t => RunsOn(e, t)
    BY DEF IInv, RunInv
  <2>2. \A y \in Xstreams : ~ Hand(y, t)
    BY <1>9 DEF JoinResumed, IInv, HandInv, HeldBy
  <2>3. CASE state[t] # "BLOCKED"
    <3>1. /\ UNCHANGED <<cur, arg, ret>> /\ cur[e] = t
          /\ pc' = [pc EXCEPT ![t] = "join.yield"]
      BY <1>9, <2>3 DEF JoinResumed
    <3>2. \A y \in Xstreams : Hand(y, v)' => Hand(y, v) /\ pc'[y] = pc[y]
      BY <3>1
    <3>3. state'[v] # "TERMINATED"
      BY <1>a, <1>9, <2>3 DEF JoinResumed
    <3> QED
      BY <1>a, <3>1, <3>2, <3>3
  <2>4. CASE state[t] = "BLOCKED"
    <3>1. /\ UNCHANGED <<cur, arg, ret>> /\ cur[e] = t
          /\ pc' = [pc EXCEPT ![t] = "user"]
      BY <1>9, <2>4 DEF JoinResumed
    <3>2. \A y \in Xstreams : Hand(y, v)' => Hand(y, v) /\ pc'[y] = pc[y]
      BY <3>1
    <3>3. state'[v] # "TERMINATED"
      BY <1>a, <1>9, <2>4 DEF JoinResumed
    <3> QED
      BY <1>a, <3>1, <3>2, <3>3
  <2> QED
    BY <2>3, <2>4
<1>10. ASSUME NEW e \in Xstreams, NEW t \in Threads, JoinYield(e, t) PROVE ~ Woke(v)'
  <2>1. cur[e] = t => RunsOn(e, t)
    BY DEF IInv, RunInv
  <2>2. \A y \in Xstreams : ~ Hand(y, t)
    BY <1>10 DEF JoinYield, IInv, HandInv, HeldBy
  <2>3. CASE state[arg[t]] = "TERMINATED"
    <3>1. /\ UNCHANGED <<cur, arg, ret>> /\ cur[e] = t
          /\ pc' = [pc EXCEPT ![t] = "user"]
      BY <1>10, <2>3 DEF JoinYield
    <3>2. \A y \in Xstreams : Hand(y, v)' => Hand(y, v) /\ pc'[y] = pc[y]
      BY <3>1
    <3>3. state'[v] # "TERMINATED"
      BY <1>a, <1>10, <2>3 DEF JoinYield
    <3> QED
      BY <1>a, <3>1, <3>2, <3>3
  <2>4. CASE state[arg[t]] # "TERMINATED"
    <3>3. /\ cur' = [cur EXCEPT ![e] = e] /\ arg' = [arg EXCEPT ![e] = t] /\ ret' = ret
               /\ cur[e] = t
          /\ pc' = [pc EXCEPT ![t] = "join.yield", ![e] = "after"]
      BY <1>10, <2>4 DEF JoinYield
    <3>4. \A y \in Xstreams : Hand(y, v)' => pc'[y] = "after" \/ (Hand(y, v) /\ pc'[y] = pc[y])
      BY <3>3
    <3>5. pc'[v] # pc[v] => pc'[v] \in {"user", "join.resumed", "join.yield", "mig.count"}
      BY <3>3
    <3>6. state'[v] # "TERMINATED"
      BY <1>a, <1>10, <2>4 DEF JoinYield
    <3> QED
      BY <1>a, <3>3, <3>4, <3>5, <3>6
  <2> QED
    BY <2>3, <2>4
<1>11. ASSUME NEW e \in Xstreams, NEW t \in Threads,
              ExitStore(e, t) \/ ExitRequest(e, t)
       PROVE  ~ Woke(v)'
  <2>1. cur[e] = t => RunsOn(e, t)
    BY DEF IInv, RunInv
  <2>2. \A y \in Xstreams : ~ Hand(y, t)
    BY <1>11 DEF ExitStore, ExitRequest, IInv, HandInv, HeldBy
  <2> QED
    BY <1>a, <1>b, <1>11, <2>1, <2>2 DEF ExitStore, ExitRequest, RunsOn, Blocking
<1>12. ASSUME NEW e \in Xstreams, NEW t \in Threads, ExitLink(e, t) PROVE ~ Woke(v)'
  <2>1. cur[e] = t => RunsOn(e, t)
    BY DEF IInv, RunInv
  <2>2. \A y \in Xstreams : ~ Hand(y, t)
    BY <1>12 DEF ExitLink, IInv, HandInv, HeldBy
  <2> QED
    BY <1>a, <1>b, <1>12, <2>1, <2>2 DEF ExitLink, RunsOn, Blocking
<1>13. ASSUME NEW e \in Xstreams, NEW t \in Threads, ExitLeave(e, t) PROVE ~ Woke(v)'
  <2>1. cur[e] = t => RunsOn(e, t)
    BY DEF IInv, RunInv
  <2>2. \A y \in Xstreams : ~ Hand(y, t)
    BY <1>13 DEF ExitLeave, IInv, HandInv, HeldBy
  <2> QED
    BY <1>a, <1>b, <1>13, <2>1, <2>2 DEF ExitLeave, RunsOn, Blocking
<1>14. ASSUME NEW e \in Xstreams, NEW t \in Threads, YieldToSwitch(e, t) PROVE ~ Woke(v)'
  <2>1. cur[e] = t => RunsOn(e, t)
    BY DEF IInv, RunInv
  <2>2. \A y \in Xstreams : ~ Hand(y, t)
    BY <1>14 DEF YieldToSwitch, IInv, HandInv, HeldBy
  <2> QED
    BY <1>a, <1>b, <1>14, <2>1, <2>2 DEF YieldToSwitch, RunsOn, Blocking
<1>15. ASSUME NEW e \in Xstreams, NEW t \in Threads, MigrateCount(e, t) PROVE ~ Woke(v)'
  <2>1. cur[e] = t => RunsOn(e, t)
    BY DEF IInv, RunInv
  <2>2. \A y \in Xstreams : ~ Hand(y, t)
    BY <1>15 DEF MigrateCount, IInv, HandInv, HeldBy
  <2> QED
    BY <1>a, <1>b, <1>15, <2>1, <2>2 DEF MigrateCount, RunsOn, Blocking
<1>16. ASSUME NEW e \in Xstreams, NEW t \in Threads, MigrateRequest(e, t) PROVE ~ Woke(v)'
  <2>1. cur[e] = t => RunsOn(e, t)
    BY DEF IInv, RunInv
  <2>2. \A y \in Xstreams : ~ Hand(y, t)
    BY <1>16 DEF MigrateRequest, IInv, HandInv, HeldBy
  <2>3. CASE t # arg[t]
    <3>1. /\ UNCHANGED <<cur, arg, ret>> /\ cur[e] = t
          /\ \E l \in {"user", "mig.count"} : pc' = [pc EXCEPT ![t] = l]
      BY <1>16, <2>3 DEF MigrateRequest
    <3>2. \A y \in Xstreams : Hand(y, v)' => Hand(y, v) /\ pc'[y] = pc[y]
      BY <3>1
    <3>3. state'[v] # "TERMINATED"
      BY <1>a, <1>16, <2>3 DEF MigrateRequest
    <3> QED
      BY <1>a, <3>1, <3>2, <3>3
  <2>4. CASE t = arg[t]
    <3>3. /\ cur' = [cur EXCEPT ![e] = e] /\ arg' = [arg EXCEPT ![e] = t] /\ ret' = ret
               /\ cur[e] = t
          /\ \E l \in {"user", "mig.count"} : pc' = [pc EXCEPT ![t] = l, ![e] = "after"]
      BY <1>16, <2>4 DEF MigrateRequest
    <3>4. \A y \in Xstreams : Hand(y, v)' => pc'[y] = "after" \/ (Hand(y, v) /\ pc'[y] = pc[y])
      BY <3>3
    <3>5. pc'[v] # pc[v] => pc'[v] \in {"user", "join.resumed", "join.yield", "mig.count"}
      BY <3>3
    <3>6. state'[v] # "TERMINATED"
      BY <1>a, <1>16, <2>4 DEF MigrateRequest
    <3> QED
      BY <1>a, <3>3, <3>4, <3>5, <3>6
  <2> QED
    BY <2>3, <2>4
<1>17. ASSUME NEW e \in Xstreams, NEW t \in Threads, Pop(e, t) PROVE ~ Woke(v)'
  <2> DEFINE u == arg[e]
  <2>1. cur[e] = e /\ pc[e] \in InHand \cup InSetReady => u \in Threads /\ HeldBy(e, u)
    BY HandTarget
  <2> QED
    BY <1>a, <1>b, <1>17, <2>1 DEF Pop, HeldBy, Canceling
<1>18. ASSUME NEW e \in Xstreams, NEW t \in Threads, NEW u \in Threads, Resume(e, t, u)
       PROVE  ~ Woke(v)'
  <2>1. cur[e] = t => RunsOn(e, t)
    BY DEF IInv, RunInv
  <2>2. \A y \in Xstreams : ~ Hand(y, t)
    BY <1>18 DEF Resume, IInv, HandInv, HeldBy
  <2> QED
    BY <1>a, <1>b, <1>18, <2>1, <2>2 DEF Resume, RunsOn, Blocking
<1>19. ASSUME NEW e \in Xstreams, NEW t \in Threads, NEW u \in Threads, JoinStart(e, t, u)
       PROVE  ~ Woke(v)'
  <2>1. cur[e] = t => RunsOn(e, t)
    BY DEF IInv, RunInv
  <2>2. \A y \in Xstreams : ~ Hand(y, t)
    BY <1>19 DEF JoinStart, IInv, HandInv, HeldBy
  <2> QED
    BY <1>a, <1>b, <1>19, <2>1, <2>2 DEF JoinStart, RunsOn, Blocking
<1>20. ASSUME NEW e \in Xstreams, NEW t \in Threads, NEW u \in Threads, Cancel(e, t, u)
       PROVE  ~ Woke(v)'
  <2>1. cur[e] = t => RunsOn(e, t)
    BY DEF IInv, RunInv
  <2>2. \A y \in Xstreams : ~ Hand(y, t)
    BY <1>20 DEF Cancel, IInv, HandInv, HeldBy
  <2> QED
    BY <1>a, <1>b, <1>20, <2>1, <2>2 DEF Cancel, RunsOn, Blocking
<1>21. ASSUME NEW e \in Xstreams, NEW t \in Threads, NEW u \in Threads, YieldToPush(e, t, u)
       PROVE  ~ Woke(v)'
  <2>1. cur[e] = t => RunsOn(e, t)
    BY DEF IInv, RunInv
  <2>2. \A y \in Xstreams : ~ Hand(y, t)
    BY <1>21 DEF YieldToPush, IInv, HandInv, HeldBy
  <2> QED
    BY <1>a, <1>b, <1>21, <2>1, <2>2 DEF YieldToPush, RunsOn, Blocking
<1>22. ASSUME NEW e \in Xstreams, NEW t \in Threads, NEW u \in Threads, NEW d \in Xstreams,
              MigrateToXstream(e, t, u, d)
       PROVE  ~ Woke(v)'
  <2>1. cur[e] = t => RunsOn(e, t)
    BY DEF IInv, RunInv
  <2>2. \A y \in Xstreams : ~ Hand(y, t)
    BY <1>22 DEF MigrateToXstream, IInv, HandInv, HeldBy
  <2> QED
    BY <1>a, <1>b, <1>22, <2>1, <2>2 DEF MigrateToXstream, RunsOn, Blocking
<1>23. ASSUME NEW e \in Xstreams, NEW t \in Threads, NEW u \in Threads, NEW p \in Pools,
              MigrateToPool(e, t, u, p)
       PROVE  ~ Woke(v)'
  <2>1. cur[e] = t => RunsOn(e, t)
    BY DEF IInv, RunInv
  <2>2. \A y \in Xstreams : ~ Hand(y, t)
    BY <1>23 DEF MigrateToPool, IInv, HandInv, HeldBy
  <2> QED
    BY <1>a, <1>b, <1>23, <2>1, <2>2 DEF MigrateToPool, RunsOn, Blocking
<1>24. ASSUME NEW e \in Xstreams, NEW c \in Contexts, SetReadySpin(e, c) PROVE ~ Woke(v)'
  <2>1. CASE c \in Xstreams
    <3>1. c = e /\ cur[e] = e /\ pc[e] = "spin"
      BY <1>24, <2>1 DEF SetReadySpin
    <3>2. arg[e] # v
      BY <3>1 DEF IInv, EsInv
    <3>3. state'[v] # "TERMINATED"
      BY <1>a, <1>24 DEF SetReadySpin
    <3> QED
      BY <1>a, <1>b, <1>24, <3>1, <3>2, <3>3 DEF SetReadySpin
  <2>2. CASE c \in Threads
    <3>1. cur[e] = c /\ pc' = [pc EXCEPT ![c] = "push"] /\ UNCHANGED <<cur, arg, ret>>
            /\ pc[c] = "spin"
      BY <1>24, <2>2 DEF SetReadySpin
    <3>2. state'[v] # "TERMINATED"
      BY <1>a, <1>24 DEF SetReadySpin
    <3>3. \A y \in Xstreams : Hand(y, v)' => Hand(y, v) /\ pc'[y] = pc[y]
      BY <3>1, <2>2
    <3> QED
      BY <1>a, <1>b, <2>2, <3>1, <3>2, <3>3
  <2> QED
    BY <2>1, <2>2
<1>25. ASSUME NEW e \in Xstreams, NEW c \in Contexts, SetReadyPush(e, c) PROVE ~ Woke(v)'
  <2> DEFINE u == arg[e]
  <2>1. cur[e] = e /\ pc[e] \in InHand \cup InSetReady => u \in Threads /\ HeldBy(e, u)
    BY HandTarget
  <2> QED
    BY <1>a, <1>b, <1>25, <2>1 DEF SetReadyPush, HeldBy, Canceling
<1>26. ASSUME NEW e \in Xstreams, NEW c \in Contexts, SetReadyDec(e, c) PROVE ~ Woke(v)'
  <2> DEFINE u == arg[e]
  <2>1. cur[e] = e /\ pc[e] \in InHand \cup InSetReady => u \in Threads /\ HeldBy(e, u)
    BY HandTarget
  <2> QED
    BY <1>a, <1>b, <1>26, <2>1 DEF SetReadyDec, HeldBy, Canceling
<1>27. ASSUME NEW e \in Xstreams,
              Run(e) \/ AfterYield(e) \/ AfterBlock(e)
       PROVE  ~ Woke(v)'
  <2> DEFINE u == arg[e]
  <2>1. cur[e] = e /\ pc[e] \in InHand \cup InSetReady => u \in Threads /\ HeldBy(e, u)
    BY HandTarget
  <2> QED
    BY <1>a, <1>b, <1>27, <2>1 DEF Run, AfterYield, AfterBlock, HeldBy, Canceling
<1>28. ASSUME NEW e \in Xstreams, End(e) PROVE ~ Woke(v)'
  <2> DEFINE u == arg[e]
  <2>1. cur[e] = e /\ pc[e] \in InHand \cup InSetReady => u \in Threads /\ HeldBy(e, u)
    BY HandTarget
  <2> QED
    BY <1>a, <1>b, <1>28, <2>1 DEF End, HeldBy, Canceling
<1>29. ASSUME NEW e \in Xstreams, MigrateThread(e) PROVE ~ Woke(v)'
  <2> DEFINE u == arg[e]
  <2>1. cur[e] = e /\ pc[e] \in InHand \cup InSetReady => u \in Threads /\ HeldBy(e, u)
    BY HandTarget
  <2> QED
    BY <1>a, <1>b, <1>29, <2>1 DEF MigrateThread, HeldBy, Canceling
<1>30. ASSUME NEW e \in Xstreams,
              MigrateDec(e) \/ CancelStart(e)
       PROVE  ~ Woke(v)'
  <2> DEFINE u == arg[e]
  <2>1. cur[e] = e /\ pc[e] \in InHand \cup InSetReady => u \in Threads /\ HeldBy(e, u)
    BY HandTarget
  <2> QED
    BY <1>a, <1>b, <1>30, <2>1 DEF MigrateDec, CancelStart, HeldBy, Canceling
<1>31. ASSUME NEW e \in Xstreams, CancelRequest(e) PROVE ~ Woke(v)'
  <2> DEFINE u == arg[e]
  <2>1. cur[e] = e /\ pc[e] \in InHand \cup InSetReady => u \in Threads /\ HeldBy(e, u)
    BY HandTarget
  <2> QED
    BY <1>a, <1>b, <1>31, <2>1 DEF CancelRequest, HeldBy, Canceling
<1>32. ASSUME NEW e \in Xstreams, CancelLink(e) PROVE ~ Woke(v)'
  <2> DEFINE u == arg[e]
  <2>1. cur[e] = e /\ pc[e] \in InHand \cup InSetReady => u \in Threads /\ HeldBy(e, u)
    BY HandTarget
  <2> QED
    BY <1>a, <1>b, <1>32, <2>1 DEF CancelLink, HeldBy, Canceling
<1>33. ASSUME NEW e \in Xstreams, HasToStop(e) PROVE ~ Woke(v)'
  <2> DEFINE u == arg[e]
  <2>1. cur[e] = e /\ pc[e] \in InHand \cup InSetReady => u \in Threads /\ HeldBy(e, u)
    BY HandTarget
  <2> QED
    BY <1>a, <1>b, <1>33, <2>1 DEF HasToStop, HeldBy, Canceling
<1>34. ASSUME NEW e \in Xstreams, AfterTerminate(e) PROVE ~ Woke(v)'
  <2> DEFINE u == arg[e]
  <2>1. u \in Threads /\ HeldBy(e, u) /\ cur[e] = e /\ pc[e] = "after" /\ "TERMINATE" \in request[u]
    BY <1>34, HandTarget DEF AfterTerminate
  <2>2. pc[u] = "done"
    BY <2>1 DEF HeldBy, Canceling, IInv, BlockedInv, BlockedAt
  <2>3. v # u
    BY <1>a, <2>2
  <2> QED
    BY <1>a, <1>34, <2>1, <2>3 DEF AfterTerminate
<1>35. ASSUME NEW e \in Xstreams, ReadSize(e) PROVE ~ Woke(v)'
  <2> DEFINE u == arg[e]
  <2>1. cur[e] = e /\ pc[e] \in InHand \cup InSetReady => u \in Threads /\ HeldBy(e, u)
    BY HandTarget
  <2> QED
    BY <1>a, <1>b, <1>35, <2>1 DEF ReadSize, HeldBy, Canceling
<1>36. ASSUME NEW e \in Xstreams, ReadMigrations(e) PROVE ~ Woke(v)'
  <2> DEFINE u == arg[e]
  <2>1. cur[e] = e /\ pc[e] \in InHand \cup InSetReady => u \in Threads /\ HeldBy(e, u)
    BY HandTarget
  <2> QED
    BY <1>a, <1>b, <1>36, <2>1 DEF ReadMigrations, HeldBy, Canceling
<1>37. ASSUME NEW e \in Xstreams,
              ReadBlocked(e) \/ XstreamJoin(e)
       PROVE  ~ Woke(v)'
  <2> DEFINE u == arg[e]
  <2>1. cur[e] = e /\ pc[e] \in InHand \cup InSetReady => u \in Threads /\ HeldBy(e, u)
    BY HandTarget
  <2> QED
    BY <1>a, <1>b, <1>37, <2>1 DEF ReadBlocked, XstreamJoin, HeldBy, Canceling
<1>38. CASE UNCHANGED vars
  BY <1>a, <1>b, <1>38 DEF vars
<1> HIDE DEF Woke
<1> QED
  BY <1>1, <1>2, <1>3, <1>4, <1>5, <1>6, <1>7, <1>8, <1>9, <1>10, <1>11, <1>12, <1>13,
    <1>14, <1>15, <1>16, <1>17, <1>18, <1>19, <1>20, <1>21, <1>22, <1>23, <1>24, <1>25,
    <1>26, <1>27, <1>28, <1>29, <1>30, <1>31, <1>32, <1>33, <1>34, <1>35, <1>36, <1>37,
    <1>38 DEF Next, EsStep, SchedStep, UserStep, RuntimeStep, JoinStep, ExitStep, ExitStart

(* Once a ULT has met its joiner it only ends.                             *)
LEMMA WokeStays ==
  ASSUME ConstantsAssumption, Program, IInv, [Next]_vars, NEW v \in Threads, Woke(v)
  PROVE  Woke(v)'
<1> USE ConstantsAssumption DEF ConstantsAssumption, StackOK, PcOK, ThreadOK, StateOK,
  CountOK, RetOK, Woke, Hand, InHand, InSetReady, Goto, At, ToSched, AddRequest, SetBlocked,
  Pooled, Contexts, Handles, Suspended, Migratable, stackVars, threadVars, poolVars,
  stopVars
<1>0. StackOK /\ PcOK /\ ThreadOK /\ StateOK /\ CountOK /\ RetOK
  BY DEF IInv
<1> USE <1>0
<1>a. \/ state[v] = "TERMINATED" \/ pc[v] \in {"exit.store", "exit.leave", "done"}
      \/ pc[v] \in {"push", "dec"} /\ ret[v] # "user"
      \/ \E y \in Xstreams : Hand(y, v) /\ pc[y] \in {"push", "dec", "end"}
  OBVIOUS
<1>b. state[v] = "TERMINATED" =>
        /\ \A y \in Xstreams : cur[y] # v /\ ~ Hand(y, v)
        /\ \A p \in Pools : v \notin pool[p]
  <2> SUFFICES ASSUME state[v] = "TERMINATED"
               PROVE  (\A y \in Xstreams : cur[y] # v /\ ~ Hand(y, v))
                        /\ \A p \in Pools : v \notin pool[p]
    OBVIOUS
  <2>1. \A y \in Xstreams : cur[y] # v
    <3>1. \A y \in Xstreams : cur[y] = v => RunsOn(y, v)
      BY DEF IInv, RunInv
    <3> QED
      BY <3>1 DEF RunsOn, Blocking
  <2>2. \A y \in Xstreams : ~ Hand(y, v)
    <3> HIDE DEF Hand
    <3> QED
      BY DEF IInv, HandInv, HeldBy
  <2>3. \A p \in Pools : v \notin pool[p]
    BY DEF IInv, PoolInv, InPool
  <2> QED
    BY <2>1, <2>2, <2>3
<1>1. ASSUME NEW e \in Xstreams, NEW t \in Threads, Yield(e, t) PROVE Woke(v)'
  <2>1. cur[e] = t => RunsOn(e, t)
    BY DEF IInv, RunInv
  <2>2. \A y \in Xstreams : ~ Hand(y, t)
    BY <1>1 DEF Yield, IInv, HandInv, HeldBy
  <2>3. v # t /\ cur[e] = t
    BY <1>a, <1>1, <2>1, <2>2 DEF Yield, RunsOn, Blocking
  <2>4. pc'[v] = pc[v] /\ ret'[v] = ret[v]
    BY <1>1, <2>3 DEF Yield
  <2>5. \A y \in Xstreams : Hand(y, v) => Hand(y, v)' /\ pc'[y] = pc[y]
    BY <1>1, <2>3 DEF Yield
  <2>6. state[v] = "TERMINATED" => state'[v] = "TERMINATED"
    BY <1>1, <2>3 DEF Yield
  <2> QED
    BY <1>a, <2>4, <2>5, <2>6
<1>2. ASSUME NEW e \in Xstreams, NEW t \in Threads, Preempt(e, t) PROVE Woke(v)'
  <2>1. cur[e] = t => RunsOn(e, t)
    BY DEF IInv, RunInv
  <2>2. \A y \in Xstreams : ~ Hand(y, t)
    BY <1>2 DEF Preempt, IInv, HandInv, HeldBy
  <2>3. v # t /\ cur[e] = t
    BY <1>a, <1>2, <2>1, <2>2 DEF Preempt, RunsOn, Blocking
  <2>4. pc'[v] = pc[v] /\ ret'[v] = ret[v]
    BY <1>2, <2>3 DEF Preempt
  <2>5. \A y \in Xstreams : Hand(y, v) => Hand(y, v)' /\ pc'[y] = pc[y]
    BY <1>2, <2>3 DEF Preempt
  <2>6. state[v] = "TERMINATED" => state'[v] = "TERMINATED"
    BY <1>2, <2>3 DEF Preempt
  <2> QED
    BY <1>a, <2>4, <2>5, <2>6
<1>3. ASSUME NEW e \in Xstreams, NEW t \in Threads, SuspendBlock(e, t) PROVE Woke(v)'
  <2>1. cur[e] = t => RunsOn(e, t)
    BY DEF IInv, RunInv
  <2>2. \A y \in Xstreams : ~ Hand(y, t)
    BY <1>3 DEF SuspendBlock, IInv, HandInv, HeldBy
  <2> QED
    BY <1>a, <1>b, <1>3, <2>1, <2>2 DEF SuspendBlock, RunsOn, Blocking
<1>4. ASSUME NEW e \in Xstreams, NEW t \in Threads, ExitJump(e, t) PROVE Woke(v)'
  <2>1. cur[e] = t => RunsOn(e, t)
    BY DEF IInv, RunInv
  <2>2. \A y \in Xstreams : ~ Hand(y, t)
    BY <1>4 DEF ExitJump, IInv, HandInv, HeldBy
  <2> QED
    BY <1>a, <1>b, <1>4, <2>1, <2>2 DEF ExitJump, RunsOn, Blocking
<1>5. ASSUME NEW e \in Xstreams, NEW t \in Threads, ExitWake(e, t) PROVE Woke(v)'
  <2>1. cur[e] = t => RunsOn(e, t)
    BY DEF IInv, RunInv
  <2>2. \A y \in Xstreams : ~ Hand(y, t)
    BY <1>5 DEF ExitWake, IInv, HandInv, HeldBy
  <2> QED
    BY <1>a, <1>b, <1>5, <2>1, <2>2 DEF ExitWake, RunsOn, Blocking
<1>6. ASSUME NEW e \in Xstreams, NEW t \in Threads, ExitAlone(e, t) PROVE Woke(v)'
  <2>1. cur[e] = t => RunsOn(e, t)
    BY DEF IInv, RunInv
  <2>2. \A y \in Xstreams : ~ Hand(y, t)
    BY <1>6 DEF ExitAlone, IInv, HandInv, HeldBy
  <2> QED
    BY <1>a, <1>b, <1>6, <2>1, <2>2 DEF ExitAlone, RunsOn, Blocking
<1>7. ASSUME NEW e \in Xstreams, NEW t \in Threads, JoinRequest(e, t) PROVE Woke(v)'
  <2>1. cur[e] = t => RunsOn(e, t)
    BY DEF IInv, RunInv
  <2>2. \A y \in Xstreams : ~ Hand(y, t)
    BY <1>7 DEF JoinRequest, IInv, HandInv, HeldBy
  <2> QED
    BY <1>a, <1>b, <1>7, <2>1, <2>2 DEF JoinRequest, RunsOn, Blocking
<1>8. ASSUME NEW e \in Xstreams, NEW t \in Threads, JoinLink(e, t) PROVE Woke(v)'
  <2>1. cur[e] = t => RunsOn(e, t)
    BY DEF IInv, RunInv
  <2>2. \A y \in Xstreams : ~ Hand(y, t)
    BY <1>8 DEF JoinLink, IInv, HandInv, HeldBy
  <2> QED
    BY <1>a, <1>b, <1>8, <2>1, <2>2 DEF JoinLink, RunsOn, Blocking
<1>9. ASSUME NEW e \in Xstreams, NEW t \in Threads, ExitStore(e, t) PROVE Woke(v)'
  <2>1. cur[e] = t => RunsOn(e, t)
    BY DEF IInv, RunInv
  <2>2. \A y \in Xstreams : ~ Hand(y, t)
    BY <1>9 DEF ExitStore, IInv, HandInv, HeldBy
  <2> QED
    BY <1>a, <1>b, <1>9, <2>1, <2>2 DEF ExitStore, RunsOn, Blocking
<1>10. ASSUME NEW e \in Xstreams, NEW t \in Threads, ExitRequest(e, t) PROVE Woke(v)'
  <2>1. cur[e] = t => RunsOn(e, t)
    BY DEF IInv, RunInv
  <2>2. \A y \in Xstreams : ~ Hand(y, t)
    BY <1>10 DEF ExitRequest, IInv, HandInv, HeldBy
  <2> QED
    BY <1>a, <1>b, <1>10, <2>1, <2>2 DEF ExitRequest, RunsOn, Blocking
<1>11. ASSUME NEW e \in Xstreams, NEW t \in Threads, ExitLink(e, t) PROVE Woke(v)'
  <2>1. cur[e] = t => RunsOn(e, t)
    BY DEF IInv, RunInv
  <2>2. \A y \in Xstreams : ~ Hand(y, t)
    BY <1>11 DEF ExitLink, IInv, HandInv, HeldBy
  <2> QED
    BY <1>a, <1>b, <1>11, <2>1, <2>2 DEF ExitLink, RunsOn, Blocking
<1>12. ASSUME NEW e \in Xstreams, NEW t \in Threads, MigrateCount(e, t) PROVE Woke(v)'
  <2>1. cur[e] = t => RunsOn(e, t)
    BY DEF IInv, RunInv
  <2>2. \A y \in Xstreams : ~ Hand(y, t)
    BY <1>12 DEF MigrateCount, IInv, HandInv, HeldBy
  <2> QED
    BY <1>a, <1>b, <1>12, <2>1, <2>2 DEF MigrateCount, RunsOn, Blocking
<1>13. ASSUME NEW e \in Xstreams, NEW t \in Threads, SuspendSwitch(e, t) PROVE Woke(v)'
  <2>1. cur[e] = t => RunsOn(e, t)
    BY DEF IInv, RunInv
  <2>2. \A y \in Xstreams : ~ Hand(y, t)
    BY <1>13 DEF SuspendSwitch, IInv, HandInv, HeldBy
  <2>3. v # t /\ cur[e] = t
    BY <1>a, <1>13, <2>1, <2>2 DEF SuspendSwitch, RunsOn, Blocking
  <2>4. pc'[v] = pc[v] /\ ret'[v] = ret[v]
    BY <1>13, <2>3 DEF SuspendSwitch
  <2>5. \A y \in Xstreams : Hand(y, v) => Hand(y, v)' /\ pc'[y] = pc[y]
    BY <1>13, <2>3 DEF SuspendSwitch
  <2>6. state[v] = "TERMINATED" => state'[v] = "TERMINATED"
    BY <1>13, <2>3 DEF SuspendSwitch
  <2> QED
    BY <1>a, <2>4, <2>5, <2>6
<1>14. ASSUME NEW e \in Xstreams, NEW t \in Threads, JoinPool(e, t) PROVE Woke(v)'
  <2>1. cur[e] = t => RunsOn(e, t)
    BY DEF IInv, RunInv
  <2>2. \A y \in Xstreams : ~ Hand(y, t)
    BY <1>14 DEF JoinPool, IInv, HandInv, HeldBy
  <2>3. v # t /\ cur[e] = t
    BY <1>a, <1>14, <2>1, <2>2 DEF JoinPool, RunsOn, Blocking
  <2>4. pc'[v] = pc[v] /\ ret'[v] = ret[v]
    BY <1>14, <2>3 DEF JoinPool
  <2>5. \A y \in Xstreams : Hand(y, v) => Hand(y, v)' /\ pc'[y] = pc[y]
    BY <1>14, <2>3 DEF JoinPool
  <2>7. cur[e] = t /\ pc[t] = "join.pool" /\ arg[t] \in pool[p_pool[arg[t]]]
    BY <1>14 DEF JoinPool
  <2>8. state[arg[t]] = "READY" /\ arg[t] \in Threads
    <4>1. arg[t] \in Threads /\ arg[t] \in pool[SchedPool[e]]
      BY <2>7, JoinPoolTarget
    <4> QED
      BY <4>1, PoolTarget
  <2>9. state[t] # "TERMINATED"
    BY <2>7, <2>1 DEF RunsOn, Blocking
  <2>6. state[v] = "TERMINATED" => state'[v] = "TERMINATED"
    BY <1>14, <2>8, <2>9, <2>3 DEF JoinPool
  <2> QED
    BY <1>a, <2>4, <2>5, <2>6
<1>15. ASSUME NEW e \in Xstreams, NEW t \in Threads, JoinBlock(e, t) PROVE Woke(v)'
  <2>1. cur[e] = t => RunsOn(e, t)
    BY DEF IInv, RunInv
  <2>2. \A y \in Xstreams : ~ Hand(y, t)
    BY <1>15 DEF JoinBlock, IInv, HandInv, HeldBy
  <2>3. v # t /\ cur[e] = t
    BY <1>a, <1>15, <2>1, <2>2 DEF JoinBlock, RunsOn, Blocking
  <2>4. pc'[v] = pc[v] /\ ret'[v] = ret[v]
    BY <1>15, <2>3 DEF JoinBlock
  <2>5. \A y \in Xstreams : Hand(y, v) => Hand(y, v)' /\ pc'[y] = pc[y]
    BY <1>15, <2>3 DEF JoinBlock
  <2>6. state[v] = "TERMINATED" => state'[v] = "TERMINATED"
    BY <1>15, <2>3 DEF JoinBlock
  <2> QED
    BY <1>a, <2>4, <2>5, <2>6
<1>16. ASSUME NEW e \in Xstreams, NEW t \in Threads, JoinSuspend(e, t) PROVE Woke(v)'
  <2>1. cur[e] = t => RunsOn(e, t)
    BY DEF IInv, RunInv
  <2>2. \A y \in Xstreams : ~ Hand(y, t)
    BY <1>16 DEF JoinSuspend, IInv, HandInv, HeldBy
  <2>3. v # t /\ cur[e] = t
    BY <1>a, <1>16, <2>1, <2>2 DEF JoinSuspend, RunsOn, Blocking
  <2>4. pc'[v] = pc[v] /\ ret'[v] = ret[v]
    BY <1>16, <2>3 DEF JoinSuspend
  <2>5. \A y \in Xstreams : Hand(y, v) => Hand(y, v)' /\ pc'[y] = pc[y]
    BY <1>16, <2>3 DEF JoinSuspend
  <2>6. state[v] = "TERMINATED" => state'[v] = "TERMINATED"
    BY <1>16, <2>3 DEF JoinSuspend
  <2> QED
    BY <1>a, <2>4, <2>5, <2>6
<1>17. ASSUME NEW e \in Xstreams, NEW t \in Threads, JoinResumed(e, t) PROVE Woke(v)'
  <2>1. cur[e] = t => RunsOn(e, t)
    BY DEF IInv, RunInv
  <2>2. \A y \in Xstreams : ~ Hand(y, t)
    BY <1>17 DEF JoinResumed, IInv, HandInv, HeldBy
  <2>4. CASE state[t] = "BLOCKED"
    <3>3. v # t /\ cur[e] = t
      BY <1>a, <1>17, <2>4, <2>1, <2>2 DEF JoinResumed, RunsOn, Blocking
    <3>4. pc'[v] = pc[v] /\ ret'[v] = ret[v]
      BY <1>17, <2>4, <3>3 DEF JoinResumed
    <3>5. \A y \in Xstreams : Hand(y, v) => Hand(y, v)' /\ pc'[y] = pc[y]
      BY <1>17, <2>4, <3>3 DEF JoinResumed
    <3>6. state[v] = "TERMINATED" => state'[v] = "TERMINATED"
      BY <1>17, <2>4, <3>3 DEF JoinResumed
    <3> QED
      BY <1>a, <3>4, <3>5, <3>6
  <2>5. CASE ~ (state[t] = "BLOCKED")
    <3>3. v # t /\ cur[e] = t
      BY <1>a, <1>17, <2>5, <2>1, <2>2 DEF JoinResumed, RunsOn, Blocking
    <3>4. pc'[v] = pc[v] /\ ret'[v] = ret[v]
      BY <1>17, <2>5, <3>3 DEF JoinResumed
    <3>5. \A y \in Xstreams : Hand(y, v) => Hand(y, v)' /\ pc'[y] = pc[y]
      BY <1>17, <2>5, <3>3 DEF JoinResumed
    <3>6. state[v] = "TERMINATED" => state'[v] = "TERMINATED"
      BY <1>17, <2>5, <3>3 DEF JoinResumed
    <3> QED
      BY <1>a, <3>4, <3>5, <3>6
  <2> QED
    BY <2>4, <2>5
<1>18. ASSUME NEW e \in Xstreams, NEW t \in Threads, JoinYield(e, t) PROVE Woke(v)'
  <2>1. cur[e] = t => RunsOn(e, t)
    BY DEF IInv, RunInv
  <2>2. \A y \in Xstreams : ~ Hand(y, t)
    BY <1>18 DEF JoinYield, IInv, HandInv, HeldBy
  <2>4. CASE state[arg[t]] = "TERMINATED"
    <3>3. v # t /\ cur[e] = t
      BY <1>a, <1>18, <2>4, <2>1, <2>2 DEF JoinYield, RunsOn, Blocking
    <3>4. pc'[v] = pc[v] /\ ret'[v] = ret[v]
      BY <1>18, <2>4, <3>3 DEF JoinYield
    <3>5. \A y \in Xstreams : Hand(y, v) => Hand(y, v)' /\ pc'[y] = pc[y]
      BY <1>18, <2>4, <3>3 DEF JoinYield
    <3>6. state[v] = "TERMINATED" => state'[v] = "TERMINATED"
      BY <1>18, <2>4, <3>3 DEF JoinYield
    <3> QED
      BY <1>a, <3>4, <3>5, <3>6
  <2>5. CASE ~ (state[arg[t]] = "TERMINATED")
    <3>3. v # t /\ cur[e] = t
      BY <1>a, <1>18, <2>5, <2>1, <2>2 DEF JoinYield, RunsOn, Blocking
    <3>4. pc'[v] = pc[v] /\ ret'[v] = ret[v]
      BY <1>18, <2>5, <3>3 DEF JoinYield
    <3>5. \A y \in Xstreams : Hand(y, v) => Hand(y, v)' /\ pc'[y] = pc[y]
      BY <1>18, <2>5, <3>3 DEF JoinYield
    <3>6. state[v] = "TERMINATED" => state'[v] = "TERMINATED"
      BY <1>18, <2>5, <3>3 DEF JoinYield
    <3> QED
      BY <1>a, <3>4, <3>5, <3>6
  <2> QED
    BY <2>4, <2>5
<1>19. ASSUME NEW e \in Xstreams, NEW t \in Threads, ExitLeave(e, t) PROVE Woke(v)'
  <2>1. cur[e] = t => RunsOn(e, t)
    BY DEF IInv, RunInv
  <2>2. \A y \in Xstreams : ~ Hand(y, t)
    BY <1>19 DEF ExitLeave, IInv, HandInv, HeldBy
  <2>3. CASE v = t
    BY <1>19, <2>3 DEF ExitLeave
  <2>4. CASE v # t
    <3>1. cur[e] = t /\ pc'[v] = pc[v] /\ ret'[v] = ret[v] /\ state' = state
      BY <1>19, <2>4 DEF ExitLeave
    <3>2. \A y \in Xstreams : Hand(y, v) => Hand(y, v)' /\ pc'[y] = pc[y]
      BY <1>19, <2>4 DEF ExitLeave
    <3> QED
      BY <1>a, <3>1, <3>2
  <2> QED
    BY <2>3, <2>4
<1>20. ASSUME NEW e \in Xstreams, NEW t \in Threads, YieldToSwitch(e, t) PROVE Woke(v)'
  <2>1. cur[e] = t => RunsOn(e, t)
    BY DEF IInv, RunInv
  <2>2. \A y \in Xstreams : ~ Hand(y, t)
    BY <1>20 DEF YieldToSwitch, IInv, HandInv, HeldBy
  <2>3. v # t /\ cur[e] = t
    BY <1>a, <1>20, <2>1, <2>2 DEF YieldToSwitch, RunsOn, Blocking
  <2>4. pc'[v] = pc[v] /\ ret'[v] = ret[v]
    BY <1>20, <2>3 DEF YieldToSwitch
  <2>5. \A y \in Xstreams : Hand(y, v) => Hand(y, v)' /\ pc'[y] = pc[y]
    BY <1>20, <2>3 DEF YieldToSwitch
  <2>7. arg[t] \in Threads /\ arg[t] \in pool[SchedPool[e]]
    BY <1>20, YieldToTarget DEF YieldToSwitch
  <2>8. state[arg[t]] = "READY"
    BY <2>7, PoolTarget
  <2>6. state[v] = "TERMINATED" => state'[v] = "TERMINATED"
    BY <1>20, <2>7, <2>8, <2>3 DEF YieldToSwitch
  <2> QED
    BY <1>a, <2>4, <2>5, <2>6
<1>21. ASSUME NEW e \in Xstreams, NEW t \in Threads, MigrateRequest(e, t) PROVE Woke(v)'
  <2>1. cur[e] = t => RunsOn(e, t)
    BY DEF IInv, RunInv
  <2>2. \A y \in Xstreams : ~ Hand(y, t)
    BY <1>21 DEF MigrateRequest, IInv, HandInv, HeldBy
  <2>4. CASE t = arg[t]
    <3>3. v # t /\ cur[e] = t
      BY <1>a, <1>21, <2>4, <2>1, <2>2 DEF MigrateRequest, RunsOn, Blocking
    <3>4. pc'[v] = pc[v] /\ ret'[v] = ret[v]
      BY <1>21, <2>4, <3>3 DEF MigrateRequest
    <3>5. \A y \in Xstreams : Hand(y, v) => Hand(y, v)' /\ pc'[y] = pc[y]
      BY <1>21, <2>4, <3>3 DEF MigrateRequest
    <3>6. state[v] = "TERMINATED" => state'[v] = "TERMINATED"
      BY <1>21, <2>4, <3>3 DEF MigrateRequest
    <3> QED
      BY <1>a, <3>4, <3>5, <3>6
  <2>5. CASE ~ (t = arg[t])
    <3>3. v # t /\ cur[e] = t
      BY <1>a, <1>21, <2>5, <2>1, <2>2 DEF MigrateRequest, RunsOn, Blocking
    <3>4. pc'[v] = pc[v] /\ ret'[v] = ret[v]
      BY <1>21, <2>5, <3>3 DEF MigrateRequest
    <3>5. \A y \in Xstreams : Hand(y, v) => Hand(y, v)' /\ pc'[y] = pc[y]
      BY <1>21, <2>5, <3>3 DEF MigrateRequest
    <3>6. state[v] = "TERMINATED" => state'[v] = "TERMINATED"
      BY <1>21, <2>5, <3>3 DEF MigrateRequest
    <3> QED
      BY <1>a, <3>4, <3>5, <3>6
  <2> QED
    BY <2>4, <2>5
<1>22. ASSUME NEW e \in Xstreams, NEW t \in Threads, Pop(e, t) PROVE Woke(v)'
  <2> DEFINE u == arg[e]
  <2>1. cur[e] = e /\ pc[e] \in InHand \cup InSetReady => u \in Threads /\ HeldBy(e, u)
    BY HandTarget
  <2> QED
    BY <1>a, <1>b, <1>22, <2>1 DEF Pop, HeldBy, Canceling
<1>23. ASSUME NEW e \in Xstreams, NEW t \in Threads, NEW u \in Threads, Resume(e, t, u)
       PROVE  Woke(v)'
  <2>1. cur[e] = t => RunsOn(e, t)
    BY DEF IInv, RunInv
  <2>2. \A y \in Xstreams : ~ Hand(y, t)
    BY <1>23 DEF Resume, IInv, HandInv, HeldBy
  <2> QED
    BY <1>a, <1>b, <1>23, <2>1, <2>2 DEF Resume, RunsOn, Blocking
<1>24. ASSUME NEW e \in Xstreams, NEW t \in Threads, NEW u \in Threads, JoinStart(e, t, u)
       PROVE  Woke(v)'
  <2>1. cur[e] = t => RunsOn(e, t)
    BY DEF IInv, RunInv
  <2>2. \A y \in Xstreams : ~ Hand(y, t)
    BY <1>24 DEF JoinStart, IInv, HandInv, HeldBy
  <2> QED
    BY <1>a, <1>b, <1>24, <2>1, <2>2 DEF JoinStart, RunsOn, Blocking
<1>25. ASSUME NEW e \in Xstreams, NEW t \in Threads, NEW u \in Threads, Cancel(e, t, u)
       PROVE  Woke(v)'
  <2>1. cur[e] = t => RunsOn(e, t)
    BY DEF IInv, RunInv
  <2>2. \A y \in Xstreams : ~ Hand(y, t)
    BY <1>25 DEF Cancel, IInv, HandInv, HeldBy
  <2> QED
    BY <1>a, <1>b, <1>25, <2>1, <2>2 DEF Cancel, RunsOn, Blocking
<1>26. ASSUME NEW e \in Xstreams, NEW t \in Threads, NEW u \in Threads, YieldToPush(e, t, u)
       PROVE  Woke(v)'
  <2>1. cur[e] = t => RunsOn(e, t)
    BY DEF IInv, RunInv
  <2>2. \A y \in Xstreams : ~ Hand(y, t)
    BY <1>26 DEF YieldToPush, IInv, HandInv, HeldBy
  <2> QED
    BY <1>a, <1>b, <1>26, <2>1, <2>2 DEF YieldToPush, RunsOn, Blocking
<1>27. ASSUME NEW e \in Xstreams, NEW t \in Threads, NEW u \in Threads, NEW d \in Xstreams,
              MigrateToXstream(e, t, u, d)
       PROVE  Woke(v)'
  <2>1. cur[e] = t => RunsOn(e, t)
    BY DEF IInv, RunInv
  <2>2. \A y \in Xstreams : ~ Hand(y, t)
    BY <1>27 DEF MigrateToXstream, IInv, HandInv, HeldBy
  <2> QED
    BY <1>a, <1>b, <1>27, <2>1, <2>2 DEF MigrateToXstream, RunsOn, Blocking
<1>28. ASSUME NEW e \in Xstreams, NEW t \in Threads, NEW u \in Threads, NEW p \in Pools,
              MigrateToPool(e, t, u, p)
       PROVE  Woke(v)'
  <2>1. cur[e] = t => RunsOn(e, t)
    BY DEF IInv, RunInv
  <2>2. \A y \in Xstreams : ~ Hand(y, t)
    BY <1>28 DEF MigrateToPool, IInv, HandInv, HeldBy
  <2> QED
    BY <1>a, <1>b, <1>28, <2>1, <2>2 DEF MigrateToPool, RunsOn, Blocking
<1>29. ASSUME NEW e \in Xstreams, NEW c \in Contexts, SetReadySpin(e, c) PROVE Woke(v)'
  <2>1. Woken(c) \in Threads /\ state[Woken(c)] = "BLOCKED" /\ cur[e] = c /\ pc[c] = "spin"
    BY <1>29, SpinTarget DEF SetReadySpin
  <2>2. state[v] = "TERMINATED" => state'[v] = "TERMINATED"
    BY <1>29, <2>1 DEF SetReadySpin
  <2>3. pc' = [pc EXCEPT ![c] = "push"] /\ UNCHANGED <<cur, arg, ret>>
    BY <1>29 DEF SetReadySpin
  <2>4. \A y \in Xstreams : Hand(y, v) /\ pc[y] \in {"push", "dec", "end"} => Hand(y, v)'
          /\ pc'[y] = pc[y]
    BY <2>1, <2>3
  <2>5. pc'[v] = pc[v] \/ (v = c /\ pc[v] = "spin")
    BY <2>1, <2>3
  <2> QED
    BY <1>a, <2>2, <2>3, <2>4, <2>5
<1>30. ASSUME NEW e \in Xstreams, NEW c \in Contexts, SetReadyPush(e, c) PROVE Woke(v)'
  <2> DEFINE u == arg[e]
  <2>1. cur[e] = e /\ pc[e] \in InHand \cup InSetReady => u \in Threads /\ HeldBy(e, u)
    BY HandTarget
  <2> QED
    BY <1>a, <1>b, <1>30, <2>1 DEF SetReadyPush, HeldBy, Canceling
<1>31. ASSUME NEW e \in Xstreams, NEW c \in Contexts, SetReadyDec(e, c) PROVE Woke(v)'
  <2>1. pc' = [pc EXCEPT ![c] = ret[c]] /\ UNCHANGED <<cur, arg, ret, state>> /\ cur[e] = c
          /\ pc[c] = "dec"
    BY <1>31 DEF SetReadyDec
  <2>2. c \in Xstreams => ret[c] = "end" /\ c = e
    BY <2>1 DEF IInv, EsInv, Canceling
  <2>3. \A y \in Xstreams : Hand(y, v) /\ pc[y] \in {"push", "dec", "end"}
                             => Hand(y, v)' /\ pc'[y] \in {"push", "dec", "end"}
    BY <2>1, <2>2
  <2>4. v = c => pc'[v] = ret[v]
    BY <2>1
  <2>5. v # c => pc'[v] = pc[v]
    BY <2>1
  <2> QED
    BY <1>a, <2>1, <2>3, <2>4, <2>5
<1>32. ASSUME NEW e \in Xstreams, Run(e) PROVE Woke(v)'
  <2> DEFINE u == arg[e]
  <2>1. cur[e] = e /\ pc[e] \in InHand \cup InSetReady => u \in Threads /\ HeldBy(e, u)
    BY HandTarget
  <2> QED
    BY <1>a, <1>b, <1>32, <2>1 DEF Run, HeldBy, Canceling
<1>33. ASSUME NEW e \in Xstreams, AfterBlock(e) PROVE Woke(v)'
  <2> DEFINE u == arg[e]
  <2>1. cur[e] = e /\ pc[e] \in InHand \cup InSetReady => u \in Threads /\ HeldBy(e, u)
    BY HandTarget
  <2> QED
    BY <1>a, <1>b, <1>33, <2>1 DEF AfterBlock, HeldBy, Canceling
<1>34. ASSUME NEW e \in Xstreams, AfterTerminate(e) PROVE Woke(v)'
  <2> DEFINE u == arg[e]
  <2>1. cur[e] = e /\ pc[e] \in InHand \cup InSetReady => u \in Threads /\ HeldBy(e, u)
    BY HandTarget
  <2> QED
    BY <1>a, <1>b, <1>34, <2>1 DEF AfterTerminate, HeldBy, Canceling
<1>35. ASSUME NEW e \in Xstreams, End(e) PROVE Woke(v)'
  <2> DEFINE u == arg[e]
  <2>1. cur[e] = e /\ pc[e] \in InHand \cup InSetReady => u \in Threads /\ HeldBy(e, u)
    BY HandTarget
  <2> QED
    BY <1>a, <1>b, <1>35, <2>1 DEF End, HeldBy, Canceling
<1>36. ASSUME NEW e \in Xstreams, MigrateThread(e) PROVE Woke(v)'
  <2> DEFINE u == arg[e]
  <2>1. cur[e] = e /\ pc[e] \in InHand \cup InSetReady => u \in Threads /\ HeldBy(e, u)
    BY HandTarget
  <2> QED
    BY <1>a, <1>b, <1>36, <2>1 DEF MigrateThread, HeldBy, Canceling
<1>37. ASSUME NEW e \in Xstreams, MigrateDec(e) PROVE Woke(v)'
  <2> DEFINE u == arg[e]
  <2>1. cur[e] = e /\ pc[e] \in InHand \cup InSetReady => u \in Threads /\ HeldBy(e, u)
    BY HandTarget
  <2> QED
    BY <1>a, <1>b, <1>37, <2>1 DEF MigrateDec, HeldBy, Canceling
<1>38. ASSUME NEW e \in Xstreams, CancelStart(e) PROVE Woke(v)'
  <2> DEFINE u == arg[e]
  <2>1. cur[e] = e /\ pc[e] \in InHand \cup InSetReady => u \in Threads /\ HeldBy(e, u)
    BY HandTarget
  <2> QED
    BY <1>a, <1>b, <1>38, <2>1 DEF CancelStart, HeldBy, Canceling
<1>39. ASSUME NEW e \in Xstreams, CancelRequest(e) PROVE Woke(v)'
  <2> DEFINE u == arg[e]
  <2>1. cur[e] = e /\ pc[e] \in InHand \cup InSetReady => u \in Threads /\ HeldBy(e, u)
    BY HandTarget
  <2> QED
    BY <1>a, <1>b, <1>39, <2>1 DEF CancelRequest, HeldBy, Canceling
<1>40. ASSUME NEW e \in Xstreams, CancelLink(e) PROVE Woke(v)'
  <2> DEFINE u == arg[e]
  <2>1. cur[e] = e /\ pc[e] \in InHand \cup InSetReady => u \in Threads /\ HeldBy(e, u)
    BY HandTarget
  <2> QED
    BY <1>a, <1>b, <1>40, <2>1 DEF CancelLink, HeldBy, Canceling
<1>41. ASSUME NEW e \in Xstreams, HasToStop(e) PROVE Woke(v)'
  <2> DEFINE u == arg[e]
  <2>1. cur[e] = e /\ pc[e] \in InHand \cup InSetReady => u \in Threads /\ HeldBy(e, u)
    BY HandTarget
  <2> QED
    BY <1>a, <1>b, <1>41, <2>1 DEF HasToStop, HeldBy, Canceling
<1>42. ASSUME NEW e \in Xstreams, AfterYield(e) PROVE Woke(v)'
  <2> DEFINE u == arg[e]
  <2>1. u \in Threads /\ HeldBy(e, u)
    BY <1>42, HandTarget DEF AfterYield
  <2>2. state[u] # "TERMINATED"
    BY <2>1 DEF HeldBy
  <2>3. pc' = [pc EXCEPT ![e] = "pop"] /\ UNCHANGED <<cur, arg, ret>> /\ pc[e] = "after"
    BY <1>42 DEF AfterYield
  <2>4. state[v] = "TERMINATED" => state'[v] = "TERMINATED"
    BY <1>42, <2>1, <2>2 DEF AfterYield
  <2>5. \A y \in Xstreams : Hand(y, v) /\ pc[y] \in {"push", "dec", "end"} => Hand(y, v)'
          /\ pc'[y] = pc[y]
    BY <2>3
  <2>6. pc'[v] = pc[v]
    BY <2>3
  <2> QED
    BY <1>a, <2>3, <2>4, <2>5, <2>6
<1>43. ASSUME NEW e \in Xstreams, ReadSize(e) PROVE Woke(v)'
  <2> DEFINE u == arg[e]
  <2>1. cur[e] = e /\ pc[e] \in InHand \cup InSetReady => u \in Threads /\ HeldBy(e, u)
    BY HandTarget
  <2> QED
    BY <1>a, <1>b, <1>43, <2>1 DEF ReadSize, HeldBy, Canceling
<1>44. ASSUME NEW e \in Xstreams, ReadMigrations(e) PROVE Woke(v)'
  <2> DEFINE u == arg[e]
  <2>1. cur[e] = e /\ pc[e] \in InHand \cup InSetReady => u \in Threads /\ HeldBy(e, u)
    BY HandTarget
  <2> QED
    BY <1>a, <1>b, <1>44, <2>1 DEF ReadMigrations, HeldBy, Canceling
<1>45. ASSUME NEW e \in Xstreams, ReadBlocked(e) PROVE Woke(v)'
  <2> DEFINE u == arg[e]
  <2>1. cur[e] = e /\ pc[e] \in InHand \cup InSetReady => u \in Threads /\ HeldBy(e, u)
    BY HandTarget
  <2> QED
    BY <1>a, <1>b, <1>45, <2>1 DEF ReadBlocked, HeldBy, Canceling
<1>46. ASSUME NEW e \in Xstreams, XstreamJoin(e) PROVE Woke(v)'
  <2> DEFINE u == arg[e]
  <2>1. cur[e] = e /\ pc[e] \in InHand \cup InSetReady => u \in Threads /\ HeldBy(e, u)
    BY HandTarget
  <2> QED
    BY <1>a, <1>b, <1>46, <2>1 DEF XstreamJoin, HeldBy, Canceling
<1>47. CASE UNCHANGED vars
  BY <1>a, <1>b, <1>47 DEF vars
<1> HIDE DEF Woke
<1> QED
  BY <1>1, <1>2, <1>3, <1>4, <1>5, <1>6, <1>7, <1>8, <1>9, <1>10, <1>11, <1>12, <1>13,
    <1>14, <1>15, <1>16, <1>17, <1>18, <1>19, <1>20, <1>21, <1>22, <1>23, <1>24, <1>25,
    <1>26, <1>27, <1>28, <1>29, <1>30, <1>31, <1>32, <1>33, <1>34, <1>35, <1>36, <1>37,
    <1>38, <1>39, <1>40, <1>41, <1>42, <1>43, <1>44, <1>45, <1>46, <1>47 DEF Next, EsStep,
    SchedStep, UserStep, RuntimeStep, JoinStep, ExitStep, ExitStart

-----------------------------------------------------------------------------
(* Every step keeps every part of the invariant.                           *)

(* Contexts: what an ES executes, and the operands of a context.           *)
LEMMA StackOKStep ==
  ASSUME ConstantsAssumption, Program, IInv, [Next]_vars
  PROVE  StackOK'
<1> USE ConstantsAssumption DEF ConstantsAssumption, IInv, RetOK, StackOK, PcOK, ThreadOK,
  EsInv, JoinInv, Joining, InJoin, YieldInv, YieldingAt, InHand, InSetReady, Goto, At,
  ToSched, AddRequest, SetBlocked, Pooled, Contexts, Handles, Suspended, Migratable,
  stackVars, threadVars, poolVars, stopVars
<1>1. ASSUME NEW e \in Xstreams, NEW t \in Threads, Yield(e, t) PROVE StackOK'
  BY <1>1 DEF Yield
<1>2. ASSUME NEW e \in Xstreams, NEW t \in Threads, Preempt(e, t) PROVE StackOK'
  BY <1>2 DEF Preempt
<1>3. ASSUME NEW e \in Xstreams, NEW t \in Threads, SuspendBlock(e, t) PROVE StackOK'
  BY <1>3 DEF SuspendBlock
<1>4. ASSUME NEW e \in Xstreams, NEW t \in Threads, ExitJump(e, t) PROVE StackOK'
  BY <1>4 DEF ExitJump
<1>5. ASSUME NEW e \in Xstreams, NEW t \in Threads, ExitWake(e, t) PROVE StackOK'
  BY <1>5 DEF ExitWake
<1>6. ASSUME NEW e \in Xstreams, NEW t \in Threads, ExitAlone(e, t) PROVE StackOK'
  BY <1>6 DEF ExitAlone
<1>7. ASSUME NEW e \in Xstreams, NEW t \in Threads, SuspendSwitch(e, t) PROVE StackOK'
  BY <1>7 DEF SuspendSwitch
<1>8. ASSUME NEW e \in Xstreams, NEW t \in Threads, JoinRequest(e, t) PROVE StackOK'
  BY <1>8 DEF JoinRequest
<1>9. ASSUME NEW e \in Xstreams, NEW t \in Threads,
             JoinBlock(e, t) \/ JoinLink(e, t)
      PROVE  StackOK'
  BY <1>9 DEF JoinBlock, JoinLink
<1>10. ASSUME NEW e \in Xstreams, NEW t \in Threads, JoinPool(e, t) PROVE StackOK'
  <2>1. arg[t] \in Threads
    BY <1>10, JoinPoolTarget DEF JoinPool
  <2> QED
    BY <1>10, <2>1 DEF JoinPool
<1>11. ASSUME NEW e \in Xstreams, NEW t \in Threads, JoinSuspend(e, t) PROVE StackOK'
  BY <1>11 DEF JoinSuspend
<1>12. ASSUME NEW e \in Xstreams, NEW t \in Threads, ExitStore(e, t) PROVE StackOK'
  BY <1>12 DEF ExitStore
<1>13. ASSUME NEW e \in Xstreams, NEW t \in Threads,
              ExitRequest(e, t) \/ ExitLink(e, t)
       PROVE  StackOK'
  BY <1>13 DEF ExitRequest, ExitLink
<1>14. ASSUME NEW e \in Xstreams, NEW t \in Threads, ExitLeave(e, t) PROVE StackOK'
  BY <1>14 DEF ExitLeave
<1>15. ASSUME NEW e \in Xstreams, NEW t \in Threads, MigrateCount(e, t) PROVE StackOK'
  BY <1>15 DEF MigrateCount
<1>16. ASSUME NEW e \in Xstreams, NEW t \in Threads, Pop(e, t) PROVE StackOK'
  BY <1>16 DEF Pop
<1>17. ASSUME NEW e \in Xstreams, NEW t \in Threads, JoinResumed(e, t) PROVE StackOK'
  <2>1. CASE state[t] = "BLOCKED"
    BY <1>17, <2>1 DEF JoinResumed
  <2>2. CASE state[t] # "BLOCKED"
    BY <1>17, <2>2 DEF JoinResumed
  <2> QED
    BY <2>1, <2>2
<1>18. ASSUME NEW e \in Xstreams, NEW t \in Threads, JoinYield(e, t) PROVE StackOK'
  <2>1. CASE state[arg[t]] = "TERMINATED"
    BY <1>18, <2>1 DEF JoinYield
  <2>2. CASE state[arg[t]] # "TERMINATED"
    <3>1. /\ cur' = [cur EXCEPT ![e] = e] /\ arg' = [arg EXCEPT ![e] = t] /\ from' = from
      BY <1>18, <2>2 DEF JoinYield
    <3> QED
      BY <3>1
  <2> QED
    BY <2>1, <2>2
<1>19. ASSUME NEW e \in Xstreams, NEW t \in Threads, YieldToSwitch(e, t) PROVE StackOK'
  <2>1. arg[t] \in Threads
    BY <1>19, YieldToTarget DEF YieldToSwitch
  <2> QED
    BY <1>19, <2>1 DEF YieldToSwitch
<1>20. ASSUME NEW e \in Xstreams, NEW t \in Threads, MigrateRequest(e, t) PROVE StackOK'
  <2>1. CASE t = arg[t]
    <3>1. /\ cur' = [cur EXCEPT ![e] = e] /\ arg' = [arg EXCEPT ![e] = t] /\ from' = from
      BY <1>20, <2>1 DEF MigrateRequest
    <3> QED
      BY <3>1
  <2>2. CASE t # arg[t]
    BY <1>20, <2>2 DEF MigrateRequest
  <2> QED
    BY <2>1, <2>2
<1>21. ASSUME NEW e \in Xstreams, NEW t \in Threads, NEW u \in Threads,
              Resume(e, t, u) \/ JoinStart(e, t, u) \/ Cancel(e, t, u)
                \/ YieldToPush(e, t, u)
       PROVE  StackOK'
  BY <1>21 DEF Resume, JoinStart, Cancel, YieldToPush
<1>22. ASSUME NEW e \in Xstreams, NEW t \in Threads, NEW u \in Threads, NEW d \in Xstreams,
              MigrateToXstream(e, t, u, d)
       PROVE  StackOK'
  BY <1>22 DEF MigrateToXstream
<1>23. ASSUME NEW e \in Xstreams, NEW t \in Threads, NEW u \in Threads, NEW p \in Pools,
              MigrateToPool(e, t, u, p)
       PROVE  StackOK'
  BY <1>23 DEF MigrateToPool
<1>24. ASSUME NEW e \in Xstreams, NEW c \in Contexts, SetReadySpin(e, c) PROVE StackOK'
  <2>1. Woken(c) \in Threads
    BY <1>24, SpinTarget DEF SetReadySpin
  <2> QED
    BY <1>24, <2>1 DEF SetReadySpin
<1>25. ASSUME NEW e \in Xstreams, NEW c \in Contexts,
              SetReadyPush(e, c) \/ SetReadyDec(e, c)
       PROVE  StackOK'
  BY <1>25 DEF SetReadyPush, SetReadyDec
<1>26. ASSUME NEW e \in Xstreams, Run(e) PROVE StackOK'
  BY <1>26 DEF Run
<1>27. ASSUME NEW e \in Xstreams, AfterYield(e) PROVE StackOK'
  BY <1>27 DEF AfterYield
<1>28. ASSUME NEW e \in Xstreams, AfterBlock(e) PROVE StackOK'
  BY <1>28 DEF AfterBlock
<1>29. ASSUME NEW e \in Xstreams,
              AfterTerminate(e) \/ End(e)
       PROVE  StackOK'
  BY <1>29 DEF AfterTerminate, End
<1>30. ASSUME NEW e \in Xstreams,
              MigrateThread(e) \/ MigrateDec(e)
       PROVE  StackOK'
  BY <1>30 DEF MigrateThread, MigrateDec
<1>31. ASSUME NEW e \in Xstreams, CancelStart(e) PROVE StackOK'
  BY <1>31 DEF CancelStart
<1>32. ASSUME NEW e \in Xstreams,
              CancelRequest(e) \/ CancelLink(e)
       PROVE  StackOK'
  BY <1>32 DEF CancelRequest, CancelLink
<1>33. ASSUME NEW e \in Xstreams,
              HasToStop(e) \/ ReadSize(e) \/ ReadMigrations(e) \/ ReadBlocked(e)
                \/ XstreamJoin(e)
       PROVE  StackOK'
  BY <1>33 DEF HasToStop, ReadSize, ReadMigrations, ReadBlocked, XstreamJoin
<1>34. CASE UNCHANGED vars
  BY <1>34 DEF vars
<1> HIDE DEF StackOK
<1> QED
  BY <1>1, <1>2, <1>3, <1>4, <1>5, <1>6, <1>7, <1>8, <1>9, <1>10, <1>11, <1>12, <1>13,
    <1>14, <1>15, <1>16, <1>17, <1>18, <1>19, <1>20, <1>21, <1>22, <1>23, <1>24, <1>25,
    <1>26, <1>27, <1>28, <1>29, <1>30, <1>31, <1>32, <1>33, <1>34 DEF Next, EsStep,
    SchedStep, UserStep, RuntimeStep, JoinStep, ExitStep, ExitStart

(* Only a scheduler returns from set_ready to the end of a cancelled ULT.  *)
LEMMA RetOKStep ==
  ASSUME ConstantsAssumption, Program, IInv, [Next]_vars
  PROVE  RetOK'
<1> USE ConstantsAssumption DEF ConstantsAssumption, IInv, RetOK, Goto, At, ToSched,
  AddRequest, SetBlocked, Pooled, Contexts, Handles, Suspended, Migratable, stackVars,
  threadVars, poolVars, stopVars
<1>1. ASSUME NEW e \in Xstreams, NEW t \in Threads,
             Yield(e, t) \/ Preempt(e, t) \/ SuspendBlock(e, t) \/ ExitJump(e, t)
               \/ ExitWake(e, t) \/ ExitAlone(e, t) \/ SuspendSwitch(e, t)
               \/ JoinPool(e, t) \/ JoinRequest(e, t) \/ JoinBlock(e, t)
      PROVE  RetOK'
  BY <1>1 DEF Yield, Preempt, SuspendBlock, ExitJump, ExitWake, ExitAlone, SuspendSwitch, JoinPool,
       JoinRequest, JoinBlock
<1>2. ASSUME NEW e \in Xstreams, NEW t \in Threads,
             JoinLink(e, t) \/ JoinSuspend(e, t) \/ JoinResumed(e, t)
               \/ JoinYield(e, t) \/ ExitStore(e, t) \/ ExitRequest(e, t)
               \/ ExitLink(e, t) \/ ExitLeave(e, t) \/ YieldToSwitch(e, t)
               \/ MigrateRequest(e, t)
      PROVE  RetOK'
  BY <1>2 DEF JoinLink, JoinSuspend, JoinResumed, JoinYield, ExitStore, ExitRequest, ExitLink,
       ExitLeave, YieldToSwitch, MigrateRequest
<1>3. ASSUME NEW e \in Xstreams, NEW t \in Threads,
             MigrateCount(e, t) \/ Pop(e, t)
      PROVE  RetOK'
  BY <1>3 DEF MigrateCount, Pop
<1>4. ASSUME NEW e \in Xstreams, NEW t \in Threads, NEW u \in Threads,
             Resume(e, t, u) \/ JoinStart(e, t, u) \/ Cancel(e, t, u)
               \/ YieldToPush(e, t, u)
      PROVE  RetOK'
  BY <1>4 DEF Resume, JoinStart, Cancel, YieldToPush
<1>5. ASSUME NEW e \in Xstreams, NEW t \in Threads, NEW u \in Threads, NEW d \in Xstreams,
             MigrateToXstream(e, t, u, d)
      PROVE  RetOK'
  BY <1>5 DEF MigrateToXstream
<1>6. ASSUME NEW e \in Xstreams, NEW t \in Threads, NEW u \in Threads, NEW p \in Pools,
             MigrateToPool(e, t, u, p)
      PROVE  RetOK'
  BY <1>6 DEF MigrateToPool
<1>7. ASSUME NEW e \in Xstreams, NEW c \in Contexts,
             SetReadySpin(e, c) \/ SetReadyPush(e, c) \/ SetReadyDec(e, c)
      PROVE  RetOK'
  BY <1>7 DEF SetReadySpin, SetReadyPush, SetReadyDec
<1>8. ASSUME NEW e \in Xstreams,
             Run(e) \/ AfterYield(e) \/ AfterBlock(e) \/ AfterTerminate(e)
               \/ End(e) \/ MigrateThread(e) \/ MigrateDec(e) \/ CancelStart(e)
               \/ CancelRequest(e) \/ CancelLink(e)
      PROVE  RetOK'
  BY <1>8 DEF Run, AfterYield, AfterBlock, AfterTerminate, End, MigrateThread, MigrateDec,
       CancelStart, CancelRequest, CancelLink
<1>9. ASSUME NEW e \in Xstreams,
             HasToStop(e) \/ ReadSize(e) \/ ReadMigrations(e) \/ ReadBlocked(e)
               \/ XstreamJoin(e)
      PROVE  RetOK'
  BY <1>9 DEF HasToStop, ReadSize, ReadMigrations, ReadBlocked, XstreamJoin
<1>10. CASE UNCHANGED vars
  BY <1>10 DEF vars
<1> HIDE DEF RetOK
<1> QED
  BY <1>1, <1>2, <1>3, <1>4, <1>5, <1>6, <1>7, <1>8, <1>9, <1>10 DEF Next, EsStep,
    SchedStep, UserStep, RuntimeStep, JoinStep, ExitStep, ExitStart

(* A ULT stays in its own code and a scheduler in its own.                 *)
LEMMA PcOKStep ==
  ASSUME ConstantsAssumption, Program, IInv, [Next]_vars
  PROVE  PcOK'
<1> USE ConstantsAssumption DEF ConstantsAssumption, IInv, PcOK, RetOK, StackOK, Goto, At,
  ToSched, AddRequest, SetBlocked, Pooled, Contexts, Handles, Suspended, Migratable,
  stackVars, threadVars, poolVars, stopVars
<1>0. /\ UltLabels = {"user", "suspend", "yield_to", "mig.request", "mig.count", "done",
                      "spin", "push", "dec", "join.pool", "join.request", "join.block",
                      "join.link", "join.suspend", "join.resumed", "join.yield",
                      "exit.request", "exit.link", "exit.store", "exit.leave"}
      /\ EsLabels = {"spin", "push", "dec", "size", "migrations", "blocked", "pop", "run",
                     "after", "migrate", "mig.dec", "cancel", "cancel.request", "cancel.link",
                     "end", "stopped"}
  BY DEF UltLabels, EsLabels, InSetReady, InJoin, InExit, InStop
<1>1. ASSUME NEW e \in Xstreams, NEW t \in Threads, Yield(e, t) PROVE PcOK'
  BY <1>0, <1>1 DEF Yield
<1>2. ASSUME NEW e \in Xstreams, NEW t \in Threads, Preempt(e, t) PROVE PcOK'
  BY <1>0, <1>2 DEF Preempt
<1>3. ASSUME NEW e \in Xstreams, NEW t \in Threads, SuspendBlock(e, t) PROVE PcOK'
  BY <1>0, <1>3 DEF SuspendBlock
<1>4. ASSUME NEW e \in Xstreams, NEW t \in Threads,
             ExitJump(e, t) \/ ExitWake(e, t)
      PROVE  PcOK'
  BY <1>0, <1>4 DEF ExitJump, ExitWake
<1>5. ASSUME NEW e \in Xstreams, NEW t \in Threads,
             ExitAlone(e, t) \/ SuspendSwitch(e, t) \/ JoinPool(e, t)
               \/ JoinRequest(e, t) \/ JoinBlock(e, t)
      PROVE  PcOK'
  BY <1>0, <1>5 DEF ExitAlone, SuspendSwitch, JoinPool, JoinRequest, JoinBlock
<1>6. ASSUME NEW e \in Xstreams, NEW t \in Threads,
             JoinLink(e, t) \/ JoinSuspend(e, t) \/ ExitStore(e, t)
      PROVE  PcOK'
  BY <1>0, <1>6 DEF JoinLink, JoinSuspend, ExitStore
<1>7. ASSUME NEW e \in Xstreams, NEW t \in Threads,
             ExitRequest(e, t) \/ ExitLink(e, t)
      PROVE  PcOK'
  BY <1>0, <1>7 DEF ExitRequest, ExitLink
<1>8. ASSUME NEW e \in Xstreams, NEW t \in Threads,
             ExitLeave(e, t) \/ YieldToSwitch(e, t) \/ MigrateCount(e, t)
               \/ Pop(e, t)
      PROVE  PcOK'
  BY <1>0, <1>8 DEF ExitLeave, YieldToSwitch, MigrateCount, Pop
<1>9. ASSUME NEW e \in Xstreams, NEW t \in Threads, JoinResumed(e, t) PROVE PcOK'
  <2>1. CASE state[t] = "BLOCKED"
    BY <1>0, <1>9, <2>1 DEF JoinResumed
  <2>2. CASE state[t] # "BLOCKED"
    BY <1>0, <1>9, <2>2 DEF JoinResumed
  <2> QED
    BY <2>1, <2>2
<1>10. ASSUME NEW e \in Xstreams, NEW t \in Threads, JoinYield(e, t) PROVE PcOK'
  <2>1. CASE state[arg[t]] = "TERMINATED"
    BY <1>0, <1>10, <2>1 DEF JoinYield
  <2>2. CASE state[arg[t]] # "TERMINATED"
    BY <1>0, <1>10, <2>2 DEF JoinYield
  <2> QED
    BY <2>1, <2>2
<1>11. ASSUME NEW e \in Xstreams, NEW t \in Threads, MigrateRequest(e, t) PROVE PcOK'
  <2>1. CASE t = arg[t]
    <3>1. \E l \in {"user", "mig.count"} : pc' = [pc EXCEPT ![t] = l, ![e] = "after"]
      BY <1>11, <2>1 DEF MigrateRequest
    <3> QED
      BY <1>0, <3>1
  <2>2. CASE t # arg[t]
    <3>1. \E l \in {"user", "mig.count"} : pc' = [pc EXCEPT ![t] = l]
      BY <1>11, <2>2 DEF MigrateRequest
    <3> QED
      BY <1>0, <3>1
  <2> QED
    BY <2>1, <2>2
<1>12. ASSUME NEW e \in Xstreams, NEW t \in Threads, NEW u \in Threads,
              Resume(e, t, u) \/ JoinStart(e, t, u)
       PROVE  PcOK'
  BY <1>0, <1>12 DEF Resume, JoinStart
<1>13. ASSUME NEW e \in Xstreams, NEW t \in Threads, NEW u \in Threads,
              Cancel(e, t, u) \/ YieldToPush(e, t, u)
       PROVE  PcOK'
  BY <1>0, <1>13 DEF Cancel, YieldToPush
<1>14. ASSUME NEW e \in Xstreams, NEW t \in Threads, NEW u \in Threads, NEW d \in Xstreams,
              MigrateToXstream(e, t, u, d)
       PROVE  PcOK'
  BY <1>0, <1>14 DEF MigrateToXstream
<1>15. ASSUME NEW e \in Xstreams, NEW t \in Threads, NEW u \in Threads, NEW p \in Pools,
              MigrateToPool(e, t, u, p)
       PROVE  PcOK'
  BY <1>0, <1>15 DEF MigrateToPool
<1>16. ASSUME NEW e \in Xstreams, NEW c \in Contexts,
              SetReadySpin(e, c) \/ SetReadyPush(e, c)
       PROVE  PcOK'
  BY <1>0, <1>16 DEF SetReadySpin, SetReadyPush
<1>17. ASSUME NEW e \in Xstreams, NEW c \in Contexts, SetReadyDec(e, c) PROVE PcOK'
  <2>1. CASE c \in Threads
    BY <1>0, <1>17, <2>1 DEF SetReadyDec
  <2>2. CASE c \in Xstreams
    BY <1>0, <1>17, <2>2 DEF SetReadyDec, EsInv, Canceling, InSetReady
  <2> QED
    BY <2>1, <2>2
<1>18. ASSUME NEW e \in Xstreams,
              Run(e) \/ AfterYield(e) \/ AfterBlock(e) \/ AfterTerminate(e)
                \/ End(e) \/ MigrateThread(e) \/ MigrateDec(e) \/ CancelStart(e)
                \/ CancelRequest(e) \/ CancelLink(e)
       PROVE  PcOK'
  BY <1>0, <1>18 DEF Run, AfterYield, AfterBlock, AfterTerminate, End, MigrateThread, MigrateDec,
       CancelStart, CancelRequest, CancelLink
<1>19. ASSUME NEW e \in Xstreams,
              HasToStop(e) \/ ReadSize(e) \/ ReadMigrations(e) \/ ReadBlocked(e)
                \/ XstreamJoin(e)
       PROVE  PcOK'
  BY <1>0, <1>19 DEF HasToStop, ReadSize, ReadMigrations, ReadBlocked, XstreamJoin
<1>20. CASE UNCHANGED vars
  BY <1>20 DEF vars
<1> HIDE DEF PcOK
<1> QED
  BY <1>1, <1>2, <1>3, <1>4, <1>5, <1>6, <1>7, <1>8, <1>9, <1>10, <1>11, <1>12, <1>13,
    <1>14, <1>15, <1>16, <1>17, <1>18, <1>19, <1>20 DEF Next, EsStep, SchedStep, UserStep,
    RuntimeStep, JoinStep, ExitStep, ExitStart

(* The fields of a ULT.                                                    *)
LEMMA ThreadOKStep ==
  ASSUME ConstantsAssumption, Program, IInv, [Next]_vars
  PROVE  ThreadOK'
<1> USE ConstantsAssumption DEF ConstantsAssumption, IInv, StackOK, PcOK, ThreadOK, MigInv,
  EsInv, Requests, InHand, InSetReady, Goto, At, ToSched, AddRequest, SetBlocked, Pooled,
  Contexts, Handles, Suspended, Migratable, stackVars, threadVars, poolVars, stopVars
<1>1. ASSUME NEW e \in Xstreams, NEW t \in Threads,
             Yield(e, t) \/ Preempt(e, t)
      PROVE  ThreadOK'
  BY <1>1 DEF Yield, Preempt
<1>2. ASSUME NEW e \in Xstreams, NEW t \in Threads, SuspendBlock(e, t) PROVE ThreadOK'
  BY <1>2 DEF SuspendBlock
<1>3. ASSUME NEW e \in Xstreams, NEW t \in Threads,
             ExitJump(e, t) \/ ExitWake(e, t)
      PROVE  ThreadOK'
  BY <1>3 DEF ExitJump, ExitWake
<1>4. ASSUME NEW e \in Xstreams, NEW t \in Threads,
             ExitAlone(e, t) \/ SuspendSwitch(e, t)
      PROVE  ThreadOK'
  BY <1>4 DEF ExitAlone, SuspendSwitch
<1>5. ASSUME NEW e \in Xstreams, NEW t \in Threads, JoinPool(e, t) PROVE ThreadOK'
  BY <1>5 DEF JoinPool
<1>6. ASSUME NEW e \in Xstreams, NEW t \in Threads, JoinBlock(e, t) PROVE ThreadOK'
  BY <1>6 DEF JoinBlock
<1>7. ASSUME NEW e \in Xstreams, NEW t \in Threads, JoinLink(e, t) PROVE ThreadOK'
  BY <1>7 DEF JoinLink
<1>8. ASSUME NEW e \in Xstreams, NEW t \in Threads, JoinRequest(e, t) PROVE ThreadOK'
  <2>1. arg[t] \in Threads
    BY <1>8, JoinTarget DEF JoinRequest, InJoin
  <2> QED
    BY <1>8, <2>1 DEF JoinRequest
<1>9. ASSUME NEW e \in Xstreams, NEW t \in Threads,
             JoinSuspend(e, t) \/ ExitStore(e, t) \/ ExitRequest(e, t)
               \/ ExitLink(e, t)
      PROVE  ThreadOK'
  BY <1>9 DEF JoinSuspend, ExitStore, ExitRequest, ExitLink
<1>10. ASSUME NEW e \in Xstreams, NEW t \in Threads,
              ExitLeave(e, t) \/ YieldToSwitch(e, t) \/ MigrateCount(e, t)
                \/ Pop(e, t)
       PROVE  ThreadOK'
  BY <1>10 DEF ExitLeave, YieldToSwitch, MigrateCount, Pop
<1>11. ASSUME NEW e \in Xstreams, NEW t \in Threads, JoinResumed(e, t) PROVE ThreadOK'
  <2>1. CASE state[t] = "BLOCKED"
    BY <1>11, <2>1 DEF JoinResumed
  <2>2. CASE state[t] # "BLOCKED"
    BY <1>11, <2>2 DEF JoinResumed
  <2> QED
    BY <2>1, <2>2
<1>12. ASSUME NEW e \in Xstreams, NEW t \in Threads, JoinYield(e, t) PROVE ThreadOK'
  <2>1. CASE state[arg[t]] = "TERMINATED"
    BY <1>12, <2>1 DEF JoinYield
  <2>2. CASE state[arg[t]] # "TERMINATED"
    BY <1>12, <2>2 DEF JoinYield
  <2> QED
    BY <2>1, <2>2
<1>13. ASSUME NEW e \in Xstreams, NEW t \in Threads, MigrateRequest(e, t) PROVE ThreadOK'
  <2>1. CASE t = arg[t]
    BY <1>13, <2>1 DEF MigrateRequest
  <2>2. CASE t # arg[t]
    BY <1>13, <2>2 DEF MigrateRequest
  <2> QED
    BY <2>1, <2>2
<1>14. ASSUME NEW e \in Xstreams, NEW t \in Threads, NEW u \in Threads,
              Resume(e, t, u) \/ JoinStart(e, t, u) \/ Cancel(e, t, u)
                \/ YieldToPush(e, t, u)
       PROVE  ThreadOK'
  BY <1>14 DEF Resume, JoinStart, Cancel, YieldToPush
<1>15. ASSUME NEW e \in Xstreams, NEW t \in Threads, NEW u \in Threads, NEW d \in Xstreams,
              MigrateToXstream(e, t, u, d)
       PROVE  ThreadOK'
  BY <1>15 DEF MigrateToXstream
<1>16. ASSUME NEW e \in Xstreams, NEW t \in Threads, NEW u \in Threads, NEW p \in Pools,
              MigrateToPool(e, t, u, p)
       PROVE  ThreadOK'
  BY <1>16 DEF MigrateToPool
<1>17. ASSUME NEW e \in Xstreams, NEW c \in Contexts,
              SetReadySpin(e, c) \/ SetReadyPush(e, c) \/ SetReadyDec(e, c)
       PROVE  ThreadOK'
  BY <1>17 DEF SetReadySpin, SetReadyPush, SetReadyDec
<1>18. ASSUME NEW e \in Xstreams,
              Run(e) \/ AfterYield(e) \/ AfterBlock(e) \/ AfterTerminate(e)
                \/ End(e) \/ MigrateThread(e) \/ MigrateDec(e) \/ CancelStart(e)
                \/ CancelRequest(e) \/ CancelLink(e)
       PROVE  ThreadOK'
  BY <1>18 DEF Run, AfterYield, AfterBlock, AfterTerminate, End, MigrateThread, MigrateDec,
       CancelStart, CancelRequest, CancelLink
<1>19. ASSUME NEW e \in Xstreams,
              HasToStop(e) \/ ReadSize(e) \/ ReadMigrations(e) \/ ReadBlocked(e)
                \/ XstreamJoin(e)
       PROVE  ThreadOK'
  BY <1>19 DEF HasToStop, ReadSize, ReadMigrations, ReadBlocked, XstreamJoin
<1>20. CASE UNCHANGED vars
  BY <1>20 DEF vars
<1> HIDE DEF ThreadOK
<1> QED
  BY <1>1, <1>2, <1>3, <1>4, <1>5, <1>6, <1>7, <1>8, <1>9, <1>10, <1>11, <1>12, <1>13,
    <1>14, <1>15, <1>16, <1>17, <1>18, <1>19, <1>20 DEF Next, EsStep, SchedStep, UserStep,
    RuntimeStep, JoinStep, ExitStep, ExitStart

(* The state of a ULT.                                                     *)
LEMMA StateOKStep ==
  ASSUME ConstantsAssumption, Program, IInv, [Next]_vars
  PROVE  StateOK'
<1> USE ConstantsAssumption DEF ConstantsAssumption, IInv, StackOK, PcOK, StateOK, Goto, At,
  ToSched, AddRequest, SetBlocked, Pooled, Contexts, Handles, Suspended, Migratable,
  stackVars, threadVars, poolVars, stopVars
<1>1. ASSUME NEW e \in Xstreams, NEW t \in Threads,
             Yield(e, t) \/ Preempt(e, t) \/ SuspendBlock(e, t) \/ ExitJump(e, t)
               \/ ExitWake(e, t) \/ ExitAlone(e, t) \/ SuspendSwitch(e, t)
               \/ JoinPool(e, t) \/ JoinRequest(e, t) \/ JoinBlock(e, t)
      PROVE  StateOK'
  BY <1>1 DEF Yield, Preempt, SuspendBlock, ExitJump, ExitWake, ExitAlone, SuspendSwitch, JoinPool,
       JoinRequest, JoinBlock
<1>2. ASSUME NEW e \in Xstreams, NEW t \in Threads,
             JoinLink(e, t) \/ JoinSuspend(e, t) \/ ExitStore(e, t)
               \/ ExitRequest(e, t) \/ ExitLink(e, t) \/ ExitLeave(e, t)
               \/ YieldToSwitch(e, t) \/ MigrateCount(e, t) \/ Pop(e, t)
      PROVE  StateOK'
  BY <1>2 DEF JoinLink, JoinSuspend, ExitStore, ExitRequest, ExitLink, ExitLeave, YieldToSwitch,
       MigrateCount, Pop
<1>3. ASSUME NEW e \in Xstreams, NEW t \in Threads, JoinResumed(e, t) PROVE StateOK'
  <2>1. CASE state[t] = "BLOCKED"
    BY <1>3, <2>1 DEF JoinResumed
  <2>2. CASE state[t] # "BLOCKED"
    BY <1>3, <2>2 DEF JoinResumed
  <2> QED
    BY <2>1, <2>2
<1>4. ASSUME NEW e \in Xstreams, NEW t \in Threads, JoinYield(e, t) PROVE StateOK'
  <2>1. CASE state[arg[t]] = "TERMINATED"
    BY <1>4, <2>1 DEF JoinYield
  <2>2. CASE state[arg[t]] # "TERMINATED"
    BY <1>4, <2>2 DEF JoinYield
  <2> QED
    BY <2>1, <2>2
<1>5. ASSUME NEW e \in Xstreams, NEW t \in Threads, MigrateRequest(e, t) PROVE StateOK'
  <2>1. CASE t = arg[t]
    BY <1>5, <2>1 DEF MigrateRequest
  <2>2. CASE t # arg[t]
    BY <1>5, <2>2 DEF MigrateRequest
  <2> QED
    BY <2>1, <2>2
<1>6. ASSUME NEW e \in Xstreams, NEW t \in Threads, NEW u \in Threads,
             Resume(e, t, u) \/ JoinStart(e, t, u) \/ Cancel(e, t, u)
               \/ YieldToPush(e, t, u)
      PROVE  StateOK'
  BY <1>6 DEF Resume, JoinStart, Cancel, YieldToPush
<1>7. ASSUME NEW e \in Xstreams, NEW t \in Threads, NEW u \in Threads, NEW d \in Xstreams,
             MigrateToXstream(e, t, u, d)
      PROVE  StateOK'
  BY <1>7 DEF MigrateToXstream
<1>8. ASSUME NEW e \in Xstreams, NEW t \in Threads, NEW u \in Threads, NEW p \in Pools,
             MigrateToPool(e, t, u, p)
      PROVE  StateOK'
  BY <1>8 DEF MigrateToPool
<1>9. ASSUME NEW e \in Xstreams, NEW c \in Contexts,
             SetReadySpin(e, c) \/ SetReadyPush(e, c) \/ SetReadyDec(e, c)
      PROVE  StateOK'
  BY <1>9 DEF SetReadySpin, SetReadyPush, SetReadyDec
<1>10. ASSUME NEW e \in Xstreams,
              Run(e) \/ AfterYield(e) \/ AfterBlock(e) \/ AfterTerminate(e)
                \/ End(e) \/ MigrateThread(e) \/ MigrateDec(e) \/ CancelStart(e)
                \/ CancelRequest(e) \/ CancelLink(e)
       PROVE  StateOK'
  BY <1>10 DEF Run, AfterYield, AfterBlock, AfterTerminate, End, MigrateThread, MigrateDec,
       CancelStart, CancelRequest, CancelLink
<1>11. ASSUME NEW e \in Xstreams,
              HasToStop(e) \/ ReadSize(e) \/ ReadMigrations(e) \/ ReadBlocked(e)
                \/ XstreamJoin(e)
       PROVE  StateOK'
  BY <1>11 DEF HasToStop, ReadSize, ReadMigrations, ReadBlocked, XstreamJoin
<1>12. CASE UNCHANGED vars
  BY <1>12 DEF vars
<1> HIDE DEF StateOK
<1> QED
  BY <1>1, <1>2, <1>3, <1>4, <1>5, <1>6, <1>7, <1>8, <1>9, <1>10, <1>11, <1>12 DEF Next,
    EsStep, SchedStep, UserStep, RuntimeStep, JoinStep, ExitStep, ExitStart

(* The pools and their counts.                                             *)
LEMMA CountOKStep ==
  ASSUME ConstantsAssumption, Program, IInv, [Next]_vars
  PROVE  CountOK'
<1> USE ConstantsAssumption DEF ConstantsAssumption, IInv, StackOK, PcOK, CountOK, ThreadOK,
  Goto, At, ToSched, AddRequest, SetBlocked, Pooled, Contexts, Handles, Suspended,
  Migratable, stackVars, threadVars, poolVars, stopVars
<1>1. ASSUME NEW e \in Xstreams, NEW t \in Threads,
             Yield(e, t) \/ Preempt(e, t) \/ SuspendBlock(e, t) \/ ExitJump(e, t)
               \/ ExitWake(e, t) \/ ExitAlone(e, t) \/ SuspendSwitch(e, t)
               \/ JoinRequest(e, t) \/ JoinBlock(e, t) \/ JoinLink(e, t)
      PROVE  CountOK'
  BY <1>1 DEF Yield, Preempt, SuspendBlock, ExitJump, ExitWake, ExitAlone, SuspendSwitch,
       JoinRequest, JoinBlock, JoinLink
<1>2. ASSUME NEW e \in Xstreams, NEW t \in Threads, JoinPool(e, t) PROVE CountOK'
  <2>1. num_blocked' = [num_blocked EXCEPT ![p_pool[t]] = @ + 1] /\ UNCHANGED num_migrations
    BY <1>2 DEF JoinPool
  <2>2. pool' = [pool EXCEPT ![p_pool[arg[t]]] = @ \ {arg[t]}]
    BY <1>2 DEF JoinPool
  <2>3. num_blocked' \in [Pools -> Int]
    BY <2>1
  <2>4. pool' \in [Pools -> SUBSET Threads]
    BY <2>2
  <2> QED
    BY <2>1, <2>3, <2>4
<1>3. ASSUME NEW e \in Xstreams, NEW t \in Threads,
             JoinSuspend(e, t) \/ ExitStore(e, t) \/ ExitRequest(e, t)
               \/ ExitLink(e, t)
      PROVE  CountOK'
  BY <1>3 DEF JoinSuspend, ExitStore, ExitRequest, ExitLink
<1>4. ASSUME NEW e \in Xstreams, NEW t \in Threads,
             ExitLeave(e, t) \/ YieldToSwitch(e, t) \/ Pop(e, t)
      PROVE  CountOK'
  BY <1>4 DEF ExitLeave, YieldToSwitch, Pop
<1>5. ASSUME NEW e \in Xstreams, NEW t \in Threads, JoinResumed(e, t) PROVE CountOK'
  <2>1. CASE state[t] = "BLOCKED"
    BY <1>5, <2>1 DEF JoinResumed
  <2>2. CASE state[t] # "BLOCKED"
    BY <1>5, <2>2 DEF JoinResumed
  <2> QED
    BY <2>1, <2>2
<1>6. ASSUME NEW e \in Xstreams, NEW t \in Threads, JoinYield(e, t) PROVE CountOK'
  <2>1. CASE state[arg[t]] = "TERMINATED"
    BY <1>6, <2>1 DEF JoinYield
  <2>2. CASE state[arg[t]] # "TERMINATED"
    BY <1>6, <2>2 DEF JoinYield
  <2> QED
    BY <2>1, <2>2
<1>7. ASSUME NEW e \in Xstreams, NEW t \in Threads, MigrateRequest(e, t) PROVE CountOK'
  <2>1. CASE t = arg[t]
    BY <1>7, <2>1 DEF MigrateRequest
  <2>2. CASE t # arg[t]
    BY <1>7, <2>2 DEF MigrateRequest
  <2> QED
    BY <2>1, <2>2
<1>8. ASSUME NEW e \in Xstreams, NEW t \in Threads, MigrateCount(e, t) PROVE CountOK'
  <2>1. \A p \in Pools : num_migrations'[p] \in Int
    BY <1>8 DEF MigrateCount
  <2> QED
    BY <1>8, <2>1 DEF MigrateCount
<1>9. ASSUME NEW e \in Xstreams, NEW t \in Threads, NEW u \in Threads,
             Resume(e, t, u) \/ JoinStart(e, t, u) \/ Cancel(e, t, u)
               \/ YieldToPush(e, t, u)
      PROVE  CountOK'
  BY <1>9 DEF Resume, JoinStart, Cancel, YieldToPush
<1>10. ASSUME NEW e \in Xstreams, NEW t \in Threads, NEW u \in Threads, NEW d \in Xstreams,
              MigrateToXstream(e, t, u, d)
       PROVE  CountOK'
  BY <1>10 DEF MigrateToXstream
<1>11. ASSUME NEW e \in Xstreams, NEW t \in Threads, NEW u \in Threads, NEW p \in Pools,
              MigrateToPool(e, t, u, p)
       PROVE  CountOK'
  BY <1>11 DEF MigrateToPool
<1>12. ASSUME NEW e \in Xstreams, NEW c \in Contexts, SetReadySpin(e, c) PROVE CountOK'
  BY <1>12 DEF SetReadySpin
<1>13. ASSUME NEW e \in Xstreams, NEW c \in Contexts, SetReadyPush(e, c) PROVE CountOK'
  <2>1. Woken(c) \in Threads
    BY <1>13 DEF SetReadyPush, WakeInv, WokenBy
  <2>2. \A p \in Pools : pool'[p] \subseteq Threads
    BY <1>13, <2>1 DEF SetReadyPush
  <2> QED
    BY <1>13, <2>2 DEF SetReadyPush
<1>14. ASSUME NEW e \in Xstreams, NEW c \in Contexts, SetReadyDec(e, c) PROVE CountOK'
  <2>1. \A p \in Pools : num_blocked'[p] \in Int
    BY <1>14 DEF SetReadyDec
  <2> QED
    BY <1>14, <2>1 DEF SetReadyDec
<1>15. ASSUME NEW e \in Xstreams,
              Run(e) \/ AfterBlock(e) \/ AfterTerminate(e) \/ End(e)
                \/ CancelStart(e) \/ CancelRequest(e) \/ CancelLink(e) \/ HasToStop(e)
                \/ ReadSize(e) \/ ReadMigrations(e)
       PROVE  CountOK'
  BY <1>15 DEF Run, AfterBlock, AfterTerminate, End, CancelStart, CancelRequest, CancelLink,
       HasToStop, ReadSize, ReadMigrations
<1>16. ASSUME NEW e \in Xstreams, AfterYield(e) PROVE CountOK'
  <2>1. arg[e] \in Threads
    BY <1>16, HandTarget DEF AfterYield, InHand
  <2> QED
    BY <1>16, <2>1 DEF AfterYield
<1>17. ASSUME NEW e \in Xstreams, MigrateThread(e) PROVE CountOK'
  <2>1. arg[e] \in Threads
    BY <1>17, HandTarget DEF MigrateThread, InHand
  <2>2. \A p \in Pools : pool'[p] \subseteq Threads
    BY <1>17, <2>1 DEF MigrateThread
  <2> QED
    BY <1>17, <2>2 DEF MigrateThread
<1>18. ASSUME NEW e \in Xstreams, MigrateDec(e) PROVE CountOK'
  <2>1. \A p \in Pools : num_migrations'[p] \in Int
    BY <1>18 DEF MigrateDec
  <2> QED
    BY <1>18, <2>1 DEF MigrateDec
<1>19. ASSUME NEW e \in Xstreams,
              ReadBlocked(e) \/ XstreamJoin(e)
       PROVE  CountOK'
  BY <1>19 DEF ReadBlocked, XstreamJoin
<1>20. CASE UNCHANGED vars
  BY <1>20 DEF vars
<1> HIDE DEF CountOK
<1> QED
  BY <1>1, <1>2, <1>3, <1>4, <1>5, <1>6, <1>7, <1>8, <1>9, <1>10, <1>11, <1>12, <1>13,
    <1>14, <1>15, <1>16, <1>17, <1>18, <1>19, <1>20 DEF Next, EsStep, SchedStep, UserStep,
    RuntimeStep, JoinStep, ExitStep, ExitStart

(* What a scheduler that stops reads.                                      *)
LEMMA StopOKStep ==
  ASSUME ConstantsAssumption, Program, IInv, [Next]_vars
  PROVE  StopOK'
<1> USE ConstantsAssumption DEF ConstantsAssumption, IInv, StopOK, PcOK, Goto, At, ToSched,
  AddRequest, SetBlocked, Pooled, Contexts, Handles, Suspended, Migratable, stackVars,
  threadVars, poolVars, stopVars
<1>1. ASSUME NEW e \in Xstreams, NEW t \in Threads,
             Yield(e, t) \/ Preempt(e, t) \/ SuspendBlock(e, t) \/ ExitJump(e, t)
               \/ ExitWake(e, t) \/ ExitAlone(e, t) \/ SuspendSwitch(e, t)
               \/ JoinPool(e, t) \/ JoinRequest(e, t) \/ JoinBlock(e, t)
      PROVE  StopOK'
  BY <1>1 DEF Yield, Preempt, SuspendBlock, ExitJump, ExitWake, ExitAlone, SuspendSwitch, JoinPool,
       JoinRequest, JoinBlock
<1>2. ASSUME NEW e \in Xstreams, NEW t \in Threads,
             JoinLink(e, t) \/ JoinSuspend(e, t) \/ ExitStore(e, t)
               \/ ExitRequest(e, t) \/ ExitLink(e, t) \/ ExitLeave(e, t)
               \/ YieldToSwitch(e, t) \/ MigrateCount(e, t) \/ Pop(e, t)
      PROVE  StopOK'
  BY <1>2 DEF JoinLink, JoinSuspend, ExitStore, ExitRequest, ExitLink, ExitLeave, YieldToSwitch,
       MigrateCount, Pop
<1>3. ASSUME NEW e \in Xstreams, NEW t \in Threads, JoinResumed(e, t) PROVE StopOK'
  <2>1. CASE state[t] = "BLOCKED"
    BY <1>3, <2>1 DEF JoinResumed
  <2>2. CASE state[t] # "BLOCKED"
    BY <1>3, <2>2 DEF JoinResumed
  <2> QED
    BY <2>1, <2>2
<1>4. ASSUME NEW e \in Xstreams, NEW t \in Threads, JoinYield(e, t) PROVE StopOK'
  <2>1. CASE state[arg[t]] = "TERMINATED"
    BY <1>4, <2>1 DEF JoinYield
  <2>2. CASE state[arg[t]] # "TERMINATED"
    BY <1>4, <2>2 DEF JoinYield
  <2> QED
    BY <2>1, <2>2
<1>5. ASSUME NEW e \in Xstreams, NEW t \in Threads, MigrateRequest(e, t) PROVE StopOK'
  <2>1. CASE t = arg[t]
    BY <1>5, <2>1 DEF MigrateRequest
  <2>2. CASE t # arg[t]
    BY <1>5, <2>2 DEF MigrateRequest
  <2> QED
    BY <2>1, <2>2
<1>6. ASSUME NEW e \in Xstreams, NEW t \in Threads, NEW u \in Threads,
             Resume(e, t, u) \/ JoinStart(e, t, u) \/ Cancel(e, t, u)
               \/ YieldToPush(e, t, u)
      PROVE  StopOK'
  BY <1>6 DEF Resume, JoinStart, Cancel, YieldToPush
<1>7. ASSUME NEW e \in Xstreams, NEW t \in Threads, NEW u \in Threads, NEW d \in Xstreams,
             MigrateToXstream(e, t, u, d)
      PROVE  StopOK'
  BY <1>7 DEF MigrateToXstream
<1>8. ASSUME NEW e \in Xstreams, NEW t \in Threads, NEW u \in Threads, NEW p \in Pools,
             MigrateToPool(e, t, u, p)
      PROVE  StopOK'
  BY <1>8 DEF MigrateToPool
<1>9. ASSUME NEW e \in Xstreams, NEW c \in Contexts,
             SetReadySpin(e, c) \/ SetReadyPush(e, c) \/ SetReadyDec(e, c)
      PROVE  StopOK'
  BY <1>9 DEF SetReadySpin, SetReadyPush, SetReadyDec
<1>10. ASSUME NEW e \in Xstreams,
              Run(e) \/ AfterYield(e) \/ AfterBlock(e) \/ AfterTerminate(e)
                \/ End(e) \/ MigrateThread(e) \/ MigrateDec(e) \/ CancelStart(e)
                \/ CancelRequest(e) \/ CancelLink(e)
       PROVE  StopOK'
  BY <1>10 DEF Run, AfterYield, AfterBlock, AfterTerminate, End, MigrateThread, MigrateDec,
       CancelStart, CancelRequest, CancelLink
<1>11. ASSUME NEW e \in Xstreams,
              HasToStop(e) \/ ReadBlocked(e) \/ XstreamJoin(e)
       PROVE  StopOK'
  BY <1>11 DEF HasToStop, ReadBlocked, XstreamJoin
<1>12. ASSUME NEW e \in Xstreams, ReadSize(e) PROVE StopOK'
  <2>1. Cardinality(pool[SchedPool[e]]) \in Int
    BY FS_Subset, FS_CardinalityType DEF CountOK
  <2> QED
    BY <1>12, <2>1 DEF ReadSize
<1>13. ASSUME NEW e \in Xstreams, ReadMigrations(e) PROVE StopOK'
  <2>1. seen[e] + num_migrations[SchedPool[e]] \in Int
    BY DEF CountOK, StopOK
  <2> QED
    BY <1>13, <2>1 DEF ReadMigrations
<1>14. CASE UNCHANGED vars
  BY <1>14 DEF vars
<1> HIDE DEF StopOK
<1> QED
  BY <1>1, <1>2, <1>3, <1>4, <1>5, <1>6, <1>7, <1>8, <1>9, <1>10, <1>11, <1>12, <1>13, <1>14
    DEF Next, EsStep, SchedStep, UserStep, RuntimeStep, JoinStep, ExitStep, ExitStart

(* An ES that executes a ULT has its scheduler in ABTI_xstream_run_thread. *)
LEMMA EsInvStep ==
  ASSUME ConstantsAssumption, Program, IInv, [Next]_vars
  PROVE  EsInv'
<1> USE ConstantsAssumption DEF ConstantsAssumption, IInv, StackOK, PcOK, ThreadOK, RetOK,
  EsInv, RunInv, RunsOn, JoinInv, Joining, HandInv, HeldBy, PoolInv, InPool, CountOK,
  YieldInv, YieldingAt, Hand, Canceling, InStop, InJoin, InHand, InSetReady, Goto, At,
  ToSched, AddRequest, SetBlocked, Pooled, Contexts, Handles, Suspended, Migratable,
  stackVars, threadVars, poolVars, stopVars
<1>1. ASSUME NEW e \in Xstreams, NEW t \in Threads,
             Yield(e, t) \/ Preempt(e, t) \/ SuspendBlock(e, t) \/ ExitJump(e, t)
               \/ ExitWake(e, t) \/ ExitAlone(e, t) \/ SuspendSwitch(e, t)
               \/ JoinPool(e, t) \/ JoinRequest(e, t) \/ JoinBlock(e, t)
      PROVE  EsInv'
  BY <1>1 DEF Yield, Preempt, SuspendBlock, ExitJump, ExitWake, ExitAlone, SuspendSwitch, JoinPool,
       JoinRequest, JoinBlock
<1>2. ASSUME NEW e \in Xstreams, NEW t \in Threads,
             JoinLink(e, t) \/ JoinSuspend(e, t) \/ JoinResumed(e, t)
               \/ JoinYield(e, t) \/ ExitStore(e, t) \/ ExitRequest(e, t)
               \/ ExitLink(e, t) \/ ExitLeave(e, t) \/ YieldToSwitch(e, t)
               \/ MigrateRequest(e, t)
      PROVE  EsInv'
  BY <1>2 DEF JoinLink, JoinSuspend, JoinResumed, JoinYield, ExitStore, ExitRequest, ExitLink,
       ExitLeave, YieldToSwitch, MigrateRequest
<1>3. ASSUME NEW e \in Xstreams, NEW t \in Threads, MigrateCount(e, t) PROVE EsInv'
  BY <1>3 DEF MigrateCount
<1>4. ASSUME NEW e \in Xstreams, NEW t \in Threads, Pop(e, t) PROVE EsInv'
  BY <1>4 DEF Pop
<1>5. ASSUME NEW e \in Xstreams, NEW t \in Threads, NEW u \in Threads,
             Resume(e, t, u) \/ JoinStart(e, t, u) \/ Cancel(e, t, u)
               \/ YieldToPush(e, t, u)
      PROVE  EsInv'
  BY <1>5 DEF Resume, JoinStart, Cancel, YieldToPush
<1>6. ASSUME NEW e \in Xstreams, NEW t \in Threads, NEW u \in Threads, NEW d \in Xstreams,
             MigrateToXstream(e, t, u, d)
      PROVE  EsInv'
  BY <1>6 DEF MigrateToXstream
<1>7. ASSUME NEW e \in Xstreams, NEW t \in Threads, NEW u \in Threads, NEW p \in Pools,
             MigrateToPool(e, t, u, p)
      PROVE  EsInv'
  BY <1>7 DEF MigrateToPool
<1>8. ASSUME NEW e \in Xstreams, NEW c \in Contexts,
             SetReadySpin(e, c) \/ SetReadyPush(e, c) \/ SetReadyDec(e, c)
      PROVE  EsInv'
  BY <1>8 DEF SetReadySpin, SetReadyPush, SetReadyDec
<1>9. ASSUME NEW e \in Xstreams,
             Run(e) \/ AfterYield(e) \/ AfterBlock(e) \/ AfterTerminate(e)
               \/ End(e) \/ MigrateThread(e) \/ MigrateDec(e) \/ CancelStart(e)
               \/ CancelRequest(e) \/ CancelLink(e)
      PROVE  EsInv'
  BY <1>9 DEF Run, AfterYield, AfterBlock, AfterTerminate, End, MigrateThread, MigrateDec,
       CancelStart, CancelRequest, CancelLink
<1>10. ASSUME NEW e \in Xstreams,
              HasToStop(e) \/ ReadSize(e) \/ ReadMigrations(e) \/ ReadBlocked(e)
                \/ XstreamJoin(e)
       PROVE  EsInv'
  BY <1>10 DEF HasToStop, ReadSize, ReadMigrations, ReadBlocked, XstreamJoin
<1>11. CASE UNCHANGED vars
  BY <1>11 DEF vars
<1> HIDE DEF EsInv
<1> QED
  BY <1>1, <1>2, <1>3, <1>4, <1>5, <1>6, <1>7, <1>8, <1>9, <1>10, <1>11 DEF Next, EsStep,
    SchedStep, UserStep, RuntimeStep, JoinStep, ExitStep, ExitStart

(* A ULT is on its ES wherever it cannot be descheduled.                   *)
LEMMA LabelInvStep ==
  ASSUME ConstantsAssumption, Program, IInv, [Next]_vars
  PROVE  LabelInv'
<1> USE ConstantsAssumption DEF ConstantsAssumption, IInv, StackOK, PcOK, ThreadOK, EsInv,
  LabelInv, RunInv, RunsOn, On, Off, InHand, InSetReady, Goto, At, ToSched, AddRequest,
  SetBlocked, Pooled, Contexts, Handles, Suspended, Migratable, stackVars, threadVars,
  poolVars, stopVars
<1>1. ASSUME NEW e \in Xstreams, NEW t \in Threads,
             Yield(e, t) \/ Preempt(e, t) \/ SuspendBlock(e, t) \/ ExitJump(e, t)
               \/ ExitWake(e, t) \/ ExitAlone(e, t) \/ SuspendSwitch(e, t)
               \/ JoinPool(e, t) \/ JoinRequest(e, t) \/ JoinBlock(e, t)
      PROVE  LabelInv'
  BY <1>1 DEF Yield, Preempt, SuspendBlock, ExitJump, ExitWake, ExitAlone, SuspendSwitch, JoinPool,
       JoinRequest, JoinBlock
<1>2. ASSUME NEW e \in Xstreams, NEW t \in Threads,
             JoinLink(e, t) \/ JoinSuspend(e, t) \/ ExitStore(e, t)
               \/ ExitRequest(e, t) \/ ExitLink(e, t)
      PROVE  LabelInv'
  BY <1>2 DEF JoinLink, JoinSuspend, ExitStore, ExitRequest, ExitLink
<1>3. ASSUME NEW e \in Xstreams, NEW t \in Threads,
             ExitLeave(e, t) \/ YieldToSwitch(e, t) \/ MigrateCount(e, t)
               \/ Pop(e, t)
      PROVE  LabelInv'
  BY <1>3 DEF ExitLeave, YieldToSwitch, MigrateCount, Pop
<1>4. ASSUME NEW e \in Xstreams, NEW t \in Threads, JoinResumed(e, t) PROVE LabelInv'
  <2>1. \E l \in {"user", "join.yield"} : pc' = [pc EXCEPT ![t] = l]
    BY <1>4 DEF JoinResumed
  <2>2. UNCHANGED <<cur, p_last_xstream>>
    BY <1>4 DEF JoinResumed
  <2> QED
    BY <2>1, <2>2
<1>5. ASSUME NEW e \in Xstreams, NEW t \in Threads, JoinYield(e, t) PROVE LabelInv'
  <2>1. cur[e] = t /\ UNCHANGED p_last_xstream
    BY <1>5 DEF JoinYield
  <2>2. CASE state[arg[t]] = "TERMINATED"
    <3>1. pc' = [pc EXCEPT ![t] = "user"] /\ UNCHANGED cur
      BY <1>5, <2>2 DEF JoinYield
    <3> QED
      BY <2>1, <3>1
  <2>3. CASE state[arg[t]] # "TERMINATED"
    <3>1. pc' = [pc EXCEPT ![t] = "join.yield", ![e] = "after"] /\ cur' = [cur EXCEPT ![e] = e]
      BY <1>5, <2>3 DEF JoinYield
    <3> QED
      BY <2>1, <3>1
  <2> QED
    BY <2>2, <2>3
<1>6. ASSUME NEW e \in Xstreams, NEW t \in Threads, MigrateRequest(e, t) PROVE LabelInv'
  <2>1. cur[e] = t /\ UNCHANGED p_last_xstream
    BY <1>6 DEF MigrateRequest
  <2>2. CASE t = arg[t]
    <3>1. /\ \E l \in {"user", "mig.count"} : pc' = [pc EXCEPT ![t] = l, ![e] = "after"]
          /\ cur' = [cur EXCEPT ![e] = e]
      BY <1>6, <2>2 DEF MigrateRequest
    <3> QED
      BY <2>1, <3>1
  <2>3. CASE t # arg[t]
    <3>1. (\E l \in {"user", "mig.count"} : pc' = [pc EXCEPT ![t] = l]) /\ UNCHANGED cur
      BY <1>6, <2>3 DEF MigrateRequest
    <3> QED
      BY <2>1, <3>1
  <2> QED
    BY <2>2, <2>3
<1>7. ASSUME NEW e \in Xstreams, NEW t \in Threads, NEW u \in Threads,
             Resume(e, t, u) \/ JoinStart(e, t, u) \/ Cancel(e, t, u)
               \/ YieldToPush(e, t, u)
      PROVE  LabelInv'
  BY <1>7 DEF Resume, JoinStart, Cancel, YieldToPush
<1>8. ASSUME NEW e \in Xstreams, NEW t \in Threads, NEW u \in Threads, NEW d \in Xstreams,
             MigrateToXstream(e, t, u, d)
      PROVE  LabelInv'
  BY <1>8 DEF MigrateToXstream
<1>9. ASSUME NEW e \in Xstreams, NEW t \in Threads, NEW u \in Threads, NEW p \in Pools,
             MigrateToPool(e, t, u, p)
      PROVE  LabelInv'
  BY <1>9 DEF MigrateToPool
<1>10. ASSUME NEW e \in Xstreams, NEW c \in Contexts,
              SetReadySpin(e, c) \/ SetReadyPush(e, c) \/ SetReadyDec(e, c)
       PROVE  LabelInv'
  BY <1>10 DEF SetReadySpin, SetReadyPush, SetReadyDec
<1>11. ASSUME NEW e \in Xstreams,
              Run(e) \/ AfterYield(e) \/ AfterBlock(e) \/ AfterTerminate(e)
                \/ End(e) \/ MigrateThread(e) \/ MigrateDec(e) \/ CancelStart(e)
                \/ CancelRequest(e) \/ CancelLink(e)
       PROVE  LabelInv'
  BY <1>11 DEF Run, AfterYield, AfterBlock, AfterTerminate, End, MigrateThread, MigrateDec,
       CancelStart, CancelRequest, CancelLink
<1>12. ASSUME NEW e \in Xstreams,
              HasToStop(e) \/ ReadSize(e) \/ ReadMigrations(e) \/ ReadBlocked(e)
                \/ XstreamJoin(e)
       PROVE  LabelInv'
  BY <1>12 DEF HasToStop, ReadSize, ReadMigrations, ReadBlocked, XstreamJoin
<1>13. CASE UNCHANGED vars
  BY <1>13 DEF vars
<1> HIDE DEF LabelInv
<1> QED
  BY <1>1, <1>2, <1>3, <1>4, <1>5, <1>6, <1>7, <1>8, <1>9, <1>10, <1>11, <1>12, <1>13 DEF
    Next, EsStep, SchedStep, UserStep, RuntimeStep, JoinStep, ExitStep, ExitStart

(* A ULT is asked to migrate by one other at a time.                       *)
LEMMA MigInvStep ==
  ASSUME ConstantsAssumption, Program, IInv, [Next]_vars
  PROVE  MigInv'
<1> USE ConstantsAssumption DEF ConstantsAssumption, IInv, StackOK, PcOK, ThreadOK, RetOK,
  MigInv, LabelInv, RunInv, RunsOn, On, Off, InHand, InSetReady, Goto, At, ToSched,
  AddRequest, SetBlocked, Pooled, Contexts, Handles, Suspended, Migratable, stackVars,
  threadVars, poolVars, stopVars
<1>1. ASSUME NEW e \in Xstreams, NEW t \in Threads, Yield(e, t) PROVE MigInv'
  BY <1>1 DEF Yield
<1>2. ASSUME NEW e \in Xstreams, NEW t \in Threads, Preempt(e, t) PROVE MigInv'
  BY <1>2 DEF Preempt
<1>3. ASSUME NEW e \in Xstreams, NEW t \in Threads, SuspendBlock(e, t) PROVE MigInv'
  BY <1>3 DEF SuspendBlock
<1>4. ASSUME NEW e \in Xstreams, NEW t \in Threads, ExitJump(e, t) PROVE MigInv'
  BY <1>4 DEF ExitJump
<1>5. ASSUME NEW e \in Xstreams, NEW t \in Threads, ExitWake(e, t) PROVE MigInv'
  BY <1>5 DEF ExitWake
<1>6. ASSUME NEW e \in Xstreams, NEW t \in Threads, ExitAlone(e, t) PROVE MigInv'
  BY <1>6 DEF ExitAlone
<1>7. ASSUME NEW e \in Xstreams, NEW t \in Threads, SuspendSwitch(e, t) PROVE MigInv'
  BY <1>7 DEF SuspendSwitch
<1>8. ASSUME NEW e \in Xstreams, NEW t \in Threads, JoinPool(e, t) PROVE MigInv'
  BY <1>8 DEF JoinPool
<1>9. ASSUME NEW e \in Xstreams, NEW t \in Threads, JoinRequest(e, t) PROVE MigInv'
  BY <1>9 DEF JoinRequest
<1>10. ASSUME NEW e \in Xstreams, NEW t \in Threads, JoinBlock(e, t) PROVE MigInv'
  BY <1>10 DEF JoinBlock
<1>11. ASSUME NEW e \in Xstreams, NEW t \in Threads,
              JoinLink(e, t) \/ JoinSuspend(e, t) \/ ExitStore(e, t)
       PROVE  MigInv'
  BY <1>11 DEF JoinLink, JoinSuspend, ExitStore
<1>12. ASSUME NEW e \in Xstreams, NEW t \in Threads, ExitRequest(e, t) PROVE MigInv'
  BY <1>12 DEF ExitRequest
<1>13. ASSUME NEW e \in Xstreams, NEW t \in Threads, ExitLink(e, t) PROVE MigInv'
  BY <1>13 DEF ExitLink
<1>14. ASSUME NEW e \in Xstreams, NEW t \in Threads,
              ExitLeave(e, t) \/ YieldToSwitch(e, t) \/ MigrateCount(e, t)
                \/ Pop(e, t)
       PROVE  MigInv'
  BY <1>14 DEF ExitLeave, YieldToSwitch, MigrateCount, Pop
<1>15. ASSUME NEW e \in Xstreams, NEW t \in Threads, JoinResumed(e, t) PROVE MigInv'
  <2>1. CASE state[t] = "BLOCKED"
    BY <1>15, <2>1 DEF JoinResumed
  <2>2. CASE state[t] # "BLOCKED"
    BY <1>15, <2>2 DEF JoinResumed
  <2> QED
    BY <2>1, <2>2
<1>16. ASSUME NEW e \in Xstreams, NEW t \in Threads, JoinYield(e, t) PROVE MigInv'
  <2>1. CASE state[arg[t]] = "TERMINATED"
    BY <1>16, <2>1 DEF JoinYield
  <2>2. CASE state[arg[t]] # "TERMINATED"
    <3>1. /\ pc' = [pc EXCEPT ![t] = "join.yield", ![e] = "after"] /\ arg' = [arg EXCEPT ![e] = t]
          /\ UNCHANGED <<from, request, mig>>
      BY <1>16, <2>2 DEF JoinYield
    <3> QED
      BY <3>1
  <2> QED
    BY <2>1, <2>2
<1>17. ASSUME NEW e \in Xstreams, NEW t \in Threads, MigrateRequest(e, t) PROVE MigInv'
  <2>1. CASE t = arg[t]
    BY <1>17, <2>1 DEF MigrateRequest
  <2>2. CASE t # arg[t]
    BY <1>17, <2>2 DEF MigrateRequest
  <2> QED
    BY <2>1, <2>2
<1>18. ASSUME NEW e \in Xstreams, NEW t \in Threads, NEW u \in Threads, Resume(e, t, u)
       PROVE  MigInv'
  BY <1>18 DEF Resume
<1>19. ASSUME NEW e \in Xstreams, NEW t \in Threads, NEW u \in Threads, JoinStart(e, t, u)
       PROVE  MigInv'
  BY <1>19 DEF JoinStart
<1>20. ASSUME NEW e \in Xstreams, NEW t \in Threads, NEW u \in Threads, Cancel(e, t, u)
       PROVE  MigInv'
  BY <1>20 DEF Cancel
<1>21. ASSUME NEW e \in Xstreams, NEW t \in Threads, NEW u \in Threads, YieldToPush(e, t, u)
       PROVE  MigInv'
  BY <1>21 DEF YieldToPush
<1>22. ASSUME NEW e \in Xstreams, NEW t \in Threads, NEW u \in Threads, NEW d \in Xstreams,
              MigrateToXstream(e, t, u, d)
       PROVE  MigInv'
  BY <1>22 DEF MigrateToXstream
<1>23. ASSUME NEW e \in Xstreams, NEW t \in Threads, NEW u \in Threads, NEW p \in Pools,
              MigrateToPool(e, t, u, p)
       PROVE  MigInv'
  BY <1>23 DEF MigrateToPool
<1>24. ASSUME NEW e \in Xstreams, NEW c \in Contexts,
              SetReadySpin(e, c) \/ SetReadyPush(e, c) \/ SetReadyDec(e, c)
       PROVE  MigInv'
  BY <1>24 DEF SetReadySpin, SetReadyPush, SetReadyDec
<1>25. ASSUME NEW e \in Xstreams,
              Run(e) \/ AfterYield(e) \/ AfterBlock(e)
       PROVE  MigInv'
  BY <1>25 DEF Run, AfterYield, AfterBlock
<1>26. ASSUME NEW e \in Xstreams,
              AfterTerminate(e) \/ End(e)
       PROVE  MigInv'
  BY <1>26 DEF AfterTerminate, End
<1>27. ASSUME NEW e \in Xstreams,
              MigrateThread(e) \/ MigrateDec(e)
       PROVE  MigInv'
  BY <1>27 DEF MigrateThread, MigrateDec
<1>28. ASSUME NEW e \in Xstreams, CancelStart(e) PROVE MigInv'
  BY <1>28 DEF CancelStart
<1>29. ASSUME NEW e \in Xstreams, CancelRequest(e) PROVE MigInv'
  BY <1>29 DEF CancelRequest
<1>30. ASSUME NEW e \in Xstreams, CancelLink(e) PROVE MigInv'
  BY <1>30 DEF CancelLink
<1>31. ASSUME NEW e \in Xstreams,
              HasToStop(e) \/ ReadSize(e) \/ ReadMigrations(e) \/ ReadBlocked(e)
                \/ XstreamJoin(e)
       PROVE  MigInv'
  BY <1>31 DEF HasToStop, ReadSize, ReadMigrations, ReadBlocked, XstreamJoin
<1>32. CASE UNCHANGED vars
  BY <1>32 DEF vars
<1> HIDE DEF MigInv
<1> QED
  BY <1>1, <1>2, <1>3, <1>4, <1>5, <1>6, <1>7, <1>8, <1>9, <1>10, <1>11, <1>12, <1>13,
    <1>14, <1>15, <1>16, <1>17, <1>18, <1>19, <1>20, <1>21, <1>22, <1>23, <1>24, <1>25,
    <1>26, <1>27, <1>28, <1>29, <1>30, <1>31, <1>32 DEF Next, EsStep, SchedStep, UserStep,
    RuntimeStep, JoinStep, ExitStep, ExitStart

(* A ULT has let its joiner know before it ends, or has none.              *)
LEMMA EndInvStep ==
  ASSUME ConstantsAssumption, Program, IInv, [Next]_vars
  PROVE  EndInv'
<1> USE ConstantsAssumption DEF ConstantsAssumption, IInv, StackOK, PcOK, ThreadOK, RetOK,
  StateOK, EsInv, EndInv, Woke, WakeInv, WokenBy, HandInv, HeldBy, RunInv, RunsOn, Hand,
  Cancelled, Ender, Woken, Resumer, InHand, InSetReady, Goto, At, ToSched, AddRequest,
  SetBlocked, Pooled, Contexts, Handles, Suspended, Migratable, stackVars, threadVars,
  poolVars, stopVars
<1>1. ASSUME NEW e \in Xstreams, NEW t \in Threads, Yield(e, t) PROVE EndInv'
  BY <1>1 DEF Yield
<1>2. ASSUME NEW e \in Xstreams, NEW t \in Threads, Preempt(e, t) PROVE EndInv'
  BY <1>2 DEF Preempt
<1>3. ASSUME NEW e \in Xstreams, NEW t \in Threads, SuspendBlock(e, t) PROVE EndInv'
  BY <1>3 DEF SuspendBlock
<1>4. ASSUME NEW e \in Xstreams, NEW t \in Threads, ExitJump(e, t) PROVE EndInv'
  BY <1>4 DEF ExitJump
<1>5. ASSUME NEW e \in Xstreams, NEW t \in Threads, ExitWake(e, t) PROVE EndInv'
  BY <1>5 DEF ExitWake
<1>6. ASSUME NEW e \in Xstreams, NEW t \in Threads, ExitAlone(e, t) PROVE EndInv'
  BY <1>6 DEF ExitAlone
<1>7. ASSUME NEW e \in Xstreams, NEW t \in Threads, SuspendSwitch(e, t) PROVE EndInv'
  BY <1>7 DEF SuspendSwitch
<1>8. ASSUME NEW e \in Xstreams, NEW t \in Threads, JoinPool(e, t) PROVE EndInv'
  BY <1>8 DEF JoinPool
<1>9. ASSUME NEW e \in Xstreams, NEW t \in Threads, JoinRequest(e, t) PROVE EndInv'
  BY <1>9 DEF JoinRequest
<1>10. ASSUME NEW e \in Xstreams, NEW t \in Threads, JoinBlock(e, t) PROVE EndInv'
  BY <1>10 DEF JoinBlock
<1>11. ASSUME NEW e \in Xstreams, NEW t \in Threads, JoinLink(e, t) PROVE EndInv'
  BY <1>11 DEF JoinLink
<1>12. ASSUME NEW e \in Xstreams, NEW t \in Threads, JoinSuspend(e, t) PROVE EndInv'
  BY <1>12 DEF JoinSuspend
<1>13. ASSUME NEW e \in Xstreams, NEW t \in Threads, ExitStore(e, t) PROVE EndInv'
  BY <1>13 DEF ExitStore
<1>14. ASSUME NEW e \in Xstreams, NEW t \in Threads, ExitRequest(e, t) PROVE EndInv'
  BY <1>14 DEF ExitRequest
<1>15. ASSUME NEW e \in Xstreams, NEW t \in Threads, ExitLink(e, t) PROVE EndInv'
  BY <1>15 DEF ExitLink
<1>16. ASSUME NEW e \in Xstreams, NEW t \in Threads, ExitLeave(e, t) PROVE EndInv'
  BY <1>16 DEF ExitLeave
<1>17. ASSUME NEW e \in Xstreams, NEW t \in Threads, YieldToSwitch(e, t) PROVE EndInv'
  BY <1>17 DEF YieldToSwitch
<1>18. ASSUME NEW e \in Xstreams, NEW t \in Threads,
              MigrateCount(e, t) \/ Pop(e, t)
       PROVE  EndInv'
  BY <1>18 DEF MigrateCount, Pop
<1>19. ASSUME NEW e \in Xstreams, NEW t \in Threads, JoinResumed(e, t) PROVE EndInv'
  <2>1. CASE state[t] = "BLOCKED"
    BY <1>19, <2>1 DEF JoinResumed
  <2>2. CASE state[t] # "BLOCKED"
    BY <1>19, <2>2 DEF JoinResumed
  <2> QED
    BY <2>1, <2>2
<1>20. ASSUME NEW e \in Xstreams, NEW t \in Threads, JoinYield(e, t) PROVE EndInv'
  <2>1. cur[e] = t /\ pc[t] = "join.yield" /\ state[t] = "RUNNING"
          /\ UNCHANGED <<ret, request, p_link>>
    BY <1>20 DEF JoinYield, Blocking
  <2>2. CASE state[arg[t]] = "TERMINATED"
    <3>1. pc' = [pc EXCEPT ![t] = "user"] /\ UNCHANGED <<cur, arg, state>>
      BY <1>20, <2>2 DEF JoinYield
    <3>2. \A v \in Threads : Woke(v)' => Woke(v)
      BY <2>1, <3>1
    <3> QED
      BY <2>1, <3>1, <3>2
  <2>3. CASE state[arg[t]] # "TERMINATED"
    <3>1. /\ pc' = [pc EXCEPT ![t] = "join.yield", ![e] = "after"] /\ cur' = [cur EXCEPT ![e] = e]
          /\ arg' = [arg EXCEPT ![e] = t] /\ state' = [state EXCEPT ![t] = "READY"]
      BY <1>20, <2>3 DEF JoinYield
    <3>2. \A v \in Threads : Woke(v)' => Woke(v)
      <4>1. \A v \in Threads, d \in Xstreams :
              Hand(d, v)' /\ pc'[d] \in {"push", "dec", "end"} => Hand(d, v) /\ pc'[d] = pc[d]
        BY <2>1, <3>1
      <4>2. ASSUME NEW v \in Threads, Woke(v)' PROVE Woke(v)
        <5>1. CASE \E d \in Xstreams : Hand(d, v)' /\ pc'[d] \in {"push", "dec", "end"}
          BY <4>1, <5>1
        <5>2. CASE \/ state'[v] = "TERMINATED" \/ pc'[v] \in {"exit.store", "exit.leave", "done"}
                   \/ pc'[v] \in {"push", "dec"} /\ ret'[v] # "user"
          <6>1. v # t /\ v # e
            BY <3>1, <5>2
          <6> QED
            BY <2>1, <3>1, <5>2, <6>1
        <5> QED
          BY <4>2, <5>1, <5>2
      <4> QED
        BY <4>2
    <3> QED
      BY <2>1, <3>1, <3>2
  <2> QED
    BY <2>2, <2>3
<1>21. ASSUME NEW e \in Xstreams, NEW t \in Threads, MigrateRequest(e, t) PROVE EndInv'
  <2>1. CASE t = arg[t]
    <3>1. /\ cur' = [cur EXCEPT ![e] = e] /\ arg' = [arg EXCEPT ![e] = t]
               /\ state' = [state EXCEPT ![t] = "READY"]
          /\ request' = [request EXCEPT ![t] = @ \cup {"MIGRATE"}]
          /\ pc' \in {[pc EXCEPT ![t] = "user", ![e] = "after"], [pc EXCEPT ![t] = "mig.count", ![e] = "after"]}
          /\ UNCHANGED <<ret, p_link>> /\ cur[e] = t /\ pc[t] = "mig.request"
      BY <1>21, <2>1 DEF MigrateRequest
    <3>2. ~ Woke(t)'
      <4>0. t # e /\ state'[t] = "READY" /\ pc'[t] \in {"user", "mig.count"}
        BY <3>1
      <4>1. ~ Hand(e, t)' \/ pc'[e] = "after"
        BY <3>1
      <4>2. ASSUME NEW d \in Xstreams, d # e PROVE ~ Hand(d, t)'
        <5>1. cur'[d] = cur[d] /\ arg'[d] = arg[d] /\ pc'[d] = pc[d]
          BY <3>1, <4>2
        <5>2. cur[e] = t /\ e \in Xstreams /\ t \in Threads
          BY <3>1
        <5>3. ~ Hand(d, t)
          BY <5>2
        <5> QED
          BY <5>1, <5>3
      <4> QED
        BY <4>0, <4>1, <4>2
    <3>3. ASSUME NEW v \in Threads \ {t} PROVE Woke(v)' => Woke(v)
      <4>1. state'[v] = state[v] /\ pc'[v] = pc[v] /\ ret'[v] = ret[v]
        BY <3>1
      <4>2. \A d \in Xstreams : Hand(d, v)' => Hand(d, v) /\ pc'[d] = pc[d]
        BY <3>1
      <4> QED
        BY <4>1, <4>2
    <3> QED
      BY <3>1, <3>2, <3>3
  <2>2. CASE t # arg[t]
    BY <1>21, <2>2 DEF MigrateRequest
  <2> QED
    BY <2>1, <2>2
<1>22. ASSUME NEW e \in Xstreams, NEW t \in Threads, NEW u \in Threads,
              Resume(e, t, u) \/ JoinStart(e, t, u) \/ Cancel(e, t, u)
                \/ YieldToPush(e, t, u)
       PROVE  EndInv'
  BY <1>22 DEF Resume, JoinStart, Cancel, YieldToPush
<1>23. ASSUME NEW e \in Xstreams, NEW t \in Threads, NEW u \in Threads, NEW d \in Xstreams,
              MigrateToXstream(e, t, u, d)
       PROVE  EndInv'
  BY <1>23 DEF MigrateToXstream
<1>24. ASSUME NEW e \in Xstreams, NEW t \in Threads, NEW u \in Threads, NEW p \in Pools,
              MigrateToPool(e, t, u, p)
       PROVE  EndInv'
  BY <1>24 DEF MigrateToPool
<1>25. ASSUME NEW e \in Xstreams, NEW c \in Contexts,
              SetReadySpin(e, c) \/ SetReadyPush(e, c) \/ SetReadyDec(e, c)
       PROVE  EndInv'
  BY <1>25 DEF SetReadySpin, SetReadyPush, SetReadyDec
<1>26. ASSUME NEW e \in Xstreams,
              Run(e) \/ AfterYield(e)
       PROVE  EndInv'
  BY <1>26 DEF Run, AfterYield
<1>27. ASSUME NEW e \in Xstreams, AfterBlock(e) PROVE EndInv'
  BY <1>27 DEF AfterBlock
<1>28. ASSUME NEW e \in Xstreams,
              End(e) \/ MigrateThread(e)
       PROVE  EndInv'
  BY <1>28 DEF End, MigrateThread
<1>29. ASSUME NEW e \in Xstreams,
              MigrateDec(e) \/ CancelStart(e)
       PROVE  EndInv'
  BY <1>29 DEF MigrateDec, CancelStart
<1>30. ASSUME NEW e \in Xstreams, CancelRequest(e) PROVE EndInv'
  BY <1>30 DEF CancelRequest
<1>31. ASSUME NEW e \in Xstreams,
              CancelLink(e) \/ HasToStop(e)
       PROVE  EndInv'
  BY <1>31 DEF CancelLink, HasToStop
<1>32. ASSUME NEW e \in Xstreams, AfterTerminate(e) PROVE EndInv'
  <2> DEFINE u == arg[e]
  <2>0. cur[e] = e /\ pc[e] = "after" /\ "TERMINATE" \in request[u]
    BY <1>32 DEF AfterTerminate
  <2>a. u \in Threads /\ Hand(e, u) /\ HeldBy(e, u)
    BY <2>0
  <2>b. pc[u] = "done"
    BY <2>0, <2>a DEF BlockedInv, BlockedAt, Canceling
  <2>1. Hand(e, u) /\ u \in Threads /\ pc[u] = "done" /\ pc[e] = "after" /\ cur[e] = e
    BY <2>0, <2>a, <2>b
  <2>2. Woke(u)
    BY <2>1
  <2>3. \A t \in Threads : Woke(t)' => Woke(t)
    BY <1>32, <2>1, <2>2 DEF AfterTerminate
  <2> QED
    BY <1>32, <2>3 DEF AfterTerminate
<1>33. ASSUME NEW e \in Xstreams,
              ReadSize(e) \/ ReadMigrations(e) \/ ReadBlocked(e) \/ XstreamJoin(e)
       PROVE  EndInv'
  BY <1>33 DEF ReadSize, ReadMigrations, ReadBlocked, XstreamJoin
<1>34. CASE UNCHANGED vars
  BY <1>34 DEF vars
<1> HIDE DEF EndInv
<1> QED
  BY <1>1, <1>2, <1>3, <1>4, <1>5, <1>6, <1>7, <1>8, <1>9, <1>10, <1>11, <1>12, <1>13,
    <1>14, <1>15, <1>16, <1>17, <1>18, <1>19, <1>20, <1>21, <1>22, <1>23, <1>24, <1>25,
    <1>26, <1>27, <1>28, <1>29, <1>30, <1>31, <1>32, <1>33, <1>34 DEF Next, EsStep,
    SchedStep, UserStep, RuntimeStep, JoinStep, ExitStep, ExitStart

(* A ULT that runs is executed by one ES, of its pool, and is in no pool.  *)
LEMMA RunInvStep ==
  ASSUME ConstantsAssumption, Program, IInv, [Next]_vars
  PROVE  RunInv'
<1> SUFFICES ASSUME NEW x \in Xstreams, NEW v \in Threads, cur'[x] = v PROVE RunsOn(x, v)'
  BY DEF RunInv
<1> USE ConstantsAssumption DEF ConstantsAssumption, StackOK, PcOK, ThreadOK, StateOK,
  CountOK, RetOK, RunsOn, Blocking, InHand, InSetReady, Goto, At, ToSched, AddRequest,
  SetBlocked, Pooled, Contexts, Handles, Suspended, Migratable, stackVars, threadVars,
  poolVars, stopVars
<1>0. StackOK /\ PcOK /\ ThreadOK /\ StateOK /\ CountOK /\ RetOK
  BY DEF IInv
<1> USE <1>0
<1>a. cur[x] = v => RunsOn(x, v) /\ \A c \in Xstreams : cur[c] = v => c = x
  BY DEF IInv, RunInv
<1>b. pc[v] = "join.resumed" => arg[v] \in Threads
  BY JoinTarget DEF InJoin
<1>1. ASSUME NEW e \in Xstreams, NEW t \in Threads,
             Yield(e, t) \/ Preempt(e, t) \/ SuspendBlock(e, t) \/ ExitWake(e, t)
               \/ ExitAlone(e, t)
      PROVE  RunsOn(x, v)'
  <2>1. cur[e] = t => RunsOn(e, t)
    BY DEF IInv, RunInv
  <2> QED
    BY <1>a, <1>b, <1>1, <2>1 DEF Yield, Preempt, SuspendBlock, ExitWake, ExitAlone
<1>2. ASSUME NEW e \in Xstreams, NEW t \in Threads,
             SuspendSwitch(e, t) \/ JoinRequest(e, t)
      PROVE  RunsOn(x, v)'
  <2>1. cur[e] = t => RunsOn(e, t)
    BY DEF IInv, RunInv
  <2> QED
    BY <1>a, <1>b, <1>2, <2>1 DEF SuspendSwitch, JoinRequest
<1>3. ASSUME NEW e \in Xstreams, NEW t \in Threads, JoinBlock(e, t) PROVE RunsOn(x, v)'
  <2>1. cur[e] = t => RunsOn(e, t)
    BY DEF IInv, RunInv
  <2> QED
    BY <1>a, <1>b, <1>3, <2>1 DEF JoinBlock
<1>4. ASSUME NEW e \in Xstreams, NEW t \in Threads,
             JoinLink(e, t) \/ JoinSuspend(e, t)
      PROVE  RunsOn(x, v)'
  <2>1. cur[e] = t => RunsOn(e, t)
    BY DEF IInv, RunInv
  <2> QED
    BY <1>a, <1>b, <1>4, <2>1 DEF JoinLink, JoinSuspend
<1>5. ASSUME NEW e \in Xstreams, NEW t \in Threads, ExitJump(e, t) PROVE RunsOn(x, v)'
  <2>1. cur[e] = t => RunsOn(e, t)
    BY DEF IInv, RunInv
  <2> DEFINE j == p_link[t]
  <2>2. /\ j \in Threads /\ j # t /\ p_last_xstream[j] = e /\ p_pool[j] = SchedPool[e]
        /\ state[j] = "BLOCKED" /\ pc[j] = "join.resumed" /\ arg[j] = t
        /\ "BLOCK" \notin request[j] /\ "TERMINATE" \notin request[j]
        /\ \A p \in Pools : j \notin pool[p]
    BY <1>5, JumpTarget
  <2>3. CASE x = e
    BY <1>5, <2>2, <2>3 DEF ExitJump
  <2>4. CASE x # e
    <3>1. cur[x] = v /\ v # t
      BY <1>a, <1>b, <1>5, <2>1, <2>4 DEF ExitJump
    <3>2. v # j
      BY <1>5, <3>1, JumpTarget
    <3> QED
      BY <1>a, <1>b, <1>5, <3>1, <3>2 DEF ExitJump
  <2> QED
    BY <2>3, <2>4
<1>6. ASSUME NEW e \in Xstreams, NEW t \in Threads, JoinPool(e, t) PROVE RunsOn(x, v)'
  <2>1. cur[e] = t => RunsOn(e, t)
    BY DEF IInv, RunInv
  <2> DEFINE u == arg[t]
  <2>2. u \in Threads /\ u # t /\ u \in pool[SchedPool[e]] /\ pc[u] # "yield_to"
    <3>1. cur[e] = t /\ pc[t] = "join.pool" /\ u \in pool[p_pool[u]]
      BY <1>6 DEF JoinPool
    <3> QED
      BY <3>1, JoinPoolTarget
  <2>3. /\ p_pool[u] = SchedPool[e] /\ state[u] = "READY" /\ pc[u] # "done"
        /\ "BLOCK" \notin request[u] /\ "TERMINATE" \notin request[u]
        /\ pc[u] \in Off /\ \A d \in Xstreams : cur[d] # u
    BY <2>2, PoolTarget
  <2>4. \A p \in Pools : u \in pool[p] => p = p_pool[u]
    BY <2>2 DEF IInv, PoolInv, InPool
  <2>5. CASE x = e
    BY <1>6, <2>2, <2>3, <2>4, <2>5 DEF JoinPool, Off
  <2>6. CASE x # e
    <3>1. cur[x] = v /\ v # t
      BY <1>a, <1>b, <1>6, <2>1, <2>6 DEF JoinPool
    <3>2. v # u
      BY <2>3, <3>1
    <3>3. pc'[v] = pc[v] /\ arg'[v] = arg[v] /\ state'[v] = state[v] /\ ret'[v] = ret[v]
          /\ p_last_xstream'[v] = p_last_xstream[v] /\ request' = request /\ p_pool' = p_pool
      BY <1>6, <2>2, <3>1, <3>2 DEF JoinPool
    <3>4. \A w \in Threads : state[w] = "TERMINATED" => state'[w] = "TERMINATED"
      BY <1>6, <2>2, <2>3, <2>1 DEF JoinPool
    <3>5. \A p \in Pools : v \in pool'[p] => v \in pool[p]
      BY <1>6 DEF JoinPool
    <3> QED
      BY <1>a, <1>b, <3>1, <3>3, <3>4, <3>5
  <2> QED
    BY <2>5, <2>6
<1>7. ASSUME NEW e \in Xstreams, NEW t \in Threads, JoinResumed(e, t) PROVE RunsOn(x, v)'
  <2>1. cur[e] = t => RunsOn(e, t)
    BY DEF IInv, RunInv
  <2>2. CASE state[t] = "BLOCKED"
    <3>1. cur[x] = v
      BY <1>7 DEF JoinResumed
    <3>2. CASE v = t
      BY <1>a, <1>b, <1>7, <2>1, <2>2, <3>1, <3>2 DEF JoinResumed
    <3>3. CASE v # t
      <4>1. state'[v] = state[v]
              /\ \A w \in Threads : state[w] = "TERMINATED" => state'[w] = "TERMINATED"
        BY <1>7, <2>2, <3>3 DEF JoinResumed
      <4> QED
        BY <1>a, <1>b, <1>7, <3>1, <3>3, <4>1 DEF JoinResumed
    <3> QED
      BY <3>2, <3>3
  <2>3. CASE state[t] # "BLOCKED"
    BY <1>a, <1>b, <1>7, <2>1, <2>3 DEF JoinResumed
  <2> QED
    BY <2>2, <2>3
<1>8. ASSUME NEW e \in Xstreams, NEW t \in Threads, JoinYield(e, t) PROVE RunsOn(x, v)'
  <2>1. cur[e] = t => RunsOn(e, t)
    BY DEF IInv, RunInv
  <2>2. CASE state[arg[t]] = "TERMINATED"
    BY <1>a, <1>b, <1>8, <2>1, <2>2 DEF JoinYield
  <2>3. CASE state[arg[t]] # "TERMINATED"
    <3>1. cur[x] = v /\ v # t /\ state[t] # "TERMINATED"
      BY <1>a, <1>b, <1>8, <2>1, <2>3 DEF JoinYield
    <3>2. pc'[v] = pc[v] /\ arg'[v] = arg[v] /\ state'[v] = state[v]
      BY <1>8, <2>3, <3>1 DEF JoinYield
    <3> QED
      BY <1>a, <1>b, <1>8, <2>3, <3>1, <3>2 DEF JoinYield
  <2> QED
    BY <2>2, <2>3
<1>9. ASSUME NEW e \in Xstreams, NEW t \in Threads,
             ExitStore(e, t) \/ ExitRequest(e, t) \/ ExitLink(e, t)
               \/ ExitLeave(e, t) \/ MigrateCount(e, t)
      PROVE  RunsOn(x, v)'
  <2>1. cur[e] = t => RunsOn(e, t)
    BY DEF IInv, RunInv
  <2> QED
    BY <1>a, <1>b, <1>9, <2>1 DEF ExitStore, ExitRequest, ExitLink, ExitLeave, MigrateCount
<1>10. ASSUME NEW e \in Xstreams, NEW t \in Threads, YieldToSwitch(e, t) PROVE RunsOn(x, v)'
  <2>1. cur[e] = t => RunsOn(e, t)
    BY DEF IInv, RunInv
  <2> DEFINE u == arg[t]
  <2>2. u \in Threads /\ u # t /\ u \in pool[SchedPool[e]] /\ pc[u] # "yield_to"
    BY <1>10, YieldToTarget DEF YieldToSwitch
  <2>3. /\ p_pool[u] = SchedPool[e] /\ state[u] = "READY" /\ pc[u] # "done"
        /\ "BLOCK" \notin request[u] /\ "TERMINATE" \notin request[u]
        /\ pc[u] \in Off /\ \A d \in Xstreams : cur[d] # u
    BY <2>2, PoolTarget
  <2>4. \A p \in Pools : u \in pool[p] => p = p_pool[u]
    BY <2>2 DEF IInv, PoolInv, InPool
  <2>5. CASE x = e
    BY <1>10, <2>2, <2>3, <2>4, <2>5 DEF YieldToSwitch, Off
  <2>6. CASE x # e
    <3>1. cur[x] = v /\ v # t
      BY <1>a, <1>b, <1>10, <2>1, <2>6 DEF YieldToSwitch
    <3>2. v # u
      BY <2>3, <3>1
    <3> QED
      BY <1>a, <1>b, <1>10, <2>2, <2>3, <3>1, <3>2 DEF YieldToSwitch
  <2> QED
    BY <2>5, <2>6
<1>11. ASSUME NEW e \in Xstreams, NEW t \in Threads, MigrateRequest(e, t) PROVE RunsOn(x, v)'
  <2>1. cur[e] = t => RunsOn(e, t)
    BY DEF IInv, RunInv
  <2>2. CASE t = arg[t]
    <3>1. cur[x] = v /\ v # t /\ state[t] # "TERMINATED"
      BY <1>a, <1>b, <1>11, <2>1, <2>2 DEF MigrateRequest
    <3>2. pc'[v] = pc[v] /\ arg'[v] = arg[v] /\ state'[v] = state[v] /\ ret'[v] = ret[v]
      BY <1>11, <2>2, <3>1 DEF MigrateRequest
    <3> QED
      BY <1>a, <1>b, <1>11, <2>2, <3>1, <3>2 DEF MigrateRequest
  <2>3. CASE t # arg[t]
    BY <1>a, <1>b, <1>11, <2>1, <2>3 DEF MigrateRequest
  <2> QED
    BY <2>2, <2>3
<1>12. ASSUME NEW e \in Xstreams, NEW t \in Threads, Pop(e, t) PROVE RunsOn(x, v)'
  BY <1>a, <1>b, <1>b, <1>12 DEF Pop
<1>13. ASSUME NEW e \in Xstreams, NEW t \in Threads, NEW u \in Threads,
              Resume(e, t, u) \/ JoinStart(e, t, u)
       PROVE  RunsOn(x, v)'
  <2>1. cur[e] = t => RunsOn(e, t)
    BY DEF IInv, RunInv
  <2> QED
    BY <1>a, <1>b, <1>13, <2>1 DEF Resume, JoinStart
<1>14. ASSUME NEW e \in Xstreams, NEW t \in Threads, NEW u \in Threads, Cancel(e, t, u)
       PROVE  RunsOn(x, v)'
  <2>1. cur[e] = t => RunsOn(e, t)
    BY DEF IInv, RunInv
  <2> QED
    BY <1>a, <1>b, <1>14, <2>1 DEF Cancel
<1>15. ASSUME NEW e \in Xstreams, NEW t \in Threads, NEW u \in Threads, YieldToPush(e, t, u)
       PROVE  RunsOn(x, v)'
  <2>1. cur[e] = t => RunsOn(e, t)
    BY DEF IInv, RunInv
  <2> QED
    BY <1>a, <1>b, <1>15, <2>1 DEF YieldToPush
<1>16. ASSUME NEW e \in Xstreams, NEW t \in Threads, NEW u \in Threads, NEW d \in Xstreams,
              MigrateToXstream(e, t, u, d)
       PROVE  RunsOn(x, v)'
  <2>1. cur[e] = t => RunsOn(e, t)
    BY DEF IInv, RunInv
  <2> QED
    BY <1>a, <1>b, <1>16, <2>1 DEF MigrateToXstream
<1>17. ASSUME NEW e \in Xstreams, NEW t \in Threads, NEW u \in Threads, NEW p \in Pools,
              MigrateToPool(e, t, u, p)
       PROVE  RunsOn(x, v)'
  <2>1. cur[e] = t => RunsOn(e, t)
    BY DEF IInv, RunInv
  <2> QED
    BY <1>a, <1>b, <1>17, <2>1 DEF MigrateToPool
<1>18. ASSUME NEW e \in Xstreams, NEW c \in Contexts, SetReadySpin(e, c) PROVE RunsOn(x, v)'
  <2> DEFINE j == Woken(c)
  <2>1. j \in Threads /\ state[j] = "BLOCKED" /\ \A d \in Xstreams : cur[d] # j
    BY <1>18, SpinTarget DEF SetReadySpin
  <2>2. cur[x] = v /\ v # j
    BY <1>18, <2>1 DEF SetReadySpin
  <2>3. c # v => pc'[v] = pc[v]
    BY <1>18 DEF SetReadySpin
  <2>4. state'[v] = state[v] /\ (state[arg[v]] = "TERMINATED" => state'[arg[v]] = "TERMINATED")
    BY <1>18, <2>1, <2>2 DEF SetReadySpin
  <2> HIDE DEF j
  <2> QED
    BY <1>a, <1>b, <1>18, <2>2, <2>3, <2>4 DEF SetReadySpin
<1>19. ASSUME NEW e \in Xstreams, NEW c \in Contexts, SetReadyPush(e, c) PROVE RunsOn(x, v)'
  <2> DEFINE j == Woken(c)
  <2>1. j \in Threads /\ \A d \in Xstreams : cur[d] # j
    BY <1>19 DEF SetReadyPush, IInv, WakeInv, WokenBy
  <2>2. cur[x] = v /\ v # j
    BY <1>19, <2>1 DEF SetReadyPush
  <2> HIDE DEF j
  <2> QED
    BY <1>a, <1>b, <1>19, <2>2 DEF SetReadyPush, j
<1>20. ASSUME NEW e \in Xstreams, NEW c \in Contexts, SetReadyDec(e, c) PROVE RunsOn(x, v)'
  BY <1>a, <1>b, <1>b, <1>20 DEF SetReadyDec
<1>21. ASSUME NEW e \in Xstreams, Run(e) PROVE RunsOn(x, v)'
  <2> DEFINE u == arg[e]
  <2>1. u \in Threads /\ HeldBy(e, u) /\ cur[e] = e /\ pc[e] = "run"
    BY <1>21, HandTarget DEF Run
  <2>2. /\ p_pool[u] = SchedPool[e] /\ state[u] = "READY" /\ pc[u] # "done"
        /\ "BLOCK" \notin request[u] /\ "TERMINATE" \notin request[u]
        /\ (\A d \in Xstreams : cur[d] # u) /\ \A p \in Pools : u \notin pool[p]
    BY <2>1 DEF HeldBy, Canceling
  <2>3. pc[u] \in Off
    BY <2>1, <2>2 DEF IInv, LabelInv, On
  <2> QED
    BY <1>a, <1>b, <1>21, <2>1, <2>2, <2>3 DEF Run, Off
<1>22. ASSUME NEW e \in Xstreams, AfterYield(e) PROVE RunsOn(x, v)'
  <2> DEFINE u == arg[e]
  <2>1. u \in Threads /\ HeldBy(e, u) /\ cur[e] = e
    BY <1>22, HandTarget DEF AfterYield
  <2>2. state[u] # "TERMINATED" /\ \A d \in Xstreams : cur[d] # u
    BY <2>1 DEF HeldBy
  <2>3. cur[x] = v /\ v # u
    BY <1>22, <2>2 DEF AfterYield
  <2> QED
    BY <1>a, <1>b, <1>22, <2>1, <2>2, <2>3 DEF AfterYield
<1>23. ASSUME NEW e \in Xstreams, AfterBlock(e) PROVE RunsOn(x, v)'
  <2> DEFINE u == arg[e]
  <2>1. u \in Threads /\ HeldBy(e, u) /\ cur[e] = e
    BY <1>23, HandTarget DEF AfterBlock
  <2>2. state[u] # "TERMINATED" /\ \A d \in Xstreams : cur[d] # u
    BY <2>1 DEF HeldBy
  <2>3. cur[x] = v /\ v # u
    BY <1>23, <2>2 DEF AfterBlock
  <2> QED
    BY <1>a, <1>b, <1>23, <2>1, <2>2, <2>3 DEF AfterBlock
<1>24. ASSUME NEW e \in Xstreams,
              AfterTerminate(e) \/ MigrateDec(e) \/ CancelStart(e) \/ CancelLink(e)
                \/ HasToStop(e) \/ ReadSize(e) \/ ReadMigrations(e) \/ ReadBlocked(e)
                \/ XstreamJoin(e)
       PROVE  RunsOn(x, v)'
  BY <1>a, <1>b, <1>b, <1>24 DEF AfterTerminate, MigrateDec, CancelStart, CancelLink, HasToStop,
       ReadSize, ReadMigrations, ReadBlocked, XstreamJoin
<1>25. ASSUME NEW e \in Xstreams, End(e) PROVE RunsOn(x, v)'
  <2> DEFINE u == arg[e]
  <2>1. u \in Threads /\ HeldBy(e, u) /\ cur[e] = e
    BY <1>25, HandTarget DEF End
  <2>2. state[u] # "TERMINATED" /\ \A d \in Xstreams : cur[d] # u
    BY <2>1 DEF HeldBy
  <2>3. cur[x] = v /\ v # u
    BY <1>25, <2>2 DEF End
  <2> QED
    BY <1>a, <1>b, <1>25, <2>1, <2>2, <2>3 DEF End
<1>26. ASSUME NEW e \in Xstreams, MigrateThread(e) PROVE RunsOn(x, v)'
  <2> DEFINE u == arg[e]
  <2>1. u \in Threads /\ HeldBy(e, u) /\ cur[e] = e
    BY <1>26, HandTarget DEF MigrateThread
  <2>2. state[u] # "TERMINATED" /\ \A d \in Xstreams : cur[d] # u
    BY <2>1 DEF HeldBy
  <2>3. cur[x] = v /\ v # u
    BY <1>26, <2>2 DEF MigrateThread
  <2> QED
    BY <1>a, <1>b, <1>26, <2>1, <2>2, <2>3 DEF MigrateThread
<1>27. ASSUME NEW e \in Xstreams, CancelRequest(e) PROVE RunsOn(x, v)'
  <2> DEFINE u == arg[e]
  <2>1. u \in Threads /\ HeldBy(e, u) /\ cur[e] = e
    BY <1>27, HandTarget DEF CancelRequest
  <2>2. state[u] # "TERMINATED" /\ \A d \in Xstreams : cur[d] # u
    BY <2>1 DEF HeldBy
  <2>3. cur[x] = v /\ v # u
    BY <1>27, <2>2 DEF CancelRequest
  <2> QED
    BY <1>a, <1>b, <1>27, <2>1, <2>2, <2>3 DEF CancelRequest
<1>28. CASE UNCHANGED vars
  BY <1>a, <1>b, <1>28 DEF vars
<1> HIDE DEF RunsOn
<1> QED
  BY <1>1, <1>2, <1>3, <1>4, <1>5, <1>6, <1>7, <1>8, <1>9, <1>10, <1>11, <1>12, <1>13,
    <1>14, <1>15, <1>16, <1>17, <1>18, <1>19, <1>20, <1>21, <1>22, <1>23, <1>24, <1>25,
    <1>26, <1>27, <1>28 DEF Next, EsStep, SchedStep, UserStep, RuntimeStep, JoinStep,
    ExitStep, ExitStart

(* The two ULTs of a yield_to stay in the pool until the switch: nobody    *)
(* else pops from it.                                                      *)
LEMMA YieldInvStep ==
  ASSUME ConstantsAssumption, Program, IInv, [Next]_vars
  PROVE  YieldInv'
<1> SUFFICES ASSUME NEW v \in Threads PROVE YieldingAt(v)'
  BY DEF YieldInv
<1> USE ConstantsAssumption DEF ConstantsAssumption, StackOK, PcOK, ThreadOK, StateOK,
  CountOK, RetOK, YieldingAt, InHand, InSetReady, Goto, At, ToSched, AddRequest, SetBlocked,
  Pooled, Contexts, Handles, Suspended, Migratable, stackVars, threadVars, poolVars,
  stopVars
<1>0. StackOK /\ PcOK /\ ThreadOK /\ StateOK /\ CountOK /\ RetOK
  BY DEF IInv
<1> USE <1>0
<1>a. YieldingAt(v)
  BY DEF IInv, YieldInv
<1> DEFINE y == p_last_xstream[v]
<1>b. pc[v] = "yield_to" =>
        /\ y \in Xstreams /\ cur[y] = v /\ p_pool[v] = SchedPool[y]
        /\ \A z \in Xstreams : SchedPool[z] = SchedPool[y] => z = y
        /\ arg[v] \in Threads /\ p_pool[arg[v]] = SchedPool[y] /\ pc[arg[v]] # "yield_to"
        /\ v \in pool[SchedPool[y]] /\ arg[v] \in pool[SchedPool[y]] /\ <<v, arg[v]>> \in YieldsTo
  <2> SUFFICES ASSUME pc[v] = "yield_to" PROVE <1>b!2
    OBVIOUS
  <2>1. y \in Xstreams /\ cur[y] = v
    BY DEF IInv, LabelInv, On, Off
  <2>2. p_pool[v] = SchedPool[y]
    BY <2>1 DEF IInv, RunInv, RunsOn
  <2> HIDE DEF y
  <2> QED
    BY <1>a, <2>1, <2>2, YieldToTarget
<1> HIDE DEF y
<1>1. ASSUME NEW e \in Xstreams, NEW t \in Threads, Yield(e, t) PROVE YieldingAt(v)'
  BY <1>a, <1>b, <1>1 DEF Yield
<1>2. ASSUME NEW e \in Xstreams, NEW t \in Threads, Preempt(e, t) PROVE YieldingAt(v)'
  BY <1>a, <1>b, <1>2 DEF Preempt
<1>3. ASSUME NEW e \in Xstreams, NEW t \in Threads, SuspendBlock(e, t) PROVE YieldingAt(v)'
  BY <1>a, <1>b, <1>3 DEF SuspendBlock
<1>4. ASSUME NEW e \in Xstreams, NEW t \in Threads, ExitJump(e, t) PROVE YieldingAt(v)'
  BY <1>a, <1>b, <1>4 DEF ExitJump
<1>5. ASSUME NEW e \in Xstreams, NEW t \in Threads, ExitWake(e, t) PROVE YieldingAt(v)'
  BY <1>a, <1>b, <1>5 DEF ExitWake
<1>6. ASSUME NEW e \in Xstreams, NEW t \in Threads, ExitAlone(e, t) PROVE YieldingAt(v)'
  BY <1>a, <1>b, <1>6 DEF ExitAlone
<1>7. ASSUME NEW e \in Xstreams, NEW t \in Threads, SuspendSwitch(e, t) PROVE YieldingAt(v)'
  BY <1>a, <1>b, <1>7 DEF SuspendSwitch
<1>8. ASSUME NEW e \in Xstreams, NEW t \in Threads, JoinRequest(e, t) PROVE YieldingAt(v)'
  BY <1>a, <1>b, <1>8 DEF JoinRequest
<1>9. ASSUME NEW e \in Xstreams, NEW t \in Threads, JoinBlock(e, t) PROVE YieldingAt(v)'
  BY <1>a, <1>b, <1>9 DEF JoinBlock
<1>10. ASSUME NEW e \in Xstreams, NEW t \in Threads, JoinLink(e, t) PROVE YieldingAt(v)'
  BY <1>a, <1>b, <1>10 DEF JoinLink
<1>11. ASSUME NEW e \in Xstreams, NEW t \in Threads, JoinPool(e, t) PROVE YieldingAt(v)'
  <2> DEFINE u == arg[t]
  <2>1. cur[e] = t /\ pc[t] = "join.pool" /\ u \in pool[p_pool[u]]
    BY <1>11 DEF JoinPool
  <2>2. u \in Threads /\ p_pool[u] = SchedPool[e]
    <3>1. u \in Threads /\ u \in pool[SchedPool[e]]
      BY <2>1, JoinPoolTarget
    <3> QED
      BY <3>1, PoolTarget
  <2>3. /\ pc' = [pc EXCEPT ![t] = "join.resumed"] /\ arg' = arg /\ p_pool' = p_pool
        /\ pool' = [pool EXCEPT ![SchedPool[e]] = @ \ {u}]
    BY <1>11, <2>2 DEF JoinPool
  <2>4. pc'[v] = "yield_to" => pc[v] = "yield_to" /\ SchedPool[y] # SchedPool[e]
    BY <1>b, <2>1, <2>3
  <2> QED
    BY <1>b, <2>3, <2>4
<1>12. ASSUME NEW e \in Xstreams, NEW t \in Threads, JoinSuspend(e, t) PROVE YieldingAt(v)'
  BY <1>a, <1>b, <1>12 DEF JoinSuspend
<1>13. ASSUME NEW e \in Xstreams, NEW t \in Threads, JoinResumed(e, t) PROVE YieldingAt(v)'
  BY <1>a, <1>b, <1>13 DEF JoinResumed
<1>14. ASSUME NEW e \in Xstreams, NEW t \in Threads, ExitStore(e, t) PROVE YieldingAt(v)'
  BY <1>a, <1>b, <1>14 DEF ExitStore
<1>15. ASSUME NEW e \in Xstreams, NEW t \in Threads, ExitRequest(e, t) PROVE YieldingAt(v)'
  BY <1>a, <1>b, <1>15 DEF ExitRequest
<1>16. ASSUME NEW e \in Xstreams, NEW t \in Threads, ExitLink(e, t) PROVE YieldingAt(v)'
  BY <1>a, <1>b, <1>16 DEF ExitLink
<1>17. ASSUME NEW e \in Xstreams, NEW t \in Threads, ExitLeave(e, t) PROVE YieldingAt(v)'
  BY <1>a, <1>b, <1>17 DEF ExitLeave
<1>18. ASSUME NEW e \in Xstreams, NEW t \in Threads, MigrateCount(e, t) PROVE YieldingAt(v)'
  BY <1>a, <1>b, <1>18 DEF MigrateCount
<1>19. ASSUME NEW e \in Xstreams, NEW t \in Threads, JoinYield(e, t) PROVE YieldingAt(v)'
  <2>1. CASE state[arg[t]] = "TERMINATED"
    BY <1>a, <1>b, <1>19, <2>1 DEF JoinYield
  <2>2. CASE state[arg[t]] # "TERMINATED"
    <3>1. arg' = [arg EXCEPT ![e] = t] /\ UNCHANGED <<p_pool, pool>>
            /\ pc' = [pc EXCEPT ![t] = "join.yield", ![e] = "after"]
      BY <1>19, <2>2 DEF JoinYield
    <3>2. pc'[v] = "yield_to" => pc[v] = "yield_to" /\ arg'[v] = arg[v]
      BY <3>1
    <3> QED
      BY <1>a, <3>1, <3>2
  <2> QED
    BY <2>1, <2>2
<1>20. ASSUME NEW e \in Xstreams, NEW t \in Threads, YieldToSwitch(e, t) PROVE YieldingAt(v)'
  <2> DEFINE u == arg[t]
  <2>1. cur[e] = t /\ pc[t] = "yield_to"
    BY <1>20 DEF YieldToSwitch
  <2>2. u \in Threads /\ p_pool[u] = SchedPool[e]
    BY <2>1, YieldToTarget
  <2>3. /\ pc' = [pc EXCEPT ![t] = "user"] /\ arg' = arg /\ p_pool' = p_pool
        /\ pool' = [pool EXCEPT ![SchedPool[e]] = @ \ {u}]
    BY <1>20, <2>2 DEF YieldToSwitch
  <2>4. pc'[v] = "yield_to" => pc[v] = "yield_to" /\ SchedPool[y] # SchedPool[e]
    BY <1>b, <2>1, <2>3
  <2> QED
    BY <1>b, <2>3, <2>4
<1>21. ASSUME NEW e \in Xstreams, NEW t \in Threads, MigrateRequest(e, t) PROVE YieldingAt(v)'
  <2>1. CASE t = arg[t]
    <3>1. arg' = [arg EXCEPT ![e] = t] /\ UNCHANGED <<p_pool, pool>>
            /\ \E l \in {"user", "mig.count"} : pc' = [pc EXCEPT ![t] = l, ![e] = "after"]
      BY <1>21, <2>1 DEF MigrateRequest
    <3>2. pc'[v] = "yield_to" => pc[v] = "yield_to" /\ arg'[v] = arg[v]
      BY <3>1
    <3> QED
      BY <1>a, <3>1, <3>2
  <2>2. CASE t # arg[t]
    BY <1>a, <1>b, <1>21, <2>2 DEF MigrateRequest
  <2> QED
    BY <2>1, <2>2
<1>22. ASSUME NEW e \in Xstreams, NEW t \in Threads, Pop(e, t) PROVE YieldingAt(v)'
  <2>1. cur[e] = e /\ pc' = [pc EXCEPT ![e] = "run"] /\ arg' = [arg EXCEPT ![e] = t]
          /\ p_pool' = p_pool
        /\ pool' = [pool EXCEPT ![SchedPool[e]] = @ \ {t}]
    BY <1>22 DEF Pop
  <2>2. pc'[v] = "yield_to" => pc[v] = "yield_to" /\ SchedPool[y] # SchedPool[e]
    BY <1>b, <2>1
  <2> QED
    BY <1>b, <2>1, <2>2
<1>23. ASSUME NEW e \in Xstreams, NEW t \in Threads, NEW u \in Threads, Resume(e, t, u)
       PROVE  YieldingAt(v)'
  BY <1>a, <1>b, <1>23 DEF Resume
<1>24. ASSUME NEW e \in Xstreams, NEW t \in Threads, NEW u \in Threads, JoinStart(e, t, u)
       PROVE  YieldingAt(v)'
  BY <1>a, <1>b, <1>24 DEF JoinStart
<1>25. ASSUME NEW e \in Xstreams, NEW t \in Threads, NEW u \in Threads, Cancel(e, t, u)
       PROVE  YieldingAt(v)'
  BY <1>a, <1>b, <1>25 DEF Cancel
<1>26. ASSUME NEW e \in Xstreams, NEW t \in Threads, NEW u \in Threads, YieldToPush(e, t, u)
       PROVE  YieldingAt(v)'
  <2>1. \E p \in Pools : u \in pool[p]
    BY <1>26 DEF YieldToPush
  <2>2. u \in pool[p_pool[u]]
    BY <2>1 DEF IInv, PoolInv, InPool
  <2>3. CASE v = t
    BY <1>26, <2>2, <2>3 DEF YieldToPush
  <2>4. CASE v # t
    BY <1>a, <1>b, <1>26, <2>4 DEF YieldToPush
  <2> QED
    BY <2>3, <2>4
<1>27. ASSUME NEW e \in Xstreams, NEW t \in Threads, NEW u \in Threads, NEW d \in Xstreams,
              MigrateToXstream(e, t, u, d)
       PROVE  YieldingAt(v)'
  BY <1>a, <1>b, <1>27 DEF MigrateToXstream
<1>28. ASSUME NEW e \in Xstreams, NEW t \in Threads, NEW u \in Threads, NEW p \in Pools,
              MigrateToPool(e, t, u, p)
       PROVE  YieldingAt(v)'
  BY <1>a, <1>b, <1>28 DEF MigrateToPool
<1>29. ASSUME NEW e \in Xstreams, NEW c \in Contexts, SetReadySpin(e, c) PROVE YieldingAt(v)'
  BY <1>a, <1>b, <1>29 DEF SetReadySpin
<1>30. ASSUME NEW e \in Xstreams, NEW c \in Contexts, SetReadyPush(e, c) PROVE YieldingAt(v)'
  BY <1>a, <1>b, <1>30 DEF SetReadyPush
<1>31. ASSUME NEW e \in Xstreams, NEW c \in Contexts, SetReadyDec(e, c) PROVE YieldingAt(v)'
  BY <1>a, <1>b, <1>31 DEF SetReadyDec
<1>32. ASSUME NEW e \in Xstreams, Run(e) PROVE YieldingAt(v)'
  BY <1>a, <1>b, <1>32 DEF Run
<1>33. ASSUME NEW e \in Xstreams, AfterYield(e) PROVE YieldingAt(v)'
  BY <1>a, <1>b, <1>33 DEF AfterYield
<1>34. ASSUME NEW e \in Xstreams, AfterBlock(e) PROVE YieldingAt(v)'
  BY <1>a, <1>b, <1>34 DEF AfterBlock
<1>35. ASSUME NEW e \in Xstreams, AfterTerminate(e) PROVE YieldingAt(v)'
  BY <1>a, <1>b, <1>35 DEF AfterTerminate
<1>36. ASSUME NEW e \in Xstreams, End(e) PROVE YieldingAt(v)'
  BY <1>a, <1>b, <1>36 DEF End
<1>37. ASSUME NEW e \in Xstreams, MigrateDec(e) PROVE YieldingAt(v)'
  BY <1>a, <1>b, <1>37 DEF MigrateDec
<1>38. ASSUME NEW e \in Xstreams, CancelStart(e) PROVE YieldingAt(v)'
  BY <1>a, <1>b, <1>38 DEF CancelStart
<1>39. ASSUME NEW e \in Xstreams, CancelRequest(e) PROVE YieldingAt(v)'
  BY <1>a, <1>b, <1>39 DEF CancelRequest
<1>40. ASSUME NEW e \in Xstreams, CancelLink(e) PROVE YieldingAt(v)'
  BY <1>a, <1>b, <1>40 DEF CancelLink
<1>41. ASSUME NEW e \in Xstreams, HasToStop(e) PROVE YieldingAt(v)'
  BY <1>a, <1>b, <1>41 DEF HasToStop
<1>42. ASSUME NEW e \in Xstreams, MigrateThread(e) PROVE YieldingAt(v)'
  <2> DEFINE u == arg[e]
  <2>1. u \in Threads /\ HeldBy(e, u)
    BY <1>42, HandTarget DEF MigrateThread
  <2>2. v # u \/ pc[v] # "yield_to"
    BY <1>b, <2>1 DEF HeldBy
  <2>3. mig[u] \in Pools
    BY <1>42, <2>1 DEF MigrateThread, IInv, MigInv
  <2> QED
    BY <1>a, <1>b, <1>42, <2>1, <2>2, <2>3 DEF MigrateThread
<1>43. ASSUME NEW e \in Xstreams, ReadSize(e) PROVE YieldingAt(v)'
  BY <1>a, <1>b, <1>43 DEF ReadSize
<1>44. ASSUME NEW e \in Xstreams, ReadMigrations(e) PROVE YieldingAt(v)'
  BY <1>a, <1>b, <1>44 DEF ReadMigrations
<1>45. ASSUME NEW e \in Xstreams, ReadBlocked(e) PROVE YieldingAt(v)'
  BY <1>a, <1>b, <1>45 DEF ReadBlocked
<1>46. ASSUME NEW e \in Xstreams, XstreamJoin(e) PROVE YieldingAt(v)'
  BY <1>a, <1>b, <1>46 DEF XstreamJoin
<1>47. CASE UNCHANGED vars
  BY <1>a, <1>b, <1>47 DEF vars
<1> HIDE DEF YieldingAt
<1> QED
  BY <1>1, <1>2, <1>3, <1>4, <1>5, <1>6, <1>7, <1>8, <1>9, <1>10, <1>11, <1>12, <1>13,
    <1>14, <1>15, <1>16, <1>17, <1>18, <1>19, <1>20, <1>21, <1>22, <1>23, <1>24, <1>25,
    <1>26, <1>27, <1>28, <1>29, <1>30, <1>31, <1>32, <1>33, <1>34, <1>35, <1>36, <1>37,
    <1>38, <1>39, <1>40, <1>41, <1>42, <1>43, <1>44, <1>45, <1>46, <1>47 DEF Next, EsStep,
    SchedStep, UserStep, RuntimeStep, JoinStep, ExitStep, ExitStart

(* A ULT in a pool is ready and in its own pool.                           *)
LEMMA PoolInvStep ==
  ASSUME ConstantsAssumption, Program, IInv, [Next]_vars
  PROVE  PoolInv'
<1> SUFFICES ASSUME NEW v \in Threads, NEW q \in Pools, v \in pool'[q] PROVE InPool(v, q)'
  BY DEF PoolInv
<1> USE ConstantsAssumption DEF ConstantsAssumption, StackOK, PcOK, ThreadOK, StateOK,
  CountOK, RetOK, InPool, InHand, InSetReady, Goto, At, ToSched, AddRequest, SetBlocked,
  Pooled, Contexts, Handles, Suspended, Migratable, stackVars, threadVars, poolVars,
  stopVars
<1>0. StackOK /\ PcOK /\ ThreadOK /\ StateOK /\ CountOK /\ RetOK
  BY DEF IInv
<1> USE <1>0
<1>a. v \in pool[q] => InPool(v, q) /\ \A y \in Xstreams : cur[y] = v => pc[v] = "yield_to"
  BY DEF IInv, PoolInv, RunInv, RunsOn
<1>1. ASSUME NEW e \in Xstreams, NEW t \in Threads,
             Yield(e, t) \/ Preempt(e, t) \/ SuspendBlock(e, t) \/ ExitJump(e, t)
               \/ ExitWake(e, t)
      PROVE  InPool(v, q)'
  <2>1. cur[e] = t => RunsOn(e, t)
    BY DEF IInv, RunInv
  <2> QED
    BY <1>a, <1>1, <2>1 DEF Yield, Preempt, SuspendBlock, ExitJump, ExitWake, RunsOn, Blocking
<1>2. ASSUME NEW e \in Xstreams, NEW t \in Threads,
             ExitAlone(e, t) \/ SuspendSwitch(e, t)
      PROVE  InPool(v, q)'
  <2>1. cur[e] = t => RunsOn(e, t)
    BY DEF IInv, RunInv
  <2> QED
    BY <1>a, <1>2, <2>1 DEF ExitAlone, SuspendSwitch, RunsOn, Blocking
<1>3. ASSUME NEW e \in Xstreams, NEW t \in Threads, JoinPool(e, t) PROVE InPool(v, q)'
  <2>1. cur[e] = t => RunsOn(e, t)
    BY DEF IInv, RunInv
  <2> QED
    BY <1>a, <1>3, <2>1 DEF JoinPool, RunsOn, Blocking
<1>4. ASSUME NEW e \in Xstreams, NEW t \in Threads,
             JoinRequest(e, t) \/ JoinBlock(e, t)
      PROVE  InPool(v, q)'
  <2>1. cur[e] = t => RunsOn(e, t)
    BY DEF IInv, RunInv
  <2> QED
    BY <1>a, <1>4, <2>1 DEF JoinRequest, JoinBlock, RunsOn, Blocking
<1>5. ASSUME NEW e \in Xstreams, NEW t \in Threads,
             JoinLink(e, t) \/ JoinSuspend(e, t) \/ JoinResumed(e, t)
               \/ JoinYield(e, t) \/ ExitStore(e, t)
      PROVE  InPool(v, q)'
  <2>1. cur[e] = t => RunsOn(e, t)
    BY DEF IInv, RunInv
  <2> QED
    BY <1>a, <1>5, <2>1 DEF JoinLink, JoinSuspend, JoinResumed, JoinYield, ExitStore, RunsOn,
         Blocking
<1>6. ASSUME NEW e \in Xstreams, NEW t \in Threads,
             ExitRequest(e, t) \/ ExitLink(e, t)
      PROVE  InPool(v, q)'
  <2>1. cur[e] = t => RunsOn(e, t)
    BY DEF IInv, RunInv
  <2> QED
    BY <1>a, <1>6, <2>1 DEF ExitRequest, ExitLink, RunsOn, Blocking
<1>7. ASSUME NEW e \in Xstreams, NEW t \in Threads, ExitLeave(e, t) PROVE InPool(v, q)'
  <2>1. cur[e] = t => RunsOn(e, t)
    BY DEF IInv, RunInv
  <2> QED
    BY <1>a, <1>7, <2>1 DEF ExitLeave, RunsOn, Blocking
<1>8. ASSUME NEW e \in Xstreams, NEW t \in Threads,
             YieldToSwitch(e, t) \/ MigrateRequest(e, t)
      PROVE  InPool(v, q)'
  <2>1. cur[e] = t => RunsOn(e, t)
    BY DEF IInv, RunInv
  <2> QED
    BY <1>a, <1>8, <2>1 DEF YieldToSwitch, MigrateRequest, RunsOn, Blocking
<1>9. ASSUME NEW e \in Xstreams, NEW t \in Threads, MigrateCount(e, t) PROVE InPool(v, q)'
  <2>1. cur[e] = t => RunsOn(e, t)
    BY DEF IInv, RunInv
  <2> QED
    BY <1>a, <1>9, <2>1 DEF MigrateCount, RunsOn, Blocking
<1>10. ASSUME NEW e \in Xstreams, NEW t \in Threads, Pop(e, t) PROVE InPool(v, q)'
  <2> DEFINE u == arg[e]
  <2>1. cur[e] = e /\ pc[e] \in InHand \cup InSetReady => u \in Threads /\ HeldBy(e, u)
    BY HandTarget
  <2> QED
    BY <1>a, <1>10, <2>1 DEF Pop, HeldBy, Canceling
<1>11. ASSUME NEW e \in Xstreams, NEW t \in Threads, NEW u \in Threads,
              Resume(e, t, u) \/ JoinStart(e, t, u)
       PROVE  InPool(v, q)'
  <2>1. cur[e] = t => RunsOn(e, t)
    BY DEF IInv, RunInv
  <2> QED
    BY <1>a, <1>11, <2>1 DEF Resume, JoinStart, RunsOn, Blocking
<1>12. ASSUME NEW e \in Xstreams, NEW t \in Threads, NEW u \in Threads, Cancel(e, t, u)
       PROVE  InPool(v, q)'
  <2>1. cur[e] = t => RunsOn(e, t)
    BY DEF IInv, RunInv
  <2> QED
    BY <1>a, <1>12, <2>1 DEF Cancel, RunsOn, Blocking
<1>13. ASSUME NEW e \in Xstreams, NEW t \in Threads, NEW u \in Threads, YieldToPush(e, t, u)
       PROVE  InPool(v, q)'
  <2>1. cur[e] = t => RunsOn(e, t)
    BY DEF IInv, RunInv
  <2> QED
    BY <1>a, <1>13, <2>1 DEF YieldToPush, RunsOn, Blocking
<1>14. ASSUME NEW e \in Xstreams, NEW t \in Threads, NEW u \in Threads, NEW d \in Xstreams,
              MigrateToXstream(e, t, u, d)
       PROVE  InPool(v, q)'
  <2>1. cur[e] = t => RunsOn(e, t)
    BY DEF IInv, RunInv
  <2> QED
    BY <1>a, <1>14, <2>1 DEF MigrateToXstream, RunsOn, Blocking
<1>15. ASSUME NEW e \in Xstreams, NEW t \in Threads, NEW u \in Threads, NEW p \in Pools,
              MigrateToPool(e, t, u, p)
       PROVE  InPool(v, q)'
  <2>1. cur[e] = t => RunsOn(e, t)
    BY DEF IInv, RunInv
  <2> QED
    BY <1>a, <1>15, <2>1 DEF MigrateToPool, RunsOn, Blocking
<1>16. ASSUME NEW e \in Xstreams, NEW c \in Contexts,
              SetReadySpin(e, c) \/ SetReadyDec(e, c)
       PROVE  InPool(v, q)'
  <2> DEFINE u == arg[e]
  <2>1. cur[e] = e /\ pc[e] \in InHand \cup InSetReady => u \in Threads /\ HeldBy(e, u)
    BY HandTarget
  <2> QED
    BY <1>a, <1>16, <2>1 DEF SetReadySpin, SetReadyDec, HeldBy, Canceling
<1>17. ASSUME NEW e \in Xstreams, NEW c \in Contexts, SetReadyPush(e, c) PROVE InPool(v, q)'
  <2> DEFINE j == Woken(c)
  <2>1. /\ j \in Threads /\ state[j] = "READY" /\ pc[j] \in Off /\ from[c] = p_pool[j]
        /\ "BLOCK" \notin request[j] /\ "TERMINATE" \notin request[j]
        /\ \A y \in Xstreams : ~ Hand(y, j)
    BY <1>17 DEF SetReadyPush, IInv, WakeInv, WokenBy
  <2>2. c # v => pc'[v] = pc[v]
    BY <1>17 DEF SetReadyPush
  <2>3. CASE v = j
    <3>1. pc[v] # "done"
      BY <1>17, <2>1, <2>3 DEF SetReadyPush, IInv, WakeInv, WokenBy
    <3> QED
      BY <1>a, <1>17, <2>1, <2>2, <2>3, <3>1 DEF SetReadyPush
  <2>4. CASE v # j
    BY <1>a, <1>17, <2>1, <2>2, <2>4 DEF SetReadyPush
  <2> QED
    BY <2>3, <2>4
<1>18. ASSUME NEW e \in Xstreams,
              Run(e) \/ AfterBlock(e) \/ AfterTerminate(e) \/ End(e)
                \/ MigrateThread(e) \/ MigrateDec(e) \/ CancelStart(e)
                \/ CancelRequest(e) \/ CancelLink(e) \/ HasToStop(e)
       PROVE  InPool(v, q)'
  <2> DEFINE u == arg[e]
  <2>1. cur[e] = e /\ pc[e] \in InHand \cup InSetReady => u \in Threads /\ HeldBy(e, u)
    BY HandTarget
  <2> QED
    BY <1>a, <1>18, <2>1 DEF Run, AfterBlock, AfterTerminate, End, MigrateThread, MigrateDec,
         CancelStart, CancelRequest, CancelLink, HasToStop, HeldBy, Canceling
<1>19. ASSUME NEW e \in Xstreams, AfterYield(e) PROVE InPool(v, q)'
  <2> DEFINE u == arg[e]
  <2>1. /\ u \in Threads /\ HeldBy(e, u) /\ cur[e] = e /\ pc[e] = "after"
        /\ "BLOCK" \notin request[u] /\ "TERMINATE" \notin request[u]
    BY <1>19, HandTarget DEF AfterYield, NonYield, Requests
  <2>2. pc[u] # "done"
    BY <2>1 DEF HeldBy
  <2>3. CASE v = u
    BY <1>19, <2>1, <2>2, <2>3 DEF AfterYield, HeldBy
  <2>4. CASE v # u
    BY <1>a, <1>19, <2>1, <2>4 DEF AfterYield
  <2> QED
    BY <2>3, <2>4
<1>20. ASSUME NEW e \in Xstreams,
              ReadSize(e) \/ ReadMigrations(e) \/ ReadBlocked(e) \/ XstreamJoin(e)
       PROVE  InPool(v, q)'
  <2> DEFINE u == arg[e]
  <2>1. cur[e] = e /\ pc[e] \in InHand \cup InSetReady => u \in Threads /\ HeldBy(e, u)
    BY HandTarget
  <2> QED
    BY <1>a, <1>20, <2>1 DEF ReadSize, ReadMigrations, ReadBlocked, XstreamJoin, HeldBy, Canceling
<1>21. CASE UNCHANGED vars
  BY <1>a, <1>21 DEF vars
<1> HIDE DEF InPool
<1> QED
  BY <1>1, <1>2, <1>3, <1>4, <1>5, <1>6, <1>7, <1>8, <1>9, <1>10, <1>11, <1>12, <1>13,
    <1>14, <1>15, <1>16, <1>17, <1>18, <1>19, <1>20, <1>21 DEF Next, EsStep, SchedStep,
    UserStep, RuntimeStep, JoinStep, ExitStep, ExitStart

(* A scheduler that has a ULT in its hands is the only one.                *)
LEMMA HandInvStep ==
  ASSUME ConstantsAssumption, Program, IInv, [Next]_vars
  PROVE  HandInv'
<1> SUFFICES ASSUME NEW x \in Xstreams, NEW v \in Threads, Hand(x, v)' PROVE HeldBy(x, v)'
  BY DEF HandInv
<1> USE ConstantsAssumption DEF ConstantsAssumption, StackOK, PcOK, ThreadOK, StateOK,
  CountOK, RetOK, Hand, HeldBy, Canceling, InHand, InSetReady, Goto, At, ToSched,
  AddRequest, SetBlocked, Pooled, Contexts, Handles, Suspended, Migratable, stackVars,
  threadVars, poolVars, stopVars
<1>0. StackOK /\ PcOK /\ ThreadOK /\ StateOK /\ CountOK /\ RetOK
  BY DEF IInv
<1> USE <1>0
<1>a. Hand(x, v) => HeldBy(x, v)
  BY DEF IInv, HandInv
<1>b. "BLOCK" \in request[v] => state[v] = "BLOCKED"
  BY DEF IInv, BlockedInv, BlockedAt
<1>c. state[v] = "BLOCKED" => "TERMINATE" \notin request[v]
  BY DEF IInv, BlockedInv, BlockedAt
<1>1. ASSUME NEW e \in Xstreams, NEW t \in Threads, Yield(e, t) PROVE HeldBy(x, v)'
  <2>1. cur[e] = t => RunsOn(e, t)
    BY DEF IInv, RunInv
  <2>2. \A y \in Xstreams : cur[y] = t => y = e
    BY <1>1 DEF Yield, IInv, RunInv, RunsOn
  <2>3. \A y \in Xstreams : ~ Hand(y, t)
    BY <1>1 DEF Yield, IInv, HandInv
  <2> QED
    BY <1>a, <1>1, <2>1, <2>2, <2>3 DEF Yield, RunsOn, Blocking
<1>2. ASSUME NEW e \in Xstreams, NEW t \in Threads, Preempt(e, t) PROVE HeldBy(x, v)'
  <2>1. cur[e] = t => RunsOn(e, t)
    BY DEF IInv, RunInv
  <2>2. \A y \in Xstreams : cur[y] = t => y = e
    BY <1>2 DEF Preempt, IInv, RunInv, RunsOn
  <2>3. \A y \in Xstreams : ~ Hand(y, t)
    BY <1>2 DEF Preempt, IInv, HandInv
  <2> QED
    BY <1>a, <1>2, <2>1, <2>2, <2>3 DEF Preempt, RunsOn, Blocking
<1>3. ASSUME NEW e \in Xstreams, NEW t \in Threads, SuspendBlock(e, t) PROVE HeldBy(x, v)'
  <2>1. cur[e] = t => RunsOn(e, t)
    BY DEF IInv, RunInv
  <2>2. \A y \in Xstreams : cur[y] = t => y = e
    BY <1>3 DEF SuspendBlock, IInv, RunInv, RunsOn
  <2>3. \A y \in Xstreams : ~ Hand(y, t)
    BY <1>3 DEF SuspendBlock, IInv, HandInv
  <2> QED
    BY <1>a, <1>3, <2>1, <2>2, <2>3 DEF SuspendBlock, RunsOn, Blocking
<1>4. ASSUME NEW e \in Xstreams, NEW t \in Threads, ExitWake(e, t) PROVE HeldBy(x, v)'
  <2>1. cur[e] = t => RunsOn(e, t)
    BY DEF IInv, RunInv
  <2>2. \A y \in Xstreams : cur[y] = t => y = e
    BY <1>4 DEF ExitWake, IInv, RunInv, RunsOn
  <2>3. \A y \in Xstreams : ~ Hand(y, t)
    BY <1>4 DEF ExitWake, IInv, HandInv
  <2> QED
    BY <1>a, <1>4, <2>1, <2>2, <2>3 DEF ExitWake, RunsOn, Blocking
<1>5. ASSUME NEW e \in Xstreams, NEW t \in Threads, ExitAlone(e, t) PROVE HeldBy(x, v)'
  <2>1. cur[e] = t => RunsOn(e, t)
    BY DEF IInv, RunInv
  <2>2. \A y \in Xstreams : cur[y] = t => y = e
    BY <1>5 DEF ExitAlone, IInv, RunInv, RunsOn
  <2>3. \A y \in Xstreams : ~ Hand(y, t)
    BY <1>5 DEF ExitAlone, IInv, HandInv
  <2> QED
    BY <1>a, <1>5, <2>1, <2>2, <2>3 DEF ExitAlone, RunsOn, Blocking
<1>6. ASSUME NEW e \in Xstreams, NEW t \in Threads, SuspendSwitch(e, t) PROVE HeldBy(x, v)'
  <2>1. cur[e] = t => RunsOn(e, t)
    BY DEF IInv, RunInv
  <2>2. \A y \in Xstreams : cur[y] = t => y = e
    BY <1>6 DEF SuspendSwitch, IInv, RunInv, RunsOn
  <2>3. \A y \in Xstreams : ~ Hand(y, t)
    BY <1>6 DEF SuspendSwitch, IInv, HandInv
  <2> QED
    BY <1>a, <1>6, <2>1, <2>2, <2>3 DEF SuspendSwitch, RunsOn, Blocking
<1>7. ASSUME NEW e \in Xstreams, NEW t \in Threads, JoinPool(e, t) PROVE HeldBy(x, v)'
  <2>1. cur[e] = t => RunsOn(e, t)
    BY DEF IInv, RunInv
  <2>2. \A y \in Xstreams : cur[y] = t => y = e
    BY <1>7 DEF JoinPool, IInv, RunInv, RunsOn
  <2>3. \A y \in Xstreams : ~ Hand(y, t)
    BY <1>7 DEF JoinPool, IInv, HandInv
  <2> QED
    BY <1>a, <1>7, <2>1, <2>2, <2>3 DEF JoinPool, RunsOn, Blocking
<1>8. ASSUME NEW e \in Xstreams, NEW t \in Threads, JoinRequest(e, t) PROVE HeldBy(x, v)'
  <2>1. cur[e] = t => RunsOn(e, t)
    BY DEF IInv, RunInv
  <2>2. \A y \in Xstreams : cur[y] = t => y = e
    BY <1>8 DEF JoinRequest, IInv, RunInv, RunsOn
  <2>3. \A y \in Xstreams : ~ Hand(y, t)
    BY <1>8 DEF JoinRequest, IInv, HandInv
  <2> QED
    BY <1>a, <1>8, <2>1, <2>2, <2>3 DEF JoinRequest, RunsOn, Blocking
<1>9. ASSUME NEW e \in Xstreams, NEW t \in Threads,
             JoinBlock(e, t) \/ JoinLink(e, t)
      PROVE  HeldBy(x, v)'
  <2>1. cur[e] = t => RunsOn(e, t)
    BY DEF IInv, RunInv
  <2>2. \A y \in Xstreams : cur[y] = t => y = e
    BY <1>9 DEF JoinBlock, JoinLink, IInv, RunInv, RunsOn
  <2>3. \A y \in Xstreams : ~ Hand(y, t)
    BY <1>9 DEF JoinBlock, JoinLink, IInv, HandInv
  <2> QED
    BY <1>a, <1>9, <2>1, <2>2, <2>3 DEF JoinBlock, JoinLink, RunsOn, Blocking
<1>10. ASSUME NEW e \in Xstreams, NEW t \in Threads, ExitJump(e, t) PROVE HeldBy(x, v)'
  <2>1. cur[e] = t => RunsOn(e, t)
    BY DEF IInv, RunInv
  <2>2. \A y \in Xstreams : cur[y] = t => y = e
    BY <1>10 DEF ExitJump, IInv, RunInv, RunsOn
  <2>3. \A y \in Xstreams : ~ Hand(y, t)
    BY <1>10 DEF ExitJump, IInv, HandInv
  <2> DEFINE j == p_link[t]
  <2>4. j \in Threads /\ j # t /\ \A y \in Xstreams : ~ Hand(y, j)
    BY <1>10, JumpTarget
  <2>5. x # e /\ cur[x] = x /\ v # t
    BY <1>10, <2>3, <2>4 DEF ExitJump
  <2>6. Hand(x, v) /\ v # j
    BY <1>10, <2>4, <2>5 DEF ExitJump
  <2>7. \A y \in Xstreams : Hand(y, v)' => Hand(y, v)
    BY <1>10, <2>4, <2>5 DEF ExitJump
  <2> QED
    BY <1>a, <1>10, <2>4, <2>5, <2>6, <2>7 DEF ExitJump
<1>11. ASSUME NEW e \in Xstreams, NEW t \in Threads, JoinSuspend(e, t) PROVE HeldBy(x, v)'
  <2>1. cur[e] = t => RunsOn(e, t)
    BY DEF IInv, RunInv
  <2>2. \A y \in Xstreams : cur[y] = t => y = e
    BY <1>11 DEF JoinSuspend, IInv, RunInv, RunsOn
  <2>3. \A y \in Xstreams : ~ Hand(y, t)
    BY <1>11 DEF JoinSuspend, IInv, HandInv
  <2> QED
    BY <1>a, <1>11, <2>1, <2>2, <2>3 DEF JoinSuspend, RunsOn, Blocking
<1>12. ASSUME NEW e \in Xstreams, NEW t \in Threads, JoinResumed(e, t) PROVE HeldBy(x, v)'
  <2>1. cur[e] = t => RunsOn(e, t)
    BY DEF IInv, RunInv
  <2>2. \A y \in Xstreams : cur[y] = t => y = e
    BY <1>12 DEF JoinResumed, IInv, RunInv, RunsOn
  <2>3. \A y \in Xstreams : ~ Hand(y, t)
    BY <1>12 DEF JoinResumed, IInv, HandInv
  <2> QED
    BY <1>a, <1>12, <2>1, <2>2, <2>3 DEF JoinResumed, RunsOn, Blocking
<1>13. ASSUME NEW e \in Xstreams, NEW t \in Threads,
              ExitStore(e, t) \/ ExitRequest(e, t)
       PROVE  HeldBy(x, v)'
  <2>1. cur[e] = t => RunsOn(e, t)
    BY DEF IInv, RunInv
  <2>2. \A y \in Xstreams : cur[y] = t => y = e
    BY <1>13 DEF ExitStore, ExitRequest, IInv, RunInv, RunsOn
  <2>3. \A y \in Xstreams : ~ Hand(y, t)
    BY <1>13 DEF ExitStore, ExitRequest, IInv, HandInv
  <2> QED
    BY <1>a, <1>13, <2>1, <2>2, <2>3 DEF ExitStore, ExitRequest, RunsOn, Blocking
<1>14. ASSUME NEW e \in Xstreams, NEW t \in Threads, ExitLink(e, t) PROVE HeldBy(x, v)'
  <2>1. cur[e] = t => RunsOn(e, t)
    BY DEF IInv, RunInv
  <2>2. \A y \in Xstreams : cur[y] = t => y = e
    BY <1>14 DEF ExitLink, IInv, RunInv, RunsOn
  <2>3. \A y \in Xstreams : ~ Hand(y, t)
    BY <1>14 DEF ExitLink, IInv, HandInv
  <2> QED
    BY <1>a, <1>14, <2>1, <2>2, <2>3 DEF ExitLink, RunsOn, Blocking
<1>15. ASSUME NEW e \in Xstreams, NEW t \in Threads, ExitLeave(e, t) PROVE HeldBy(x, v)'
  <2>1. cur[e] = t => RunsOn(e, t)
    BY DEF IInv, RunInv
  <2>2. \A y \in Xstreams : cur[y] = t => y = e
    BY <1>15 DEF ExitLeave, IInv, RunInv, RunsOn
  <2>3. \A y \in Xstreams : ~ Hand(y, t)
    BY <1>15 DEF ExitLeave, IInv, HandInv
  <2> QED
    BY <1>a, <1>15, <2>1, <2>2, <2>3 DEF ExitLeave, RunsOn, Blocking
<1>16. ASSUME NEW e \in Xstreams, NEW t \in Threads, MigrateCount(e, t) PROVE HeldBy(x, v)'
  <2>1. cur[e] = t => RunsOn(e, t)
    BY DEF IInv, RunInv
  <2>2. \A y \in Xstreams : cur[y] = t => y = e
    BY <1>16 DEF MigrateCount, IInv, RunInv, RunsOn
  <2>3. \A y \in Xstreams : ~ Hand(y, t)
    BY <1>16 DEF MigrateCount, IInv, HandInv
  <2> QED
    BY <1>a, <1>16, <2>1, <2>2, <2>3 DEF MigrateCount, RunsOn, Blocking
<1>17. ASSUME NEW e \in Xstreams, NEW t \in Threads, JoinYield(e, t) PROVE HeldBy(x, v)'
  <2>1. cur[e] = t => RunsOn(e, t)
    BY DEF IInv, RunInv
  <2>2. \A y \in Xstreams : cur[y] = t => y = e
    BY <1>17 DEF JoinYield, IInv, RunInv, RunsOn
  <2>3. \A y \in Xstreams : ~ Hand(y, t)
    BY <1>17 DEF JoinYield, IInv, HandInv
  <2>4. CASE state[arg[t]] = "TERMINATED"
    BY <1>a, <1>17, <2>1, <2>2, <2>3, <2>4 DEF JoinYield, RunsOn, Blocking
  <2>5. CASE state[arg[t]] # "TERMINATED"
    <3>1. cur' = [cur EXCEPT ![e] = e] /\ arg' = [arg EXCEPT ![e] = t]
            /\ state' = [state EXCEPT ![t] = "READY"]
          /\ cur[e] = t /\ UNCHANGED <<p_pool, pool, p_last_xstream>>
               /\ pc' = [pc EXCEPT ![t] = "join.yield", ![e] = "after"] /\ pc[t] = "join.yield"
      BY <1>17, <2>5 DEF JoinYield
    <3>2. \A y \in Xstreams : y # e => pc'[y] = pc[y]
      BY <3>1
    <3>3. request'[v] \cap {"BLOCK", "TERMINATE"} = request[v] \cap {"BLOCK", "TERMINATE"}
      BY <1>17, <2>5 DEF JoinYield
    <3>4. CASE x = e
      BY <1>17, <2>1, <2>2, <2>3, <3>1, <3>2, <3>3, <3>4 DEF RunsOn, Blocking
    <3>5. CASE x # e
      <4>1. Hand(x, v) /\ v # t
        BY <2>3, <3>1, <3>2, <3>5
      <4>2. pc'[v] = pc[v] /\ pc'[x] = pc[x] /\ state'[v] = state[v]
        BY <3>1, <3>2, <3>5, <4>1
      <4>3. \A y \in Xstreams : Hand(y, v)' => Hand(y, v)
        BY <3>1, <3>2, <4>1
      <4> QED
        BY <1>a, <3>1, <3>3, <4>1, <4>2, <4>3
    <3> QED
      BY <3>4, <3>5
  <2> QED
    BY <2>4, <2>5
<1>18. ASSUME NEW e \in Xstreams, NEW t \in Threads, YieldToSwitch(e, t) PROVE HeldBy(x, v)'
  <2>1. cur[e] = t => RunsOn(e, t)
    BY DEF IInv, RunInv
  <2>2. \A y \in Xstreams : cur[y] = t => y = e
    BY <1>18 DEF YieldToSwitch, IInv, RunInv, RunsOn
  <2>3. \A y \in Xstreams : ~ Hand(y, t)
    BY <1>18 DEF YieldToSwitch, IInv, HandInv
  <2> DEFINE u == arg[t]
  <2>4. u \in Threads /\ u # t /\ u \in pool[SchedPool[e]] /\ pc[u] # "yield_to"
          /\ p_pool[u] = SchedPool[e]
    BY <1>18, YieldToTarget DEF YieldToSwitch
  <2>5. \A y \in Xstreams : ~ Hand(y, u)
    BY <2>4, PoolTarget
  <2>6. x # e /\ Hand(x, v) /\ v # t /\ v # u
    BY <1>18, <2>3, <2>4, <2>5 DEF YieldToSwitch
  <2>7. \A y \in Xstreams : Hand(y, v)' => Hand(y, v)
    BY <1>18, <2>4, <2>6 DEF YieldToSwitch
  <2> QED
    BY <1>a, <1>18, <2>4, <2>6, <2>7 DEF YieldToSwitch
<1>19. ASSUME NEW e \in Xstreams, NEW t \in Threads, MigrateRequest(e, t) PROVE HeldBy(x, v)'
  <2>1. cur[e] = t => RunsOn(e, t)
    BY DEF IInv, RunInv
  <2>2. \A y \in Xstreams : cur[y] = t => y = e
    BY <1>19 DEF MigrateRequest, IInv, RunInv, RunsOn
  <2>3. \A y \in Xstreams : ~ Hand(y, t)
    BY <1>19 DEF MigrateRequest, IInv, HandInv
  <2>4. CASE t = arg[t]
    <3>1. cur' = [cur EXCEPT ![e] = e] /\ arg' = [arg EXCEPT ![e] = t]
            /\ state' = [state EXCEPT ![t] = "READY"]
          /\ cur[e] = t /\ UNCHANGED <<p_pool, pool, p_last_xstream>> /\ pc[t] = "mig.request"
               /\ \E l \in {"user", "mig.count"} : pc' = [pc EXCEPT ![t] = l, ![e] = "after"]
      BY <1>19, <2>4 DEF MigrateRequest
    <3>2. \A y \in Xstreams : y # e => pc'[y] = pc[y]
      BY <3>1
    <3>3. request'[v] \cap {"BLOCK", "TERMINATE"} = request[v] \cap {"BLOCK", "TERMINATE"}
      BY <1>19, <2>4 DEF MigrateRequest
    <3>4. CASE x = e
      BY <1>19, <2>1, <2>2, <2>3, <3>1, <3>2, <3>3, <3>4 DEF RunsOn, Blocking
    <3>5. CASE x # e
      <4>1. Hand(x, v) /\ v # t
        BY <2>3, <3>1, <3>2, <3>5
      <4>2. pc'[v] = pc[v] /\ pc'[x] = pc[x] /\ state'[v] = state[v]
        BY <3>1, <3>2, <3>5, <4>1
      <4>3. \A y \in Xstreams : Hand(y, v)' => Hand(y, v)
        BY <3>1, <3>2, <4>1
      <4> QED
        BY <1>a, <3>1, <3>3, <4>1, <4>2, <4>3
    <3> QED
      BY <3>4, <3>5
  <2>5. CASE t # arg[t]
    BY <1>a, <1>19, <2>1, <2>2, <2>3, <2>5 DEF MigrateRequest, RunsOn, Blocking
  <2> QED
    BY <2>4, <2>5
<1>20. ASSUME NEW e \in Xstreams, NEW t \in Threads, Pop(e, t) PROVE HeldBy(x, v)'
  <2>1. /\ p_pool[t] = SchedPool[e] /\ state[t] = "READY" /\ pc[t] # "done"
        /\ "BLOCK" \notin request[t] /\ "TERMINATE" \notin request[t]
        /\ \A y \in Xstreams : ~ Hand(y, t) /\ (cur[y] = t => pc[t] = "yield_to"
             /\ SchedPool[y] = SchedPool[e])
    BY <1>20, PoolTarget DEF Pop
  <2>2. \A y \in Xstreams : cur[y] # t
    <3> SUFFICES ASSUME NEW y \in Xstreams, cur[y] = t PROVE FALSE
      OBVIOUS
    <3>1. \A z \in Xstreams : SchedPool[z] = SchedPool[y] => z = y
      BY <2>1, YieldToTarget
    <3> QED
      BY <1>20, <2>1, <3>1 DEF Pop
  <2>3. \A p \in Pools : t \in pool[p] => p = SchedPool[e]
    BY <2>1 DEF IInv, PoolInv, InPool
  <2>4. CASE x = e
    BY <1>20, <2>1, <2>2, <2>3, <2>4 DEF Pop
  <2>5. CASE x # e
    BY <1>a, <1>20, <2>1, <2>5 DEF Pop
  <2> QED
    BY <2>4, <2>5
<1>21. ASSUME NEW e \in Xstreams, NEW t \in Threads, NEW u \in Threads,
              Resume(e, t, u) \/ JoinStart(e, t, u)
       PROVE  HeldBy(x, v)'
  <2>1. cur[e] = t => RunsOn(e, t)
    BY DEF IInv, RunInv
  <2>2. \A y \in Xstreams : cur[y] = t => y = e
    BY <1>21 DEF Resume, JoinStart, IInv, RunInv, RunsOn
  <2>3. \A y \in Xstreams : ~ Hand(y, t)
    BY <1>21 DEF Resume, JoinStart, IInv, HandInv
  <2> QED
    BY <1>a, <1>21, <2>1, <2>2, <2>3 DEF Resume, JoinStart, RunsOn, Blocking
<1>22. ASSUME NEW e \in Xstreams, NEW t \in Threads, NEW u \in Threads, Cancel(e, t, u)
       PROVE  HeldBy(x, v)'
  <2>1. cur[e] = t => RunsOn(e, t)
    BY DEF IInv, RunInv
  <2>2. \A y \in Xstreams : cur[y] = t => y = e
    BY <1>22 DEF Cancel, IInv, RunInv, RunsOn
  <2>3. \A y \in Xstreams : ~ Hand(y, t)
    BY <1>22 DEF Cancel, IInv, HandInv
  <2> QED
    BY <1>a, <1>22, <2>1, <2>2, <2>3 DEF Cancel, RunsOn, Blocking
<1>23. ASSUME NEW e \in Xstreams, NEW t \in Threads, NEW u \in Threads, YieldToPush(e, t, u)
       PROVE  HeldBy(x, v)'
  <2>1. cur[e] = t => RunsOn(e, t)
    BY DEF IInv, RunInv
  <2>2. \A y \in Xstreams : cur[y] = t => y = e
    BY <1>23 DEF YieldToPush, IInv, RunInv, RunsOn
  <2>3. \A y \in Xstreams : ~ Hand(y, t)
    BY <1>23 DEF YieldToPush, IInv, HandInv
  <2> QED
    BY <1>a, <1>23, <2>1, <2>2, <2>3 DEF YieldToPush, RunsOn, Blocking
<1>24. ASSUME NEW e \in Xstreams, NEW t \in Threads, NEW u \in Threads, NEW d \in Xstreams,
              MigrateToXstream(e, t, u, d)
       PROVE  HeldBy(x, v)'
  <2>1. cur[e] = t => RunsOn(e, t)
    BY DEF IInv, RunInv
  <2>2. \A y \in Xstreams : cur[y] = t => y = e
    BY <1>24 DEF MigrateToXstream, IInv, RunInv, RunsOn
  <2>3. \A y \in Xstreams : ~ Hand(y, t)
    BY <1>24 DEF MigrateToXstream, IInv, HandInv
  <2> QED
    BY <1>a, <1>24, <2>1, <2>2, <2>3 DEF MigrateToXstream, RunsOn, Blocking
<1>25. ASSUME NEW e \in Xstreams, NEW t \in Threads, NEW u \in Threads, NEW p \in Pools,
              MigrateToPool(e, t, u, p)
       PROVE  HeldBy(x, v)'
  <2>1. cur[e] = t => RunsOn(e, t)
    BY DEF IInv, RunInv
  <2>2. \A y \in Xstreams : cur[y] = t => y = e
    BY <1>25 DEF MigrateToPool, IInv, RunInv, RunsOn
  <2>3. \A y \in Xstreams : ~ Hand(y, t)
    BY <1>25 DEF MigrateToPool, IInv, HandInv
  <2> QED
    BY <1>a, <1>25, <2>1, <2>2, <2>3 DEF MigrateToPool, RunsOn, Blocking
<1>26. ASSUME NEW e \in Xstreams, NEW c \in Contexts, SetReadySpin(e, c) PROVE HeldBy(x, v)'
  <2> DEFINE j == Woken(c)
  <2>1. j \in Threads /\ j # v
    BY <1>26, SpinTarget DEF SetReadySpin
  <2>2. CASE c = x
    BY <1>a, <1>26, <2>1, <2>2 DEF SetReadySpin
  <2>3. CASE c # x
    BY <1>a, <1>26, <2>1, <2>3 DEF SetReadySpin
  <2> QED
    BY <2>2, <2>3
<1>27. ASSUME NEW e \in Xstreams, NEW c \in Contexts, SetReadyPush(e, c) PROVE HeldBy(x, v)'
  <2> DEFINE j == Woken(c)
  <2>1. j \in Threads /\ j # v
    BY <1>27 DEF SetReadyPush, IInv, WakeInv, WokenBy
  <2>2. CASE c = x
    BY <1>a, <1>27, <2>1, <2>2 DEF SetReadyPush
  <2>3. CASE c # x
    BY <1>a, <1>27, <2>1, <2>3 DEF SetReadyPush
  <2> QED
    BY <2>2, <2>3
<1>28. ASSUME NEW e \in Xstreams, NEW c \in Contexts, SetReadyDec(e, c) PROVE HeldBy(x, v)'
  <2>1. CASE c = x
    BY <1>a, <1>28, <2>1 DEF SetReadyDec, IInv, EsInv
  <2>2. CASE c # x
    BY <1>a, <1>28, <2>2 DEF SetReadyDec
  <2> QED
    BY <2>1, <2>2
<1>29. ASSUME NEW e \in Xstreams, Run(e) PROVE HeldBy(x, v)'
  <2> DEFINE u == arg[e]
  <2>1. cur[e] = e /\ pc[e] \in InHand \cup InSetReady => u \in Threads /\ HeldBy(e, u)
    BY HandTarget
  <2> QED
    BY <1>a, <1>b, <1>c, <1>29, <2>1 DEF Run
<1>30. ASSUME NEW e \in Xstreams, AfterYield(e) PROVE HeldBy(x, v)'
  <2> DEFINE u == arg[e]
  <2>1. cur[e] = e /\ pc[e] \in InHand \cup InSetReady => u \in Threads /\ HeldBy(e, u)
    BY HandTarget
  <2> QED
    BY <1>a, <1>b, <1>c, <1>30, <2>1 DEF AfterYield
<1>31. ASSUME NEW e \in Xstreams, AfterBlock(e) PROVE HeldBy(x, v)'
  <2> DEFINE u == arg[e]
  <2>1. cur[e] = e /\ pc[e] \in InHand \cup InSetReady => u \in Threads /\ HeldBy(e, u)
    BY HandTarget
  <2> QED
    BY <1>a, <1>b, <1>c, <1>31, <2>1 DEF AfterBlock
<1>32. ASSUME NEW e \in Xstreams,
              AfterTerminate(e) \/ End(e)
       PROVE  HeldBy(x, v)'
  <2> DEFINE u == arg[e]
  <2>1. cur[e] = e /\ pc[e] \in InHand \cup InSetReady => u \in Threads /\ HeldBy(e, u)
    BY HandTarget
  <2> QED
    BY <1>a, <1>b, <1>c, <1>32, <2>1 DEF AfterTerminate, End
<1>33. ASSUME NEW e \in Xstreams, MigrateThread(e) PROVE HeldBy(x, v)'
  <2> DEFINE u == arg[e]
  <2>1. cur[e] = e /\ pc[e] \in InHand \cup InSetReady => u \in Threads /\ HeldBy(e, u)
    BY HandTarget
  <2> QED
    BY <1>a, <1>b, <1>c, <1>33, <2>1 DEF MigrateThread
<1>34. ASSUME NEW e \in Xstreams, MigrateDec(e) PROVE HeldBy(x, v)'
  <2> DEFINE u == arg[e]
  <2>1. cur[e] = e /\ pc[e] \in InHand \cup InSetReady => u \in Threads /\ HeldBy(e, u)
    BY HandTarget
  <2> QED
    BY <1>a, <1>b, <1>c, <1>34, <2>1 DEF MigrateDec
<1>35. ASSUME NEW e \in Xstreams, CancelRequest(e) PROVE HeldBy(x, v)'
  <2> DEFINE u == arg[e]
  <2>1. cur[e] = e /\ pc[e] \in InHand \cup InSetReady => u \in Threads /\ HeldBy(e, u)
    BY HandTarget
  <2> QED
    BY <1>a, <1>b, <1>c, <1>35, <2>1 DEF CancelRequest
<1>36. ASSUME NEW e \in Xstreams,
              CancelLink(e) \/ HasToStop(e)
       PROVE  HeldBy(x, v)'
  <2> DEFINE u == arg[e]
  <2>1. cur[e] = e /\ pc[e] \in InHand \cup InSetReady => u \in Threads /\ HeldBy(e, u)
    BY HandTarget
  <2> QED
    BY <1>a, <1>b, <1>c, <1>36, <2>1 DEF CancelLink, HasToStop
<1>37. ASSUME NEW e \in Xstreams, CancelStart(e) PROVE HeldBy(x, v)'
  <2> DEFINE u == arg[e]
  <2>1. /\ u \in Threads /\ HeldBy(e, u) /\ cur[e] = e /\ pc[e] \in {"run", "after"} /\ Cancelled(u)
        /\ state[u] = "READY" /\ pc[u] # "done" /\ "BLOCK" \notin request[u]
    BY <1>37, CancelTarget
  <2>2. CASE x = e
    BY <1>a, <1>37, <2>1, <2>2 DEF CancelStart, Cancelled
  <2>3. CASE x # e
    BY <1>a, <1>37, <2>3 DEF CancelStart, Cancelled
  <2> QED
    BY <2>2, <2>3
<1>38. ASSUME NEW e \in Xstreams,
              ReadSize(e) \/ ReadMigrations(e) \/ ReadBlocked(e) \/ XstreamJoin(e)
       PROVE  HeldBy(x, v)'
  <2> DEFINE u == arg[e]
  <2>1. cur[e] = e /\ pc[e] \in InHand \cup InSetReady => u \in Threads /\ HeldBy(e, u)
    BY HandTarget
  <2> QED
    BY <1>a, <1>b, <1>c, <1>38, <2>1 DEF ReadSize, ReadMigrations, ReadBlocked, XstreamJoin
<1>39. CASE UNCHANGED vars
  BY <1>a, <1>b, <1>39 DEF vars
<1> HIDE DEF Hand, HeldBy
<1> QED
  BY <1>1, <1>2, <1>3, <1>4, <1>5, <1>6, <1>7, <1>8, <1>9, <1>10, <1>11, <1>12, <1>13,
    <1>14, <1>15, <1>16, <1>17, <1>18, <1>19, <1>20, <1>21, <1>22, <1>23, <1>24, <1>25,
    <1>26, <1>27, <1>28, <1>29, <1>30, <1>31, <1>32, <1>33, <1>34, <1>35, <1>36, <1>37,
    <1>38, <1>39 DEF Next, EsStep, SchedStep, UserStep, RuntimeStep, JoinStep, ExitStep,
    ExitStart

=============================================================================
