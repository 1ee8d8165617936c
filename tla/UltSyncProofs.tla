--------------------------- MODULE UltSyncProofs ---------------------------
(***************************************************************************)
(* Theorems about UltSync, for every value of its constants: a ULT is in   *)
(* one place, nothing touches it once it has ended, a join sees the end of *)
(* its target, the blocked ULTs are counted, and an ES stops when its pool *)
(* is empty.  First the steps for the parts of IInv about blocked ULTs,    *)
(* their wakers and their joiners; the first three properties follow from  *)
(* IInv, the counts and the stop of a scheduler have invariants of their   *)
(* own beside it.                                                          *)
(***************************************************************************)
EXTENDS UltSyncInvariant

(* The BLOCK request stays until the scheduler of the ULT has it back.     *)
LEMMA BlockedInvStep ==
  ASSUME ConstantsAssumption, Program, IInv, [Next]_vars
  PROVE  BlockedInv'
<1> SUFFICES ASSUME NEW v \in Threads PROVE BlockedAt(v)'
  BY DEF BlockedInv
<1> USE ConstantsAssumption DEF ConstantsAssumption, StackOK, PcOK, ThreadOK, StateOK,
  CountOK, RetOK, On, Hand, BlockedAt, InHand, InSetReady, Goto, At, ToSched, AddRequest,
  SetBlocked, Pooled, Contexts, Handles, Suspended, Migratable, stackVars, threadVars,
  poolVars, stopVars
<1>0. StackOK /\ PcOK /\ ThreadOK /\ StateOK /\ CountOK /\ RetOK
  BY DEF IInv
<1> USE <1>0
<1>a. BlockedAt(v)
  BY DEF IInv, BlockedInv
<1>1. ASSUME NEW e \in Xstreams, NEW t \in Threads,
             Yield(e, t) \/ Preempt(e, t) \/ SuspendBlock(e, t) \/ ExitJump(e, t)
               \/ ExitWake(e, t)
      PROVE  BlockedAt(v)'
  <2>1. cur[e] = t => RunsOn(e, t)
    BY DEF IInv, RunInv
  <2>2. \A y \in Xstreams : cur[y] = t => y = e
    BY <1>1 DEF Yield, Preempt, SuspendBlock, ExitJump, ExitWake, IInv, RunInv, RunsOn
  <2>3. \A y \in Xstreams : ~ Hand(y, t)
    BY <1>1 DEF Yield, Preempt, SuspendBlock, ExitJump, ExitWake, IInv, HandInv, HeldBy
  <2> QED
    BY <1>a, <1>1, <2>1, <2>2, <2>3 DEF Yield, Preempt, SuspendBlock, ExitJump, ExitWake, RunsOn,
         Blocking
<1>2. ASSUME NEW e \in Xstreams, NEW t \in Threads,
             ExitAlone(e, t) \/ SuspendSwitch(e, t) \/ JoinRequest(e, t)
               \/ JoinBlock(e, t) \/ JoinLink(e, t)
      PROVE  BlockedAt(v)'
  <2>1. cur[e] = t => RunsOn(e, t)
    BY DEF IInv, RunInv
  <2>2. \A y \in Xstreams : cur[y] = t => y = e
    BY <1>2 DEF ExitAlone, SuspendSwitch, JoinRequest, JoinBlock, JoinLink, IInv, RunInv, RunsOn
  <2>3. \A y \in Xstreams : ~ Hand(y, t)
    BY <1>2 DEF ExitAlone, SuspendSwitch, JoinRequest, JoinBlock, JoinLink, IInv, HandInv, HeldBy
  <2> QED
    BY <1>a, <1>2, <2>1, <2>2, <2>3 DEF ExitAlone, SuspendSwitch, JoinRequest, JoinBlock, JoinLink,
         RunsOn, Blocking
<1>3. ASSUME NEW e \in Xstreams, NEW t \in Threads, JoinPool(e, t) PROVE BlockedAt(v)'
  <2>1. cur[e] = t => RunsOn(e, t)
    BY DEF IInv, RunInv
  <2>2. \A y \in Xstreams : cur[y] = t => y = e
    BY <1>3 DEF JoinPool, IInv, RunInv, RunsOn
  <2>3. \A y \in Xstreams : ~ Hand(y, t)
    BY <1>3 DEF JoinPool, IInv, HandInv, HeldBy
  <2> DEFINE u == arg[t]
  <2>4. u \in Threads /\ u # t /\ u \in pool[SchedPool[e]]
    <3>1. cur[e] = t /\ pc[t] = "join.pool" /\ u \in pool[p_pool[u]]
      BY <1>3 DEF JoinPool
    <3> QED
      BY <3>1, JoinPoolTarget
  <2>5. "BLOCK" \notin request[u]
    BY <2>4, PoolTarget
  <2>6. CASE v = t
    BY <1>3, <2>1, <2>4, <2>6 DEF JoinPool, RunsOn, Blocking
  <2>7. CASE v = u
    BY <1>3, <2>4, <2>5, <2>7 DEF JoinPool
  <2>8. CASE v # t /\ v # u
    BY <1>a, <1>3, <2>4, <2>8 DEF JoinPool
  <2> QED
    BY <2>6, <2>7, <2>8
<1>4. ASSUME NEW e \in Xstreams, NEW t \in Threads,
             JoinSuspend(e, t) \/ JoinResumed(e, t) \/ JoinYield(e, t)
               \/ ExitStore(e, t) \/ ExitRequest(e, t)
      PROVE  BlockedAt(v)'
  <2>1. cur[e] = t => RunsOn(e, t)
    BY DEF IInv, RunInv
  <2>2. \A y \in Xstreams : cur[y] = t => y = e
    BY <1>4 DEF JoinSuspend, JoinResumed, JoinYield, ExitStore, ExitRequest, IInv, RunInv, RunsOn
  <2>3. \A y \in Xstreams : ~ Hand(y, t)
    BY <1>4 DEF JoinSuspend, JoinResumed, JoinYield, ExitStore, ExitRequest, IInv, HandInv, HeldBy
  <2> QED
    BY <1>a, <1>4, <2>1, <2>2, <2>3 DEF JoinSuspend, JoinResumed, JoinYield, ExitStore, ExitRequest,
         RunsOn, Blocking
<1>5. ASSUME NEW e \in Xstreams, NEW t \in Threads, ExitLink(e, t) PROVE BlockedAt(v)'
  <2>1. cur[e] = t => RunsOn(e, t)
    BY DEF IInv, RunInv
  <2>2. \A y \in Xstreams : cur[y] = t => y = e
    BY <1>5 DEF ExitLink, IInv, RunInv, RunsOn
  <2>3. \A y \in Xstreams : ~ Hand(y, t)
    BY <1>5 DEF ExitLink, IInv, HandInv, HeldBy
  <2> QED
    BY <1>a, <1>5, <2>1, <2>2, <2>3 DEF ExitLink, RunsOn, Blocking
<1>6. ASSUME NEW e \in Xstreams, NEW t \in Threads, ExitLeave(e, t) PROVE BlockedAt(v)'
  <2>1. cur[e] = t => RunsOn(e, t)
    BY DEF IInv, RunInv
  <2>2. \A y \in Xstreams : cur[y] = t => y = e
    BY <1>6 DEF ExitLeave, IInv, RunInv, RunsOn
  <2>3. \A y \in Xstreams : ~ Hand(y, t)
    BY <1>6 DEF ExitLeave, IInv, HandInv, HeldBy
  <2> QED
    BY <1>a, <1>6, <2>1, <2>2, <2>3 DEF ExitLeave, RunsOn, Blocking
<1>7. ASSUME NEW e \in Xstreams, NEW t \in Threads, MigrateRequest(e, t) PROVE BlockedAt(v)'
  <2>1. cur[e] = t => RunsOn(e, t)
    BY DEF IInv, RunInv
  <2>2. \A y \in Xstreams : cur[y] = t => y = e
    BY <1>7 DEF MigrateRequest, IInv, RunInv, RunsOn
  <2>3. \A y \in Xstreams : ~ Hand(y, t)
    BY <1>7 DEF MigrateRequest, IInv, HandInv, HeldBy
  <2> QED
    BY <1>a, <1>7, <2>1, <2>2, <2>3 DEF MigrateRequest, RunsOn, Blocking
<1>8. ASSUME NEW e \in Xstreams, NEW t \in Threads, MigrateCount(e, t) PROVE BlockedAt(v)'
  <2>1. cur[e] = t => RunsOn(e, t)
    BY DEF IInv, RunInv
  <2>2. \A y \in Xstreams : cur[y] = t => y = e
    BY <1>8 DEF MigrateCount, IInv, RunInv, RunsOn
  <2>3. \A y \in Xstreams : ~ Hand(y, t)
    BY <1>8 DEF MigrateCount, IInv, HandInv, HeldBy
  <2> QED
    BY <1>a, <1>8, <2>1, <2>2, <2>3 DEF MigrateCount, RunsOn, Blocking
<1>9. ASSUME NEW e \in Xstreams, NEW t \in Threads, YieldToSwitch(e, t) PROVE BlockedAt(v)'
  <2>1. cur[e] = t => RunsOn(e, t)
    BY DEF IInv, RunInv
  <2>2. \A y \in Xstreams : cur[y] = t => y = e
    BY <1>9 DEF YieldToSwitch, IInv, RunInv, RunsOn
  <2>3. \A y \in Xstreams : ~ Hand(y, t)
    BY <1>9 DEF YieldToSwitch, IInv, HandInv, HeldBy
  <2> DEFINE u == arg[t]
  <2>4. u \in Threads /\ u # t /\ u \in pool[SchedPool[e]]
    BY <1>9, YieldToTarget DEF YieldToSwitch
  <2>5. "BLOCK" \notin request[u] /\ "BLOCK" \notin request[t] /\ state[t] = "READY"
    BY <1>9, <2>1, <2>4, PoolTarget DEF YieldToSwitch, RunsOn, Blocking
  <2>6. CASE v = t
    BY <1>9, <2>1, <2>4, <2>5, <2>6 DEF YieldToSwitch
  <2>7. CASE v = u
    BY <1>9, <2>4, <2>5, <2>7 DEF YieldToSwitch
  <2>8. CASE v # t /\ v # u
    BY <1>a, <1>9, <2>4, <2>8 DEF YieldToSwitch
  <2> QED
    BY <2>6, <2>7, <2>8
<1>10. ASSUME NEW e \in Xstreams, NEW t \in Threads, Pop(e, t) PROVE BlockedAt(v)'
  <2>1. "BLOCK" \notin request[t] /\ state[t] = "READY"
    BY <1>10, PoolTarget DEF Pop
  <2> QED
    BY <1>a, <1>10, <2>1 DEF Pop
<1>11. ASSUME NEW e \in Xstreams, NEW t \in Threads, NEW u \in Threads,
              Resume(e, t, u) \/ JoinStart(e, t, u)
       PROVE  BlockedAt(v)'
  <2>1. cur[e] = t => RunsOn(e, t)
    BY DEF IInv, RunInv
  <2>2. \A y \in Xstreams : cur[y] = t => y = e
    BY <1>11 DEF Resume, JoinStart, IInv, RunInv, RunsOn
  <2>3. \A y \in Xstreams : ~ Hand(y, t)
    BY <1>11 DEF Resume, JoinStart, IInv, HandInv, HeldBy
  <2> QED
    BY <1>a, <1>11, <2>1, <2>2, <2>3 DEF Resume, JoinStart, RunsOn, Blocking
<1>12. ASSUME NEW e \in Xstreams, NEW t \in Threads, NEW u \in Threads, Cancel(e, t, u)
       PROVE  BlockedAt(v)'
  <2>1. cur[e] = t => RunsOn(e, t)
    BY DEF IInv, RunInv
  <2>2. \A y \in Xstreams : cur[y] = t => y = e
    BY <1>12 DEF Cancel, IInv, RunInv, RunsOn
  <2>3. \A y \in Xstreams : ~ Hand(y, t)
    BY <1>12 DEF Cancel, IInv, HandInv, HeldBy
  <2> QED
    BY <1>a, <1>12, <2>1, <2>2, <2>3 DEF Cancel, RunsOn, Blocking
<1>13. ASSUME NEW e \in Xstreams, NEW t \in Threads, NEW u \in Threads, YieldToPush(e, t, u)
       PROVE  BlockedAt(v)'
  <2>1. cur[e] = t => RunsOn(e, t)
    BY DEF IInv, RunInv
  <2>2. \A y \in Xstreams : cur[y] = t => y = e
    BY <1>13 DEF YieldToPush, IInv, RunInv, RunsOn
  <2>3. \A y \in Xstreams : ~ Hand(y, t)
    BY <1>13 DEF YieldToPush, IInv, HandInv, HeldBy
  <2> QED
    BY <1>a, <1>13, <2>1, <2>2, <2>3 DEF YieldToPush, RunsOn, Blocking
<1>14. ASSUME NEW e \in Xstreams, NEW t \in Threads, NEW u \in Threads, NEW d \in Xstreams,
              MigrateToXstream(e, t, u, d)
       PROVE  BlockedAt(v)'
  <2>1. cur[e] = t => RunsOn(e, t)
    BY DEF IInv, RunInv
  <2>2. \A y \in Xstreams : cur[y] = t => y = e
    BY <1>14 DEF MigrateToXstream, IInv, RunInv, RunsOn
  <2>3. \A y \in Xstreams : ~ Hand(y, t)
    BY <1>14 DEF MigrateToXstream, IInv, HandInv, HeldBy
  <2> QED
    BY <1>a, <1>14, <2>1, <2>2, <2>3 DEF MigrateToXstream, RunsOn, Blocking
<1>15. ASSUME NEW e \in Xstreams, NEW t \in Threads, NEW u \in Threads, NEW p \in Pools,
              MigrateToPool(e, t, u, p)
       PROVE  BlockedAt(v)'
  <2>1. cur[e] = t => RunsOn(e, t)
    BY DEF IInv, RunInv
  <2>2. \A y \in Xstreams : cur[y] = t => y = e
    BY <1>15 DEF MigrateToPool, IInv, RunInv, RunsOn
  <2>3. \A y \in Xstreams : ~ Hand(y, t)
    BY <1>15 DEF MigrateToPool, IInv, HandInv, HeldBy
  <2> QED
    BY <1>a, <1>15, <2>1, <2>2, <2>3 DEF MigrateToPool, RunsOn, Blocking
<1>16. ASSUME NEW e \in Xstreams, NEW c \in Contexts,
              SetReadySpin(e, c) \/ SetReadyPush(e, c) \/ SetReadyDec(e, c)
       PROVE  BlockedAt(v)'
  <2> DEFINE u == arg[e]
  <2>1. cur[e] = e /\ pc[e] \in InHand \cup InSetReady => u \in Threads /\ HeldBy(e, u)
    BY HandTarget
  <2> QED
    BY <1>a, <1>16, <2>1 DEF SetReadySpin, SetReadyPush, SetReadyDec, HeldBy, Canceling
<1>17. ASSUME NEW e \in Xstreams,
              Run(e) \/ AfterBlock(e) \/ AfterTerminate(e) \/ End(e)
                \/ MigrateThread(e)
       PROVE  BlockedAt(v)'
  <2> DEFINE u == arg[e]
  <2>1. cur[e] = e /\ pc[e] \in InHand \cup InSetReady => u \in Threads /\ HeldBy(e, u)
    BY HandTarget
  <2> QED
    BY <1>a, <1>17, <2>1 DEF Run, AfterBlock, AfterTerminate, End, MigrateThread, HeldBy, Canceling
<1>18. ASSUME NEW e \in Xstreams,
              MigrateDec(e) \/ CancelStart(e)
       PROVE  BlockedAt(v)'
  <2> DEFINE u == arg[e]
  <2>1. cur[e] = e /\ pc[e] \in InHand \cup InSetReady => u \in Threads /\ HeldBy(e, u)
    BY HandTarget
  <2> QED
    BY <1>a, <1>18, <2>1 DEF MigrateDec, CancelStart, HeldBy, Canceling
<1>19. ASSUME NEW e \in Xstreams, CancelRequest(e) PROVE BlockedAt(v)'
  <2> DEFINE u == arg[e]
  <2>1. cur[e] = e /\ pc[e] \in InHand \cup InSetReady => u \in Threads /\ HeldBy(e, u)
    BY HandTarget
  <2> QED
    BY <1>a, <1>19, <2>1 DEF CancelRequest, HeldBy, Canceling
<1>20. ASSUME NEW e \in Xstreams,
              CancelLink(e) \/ HasToStop(e)
       PROVE  BlockedAt(v)'
  <2> DEFINE u == arg[e]
  <2>1. cur[e] = e /\ pc[e] \in InHand \cup InSetReady => u \in Threads /\ HeldBy(e, u)
    BY HandTarget
  <2> QED
    BY <1>a, <1>20, <2>1 DEF CancelLink, HasToStop, HeldBy, Canceling
<1>21. ASSUME NEW e \in Xstreams, AfterYield(e) PROVE BlockedAt(v)'
  <2> DEFINE u == arg[e]
  <2>1. u \in Threads
    BY <1>21, HandTarget DEF AfterYield
  <2>2. CASE v = u
    BY <1>21, <2>1, <2>2 DEF AfterYield, NonYield, Requests
  <2>3. CASE v # u
    BY <1>a, <1>21, <2>1, <2>3 DEF AfterYield
  <2> QED
    BY <2>2, <2>3
<1>22. ASSUME NEW e \in Xstreams,
              ReadSize(e) \/ ReadMigrations(e) \/ ReadBlocked(e) \/ XstreamJoin(e)
       PROVE  BlockedAt(v)'
  <2> DEFINE u == arg[e]
  <2>1. cur[e] = e /\ pc[e] \in InHand \cup InSetReady => u \in Threads /\ HeldBy(e, u)
    BY HandTarget
  <2> QED
    BY <1>a, <1>22, <2>1 DEF ReadSize, ReadMigrations, ReadBlocked, XstreamJoin, HeldBy, Canceling
<1>23. CASE UNCHANGED vars
  BY <1>a, <1>23 DEF vars
<1> HIDE DEF BlockedAt
<1> QED
  BY <1>1, <1>2, <1>3, <1>4, <1>5, <1>6, <1>7, <1>8, <1>9, <1>10, <1>11, <1>12, <1>13,
    <1>14, <1>15, <1>16, <1>17, <1>18, <1>19, <1>20, <1>21, <1>22, <1>23 DEF Next, EsStep,
    SchedStep, UserStep, RuntimeStep, JoinStep, ExitStep, ExitStart

(* A ULT is made ready by one waker, after its scheduler has it back.      *)
LEMMA WakeInvStep ==
  ASSUME ConstantsAssumption, Program, IInv, [Next]_vars
  PROVE  WakeInv'
<1> SUFFICES ASSUME NEW z \in Contexts, pc'[z] \in {"spin", "push"}, NEW w, w = Woken(z), NEW q,
                    q = Ender(z)
             PROVE  WokenBy(z)'
  BY DEF WakeInv
<1> USE ConstantsAssumption DEF ConstantsAssumption, StackOK, PcOK, ThreadOK, StateOK,
  CountOK, RetOK, WokenBy, Resumer, Ender, Woken, Hand, InHand, InSetReady, Goto, At,
  ToSched, AddRequest, SetBlocked, Pooled, Contexts, Handles, Suspended, Migratable,
  stackVars, threadVars, poolVars, stopVars
<1>0. StackOK /\ PcOK /\ ThreadOK /\ StateOK /\ CountOK /\ RetOK
  BY DEF IInv
<1> USE <1>0
<1>a. pc[z] \in {"spin", "push"} => WokenBy(z)
  BY DEF IInv, WakeInv
<1>b. pc[z] \in {"spin", "push"} =>
        /\ w \in Threads /\ w # z /\ (\E y \in Xstreams : cur[y] = z)
        /\ z \in Xstreams => cur[z] = z /\ Hand(z, arg[z])
        /\ q \in Threads /\ state[q] # "TERMINATED"
        /\ \A p \in Pools : w \notin pool[p]
        /\ \A y \in Xstreams : cur[y] = w => pc[w] \in {"suspend", "join.suspend"} /\ pc[z] = "spin"
        /\ \A y \in Xstreams : Hand(y, w) => pc[z] = "spin" /\ state[w] = "BLOCKED"
  BY WakerTarget
<1>1. ASSUME NEW e \in Xstreams, NEW t \in Threads, Yield(e, t) PROVE WokenBy(z)'
  <2>1. cur[e] = t => RunsOn(e, t)
    BY DEF IInv, RunInv
  <2> QED
    BY <1>a, <1>b, <1>1, <2>1 DEF Yield, RunsOn, Blocking
<1>2. ASSUME NEW e \in Xstreams, NEW t \in Threads, Preempt(e, t) PROVE WokenBy(z)'
  <2>1. cur[e] = t => RunsOn(e, t)
    BY DEF IInv, RunInv
  <2> QED
    BY <1>a, <1>b, <1>2, <2>1 DEF Preempt, RunsOn, Blocking
<1>3. ASSUME NEW e \in Xstreams, NEW t \in Threads, SuspendBlock(e, t) PROVE WokenBy(z)'
  <2>1. cur[e] = t => RunsOn(e, t)
    BY DEF IInv, RunInv
  <2> QED
    BY <1>a, <1>b, <1>3, <2>1 DEF SuspendBlock, RunsOn, Blocking
<1>4. ASSUME NEW e \in Xstreams, NEW t \in Threads, ExitAlone(e, t) PROVE WokenBy(z)'
  <2>1. cur[e] = t => RunsOn(e, t)
    BY DEF IInv, RunInv
  <2> QED
    BY <1>a, <1>b, <1>4, <2>1 DEF ExitAlone, RunsOn, Blocking
<1>5. ASSUME NEW e \in Xstreams, NEW t \in Threads, SuspendSwitch(e, t) PROVE WokenBy(z)'
  <2>1. cur[e] = t => RunsOn(e, t)
    BY DEF IInv, RunInv
  <2> QED
    BY <1>a, <1>b, <1>5, <2>1 DEF SuspendSwitch, RunsOn, Blocking
<1>6. ASSUME NEW e \in Xstreams, NEW t \in Threads, JoinRequest(e, t) PROVE WokenBy(z)'
  <2>1. cur[e] = t => RunsOn(e, t)
    BY DEF IInv, RunInv
  <2> QED
    BY <1>a, <1>b, <1>6, <2>1 DEF JoinRequest, RunsOn, Blocking
<1>7. ASSUME NEW e \in Xstreams, NEW t \in Threads, JoinBlock(e, t) PROVE WokenBy(z)'
  <2>1. cur[e] = t => RunsOn(e, t)
    BY DEF IInv, RunInv
  <2> QED
    BY <1>a, <1>b, <1>7, <2>1 DEF JoinBlock, RunsOn, Blocking
<1>8. ASSUME NEW e \in Xstreams, NEW t \in Threads, JoinSuspend(e, t) PROVE WokenBy(z)'
  <2>1. cur[e] = t => RunsOn(e, t)
    BY DEF IInv, RunInv
  <2> QED
    BY <1>a, <1>b, <1>8, <2>1 DEF JoinSuspend, RunsOn, Blocking
<1>9. ASSUME NEW e \in Xstreams, NEW t \in Threads,
             JoinResumed(e, t) \/ ExitStore(e, t)
      PROVE  WokenBy(z)'
  <2>1. cur[e] = t => RunsOn(e, t)
    BY DEF IInv, RunInv
  <2> QED
    BY <1>a, <1>b, <1>9, <2>1 DEF JoinResumed, ExitStore, RunsOn, Blocking
<1>10. ASSUME NEW e \in Xstreams, NEW t \in Threads, ExitJump(e, t) PROVE WokenBy(z)'
  <2>1. cur[e] = t => RunsOn(e, t)
    BY DEF IInv, RunInv
  <2> DEFINE j == p_link[t]
  <2>0. cur[e] = t /\ pc[t] = "user"
    BY <1>10 DEF ExitJump
  <2>2. j \in Threads /\ state[j] = "BLOCKED" /\ cur[e] = t /\ pc[t] = "user"
    BY <1>10, <2>0, JumpTarget
  <2>3. pc[z] = "push" => w # j
    BY <1>a, <2>2
  <2>4. pc[z] \in {"spin", "push"} => w # t /\ z # t
    BY <1>b, <2>2
  <2>a. /\ pc[z] \in {"spin", "push"} /\ pc'[z] = pc[z] /\ ret'[z] = ret[z] /\ arg'[z] = arg[z]
        /\ from'[z] = from[z]
    BY <1>10, <2>2, <2>3, <2>4 DEF ExitJump
  <2>b. p_link'[q] = p_link[q] \/ Resumer(z)
    BY <1>a, <1>b, <1>10, <2>2, <2>3, <2>4, <2>a DEF ExitJump
  <2>g. Woken(z)' = w /\ Ender(z)' = q /\ Resumer(z)' = Resumer(z)
          /\ (~ Resumer(z) => p_link[q] = w)
    BY <1>a, <1>b, <2>a, <2>b
  <2>c. /\ state'[w] = state[w] /\ p_pool'[w] = p_pool[w] /\ arg'[w] = arg[w] /\ pc'[w] = pc[w]
        /\ "BLOCK" \notin request[w] => "BLOCK" \notin request'[w]
        /\ "TERMINATE" \notin request[w] => "TERMINATE" \notin request'[w]
    BY <1>b, <1>10, <2>2, <2>3, <2>4, <2>a DEF ExitJump
  <2>d. \A d \in Threads : pc'[d] \in {"spin", "push"} /\ ret'[d] = "user" /\ arg'[d] = arg[z]
                            => pc[d] \in {"spin", "push"} /\ ret[d] = "user" /\ arg[d] = arg[z]
    BY <1>10, <2>2, <2>3, <2>4, <2>a DEF ExitJump
  <2>e. pc[z] = "push" => \A y \in Xstreams : cur'[y] # w /\ ~ Hand(y, w)'
    BY <1>b, <1>10, <2>2, <2>3, <2>4, <2>a DEF ExitJump
  <2>f. \A p \in Pools : w \notin pool'[p]
    BY <1>b, <1>10, <2>2, <2>3, <2>4, <2>a DEF ExitJump
  <2> HIDE DEF Woken, Ender, Resumer, Hand
  <2> QED
    BY <1>a, <1>b, <2>a, <2>b, <2>c, <2>d, <2>e, <2>f, <2>g
<1>11. ASSUME NEW e \in Xstreams, NEW t \in Threads, ExitWake(e, t) PROVE WokenBy(z)'
  <2>1. cur[e] = t => RunsOn(e, t)
    BY DEF IInv, RunInv
  <2>2. cur[e] = t /\ pc[t] = "user" /\ p_link[t] # None
    BY <1>11 DEF ExitWake
  <2>3. state[t] = "RUNNING" /\ \A y \in Xstreams : ~ Hand(y, t)
    BY <2>1, <2>2 DEF IInv, RunsOn, Blocking, HandInv, HeldBy
  <2>4. ~ Woke(t)
    BY <2>2, <2>3 DEF Woke
  <2>5. CASE z = t
    <3> DEFINE j == p_link[t]
    <3>1. j \in Threads /\ arg[j] = t /\ pc[j] \in {"join.suspend", "join.resumed"}
            /\ state[j] = "BLOCKED" /\ j # t
      BY <2>2, <2>3, <2>4 DEF IInv, LinkInv, Linked
    <3>2. /\ pc' = [pc EXCEPT ![t] = "spin"] /\ arg' = [arg EXCEPT ![t] = j]
          /\ ret' = [ret EXCEPT ![t] = "exit.store"] /\ UNCHANGED <<p_link, state>>
      BY <1>11 DEF ExitWake
    <3> QED
      BY <2>2, <2>5, <3>1, <3>2
  <2>6. CASE z # t
    <3>0. pc[z] \in {"spin", "push"} => w # t
      BY <1>b, <2>2
    <3>1. /\ pc[z] \in {"spin", "push"} /\ pc'[z] = pc[z] /\ ret'[z] = ret[z] /\ arg'[z] = arg[z]
          /\ from'[z] = from[z]
      BY <1>11, <2>2, <2>6 DEF ExitWake
    <3>2. p_link'[q] = p_link[q] \/ Resumer(z)
      BY <1>a, <1>b, <1>11, <2>2, <2>6, <3>1, <3>0 DEF ExitWake
    <3>7. Woken(z)' = w /\ Ender(z)' = q /\ Resumer(z)' = Resumer(z)
            /\ (~ Resumer(z) => p_link[q] = w)
      BY <1>a, <1>b, <3>1, <3>2
    <3>3. /\ state'[w] = state[w] /\ p_pool'[w] = p_pool[w] /\ arg'[w] = arg[w] /\ pc'[w] = pc[w]
          /\ "BLOCK" \notin request[w] => "BLOCK" \notin request'[w]
          /\ "TERMINATE" \notin request[w] => "TERMINATE" \notin request'[w]
      BY <1>b, <1>11, <2>2, <2>6, <3>1, <3>0 DEF ExitWake
    <3>4. \A d \in Threads : pc'[d] \in {"spin", "push"} /\ ret'[d] = "user" /\ arg'[d] = arg[z]
                              => pc[d] \in {"spin", "push"} /\ ret[d] = "user" /\ arg[d] = arg[z]
      BY <1>11, <2>2, <2>6, <3>1, <3>0 DEF ExitWake
    <3>5. pc[z] = "push" => \A y \in Xstreams : cur'[y] # w /\ ~ Hand(y, w)'
      BY <1>b, <1>11, <2>2, <2>6, <3>1, <3>0 DEF ExitWake
    <3>6. \A p \in Pools : w \notin pool'[p]
      BY <1>b, <1>11, <2>2, <2>6, <3>1, <3>0 DEF ExitWake
    <3> HIDE DEF Woken, Ender, Resumer, Hand
    <3> QED
      BY <1>a, <1>b, <3>1, <3>2, <3>3, <3>4, <3>5, <3>6, <3>7
  <2> QED
    BY <2>5, <2>6
<1>12. ASSUME NEW e \in Xstreams, NEW t \in Threads, JoinPool(e, t) PROVE WokenBy(z)'
  <2> DEFINE u == arg[t]
  <2>1. cur[e] = t /\ pc[t] = "join.pool" /\ u \in pool[p_pool[u]]
    BY <1>12 DEF JoinPool
  <2>2. u \in Threads /\ u # t /\ p_link[u] = None /\ u \in pool[SchedPool[e]]
    BY <2>1, JoinPoolTarget
  <2>3. pc[z] \in {"spin", "push"} => q # u
    <3>1. (\A y \in Xstreams : ~ Hand(y, u)) /\ (pc[u] # "yield_to" => pc[u] \in Off)
      BY <2>2, PoolTarget
    <3>2. pc[z] \in {"spin", "push"} => (\E y \in Xstreams : cur[y] = z)
      BY <1>b
    <3>3. u # z \/ pc[z] \notin {"spin", "push"}
      BY <3>1 DEF Off
    <3> QED
      BY <1>b, <3>1, <3>3
  <2>3a. pc[z] \in {"spin", "push"} => w # t /\ z # t
    <3> HIDE <1>0 DEF Woken
    <3> QED
      BY <2>1, WakerApart
  <2>4. pc[z] \in {"spin", "push"} => w # t /\ z # t /\ w # u
    <3> HIDE <1>0 DEF Woken, Ender, Hand
    <3> QED
      BY <1>b, <2>2, <2>3a
  <2>a. /\ pc[z] \in {"spin", "push"} /\ pc'[z] = pc[z] /\ ret'[z] = ret[z] /\ arg'[z] = arg[z]
        /\ from'[z] = from[z]
    BY <1>12, <2>1, <2>2, <2>4 DEF JoinPool
  <2>b. p_link'[q] = p_link[q] \/ Resumer(z)
    BY <1>a, <1>b, <1>12, <2>1, <2>2, <2>4, <2>a DEF JoinPool
  <2>g. Woken(z)' = w /\ Ender(z)' = q /\ Resumer(z)' = Resumer(z)
          /\ (~ Resumer(z) => p_link[q] = w)
    BY <1>a, <1>b, <2>a, <2>b
  <2>c. /\ state'[w] = state[w] /\ p_pool'[w] = p_pool[w] /\ arg'[w] = arg[w] /\ pc'[w] = pc[w]
        /\ "BLOCK" \notin request[w] => "BLOCK" \notin request'[w]
        /\ "TERMINATE" \notin request[w] => "TERMINATE" \notin request'[w]
    BY <1>b, <1>12, <2>1, <2>2, <2>4, <2>a DEF JoinPool
  <2>d. \A d \in Threads : pc'[d] \in {"spin", "push"} /\ ret'[d] = "user" /\ arg'[d] = arg[z]
                            => pc[d] \in {"spin", "push"} /\ ret[d] = "user" /\ arg[d] = arg[z]
    BY <1>12, <2>1, <2>2, <2>4, <2>a DEF JoinPool
  <2>e. pc[z] = "push" => \A y \in Xstreams : cur'[y] # w /\ ~ Hand(y, w)'
    BY <1>b, <1>12, <2>1, <2>2, <2>4, <2>a DEF JoinPool
  <2>f. \A p \in Pools : w \notin pool'[p]
    BY <1>b, <1>12, <2>1, <2>2, <2>4, <2>a DEF JoinPool
  <2> HIDE DEF Woken, Ender, Resumer, Hand
  <2> QED
    BY <1>a, <1>b, <2>a, <2>b, <2>c, <2>d, <2>e, <2>f, <2>g
<1>13. ASSUME NEW e \in Xstreams, NEW t \in Threads, JoinLink(e, t) PROVE WokenBy(z)'
  <2> DEFINE u == arg[t]
  <2>1. cur[e] = t /\ pc[t] = "join.link" /\ u \in Threads /\ p_link[u] = None /\ ~ Woke(u)
    BY <1>13, JoinTarget DEF JoinLink, IInv, JoinInv, Joining, InJoin
  <2>2. pc[z] \in {"spin", "push"} => w # t /\ z # t
    BY <1>b, <2>1
  <2>3. pc[z] \in {"spin", "push"} => q # u \/ Resumer(z)
    BY <1>a, <1>b, <2>1
  <2>a. /\ pc[z] \in {"spin", "push"} /\ pc'[z] = pc[z] /\ ret'[z] = ret[z] /\ arg'[z] = arg[z]
        /\ from'[z] = from[z]
    BY <1>13, <2>1, <2>2, <2>3 DEF JoinLink
  <2>b. p_link'[q] = p_link[q] \/ Resumer(z)
    BY <1>a, <1>b, <1>13, <2>1, <2>2, <2>3, <2>a DEF JoinLink
  <2>g. Woken(z)' = w /\ Ender(z)' = q /\ Resumer(z)' = Resumer(z)
          /\ (~ Resumer(z) => p_link[q] = w)
    BY <1>a, <1>b, <2>a, <2>b
  <2>c. /\ state'[w] = state[w] /\ p_pool'[w] = p_pool[w] /\ arg'[w] = arg[w] /\ pc'[w] = pc[w]
        /\ "BLOCK" \notin request[w] => "BLOCK" \notin request'[w]
        /\ "TERMINATE" \notin request[w] => "TERMINATE" \notin request'[w]
    BY <1>b, <1>13, <2>1, <2>2, <2>3, <2>a DEF JoinLink
  <2>d. \A d \in Threads : pc'[d] \in {"spin", "push"} /\ ret'[d] = "user" /\ arg'[d] = arg[z]
                            => pc[d] \in {"spin", "push"} /\ ret[d] = "user" /\ arg[d] = arg[z]
    BY <1>13, <2>1, <2>2, <2>3, <2>a DEF JoinLink
  <2>e. pc[z] = "push" => \A y \in Xstreams : cur'[y] # w /\ ~ Hand(y, w)'
    BY <1>b, <1>13, <2>1, <2>2, <2>3, <2>a DEF JoinLink
  <2>f. \A p \in Pools : w \notin pool'[p]
    BY <1>b, <1>13, <2>1, <2>2, <2>3, <2>a DEF JoinLink
  <2> HIDE DEF Woken, Ender, Resumer, Hand
  <2> QED
    BY <1>a, <1>b, <2>a, <2>b, <2>c, <2>d, <2>e, <2>f, <2>g
<1>14. ASSUME NEW e \in Xstreams, NEW t \in Threads, JoinYield(e, t) PROVE WokenBy(z)'
  <2>1. cur[e] = t /\ pc[t] = "join.yield"
    BY <1>14 DEF JoinYield
  <2>2. pc[z] \in {"spin", "push"} => w # t /\ z # t /\ z # e
    <3> HIDE <1>0 DEF Woken
    <3> QED
      BY <2>1, WakerApart
  <2>3. CASE state[arg[t]] = "TERMINATED"
    <3>1. /\ pc[z] \in {"spin", "push"} /\ pc'[z] = pc[z] /\ ret'[z] = ret[z] /\ arg'[z] = arg[z]
          /\ from'[z] = from[z]
      BY <1>14, <2>1, <2>2, <2>3 DEF JoinYield
    <3>2. p_link'[q] = p_link[q] \/ Resumer(z)
      BY <1>a, <1>b, <1>14, <2>1, <2>2, <2>3, <3>1 DEF JoinYield
    <3>7. Woken(z)' = w /\ Ender(z)' = q /\ Resumer(z)' = Resumer(z)
            /\ (~ Resumer(z) => p_link[q] = w)
      BY <1>a, <1>b, <3>1, <3>2
    <3>3. /\ state'[w] = state[w] /\ p_pool'[w] = p_pool[w] /\ arg'[w] = arg[w] /\ pc'[w] = pc[w]
          /\ "BLOCK" \notin request[w] => "BLOCK" \notin request'[w]
          /\ "TERMINATE" \notin request[w] => "TERMINATE" \notin request'[w]
      BY <1>b, <1>14, <2>1, <2>2, <2>3, <3>1 DEF JoinYield
    <3>4. \A d \in Threads : pc'[d] \in {"spin", "push"} /\ ret'[d] = "user" /\ arg'[d] = arg[z]
                              => pc[d] \in {"spin", "push"} /\ ret[d] = "user" /\ arg[d] = arg[z]
      BY <1>14, <2>1, <2>2, <2>3, <3>1 DEF JoinYield
    <3>5. pc[z] = "push" => \A y \in Xstreams : cur'[y] # w /\ ~ Hand(y, w)'
      BY <1>b, <1>14, <2>1, <2>2, <2>3, <3>1 DEF JoinYield
    <3>6. \A p \in Pools : w \notin pool'[p]
      BY <1>b, <1>14, <2>1, <2>2, <2>3, <3>1 DEF JoinYield
    <3> HIDE DEF Woken, Ender, Resumer, Hand
    <3> QED
      BY <1>a, <1>b, <3>1, <3>2, <3>3, <3>4, <3>5, <3>6, <3>7
  <2>4. CASE state[arg[t]] # "TERMINATED"
    <3>1. /\ pc[z] \in {"spin", "push"} /\ pc'[z] = pc[z] /\ ret'[z] = ret[z] /\ arg'[z] = arg[z]
          /\ from'[z] = from[z]
      BY <1>14, <2>1, <2>2, <2>4 DEF JoinYield
    <3>2. p_link'[q] = p_link[q] \/ Resumer(z)
      BY <1>a, <1>b, <1>14, <2>1, <2>2, <2>4, <3>1 DEF JoinYield
    <3>7. Woken(z)' = w /\ Ender(z)' = q /\ Resumer(z)' = Resumer(z)
            /\ (~ Resumer(z) => p_link[q] = w)
      BY <1>a, <1>b, <3>1, <3>2
    <3>3. /\ state'[w] = state[w] /\ p_pool'[w] = p_pool[w] /\ arg'[w] = arg[w] /\ pc'[w] = pc[w]
          /\ "BLOCK" \notin request[w] => "BLOCK" \notin request'[w]
          /\ "TERMINATE" \notin request[w] => "TERMINATE" \notin request'[w]
      BY <1>b, <1>14, <2>1, <2>2, <2>4, <3>1 DEF JoinYield
    <3>4. \A d \in Threads : pc'[d] \in {"spin", "push"} /\ ret'[d] = "user" /\ arg'[d] = arg[z]
                              => pc[d] \in {"spin", "push"} /\ ret[d] = "user" /\ arg[d] = arg[z]
      BY <1>14, <2>1, <2>2, <2>4, <3>1 DEF JoinYield
    <3>5. pc[z] = "push" => \A y \in Xstreams : cur'[y] # w /\ ~ Hand(y, w)'
      BY <1>b, <1>14, <2>1, <2>2, <2>4, <3>1 DEF JoinYield
    <3>6. \A p \in Pools : w \notin pool'[p]
      BY <1>b, <1>14, <2>1, <2>2, <2>4, <3>1 DEF JoinYield
    <3> HIDE DEF Woken, Ender, Resumer, Hand
    <3> QED
      BY <1>a, <1>b, <3>1, <3>2, <3>3, <3>4, <3>5, <3>6, <3>7
  <2> QED
    BY <2>3, <2>4
<1>15. ASSUME NEW e \in Xstreams, NEW t \in Threads, ExitRequest(e, t) PROVE WokenBy(z)'
  <2>1. cur[e] = t => RunsOn(e, t)
    BY DEF IInv, RunInv
  <2> QED
    BY <1>a, <1>b, <1>15, <2>1 DEF ExitRequest, RunsOn, Blocking
<1>16. ASSUME NEW e \in Xstreams, NEW t \in Threads, ExitLeave(e, t) PROVE WokenBy(z)'
  <2>1. cur[e] = t => RunsOn(e, t)
    BY DEF IInv, RunInv
  <2> QED
    BY <1>a, <1>b, <1>16, <2>1 DEF ExitLeave, RunsOn, Blocking
<1>17. ASSUME NEW e \in Xstreams, NEW t \in Threads, MigrateCount(e, t) PROVE WokenBy(z)'
  <2>1. cur[e] = t => RunsOn(e, t)
    BY DEF IInv, RunInv
  <2> QED
    BY <1>a, <1>b, <1>17, <2>1 DEF MigrateCount, RunsOn, Blocking
<1>18. ASSUME NEW e \in Xstreams, NEW t \in Threads, ExitLink(e, t) PROVE WokenBy(z)'
  <2>1. cur[e] = t => RunsOn(e, t)
    BY DEF IInv, RunInv
  <2>2. cur[e] = t /\ pc[t] = "exit.link" /\ p_link[t] # None
    BY <1>18 DEF ExitLink
  <2>3. state[t] = "RUNNING" /\ \A y \in Xstreams : ~ Hand(y, t)
    BY <2>1, <2>2 DEF IInv, RunsOn, Blocking, HandInv, HeldBy
  <2>4. ~ Woke(t)
    BY <2>2, <2>3 DEF Woke
  <2>5. CASE z = t
    <3> DEFINE j == p_link[t]
    <3>1. j \in Threads /\ arg[j] = t /\ pc[j] \in {"join.suspend", "join.resumed"}
            /\ state[j] = "BLOCKED" /\ j # t
      BY <2>2, <2>3, <2>4 DEF IInv, LinkInv, Linked
    <3>2. /\ pc' = [pc EXCEPT ![t] = "spin"] /\ arg' = [arg EXCEPT ![t] = j]
          /\ ret' = [ret EXCEPT ![t] = "exit.leave"] /\ UNCHANGED <<p_link, state>>
      BY <1>18 DEF ExitLink
    <3> QED
      BY <2>2, <2>5, <3>1, <3>2
  <2>6. CASE z # t
    <3>0. pc[z] \in {"spin", "push"} => w # t
      BY <1>b, <2>2
    <3>1. /\ pc[z] \in {"spin", "push"} /\ pc'[z] = pc[z] /\ ret'[z] = ret[z] /\ arg'[z] = arg[z]
          /\ from'[z] = from[z]
      BY <1>18, <2>2, <2>6 DEF ExitLink
    <3>2. p_link'[q] = p_link[q] \/ Resumer(z)
      BY <1>a, <1>b, <1>18, <2>2, <2>6, <3>1, <3>0 DEF ExitLink
    <3>7. Woken(z)' = w /\ Ender(z)' = q /\ Resumer(z)' = Resumer(z)
            /\ (~ Resumer(z) => p_link[q] = w)
      BY <1>a, <1>b, <3>1, <3>2
    <3>3. /\ state'[w] = state[w] /\ p_pool'[w] = p_pool[w] /\ arg'[w] = arg[w] /\ pc'[w] = pc[w]
          /\ "BLOCK" \notin request[w] => "BLOCK" \notin request'[w]
          /\ "TERMINATE" \notin request[w] => "TERMINATE" \notin request'[w]
      BY <1>b, <1>18, <2>2, <2>6, <3>1, <3>0 DEF ExitLink
    <3>4. \A d \in Threads : pc'[d] \in {"spin", "push"} /\ ret'[d] = "user" /\ arg'[d] = arg[z]
                              => pc[d] \in {"spin", "push"} /\ ret[d] = "user" /\ arg[d] = arg[z]
      BY <1>18, <2>2, <2>6, <3>1, <3>0 DEF ExitLink
    <3>5. pc[z] = "push" => \A y \in Xstreams : cur'[y] # w /\ ~ Hand(y, w)'
      BY <1>b, <1>18, <2>2, <2>6, <3>1, <3>0 DEF ExitLink
    <3>6. \A p \in Pools : w \notin pool'[p]
      BY <1>b, <1>18, <2>2, <2>6, <3>1, <3>0 DEF ExitLink
    <3> HIDE DEF Woken, Ender, Resumer, Hand
    <3> QED
      BY <1>a, <1>b, <3>1, <3>2, <3>3, <3>4, <3>5, <3>6, <3>7
  <2> QED
    BY <2>5, <2>6
<1>19. ASSUME NEW e \in Xstreams, NEW t \in Threads, YieldToSwitch(e, t) PROVE WokenBy(z)'
  <2> DEFINE u == arg[t]
  <2>1. cur[e] = t /\ pc[t] = "yield_to"
    BY <1>19 DEF YieldToSwitch
  <2>2. u \in Threads /\ u # t /\ u \in pool[SchedPool[e]] /\ t \in pool[SchedPool[e]]
    BY <2>1, YieldToTarget
  <2>3a. pc[z] \in {"spin", "push"} => w # t /\ z # t
    <3> HIDE <1>0 DEF Woken
    <3> QED
      BY <2>1, WakerApart
  <2>4. pc[z] \in {"spin", "push"} => w # t /\ z # t /\ w # u
    <3> HIDE <1>0 DEF Woken, Ender, Hand
    <3> QED
      BY <1>b, <2>2, <2>3a
  <2>a. /\ pc[z] \in {"spin", "push"} /\ pc'[z] = pc[z] /\ ret'[z] = ret[z] /\ arg'[z] = arg[z]
        /\ from'[z] = from[z]
    BY <1>19, <2>1, <2>2, <2>4 DEF YieldToSwitch
  <2>b. p_link'[q] = p_link[q] \/ Resumer(z)
    BY <1>a, <1>b, <1>19, <2>1, <2>2, <2>4, <2>a DEF YieldToSwitch
  <2>g. Woken(z)' = w /\ Ender(z)' = q /\ Resumer(z)' = Resumer(z)
          /\ (~ Resumer(z) => p_link[q] = w)
    BY <1>a, <1>b, <2>a, <2>b
  <2>c. /\ state'[w] = state[w] /\ p_pool'[w] = p_pool[w] /\ arg'[w] = arg[w] /\ pc'[w] = pc[w]
        /\ "BLOCK" \notin request[w] => "BLOCK" \notin request'[w]
        /\ "TERMINATE" \notin request[w] => "TERMINATE" \notin request'[w]
    BY <1>b, <1>19, <2>1, <2>2, <2>4, <2>a DEF YieldToSwitch
  <2>d. \A d \in Threads : pc'[d] \in {"spin", "push"} /\ ret'[d] = "user" /\ arg'[d] = arg[z]
                            => pc[d] \in {"spin", "push"} /\ ret[d] = "user" /\ arg[d] = arg[z]
    BY <1>19, <2>1, <2>2, <2>4, <2>a DEF YieldToSwitch
  <2>e. pc[z] = "push" => \A y \in Xstreams : cur'[y] # w /\ ~ Hand(y, w)'
    BY <1>b, <1>19, <2>1, <2>2, <2>4, <2>a DEF YieldToSwitch
  <2>f. \A p \in Pools : w \notin pool'[p]
    BY <1>b, <1>19, <2>1, <2>2, <2>4, <2>a DEF YieldToSwitch
  <2> HIDE DEF Woken, Ender, Resumer, Hand
  <2> QED
    BY <1>a, <1>b, <2>a, <2>b, <2>c, <2>d, <2>e, <2>f, <2>g
<1>20. ASSUME NEW e \in Xstreams, NEW t \in Threads, MigrateRequest(e, t) PROVE WokenBy(z)'
  <2>1. cur[e] = t /\ pc[t] = "mig.request"
    BY <1>20 DEF MigrateRequest
  <2>2. pc[z] \in {"spin", "push"} => w # t /\ z # t /\ z # e
    <3> HIDE <1>0 DEF Woken
    <3> QED
      BY <2>1, WakerApart
  <2>3. CASE t # arg[t]
    <3>1. /\ pc[z] \in {"spin", "push"} /\ pc'[z] = pc[z] /\ ret'[z] = ret[z] /\ arg'[z] = arg[z]
          /\ from'[z] = from[z]
      BY <1>20, <2>1, <2>2, <2>3 DEF MigrateRequest
    <3>2. p_link'[q] = p_link[q] \/ Resumer(z)
      BY <1>a, <1>b, <1>20, <2>1, <2>2, <2>3, <3>1 DEF MigrateRequest
    <3>7. Woken(z)' = w /\ Ender(z)' = q /\ Resumer(z)' = Resumer(z)
            /\ (~ Resumer(z) => p_link[q] = w)
      BY <1>a, <1>b, <3>1, <3>2
    <3>3. /\ state'[w] = state[w] /\ p_pool'[w] = p_pool[w] /\ arg'[w] = arg[w] /\ pc'[w] = pc[w]
          /\ "BLOCK" \notin request[w] => "BLOCK" \notin request'[w]
          /\ "TERMINATE" \notin request[w] => "TERMINATE" \notin request'[w]
      BY <1>b, <1>20, <2>1, <2>2, <2>3, <3>1 DEF MigrateRequest
    <3>4. \A d \in Threads : pc'[d] \in {"spin", "push"} /\ ret'[d] = "user" /\ arg'[d] = arg[z]
                              => pc[d] \in {"spin", "push"} /\ ret[d] = "user" /\ arg[d] = arg[z]
      BY <1>20, <2>1, <2>2, <2>3, <3>1 DEF MigrateRequest
    <3>5. pc[z] = "push" => \A y \in Xstreams : cur'[y] # w /\ ~ Hand(y, w)'
      BY <1>b, <1>20, <2>1, <2>2, <2>3, <3>1 DEF MigrateRequest
    <3>6. \A p \in Pools : w \notin pool'[p]
      BY <1>b, <1>20, <2>1, <2>2, <2>3, <3>1 DEF MigrateRequest
    <3> HIDE DEF Woken, Ender, Resumer, Hand
    <3> QED
      BY <1>a, <1>b, <3>1, <3>2, <3>3, <3>4, <3>5, <3>6, <3>7
  <2>4. CASE t = arg[t]
    <3>1. /\ pc[z] \in {"spin", "push"} /\ pc'[z] = pc[z] /\ ret'[z] = ret[z] /\ arg'[z] = arg[z]
          /\ from'[z] = from[z]
      BY <1>20, <2>1, <2>2, <2>4 DEF MigrateRequest
    <3>2. p_link'[q] = p_link[q] \/ Resumer(z)
      BY <1>a, <1>b, <1>20, <2>1, <2>2, <2>4, <3>1 DEF MigrateRequest
    <3>7. Woken(z)' = w /\ Ender(z)' = q /\ Resumer(z)' = Resumer(z)
            /\ (~ Resumer(z) => p_link[q] = w)
      BY <1>a, <1>b, <3>1, <3>2
    <3>3. /\ state'[w] = state[w] /\ p_pool'[w] = p_pool[w] /\ arg'[w] = arg[w] /\ pc'[w] = pc[w]
          /\ "BLOCK" \notin request[w] => "BLOCK" \notin request'[w]
          /\ "TERMINATE" \notin request[w] => "TERMINATE" \notin request'[w]
      BY <1>b, <1>20, <2>1, <2>2, <2>4, <3>1 DEF MigrateRequest
    <3>4. \A d \in Threads : pc'[d] \in {"spin", "push"} /\ ret'[d] = "user" /\ arg'[d] = arg[z]
                              => pc[d] \in {"spin", "push"} /\ ret[d] = "user" /\ arg[d] = arg[z]
      BY <1>20, <2>1, <2>2, <2>4, <3>1 DEF MigrateRequest
    <3>5. pc[z] = "push" => \A y \in Xstreams : cur'[y] # w /\ ~ Hand(y, w)'
      BY <1>b, <1>20, <2>1, <2>2, <2>4, <3>1 DEF MigrateRequest
    <3>6. \A p \in Pools : w \notin pool'[p]
      BY <1>b, <1>20, <2>1, <2>2, <2>4, <3>1 DEF MigrateRequest
    <3> HIDE DEF Woken, Ender, Resumer, Hand
    <3> QED
      BY <1>a, <1>b, <3>1, <3>2, <3>3, <3>4, <3>5, <3>6, <3>7
  <2> QED
    BY <2>3, <2>4
<1>21. ASSUME NEW e \in Xstreams, NEW t \in Threads, Pop(e, t) PROVE WokenBy(z)'
  <2> DEFINE u == arg[e]
  <2>1. cur[e] = e /\ pc[e] \in InHand \cup InSetReady => u \in Threads /\ HeldBy(e, u)
    BY HandTarget
  <2> QED
    BY <1>a, <1>b, <1>21, <2>1 DEF Pop, HeldBy, Canceling
<1>22. ASSUME NEW e \in Xstreams, NEW t \in Threads, NEW u \in Threads, Resume(e, t, u)
       PROVE  WokenBy(z)'
  <2>1. cur[e] = t => RunsOn(e, t)
    BY DEF IInv, RunInv
  <2> QED
    BY <1>a, <1>b, <1>22, <2>1 DEF Resume, RunsOn, Blocking
<1>23. ASSUME NEW e \in Xstreams, NEW t \in Threads, NEW u \in Threads, JoinStart(e, t, u)
       PROVE  WokenBy(z)'
  <2>1. cur[e] = t => RunsOn(e, t)
    BY DEF IInv, RunInv
  <2> QED
    BY <1>a, <1>b, <1>23, <2>1 DEF JoinStart, RunsOn, Blocking
<1>24. ASSUME NEW e \in Xstreams, NEW t \in Threads, NEW u \in Threads, Cancel(e, t, u)
       PROVE  WokenBy(z)'
  <2>1. cur[e] = t => RunsOn(e, t)
    BY DEF IInv, RunInv
  <2> QED
    BY <1>a, <1>b, <1>24, <2>1 DEF Cancel, RunsOn, Blocking
<1>25. ASSUME NEW e \in Xstreams, NEW t \in Threads, NEW u \in Threads, YieldToPush(e, t, u)
       PROVE  WokenBy(z)'
  <2>1. cur[e] = t => RunsOn(e, t)
    BY DEF IInv, RunInv
  <2> QED
    BY <1>a, <1>b, <1>25, <2>1 DEF YieldToPush, RunsOn, Blocking
<1>26. ASSUME NEW e \in Xstreams, NEW t \in Threads, NEW u \in Threads, NEW d \in Xstreams,
              MigrateToXstream(e, t, u, d)
       PROVE  WokenBy(z)'
  <2>1. cur[e] = t => RunsOn(e, t)
    BY DEF IInv, RunInv
  <2> QED
    BY <1>a, <1>b, <1>26, <2>1 DEF MigrateToXstream, RunsOn, Blocking
<1>27. ASSUME NEW e \in Xstreams, NEW t \in Threads, NEW u \in Threads, NEW p \in Pools,
              MigrateToPool(e, t, u, p)
       PROVE  WokenBy(z)'
  <2>1. cur[e] = t => RunsOn(e, t)
    BY DEF IInv, RunInv
  <2> QED
    BY <1>a, <1>b, <1>27, <2>1 DEF MigrateToPool, RunsOn, Blocking
<1>28. ASSUME NEW e \in Xstreams, NEW c \in Contexts, SetReadySpin(e, c) PROVE WokenBy(z)'
  <2> DEFINE k == Woken(c)
  <2>1. /\ k \in Threads /\ state[k] = "BLOCKED" /\ pc[k] \in {"user", "join.resumed"} /\ k # c
        /\ "BLOCK" \notin request[k] /\ "TERMINATE" \notin request[k]
        /\ \A d \in Xstreams : cur[d] # k /\ ~ Hand(d, k)
        /\ \A p \in Pools : k \notin pool[p]
    BY <1>28, SpinTarget DEF SetReadySpin
  <2>2. /\ pc[c] = "spin" /\ cur[e] = c /\ pc' = [pc EXCEPT ![c] = "push"]
             /\ from' = [from EXCEPT ![c] = p_pool[k]]
        /\ state' = [state EXCEPT ![k] = "READY"]
        /\ UNCHANGED <<cur, arg, ret, request, p_link, p_pool, pool>>
    BY <1>28 DEF SetReadySpin
  <2>3. WokenBy(c)
    BY <2>2 DEF IInv, WakeInv
  <2>4. CASE z = c
    <3>1. pc'[c] = "push" /\ pc'[k] = pc[k] /\ state'[k] = "READY" /\ from'[c] = p_pool[k]
      BY <2>1, <2>2
    <3>2. Woken(c)' = k /\ Ender(c)' = Ender(c)
      BY <2>2
    <3>3. \A d \in Threads : pc'[d] \in {"spin", "push"} => pc[d] \in {"spin", "push"}
      BY <2>2
    <3>4. \A y \in Xstreams : ~ Hand(y, k)'
      BY <2>1, <2>2
    <3> HIDE DEF Woken, Ender, k
    <3> QED
      BY <2>1, <2>2, <2>3, <2>4, <3>1, <3>2, <3>3, <3>4 DEF k, Off
  <2>5. CASE z # c
    <3>0. pc[z] \in {"spin", "push"} => w # k
      <4> HIDE DEF Woken
      <4> QED
        BY <2>2, <2>5, OneWaker
    <3>8. pc[z] \in {"spin", "push"} => w # c
      BY <1>b, <2>2
    <3>1. /\ pc[z] \in {"spin", "push"} /\ pc'[z] = pc[z] /\ ret'[z] = ret[z] /\ arg'[z] = arg[z]
          /\ from'[z] = from[z]
      BY <2>1, <2>2, <2>5, <3>0, <3>8
    <3>2. p_link'[q] = p_link[q] \/ Resumer(z)
      BY <1>a, <1>b, <2>1, <2>2, <2>5, <3>0, <3>8, <3>1
    <3>7. Woken(z)' = w /\ Ender(z)' = q /\ Resumer(z)' = Resumer(z)
            /\ (~ Resumer(z) => p_link[q] = w)
      BY <1>a, <1>b, <3>1, <3>2
    <3>3. /\ state'[w] = state[w] /\ p_pool'[w] = p_pool[w] /\ arg'[w] = arg[w] /\ pc'[w] = pc[w]
          /\ "BLOCK" \notin request[w] => "BLOCK" \notin request'[w]
          /\ "TERMINATE" \notin request[w] => "TERMINATE" \notin request'[w]
      BY <1>b, <2>1, <2>2, <2>5, <3>0, <3>8, <3>1
    <3>4. \A d \in Threads : pc'[d] \in {"spin", "push"} /\ ret'[d] = "user" /\ arg'[d] = arg[z]
                              => pc[d] \in {"spin", "push"} /\ ret[d] = "user" /\ arg[d] = arg[z]
      BY <2>1, <2>2, <2>5, <3>0, <3>8, <3>1
    <3>5. pc[z] = "push" => \A y \in Xstreams : cur'[y] # w /\ ~ Hand(y, w)'
      BY <1>b, <2>1, <2>2, <2>5, <3>0, <3>8, <3>1
    <3>6. \A p \in Pools : w \notin pool'[p]
      BY <1>b, <2>1, <2>2, <2>5, <3>0, <3>8, <3>1
    <3> HIDE DEF Woken, Ender, Resumer, Hand
    <3> QED
      BY <1>a, <1>b, <3>1, <3>2, <3>3, <3>4, <3>5, <3>6, <3>7
  <2> QED
    BY <2>4, <2>5
<1>29. ASSUME NEW e \in Xstreams, NEW c \in Contexts, SetReadyPush(e, c) PROVE WokenBy(z)'
  <2> DEFINE k == Woken(c)
  <2>1. pc[c] = "push" /\ cur[e] = c /\ k \in Threads
    BY <1>29, WakerTarget DEF SetReadyPush
  <2>2. z # c
    BY <1>29 DEF SetReadyPush
  <2>3. pc[z] \in {"spin", "push"} => w # k
    <3> HIDE DEF Woken
    <3> QED
      BY <2>1, <2>2, OneWaker
  <2>4. pc[z] \in {"spin", "push"} => w # c
    BY <1>b, <2>1
  <2>a. /\ pc[z] \in {"spin", "push"} /\ pc'[z] = pc[z] /\ ret'[z] = ret[z] /\ arg'[z] = arg[z]
        /\ from'[z] = from[z]
    BY <1>29, <2>1, <2>2, <2>3, <2>4 DEF SetReadyPush
  <2>b. p_link'[q] = p_link[q] \/ Resumer(z)
    BY <1>a, <1>b, <1>29, <2>1, <2>2, <2>3, <2>4, <2>a DEF SetReadyPush
  <2>g. Woken(z)' = w /\ Ender(z)' = q /\ Resumer(z)' = Resumer(z)
          /\ (~ Resumer(z) => p_link[q] = w)
    BY <1>a, <1>b, <2>a, <2>b
  <2>c. /\ state'[w] = state[w] /\ p_pool'[w] = p_pool[w] /\ arg'[w] = arg[w] /\ pc'[w] = pc[w]
        /\ "BLOCK" \notin request[w] => "BLOCK" \notin request'[w]
        /\ "TERMINATE" \notin request[w] => "TERMINATE" \notin request'[w]
    BY <1>b, <1>29, <2>1, <2>2, <2>3, <2>4, <2>a DEF SetReadyPush
  <2>d. \A d \in Threads : pc'[d] \in {"spin", "push"} /\ ret'[d] = "user" /\ arg'[d] = arg[z]
                            => pc[d] \in {"spin", "push"} /\ ret[d] = "user" /\ arg[d] = arg[z]
    BY <1>29, <2>1, <2>2, <2>3, <2>4, <2>a DEF SetReadyPush
  <2>e. pc[z] = "push" => \A y \in Xstreams : cur'[y] # w /\ ~ Hand(y, w)'
    BY <1>b, <1>29, <2>1, <2>2, <2>3, <2>4, <2>a DEF SetReadyPush
  <2>f. \A p \in Pools : w \notin pool'[p]
    BY <1>b, <1>29, <2>1, <2>2, <2>3, <2>4, <2>a DEF SetReadyPush
  <2> HIDE DEF Woken, Ender, Resumer, Hand
  <2> QED
    BY <1>a, <1>b, <2>a, <2>b, <2>c, <2>d, <2>e, <2>f, <2>g
<1>30. ASSUME NEW e \in Xstreams, NEW c \in Contexts, SetReadyDec(e, c) PROVE WokenBy(z)'
  <2>1. pc[c] = "dec" /\ cur[e] = c /\ ret[c] \notin {"spin", "push"}
    BY <1>30 DEF SetReadyDec
  <2>2. z # c
    BY <1>30, <2>1 DEF SetReadyDec
  <2>3. pc[z] \in {"spin", "push"} => w # c
    BY <1>b, <2>1
  <2>a. /\ pc[z] \in {"spin", "push"} /\ pc'[z] = pc[z] /\ ret'[z] = ret[z] /\ arg'[z] = arg[z]
        /\ from'[z] = from[z]
    BY <1>30, <2>1, <2>2, <2>3 DEF SetReadyDec
  <2>b. p_link'[q] = p_link[q] \/ Resumer(z)
    BY <1>a, <1>b, <1>30, <2>1, <2>2, <2>3, <2>a DEF SetReadyDec
  <2>g. Woken(z)' = w /\ Ender(z)' = q /\ Resumer(z)' = Resumer(z)
          /\ (~ Resumer(z) => p_link[q] = w)
    BY <1>a, <1>b, <2>a, <2>b
  <2>c. /\ state'[w] = state[w] /\ p_pool'[w] = p_pool[w] /\ arg'[w] = arg[w] /\ pc'[w] = pc[w]
        /\ "BLOCK" \notin request[w] => "BLOCK" \notin request'[w]
        /\ "TERMINATE" \notin request[w] => "TERMINATE" \notin request'[w]
    BY <1>b, <1>30, <2>1, <2>2, <2>3, <2>a DEF SetReadyDec
  <2>d. \A d \in Threads : pc'[d] \in {"spin", "push"} /\ ret'[d] = "user" /\ arg'[d] = arg[z]
                            => pc[d] \in {"spin", "push"} /\ ret[d] = "user" /\ arg[d] = arg[z]
    BY <1>30, <2>1, <2>2, <2>3, <2>a DEF SetReadyDec
  <2>e. pc[z] = "push" => \A y \in Xstreams : cur'[y] # w /\ ~ Hand(y, w)'
    BY <1>b, <1>30, <2>1, <2>2, <2>3, <2>a DEF SetReadyDec
  <2>f. \A p \in Pools : w \notin pool'[p]
    BY <1>b, <1>30, <2>1, <2>2, <2>3, <2>a DEF SetReadyDec
  <2> HIDE DEF Woken, Ender, Resumer, Hand
  <2> QED
    BY <1>a, <1>b, <2>a, <2>b, <2>c, <2>d, <2>e, <2>f, <2>g
<1>31. ASSUME NEW e \in Xstreams,
              Run(e) \/ AfterBlock(e) \/ AfterTerminate(e)
       PROVE  WokenBy(z)'
  <2> DEFINE u == arg[e]
  <2>1. cur[e] = e /\ pc[e] \in InHand \cup InSetReady => u \in Threads /\ HeldBy(e, u)
    BY HandTarget
  <2> QED
    BY <1>a, <1>b, <1>31, <2>1 DEF Run, AfterBlock, AfterTerminate, HeldBy, Canceling
<1>32. ASSUME NEW e \in Xstreams, End(e) PROVE WokenBy(z)'
  <2> DEFINE u == arg[e]
  <2>1. cur[e] = e /\ pc[e] \in InHand \cup InSetReady => u \in Threads /\ HeldBy(e, u)
    BY HandTarget
  <2> QED
    BY <1>a, <1>b, <1>32, <2>1 DEF End, HeldBy, Canceling
<1>33. ASSUME NEW e \in Xstreams, MigrateThread(e) PROVE WokenBy(z)'
  <2> DEFINE u == arg[e]
  <2>1. cur[e] = e /\ pc[e] \in InHand \cup InSetReady => u \in Threads /\ HeldBy(e, u)
    BY HandTarget
  <2> QED
    BY <1>a, <1>b, <1>33, <2>1 DEF MigrateThread, HeldBy, Canceling
<1>34. ASSUME NEW e \in Xstreams,
              MigrateDec(e) \/ CancelRequest(e) \/ HasToStop(e) \/ ReadSize(e)
                \/ ReadMigrations(e)
       PROVE  WokenBy(z)'
  <2> DEFINE u == arg[e]
  <2>1. cur[e] = e /\ pc[e] \in InHand \cup InSetReady => u \in Threads /\ HeldBy(e, u)
    BY HandTarget
  <2> QED
    BY <1>a, <1>b, <1>34, <2>1 DEF MigrateDec, CancelRequest, HasToStop, ReadSize, ReadMigrations,
         HeldBy, Canceling
<1>35. ASSUME NEW e \in Xstreams, AfterYield(e) PROVE WokenBy(z)'
  <2> DEFINE u == arg[e]
  <2>1. u \in Threads /\ HeldBy(e, u) /\ "BLOCK" \notin request[u] /\ cur[e] = e
          /\ pc[e] = "after" /\ Hand(e, u)
    BY <1>35, HandTarget DEF AfterYield, NonYield, Requests
  <2>2. state[u] # "BLOCKED"
    BY <2>1 DEF HeldBy
  <2>3. pc[z] \in {"spin", "push"} => w # u /\ z # e
    BY <1>b, <2>1, <2>2
  <2>a. /\ pc[z] \in {"spin", "push"} /\ pc'[z] = pc[z] /\ ret'[z] = ret[z] /\ arg'[z] = arg[z]
        /\ from'[z] = from[z]
    BY <1>35, <2>1, <2>2, <2>3 DEF AfterYield
  <2>b. p_link'[q] = p_link[q] \/ Resumer(z)
    BY <1>a, <1>b, <1>35, <2>1, <2>2, <2>3, <2>a DEF AfterYield
  <2>g. Woken(z)' = w /\ Ender(z)' = q /\ Resumer(z)' = Resumer(z)
          /\ (~ Resumer(z) => p_link[q] = w)
    BY <1>a, <1>b, <2>a, <2>b
  <2>c. /\ state'[w] = state[w] /\ p_pool'[w] = p_pool[w] /\ arg'[w] = arg[w] /\ pc'[w] = pc[w]
        /\ "BLOCK" \notin request[w] => "BLOCK" \notin request'[w]
        /\ "TERMINATE" \notin request[w] => "TERMINATE" \notin request'[w]
    BY <1>b, <1>35, <2>1, <2>2, <2>3, <2>a DEF AfterYield
  <2>d. \A d \in Threads : pc'[d] \in {"spin", "push"} /\ ret'[d] = "user" /\ arg'[d] = arg[z]
                            => pc[d] \in {"spin", "push"} /\ ret[d] = "user" /\ arg[d] = arg[z]
    BY <1>35, <2>1, <2>2, <2>3, <2>a DEF AfterYield
  <2>e. pc[z] = "push" => \A y \in Xstreams : cur'[y] # w /\ ~ Hand(y, w)'
    BY <1>b, <1>35, <2>1, <2>2, <2>3, <2>a DEF AfterYield
  <2>f. \A p \in Pools : w \notin pool'[p]
    BY <1>b, <1>35, <2>1, <2>2, <2>3, <2>a DEF AfterYield
  <2> HIDE DEF Woken, Ender, Resumer, Hand
  <2> QED
    BY <1>a, <1>b, <2>a, <2>b, <2>c, <2>d, <2>e, <2>f, <2>g
<1>36. ASSUME NEW e \in Xstreams, CancelStart(e) PROVE WokenBy(z)'
  <2> DEFINE u == arg[e]
  <2>1. u \in Threads /\ HeldBy(e, u) /\ cur[e] = e /\ pc[e] \in {"run", "after"}
          /\ state[u] = "READY" /\ pc[u] # "done"
    BY <1>36, CancelTarget
  <2>3. state[u] # "TERMINATED" /\ ~ Woke(u)
    <3>1. state[u] # "TERMINATED" /\ pc[u] # "done" /\ (\A y \in Xstreams : cur[y] # u)
            /\ \A y \in Xstreams : Hand(y, u) => y = e
      BY <2>1 DEF HeldBy, Canceling
    <3>2. pc[u] \in Off
      BY <2>1, <3>1 DEF IInv, LabelInv, On
    <3> QED
      BY <2>1, <3>1, <3>2 DEF Woke, Off
  <2>5. CASE z = e
    <3> DEFINE j == p_link[u]
    <3>1. pc'[e] = "spin" /\ p_link[u] # None /\ UNCHANGED <<arg, p_link, state>>
      BY <1>36, <2>1, <2>5 DEF CancelStart
    <3>2. j \in Threads /\ arg[j] = u /\ pc[j] \in {"join.suspend", "join.resumed"}
            /\ state[j] = "BLOCKED"
      BY <2>1, <2>3, <3>1 DEF IInv, LinkInv, Linked
    <3>3. pc'[j] = pc[j]
      BY <1>36, <3>2 DEF CancelStart
    <3> QED
      BY <2>1, <2>5, <3>1, <3>2, <3>3
  <2>6. CASE z # e
    <3>1. /\ pc[z] \in {"spin", "push"} /\ pc'[z] = pc[z] /\ ret'[z] = ret[z] /\ arg'[z] = arg[z]
          /\ from'[z] = from[z]
      BY <1>36, <2>1, <2>6 DEF CancelStart
    <3>2. p_link'[q] = p_link[q] \/ Resumer(z)
      BY <1>a, <1>b, <1>36, <2>1, <2>6, <3>1 DEF CancelStart
    <3>7. Woken(z)' = w /\ Ender(z)' = q /\ Resumer(z)' = Resumer(z)
            /\ (~ Resumer(z) => p_link[q] = w)
      BY <1>a, <1>b, <3>1, <3>2
    <3>3. /\ state'[w] = state[w] /\ p_pool'[w] = p_pool[w] /\ arg'[w] = arg[w] /\ pc'[w] = pc[w]
          /\ "BLOCK" \notin request[w] => "BLOCK" \notin request'[w]
          /\ "TERMINATE" \notin request[w] => "TERMINATE" \notin request'[w]
      BY <1>b, <1>36, <2>1, <2>6, <3>1 DEF CancelStart
    <3>4. \A d \in Threads : pc'[d] \in {"spin", "push"} /\ ret'[d] = "user" /\ arg'[d] = arg[z]
                              => pc[d] \in {"spin", "push"} /\ ret[d] = "user" /\ arg[d] = arg[z]
      BY <1>36, <2>1, <2>6, <3>1 DEF CancelStart
    <3>5. pc[z] = "push" => \A y \in Xstreams : cur'[y] # w /\ ~ Hand(y, w)'
      BY <1>b, <1>36, <2>1, <2>6, <3>1 DEF CancelStart
    <3>6. \A p \in Pools : w \notin pool'[p]
      BY <1>b, <1>36, <2>1, <2>6, <3>1 DEF CancelStart
    <3> HIDE DEF Woken, Ender, Resumer, Hand
    <3> QED
      BY <1>a, <1>b, <3>1, <3>2, <3>3, <3>4, <3>5, <3>6, <3>7
  <2> QED
    BY <2>5, <2>6
<1>37. ASSUME NEW e \in Xstreams, CancelLink(e) PROVE WokenBy(z)'
  <2> DEFINE u == arg[e]
  <2>1. u \in Threads /\ HeldBy(e, u) /\ cur[e] = e /\ pc[e] = "cancel.link"
    BY <1>37, HandTarget DEF CancelLink
  <2>3. state[u] # "TERMINATED" /\ ~ Woke(u)
    <3>1. state[u] # "TERMINATED" /\ pc[u] # "done" /\ (\A y \in Xstreams : cur[y] # u)
            /\ \A y \in Xstreams : Hand(y, u) => y = e
      BY <2>1 DEF HeldBy, Canceling
    <3>2. pc[u] \in Off
      BY <2>1, <3>1 DEF IInv, LabelInv, On
    <3> QED
      BY <2>1, <3>1, <3>2 DEF Woke, Off
  <2>5. CASE z = e
    <3> DEFINE j == p_link[u]
    <3>1. pc'[e] = "spin" /\ p_link[u] # None /\ UNCHANGED <<arg, p_link, state>>
      BY <1>37, <2>1, <2>5 DEF CancelLink
    <3>2. j \in Threads /\ arg[j] = u /\ pc[j] \in {"join.suspend", "join.resumed"}
            /\ state[j] = "BLOCKED"
      BY <2>1, <2>3, <3>1 DEF IInv, LinkInv, Linked
    <3>3. pc'[j] = pc[j]
      BY <1>37, <3>2 DEF CancelLink
    <3> QED
      BY <2>1, <2>5, <3>1, <3>2, <3>3
  <2>6. CASE z # e
    <3>1. /\ pc[z] \in {"spin", "push"} /\ pc'[z] = pc[z] /\ ret'[z] = ret[z] /\ arg'[z] = arg[z]
          /\ from'[z] = from[z]
      BY <1>37, <2>1, <2>6 DEF CancelLink
    <3>2. p_link'[q] = p_link[q] \/ Resumer(z)
      BY <1>a, <1>b, <1>37, <2>1, <2>6, <3>1 DEF CancelLink
    <3>7. Woken(z)' = w /\ Ender(z)' = q /\ Resumer(z)' = Resumer(z)
            /\ (~ Resumer(z) => p_link[q] = w)
      BY <1>a, <1>b, <3>1, <3>2
    <3>3. /\ state'[w] = state[w] /\ p_pool'[w] = p_pool[w] /\ arg'[w] = arg[w] /\ pc'[w] = pc[w]
          /\ "BLOCK" \notin request[w] => "BLOCK" \notin request'[w]
          /\ "TERMINATE" \notin request[w] => "TERMINATE" \notin request'[w]
      BY <1>b, <1>37, <2>1, <2>6, <3>1 DEF CancelLink
    <3>4. \A d \in Threads : pc'[d] \in {"spin", "push"} /\ ret'[d] = "user" /\ arg'[d] = arg[z]
                              => pc[d] \in {"spin", "push"} /\ ret[d] = "user" /\ arg[d] = arg[z]
      BY <1>37, <2>1, <2>6, <3>1 DEF CancelLink
    <3>5. pc[z] = "push" => \A y \in Xstreams : cur'[y] # w /\ ~ Hand(y, w)'
      BY <1>b, <1>37, <2>1, <2>6, <3>1 DEF CancelLink
    <3>6. \A p \in Pools : w \notin pool'[p]
      BY <1>b, <1>37, <2>1, <2>6, <3>1 DEF CancelLink
    <3> HIDE DEF Woken, Ender, Resumer, Hand
    <3> QED
      BY <1>a, <1>b, <3>1, <3>2, <3>3, <3>4, <3>5, <3>6, <3>7
  <2> QED
    BY <2>5, <2>6
<1>38. ASSUME NEW e \in Xstreams,
              ReadBlocked(e) \/ XstreamJoin(e)
       PROVE  WokenBy(z)'
  <2> DEFINE u == arg[e]
  <2>1. cur[e] = e /\ pc[e] \in InHand \cup InSetReady => u \in Threads /\ HeldBy(e, u)
    BY HandTarget
  <2> QED
    BY <1>a, <1>b, <1>38, <2>1 DEF ReadBlocked, XstreamJoin, HeldBy, Canceling
<1>39. CASE UNCHANGED vars
  BY <1>a, <1>b, <1>39 DEF vars
<1> HIDE DEF WokenBy
<1> QED
  BY <1>1, <1>2, <1>3, <1>4, <1>5, <1>6, <1>7, <1>8, <1>9, <1>10, <1>11, <1>12, <1>13,
    <1>14, <1>15, <1>16, <1>17, <1>18, <1>19, <1>20, <1>21, <1>22, <1>23, <1>24, <1>25,
    <1>26, <1>27, <1>28, <1>29, <1>30, <1>31, <1>32, <1>33, <1>34, <1>35, <1>36, <1>37,
    <1>38, <1>39 DEF Next, EsStep, SchedStep, UserStep, RuntimeStep, JoinStep, ExitStep,
    ExitStart

(* No ULT that can run is lost.                                            *)
LEMMA PlaceInvStep ==
  ASSUME ConstantsAssumption, Program, IInv, [Next]_vars
  PROVE  PlaceInv'
<1> SUFFICES ASSUME NEW v \in Threads, state'[v] \in {"READY", "RUNNING"} PROVE Placed(v)'
  BY DEF PlaceInv
<1> USE ConstantsAssumption DEF ConstantsAssumption, StackOK, PcOK, ThreadOK, StateOK,
  CountOK, RetOK, Placed, On, Hand, Woken, InHand, InSetReady, Goto, At, ToSched,
  AddRequest, SetBlocked, Pooled, Contexts, Handles, Suspended, Migratable, stackVars,
  threadVars, poolVars, stopVars
<1>0. StackOK /\ PcOK /\ ThreadOK /\ StateOK /\ CountOK /\ RetOK
  BY DEF IInv
<1> USE <1>0
<1>a. state[v] \in {"READY", "RUNNING"} => Placed(v)
  BY DEF IInv, PlaceInv
<1>b. \A y \in Xstreams : cur[y] = v => p_last_xstream[v] = y
  BY DEF IInv, RunInv, RunsOn
<1>c. \A y \in Xstreams : /\ cur[y] # y => pc[y] = "run"
                          /\ pc[y] \in InSetReady => cur[y] = y /\ arg[y] \in Threads
                               /\ p_link[arg[y]] # None
  BY DEF IInv, EsInv
<1>1. ASSUME NEW e \in Xstreams, NEW t \in Threads, Yield(e, t) PROVE Placed(v)'
  <2>8. CASE v = t
    BY <1>1, <2>8 DEF Yield
  <2>9. CASE v # t
    <3>1. On(v) => On(v)'
      BY <1>b, <1>1, <2>9 DEF Yield
    <3>2. v \in pool[p_pool[v]] => v \in pool'[p_pool'[v]]
      BY <1>1, <2>9 DEF Yield
    <3>3. \A y \in Xstreams : Hand(y, v) => Hand(y, v)'
      BY <1>1, <2>9 DEF Yield
    <3>4. \A z \in Contexts : pc[z] = "push" /\ Woken(z) = v => pc'[z] = "push" /\ Woken(z)' = v
      BY <1>c, <1>1, <2>9 DEF Yield
    <3>5. state[v] \in {"READY", "RUNNING"}
      BY <1>1, <2>9 DEF Yield
    <3> QED
      BY <1>a, <3>1, <3>2, <3>3, <3>4, <3>5
  <2> QED
    BY <2>8, <2>9
<1>2. ASSUME NEW e \in Xstreams, NEW t \in Threads, Preempt(e, t) PROVE Placed(v)'
  <2>8. CASE v = t
    BY <1>2, <2>8 DEF Preempt
  <2>9. CASE v # t
    <3>1. On(v) => On(v)'
      BY <1>b, <1>2, <2>9 DEF Preempt
    <3>2. v \in pool[p_pool[v]] => v \in pool'[p_pool'[v]]
      BY <1>2, <2>9 DEF Preempt
    <3>3. \A y \in Xstreams : Hand(y, v) => Hand(y, v)'
      BY <1>2, <2>9 DEF Preempt
    <3>4. \A z \in Contexts : pc[z] = "push" /\ Woken(z) = v => pc'[z] = "push" /\ Woken(z)' = v
      BY <1>c, <1>2, <2>9 DEF Preempt
    <3>5. state[v] \in {"READY", "RUNNING"}
      BY <1>2, <2>9 DEF Preempt
    <3> QED
      BY <1>a, <3>1, <3>2, <3>3, <3>4, <3>5
  <2> QED
    BY <2>8, <2>9
<1>3. ASSUME NEW e \in Xstreams, NEW t \in Threads, SuspendBlock(e, t) PROVE Placed(v)'
  <2>1. cur[e] = t => RunsOn(e, t)
    BY DEF IInv, RunInv
  <2> QED
    BY <1>a, <1>b, <1>3, <2>1 DEF SuspendBlock, RunsOn, Blocking
<1>4. ASSUME NEW e \in Xstreams, NEW t \in Threads, ExitJump(e, t) PROVE Placed(v)'
  <2>1. cur[e] = t => RunsOn(e, t)
    BY DEF IInv, RunInv
  <2> QED
    BY <1>a, <1>b, <1>4, <2>1 DEF ExitJump, RunsOn, Blocking
<1>5. ASSUME NEW e \in Xstreams, NEW t \in Threads, ExitWake(e, t) PROVE Placed(v)'
  <2>1. cur[e] = t => RunsOn(e, t)
    BY DEF IInv, RunInv
  <2> QED
    BY <1>a, <1>b, <1>5, <2>1 DEF ExitWake, RunsOn, Blocking
<1>6. ASSUME NEW e \in Xstreams, NEW t \in Threads, ExitAlone(e, t) PROVE Placed(v)'
  <2>1. cur[e] = t => RunsOn(e, t)
    BY DEF IInv, RunInv
  <2> QED
    BY <1>a, <1>b, <1>6, <2>1 DEF ExitAlone, RunsOn, Blocking
<1>7. ASSUME NEW e \in Xstreams, NEW t \in Threads, JoinRequest(e, t) PROVE Placed(v)'
  <2>1. cur[e] = t => RunsOn(e, t)
    BY DEF IInv, RunInv
  <2> QED
    BY <1>a, <1>b, <1>7, <2>1 DEF JoinRequest, RunsOn, Blocking
<1>8. ASSUME NEW e \in Xstreams, NEW t \in Threads, JoinBlock(e, t) PROVE Placed(v)'
  <2>1. cur[e] = t => RunsOn(e, t)
    BY DEF IInv, RunInv
  <2> QED
    BY <1>a, <1>b, <1>8, <2>1 DEF JoinBlock, RunsOn, Blocking
<1>9. ASSUME NEW e \in Xstreams, NEW t \in Threads, JoinResumed(e, t) PROVE Placed(v)'
  <2>1. cur[e] = t => RunsOn(e, t)
    BY DEF IInv, RunInv
  <2> QED
    BY <1>a, <1>b, <1>9, <2>1 DEF JoinResumed, RunsOn, Blocking
<1>10. ASSUME NEW e \in Xstreams, NEW t \in Threads, ExitStore(e, t) PROVE Placed(v)'
  <2>1. cur[e] = t => RunsOn(e, t)
    BY DEF IInv, RunInv
  <2> QED
    BY <1>a, <1>b, <1>10, <2>1 DEF ExitStore, RunsOn, Blocking
<1>11. ASSUME NEW e \in Xstreams, NEW t \in Threads, ExitRequest(e, t) PROVE Placed(v)'
  <2>1. cur[e] = t => RunsOn(e, t)
    BY DEF IInv, RunInv
  <2> QED
    BY <1>a, <1>b, <1>11, <2>1 DEF ExitRequest, RunsOn, Blocking
<1>12. ASSUME NEW e \in Xstreams, NEW t \in Threads, ExitLink(e, t) PROVE Placed(v)'
  <2>1. cur[e] = t => RunsOn(e, t)
    BY DEF IInv, RunInv
  <2> QED
    BY <1>a, <1>b, <1>12, <2>1 DEF ExitLink, RunsOn, Blocking
<1>13. ASSUME NEW e \in Xstreams, NEW t \in Threads, SuspendSwitch(e, t) PROVE Placed(v)'
  <2>8. CASE v = t
    BY <1>13, <2>8 DEF SuspendSwitch
  <2>9. CASE v # t
    <3>1. On(v) => On(v)'
      BY <1>b, <1>13, <2>9 DEF SuspendSwitch
    <3>2. v \in pool[p_pool[v]] => v \in pool'[p_pool'[v]]
      BY <1>13, <2>9 DEF SuspendSwitch
    <3>3. \A y \in Xstreams : Hand(y, v) => Hand(y, v)'
      BY <1>13, <2>9 DEF SuspendSwitch
    <3>4. \A z \in Contexts : pc[z] = "push" /\ Woken(z) = v => pc'[z] = "push" /\ Woken(z)' = v
      BY <1>c, <1>13, <2>9 DEF SuspendSwitch
    <3>5. state[v] \in {"READY", "RUNNING"}
      BY <1>13, <2>9 DEF SuspendSwitch
    <3> QED
      BY <1>a, <3>1, <3>2, <3>3, <3>4, <3>5
  <2> QED
    BY <2>8, <2>9
<1>14. ASSUME NEW e \in Xstreams, NEW t \in Threads, JoinPool(e, t) PROVE Placed(v)'
  <2> DEFINE u == arg[t]
  <2>1. cur[e] = t /\ pc[t] = "join.pool" /\ u \in pool[p_pool[u]]
    BY <1>14 DEF JoinPool
  <2>2. u \in Threads /\ u # t /\ p_link[u] = None /\ u \in pool[SchedPool[e]]
    BY <2>1, JoinPoolTarget
  <2>3. v # t
    BY <1>14, <2>2 DEF JoinPool
  <2>8. CASE v = u
    BY <1>14, <2>2, <2>8 DEF JoinPool
  <2>9. CASE v # u
    <3>1. On(v) => On(v)'
      BY <1>b, <1>14, <2>2, <2>3, <2>9 DEF JoinPool
    <3>2. v \in pool[p_pool[v]] => v \in pool'[p_pool'[v]]
      BY <1>14, <2>2, <2>3, <2>9 DEF JoinPool
    <3>3. \A y \in Xstreams : Hand(y, v) => Hand(y, v)'
      BY <1>14, <2>2, <2>3, <2>9 DEF JoinPool
    <3>4. \A z \in Contexts : pc[z] = "push" /\ Woken(z) = v => pc'[z] = "push" /\ Woken(z)' = v
      BY <1>c, <1>14, <2>2, <2>3, <2>9 DEF JoinPool
    <3>5. state[v] \in {"READY", "RUNNING"}
      BY <1>14, <2>2, <2>3, <2>9 DEF JoinPool
    <3> QED
      BY <1>a, <3>1, <3>2, <3>3, <3>4, <3>5
  <2> QED
    BY <2>8, <2>9
<1>15. ASSUME NEW e \in Xstreams, NEW t \in Threads, JoinLink(e, t) PROVE Placed(v)'
  <2>1. arg[t] \in Threads /\ p_link[arg[t]] = None
    BY <1>15, JoinTarget DEF JoinLink, IInv, JoinInv, Joining, InJoin
  <2>6. On(v) => On(v)'
    BY <1>b, <1>15, <2>1 DEF JoinLink
  <2>2. v \in pool[p_pool[v]] => v \in pool'[p_pool'[v]]
    BY <1>15, <2>1 DEF JoinLink
  <2>3. \A y \in Xstreams : Hand(y, v) => Hand(y, v)'
    BY <1>15, <2>1 DEF JoinLink
  <2>4. \A z \in Contexts : pc[z] = "push" /\ Woken(z) = v => pc'[z] = "push" /\ Woken(z)' = v
    BY <1>c, <1>15, <2>1 DEF JoinLink
  <2>5. state[v] \in {"READY", "RUNNING"}
    BY <1>15, <2>1 DEF JoinLink
  <2> QED
    BY <1>a, <2>6, <2>2, <2>3, <2>4, <2>5
<1>16. ASSUME NEW e \in Xstreams, NEW t \in Threads, JoinSuspend(e, t) PROVE Placed(v)'
  <2>8. CASE v = t
    BY <1>16, <2>8 DEF JoinSuspend
  <2>9. CASE v # t
    <3>1. On(v) => On(v)'
      BY <1>b, <1>16, <2>9 DEF JoinSuspend
    <3>2. v \in pool[p_pool[v]] => v \in pool'[p_pool'[v]]
      BY <1>16, <2>9 DEF JoinSuspend
    <3>3. \A y \in Xstreams : Hand(y, v) => Hand(y, v)'
      BY <1>16, <2>9 DEF JoinSuspend
    <3>4. \A z \in Contexts : pc[z] = "push" /\ Woken(z) = v => pc'[z] = "push" /\ Woken(z)' = v
      BY <1>c, <1>16, <2>9 DEF JoinSuspend
    <3>5. state[v] \in {"READY", "RUNNING"}
      BY <1>16, <2>9 DEF JoinSuspend
    <3> QED
      BY <1>a, <3>1, <3>2, <3>3, <3>4, <3>5
  <2> QED
    BY <2>8, <2>9
<1>17. ASSUME NEW e \in Xstreams, NEW t \in Threads, JoinYield(e, t) PROVE Placed(v)'
  <2>1. CASE state[arg[t]] = "TERMINATED"
    <3>1. On(v) => On(v)'
      BY <1>b, <1>17, <2>1 DEF JoinYield
    <3>2. v \in pool[p_pool[v]] => v \in pool'[p_pool'[v]]
      BY <1>17, <2>1 DEF JoinYield
    <3>3. \A y \in Xstreams : Hand(y, v) => Hand(y, v)'
      BY <1>17, <2>1 DEF JoinYield
    <3>4. \A z \in Contexts : pc[z] = "push" /\ Woken(z) = v => pc'[z] = "push" /\ Woken(z)' = v
      BY <1>c, <1>17, <2>1 DEF JoinYield
    <3>5. state[v] \in {"READY", "RUNNING"}
      BY <1>17, <2>1 DEF JoinYield
    <3> QED
      BY <1>a, <3>1, <3>2, <3>3, <3>4, <3>5
  <2>2. CASE state[arg[t]] # "TERMINATED"
    <3>8. CASE v = t
      BY <1>17, <2>2, <3>8 DEF JoinYield
    <3>9. CASE v # t
      <4>1. On(v) => On(v)'
        BY <1>b, <1>17, <2>2, <3>9 DEF JoinYield
      <4>2. v \in pool[p_pool[v]] => v \in pool'[p_pool'[v]]
        BY <1>17, <2>2, <3>9 DEF JoinYield
      <4>3. \A y \in Xstreams : Hand(y, v) => Hand(y, v)'
        BY <1>17, <2>2, <3>9 DEF JoinYield
      <4>4. \A z \in Contexts : pc[z] = "push" /\ Woken(z) = v => pc'[z] = "push" /\ Woken(z)' = v
        <5>1. /\ pc' = [pc EXCEPT ![t] = "join.yield", ![e] = "after"]
                   /\ arg' = [arg EXCEPT ![e] = t]
              /\ p_link' = p_link /\ cur[e] = t /\ pc[t] = "join.yield"
          BY <1>17, <2>2 DEF JoinYield
        <5> QED
          BY <1>c, <5>1
      <4>5. state[v] \in {"READY", "RUNNING"}
        BY <1>17, <2>2, <3>9 DEF JoinYield
      <4> QED
        BY <1>a, <4>1, <4>2, <4>3, <4>4, <4>5
    <3> QED
      BY <3>8, <3>9
  <2> QED
    BY <2>1, <2>2
<1>18. ASSUME NEW e \in Xstreams, NEW t \in Threads, ExitLeave(e, t) PROVE Placed(v)'
  <2>8. CASE v = t
    BY <1>18, <2>8 DEF ExitLeave
  <2>9. CASE v # t
    <3>1. On(v) => On(v)'
      BY <1>b, <1>18, <2>9 DEF ExitLeave
    <3>2. v \in pool[p_pool[v]] => v \in pool'[p_pool'[v]]
      BY <1>18, <2>9 DEF ExitLeave
    <3>3. \A y \in Xstreams : Hand(y, v) => Hand(y, v)'
      BY <1>18, <2>9 DEF ExitLeave
    <3>4. \A z \in Contexts : pc[z] = "push" /\ Woken(z) = v => pc'[z] = "push" /\ Woken(z)' = v
      BY <1>c, <1>18, <2>9 DEF ExitLeave
    <3>5. state[v] \in {"READY", "RUNNING"}
      BY <1>18, <2>9 DEF ExitLeave
    <3> QED
      BY <1>a, <3>1, <3>2, <3>3, <3>4, <3>5
  <2> QED
    BY <2>8, <2>9
<1>19. ASSUME NEW e \in Xstreams, NEW t \in Threads, YieldToSwitch(e, t) PROVE Placed(v)'
  <2> DEFINE u == arg[t]
  <2>1. u \in Threads /\ u # t /\ u \in pool[SchedPool[e]] /\ t \in pool[SchedPool[e]]
          /\ p_pool[t] = SchedPool[e]
    BY <1>19, YieldToTarget DEF YieldToSwitch
  <2>8. CASE v = u
    BY <1>19, <2>1, <2>8 DEF YieldToSwitch
  <2>7. CASE v = t
    BY <1>19, <2>1, <2>7 DEF YieldToSwitch
  <2>9. CASE v # u /\ v # t
    <3>1. On(v) => On(v)'
      BY <1>b, <1>19, <2>1, <2>9 DEF YieldToSwitch
    <3>2. v \in pool[p_pool[v]] => v \in pool'[p_pool'[v]]
      BY <1>19, <2>1, <2>9 DEF YieldToSwitch
    <3>3. \A y \in Xstreams : Hand(y, v) => Hand(y, v)'
      BY <1>19, <2>1, <2>9 DEF YieldToSwitch
    <3>4. \A z \in Contexts : pc[z] = "push" /\ Woken(z) = v => pc'[z] = "push" /\ Woken(z)' = v
      BY <1>c, <1>19, <2>1, <2>9 DEF YieldToSwitch
    <3>5. state[v] \in {"READY", "RUNNING"}
      BY <1>19, <2>1, <2>9 DEF YieldToSwitch
    <3> QED
      BY <1>a, <3>1, <3>2, <3>3, <3>4, <3>5
  <2> QED
    BY <2>7, <2>8, <2>9
<1>20. ASSUME NEW e \in Xstreams, NEW t \in Threads, MigrateRequest(e, t) PROVE Placed(v)'
  <2>1. CASE t # arg[t]
    <3>1. On(v) => On(v)'
      BY <1>b, <1>20, <2>1 DEF MigrateRequest
    <3>2. v \in pool[p_pool[v]] => v \in pool'[p_pool'[v]]
      BY <1>20, <2>1 DEF MigrateRequest
    <3>3. \A y \in Xstreams : Hand(y, v) => Hand(y, v)'
      BY <1>20, <2>1 DEF MigrateRequest
    <3>4. \A z \in Contexts : pc[z] = "push" /\ Woken(z) = v => pc'[z] = "push" /\ Woken(z)' = v
      BY <1>c, <1>20, <2>1 DEF MigrateRequest
    <3>5. state[v] \in {"READY", "RUNNING"}
      BY <1>20, <2>1 DEF MigrateRequest
    <3> QED
      BY <1>a, <3>1, <3>2, <3>3, <3>4, <3>5
  <2>2. CASE t = arg[t]
    <3>8. CASE v = t
      BY <1>20, <2>2, <3>8 DEF MigrateRequest
    <3>9. CASE v # t
      <4>1. On(v) => On(v)'
        BY <1>b, <1>20, <2>2, <3>9 DEF MigrateRequest
      <4>2. v \in pool[p_pool[v]] => v \in pool'[p_pool'[v]]
        BY <1>20, <2>2, <3>9 DEF MigrateRequest
      <4>3. \A y \in Xstreams : Hand(y, v) => Hand(y, v)'
        BY <1>20, <2>2, <3>9 DEF MigrateRequest
      <4>4. \A z \in Contexts : pc[z] = "push" /\ Woken(z) = v => pc'[z] = "push" /\ Woken(z)' = v
        <5>1. /\ pc[t] = "mig.request" /\ cur[e] = t /\ arg' = [arg EXCEPT ![e] = t]
                   /\ UNCHANGED p_link
              /\ \E l \in {"user", "mig.count"} : pc' = [pc EXCEPT ![t] = l, ![e] = "after"]
          BY <1>20, <2>2 DEF MigrateRequest
        <5>2. pc[e] = "run"
          BY <1>c, <5>1
        <5>3. \A z \in Contexts : pc[z] = "push" => pc'[z] = "push" /\ arg'[z] = arg[z]
          BY <5>1, <5>2
        <5> QED
          BY <5>1, <5>3
      <4>5. state[v] \in {"READY", "RUNNING"}
        BY <1>20, <2>2, <3>9 DEF MigrateRequest
      <4> QED
        BY <1>a, <4>1, <4>2, <4>3, <4>4, <4>5
    <3> QED
      BY <3>8, <3>9
  <2> QED
    BY <2>1, <2>2
<1>21. ASSUME NEW e \in Xstreams, NEW t \in Threads, MigrateCount(e, t) PROVE Placed(v)'
  <2>1. cur[e] = t => RunsOn(e, t)
    BY DEF IInv, RunInv
  <2> QED
    BY <1>a, <1>b, <1>21, <2>1 DEF MigrateCount, RunsOn, Blocking
<1>22. ASSUME NEW e \in Xstreams, NEW t \in Threads, Pop(e, t) PROVE Placed(v)'
  <2> DEFINE u == arg[e]
  <2>1. cur[e] = e /\ pc[e] \in InHand \cup InSetReady => u \in Threads /\ HeldBy(e, u)
    BY HandTarget
  <2> QED
    BY <1>a, <1>b, <1>22, <2>1 DEF Pop, HeldBy, Canceling
<1>23. ASSUME NEW e \in Xstreams, NEW t \in Threads, NEW u \in Threads, Resume(e, t, u)
       PROVE  Placed(v)'
  <2>1. cur[e] = t => RunsOn(e, t)
    BY DEF IInv, RunInv
  <2> QED
    BY <1>a, <1>b, <1>23, <2>1 DEF Resume, RunsOn, Blocking
<1>24. ASSUME NEW e \in Xstreams, NEW t \in Threads, NEW u \in Threads, JoinStart(e, t, u)
       PROVE  Placed(v)'
  <2>1. cur[e] = t => RunsOn(e, t)
    BY DEF IInv, RunInv
  <2> QED
    BY <1>a, <1>b, <1>24, <2>1 DEF JoinStart, RunsOn, Blocking
<1>25. ASSUME NEW e \in Xstreams, NEW t \in Threads, NEW u \in Threads, Cancel(e, t, u)
       PROVE  Placed(v)'
  <2>1. cur[e] = t => RunsOn(e, t)
    BY DEF IInv, RunInv
  <2> QED
    BY <1>a, <1>b, <1>25, <2>1 DEF Cancel, RunsOn, Blocking
<1>26. ASSUME NEW e \in Xstreams, NEW t \in Threads, NEW u \in Threads, YieldToPush(e, t, u)
       PROVE  Placed(v)'
  <2>8. CASE v = t
    BY <1>26, <2>8 DEF YieldToPush
  <2>9. CASE v # t
    <3>1. On(v) => On(v)'
      BY <1>b, <1>26, <2>9 DEF YieldToPush
    <3>2. v \in pool[p_pool[v]] => v \in pool'[p_pool'[v]]
      BY <1>26, <2>9 DEF YieldToPush
    <3>3. \A y \in Xstreams : Hand(y, v) => Hand(y, v)'
      BY <1>26, <2>9 DEF YieldToPush
    <3>4. \A z \in Contexts : pc[z] = "push" /\ Woken(z) = v => pc'[z] = "push" /\ Woken(z)' = v
      BY <1>c, <1>26, <2>9 DEF YieldToPush
    <3>5. state[v] \in {"READY", "RUNNING"}
      BY <1>26, <2>9 DEF YieldToPush
    <3> QED
      BY <1>a, <3>1, <3>2, <3>3, <3>4, <3>5
  <2> QED
    BY <2>8, <2>9
<1>27. ASSUME NEW e \in Xstreams, NEW t \in Threads, NEW u \in Threads, NEW d \in Xstreams,
              MigrateToXstream(e, t, u, d)
       PROVE  Placed(v)'
  <2>1. cur[e] = t => RunsOn(e, t)
    BY DEF IInv, RunInv
  <2> QED
    BY <1>a, <1>b, <1>27, <2>1 DEF MigrateToXstream, RunsOn, Blocking
<1>28. ASSUME NEW e \in Xstreams, NEW t \in Threads, NEW u \in Threads, NEW p \in Pools,
              MigrateToPool(e, t, u, p)
       PROVE  Placed(v)'
  <2>1. cur[e] = t => RunsOn(e, t)
    BY DEF IInv, RunInv
  <2> QED
    BY <1>a, <1>b, <1>28, <2>1 DEF MigrateToPool, RunsOn, Blocking
<1>29. ASSUME NEW e \in Xstreams, NEW c \in Contexts, SetReadySpin(e, c) PROVE Placed(v)'
  <2> DEFINE u == arg[e]
  <2>1. cur[e] = e /\ pc[e] \in InHand \cup InSetReady => u \in Threads /\ HeldBy(e, u)
    BY HandTarget
  <2> QED
    BY <1>a, <1>b, <1>29, <2>1 DEF SetReadySpin, HeldBy, Canceling
<1>30. ASSUME NEW e \in Xstreams, NEW c \in Contexts, SetReadyPush(e, c) PROVE Placed(v)'
  <2> DEFINE u == Woken(c)
  <2>1. u \in Threads /\ from[c] = p_pool[u]
    BY <1>30 DEF SetReadyPush, IInv, WakeInv, WokenBy
  <2>8. CASE v = u
    BY <1>30, <2>1, <2>8 DEF SetReadyPush
  <2>9. CASE v # u
    <3>1. On(v) => On(v)'
      BY <1>b, <1>30, <2>1, <2>9 DEF SetReadyPush
    <3>2. v \in pool[p_pool[v]] => v \in pool'[p_pool'[v]]
      BY <1>30, <2>1, <2>9 DEF SetReadyPush
    <3>3. \A y \in Xstreams : Hand(y, v) => Hand(y, v)'
      BY <1>30, <2>1, <2>9 DEF SetReadyPush
    <3>4. \A z \in Contexts : pc[z] = "push" /\ Woken(z) = v => pc'[z] = "push" /\ Woken(z)' = v
      BY <1>c, <1>30, <2>1, <2>9 DEF SetReadyPush
    <3>5. state[v] \in {"READY", "RUNNING"}
      BY <1>30, <2>1, <2>9 DEF SetReadyPush
    <3> QED
      BY <1>a, <3>1, <3>2, <3>3, <3>4, <3>5
  <2> QED
    BY <2>8, <2>9
<1>31. ASSUME NEW e \in Xstreams, NEW c \in Contexts, SetReadyDec(e, c) PROVE Placed(v)'
  <2>1. c \in Xstreams => ret[c] = "end"
    BY <1>31 DEF SetReadyDec, IInv, EsInv, Canceling
  <2>6. On(v) => On(v)'
    BY <1>b, <1>31, <2>1 DEF SetReadyDec
  <2>2. v \in pool[p_pool[v]] => v \in pool'[p_pool'[v]]
    BY <1>31, <2>1 DEF SetReadyDec
  <2>3. \A y \in Xstreams : Hand(y, v) => Hand(y, v)'
    BY <1>31, <2>1 DEF SetReadyDec
  <2>4. \A z \in Contexts : pc[z] = "push" /\ Woken(z) = v => pc'[z] = "push" /\ Woken(z)' = v
    BY <1>c, <1>31, <2>1 DEF SetReadyDec
  <2>5. state[v] \in {"READY", "RUNNING"}
    BY <1>31, <2>1 DEF SetReadyDec
  <2> QED
    BY <1>a, <2>6, <2>2, <2>3, <2>4, <2>5
<1>32. ASSUME NEW e \in Xstreams, Run(e) PROVE Placed(v)'
  <2> DEFINE u == arg[e]
  <2>1. cur[e] = e /\ pc[e] \in InHand \cup InSetReady => u \in Threads /\ HeldBy(e, u)
    BY HandTarget
  <2> QED
    BY <1>a, <1>b, <1>32, <2>1 DEF Run, HeldBy, Canceling
<1>33. ASSUME NEW e \in Xstreams, AfterYield(e) PROVE Placed(v)'
  <2> DEFINE u == arg[e]
  <2>1. cur[e] = e /\ pc[e] \in InHand \cup InSetReady => u \in Threads /\ HeldBy(e, u)
    BY HandTarget
  <2> QED
    BY <1>a, <1>b, <1>33, <2>1 DEF AfterYield, HeldBy, Canceling
<1>34. ASSUME NEW e \in Xstreams, AfterBlock(e) PROVE Placed(v)'
  <2> DEFINE u == arg[e]
  <2>1. cur[e] = e /\ pc[e] \in InHand \cup InSetReady => u \in Threads /\ HeldBy(e, u)
    BY HandTarget
  <2> QED
    BY <1>a, <1>b, <1>34, <2>1 DEF AfterBlock, HeldBy, Canceling
<1>35. ASSUME NEW e \in Xstreams, AfterTerminate(e) PROVE Placed(v)'
  <2> DEFINE u == arg[e]
  <2>1. cur[e] = e /\ pc[e] \in InHand \cup InSetReady => u \in Threads /\ HeldBy(e, u)
    BY HandTarget
  <2> QED
    BY <1>a, <1>b, <1>35, <2>1 DEF AfterTerminate, HeldBy, Canceling
<1>36. ASSUME NEW e \in Xstreams, End(e) PROVE Placed(v)'
  <2> DEFINE u == arg[e]
  <2>1. cur[e] = e /\ pc[e] \in InHand \cup InSetReady => u \in Threads /\ HeldBy(e, u)
    BY HandTarget
  <2> QED
    BY <1>a, <1>b, <1>36, <2>1 DEF End, HeldBy, Canceling
<1>37. ASSUME NEW e \in Xstreams, MigrateDec(e) PROVE Placed(v)'
  <2> DEFINE u == arg[e]
  <2>1. cur[e] = e /\ pc[e] \in InHand \cup InSetReady => u \in Threads /\ HeldBy(e, u)
    BY HandTarget
  <2> QED
    BY <1>a, <1>b, <1>37, <2>1 DEF MigrateDec, HeldBy, Canceling
<1>38. ASSUME NEW e \in Xstreams, CancelStart(e) PROVE Placed(v)'
  <2> DEFINE u == arg[e]
  <2>1. cur[e] = e /\ pc[e] \in InHand \cup InSetReady => u \in Threads /\ HeldBy(e, u)
    BY HandTarget
  <2> QED
    BY <1>a, <1>b, <1>38, <2>1 DEF CancelStart, HeldBy, Canceling
<1>39. ASSUME NEW e \in Xstreams, CancelRequest(e) PROVE Placed(v)'
  <2> DEFINE u == arg[e]
  <2>1. cur[e] = e /\ pc[e] \in InHand \cup InSetReady => u \in Threads /\ HeldBy(e, u)
    BY HandTarget
  <2> QED
    BY <1>a, <1>b, <1>39, <2>1 DEF CancelRequest, HeldBy, Canceling
<1>40. ASSUME NEW e \in Xstreams, CancelLink(e) PROVE Placed(v)'
  <2> DEFINE u == arg[e]
  <2>1. cur[e] = e /\ pc[e] \in InHand \cup InSetReady => u \in Threads /\ HeldBy(e, u)
    BY HandTarget
  <2> QED
    BY <1>a, <1>b, <1>40, <2>1 DEF CancelLink, HeldBy, Canceling
<1>41. ASSUME NEW e \in Xstreams, HasToStop(e) PROVE Placed(v)'
  <2> DEFINE u == arg[e]
  <2>1. cur[e] = e /\ pc[e] \in InHand \cup InSetReady => u \in Threads /\ HeldBy(e, u)
    BY HandTarget
  <2> QED
    BY <1>a, <1>b, <1>41, <2>1 DEF HasToStop, HeldBy, Canceling
<1>42. ASSUME NEW e \in Xstreams, MigrateThread(e) PROVE Placed(v)'
  <2> DEFINE u == arg[e]
  <2>1. u \in Threads /\ cur[e] = e /\ pc[e] \in InHand /\ mig[u] \in Pools
          /\ p_pool[u] = SchedPool[e]
    BY <1>42, HandTarget DEF MigrateThread, IInv, MigInv, HeldBy
  <2>8. CASE v = u
    BY <1>42, <2>1, <2>8 DEF MigrateThread
  <2>9. CASE v # u
    <3>1. On(v) => On(v)'
      BY <1>b, <1>42, <2>1, <2>9 DEF MigrateThread
    <3>2. v \in pool[p_pool[v]] => v \in pool'[p_pool'[v]]
      BY <1>42, <2>1, <2>9 DEF MigrateThread
    <3>3. \A y \in Xstreams : Hand(y, v) => Hand(y, v)'
      BY <1>42, <2>1, <2>9 DEF MigrateThread
    <3>4. \A z \in Contexts : pc[z] = "push" /\ Woken(z) = v => pc'[z] = "push" /\ Woken(z)' = v
      BY <1>c, <1>42, <2>1, <2>9 DEF MigrateThread
    <3>5. state[v] \in {"READY", "RUNNING"}
      BY <1>42, <2>1, <2>9 DEF MigrateThread
    <3> QED
      BY <1>a, <3>1, <3>2, <3>3, <3>4, <3>5
  <2> QED
    BY <2>8, <2>9
<1>43. ASSUME NEW e \in Xstreams, ReadSize(e) PROVE Placed(v)'
  <2> DEFINE u == arg[e]
  <2>1. cur[e] = e /\ pc[e] \in InHand \cup InSetReady => u \in Threads /\ HeldBy(e, u)
    BY HandTarget
  <2> QED
    BY <1>a, <1>b, <1>43, <2>1 DEF ReadSize, HeldBy, Canceling
<1>44. ASSUME NEW e \in Xstreams, ReadMigrations(e) PROVE Placed(v)'
  <2> DEFINE u == arg[e]
  <2>1. cur[e] = e /\ pc[e] \in InHand \cup InSetReady => u \in Threads /\ HeldBy(e, u)
    BY HandTarget
  <2> QED
    BY <1>a, <1>b, <1>44, <2>1 DEF ReadMigrations, HeldBy, Canceling
<1>45. ASSUME NEW e \in Xstreams, ReadBlocked(e) PROVE Placed(v)'
  <2> DEFINE u == arg[e]
  <2>1. cur[e] = e /\ pc[e] \in InHand \cup InSetReady => u \in Threads /\ HeldBy(e, u)
    BY HandTarget
  <2> QED
    BY <1>a, <1>b, <1>45, <2>1 DEF ReadBlocked, HeldBy, Canceling
<1>46. ASSUME NEW e \in Xstreams, XstreamJoin(e) PROVE Placed(v)'
  <2> DEFINE u == arg[e]
  <2>1. cur[e] = e /\ pc[e] \in InHand \cup InSetReady => u \in Threads /\ HeldBy(e, u)
    BY HandTarget
  <2> QED
    BY <1>a, <1>b, <1>46, <2>1 DEF XstreamJoin, HeldBy, Canceling
<1>47. CASE UNCHANGED vars
  BY <1>a, <1>b, <1>47 DEF vars
<1> HIDE DEF Placed
<1> QED
  BY <1>1, <1>2, <1>3, <1>4, <1>5, <1>6, <1>7, <1>8, <1>9, <1>10, <1>11, <1>12, <1>13,
    <1>14, <1>15, <1>16, <1>17, <1>18, <1>19, <1>20, <1>21, <1>22, <1>23, <1>24, <1>25,
    <1>26, <1>27, <1>28, <1>29, <1>30, <1>31, <1>32, <1>33, <1>34, <1>35, <1>36, <1>37,
    <1>38, <1>39, <1>40, <1>41, <1>42, <1>43, <1>44, <1>45, <1>46, <1>47 DEF Next, EsStep,
    SchedStep, UserStep, RuntimeStep, JoinStep, ExitStep, ExitStart

(* A joiner links itself to its target before the target looks for it.     *)
LEMMA JoinInvStep ==
  ASSUME ConstantsAssumption, Program, IInv, [Next]_vars
  PROVE  JoinInv'
<1> SUFFICES ASSUME NEW v \in Threads, NEW w, w = arg'[v], pc'[v] \in InJoin PROVE Joining(v)'
  BY DEF JoinInv
<1> USE ConstantsAssumption DEF ConstantsAssumption, StackOK, PcOK, ThreadOK, StateOK,
  CountOK, RetOK, Joining, InJoin, InHand, InSetReady, Goto, At, ToSched, AddRequest,
  SetBlocked, Pooled, Contexts, Handles, Suspended, Migratable, stackVars, threadVars,
  poolVars, stopVars
<1>0. StackOK /\ PcOK /\ ThreadOK /\ StateOK /\ CountOK /\ RetOK
  BY DEF IInv
<1> USE <1>0
<1>a. pc[v] \in InJoin => Joining(v) /\ arg[v] \in Threads /\ arg[v] # v
  BY JoinTarget DEF IInv, JoinInv
<1>b. w \in Threads /\ ~ Woke(w) /\ p_link[w] = None /\ "JOIN" \in request[w] => ~ Woke(w)'
  BY WokeStarts
<1>c. pc[v] = "join.pool" => \A z \in Xstreams : SchedPool[z] = p_pool[v] => cur[z] = v
  <2> SUFFICES ASSUME pc[v] = "join.pool", NEW z \in Xstreams, SchedPool[z] = p_pool[v]
               PROVE  cur[z] = v
    OBVIOUS
  <2> DEFINE y == p_last_xstream[v]
  <2>1. y \in Xstreams /\ cur[y] = v
    BY DEF IInv, LabelInv, On, Off
  <2>2. p_pool[v] = SchedPool[y] /\ Access[p_pool[v]] \in SingleConsumer
    BY <1>a, <2>1 DEF IInv, RunInv, RunsOn
  <2> HIDE DEF y
  <2> QED
    BY <2>1, <2>2, AloneAtHome
<1>1. ASSUME NEW e \in Xstreams, NEW t \in Threads, Yield(e, t) PROVE Joining(v)'
  <2>1. v # t /\ pc'[v] = pc[v] /\ arg'[v] = arg[v] /\ state'[v] = state[v]
          /\ p_link' = p_link /\ p_pool' = p_pool /\ request' = request
    BY <1>1 DEF Yield
  <2> QED
    BY <1>a, <1>b, <2>1
<1>2. ASSUME NEW e \in Xstreams, NEW t \in Threads, Preempt(e, t) PROVE Joining(v)'
  <2>1. v # t /\ pc'[v] = pc[v] /\ arg'[v] = arg[v] /\ state'[v] = state[v]
          /\ p_link' = p_link /\ p_pool' = p_pool /\ request' = request
    BY <1>2 DEF Preempt
  <2> QED
    BY <1>a, <1>b, <2>1
<1>3. ASSUME NEW e \in Xstreams, NEW t \in Threads, SuspendBlock(e, t) PROVE Joining(v)'
  <2>1. cur[e] = t => RunsOn(e, t)
    BY DEF IInv, RunInv
  <2> QED
    BY <1>a, <1>b, <1>3, <2>1 DEF SuspendBlock, RunsOn, Blocking
<1>4. ASSUME NEW e \in Xstreams, NEW t \in Threads, ExitJump(e, t) PROVE Joining(v)'
  <2>1. cur[e] = t => RunsOn(e, t)
    BY DEF IInv, RunInv
  <2> QED
    BY <1>a, <1>b, <1>4, <2>1 DEF ExitJump, RunsOn, Blocking
<1>5. ASSUME NEW e \in Xstreams, NEW t \in Threads, ExitWake(e, t) PROVE Joining(v)'
  <2>1. cur[e] = t => RunsOn(e, t)
    BY DEF IInv, RunInv
  <2> QED
    BY <1>a, <1>b, <1>5, <2>1 DEF ExitWake, RunsOn, Blocking
<1>6. ASSUME NEW e \in Xstreams, NEW t \in Threads, ExitAlone(e, t) PROVE Joining(v)'
  <2>1. cur[e] = t => RunsOn(e, t)
    BY DEF IInv, RunInv
  <2> QED
    BY <1>a, <1>b, <1>6, <2>1 DEF ExitAlone, RunsOn, Blocking
<1>7. ASSUME NEW e \in Xstreams, NEW t \in Threads, SuspendSwitch(e, t) PROVE Joining(v)'
  <2>1. cur[e] = t => RunsOn(e, t)
    BY DEF IInv, RunInv
  <2> QED
    BY <1>a, <1>b, <1>7, <2>1 DEF SuspendSwitch, RunsOn, Blocking
<1>8. ASSUME NEW e \in Xstreams, NEW t \in Threads, JoinBlock(e, t) PROVE Joining(v)'
  <2>1. cur[e] = t => RunsOn(e, t)
    BY DEF IInv, RunInv
  <2> QED
    BY <1>a, <1>b, <1>8, <2>1 DEF JoinBlock, RunsOn, Blocking
<1>9. ASSUME NEW e \in Xstreams, NEW t \in Threads, JoinSuspend(e, t) PROVE Joining(v)'
  <2>1. cur[e] = t => RunsOn(e, t)
    BY DEF IInv, RunInv
  <2> QED
    BY <1>a, <1>b, <1>9, <2>1 DEF JoinSuspend, RunsOn, Blocking
<1>10. ASSUME NEW e \in Xstreams, NEW t \in Threads, JoinResumed(e, t) PROVE Joining(v)'
  <2>1. cur[e] = t => RunsOn(e, t)
    BY DEF IInv, RunInv
  <2> QED
    BY <1>a, <1>b, <1>10, <2>1 DEF JoinResumed, RunsOn, Blocking
<1>11. ASSUME NEW e \in Xstreams, NEW t \in Threads, ExitRequest(e, t) PROVE Joining(v)'
  <2>1. cur[e] = t => RunsOn(e, t)
    BY DEF IInv, RunInv
  <2> QED
    BY <1>a, <1>b, <1>11, <2>1 DEF ExitRequest, RunsOn, Blocking
<1>12. ASSUME NEW e \in Xstreams, NEW t \in Threads, ExitLink(e, t) PROVE Joining(v)'
  <2>1. cur[e] = t => RunsOn(e, t)
    BY DEF IInv, RunInv
  <2> QED
    BY <1>a, <1>b, <1>12, <2>1 DEF ExitLink, RunsOn, Blocking
<1>13. ASSUME NEW e \in Xstreams, NEW t \in Threads, JoinPool(e, t) PROVE Joining(v)'
  <2>1. cur[e] = t => RunsOn(e, t)
    BY DEF IInv, RunInv
  <2> DEFINE u == arg[t]
  <2>2. cur[e] = t /\ pc[t] = "join.pool" /\ u \in pool[p_pool[u]]
    BY <1>13 DEF JoinPool
  <2>3. u \in Threads /\ u # t /\ u \in pool[SchedPool[e]] /\ <<t, u>> \in Joins
    BY <2>2, JoinPoolTarget
  <2>4. state[u] = "READY"
    BY <2>3, PoolTarget
  <2>5. pc[v] \in InJoin /\ w = arg[v]
    BY <1>13, <2>2 DEF JoinPool
  <2>6. state'[v] # "TERMINATED"
    BY <1>a, <1>13, <2>3, <2>5 DEF JoinPool
  <2>7. CASE v = t
    BY <1>a, <1>13, <2>3, <2>5, <2>6, <2>7 DEF JoinPool
  <2>8. CASE v # t
    <3>1. w # u
      BY <1>a, <2>2, <2>3, <2>5, <2>8 DEF Program, OneJoiner
    <3>2. pc'[v] = pc[v] /\ arg'[v] = w /\ p_link'[w] = p_link[w] /\ request' = request
            /\ p_pool' = p_pool
      BY <1>13, <2>3, <2>5, <2>8, <3>1 DEF JoinPool
    <3> QED
      BY <1>a, <1>b, <2>5, <2>6, <3>2
  <2> QED
    BY <2>7, <2>8
<1>14. ASSUME NEW e \in Xstreams, NEW t \in Threads, JoinRequest(e, t) PROVE Joining(v)'
  <2>1. cur[e] = t => RunsOn(e, t)
    BY DEF IInv, RunInv
  <2> DEFINE u == arg[t]
  <2>2. u \in Threads /\ u # t /\ cur[e] = t /\ pc[t] = "join.request" /\ p_link[u] = None
    BY <1>14, JoinTarget DEF JoinRequest, IInv, JoinInv
  <2>3. pc[v] \in InJoin /\ w = arg[v] /\ arg'[v] = w
    BY <1>14, <2>2 DEF JoinRequest
  <2>4. UNCHANGED <<state, p_link, p_pool>> /\ ("JOIN" \in request[w] => "JOIN" \in request'[w])
    BY <1>a, <1>14, <2>3 DEF JoinRequest
  <2>5. CASE v = t
    <3>1. CASE "JOIN" \in request[u]
      BY <1>a, <1>14, <2>2, <2>3, <2>4, <2>5, <3>1 DEF JoinRequest
    <3>2. CASE "JOIN" \notin request[u]
      <4>1. ~ Woke(u)
        BY <2>2, <3>2 DEF IInv, EndInv
      <4>2. u = w /\ UNCHANGED <<cur, arg, ret>> /\ pc' = [pc EXCEPT ![t] = "join.block"]
        BY <1>14, <2>3, <2>5, <3>2 DEF JoinRequest
      <4>3. ~ Woke(w)'
        BY <2>2, <2>4, <4>1, <4>2 DEF Woke, Hand
      <4>4. "JOIN" \in request'[w]
        BY <1>14, <2>2, <4>2 DEF JoinRequest
      <4> QED
        BY <1>a, <2>2, <2>3, <2>4, <2>5, <4>2, <4>3, <4>4
    <3> QED
      BY <3>1, <3>2
  <2>6. CASE v # t
    <3>1. pc'[v] = pc[v]
      BY <1>14, <2>6 DEF JoinRequest
    <3> QED
      BY <1>a, <1>b, <2>3, <2>4, <3>1
  <2> QED
    BY <2>5, <2>6
<1>15. ASSUME NEW e \in Xstreams, NEW t \in Threads, JoinLink(e, t) PROVE Joining(v)'
  <2> DEFINE u == arg[t]
  <2>1. u \in Threads /\ u # t /\ <<t, u>> \in Joins /\ cur[e] = t /\ pc[t] = "join.link"
    BY <1>15, JoinTarget DEF JoinLink, IInv, JoinInv
  <2>2. pc[v] \in InJoin /\ w = arg[v] /\ arg'[v] = w /\ UNCHANGED <<state, request, p_pool>>
    BY <1>15, <2>1 DEF JoinLink
  <2>3. CASE v = t
    BY <1>a, <1>15, <2>1, <2>2, <2>3 DEF JoinLink
  <2>4. CASE v # t
    <3>1. w # u
      BY <1>a, <2>1, <2>2, <2>4 DEF Program, OneJoiner
    <3>2. pc'[v] = pc[v] /\ p_link'[w] = p_link[w]
      BY <1>a, <1>15, <2>1, <2>2, <2>4, <3>1 DEF JoinLink
    <3> QED
      BY <1>a, <1>b, <2>2, <3>2
  <2> QED
    BY <2>3, <2>4
<1>16. ASSUME NEW e \in Xstreams, NEW t \in Threads, JoinYield(e, t) PROVE Joining(v)'
  <2>1. CASE state[arg[t]] = "TERMINATED"
    <3>1. v # t /\ pc'[v] = pc[v] /\ arg'[v] = arg[v] /\ state'[v] = state[v]
            /\ p_link' = p_link /\ p_pool' = p_pool /\ request' = request
      BY <1>16, <2>1 DEF JoinYield
    <3> QED
      BY <1>a, <1>b, <3>1
  <2>2. CASE state[arg[t]] # "TERMINATED"
    <3>1. /\ pc' = [pc EXCEPT ![t] = "join.yield", ![e] = "after"] /\ arg' = [arg EXCEPT ![e] = t]
          /\ state' = [state EXCEPT ![t] = "READY"] /\ UNCHANGED <<p_link, p_pool, request>>
               /\ pc[t] = "join.yield"
      BY <1>16, <2>2 DEF JoinYield
    <3>2. pc'[v] = pc[v] /\ arg'[v] = arg[v] /\ (state'[v] = state[v] \/ state'[v] = "READY")
      BY <3>1
    <3> QED
      BY <1>a, <1>b, <3>1, <3>2
  <2> QED
    BY <2>1, <2>2
<1>17. ASSUME NEW e \in Xstreams, NEW t \in Threads, ExitStore(e, t) PROVE Joining(v)'
  <2>1. v # t /\ pc'[v] = pc[v] /\ arg'[v] = arg[v] /\ state'[v] = state[v]
          /\ p_link' = p_link /\ p_pool' = p_pool
    BY <1>17 DEF ExitStore
  <2>2. pc[v] \in {"join.block", "join.link"} => w # t
    BY <1>a, <1>17, <2>1 DEF ExitStore, Woke
  <2>3. pc[v] \in {"join.block", "join.link"} => request'[w] = request[w]
    BY <1>a, <1>17, <2>1, <2>2 DEF ExitStore
  <2> QED
    BY <1>a, <1>b, <2>1, <2>3
<1>18. ASSUME NEW e \in Xstreams, NEW t \in Threads, ExitLeave(e, t) PROVE Joining(v)'
  <2>1. cur[e] = t => RunsOn(e, t)
    BY DEF IInv, RunInv
  <2> QED
    BY <1>a, <1>b, <1>18, <2>1 DEF ExitLeave, RunsOn, Blocking
<1>19. ASSUME NEW e \in Xstreams, NEW t \in Threads, YieldToSwitch(e, t) PROVE Joining(v)'
  <2>1. cur[e] = t => RunsOn(e, t)
    BY DEF IInv, RunInv
  <2> QED
    BY <1>a, <1>b, <1>19, <2>1 DEF YieldToSwitch, RunsOn, Blocking
<1>20. ASSUME NEW e \in Xstreams, NEW t \in Threads, MigrateCount(e, t) PROVE Joining(v)'
  <2>1. cur[e] = t => RunsOn(e, t)
    BY DEF IInv, RunInv
  <2> QED
    BY <1>a, <1>b, <1>20, <2>1 DEF MigrateCount, RunsOn, Blocking
<1>21. ASSUME NEW e \in Xstreams, NEW t \in Threads, MigrateRequest(e, t) PROVE Joining(v)'
  <2>1. /\ v # t /\ pc'[v] = pc[v] /\ arg'[v] = arg[v] /\ state'[v] = state[v]
        /\ p_link' = p_link /\ p_pool' = p_pool /\ pc[v] \in InJoin
    <3>1. CASE t = arg[t]
      BY <1>21, <3>1 DEF MigrateRequest
    <3>2. CASE t # arg[t]
      BY <1>21, <3>2 DEF MigrateRequest
    <3> QED
      BY <3>1, <3>2
  <2>2. "JOIN" \in request[w] => "JOIN" \in request'[w]
    BY <1>a, <1>21, <2>1 DEF MigrateRequest
  <2> QED
    BY <1>a, <1>b, <2>1, <2>2
<1>22. ASSUME NEW e \in Xstreams, NEW t \in Threads, Pop(e, t) PROVE Joining(v)'
  <2> DEFINE u == arg[e]
  <2>1. cur[e] = e /\ pc[e] \in InHand \cup InSetReady => u \in Threads /\ HeldBy(e, u)
    BY HandTarget
  <2> QED
    BY <1>a, <1>b, <1>22, <2>1 DEF Pop, HeldBy, Canceling
<1>23. ASSUME NEW e \in Xstreams, NEW t \in Threads, NEW u \in Threads, Resume(e, t, u)
       PROVE  Joining(v)'
  <2>1. cur[e] = t => RunsOn(e, t)
    BY DEF IInv, RunInv
  <2> QED
    BY <1>a, <1>b, <1>23, <2>1 DEF Resume, RunsOn, Blocking
<1>24. ASSUME NEW e \in Xstreams, NEW t \in Threads, NEW u \in Threads, Cancel(e, t, u)
       PROVE  Joining(v)'
  <2>1. cur[e] = t => RunsOn(e, t)
    BY DEF IInv, RunInv
  <2> QED
    BY <1>a, <1>b, <1>24, <2>1 DEF Cancel, RunsOn, Blocking
<1>25. ASSUME NEW e \in Xstreams, NEW t \in Threads, NEW u \in Threads, YieldToPush(e, t, u)
       PROVE  Joining(v)'
  <2>1. /\ pc'[v] = pc[v] /\ arg'[v] = arg[v] /\ state'[v] = state[v]
        /\ UNCHANGED <<p_link, request, p_pool>>
    BY <1>25 DEF YieldToPush
  <2> QED
    BY <1>a, <1>b, <2>1
<1>26. ASSUME NEW e \in Xstreams, NEW t \in Threads, NEW u \in Threads, JoinStart(e, t, u)
       PROVE  Joining(v)'
  <2>1. cur[e] = t => RunsOn(e, t)
    BY DEF IInv, RunInv
  <2>2. CASE v = t
    <3>1. p_link[u] = None
      <4> SUFFICES ASSUME p_link[u] # None PROVE FALSE
        OBVIOUS
      <4> DEFINE j == p_link[u]
      <4>1. j \in Threads /\ arg[j] = u /\ pc[j] \in InJoin
        BY <1>26 DEF JoinStart, IInv, LinkInv, Linked
      <4>2. <<j, u>> \in Joins
        BY <4>1 DEF IInv, JoinInv
      <4>3. j = t
        BY <1>26, <4>2 DEF JoinStart, Program, OneJoiner
      <4> QED
        BY <1>26, <4>1, <4>3 DEF JoinStart
    <3>2. state[t] = "RUNNING"
      BY <1>26, <2>1 DEF JoinStart, RunsOn, Blocking
    <3>3. w = u /\ <<t, u>> \in Joins /\ UNCHANGED <<state, p_link, p_pool>>
      BY <1>26, <2>2 DEF JoinStart
    <3>4. /\ pc'[t] \in {"join.pool", "join.yield", "join.request"}
          /\ pc'[t] = "join.pool" => p_pool[t] = p_pool[u] /\ Access[p_pool[t]] \in SingleConsumer
      BY <1>26 DEF JoinStart
    <3> QED
      BY <2>2, <3>1, <3>2, <3>3, <3>4
  <2>3. CASE v # t
    <3>1. v # t /\ pc'[v] = pc[v] /\ arg'[v] = arg[v] /\ state'[v] = state[v]
            /\ p_link' = p_link /\ p_pool' = p_pool /\ request' = request
      BY <1>26, <2>3 DEF JoinStart
    <3> QED
      BY <1>a, <1>b, <3>1
  <2> QED
    BY <2>2, <2>3
<1>27. ASSUME NEW e \in Xstreams, NEW t \in Threads, NEW u \in Threads, NEW d \in Xstreams,
              MigrateToXstream(e, t, u, d)
       PROVE  Joining(v)'
  <2>1. cur[e] = t => RunsOn(e, t)
    BY DEF IInv, RunInv
  <2> QED
    BY <1>a, <1>b, <1>27, <2>1 DEF MigrateToXstream, RunsOn, Blocking
<1>28. ASSUME NEW e \in Xstreams, NEW t \in Threads, NEW u \in Threads, NEW p \in Pools,
              MigrateToPool(e, t, u, p)
       PROVE  Joining(v)'
  <2>1. cur[e] = t => RunsOn(e, t)
    BY DEF IInv, RunInv
  <2> QED
    BY <1>a, <1>b, <1>28, <2>1 DEF MigrateToPool, RunsOn, Blocking
<1>29. ASSUME NEW e \in Xstreams, NEW c \in Contexts, SetReadySpin(e, c) PROVE Joining(v)'
  <2> DEFINE u == arg[e]
  <2>1. cur[e] = e /\ pc[e] \in InHand \cup InSetReady => u \in Threads /\ HeldBy(e, u)
    BY HandTarget
  <2> QED
    BY <1>a, <1>b, <1>29, <2>1 DEF SetReadySpin, HeldBy, Canceling
<1>30. ASSUME NEW e \in Xstreams, NEW c \in Contexts, SetReadyPush(e, c) PROVE Joining(v)'
  <2> DEFINE u == arg[e]
  <2>1. cur[e] = e /\ pc[e] \in InHand \cup InSetReady => u \in Threads /\ HeldBy(e, u)
    BY HandTarget
  <2> QED
    BY <1>a, <1>b, <1>30, <2>1 DEF SetReadyPush, HeldBy, Canceling
<1>31. ASSUME NEW e \in Xstreams, NEW c \in Contexts, SetReadyDec(e, c) PROVE Joining(v)'
  <2>1. pc'[v] = pc[v] /\ UNCHANGED <<arg, state, p_link, request, p_pool>>
    BY <1>31 DEF SetReadyDec
  <2> QED
    BY <1>a, <1>b, <2>1
<1>32. ASSUME NEW e \in Xstreams, Run(e) PROVE Joining(v)'
  <2> DEFINE u == arg[e]
  <2>1. cur[e] = e /\ pc[e] \in InHand \cup InSetReady => u \in Threads /\ HeldBy(e, u)
    BY HandTarget
  <2> QED
    BY <1>a, <1>b, <1>32, <2>1 DEF Run, HeldBy, Canceling
<1>33. ASSUME NEW e \in Xstreams, AfterYield(e) PROVE Joining(v)'
  <2> DEFINE u == arg[e]
  <2>1. cur[e] = e /\ pc[e] \in InHand \cup InSetReady => u \in Threads /\ HeldBy(e, u)
    BY HandTarget
  <2> QED
    BY <1>a, <1>b, <1>33, <2>1 DEF AfterYield, HeldBy, Canceling
<1>34. ASSUME NEW e \in Xstreams, AfterBlock(e) PROVE Joining(v)'
  <2> DEFINE u == arg[e]
  <2>1. cur[e] = e /\ pc[e] \in InHand \cup InSetReady => u \in Threads /\ HeldBy(e, u)
    BY HandTarget
  <2> QED
    BY <1>a, <1>b, <1>34, <2>1 DEF AfterBlock, HeldBy, Canceling
<1>35. ASSUME NEW e \in Xstreams, AfterTerminate(e) PROVE Joining(v)'
  <2> DEFINE u == arg[e]
  <2>1. cur[e] = e /\ pc[e] \in InHand \cup InSetReady => u \in Threads /\ HeldBy(e, u)
    BY HandTarget
  <2> QED
    BY <1>a, <1>b, <1>35, <2>1 DEF AfterTerminate, HeldBy, Canceling
<1>36. ASSUME NEW e \in Xstreams, MigrateDec(e) PROVE Joining(v)'
  <2> DEFINE u == arg[e]
  <2>1. cur[e] = e /\ pc[e] \in InHand \cup InSetReady => u \in Threads /\ HeldBy(e, u)
    BY HandTarget
  <2> QED
    BY <1>a, <1>b, <1>36, <2>1 DEF MigrateDec, HeldBy, Canceling
<1>37. ASSUME NEW e \in Xstreams, CancelStart(e) PROVE Joining(v)'
  <2> DEFINE u == arg[e]
  <2>1. cur[e] = e /\ pc[e] \in InHand \cup InSetReady => u \in Threads /\ HeldBy(e, u)
    BY HandTarget
  <2> QED
    BY <1>a, <1>b, <1>37, <2>1 DEF CancelStart, HeldBy, Canceling
<1>38. ASSUME NEW e \in Xstreams, CancelRequest(e) PROVE Joining(v)'
  <2> DEFINE u == arg[e]
  <2>1. cur[e] = e /\ pc[e] \in InHand \cup InSetReady => u \in Threads /\ HeldBy(e, u)
    BY HandTarget
  <2> QED
    BY <1>a, <1>b, <1>38, <2>1 DEF CancelRequest, HeldBy, Canceling
<1>39. ASSUME NEW e \in Xstreams, CancelLink(e) PROVE Joining(v)'
  <2> DEFINE u == arg[e]
  <2>1. cur[e] = e /\ pc[e] \in InHand \cup InSetReady => u \in Threads /\ HeldBy(e, u)
    BY HandTarget
  <2> QED
    BY <1>a, <1>b, <1>39, <2>1 DEF CancelLink, HeldBy, Canceling
<1>40. ASSUME NEW e \in Xstreams, HasToStop(e) PROVE Joining(v)'
  <2> DEFINE u == arg[e]
  <2>1. cur[e] = e /\ pc[e] \in InHand \cup InSetReady => u \in Threads /\ HeldBy(e, u)
    BY HandTarget
  <2> QED
    BY <1>a, <1>b, <1>40, <2>1 DEF HasToStop, HeldBy, Canceling
<1>41. ASSUME NEW e \in Xstreams, ReadSize(e) PROVE Joining(v)'
  <2> DEFINE u == arg[e]
  <2>1. cur[e] = e /\ pc[e] \in InHand \cup InSetReady => u \in Threads /\ HeldBy(e, u)
    BY HandTarget
  <2> QED
    BY <1>a, <1>b, <1>41, <2>1 DEF ReadSize, HeldBy, Canceling
<1>42. ASSUME NEW e \in Xstreams, End(e) PROVE Joining(v)'
  <2> DEFINE u == arg[e]
  <2>1. u \in Threads /\ HeldBy(e, u) /\ cur[e] = e /\ pc[e] = "end"
    BY <1>42, HandTarget DEF End
  <2>2. pc'[v] = pc[v] /\ arg'[v] = arg[v] /\ UNCHANGED <<p_link, p_pool, request>>
    BY <1>42 DEF End
  <2>3. v # u
    <3>1. pc[u] = "done" \/ Cancelled(u)
      BY <2>1 DEF HeldBy, Canceling
    <3> QED
      BY <1>a, <2>1, <2>2, <3>1 DEF Cancelled, Program, WaitersStay
  <2>4. state'[v] = state[v]
    BY <1>42, <2>3 DEF End
  <2> QED
    BY <1>a, <1>b, <2>2, <2>4
<1>43. ASSUME NEW e \in Xstreams, MigrateThread(e) PROVE Joining(v)'
  <2> DEFINE u == arg[e]
  <2>1. u \in Threads /\ HeldBy(e, u) /\ cur[e] = e
    BY <1>43, HandTarget DEF MigrateThread
  <2>2. pc'[v] = pc[v] /\ arg'[v] = arg[v] /\ state' = state /\ p_link' = p_link /\ pc[v] \in InJoin
    BY <1>43 DEF MigrateThread
  <2>3. "JOIN" \in request[w] => "JOIN" \in request'[w]
    BY <1>a, <1>43, <2>1, <2>2 DEF MigrateThread
  <2>4. p_pool[u] = SchedPool[e] /\ \A z \in Xstreams : cur[z] # u
    BY <2>1 DEF HeldBy
  <2>5. pc[v] = "join.pool" => v # u /\ w # u
    <3> HIDE DEF u
    <3> QED
      BY <1>a, <1>c, <2>1, <2>2, <2>4
  <2>6. pc[v] = "join.pool" => p_pool'[v] = p_pool[v] /\ p_pool'[w] = p_pool[w]
    BY <1>a, <1>43, <2>2, <2>5 DEF MigrateThread
  <2> QED
    BY <1>a, <1>b, <2>2, <2>3, <2>6
<1>44. ASSUME NEW e \in Xstreams, ReadMigrations(e) PROVE Joining(v)'
  <2> DEFINE u == arg[e]
  <2>1. cur[e] = e /\ pc[e] \in InHand \cup InSetReady => u \in Threads /\ HeldBy(e, u)
    BY HandTarget
  <2> QED
    BY <1>a, <1>b, <1>44, <2>1 DEF ReadMigrations, HeldBy, Canceling
<1>45. ASSUME NEW e \in Xstreams, ReadBlocked(e) PROVE Joining(v)'
  <2> DEFINE u == arg[e]
  <2>1. cur[e] = e /\ pc[e] \in InHand \cup InSetReady => u \in Threads /\ HeldBy(e, u)
    BY HandTarget
  <2> QED
    BY <1>a, <1>b, <1>45, <2>1 DEF ReadBlocked, HeldBy, Canceling
<1>46. ASSUME NEW e \in Xstreams, XstreamJoin(e) PROVE Joining(v)'
  <2> DEFINE u == arg[e]
  <2>1. cur[e] = e /\ pc[e] \in InHand \cup InSetReady => u \in Threads /\ HeldBy(e, u)
    BY HandTarget
  <2> QED
    BY <1>a, <1>b, <1>46, <2>1 DEF XstreamJoin, HeldBy, Canceling
<1>47. CASE UNCHANGED vars
  BY <1>a, <1>b, <1>47 DEF vars
<1> HIDE DEF Joining
<1> QED
  BY <1>1, <1>2, <1>3, <1>4, <1>5, <1>6, <1>7, <1>8, <1>9, <1>10, <1>11, <1>12, <1>13,
    <1>14, <1>15, <1>16, <1>17, <1>18, <1>19, <1>20, <1>21, <1>22, <1>23, <1>24, <1>25,
    <1>26, <1>27, <1>28, <1>29, <1>30, <1>31, <1>32, <1>33, <1>34, <1>35, <1>36, <1>37,
    <1>38, <1>39, <1>40, <1>41, <1>42, <1>43, <1>44, <1>45, <1>46, <1>47 DEF Next, EsStep,
    SchedStep, UserStep, RuntimeStep, JoinStep, ExitStep, ExitStart

(* The joiner of a ULT waits until the ULT has ended.                      *)
LEMMA LinkInvStep ==
  ASSUME ConstantsAssumption, Program, IInv, [Next]_vars
  PROVE  LinkInv'
<1> SUFFICES ASSUME NEW v \in Threads, NEW j, j = p_link'[v], j # None, state'[v] # "TERMINATED"
             PROVE  Linked(v)'
  BY DEF LinkInv
<1> USE ConstantsAssumption DEF ConstantsAssumption, StackOK, PcOK, ThreadOK, StateOK,
  CountOK, RetOK, Linked, InHand, InSetReady, Goto, At, ToSched, AddRequest, SetBlocked,
  Pooled, Contexts, Handles, Suspended, Migratable, stackVars, threadVars, poolVars,
  stopVars
<1>0. StackOK /\ PcOK /\ ThreadOK /\ StateOK /\ CountOK /\ RetOK
  BY DEF IInv
<1> USE <1>0
<1>a. p_link[v] # None => Linked(v) /\ p_link[v] \in Threads /\ state[v] # "TERMINATED"
  BY EndStays DEF IInv, LinkInv
<1>b. Woke(v) => Woke(v)'
  BY WokeStays
<1>1. ASSUME NEW e \in Xstreams, NEW t \in Threads,
             Yield(e, t) \/ Preempt(e, t) \/ SuspendBlock(e, t) \/ ExitJump(e, t)
               \/ ExitWake(e, t) \/ ExitAlone(e, t) \/ SuspendSwitch(e, t)
               \/ JoinRequest(e, t) \/ JoinBlock(e, t) \/ JoinLink(e, t)
      PROVE  Linked(v)'
  <2>1. cur[e] = t => RunsOn(e, t)
    BY DEF IInv, RunInv
  <2> QED
    BY <1>a, <1>b, <1>1, <2>1 DEF Yield, Preempt, SuspendBlock, ExitJump, ExitWake, ExitAlone,
         SuspendSwitch, JoinRequest, JoinBlock, JoinLink, RunsOn, Blocking
<1>2. ASSUME NEW e \in Xstreams, NEW t \in Threads, JoinPool(e, t) PROVE Linked(v)'
  <2> DEFINE u == arg[t]
  <2>1. cur[e] = t /\ pc[t] = "join.pool" /\ u \in pool[p_pool[u]]
    BY <1>2 DEF JoinPool
  <2>2. u \in Threads /\ u # t /\ u \in pool[SchedPool[e]]
    BY <2>1, JoinPoolTarget
  <2>3. state[u] = "READY"
    BY <2>2, PoolTarget
  <2>4. CASE v = u
    BY <1>2, <2>1, <2>2, <2>4 DEF JoinPool
  <2>5. CASE v # u
    <3>1. j = p_link[v] /\ arg[j] = v /\ j \in Threads /\ j # t
      BY <1>a, <1>2, <2>1, <2>2, <2>5 DEF JoinPool
    <3>2. pc'[j] = pc[j] /\ arg' = arg /\ (state[j] = "BLOCKED" => state'[j] = state[j])
      BY <1>2, <2>2, <2>3, <3>1 DEF JoinPool
    <3> QED
      BY <1>a, <1>b, <3>1, <3>2
  <2> QED
    BY <2>4, <2>5
<1>3. ASSUME NEW e \in Xstreams, NEW t \in Threads,
             JoinSuspend(e, t) \/ JoinResumed(e, t) \/ JoinYield(e, t)
               \/ ExitStore(e, t) \/ ExitRequest(e, t) \/ ExitLink(e, t)
               \/ ExitLeave(e, t) \/ MigrateRequest(e, t) \/ MigrateCount(e, t)
      PROVE  Linked(v)'
  <2>1. cur[e] = t => RunsOn(e, t)
    BY DEF IInv, RunInv
  <2> QED
    BY <1>a, <1>b, <1>3, <2>1 DEF JoinSuspend, JoinResumed, JoinYield, ExitStore, ExitRequest,
         ExitLink, ExitLeave, MigrateRequest, MigrateCount, RunsOn, Blocking
<1>4. ASSUME NEW e \in Xstreams, NEW t \in Threads, YieldToSwitch(e, t) PROVE Linked(v)'
  <2>1. arg[t] \in Threads /\ arg[t] \in pool[SchedPool[e]]
    BY <1>4, YieldToTarget DEF YieldToSwitch
  <2>2. state[arg[t]] = "READY"
    BY <2>1, PoolTarget
  <2>3. j = p_link[v] /\ arg[j] = v /\ j \in Threads /\ j # t
    BY <1>a, <1>4 DEF YieldToSwitch
  <2>4. pc'[j] = pc[j] /\ arg' = arg /\ (state[j] = "BLOCKED" => state'[j] = state[j])
    BY <1>4, <2>1, <2>2, <2>3 DEF YieldToSwitch
  <2> QED
    BY <1>a, <1>b, <2>3, <2>4
<1>5. ASSUME NEW e \in Xstreams, NEW t \in Threads, Pop(e, t) PROVE Linked(v)'
  <2> DEFINE u == arg[e]
  <2>1. cur[e] = e /\ pc[e] \in InHand \cup InSetReady => u \in Threads /\ HeldBy(e, u)
    BY HandTarget
  <2> QED
    BY <1>a, <1>b, <1>5, <2>1 DEF Pop, HeldBy, Canceling
<1>6. ASSUME NEW e \in Xstreams, NEW t \in Threads, NEW u \in Threads,
             Resume(e, t, u) \/ JoinStart(e, t, u) \/ Cancel(e, t, u)
               \/ YieldToPush(e, t, u)
      PROVE  Linked(v)'
  <2>1. cur[e] = t => RunsOn(e, t)
    BY DEF IInv, RunInv
  <2> QED
    BY <1>a, <1>b, <1>6, <2>1 DEF Resume, JoinStart, Cancel, YieldToPush, RunsOn, Blocking
<1>7. ASSUME NEW e \in Xstreams, NEW t \in Threads, NEW u \in Threads, NEW d \in Xstreams,
             MigrateToXstream(e, t, u, d)
      PROVE  Linked(v)'
  <2>1. cur[e] = t => RunsOn(e, t)
    BY DEF IInv, RunInv
  <2> QED
    BY <1>a, <1>b, <1>7, <2>1 DEF MigrateToXstream, RunsOn, Blocking
<1>8. ASSUME NEW e \in Xstreams, NEW t \in Threads, NEW u \in Threads, NEW p \in Pools,
             MigrateToPool(e, t, u, p)
      PROVE  Linked(v)'
  <2>1. cur[e] = t => RunsOn(e, t)
    BY DEF IInv, RunInv
  <2> QED
    BY <1>a, <1>b, <1>8, <2>1 DEF MigrateToPool, RunsOn, Blocking
<1>9. ASSUME NEW e \in Xstreams, NEW c \in Contexts, SetReadySpin(e, c) PROVE Linked(v)'
  <2>1. /\ Woken(c) \in Threads /\ (Resumer(c) => pc[Woken(c)] = "user")
        /\ (~ Resumer(c) => arg[Woken(c)] = Ender(c) /\ Ender(c) \in Threads)
    BY <1>9, SpinTarget DEF SetReadySpin
  <2>2. /\ cur[e] = c /\ pc' = [pc EXCEPT ![c] = "push"]
             /\ UNCHANGED <<cur, arg, ret, p_link>> /\ pc[c] = "spin"
        /\ state' = [state EXCEPT ![Woken(c)] = "READY"]
    BY <1>9 DEF SetReadySpin
  <2>3. j = p_link[v] /\ arg[j] = v /\ j \in Threads /\ pc'[j] = pc[j]
    BY <1>a, <2>2
  <2>4. CASE j # Woken(c)
    BY <1>a, <1>b, <2>2, <2>3, <2>4
  <2>5. CASE j = Woken(c)
    <3>1. ~ Resumer(c) /\ Ender(c) = v
      BY <1>a, <2>1, <2>3, <2>5
    <3>2. Woke(v)'
      <4>1. CASE c \in Threads
        BY <2>2, <3>1, <4>1 DEF Woke, Resumer, Ender
      <4>2. CASE c \in Xstreams
        <5>1. c = e /\ arg[e] = v
          BY <2>2, <3>1, <4>2 DEF Ender
        <5> QED
          BY <2>2, <5>1 DEF Woke, Hand
      <4> QED
        BY <4>1, <4>2
    <3> QED
      BY <1>a, <2>2, <2>3, <3>2
  <2> QED
    BY <2>4, <2>5
<1>10. ASSUME NEW e \in Xstreams, NEW c \in Contexts,
              SetReadyPush(e, c) \/ SetReadyDec(e, c)
       PROVE  Linked(v)'
  <2> DEFINE u == arg[e]
  <2>1. cur[e] = e /\ pc[e] \in InHand \cup InSetReady => u \in Threads /\ HeldBy(e, u)
    BY HandTarget
  <2> QED
    BY <1>a, <1>b, <1>10, <2>1 DEF SetReadyPush, SetReadyDec, HeldBy, Canceling
<1>11. ASSUME NEW e \in Xstreams,
              Run(e) \/ AfterBlock(e) \/ AfterTerminate(e) \/ End(e)
                \/ MigrateThread(e) \/ MigrateDec(e) \/ CancelStart(e)
                \/ CancelRequest(e) \/ CancelLink(e) \/ HasToStop(e)
       PROVE  Linked(v)'
  <2> DEFINE u == arg[e]
  <2>1. cur[e] = e /\ pc[e] \in InHand \cup InSetReady => u \in Threads /\ HeldBy(e, u)
    BY HandTarget
  <2> QED
    BY <1>a, <1>b, <1>11, <2>1 DEF Run, AfterBlock, AfterTerminate, End, MigrateThread, MigrateDec,
         CancelStart, CancelRequest, CancelLink, HasToStop, HeldBy, Canceling
<1>12. ASSUME NEW e \in Xstreams, AfterYield(e) PROVE Linked(v)'
  <2> DEFINE u == arg[e]
  <2>1. u \in Threads /\ HeldBy(e, u) /\ "BLOCK" \notin request[u] /\ cur[e] = e /\ pc[e] = "after"
    BY <1>12, HandTarget DEF AfterYield, NonYield, Requests
  <2>2. state[u] # "BLOCKED"
    BY <2>1 DEF HeldBy
  <2>3. j = p_link[v] /\ arg[j] = v /\ j \in Threads
    BY <1>a, <1>12 DEF AfterYield
  <2>4. pc'[j] = pc[j] /\ arg' = arg /\ (state[j] = "BLOCKED" => state'[j] = state[j])
    BY <1>12, <2>1, <2>2, <2>3 DEF AfterYield
  <2> QED
    BY <1>a, <1>b, <2>3, <2>4
<1>13. ASSUME NEW e \in Xstreams,
              ReadSize(e) \/ ReadMigrations(e) \/ ReadBlocked(e) \/ XstreamJoin(e)
       PROVE  Linked(v)'
  <2> DEFINE u == arg[e]
  <2>1. cur[e] = e /\ pc[e] \in InHand \cup InSetReady => u \in Threads /\ HeldBy(e, u)
    BY HandTarget
  <2> QED
    BY <1>a, <1>b, <1>13, <2>1 DEF ReadSize, ReadMigrations, ReadBlocked, XstreamJoin, HeldBy,
         Canceling
<1>14. CASE UNCHANGED vars
  BY <1>a, <1>b, <1>14 DEF vars
<1> HIDE DEF Linked
<1> QED
  BY <1>1, <1>2, <1>3, <1>4, <1>5, <1>6, <1>7, <1>8, <1>9, <1>10, <1>11, <1>12, <1>13, <1>14
    DEF Next, EsStep, SchedStep, UserStep, RuntimeStep, JoinStep, ExitStep, ExitStart

-----------------------------------------------------------------------------
(* The invariant holds initially.                                          *)
LEMMA InitHolds ==
  ASSUME ConstantsAssumption, Init
  PROVE  IInv
<1> USE ConstantsAssumption DEF ConstantsAssumption, Init, Contexts
<1>1. StackOK /\ RetOK /\ ThreadOK /\ StateOK
  BY DEF StackOK, RetOK, ThreadOK, StateOK
<1>2. PcOK
  <2>1. "pop" \in EsLabels /\ "user" \in UltLabels
    BY DEF EsLabels, UltLabels
  <2> QED
    BY <2>1 DEF PcOK
<1>3. CountOK /\ StopOK
  BY DEF CountOK, StopOK
<1>4. EsInv /\ LabelInv /\ RunInv /\ YieldInv
  BY DEF EsInv, LabelInv, RunInv, YieldInv, YieldingAt, Off, Canceling, InHand, InSetReady
<1>5. PoolInv /\ HandInv /\ BlockedInv
  BY DEF PoolInv, InPool, HandInv, Hand, BlockedInv, BlockedAt, InHand, InSetReady
<1>6. WakeInv /\ JoinInv /\ LinkInv /\ MigInv
  BY DEF WakeInv, JoinInv, InJoin, LinkInv, MigInv
<1>7. PlaceInv
  BY DEF PlaceInv, Placed
<1>8. EndInv
  BY DEF EndInv, Woke, Hand, InHand, InSetReady
<1> QED
  BY <1>1, <1>2, <1>3, <1>4, <1>5, <1>6, <1>7, <1>8 DEF IInv

-----------------------------------------------------------------------------
(* The properties that follow from the invariant.                          *)

(* OneHolder follows from the invariant.                                   *)
LEMMA OneHolderHolds ==
  ASSUME ConstantsAssumption, IInv
  PROVE  OneHolder
<1> SUFFICES ASSUME NEW t \in Threads
             PROVE  /\ Cardinality(Holders(t)) <= 1
                    /\ Holders(t) = {} => state[t] \in {"BLOCKED", "TERMINATED"}
  BY DEF OneHolder
<1>1. ASSUME NEW e \in Xstreams, cur[e] = t
      PROVE  /\ \A d \in Xstreams : (cur[d] = t => d = e) /\ ~ Hand(d, t)
             /\ \A p \in Pools : t \in pool[p] => pc[t] = "yield_to"
             /\ \A c \in Contexts : pc[c] = "push" => Woken(c) # t
  <2>1. /\ \A d \in Xstreams : cur[d] = t => d = e
        /\ \A p \in Pools : t \in pool[p] => pc[t] = "yield_to"
    BY <1>1 DEF IInv, RunInv, RunsOn
  <2>2. \A d \in Xstreams : ~ Hand(d, t)
    BY <1>1 DEF IInv, HandInv, HeldBy
  <2>3. \A c \in Contexts : pc[c] = "push" => Woken(c) # t
    BY <1>1 DEF IInv, WakeInv, WokenBy
  <2> QED
    BY <2>1, <2>2, <2>3
<1>2. ASSUME NEW e \in Xstreams, Hand(e, t)
      PROVE  /\ \A d \in Xstreams : Hand(d, t) => d = e
             /\ \A p \in Pools : t \notin pool[p]
             /\ \A c \in Contexts : pc[c] = "push" => Woken(c) # t
  <2>1. /\ \A d \in Xstreams : Hand(d, t) => d = e
        /\ \A p \in Pools : t \notin pool[p]
    BY <1>2 DEF IInv, HandInv, HeldBy
  <2>2. \A c \in Contexts : pc[c] = "push" => Woken(c) # t
    BY <1>2 DEF IInv, WakeInv, WokenBy
  <2> QED
    BY <2>1, <2>2
<1>3. \A p, q \in Pools : t \in pool[p] /\ t \in pool[q] => p = q
  BY DEF IInv, PoolInv, InPool
<1>4. \A p \in Pools, c \in Contexts : t \in pool[p] /\ pc[c] = "push" => Woken(c) # t
  BY DEF IInv, WakeInv, WokenBy
<1>5. \A c, d \in Contexts : pc[c] = "push" /\ pc[d] = "push" /\ Woken(c) = t
        /\ Woken(d) = t => c = d
  BY OneWaker
<1>6. ASSUME NEW h \in Holders(t), NEW k \in Holders(t) PROVE h = k
  <2>1. \A x \in Holders(t) :
          \/ \E e \in Xstreams : x = <<"es", e>> /\ cur[e] = t
          \/ \E p \in Pools : x = <<"pool", p>> /\ t \in pool[p] /\ pc[t] # "yield_to"
          \/ \E e \in Xstreams : x = <<"sched", e>> /\ Hand(e, t)
          \/ \E c \in Contexts : x = <<"waker", c>> /\ pc[c] = "push" /\ Woken(c) = t
    BY DEF Holders, Hand
  <2>2. CASE \E e \in Xstreams : h = <<"es", e>> /\ cur[e] = t
    BY <2>1, <2>2, <1>1
  <2>3. CASE \E p \in Pools : h = <<"pool", p>> /\ t \in pool[p] /\ pc[t] # "yield_to"
    BY <2>1, <2>3, <1>1, <1>2, <1>3, <1>4
  <2>4. CASE \E e \in Xstreams : h = <<"sched", e>> /\ Hand(e, t)
    BY <2>1, <2>4, <1>1, <1>2
  <2>5. CASE \E c \in Contexts : h = <<"waker", c>> /\ pc[c] = "push" /\ Woken(c) = t
    BY <2>1, <2>5, <1>1, <1>2, <1>4, <1>5
  <2> QED
    BY <2>1, <2>2, <2>3, <2>4, <2>5
<1>7. Cardinality(Holders(t)) <= 1
  <2>1. CASE Holders(t) = {}
    BY <2>1, FS_EmptySet
  <2>2. CASE Holders(t) # {}
    <3>1. PICK h \in Holders(t) : Holders(t) = {h}
      BY <2>2, <1>6
    <3>2. Cardinality({h}) = 1
      BY FS_Singleton
    <3> QED
      BY <3>1, <3>2
  <2> QED
    BY <2>1, <2>2
<1>8. Holders(t) = {} => state[t] \in {"BLOCKED", "TERMINATED"}
  <2> SUFFICES ASSUME state[t] \notin {"BLOCKED", "TERMINATED"} PROVE Holders(t) # {}
    OBVIOUS
  <2>1. Placed(t)
    BY DEF IInv, StateOK, PlaceInv
  <2>2. ASSUME On(t) PROVE Holders(t) # {}
    <3>1. <<"es", p_last_xstream[t]>> \in Holders(t)
      BY <2>2 DEF On, Holders
    <3> QED
      BY <3>1
  <2>3. CASE t \in pool[p_pool[t]]
    <3>1. CASE pc[t] = "yield_to"
      BY <3>1, <2>2 DEF IInv, LabelInv, Off
    <3>2. CASE pc[t] # "yield_to"
      <4>1. <<"pool", p_pool[t]>> \in Holders(t)
        BY <2>3, <3>2 DEF Holders, IInv, ThreadOK
      <4> QED
        BY <4>1
    <3> QED
      BY <3>1, <3>2
  <2>4. ASSUME NEW e \in Xstreams, Hand(e, t) PROVE Holders(t) # {}
    <3>1. pc[e] \in InSetReady => ret[e] = "end"
      BY <2>4 DEF IInv, EsInv, Canceling
    <3>2. <<"sched", e>> \in Holders(t)
      BY <2>4, <3>1 DEF Holders, Hand
    <3> QED
      BY <3>2
  <2>5. ASSUME NEW c \in Contexts, pc[c] = "push", Woken(c) = t PROVE Holders(t) # {}
    <3>1. <<"waker", c>> \in Holders(t)
      BY <2>5 DEF Holders
    <3> QED
      BY <3>1
  <2> QED
    BY <2>1, <2>2, <2>3, <2>4, <2>5 DEF Placed
<1> QED
  BY <1>7, <1>8

(* NoUseAfterEnd follows from the invariant.                               *)
LEMMA NoUseAfterEndHolds ==
  ASSUME ConstantsAssumption, IInv
  PROVE  NoUseAfterEnd
<1> SUFFICES ASSUME NEW u \in Threads, state[u] = "TERMINATED"
             PROVE  /\ \A e \in Xstreams : cur[e] # u
                    /\ \A c \in Contexts : pc[c] \in {"spin", "push"} => Woken(c) # u
                    /\ \A t \in Threads : p_link[t] = u => state[t] = "TERMINATED"
  BY DEF NoUseAfterEnd
<1>1. \A e \in Xstreams : cur[e] # u
  BY DEF IInv, RunInv, RunsOn, Blocking
<1>2. \A c \in Contexts : pc[c] \in {"spin", "push"} => Woken(c) # u
  BY DEF IInv, WakeInv, WokenBy
<1>3. ASSUME NEW t \in Threads, p_link[t] = u PROVE state[t] = "TERMINATED"
  <2>1. u # None
    BY DEF ConstantsAssumption, Contexts
  <2>2. pc[u] \in InJoin => state[u] # "TERMINATED"
    BY DEF IInv, JoinInv, Joining
  <2> QED
    BY <1>3, <2>1, <2>2 DEF IInv, LinkInv, Linked, InJoin
<1> QED
  BY <1>1, <1>2, <1>3

(* A join returns either because the target has ended on this ES, or after *)
(* a look at its state.                                                    *)
LEMMA JoinSeesEndStep ==
  ASSUME ConstantsAssumption, Program, IInv, [Next]_vars, NEW v \in Threads,
         pc[v] \in InJoin, pc'[v] = "user"
  PROVE  state[arg[v]] = "TERMINATED"
<1> USE ConstantsAssumption DEF ConstantsAssumption, StackOK, PcOK, ThreadOK, StateOK,
  CountOK, RetOK, InJoin, InHand, InSetReady, Goto, At, ToSched, AddRequest, SetBlocked,
  Pooled, Contexts, Handles, Suspended, Migratable, stackVars, threadVars, poolVars,
  stopVars
<1>0. StackOK /\ PcOK /\ ThreadOK /\ StateOK /\ CountOK /\ RetOK
  BY DEF IInv
<1> USE <1>0
<1>a. v \notin Xstreams
  OBVIOUS
<1>1. ASSUME NEW e \in Xstreams, NEW t \in Threads,
             Yield(e, t) \/ Preempt(e, t) \/ SuspendBlock(e, t) \/ ExitJump(e, t)
               \/ ExitWake(e, t)
      PROVE  state[arg[v]] = "TERMINATED"
  BY <1>a, <1>1 DEF Yield, Preempt, SuspendBlock, ExitJump, ExitWake
<1>2. ASSUME NEW e \in Xstreams, NEW t \in Threads, ExitAlone(e, t)
      PROVE  state[arg[v]] = "TERMINATED"
  BY <1>a, <1>2 DEF ExitAlone
<1>3. ASSUME NEW e \in Xstreams, NEW t \in Threads, SuspendSwitch(e, t)
      PROVE  state[arg[v]] = "TERMINATED"
  BY <1>a, <1>3 DEF SuspendSwitch
<1>4. ASSUME NEW e \in Xstreams, NEW t \in Threads, JoinPool(e, t)
      PROVE  state[arg[v]] = "TERMINATED"
  BY <1>a, <1>4 DEF JoinPool
<1>5. ASSUME NEW e \in Xstreams, NEW t \in Threads, JoinRequest(e, t)
      PROVE  state[arg[v]] = "TERMINATED"
  BY <1>a, <1>5 DEF JoinRequest
<1>6. ASSUME NEW e \in Xstreams, NEW t \in Threads, JoinBlock(e, t)
      PROVE  state[arg[v]] = "TERMINATED"
  BY <1>a, <1>6 DEF JoinBlock
<1>7. ASSUME NEW e \in Xstreams, NEW t \in Threads, JoinLink(e, t)
      PROVE  state[arg[v]] = "TERMINATED"
  BY <1>a, <1>7 DEF JoinLink
<1>8. ASSUME NEW e \in Xstreams, NEW t \in Threads, JoinSuspend(e, t)
      PROVE  state[arg[v]] = "TERMINATED"
  BY <1>a, <1>8 DEF JoinSuspend
<1>9. ASSUME NEW e \in Xstreams, NEW t \in Threads, ExitStore(e, t)
      PROVE  state[arg[v]] = "TERMINATED"
  BY <1>a, <1>9 DEF ExitStore
<1>10. ASSUME NEW e \in Xstreams, NEW t \in Threads, ExitRequest(e, t)
       PROVE  state[arg[v]] = "TERMINATED"
  BY <1>a, <1>10 DEF ExitRequest
<1>11. ASSUME NEW e \in Xstreams, NEW t \in Threads, ExitLink(e, t)
       PROVE  state[arg[v]] = "TERMINATED"
  BY <1>a, <1>11 DEF ExitLink
<1>12. ASSUME NEW e \in Xstreams, NEW t \in Threads, ExitLeave(e, t)
       PROVE  state[arg[v]] = "TERMINATED"
  BY <1>a, <1>12 DEF ExitLeave
<1>13. ASSUME NEW e \in Xstreams, NEW t \in Threads, YieldToSwitch(e, t)
       PROVE  state[arg[v]] = "TERMINATED"
  BY <1>a, <1>13 DEF YieldToSwitch
<1>14. ASSUME NEW e \in Xstreams, NEW t \in Threads, MigrateCount(e, t)
       PROVE  state[arg[v]] = "TERMINATED"
  BY <1>a, <1>14 DEF MigrateCount
<1>15. ASSUME NEW e \in Xstreams, NEW t \in Threads, Pop(e, t)
       PROVE  state[arg[v]] = "TERMINATED"
  BY <1>a, <1>15 DEF Pop
<1>16. ASSUME NEW e \in Xstreams, NEW t \in Threads, JoinResumed(e, t)
       PROVE  state[arg[v]] = "TERMINATED"
  <2>1. CASE v = t /\ state[t] = "BLOCKED"
    BY <1>16, <2>1 DEF JoinResumed, IInv, RunInv, RunsOn
  <2>2. CASE v # t \/ state[t] # "BLOCKED"
    BY <1>16, <2>2 DEF JoinResumed
  <2> QED
    BY <2>1, <2>2
<1>17. ASSUME NEW e \in Xstreams, NEW t \in Threads, JoinYield(e, t)
       PROVE  state[arg[v]] = "TERMINATED"
  <2>1. CASE state[arg[t]] = "TERMINATED"
    <3>1. pc' = [pc EXCEPT ![t] = "user"]
      BY <1>17, <2>1 DEF JoinYield
    <3> QED
      BY <2>1, <3>1
  <2>2. CASE state[arg[t]] # "TERMINATED"
    <3>1. pc' = [pc EXCEPT ![t] = "join.yield", ![e] = "after"]
      BY <1>17, <2>2 DEF JoinYield
    <3> QED
      BY <1>a, <3>1
  <2> QED
    BY <2>1, <2>2
<1>18. ASSUME NEW e \in Xstreams, NEW t \in Threads, MigrateRequest(e, t)
       PROVE  state[arg[v]] = "TERMINATED"
  <2>1. pc[t] = "mig.request" /\ v # t
    BY <1>18 DEF MigrateRequest
  <2>2. CASE t = arg[t]
    <3>1. \E l \in {"user", "mig.count"} : pc' = [pc EXCEPT ![t] = l, ![e] = "after"]
      BY <1>18, <2>2 DEF MigrateRequest
    <3> QED
      BY <1>a, <2>1, <3>1
  <2>3. CASE t # arg[t]
    <3>1. \E l \in {"user", "mig.count"} : pc' = [pc EXCEPT ![t] = l]
      BY <1>18, <2>3 DEF MigrateRequest
    <3> QED
      BY <2>1, <3>1
  <2> QED
    BY <2>2, <2>3
<1>19. ASSUME NEW e \in Xstreams, NEW t \in Threads, NEW u \in Threads,
              Resume(e, t, u) \/ JoinStart(e, t, u) \/ Cancel(e, t, u)
                \/ YieldToPush(e, t, u)
       PROVE  state[arg[v]] = "TERMINATED"
  BY <1>a, <1>19 DEF Resume, JoinStart, Cancel, YieldToPush
<1>20. ASSUME NEW e \in Xstreams, NEW t \in Threads, NEW u \in Threads, NEW d \in Xstreams,
              MigrateToXstream(e, t, u, d)
       PROVE  state[arg[v]] = "TERMINATED"
  BY <1>a, <1>20 DEF MigrateToXstream
<1>21. ASSUME NEW e \in Xstreams, NEW t \in Threads, NEW u \in Threads, NEW p \in Pools,
              MigrateToPool(e, t, u, p)
       PROVE  state[arg[v]] = "TERMINATED"
  BY <1>a, <1>21 DEF MigrateToPool
<1>22. ASSUME NEW e \in Xstreams, NEW c \in Contexts, SetReadySpin(e, c)
       PROVE  state[arg[v]] = "TERMINATED"
  BY <1>a, <1>22 DEF SetReadySpin
<1>23. ASSUME NEW e \in Xstreams, NEW c \in Contexts, SetReadyPush(e, c)
       PROVE  state[arg[v]] = "TERMINATED"
  BY <1>a, <1>23 DEF SetReadyPush
<1>24. ASSUME NEW e \in Xstreams, NEW c \in Contexts, SetReadyDec(e, c)
       PROVE  state[arg[v]] = "TERMINATED"
  BY <1>a, <1>24 DEF SetReadyDec
<1>25. ASSUME NEW e \in Xstreams,
              Run(e) \/ AfterYield(e) \/ AfterBlock(e) \/ AfterTerminate(e)
                \/ End(e) \/ MigrateThread(e) \/ MigrateDec(e) \/ CancelStart(e)
                \/ CancelRequest(e) \/ CancelLink(e)
       PROVE  state[arg[v]] = "TERMINATED"
  BY <1>a, <1>25 DEF Run, AfterYield, AfterBlock, AfterTerminate, End, MigrateThread, MigrateDec,
       CancelStart, CancelRequest, CancelLink
<1>26. ASSUME NEW e \in Xstreams,
              HasToStop(e) \/ ReadSize(e)
       PROVE  state[arg[v]] = "TERMINATED"
  BY <1>a, <1>26 DEF HasToStop, ReadSize
<1>27. ASSUME NEW e \in Xstreams, ReadMigrations(e) PROVE state[arg[v]] = "TERMINATED"
  BY <1>a, <1>27 DEF ReadMigrations
<1>28. ASSUME NEW e \in Xstreams,
              ReadBlocked(e) \/ XstreamJoin(e)
       PROVE  state[arg[v]] = "TERMINATED"
  BY <1>a, <1>28 DEF ReadBlocked, XstreamJoin
<1>29. CASE UNCHANGED vars
  BY <1>a, <1>29 DEF vars
<1> QED
  BY <1>1, <1>2, <1>3, <1>4, <1>5, <1>6, <1>7, <1>8, <1>9, <1>10, <1>11, <1>12, <1>13,
    <1>14, <1>15, <1>16, <1>17, <1>18, <1>19, <1>20, <1>21, <1>22, <1>23, <1>24, <1>25,
    <1>26, <1>27, <1>28, <1>29 DEF Next, EsStep, SchedStep, UserStep, RuntimeStep, JoinStep,
    ExitStep, ExitStart

-----------------------------------------------------------------------------
(* The count of the blocked ULTs.  A step moves a ULT or its waker from one *)
(* of the two counted sets to the other, or changes the count with it.     *)
BlockedIn(p) == {t \in Threads : state[t] = "BLOCKED" /\ p_pool[t] = p}
WakingIn(p)  == {c \in Contexts : pc[c] \in {"push", "dec"} /\ from[c] = p}

Keeps(p) ==
  /\ BlockedIn(p)' = BlockedIn(p) /\ WakingIn(p)' = WakingIn(p)
  /\ num_blocked'[p] = num_blocked[p]
Blocks(p, t) ==
  /\ t \notin BlockedIn(p) /\ BlockedIn(p)' = BlockedIn(p) \cup {t}
  /\ WakingIn(p)' = WakingIn(p)
  /\ num_blocked'[p] = num_blocked[p] + 1
Unblocks(p, t) ==
  /\ t \in BlockedIn(p) /\ BlockedIn(p)' = BlockedIn(p) \ {t}
  /\ WakingIn(p)' = WakingIn(p)
  /\ num_blocked'[p] = num_blocked[p] - 1
Readies(p, t, c) ==
  /\ t \in BlockedIn(p) /\ BlockedIn(p)' = BlockedIn(p) \ {t}
  /\ c \notin WakingIn(p) /\ WakingIn(p)' = WakingIn(p) \cup {c}
  /\ num_blocked'[p] = num_blocked[p]
Wakes(p, c) ==
  /\ BlockedIn(p)' = BlockedIn(p)
  /\ c \in WakingIn(p) /\ WakingIn(p)' = WakingIn(p) \ {c}
  /\ num_blocked'[p] = num_blocked[p] - 1

Counts(p) ==
  \/ Keeps(p)
  \/ \E t \in Threads : Blocks(p, t) \/ Unblocks(p, t)
  \/ \E t \in Threads, c \in Contexts : Readies(p, t, c)
  \/ \E c \in Contexts : Wakes(p, c)

(* What each step does to the count of one pool.                           *)
LEMMA CountSteps ==
  ASSUME ConstantsAssumption, Program, IInv, [Next]_vars, NEW q \in Pools
  PROVE  Counts(q)
<1> USE ConstantsAssumption DEF ConstantsAssumption, StackOK, PcOK, ThreadOK, StateOK,
  CountOK, RetOK, InHand, InSetReady, Goto, At, ToSched, AddRequest, SetBlocked, Pooled,
  Contexts, Handles, Suspended, Migratable, stackVars, threadVars, poolVars, stopVars
<1>0. StackOK /\ PcOK /\ ThreadOK /\ StateOK /\ CountOK /\ RetOK
  BY DEF IInv
<1> USE <1>0
<1>1. ASSUME NEW e \in Xstreams, NEW t \in Threads, Yield(e, t) PROVE Keeps(q)
  <2>1. cur[e] = t => RunsOn(e, t) /\ pc[e] = "run"
    BY DEF IInv, RunInv, EsInv
  <2> QED
    BY <1>1, <2>1 DEF Yield, RunsOn, Blocking, Keeps, BlockedIn, WakingIn
<1>2. ASSUME NEW e \in Xstreams, NEW t \in Threads, Preempt(e, t) PROVE Keeps(q)
  <2>1. cur[e] = t => RunsOn(e, t) /\ pc[e] = "run"
    BY DEF IInv, RunInv, EsInv
  <2> QED
    BY <1>2, <2>1 DEF Preempt, RunsOn, Blocking, Keeps, BlockedIn, WakingIn
<1>3. ASSUME NEW e \in Xstreams, NEW t \in Threads, SuspendBlock(e, t)
      PROVE  Keeps(q) \/ Blocks(q, t)
  <2>1. cur[e] = t => RunsOn(e, t)
    BY DEF IInv, RunInv
  <2>2. CASE p_pool[t] = q
    BY <1>3, <2>1, <2>2 DEF SuspendBlock, RunsOn, Blocking, Blocks, BlockedIn, WakingIn
  <2>3. CASE p_pool[t] # q
    BY <1>3, <2>1, <2>3 DEF SuspendBlock, RunsOn, Blocking, Keeps, BlockedIn, WakingIn
  <2> QED
    BY <2>2, <2>3
<1>4. ASSUME NEW e \in Xstreams, NEW t \in Threads,
             ExitJump(e, t) \/ ExitWake(e, t) \/ ExitAlone(e, t)
               \/ JoinRequest(e, t) \/ JoinLink(e, t) \/ ExitStore(e, t)
               \/ ExitRequest(e, t) \/ ExitLink(e, t) \/ MigrateCount(e, t)
      PROVE  Keeps(q)
  <2>1. cur[e] = t => RunsOn(e, t)
    BY DEF IInv, RunInv
  <2> QED
    BY <1>4, <2>1 DEF ExitJump, ExitWake, ExitAlone, JoinRequest, JoinLink, ExitStore, ExitRequest,
         ExitLink, MigrateCount, RunsOn, Blocking, Keeps, BlockedIn, WakingIn
<1>5. ASSUME NEW e \in Xstreams, NEW t \in Threads, SuspendSwitch(e, t) PROVE Keeps(q)
  <2>1. cur[e] = t => RunsOn(e, t) /\ pc[e] = "run"
    BY DEF IInv, RunInv, EsInv
  <2> QED
    BY <1>5, <2>1 DEF SuspendSwitch, RunsOn, Blocking, Keeps, BlockedIn, WakingIn
<1>6. ASSUME NEW e \in Xstreams, NEW t \in Threads, JoinPool(e, t)
      PROVE  Keeps(q) \/ Blocks(q, t)
  <2> DEFINE u == arg[t]
  <2>1. cur[e] = t /\ pc[t] = "join.pool" /\ u \in pool[p_pool[u]]
    BY <1>6 DEF JoinPool
  <2>2. u \in Threads /\ u # t /\ u \in pool[SchedPool[e]]
    BY <2>1, JoinPoolTarget
  <2>3. state[u] = "READY"
    BY <2>2, PoolTarget
  <2>4. state[t] = "RUNNING"
    <3>1. RunsOn(e, t)
      BY <2>1 DEF IInv, RunInv
    <3> QED
      BY <2>1, <3>1 DEF RunsOn, Blocking
  <2>5. /\ state' = [state EXCEPT ![u] = "RUNNING", ![t] = "BLOCKED"]
        /\ pc' = [pc EXCEPT ![t] = "join.resumed"]
        /\ num_blocked' = [num_blocked EXCEPT ![p_pool[t]] = @ + 1]
        /\ UNCHANGED <<from, p_pool>>
    BY <1>6 DEF JoinPool
  <2>6. WakingIn(q)' = WakingIn(q)
    BY <2>1, <2>5 DEF WakingIn
  <2>7. CASE p_pool[t] = q
    BY <2>2, <2>3, <2>4, <2>5, <2>6, <2>7 DEF Blocks, BlockedIn
  <2>8. CASE p_pool[t] # q
    BY <2>2, <2>3, <2>4, <2>5, <2>6, <2>8 DEF Keeps, BlockedIn
  <2> QED
    BY <2>7, <2>8
<1>7. ASSUME NEW e \in Xstreams, NEW t \in Threads, JoinBlock(e, t)
      PROVE  Keeps(q) \/ Blocks(q, t)
  <2>1. cur[e] = t => RunsOn(e, t)
    BY DEF IInv, RunInv
  <2>2. CASE p_pool[t] = q
    BY <1>7, <2>1, <2>2 DEF JoinBlock, RunsOn, Blocking, Blocks, BlockedIn, WakingIn
  <2>3. CASE p_pool[t] # q
    BY <1>7, <2>1, <2>3 DEF JoinBlock, RunsOn, Blocking, Keeps, BlockedIn, WakingIn
  <2> QED
    BY <2>2, <2>3
<1>8. ASSUME NEW e \in Xstreams, NEW t \in Threads, JoinSuspend(e, t) PROVE Keeps(q)
  <2>1. cur[e] = t => RunsOn(e, t) /\ pc[e] = "run"
    BY DEF IInv, RunInv, EsInv
  <2> QED
    BY <1>8, <2>1 DEF JoinSuspend, RunsOn, Blocking, Keeps, BlockedIn, WakingIn
<1>9. ASSUME NEW e \in Xstreams, NEW t \in Threads, JoinResumed(e, t)
      PROVE  Keeps(q) \/ Unblocks(q, t)
  <2>1. CASE state[t] = "BLOCKED"
    <3>1. /\ cur[e] = t /\ pc[t] = "join.resumed" /\ state' = [state EXCEPT ![t] = "RUNNING"]
          /\ num_blocked' = [num_blocked EXCEPT ![p_pool[t]] = @ - 1]
          /\ pc' = [pc EXCEPT ![t] = "user"] /\ UNCHANGED <<from, p_pool>>
      BY <1>9, <2>1 DEF JoinResumed
    <3>2. CASE p_pool[t] = q
      BY <2>1, <3>1, <3>2 DEF Unblocks, BlockedIn, WakingIn
    <3>3. CASE p_pool[t] # q
      BY <2>1, <3>1, <3>3 DEF Keeps, BlockedIn, WakingIn
    <3> QED
      BY <3>2, <3>3
  <2>2. CASE state[t] # "BLOCKED"
    BY <1>9, <2>2 DEF JoinResumed, Keeps, BlockedIn, WakingIn
  <2> QED
    BY <2>1, <2>2
<1>10. ASSUME NEW e \in Xstreams, NEW t \in Threads, JoinYield(e, t) PROVE Keeps(q)
  <2>1. cur[e] = t => RunsOn(e, t)
    BY DEF IInv, RunInv
  <2>2. CASE state[arg[t]] = "TERMINATED"
    BY <1>10, <2>2 DEF JoinYield, Keeps, BlockedIn, WakingIn
  <2>3. CASE state[arg[t]] # "TERMINATED"
    <3>1. /\ pc' = [pc EXCEPT ![t] = "join.yield", ![e] = "after"]
          /\ state' = [state EXCEPT ![t] = "READY"]
          /\ UNCHANGED <<from, p_pool, num_blocked>>
          /\ state[t] # "BLOCKED" /\ pc[t] = "join.yield" /\ pc[e] = "run"
      BY <1>10, <2>1, <2>3 DEF JoinYield, RunsOn, Blocking, IInv, EsInv
    <3> QED
      BY <3>1 DEF Keeps, BlockedIn, WakingIn
  <2> QED
    BY <2>2, <2>3
<1>11. ASSUME NEW e \in Xstreams, NEW t \in Threads, ExitLeave(e, t) PROVE Keeps(q)
  <2>1. cur[e] = t => RunsOn(e, t) /\ pc[e] = "run"
    BY DEF IInv, RunInv, EsInv
  <2> QED
    BY <1>11, <2>1 DEF ExitLeave, RunsOn, Blocking, Keeps, BlockedIn, WakingIn
<1>12. ASSUME NEW e \in Xstreams, NEW t \in Threads, YieldToSwitch(e, t) PROVE Keeps(q)
  <2>1. arg[t] \in Threads /\ arg[t] \in pool[SchedPool[e]]
    BY <1>12, YieldToTarget DEF YieldToSwitch
  <2>2. state[arg[t]] = "READY"
    BY <2>1, PoolTarget
  <2> QED
    BY <1>12, <2>1, <2>2 DEF YieldToSwitch, Keeps, BlockedIn, WakingIn
<1>13. ASSUME NEW e \in Xstreams, NEW t \in Threads, MigrateRequest(e, t) PROVE Keeps(q)
  <2>1. cur[e] = t => RunsOn(e, t)
    BY DEF IInv, RunInv
  <2>2. CASE t = arg[t]
    <3>1. /\ \E l \in {"user", "mig.count"} : pc' = [pc EXCEPT ![t] = l, ![e] = "after"]
          /\ state' = [state EXCEPT ![t] = "READY"]
          /\ UNCHANGED <<from, p_pool, num_blocked>>
          /\ state[t] # "BLOCKED" /\ pc[t] = "mig.request" /\ pc[e] = "run"
      BY <1>13, <2>1, <2>2 DEF MigrateRequest, RunsOn, Blocking, IInv, EsInv
    <3> QED
      BY <3>1 DEF Keeps, BlockedIn, WakingIn
  <2>3. CASE t # arg[t]
    BY <1>13, <2>3 DEF MigrateRequest, Keeps, BlockedIn, WakingIn
  <2> QED
    BY <2>2, <2>3
<1>14. ASSUME NEW e \in Xstreams, NEW t \in Threads, Pop(e, t) PROVE Keeps(q)
  BY <1>14 DEF Pop, Keeps, BlockedIn, WakingIn
<1>15. ASSUME NEW e \in Xstreams, NEW t \in Threads, NEW u \in Threads,
              Resume(e, t, u) \/ JoinStart(e, t, u) \/ Cancel(e, t, u)
                \/ YieldToPush(e, t, u)
       PROVE  Keeps(q)
  <2>1. cur[e] = t => RunsOn(e, t)
    BY DEF IInv, RunInv
  <2> QED
    BY <1>15, <2>1 DEF Resume, JoinStart, Cancel, YieldToPush, RunsOn, Blocking, Keeps, BlockedIn,
         WakingIn
<1>16. ASSUME NEW e \in Xstreams, NEW t \in Threads, NEW u \in Threads, NEW d \in Xstreams,
              MigrateToXstream(e, t, u, d)
       PROVE  Keeps(q)
  <2>1. cur[e] = t => RunsOn(e, t)
    BY DEF IInv, RunInv
  <2> QED
    BY <1>16, <2>1 DEF MigrateToXstream, RunsOn, Blocking, Keeps, BlockedIn, WakingIn
<1>17. ASSUME NEW e \in Xstreams, NEW t \in Threads, NEW u \in Threads, NEW p \in Pools,
              MigrateToPool(e, t, u, p)
       PROVE  Keeps(q)
  <2>1. cur[e] = t => RunsOn(e, t)
    BY DEF IInv, RunInv
  <2> QED
    BY <1>17, <2>1 DEF MigrateToPool, RunsOn, Blocking, Keeps, BlockedIn, WakingIn
<1>18. ASSUME NEW e \in Xstreams, NEW c \in Contexts, SetReadySpin(e, c) PROVE Counts(q)
  <2> DEFINE j == Woken(c)
  <2>1. j \in Threads /\ state[j] = "BLOCKED"
    BY <1>18, SpinTarget DEF SetReadySpin
  <2>2. /\ pc[c] = "spin" /\ pc' = [pc EXCEPT ![c] = "push"]
             /\ from' = [from EXCEPT ![c] = p_pool[j]]
        /\ state' = [state EXCEPT ![j] = "READY"] /\ UNCHANGED <<p_pool, num_blocked>>
    BY <1>18 DEF SetReadySpin
  <2> HIDE DEF j
  <2>3. CASE p_pool[j] = q
    <3>1. Readies(q, j, c)
      BY <2>1, <2>2, <2>3 DEF Readies, BlockedIn, WakingIn
    <3> QED
      BY <2>1, <3>1 DEF Counts
  <2>4. CASE p_pool[j] # q
    <3>1. Keeps(q)
      BY <2>1, <2>2, <2>4 DEF Keeps, BlockedIn, WakingIn
    <3> QED
      BY <3>1 DEF Counts
  <2> QED
    BY <2>3, <2>4
<1>19. ASSUME NEW e \in Xstreams, NEW c \in Contexts, SetReadyPush(e, c) PROVE Keeps(q)
  BY <1>19 DEF SetReadyPush, Keeps, BlockedIn, WakingIn
<1>20. ASSUME NEW e \in Xstreams, NEW c \in Contexts, SetReadyDec(e, c)
       PROVE  Keeps(q) \/ Wakes(q, c)
  <2>1. CASE from[c] = q
    BY <1>20, <2>1 DEF SetReadyDec, Wakes, BlockedIn, WakingIn
  <2>2. CASE from[c] # q
    BY <1>20, <2>2 DEF SetReadyDec, Keeps, BlockedIn, WakingIn
  <2> QED
    BY <2>1, <2>2
<1>21. ASSUME NEW e \in Xstreams, Run(e) PROVE Keeps(q)
  <2> DEFINE u == arg[e]
  <2>1. u \in Threads /\ HeldBy(e, u)
    BY <1>21, HandTarget DEF Run
  <2> QED
    BY <1>21, <2>1 DEF Run, HeldBy, Canceling, NonYield, Keeps, BlockedIn, WakingIn
<1>22. ASSUME NEW e \in Xstreams, AfterYield(e) PROVE Keeps(q)
  <2> DEFINE u == arg[e]
  <2>1. u \in Threads /\ HeldBy(e, u)
    BY <1>22, HandTarget DEF AfterYield
  <2> QED
    BY <1>22, <2>1 DEF AfterYield, HeldBy, Canceling, NonYield, Keeps, BlockedIn, WakingIn
<1>23. ASSUME NEW e \in Xstreams,
              AfterBlock(e) \/ AfterTerminate(e) \/ MigrateDec(e) \/ CancelStart(e)
                \/ CancelRequest(e) \/ CancelLink(e) \/ HasToStop(e) \/ ReadSize(e)
                \/ ReadMigrations(e) \/ ReadBlocked(e)
       PROVE  Keeps(q)
  BY <1>23 DEF AfterBlock, AfterTerminate, MigrateDec, CancelStart, CancelRequest, CancelLink,
       HasToStop, ReadSize, ReadMigrations, ReadBlocked, Keeps, BlockedIn, WakingIn
<1>24. ASSUME NEW e \in Xstreams, End(e) PROVE Keeps(q)
  <2> DEFINE u == arg[e]
  <2>1. u \in Threads /\ HeldBy(e, u)
    BY <1>24, HandTarget DEF End
  <2> QED
    BY <1>24, <2>1 DEF End, HeldBy, Canceling, NonYield, Keeps, BlockedIn, WakingIn
<1>25. ASSUME NEW e \in Xstreams, MigrateThread(e) PROVE Keeps(q)
  <2> DEFINE u == arg[e]
  <2>1. u \in Threads /\ HeldBy(e, u)
    BY <1>25, HandTarget DEF MigrateThread
  <2> QED
    BY <1>25, <2>1 DEF MigrateThread, HeldBy, Canceling, NonYield, Keeps, BlockedIn, WakingIn
<1>26. ASSUME NEW e \in Xstreams, XstreamJoin(e) PROVE Keeps(q)
  BY <1>26 DEF XstreamJoin, Keeps, BlockedIn, WakingIn
<1>27. ASSUME UNCHANGED vars PROVE Keeps(q)
  BY <1>27 DEF vars, Keeps, BlockedIn, WakingIn
<1> HIDE DEF StackOK, PcOK, ThreadOK, StateOK, CountOK, RetOK, Goto, At, ToSched, AddRequest, SetBlocked, Handles
<1> QED
  BY <1>1, <1>2, <1>3, <1>4, <1>5, <1>6, <1>7, <1>8, <1>9, <1>10, <1>11, <1>12, <1>13,
    <1>14, <1>15, <1>16, <1>17, <1>18, <1>19, <1>20, <1>21, <1>22, <1>23, <1>24, <1>25,
    <1>26, <1>27 DEF Next, EsStep, SchedStep, UserStep, RuntimeStep, JoinStep, ExitStep,
    ExitStart, Counts

(* num_blocked keeps the count.                                            *)
LEMMA BlockedCountedStep ==
  ASSUME ConstantsAssumption, Program, IInv, BlockedCounted, [Next]_vars
  PROVE  BlockedCounted'
<1> USE DEF BlockedIn, WakingIn
<1> SUFFICES ASSUME NEW q \in Pools
             PROVE  num_blocked'[q] = Cardinality(BlockedIn(q)') + Cardinality(WakingIn(q)')
  BY DEF BlockedCounted
<1> DEFINE B == BlockedIn(q)  W == WakingIn(q)  BB == BlockedIn(q)'  WW == WakingIn(q)'
<1>1. num_blocked[q] = Cardinality(B) + Cardinality(W) /\ num_blocked[q] \in Int
  BY DEF BlockedCounted, IInv, CountOK
<1>2. IsFiniteSet(Threads) /\ IsFiniteSet(Contexts)
  BY FS_Union DEF ConstantsAssumption, Contexts
<1>3. IsFiniteSet(B) /\ IsFiniteSet(W)
  BY <1>2, FS_Subset
<1>4. Cardinality(B) \in Nat /\ Cardinality(W) \in Nat
  BY <1>3, FS_CardinalityType
<1>5. Counts(q)
  BY CountSteps
<1> HIDE DEF BlockedIn, WakingIn
<1> SUFFICES num_blocked'[q] = Cardinality(BB) + Cardinality(WW)
  OBVIOUS
<1>6. CASE Keeps(q)
  BY <1>1, <1>6 DEF Keeps
<1>7. ASSUME NEW t \in Threads, Blocks(q, t)
      PROVE  num_blocked'[q] = Cardinality(BB) + Cardinality(WW)
  <2>1. Cardinality(B \cup {t}) = Cardinality(B) + 1
    BY <1>3, <1>7, FS_AddElement DEF Blocks
  <2>2. BB = B \cup {t} /\ WW = W /\ num_blocked'[q] = num_blocked[q] + 1
    BY <1>7 DEF Blocks
  <2> HIDE DEF B, W, BB, WW
  <2> QED
    BY <1>1, <1>4, <2>1, <2>2
<1>8. ASSUME NEW t \in Threads, Unblocks(q, t)
      PROVE  num_blocked'[q] = Cardinality(BB) + Cardinality(WW)
  <2>1. Cardinality(B \ {t}) = Cardinality(B) - 1
    BY <1>3, <1>8, FS_RemoveElement DEF Unblocks
  <2>2. BB = B \ {t} /\ WW = W /\ num_blocked'[q] = num_blocked[q] - 1
    BY <1>8 DEF Unblocks
  <2> HIDE DEF B, W, BB, WW
  <2> QED
    BY <1>1, <1>4, <2>1, <2>2
<1>9. ASSUME NEW t \in Threads, NEW c \in Contexts, Readies(q, t, c)
      PROVE  num_blocked'[q] = Cardinality(BB) + Cardinality(WW)
  <2>1. Cardinality(B \ {t}) = Cardinality(B) - 1
    BY <1>3, <1>9, FS_RemoveElement DEF Readies
  <2>2. Cardinality(W \cup {c}) = Cardinality(W) + 1
    BY <1>3, <1>9, FS_AddElement DEF Readies
  <2>3. BB = B \ {t} /\ WW = W \cup {c} /\ num_blocked'[q] = num_blocked[q]
    BY <1>9 DEF Readies
  <2> HIDE DEF B, W, BB, WW
  <2> QED
    BY <1>1, <1>4, <2>1, <2>2, <2>3
<1>10. ASSUME NEW c \in Contexts, Wakes(q, c)
       PROVE  num_blocked'[q] = Cardinality(BB) + Cardinality(WW)
  <2>1. Cardinality(W \ {c}) = Cardinality(W) - 1
    BY <1>3, <1>10, FS_RemoveElement DEF Wakes
  <2>2. BB = B /\ WW = W \ {c} /\ num_blocked'[q] = num_blocked[q] - 1
    BY <1>10 DEF Wakes
  <2> HIDE DEF B, W, BB, WW
  <2> QED
    BY <1>1, <1>4, <2>1, <2>2
<1> HIDE DEF B, W, BB, WW
<1> QED
  BY <1>5, <1>6, <1>7, <1>8, <1>9, <1>10 DEF Counts

-----------------------------------------------------------------------------
(* A scheduler that stops.  The invariant goes on: migrations to the pool  *)
(* are counted before they are asked for (migrate_to_xstream), and what a  *)
(* scheduler has read stays true once it has read 0 under sched_lock.      *)
CountedFirst == \A e \in Finishing : MigrateBy[SchedPool[e]] = "xstream"

AsksFor(p) == {t \in Threads : pc[t] = "mig.request" /\ from[t] = p}
AskedTo(p) == {t \in Threads : "MIGRATE" \in request[t] /\ mig[t] = p}
MovedTo(p) == {e \in Xstreams : pc[e] = "mig.dec" /\ from[e] = p}

MigCounted ==
  \A p \in Pools : MigrateBy[p] = "xstream" =>
    num_migrations[p] >=
      Cardinality(AsksFor(p)) + Cardinality(AskedTo(p)) + Cardinality(MovedTo(p))

(* What the scheduler of e, the only one of its pool, knows.               *)
Knows(e) ==
  LET p == SchedPool[e] IN
  /\ round[e] = 2 /\ pc[e] = "blocked" /\ seen[e] = 0 => num_migrations[p] = 0
  /\ round[e] = 3 \/ pc[e] = "stopped" => num_migrations[p] = 0 /\ num_blocked[p] = 0
  /\ round[e] = 3 /\ pc[e] \in {"migrations", "blocked"} /\ seen[e] = 0 => pool[p] = {}
  /\ pc[e] = "stopped" => pool[p] = {}

StopsAt(e) ==
  /\ pc[e] \notin InStop => round[e] = 1
  /\ pc[e] \in InStop \cup {"stopped"} =>
       /\ e \in Finishing
       /\ pc[e] # "size" => seen[e] >= 0
       /\ Single(SchedPool[e]) => Knows(e)

StopInv == \A e \in Xstreams : StopsAt(e)

(* What a step does to the migrations to pool p.                           *)
Stays(p) ==
  /\ AsksFor(p)' = AsksFor(p) /\ AskedTo(p)' = AskedTo(p) /\ MovedTo(p)' = MovedTo(p)
  /\ num_migrations'[p] = num_migrations[p]
Asks(p, t) ==
  /\ t \notin AsksFor(p) /\ AsksFor(p)' = AsksFor(p) \cup {t}
  /\ AskedTo(p)' = AskedTo(p) /\ MovedTo(p)' = MovedTo(p)
  /\ num_migrations'[p] = num_migrations[p] + 1
Asked(p, t, u) ==
  /\ t \in AsksFor(p) /\ AsksFor(p)' = AsksFor(p) \ {t}
  /\ u \notin AskedTo(p) /\ AskedTo(p)' = AskedTo(p) \cup {u}
  /\ MovedTo(p)' = MovedTo(p) /\ num_migrations'[p] = num_migrations[p]
Moves(p, t, e) ==
  /\ t \in AskedTo(p) /\ AskedTo(p)' = AskedTo(p) \ {t}
  /\ e \notin MovedTo(p) /\ MovedTo(p)' = MovedTo(p) \cup {e}
  /\ AsksFor(p)' = AsksFor(p) /\ num_migrations'[p] = num_migrations[p]
Arrives(p, e) ==
  /\ e \in MovedTo(p) /\ MovedTo(p)' = MovedTo(p) \ {e}
  /\ AsksFor(p)' = AsksFor(p) /\ AskedTo(p)' = AskedTo(p)
  /\ num_migrations'[p] = num_migrations[p] - 1
(* A ULT that ends before it has moved stays counted.                      *)
Forgets(p, t) ==
  /\ t \in AskedTo(p) /\ AskedTo(p)' = AskedTo(p) \ {t}
  /\ AsksFor(p)' = AsksFor(p) /\ MovedTo(p)' = MovedTo(p)
  /\ num_migrations'[p] = num_migrations[p]

Migrations(p) ==
  \/ Stays(p)
  \/ \E t \in Threads : Asks(p, t) \/ Forgets(p, t)
  \/ \E t, u \in Threads : Asked(p, t, u)
  \/ \E t \in Threads, e \in Xstreams : Moves(p, t, e)
  \/ \E e \in Xstreams : Arrives(p, e)

(* What each step does to the migrations to one pool.                      *)
LEMMA MigSteps ==
  ASSUME ConstantsAssumption, Program, IInv, [Next]_vars,
         NEW q \in Pools, MigrateBy[q] = "xstream"
  PROVE  Migrations(q)
<1> USE ConstantsAssumption DEF ConstantsAssumption, StackOK, PcOK, ThreadOK, StateOK,
  CountOK, RetOK, InHand, InSetReady, Goto, At, ToSched, AddRequest, SetBlocked, Pooled,
  Contexts, Handles, Suspended, Migratable, stackVars, threadVars, poolVars, stopVars
<1>0. StackOK /\ PcOK /\ ThreadOK /\ StateOK /\ CountOK /\ RetOK
  BY DEF IInv
<1> USE <1>0
<1>a. \A e \in Xstreams, t \in Threads : cur[e] = t => pc[e] = "run"
  BY DEF IInv, EsInv
<1>1. ASSUME NEW e \in Xstreams, NEW t \in Threads, Yield(e, t) PROVE Stays(q)
  BY <1>a, <1>1 DEF Yield, Stays, AsksFor, AskedTo, MovedTo
<1>2. ASSUME NEW e \in Xstreams, NEW t \in Threads, Preempt(e, t) PROVE Stays(q)
  BY <1>a, <1>2 DEF Preempt, Stays, AsksFor, AskedTo, MovedTo
<1>3. ASSUME NEW e \in Xstreams, NEW t \in Threads, SuspendBlock(e, t) PROVE Stays(q)
  BY <1>a, <1>3 DEF SuspendBlock, Stays, AsksFor, AskedTo, MovedTo
<1>4. ASSUME NEW e \in Xstreams, NEW t \in Threads,
             ExitJump(e, t) \/ ExitWake(e, t)
      PROVE  Stays(q)
  BY <1>a, <1>4 DEF ExitJump, ExitWake, Stays, AsksFor, AskedTo, MovedTo
<1>5. ASSUME NEW e \in Xstreams, NEW t \in Threads, ExitAlone(e, t) PROVE Stays(q)
  BY <1>a, <1>5 DEF ExitAlone, Stays, AsksFor, AskedTo, MovedTo
<1>6. ASSUME NEW e \in Xstreams, NEW t \in Threads, SuspendSwitch(e, t) PROVE Stays(q)
  BY <1>a, <1>6 DEF SuspendSwitch, Stays, AsksFor, AskedTo, MovedTo
<1>7. ASSUME NEW e \in Xstreams, NEW t \in Threads, JoinPool(e, t) PROVE Stays(q)
  BY <1>a, <1>7 DEF JoinPool, Stays, AsksFor, AskedTo, MovedTo
<1>8. ASSUME NEW e \in Xstreams, NEW t \in Threads, JoinRequest(e, t) PROVE Stays(q)
  BY <1>a, <1>8 DEF JoinRequest, Stays, AsksFor, AskedTo, MovedTo
<1>9. ASSUME NEW e \in Xstreams, NEW t \in Threads, JoinBlock(e, t) PROVE Stays(q)
  BY <1>a, <1>9 DEF JoinBlock, Stays, AsksFor, AskedTo, MovedTo
<1>10. ASSUME NEW e \in Xstreams, NEW t \in Threads, JoinLink(e, t) PROVE Stays(q)
  BY <1>a, <1>10 DEF JoinLink, Stays, AsksFor, AskedTo, MovedTo
<1>11. ASSUME NEW e \in Xstreams, NEW t \in Threads, JoinSuspend(e, t) PROVE Stays(q)
  BY <1>a, <1>11 DEF JoinSuspend, Stays, AsksFor, AskedTo, MovedTo
<1>12. ASSUME NEW e \in Xstreams, NEW t \in Threads, JoinResumed(e, t) PROVE Stays(q)
  BY <1>a, <1>12 DEF JoinResumed, Stays, AsksFor, AskedTo, MovedTo
<1>13. ASSUME NEW e \in Xstreams, NEW t \in Threads, ExitRequest(e, t) PROVE Stays(q)
  BY <1>a, <1>13 DEF ExitRequest, Stays, AsksFor, AskedTo, MovedTo
<1>14. ASSUME NEW e \in Xstreams, NEW t \in Threads, ExitLink(e, t) PROVE Stays(q)
  BY <1>a, <1>14 DEF ExitLink, Stays, AsksFor, AskedTo, MovedTo
<1>15. ASSUME NEW e \in Xstreams, NEW t \in Threads, ExitLeave(e, t) PROVE Stays(q)
  BY <1>a, <1>15 DEF ExitLeave, Stays, AsksFor, AskedTo, MovedTo
<1>16. ASSUME NEW e \in Xstreams, NEW t \in Threads,
              YieldToSwitch(e, t) \/ Pop(e, t)
       PROVE  Stays(q)
  BY <1>a, <1>16 DEF YieldToSwitch, Pop, Stays, AsksFor, AskedTo, MovedTo
<1>17. ASSUME NEW e \in Xstreams, NEW t \in Threads, JoinYield(e, t) PROVE Stays(q)
  <2>1. pc[t] = "join.yield" /\ cur[e] = t /\ \/ pc' = [pc EXCEPT ![t] = "user"]
                                              \/ pc' = [pc EXCEPT ![t] = "join.yield", ![e] = "after"]
    BY <1>17 DEF JoinYield
  <2>2. UNCHANGED <<from, request, mig, num_migrations>>
    BY <1>17 DEF JoinYield
  <2>3. pc[e] = "run" /\ t \notin Xstreams
    BY <1>a, <2>1
  <2>4. /\ \A d \in Xstreams : pc'[d] = "mig.dec" <=> pc[d] = "mig.dec"
        /\ \A u \in Threads : pc'[u] = "mig.request" <=> pc[u] = "mig.request"
    <3>1. CASE pc' = [pc EXCEPT ![t] = "user"]
      BY <2>1, <2>3, <3>1
    <3>2. CASE pc' = [pc EXCEPT ![t] = "join.yield", ![e] = "after"]
      BY <2>1, <2>3, <3>2
    <3> QED
      BY <2>1, <3>1, <3>2
  <2> QED
    BY <2>2, <2>4 DEF Stays, AsksFor, AskedTo, MovedTo
<1>18. ASSUME NEW e \in Xstreams, NEW t \in Threads, ExitStore(e, t)
       PROVE  Stays(q) \/ Forgets(q, t)
  <2>1. CASE t \in AskedTo(q)
    BY <1>18, <2>1 DEF ExitStore, Forgets, AsksFor, AskedTo, MovedTo
  <2>2. CASE t \notin AskedTo(q)
    BY <1>18, <2>2 DEF ExitStore, Stays, AsksFor, AskedTo, MovedTo
  <2> QED
    BY <2>1, <2>2
<1>19. ASSUME NEW e \in Xstreams, NEW t \in Threads, MigrateRequest(e, t)
       PROVE  Stays(q) \/ \E u \in Threads : Asked(q, t, u)
  <2> DEFINE u == arg[t]
  <2>1. u \in Threads /\ from[t] \in Pools /\ "MIGRATE" \notin request[u]
    BY <1>19 DEF MigrateRequest, IInv, MigInv
  <2>2. /\ pc[t] = "mig.request" /\ cur[e] = t
        /\ \E l \in {"user", "mig.count"} :
             pc' = [pc EXCEPT ![t] = l] \/ pc' = [pc EXCEPT ![t] = l, ![e] = "after"]
    BY <1>19 DEF MigrateRequest
  <2>3. /\ mig' = [mig EXCEPT ![u] = from[t]]
        /\ request' = [request EXCEPT ![u] = @ \cup {"MIGRATE"}]
        /\ UNCHANGED <<from, num_migrations>>
    BY <1>19 DEF MigrateRequest
  <2>4. MovedTo(q)' = MovedTo(q)
    <3>1. pc[e] = "run" /\ t \notin Xstreams
      BY <1>a, <2>2
    <3>2. \A d \in Xstreams : pc'[d] = "mig.dec" <=> pc[d] = "mig.dec"
      BY <2>2, <3>1
    <3> QED
      BY <2>3, <3>2 DEF MovedTo
  <2>5. AsksFor(q)' = AsksFor(q) \ {t}
    BY <2>2, <2>3 DEF AsksFor
  <2> HIDE DEF u
  <2>6. CASE from[t] = q
    <3>1. AskedTo(q)' = AskedTo(q) \cup {u} /\ u \notin AskedTo(q)
      BY <2>1, <2>3, <2>6 DEF AskedTo
    <3>2. t \in AsksFor(q)
      BY <2>2, <2>6 DEF AsksFor
    <3> QED
      BY <2>1, <2>3, <2>4, <2>5, <3>1, <3>2 DEF Asked
  <2>7. CASE from[t] # q
    <3>1. AskedTo(q)' = AskedTo(q)
      BY <2>1, <2>3, <2>7 DEF AskedTo
    <3>2. t \notin AsksFor(q)
      BY <2>7 DEF AsksFor
    <3> QED
      BY <2>3, <2>4, <2>5, <3>1, <3>2 DEF Stays
  <2> QED
    BY <2>6, <2>7
<1>20. ASSUME NEW e \in Xstreams, NEW t \in Threads, MigrateCount(e, t) PROVE Stays(q)
  <2>1. from[t] # q
    BY <1>20 DEF MigrateCount, IInv, MigInv
  <2> QED
    BY <1>20, <2>1 DEF MigrateCount, Stays, AsksFor, AskedTo, MovedTo
<1>21. ASSUME NEW e \in Xstreams, NEW t \in Threads, NEW u \in Threads,
              Resume(e, t, u) \/ JoinStart(e, t, u)
       PROVE  Stays(q)
  BY <1>a, <1>21 DEF Resume, JoinStart, Stays, AsksFor, AskedTo, MovedTo
<1>22. ASSUME NEW e \in Xstreams, NEW t \in Threads, NEW u \in Threads, Cancel(e, t, u)
       PROVE  Stays(q)
  BY <1>a, <1>22 DEF Cancel, Stays, AsksFor, AskedTo, MovedTo
<1>23. ASSUME NEW e \in Xstreams, NEW t \in Threads, NEW u \in Threads, YieldToPush(e, t, u)
       PROVE  Stays(q)
  BY <1>a, <1>23 DEF YieldToPush, Stays, AsksFor, AskedTo, MovedTo
<1>24. ASSUME NEW e \in Xstreams, NEW t \in Threads, NEW u \in Threads, NEW d \in Xstreams,
              MigrateToXstream(e, t, u, d)
       PROVE  Stays(q) \/ Asks(q, t)
  <2>1. /\ num_migrations' = [num_migrations EXCEPT ![SchedPool[d]] = @ + 1]
        /\ from' = [from EXCEPT ![t] = SchedPool[d]] /\ pc[t] = "user"
        /\ pc' = [pc EXCEPT ![t] = "mig.request"] /\ UNCHANGED <<request, mig>>
    BY <1>24 DEF MigrateToXstream
  <2>2. CASE SchedPool[d] = q
    BY <2>1, <2>2 DEF Asks, AsksFor, AskedTo, MovedTo
  <2>3. CASE SchedPool[d] # q
    BY <2>1, <2>3 DEF Stays, AsksFor, AskedTo, MovedTo
  <2> QED
    BY <2>2, <2>3
<1>25. ASSUME NEW e \in Xstreams, NEW t \in Threads, NEW u \in Threads, NEW p \in Pools,
              MigrateToPool(e, t, u, p)
       PROVE  Stays(q)
  <2>1. p # q /\ pc[t] = "user" /\ from' = [from EXCEPT ![t] = p]
        /\ pc' = [pc EXCEPT ![t] = "mig.request"] /\ UNCHANGED <<request, mig, num_migrations>>
    BY <1>25 DEF MigrateToPool
  <2> QED
    BY <2>1 DEF Stays, AsksFor, AskedTo, MovedTo
<1>26. ASSUME NEW e \in Xstreams, NEW c \in Contexts,
              SetReadySpin(e, c) \/ SetReadyPush(e, c)
       PROVE  Stays(q)
  BY <1>a, <1>26 DEF SetReadySpin, SetReadyPush, Stays, AsksFor, AskedTo, MovedTo
<1>27. ASSUME NEW e \in Xstreams, NEW c \in Contexts, SetReadyDec(e, c) PROVE Stays(q)
  <2>1. ret[c] # "mig.request" /\ ret[c] # "mig.dec"
    BY <1>27
  <2> QED
    BY <1>27, <2>1 DEF SetReadyDec, Stays, AsksFor, AskedTo, MovedTo
<1>28. ASSUME NEW e \in Xstreams,
              Run(e) \/ AfterYield(e)
       PROVE  Stays(q)
  BY <1>a, <1>28 DEF Run, AfterYield, Stays, AsksFor, AskedTo, MovedTo
<1>29. ASSUME NEW e \in Xstreams, AfterBlock(e) PROVE Stays(q)
  BY <1>a, <1>29 DEF AfterBlock, Stays, AsksFor, AskedTo, MovedTo
<1>30. ASSUME NEW e \in Xstreams,
              AfterTerminate(e) \/ End(e)
       PROVE  Stays(q)
  BY <1>a, <1>30 DEF AfterTerminate, End, Stays, AsksFor, AskedTo, MovedTo
<1>31. ASSUME NEW e \in Xstreams, CancelStart(e) PROVE Stays(q)
  BY <1>a, <1>31 DEF CancelStart, Stays, AsksFor, AskedTo, MovedTo
<1>32. ASSUME NEW e \in Xstreams, CancelRequest(e) PROVE Stays(q)
  BY <1>a, <1>32 DEF CancelRequest, Stays, AsksFor, AskedTo, MovedTo
<1>33. ASSUME NEW e \in Xstreams, CancelLink(e) PROVE Stays(q)
  BY <1>a, <1>33 DEF CancelLink, Stays, AsksFor, AskedTo, MovedTo
<1>34. ASSUME NEW e \in Xstreams,
              HasToStop(e) \/ ReadSize(e)
       PROVE  Stays(q)
  BY <1>a, <1>34 DEF HasToStop, ReadSize, Stays, AsksFor, AskedTo, MovedTo
<1>35. ASSUME NEW e \in Xstreams, MigrateThread(e)
       PROVE  Stays(q) \/ \E t \in Threads : Moves(q, t, e)
  <2> DEFINE u == arg[e]
  <2>1. u \in Threads /\ pc[e] \in {"run", "after"} /\ "MIGRATE" \in request[u] /\ mig[u] \in Pools
    BY <1>35, HandTarget DEF MigrateThread, IInv, MigInv
  <2>2. /\ request' = [request EXCEPT ![u] = @ \ {"MIGRATE"}]
        /\ from' = [from EXCEPT ![e] = mig[u]]
        /\ pc' = [pc EXCEPT ![e] = "mig.dec"] /\ UNCHANGED <<mig, num_migrations>>
    BY <1>35 DEF MigrateThread
  <2>3. AsksFor(q)' = AsksFor(q)
    BY <2>2 DEF AsksFor
  <2> HIDE DEF u
  <2>4. CASE mig[u] = q
    <3>1. u \in AskedTo(q) /\ AskedTo(q)' = AskedTo(q) \ {u}
      BY <2>1, <2>2, <2>4 DEF AskedTo
    <3>2. e \notin MovedTo(q) /\ MovedTo(q)' = MovedTo(q) \cup {e}
      BY <2>1, <2>2, <2>4 DEF MovedTo
    <3> QED
      BY <2>1, <2>2, <2>3, <3>1, <3>2 DEF Moves
  <2>5. CASE mig[u] # q
    BY <2>1, <2>2, <2>3, <2>5 DEF Stays, AskedTo, MovedTo
  <2> QED
    BY <2>4, <2>5
<1>36. ASSUME NEW e \in Xstreams, MigrateDec(e) PROVE Stays(q) \/ Arrives(q, e)
  <2>1. CASE from[e] = q
    BY <1>36, <2>1 DEF MigrateDec, Arrives, AsksFor, AskedTo, MovedTo
  <2>2. CASE from[e] # q
    BY <1>36, <2>2 DEF MigrateDec, Stays, AsksFor, AskedTo, MovedTo
  <2> QED
    BY <2>1, <2>2
<1>37. ASSUME NEW e \in Xstreams,
              ReadMigrations(e) \/ ReadBlocked(e) \/ XstreamJoin(e)
       PROVE  Stays(q)
  BY <1>a, <1>37 DEF ReadMigrations, ReadBlocked, XstreamJoin, Stays, AsksFor, AskedTo, MovedTo
<1>38. ASSUME UNCHANGED vars PROVE Stays(q)
  BY <1>38 DEF vars, Stays, AsksFor, AskedTo, MovedTo
<1> QED
  BY <1>1, <1>2, <1>3, <1>4, <1>5, <1>6, <1>7, <1>8, <1>9, <1>10, <1>11, <1>12, <1>13,
    <1>14, <1>15, <1>16, <1>17, <1>18, <1>19, <1>20, <1>21, <1>22, <1>23, <1>24, <1>25,
    <1>26, <1>27, <1>28, <1>29, <1>30, <1>31, <1>32, <1>33, <1>34, <1>35, <1>36, <1>37,
    <1>38 DEF Next, EsStep, SchedStep, UserStep, RuntimeStep, JoinStep, ExitStep, ExitStart,
    Migrations

(* No migration is on its way that num_migrations does not count.          *)
LEMMA MigCountedStep ==
  ASSUME ConstantsAssumption, Program, IInv, MigCounted, [Next]_vars
  PROVE  MigCounted'
<1> SUFFICES ASSUME NEW q \in Pools, MigrateBy[q] = "xstream"
             PROVE  num_migrations'[q] >=
                      Cardinality(AsksFor(q)') + Cardinality(AskedTo(q)') + Cardinality(MovedTo(q)')
  BY DEF MigCounted
<1> DEFINE a == AsksFor(q)  r == AskedTo(q)  m == MovedTo(q)
           aa == AsksFor(q)'  rr == AskedTo(q)'  mm == MovedTo(q)'
           n == num_migrations[q]  nn == num_migrations'[q]
<1> SUFFICES nn >= Cardinality(aa) + Cardinality(rr) + Cardinality(mm)
  OBVIOUS
<1>1. n >= Cardinality(a) + Cardinality(r) + Cardinality(m) /\ n \in Int
  BY DEF MigCounted, IInv, CountOK
<1>2. IsFiniteSet(a) /\ IsFiniteSet(r) /\ IsFiniteSet(m)
  <2>1. a \subseteq Threads /\ r \subseteq Threads /\ m \subseteq Xstreams
    BY DEF AsksFor, AskedTo, MovedTo
  <2> HIDE DEF a, r, m
  <2> QED
    BY <2>1, FS_Subset DEF ConstantsAssumption
<1>3. Cardinality(a) \in Nat /\ Cardinality(r) \in Nat /\ Cardinality(m) \in Nat
  BY <1>2, FS_CardinalityType
<1>4. Migrations(q)
  BY MigSteps
<1>5. CASE Stays(q)
  BY <1>1, <1>5 DEF Stays
<1>6. ASSUME NEW t \in Threads, Asks(q, t)
      PROVE  nn >= Cardinality(aa) + Cardinality(rr) + Cardinality(mm)
  <2>1. aa = a \cup {t} /\ t \notin a /\ rr = r /\ mm = m /\ nn = n + 1
    BY <1>6 DEF Asks
  <2> HIDE DEF a, r, m, aa, rr, mm, n, nn
  <2>2. Cardinality(aa) = Cardinality(a) + 1
    BY <1>2, <2>1, FS_AddElement
  <2> QED
    BY <1>1, <1>3, <2>1, <2>2
<1>7. ASSUME NEW t \in Threads, Forgets(q, t)
      PROVE  nn >= Cardinality(aa) + Cardinality(rr) + Cardinality(mm)
  <2>1. rr = r \ {t} /\ t \in r /\ aa = a /\ mm = m /\ nn = n
    BY <1>7 DEF Forgets
  <2> HIDE DEF a, r, m, aa, rr, mm, n, nn
  <2>2. Cardinality(rr) = Cardinality(r) - 1
    BY <1>2, <2>1, FS_RemoveElement
  <2> QED
    BY <1>1, <1>3, <2>1, <2>2
<1>8. ASSUME NEW t \in Threads, NEW u \in Threads, Asked(q, t, u)
      PROVE  nn >= Cardinality(aa) + Cardinality(rr) + Cardinality(mm)
  <2>1. aa = a \ {t} /\ t \in a /\ rr = r \cup {u} /\ u \notin r /\ mm = m /\ nn = n
    BY <1>8 DEF Asked
  <2> HIDE DEF a, r, m, aa, rr, mm, n, nn
  <2>2. Cardinality(aa) = Cardinality(a) - 1
    BY <1>2, <2>1, FS_RemoveElement
  <2>3. Cardinality(rr) = Cardinality(r) + 1
    BY <1>2, <2>1, FS_AddElement
  <2> QED
    BY <1>1, <1>3, <2>1, <2>2, <2>3
<1>9. ASSUME NEW t \in Threads, NEW e \in Xstreams, Moves(q, t, e)
      PROVE  nn >= Cardinality(aa) + Cardinality(rr) + Cardinality(mm)
  <2>1. rr = r \ {t} /\ t \in r /\ mm = m \cup {e} /\ e \notin m /\ aa = a /\ nn = n
    BY <1>9 DEF Moves
  <2> HIDE DEF a, r, m, aa, rr, mm, n, nn
  <2>2. Cardinality(rr) = Cardinality(r) - 1
    BY <1>2, <2>1, FS_RemoveElement
  <2>3. Cardinality(mm) = Cardinality(m) + 1
    BY <1>2, <2>1, FS_AddElement
  <2> QED
    BY <1>1, <1>3, <2>1, <2>2, <2>3
<1>10. ASSUME NEW e \in Xstreams, Arrives(q, e)
       PROVE  nn >= Cardinality(aa) + Cardinality(rr) + Cardinality(mm)
  <2>1. mm = m \ {e} /\ e \in m /\ aa = a /\ rr = r /\ nn = n - 1
    BY <1>10 DEF Arrives
  <2> HIDE DEF a, r, m, aa, rr, mm, n, nn
  <2>2. Cardinality(mm) = Cardinality(m) - 1
    BY <1>2, <2>1, FS_RemoveElement
  <2> QED
    BY <1>1, <1>3, <2>1, <2>2
<1> HIDE DEF a, r, m, aa, rr, mm, n, nn
<1> QED
  BY <1>4, <1>5, <1>6, <1>7, <1>8, <1>9, <1>10 DEF Migrations

(* The only scheduler of a pool.                                           *)
LEMMA SingleOne ==
  ASSUME NEW x \in Xstreams, Single(SchedPool[x]), NEW y \in Xstreams, SchedPool[y] = SchedPool[x]
  PROVE  y = x
<1>1. PICK d \in Xstreams : Served(SchedPool[x]) = {d}
  BY DEF Single
<1>2. x \in Served(SchedPool[x]) /\ y \in Served(SchedPool[x])
  BY DEF Served
<1> QED
  BY <1>1, <1>2

(* A count of 0 says that there is nothing to count.                       *)
LEMMA NoneAsked ==
  ASSUME ConstantsAssumption, IInv, MigCounted, NEW q \in Pools, MigrateBy[q] = "xstream"
  PROVE  /\ num_migrations[q] >= 0
         /\ num_migrations[q] = 0 => AskedTo(q) = {} /\ MovedTo(q) = {}
<1> DEFINE a == Cardinality(AsksFor(q))  r == Cardinality(AskedTo(q))  m == Cardinality(MovedTo(q))
<1>1. num_migrations[q] >= a + r + m /\ num_migrations[q] \in Int
  BY DEF MigCounted, IInv, CountOK
<1>2. IsFiniteSet(AsksFor(q)) /\ IsFiniteSet(AskedTo(q)) /\ IsFiniteSet(MovedTo(q))
  <2>1. AsksFor(q) \subseteq Threads /\ AskedTo(q) \subseteq Threads
          /\ MovedTo(q) \subseteq Xstreams
    BY DEF AsksFor, AskedTo, MovedTo
  <2> QED
    BY <2>1, FS_Subset DEF ConstantsAssumption
<1>3. a \in Nat /\ r \in Nat /\ m \in Nat
  BY <1>2, FS_CardinalityType
<1>4. (r = 0 => AskedTo(q) = {}) /\ (m = 0 => MovedTo(q) = {})
  BY <1>2, FS_EmptySet
<1> HIDE DEF a, r, m
<1> QED
  BY <1>1, <1>3, <1>4

(* And so for the blocked ULTs.                                            *)
LEMMA NoneBlocked ==
  ASSUME ConstantsAssumption, IInv, BlockedCounted, NEW q \in Pools
  PROVE  /\ num_blocked[q] >= 0
         /\ num_blocked[q] = 0 => BlockedIn(q) = {} /\ WakingIn(q) = {}
<1> DEFINE b == Cardinality(BlockedIn(q))  w == Cardinality(WakingIn(q))
<1>1. num_blocked[q] = b + w
  BY DEF BlockedCounted, BlockedIn, WakingIn
<1>2. IsFiniteSet(BlockedIn(q)) /\ IsFiniteSet(WakingIn(q))
  <2>1. BlockedIn(q) \subseteq Threads /\ WakingIn(q) \subseteq Contexts /\ IsFiniteSet(Contexts)
    BY FS_Union DEF BlockedIn, WakingIn, ConstantsAssumption, Contexts
  <2> QED
    BY <2>1, FS_Subset DEF ConstantsAssumption
<1>3. b \in Nat /\ w \in Nat
  BY <1>2, FS_CardinalityType
<1>4. (b = 0 => BlockedIn(q) = {}) /\ (w = 0 => WakingIn(q) = {})
  BY <1>2, FS_EmptySet
<1> HIDE DEF b, w
<1> QED
  BY <1>1, <1>3, <1>4

(* What a scheduler has read stays true while it stops.                    *)

(* What a scheduler that stops has read stays true.                        *)
LEMMA StopInvStep ==
  ASSUME ConstantsAssumption, Program, CountedFirst, IInv, BlockedCounted, MigCounted, StopInv,
         [Next]_vars
  PROVE  StopInv'
<1> SUFFICES ASSUME NEW x \in Xstreams, NEW q, q = SchedPool[x] PROVE StopsAt(x)'
  BY DEF StopInv
<1> USE ConstantsAssumption DEF ConstantsAssumption, StackOK, PcOK, ThreadOK, StateOK,
  CountOK, RetOK, StopOK, InStop, InHand, InSetReady, Goto, At, ToSched, AddRequest,
  SetBlocked, Pooled, Contexts, Handles, Suspended, Migratable, stackVars, threadVars,
  poolVars, stopVars
<1>0. StackOK /\ PcOK /\ ThreadOK /\ StateOK /\ CountOK /\ RetOK
  BY DEF IInv
<1> USE <1>0
<1>t. StopOK /\ q \in Pools
  BY DEF IInv
<1> USE <1>t
<1>a. StopsAt(x) /\ (pc[x] \in InStop \cup {"stopped"} => cur[x] = x)
  BY DEF StopInv, IInv, EsInv
<1>b. Single(q) => \A y \in Xstreams : SchedPool[y] = q => y = x
  BY SingleOne
<1>c. x \in Finishing =>
        /\ MigrateBy[q] = "xstream" /\ num_migrations[q] >= 0
        /\ num_migrations[q] = 0 => AskedTo(q) = {} /\ MovedTo(q) = {}
  BY NoneAsked DEF CountedFirst
<1>d. /\ num_blocked[q] >= 0
      /\ num_blocked[q] = 0 => WakingIn(q) = {}
  BY NoneBlocked
<1>1. ASSUME NEW e \in Xstreams, NEW t \in Threads,
             Yield(e, t) \/ Preempt(e, t) \/ SuspendBlock(e, t) \/ ExitJump(e, t)
               \/ ExitWake(e, t)
      PROVE  StopsAt(x)'
  <2>1. cur[e] = t => p_pool[t] = SchedPool[e] /\ pc[e] = "run" /\ t \notin Xstreams
    BY DEF IInv, RunInv, RunsOn, EsInv
  <2> QED
    BY <1>a, <1>b, <1>c, <1>d, <1>1, <2>1 DEF Yield, Preempt, SuspendBlock, ExitJump, ExitWake,
         StopsAt, Knows, AskedTo, MovedTo, WakingIn
<1>2. ASSUME NEW e \in Xstreams, NEW t \in Threads,
             ExitAlone(e, t) \/ SuspendSwitch(e, t)
      PROVE  StopsAt(x)'
  <2>1. cur[e] = t => p_pool[t] = SchedPool[e] /\ pc[e] = "run" /\ t \notin Xstreams
    BY DEF IInv, RunInv, RunsOn, EsInv
  <2> QED
    BY <1>a, <1>b, <1>c, <1>d, <1>2, <2>1 DEF ExitAlone, SuspendSwitch, StopsAt, Knows, AskedTo,
         MovedTo, WakingIn
<1>3. ASSUME NEW e \in Xstreams, NEW t \in Threads, JoinPool(e, t) PROVE StopsAt(x)'
  <2>1. cur[e] = t => p_pool[t] = SchedPool[e] /\ pc[e] = "run" /\ t \notin Xstreams
    BY DEF IInv, RunInv, RunsOn, EsInv
  <2> QED
    BY <1>a, <1>b, <1>c, <1>d, <1>3, <2>1 DEF JoinPool, StopsAt, Knows, AskedTo, MovedTo, WakingIn
<1>4. ASSUME NEW e \in Xstreams, NEW t \in Threads,
             JoinRequest(e, t) \/ JoinBlock(e, t)
      PROVE  StopsAt(x)'
  <2>1. cur[e] = t => p_pool[t] = SchedPool[e] /\ pc[e] = "run" /\ t \notin Xstreams
    BY DEF IInv, RunInv, RunsOn, EsInv
  <2> QED
    BY <1>a, <1>b, <1>c, <1>d, <1>4, <2>1 DEF JoinRequest, JoinBlock, StopsAt, Knows, AskedTo,
         MovedTo, WakingIn
<1>5. ASSUME NEW e \in Xstreams, NEW t \in Threads,
             JoinLink(e, t) \/ JoinSuspend(e, t) \/ JoinResumed(e, t)
               \/ JoinYield(e, t) \/ ExitStore(e, t) \/ ExitRequest(e, t)
               \/ ExitLink(e, t) \/ ExitLeave(e, t) \/ YieldToSwitch(e, t)
               \/ MigrateRequest(e, t)
      PROVE  StopsAt(x)'
  <2>1. cur[e] = t => p_pool[t] = SchedPool[e] /\ pc[e] = "run" /\ t \notin Xstreams
    BY DEF IInv, RunInv, RunsOn, EsInv
  <2> QED
    BY <1>a, <1>b, <1>c, <1>d, <1>5, <2>1 DEF JoinLink, JoinSuspend, JoinResumed, JoinYield,
         ExitStore, ExitRequest, ExitLink, ExitLeave, YieldToSwitch, MigrateRequest, StopsAt, Knows,
         AskedTo, MovedTo, WakingIn
<1>6. ASSUME NEW e \in Xstreams, NEW t \in Threads, MigrateCount(e, t) PROVE StopsAt(x)'
  <2>1. cur[e] = t /\ pc[t] = "mig.count" /\ t \notin Xstreams
    BY <1>6 DEF MigrateCount
  <2>2. MigrateBy[from[t]] = "pool"
    BY <2>1 DEF IInv, MigInv
  <2>3. x \in Finishing => num_migrations'[q] = num_migrations[q]
    BY <1>c, <1>6, <2>2 DEF MigrateCount
  <2>4. pc'[x] = pc[x] /\ UNCHANGED <<pool, num_blocked, stopVars>>
    BY <1>6, <2>1 DEF MigrateCount
  <2> QED
    BY <1>a, <2>3, <2>4 DEF StopsAt, Knows
<1>7. ASSUME NEW e \in Xstreams, NEW t \in Threads, Pop(e, t) PROVE StopsAt(x)'
  BY <1>a, <1>b, <1>c, <1>d, <1>7 DEF Pop, StopsAt, Knows, AskedTo, MovedTo, WakingIn
<1>8. ASSUME NEW e \in Xstreams, NEW t \in Threads, NEW u \in Threads,
             Resume(e, t, u) \/ JoinStart(e, t, u) \/ Cancel(e, t, u)
               \/ YieldToPush(e, t, u)
      PROVE  StopsAt(x)'
  <2>1. cur[e] = t => p_pool[t] = SchedPool[e] /\ pc[e] = "run" /\ t \notin Xstreams
    BY DEF IInv, RunInv, RunsOn, EsInv
  <2> QED
    BY <1>a, <1>b, <1>c, <1>d, <1>8, <2>1 DEF Resume, JoinStart, Cancel, YieldToPush, StopsAt,
         Knows, AskedTo, MovedTo, WakingIn
<1>9. ASSUME NEW e \in Xstreams, NEW t \in Threads, NEW u \in Threads, NEW d \in Xstreams,
             MigrateToXstream(e, t, u, d)
      PROVE  StopsAt(x)'
  <2>1. cur[e] = t /\ t \notin Xstreams /\ ~ Locked(d) /\ ~ Terminated(d)
    BY <1>9 DEF MigrateToXstream
  <2>2. num_migrations' = [num_migrations EXCEPT ![SchedPool[d]] = @ + 1]
    BY <1>9 DEF MigrateToXstream
  <2>3. pc'[x] = pc[x] /\ UNCHANGED <<pool, num_blocked, stopVars>>
    BY <1>9, <2>1 DEF MigrateToXstream
  <2>4. CASE SchedPool[d] = q /\ Single(q)
    BY <1>a, <1>b, <2>1, <2>3, <2>4 DEF StopsAt, Knows, Locked, Terminated
  <2>5. CASE SchedPool[d] # q
    BY <1>a, <2>2, <2>3, <2>5 DEF StopsAt, Knows
  <2>6. CASE ~ Single(q)
    BY <1>a, <2>3, <2>6 DEF StopsAt, Knows
  <2> QED
    BY <2>4, <2>5, <2>6
<1>10. ASSUME NEW e \in Xstreams, NEW t \in Threads, NEW u \in Threads, NEW p \in Pools,
              MigrateToPool(e, t, u, p)
       PROVE  StopsAt(x)'
  <2>1. cur[e] = t => p_pool[t] = SchedPool[e] /\ pc[e] = "run" /\ t \notin Xstreams
    BY DEF IInv, RunInv, RunsOn, EsInv
  <2> QED
    BY <1>a, <1>b, <1>c, <1>d, <1>10, <2>1 DEF MigrateToPool, StopsAt, Knows, AskedTo, MovedTo,
         WakingIn
<1>11. ASSUME NEW e \in Xstreams, NEW c \in Contexts,
              SetReadySpin(e, c) \/ SetReadyPush(e, c)
       PROVE  StopsAt(x)'
  BY <1>a, <1>b, <1>c, <1>d, <1>11 DEF SetReadySpin, SetReadyPush, StopsAt, Knows, AskedTo, MovedTo,
       WakingIn
<1>12. ASSUME NEW e \in Xstreams, NEW c \in Contexts, SetReadyDec(e, c) PROVE StopsAt(x)'
  <2>1. /\ cur[e] = c /\ pc[c] = "dec" /\ pc' = [pc EXCEPT ![c] = ret[c]]
        /\ num_blocked' = [num_blocked EXCEPT ![from[c]] = @ - 1]
        /\ UNCHANGED <<pool, num_migrations, stopVars>>
    BY <1>12 DEF SetReadyDec
  <2>2. from[c] = q => num_blocked[q] # 0
    BY <1>d, <2>1 DEF WakingIn
  <2>3. CASE c = x
    BY <1>a, <2>1, <2>3 DEF StopsAt, Knows
  <2>4. CASE c # x /\ pc[x] \notin InStop \cup {"stopped"}
    BY <1>a, <2>1, <2>4 DEF StopsAt, Knows
  <2>5. CASE c # x /\ pc[x] \in InStop \cup {"stopped"} /\ from[c] = q
    BY <1>a, <2>1, <2>2, <2>5 DEF StopsAt, Knows
  <2>6. CASE c # x /\ pc[x] \in InStop \cup {"stopped"} /\ from[c] # q
    <3>1. num_blocked'[q] = num_blocked[q]
      BY <2>1, <2>6
    <3> QED
      BY <1>a, <2>1, <2>6, <3>1 DEF StopsAt, Knows
  <2> QED
    BY <2>3, <2>4, <2>5, <2>6
<1>13. ASSUME NEW e \in Xstreams,
              Run(e) \/ AfterBlock(e) \/ AfterTerminate(e) \/ End(e)
                \/ MigrateDec(e) \/ CancelStart(e) \/ CancelRequest(e) \/ CancelLink(e)
                \/ HasToStop(e) \/ ReadMigrations(e)
       PROVE  StopsAt(x)'
  BY <1>a, <1>b, <1>c, <1>d, <1>13 DEF Run, AfterBlock, AfterTerminate, End, MigrateDec,
       CancelStart, CancelRequest, CancelLink, HasToStop, ReadMigrations, StopsAt, Knows, AskedTo,
       MovedTo, WakingIn
<1>14. ASSUME NEW e \in Xstreams, AfterYield(e) PROVE StopsAt(x)'
  <2> DEFINE u == arg[e]
  <2>1. u \in Threads /\ HeldBy(e, u)
    BY <1>14, HandTarget DEF AfterYield
  <2>2. p_pool[u] = SchedPool[e]
    BY <2>1 DEF HeldBy
  <2>3. /\ cur[e] = e /\ pc[e] = "after" /\ pc' = [pc EXCEPT ![e] = "pop"]
        /\ pool' = [pool EXCEPT ![p_pool[u]] = @ \cup {u}]
        /\ UNCHANGED <<num_blocked, num_migrations, stopVars>>
    BY <1>14 DEF AfterYield
  <2> QED
    BY <1>a, <1>b, <2>2, <2>3 DEF StopsAt, Knows
<1>15. ASSUME NEW e \in Xstreams, MigrateThread(e) PROVE StopsAt(x)'
  <2> DEFINE u == arg[e]
  <2>1. u \in Threads /\ cur[e] = e /\ pc[e] \in {"run", "after"} /\ "MIGRATE" \in request[u]
    BY <1>15, HandTarget DEF MigrateThread
  <2>2. mig[u] \in Pools /\ (mig[u] = q => u \in AskedTo(q))
    BY <2>1 DEF IInv, MigInv, AskedTo
  <2>3. /\ pc' = [pc EXCEPT ![e] = "mig.dec"]
        /\ pool' = [pool EXCEPT ![mig[u]] = @ \cup {u}]
        /\ UNCHANGED <<num_blocked, num_migrations, stopVars>>
    BY <1>15 DEF MigrateThread
  <2> HIDE DEF u
  <2> QED
    BY <1>a, <1>c, <2>1, <2>2, <2>3 DEF StopsAt, Knows
<1>16. ASSUME NEW e \in Xstreams, ReadSize(e) PROVE StopsAt(x)'
  <2>1. IsFiniteSet(pool[q])
    BY FS_Subset
  <2>2. Cardinality(pool[q]) \in Nat /\ (Cardinality(pool[q]) = 0 => pool[q] = {})
    BY <2>1, FS_CardinalityType, FS_EmptySet
  <2> DEFINE k == Cardinality(pool[SchedPool[e]])
  <2>3. /\ pc[e] = "size" /\ pc' = [pc EXCEPT ![e] = "migrations"]
        /\ seen' = [seen EXCEPT ![e] = k]
        /\ UNCHANGED <<pool, num_blocked, num_migrations, finish, round>>
    BY <1>16 DEF ReadSize
  <2>4. e = x => k >= 0 /\ (k = 0 => pool[q] = {})
    BY <2>2
  <2> HIDE DEF k
  <2> QED
    BY <1>a, <2>3, <2>4 DEF StopsAt, Knows
<1>17. ASSUME NEW e \in Xstreams, ReadBlocked(e) PROVE StopsAt(x)'
  <2>1. CASE e # x
    BY <1>a, <1>17, <2>1 DEF ReadBlocked, StopsAt, Knows
  <2>2. CASE e = x
    <3> DEFINE zero == EffectiveSize(x) = 0 /\ (round[x] = 1 => x \in finish)
    <3>1. /\ pc[x] = "blocked" /\ round' = [round EXCEPT ![x] = IF zero /\ @ < 3 THEN @ + 1 ELSE 1]
          /\ pc' = [pc EXCEPT ![x] = IF ~ zero THEN "pop" ELSE IF round[x] = 3 THEN "stopped" ELSE "size"]
          /\ seen' = [seen EXCEPT ![x] = 0]
          /\ UNCHANGED <<pool, num_blocked, num_migrations, finish>>
      BY <1>17, <2>2 DEF ReadBlocked
    <3>2. Single(q) /\ zero => seen[x] = 0 /\ num_blocked[q] = 0
      BY <1>a, <1>d, <3>1 DEF StopsAt, EffectiveSize
    <3>3. round[x] \in {1, 2, 3} /\ x \in Finishing /\ seen[x] >= 0 /\ (Single(q) => Knows(x))
      BY <1>a, <3>1 DEF StopsAt
    <3> HIDE DEF zero
    <3>4. CASE ~ zero
      BY <3>1, <3>4 DEF StopsAt, Knows
    <3>5. CASE zero /\ round[x] = 1
      BY <3>1, <3>3, <3>5 DEF StopsAt, Knows
    <3>6. CASE zero /\ round[x] = 2
      BY <3>1, <3>2, <3>3, <3>6 DEF StopsAt, Knows
    <3>7. CASE zero /\ round[x] = 3
      BY <3>1, <3>2, <3>3, <3>7 DEF StopsAt, Knows
    <3> QED
      BY <3>3, <3>4, <3>5, <3>6, <3>7
  <2> QED
    BY <2>1, <2>2
<1>18. ASSUME NEW e \in Xstreams, XstreamJoin(e) PROVE StopsAt(x)'
  BY <1>a, <1>b, <1>c, <1>d, <1>18 DEF XstreamJoin, StopsAt, Knows, AskedTo, MovedTo, WakingIn
<1>19. ASSUME UNCHANGED vars PROVE StopsAt(x)'
  BY <1>a, <1>b, <1>19 DEF vars, StopsAt, Knows
<1> QED
  BY <1>1, <1>2, <1>3, <1>4, <1>5, <1>6, <1>7, <1>8, <1>9, <1>10, <1>11, <1>12, <1>13,
    <1>14, <1>15, <1>16, <1>17, <1>18, <1>19 DEF Next, EsStep, SchedStep, UserStep,
    RuntimeStep, JoinStep, ExitStep, ExitStart

(* The counts and StopInv hold initially.                                  *)
LEMMA InitCounts ==
  ASSUME ConstantsAssumption, Init
  PROVE  BlockedCounted /\ MigCounted /\ StopInv
<1> USE ConstantsAssumption DEF ConstantsAssumption, Contexts
<1>1. BlockedCounted
  <2> SUFFICES ASSUME NEW p \in Pools
               PROVE  num_blocked[p] = Cardinality(BlockedIn(p)) + Cardinality(WakingIn(p))
    BY DEF BlockedCounted, BlockedIn, WakingIn
  <2>1. num_blocked[p] = 0 /\ BlockedIn(p) = {} /\ WakingIn(p) = {}
    BY DEF Init, BlockedIn, WakingIn
  <2> QED
    BY <2>1, FS_EmptySet
<1>2. MigCounted
  <2> SUFFICES ASSUME NEW p \in Pools
               PROVE  num_migrations[p] >= Cardinality(AsksFor(p)) + Cardinality(AskedTo(p))
                                             + Cardinality(MovedTo(p))
    BY DEF MigCounted
  <2>1. num_migrations[p] = 0 /\ AsksFor(p) = {} /\ AskedTo(p) = {} /\ MovedTo(p) = {}
    BY DEF Init, AsksFor, AskedTo, MovedTo
  <2> QED
    BY <2>1, FS_EmptySet
<1>3. StopInv
  BY DEF Init, StopInv, StopsAt, InStop
<1> QED
  BY <1>1, <1>2, <1>3

(* What the scheduler knows when it stops is enough.                       *)
LEMMA EsStopsEmptyHolds ==
  ASSUME ConstantsAssumption, CountedFirst, IInv, BlockedCounted, MigCounted, StopInv
  PROVE  EsStopsEmpty
<1> USE ConstantsAssumption DEF ConstantsAssumption, Contexts
<1> SUFFICES ASSUME NEW e \in Xstreams, pc[e] = "stopped", Single(SchedPool[e]), NEW q,
                    q = SchedPool[e]
             PROVE  /\ \A t \in Threads : p_pool[t] = q => state[t] = "TERMINATED"
                    /\ \A t \in Threads : "MIGRATE" \in request[t]
                         /\ mig[t] = q => state[t] = "TERMINATED"
  BY DEF EsStopsEmpty
<1>1. /\ e \in Finishing /\ q \in Pools /\ cur[e] = e
      /\ num_migrations[q] = 0 /\ num_blocked[q] = 0 /\ pool[q] = {}
  BY DEF StopInv, StopsAt, Knows, IInv, EsInv
<1>2. \A d \in Xstreams : SchedPool[d] = q => d = e
  BY SingleOne
<1>3. AskedTo(q) = {}
  BY <1>1, NoneAsked DEF CountedFirst
<1>4. BlockedIn(q) = {} /\ WakingIn(q) = {}
  BY <1>1, NoneBlocked
<1>5. ASSUME NEW t \in Threads, p_pool[t] = q PROVE state[t] = "TERMINATED"
  <2> SUFFICES ASSUME state[t] \in {"READY", "RUNNING"} PROVE FALSE
    BY <1>4, <1>5 DEF BlockedIn, IInv, StateOK
  <2>1. Placed(t)
    BY DEF IInv, PlaceInv
  <2>2. CASE On(t)
    BY <1>1, <1>2, <1>5, <2>2 DEF On, IInv, RunInv, RunsOn
  <2>3. CASE t \in pool[p_pool[t]]
    BY <1>1, <1>5, <2>3
  <2>4. ASSUME NEW d \in Xstreams, Hand(d, t) PROVE FALSE
    <3>1. HeldBy(d, t)
      BY <2>4 DEF IInv, HandInv
    <3>2. d = e
      BY <1>2, <1>5, <3>1 DEF HeldBy
    <3> QED
      BY <2>4, <3>2 DEF Hand, InHand, InSetReady
  <2>5. ASSUME NEW c \in Contexts, pc[c] = "push", Woken(c) = t PROVE FALSE
    <3>1. from[c] = p_pool[t]
      BY <2>5 DEF IInv, WakeInv, WokenBy
    <3> QED
      BY <1>4, <1>5, <2>5, <3>1 DEF WakingIn
  <2> QED
    BY <2>1, <2>2, <2>3, <2>4, <2>5 DEF Placed
<1>6. \A t \in Threads : ~ ("MIGRATE" \in request[t] /\ mig[t] = q)
  BY <1>3 DEF AskedTo
<1> QED
  BY <1>5, <1>6
-----------------------------------------------------------------------------
(* The theorems.                                                           *)

(* Every step keeps the invariant.                                         *)
LEMMA Inductive ==
  ASSUME ConstantsAssumption, Program, IInv, [Next]_vars
  PROVE  IInv'
BY StackOKStep, RetOKStep, PcOKStep, ThreadOKStep, StateOKStep, CountOKStep, StopOKStep,
   EsInvStep, LabelInvStep, RunInvStep, YieldInvStep, PoolInvStep, HandInvStep, BlockedInvStep,
   WakeInvStep, PlaceInvStep, JoinInvStep, LinkInvStep, EndInvStep, MigInvStep DEF IInv

(* The inductive invariant, which the other theorems rest on: where a ULT  *)
(* is, by whom and by what it is going to be run, and who waits for it.    *)
THEOREM Invariance == ASSUME Program PROVE Spec => []IInv
<1>1. Init => IInv
  BY InitHolds, ConstantsAssumption
<1>2. IInv /\ [Next]_vars => IInv'
  BY Inductive, ConstantsAssumption
<1> QED
  BY <1>1, <1>2, PTL DEF Spec

(* TypeOK: the types of the variables of thread.c and stream.c.            *)
THEOREM TypeCorrect == ASSUME Program PROVE Spec => []TypeOK
<1>1. IInv => TypeOK
  BY DEF IInv, StackOK, RetOK, PcOK, ThreadOK, StateOK, CountOK, StopOK, TypeOK
<1> QED
  BY <1>1, Invariance, PTL

(* A ULT is in one place at a time (thread.c:2148).                        *)
THEOREM OneHolderAlways == ASSUME Program PROVE Spec => []OneHolder
<1>1. IInv => OneHolder
  BY OneHolderHolds, ConstantsAssumption
<1> QED
  BY <1>1, Invariance, PTL

(* Nothing touches a ULT that has ended (abti_stream.h:144).               *)
THEOREM NoUseAfterEndAlways == ASSUME Program PROVE Spec => []NoUseAfterEnd
<1>1. IInv => NoUseAfterEnd
  BY NoUseAfterEndHolds, ConstantsAssumption
<1> QED
  BY <1>1, Invariance, PTL

(* ABT_thread_join returns only when its target has ended.                 *)
THEOREM JoinSeesEndAlways == ASSUME Program PROVE Spec => JoinSeesEnd
<1>1. IInv /\ [Next]_vars =>
        [\A t \in Threads :
           pc[t] \in InJoin /\ pc'[t] = "user" => state[arg[t]] = "TERMINATED"]_vars
  BY JoinSeesEndStep, ConstantsAssumption
<1> QED
  BY <1>1, Invariance, PTL DEF Spec, JoinSeesEnd

(* num_blocked is exact, but for the ULTs that have just been pushed.      *)
THEOREM BlockedCountedAlways == ASSUME Program PROVE Spec => []BlockedCounted
<1>1. Init => BlockedCounted
  BY InitCounts, ConstantsAssumption
<1>2. IInv /\ BlockedCounted /\ [Next]_vars => BlockedCounted'
  BY BlockedCountedStep, ConstantsAssumption
<1> QED
  BY <1>1, <1>2, Invariance, PTL DEF Spec

(* An ES that stops leaves no ULT of its pool behind (sched.c, has_to_stop, *)
(* called three times by ABTI_xstream_schedule).                           *)
THEOREM EsStopsEmptyAlways == ASSUME Program, CountedFirst PROVE Spec => []EsStopsEmpty
<1>1. Init => MigCounted /\ StopInv
  BY InitCounts, ConstantsAssumption
<1>2. IInv /\ MigCounted /\ [Next]_vars => MigCounted'
  BY MigCountedStep, ConstantsAssumption
<1>3. IInv /\ BlockedCounted /\ MigCounted /\ StopInv /\ [Next]_vars => StopInv'
  BY StopInvStep, ConstantsAssumption
<1>4. IInv /\ BlockedCounted /\ MigCounted /\ StopInv => EsStopsEmpty
  BY EsStopsEmptyHolds, ConstantsAssumption
<1> QED
  BY <1>1, <1>2, <1>3, <1>4, Invariance, BlockedCountedAlways, PTL DEF Spec

=============================================================================
