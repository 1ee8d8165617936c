--------------------------- MODULE KltSwitchProofs ---------------------------
(***************************************************************************)
(* The safety properties of KltSwitch, for every set of ESs, KLTs and      *)
(* ULTs: IInv of KltSwitchInductive holds initially, every step preserves  *)
(* it, and each property follows from it.  At the end, the refinement:     *)
(* KltSwitch implements UltSched.                                          *)
(***************************************************************************)
EXTENDS KltSwitchInductive, TLAPS

(* No context is loaded on two KLTs. *)
LEMMA ContextUnique ==
  ASSUME IInv
  PROVE  ContextOnOneKlt
<1> USE DEF IInv
<1> SUFFICES ASSUME NEW j \in Klts, NEW k \in Klts, ctx[j] = ctx[k]
             PROVE  j = k
  BY DEF ContextOnOneKlt
<1>1. CASE ctx[k] \notin Threads
  <2>1. /\ ctx[j] = j \/ (stage[j] = "on" /\ tls[j] \in Xstreams /\ ctx[j] = tls[j])
        /\ ctx[k] = k \/ (stage[k] = "on" /\ tls[k] \in Xstreams /\ ctx[k] = tls[k])
    BY <1>1, SMT DEF TypeOK, KltShape
  <2> QED
    BY <2>1, ConstantsAssumption, SMT DEF OneOwner, Owns, Drives
<1>2. CASE ctx[k] \in Threads
  <2> DEFINE Active(i) == stage[i] \in {"on", "arm", "callback"}
  <2>1. \A i \in Klts : ctx[i] = ctx[k] /\ Active(i) =>
           tls[i] \in Xstreams /\ dispatched[tls[i]] = ctx[k] /\ ctx[k] \notin preempted
    BY <1>2, ConstantsAssumption, SMT DEF TypeOK, KltShape, OnInv,
       PreemptingInv, Preempting, Contexts
  <2>2. \A i \in Klts : ctx[i] = ctx[k] /\ ~ Active(i) =>
           ctx[k] \in preempted /\ p_wakeup[ctx[k]] = i
    BY <1>2, SMT DEF PreemptedInv
  <2>3. CASE Active(j) /\ Active(k)
    <3>1. tls[j] = tls[k]
      BY <1>2, <2>1, <2>3, ConstantsAssumption, SMT DEF PoolInv, Contexts
    <3> QED
      BY <2>1, <2>3, <3>1, SMT DEF OneOwner, Owns, Drives
  <2> QED
    BY <2>1, <2>2, <2>3
<1> QED
  BY <1>1, <1>2

(* What a wakeup of the held KLT s by k does to the KLTs.                  *)
Woke(k, s) ==
  /\ stage' \in [Klts -> Stages] /\ stage'[k] = "wait"
  /\ stage'[s] = IF stage[s] = "asleep" THEN "woken" ELSE stage[s]
  /\ \A j \in Klts : j # k /\ j # s => stage'[j] = stage[j]
  /\ sleep_flag' \in [Klts -> {0, 1}] /\ sleep_flag'[s] = 0
  /\ \A j \in Klts : j # s => sleep_flag'[j] = sleep_flag[j]
  /\ p_local' \in [Klts -> Xstreams \cup {None}] /\ p_local'[s] = tls[k]
  /\ \A j \in Klts : j # s => p_local'[j] = p_local[j]

(* What waking KLT j for ES e assigns (wake_next, sub_stream.c).           *)
LEMMA WakeNextEffect ==
  ASSUME TypeOK, NEW k \in Klts, NEW s \in Klts, s # k, Held(s), WakeNext(k, s), tls[k] \in Xstreams
  PROVE  Woke(k, s)
BY SMT DEF TypeOK, Stages, WakeNext, Held, Woke

(* After waking j for e, j owns e and every other owner is as before.      *)
LEMMA WakeNextOwners ==
  ASSUME IInv, NEW k \in Klts, NEW s \in Klts, NEW e \in Xstreams,
         s # k, Held(s), Drives(k, e), stage[k] \in {"callback", "handoff"},
         WakeNext(k, s), UNCHANGED tls
  PROVE  OneOwner' /\ SomeOwner'
<1>1. tls[k] = e /\ ~ Granted(k, e) /\ \A j \in Klts : j # k => ~ Owns(j, e)
  BY SMT DEF IInv, OneOwner, Owns, Drives
<1>2. ~ Drives(k, e)' /\ Granted(s, e)' /\ ~ Drives(s, e)'
  BY <1>1, WakeNextEffect, SMT DEF Woke, IInv, TypeOK, KltShape, Drives,
     Granted, Held, Owns
<1>3. \A j \in Klts, d \in Xstreams : d # e =>
        (Drives(j, d)' <=> Drives(j, d)) /\ (Granted(j, d)' <=> Granted(j, d))
  BY <1>1, WakeNextEffect, SMT DEF Woke, IInv, TypeOK, KltShape, Drives,
     Granted, Held, Owns
<1>4. \A j \in Klts : j # s => ~ Drives(j, e)' /\ ~ Granted(j, e)'
  BY <1>1, WakeNextEffect, SMT DEF Woke, IInv, TypeOK, KltShape, Drives,
     Granted, Held, Owns
<1>5. OneOwner'
  BY <1>2, <1>3, <1>4, SMT DEF IInv, OneOwner, Owns
<1>6. SomeOwner'
  BY <1>2, <1>3, SMT DEF IInv, SomeOwner, Owns
<1> QED BY <1>5, <1>6


(* The KLT that drives an ES is its only owner.                            *)
LEMMA DriverAlone ==
  ASSUME IInv, NEW k \in Klts, NEW e \in Xstreams, Drives(k, e)
  PROVE  /\ ~ Granted(k, e)
         /\ \A j \in Klts : j # k => ~ Drives(j, e) /\ ~ Granted(j, e) /\ ~ Owns(j, e)
BY SMT DEF IInv, OneOwner, Owns

(* What is known where a KLT executes a ULT, or the scheduler of an ES.    *)
LEMMA ExecutingThread ==
  ASSUME IInv, NEW k \in Klts, NEW t \in Threads, Executes(k, t)
  PROVE  /\ tls[k] \in Xstreams /\ Drives(k, tls[k]) /\ sleep_flag[k] = 0
         /\ stage[k] = "on" /\ ctx[k] = t
         /\ dispatched[tls[k]] = t /\ cur_thread[tls[k]] = t /\ p_last_xstream[t] = tls[k]
         /\ p_wakeup_thread[tls[k]] = None /\ p_cur_sub[tls[k]] = k
         /\ t \notin preempted /\ t \notin pool /\ state[t] # "TERMINATED"
         /\ btm[t] = "back" => k = Main[tls[k]]
         /\ \A d \in Xstreams : dispatched[d] = t => d = tls[k]
         /\ \A j \in Klts : ctx[j] = t => j = k
         /\ ~ Listed(k) /\ ~ Held(k) /\ \A j \in Klts : Target(j) # k
<1> USE ConstantsAssumption DEF Contexts, IInv, Executes
<1>1. /\ tls[k] \in Xstreams /\ sleep_flag[k] = 0 /\ Drives(k, tls[k]) /\ ~ Held(k)
      /\ dispatched[tls[k]] = t
  BY SMT DEF TypeOK, KltShape, Drives, Held, OnInv
<1>2. \A j \in Klts : ctx[j] = t => j = k
  BY ContextUnique, SMT DEF ContextOnOneKlt
<1>3. ~ Listed(k) /\ \A j \in Klts : Target(j) # k
  BY <1>1, SMT DEF ListInv, TargetInv
<1>4. /\ t \notin pool /\ state[t] # "TERMINATED"
      /\ \A d \in Xstreams : dispatched[d] = t => d = tls[k]
  BY <1>1, SMT DEF PoolInv
<1> QED
  BY <1>1, <1>2, <1>3, <1>4, SMT DEF OnInv

(* A KLT that executes the scheduler of an ES is driving that ES.          *)
LEMMA ExecutingScheduler ==
  ASSUME IInv, NEW k \in Klts, NEW e \in Xstreams, Executes(k, tls[k]), tls[k] = e
  PROVE  /\ Drives(k, e) /\ sleep_flag[k] = 0
         /\ stage[k] = "on" /\ ctx[k] = e
         /\ p_wakeup_thread[e] = None /\ p_cur_sub[e] = k /\ Returned(e)
         /\ \A j \in Klts : ctx[j] = e => j = k
         /\ ~ Listed(k) /\ ~ Held(k) /\ \A j \in Klts : Target(j) # k
<1> USE ConstantsAssumption DEF Contexts, IInv, Executes
<1>1. sleep_flag[k] = 0 /\ Drives(k, e) /\ ~ Held(k)
  BY SMT DEF TypeOK, KltShape, Drives, Held
<1>2. \A j \in Klts : ctx[j] = e => j = k
  BY ContextUnique, SMT DEF ContextOnOneKlt
<1>3. ~ Listed(k) /\ \A j \in Klts : Target(j) # k
  BY <1>1, SMT DEF ListInv, TargetInv
<1> QED
  BY <1>1, <1>2, <1>3, SMT DEF OnInv

(* The thread that an ES is leaving for belongs to that ES.                *)
LEMMA LeavingThread ==
  ASSUME IInv, NEW k \in Klts, Leaving(k)
  PROVE  /\ tls[k] \in Xstreams /\ Drives(k, tls[k])
         /\ p_wakeup_thread[tls[k]] \in {tls[k], Main[tls[k]], dispatched[tls[k]]}
         /\ p_wakeup_thread[tls[k]] \in Contexts
         /\ Target(k) = p_wakeup[p_wakeup_thread[tls[k]]]
         /\ p_wakeup_thread[tls[k]] \in Threads => dispatched[tls[k]] = p_wakeup_thread[tls[k]]
<1> USE ConstantsAssumption DEF Contexts, Mains, IInv
<1>1. tls[k] \in Xstreams /\ Drives(k, tls[k])
  BY SMT DEF TypeOK, Leaving, Drives
<1>2. ~ Preempting(k)
  BY SMT DEF Leaving, Preempting
<1> QED
  BY <1>1, <1>2, SMT DEF LeavingInv, LeavesFor, Target, TypeOK
(* The lists: a pop takes one held KLT off, an add puts one on.            *)
ListTypes ==
  /\ sub_list' \in [Xstreams -> SUBSET Subs] /\ global_list' \in SUBSET Subs
  /\ alloc_req' \in BOOLEAN
  /\ \A e \in Xstreams : sub_list'[e] \cap global_list' = {}
  /\ \A d, e \in Xstreams : d # e => sub_list'[d] \cap sub_list'[e] = {}

(* A pop takes one sleeping sub ES out of a list.                          *)
LEMMA ListPopEffect ==
  ASSUME IInv, NEW e \in Xstreams, NEW s \in Subs, ListPop(e, s)
  PROVE  /\ ListTypes
         /\ Listed(s) /\ ~ Listed(s)'
         /\ \A j \in Klts : j # s => (Listed(j)' <=> Listed(j))
         /\ ctx[s] = s /\ Held(s) /\ \A j \in Klts : Target(j) # s
<1> USE ConstantsAssumption DEF IInv, Subs
<1>1. CASE s \in sub_list[e] /\ sub_list' = [sub_list EXCEPT ![e] = @ \ {s}]
           /\ UNCHANGED <<global_list, alloc_req>>
  BY <1>1, SMT DEF TypeOK, ListInv, ListTypes, Listed, TargetInv
<1>2. CASE s \in global_list /\ global_list' = global_list \ {s}
           /\ UNCHANGED <<sub_list, alloc_req>>
  BY <1>2, SMT DEF TypeOK, ListInv, ListTypes, Listed, TargetInv
<1> QED
  BY <1>1, <1>2 DEF ListPop

(* A pop that fails leaves the lists as they are.                          *)
LEMMA ListPopFailsEffect ==
  ASSUME IInv, NEW e \in Xstreams, ListPopFails(e)
  PROVE  ListTypes /\ UNCHANGED <<sub_list, global_list>>
<1>1. alloc_req' \in BOOLEAN
  BY Zenon DEF ListPopFails
<1>2. UNCHANGED <<sub_list, global_list>>
  BY Zenon DEF ListPopFails
<1> QED
  BY <1>1, <1>2, SMT DEF IInv, TypeOK, ListTypes, ListInv

(* Adding a sub ES puts it in one list.                                    *)
LEMMA ListAddEffect ==
  ASSUME IInv, NEW e \in Xstreams, NEW k \in Subs, ListAdd(e, k), ~ Listed(k)
  PROVE  ListTypes /\ \A j \in Klts : Listed(j)' <=> Listed(j) \/ j = k
<1> USE ConstantsAssumption DEF IInv, Subs
<1>1. CASE sub_list' = [sub_list EXCEPT ![e] = @ \cup {k}] /\ UNCHANGED <<global_list, alloc_req>>
  BY <1>1, SMT DEF TypeOK, ListInv, ListTypes, Listed
<1>2. CASE global_list' = global_list \cup {k} /\ UNCHANGED <<sub_list, alloc_req>>
  BY <1>2, SMT DEF TypeOK, ListInv, ListTypes, Listed
<1> QED
  BY <1>1, <1>2 DEF ListAdd

-----------------------------------------------------------------------------
(* The initial state, and the steps.                                       *)

(* All sub KLTs are listed or not created and every main KLT drives its    *)
(* ES.                                                                     *)
LEMMA InitInv ==
  ASSUME Init
  PROVE  IInv
<1> USE ConstantsAssumption DEF Contexts, Mains, Subs
<1> DEFINE listed(k) == \E e \in Xstreams : k \in InitSubs[e]
           home(k) == CHOOSE e \in Xstreams : Main[e] = k
<1>1. /\ tls = [k \in Klts |-> IF k \in Mains THEN home(k) ELSE None]
      /\ ctx = [k \in Klts |-> IF k \in Mains THEN home(k) ELSE k]
      /\ stage = [k \in Klts |-> IF k \in Mains THEN "on"
                                 ELSE IF listed(k) THEN "wait" ELSE "unborn"]
      /\ sleep_flag = [k \in Klts |-> IF listed(k) THEN 1 ELSE 0]
      /\ ready = [k \in Klts |-> IF listed(k) THEN 1 ELSE 0]
  BY DEF Init
<1>2. ASSUME NEW k \in Mains
      PROVE  home(k) \in Xstreams /\ Main[home(k)] = k /\ ~ listed(k)
  <2>1. \E e \in Xstreams : Main[e] = k
    OBVIOUS
  <2> QED
    BY <2>1
<1>3. ASSUME NEW k \in Klts
      PROVE  \/ /\ k \in Mains /\ tls[k] \in Xstreams /\ Main[tls[k]] = k /\ ctx[k] = tls[k]
                /\ stage[k] = "on" /\ sleep_flag[k] = 0 /\ ready[k] = 0 /\ ~ listed(k)
             \/ /\ k \in Subs /\ listed(k) /\ tls[k] = None /\ ctx[k] = k
                /\ stage[k] = "wait" /\ sleep_flag[k] = 1
             \/ /\ k \in Subs /\ ~ listed(k) /\ tls[k] = None /\ ctx[k] = k
                /\ stage[k] = "unborn" /\ sleep_flag[k] = 0
  <2> HIDE DEF listed, home
  <2>1. CASE k \in Mains
    BY <1>1, <1>2, <2>1
  <2>2. CASE k \notin Mains
    BY <1>1, <2>2
  <2> QED
    BY <2>1, <2>2
<1>4. /\ next_sub = [k \in Klts |-> None] /\ p_local = [k \in Klts |-> None]
      /\ p_return_thread = [k \in Klts |-> None]
      /\ p_wakeup_thread = [e \in Xstreams |-> None] /\ p_cur_sub = Main
      /\ cur_thread = [e \in Xstreams |-> e] /\ dispatched = [e \in Xstreams |-> None]
      /\ sub_list = InitSubs /\ global_list = {} /\ alloc_req = FALSE
      /\ pool = Threads /\ state = [t \in Threads |-> "READY"] /\ preempted = {}
      /\ p_wakeup = [u \in Contexts |-> None] /\ p_last_xstream = [t \in Threads |-> None]
      /\ request = {} /\ btm = [t \in Threads |-> "no"]
  BY DEF Init
<1>5. TypeOK
  <2>1. ready \in [Klts -> {0, 1}] /\ sleep_flag \in [Klts -> {0, 1}]
    BY <1>1
  <2>2. /\ tls \in [Klts -> Xstreams \cup {None}] /\ ctx \in [Klts -> Contexts]
        /\ stage \in [Klts -> Stages]
    BY <1>1, <1>2 DEF Stages
  <2>3. alloc_req \in BOOLEAN
    BY <1>4, Zenon
  <2> QED
    BY <1>4, <2>1, <2>2, <2>3, SMT DEF TypeOK
<1>6. \A k \in Klts : Listed(k) <=> listed(k)
  BY <1>4 DEF Listed
<1>7. \A k \in Klts : ~ Preempting(k) /\ ~ Leaving(k) /\ Target(k) = None
  BY <1>3, SMT DEF Preempting, Leaving, Target
<1>8. \A k \in Klts, e \in Xstreams :
        ~ Granted(k, e) /\ (Drives(k, e) <=> k \in Mains /\ tls[k] = e)
  BY <1>3, <1>4, SMT DEF Granted, Drives
<1>9. KltShape
  BY <1>3, <1>4, SMT DEF KltShape
<1>10. OneOwner
  BY <1>3, <1>8, SMT DEF OneOwner, Owns
<1>11. SomeOwner
  <2> SUFFICES ASSUME NEW e \in Xstreams
               PROVE  \E k \in Klts : Owns(k, e)
    BY DEF SomeOwner
  <2>1. Main[e] \in Klts /\ Main[e] \in Mains
    OBVIOUS
  <2>2. tls[Main[e]] = e
    BY <1>3, <2>1
  <2> QED
    BY <1>8, <2>1, <2>2 DEF Owns
<1>12. OnInv
  BY <1>3, <1>4, SMT DEF OnInv, Returned
<1>13. PreemptingInv /\ LeavingInv /\ TargetInv
  BY <1>7 DEF PreemptingInv, LeavingInv, TargetInv
<1>14. GrantedInv
  BY <1>8 DEF GrantedInv
<1>15. PreemptedInv /\ PoolInv
  BY <1>3, <1>4, SMT DEF PreemptedInv, PoolInv
<1>16. ListInv
  <2>1. \A k \in Klts : Listed(k) => ctx[k] = k /\ Held(k)
    BY <1>3, <1>6, SMT DEF Held
  <2> QED
    BY <1>4, <2>1 DEF ListInv
<1>17. ReadyInv
  BY <1>3, SMT DEF ReadyInv
<1> QED
  BY <1>5, <1>9, <1>10, <1>11, <1>12, <1>13, <1>14, <1>15, <1>16, <1>17 DEF
     IInv

(* IInv reads nothing but the variables.                                   *)
LEMMA StutterStep ==
  ASSUME IInv, UNCHANGED vars
  PROVE  IInv'
<1> USE DEF IInv, vars, kltVars, futexVars, mainVars, esVars, listVars,
       threadVars
<1>1. TypeOK' /\ KltShape'
  BY DEF TypeOK, KltShape
<1>2. OneOwner' /\ SomeOwner'
  BY DEF OneOwner, SomeOwner, Owns, Drives, Granted
<1>3. OnInv' /\ PreemptingInv'
  BY DEF OnInv, PreemptingInv, Returned, Preempting
<1>4. LeavingInv'
  BY DEF LeavingInv, Leaving, LeavesFor, Target, Preempting
<1>5. GrantedInv'
  BY DEF GrantedInv, Granted, Returned
<1>6. TargetInv'
  BY DEF TargetInv, Target, Preempting, Leaving, Held, Listed
<1>7. PreemptedInv' /\ PoolInv'
  BY DEF PreemptedInv, PoolInv
<1>8. ListInv' /\ ReadyInv'
  BY DEF ListInv, ReadyInv, Listed, Held
<1> QED
  BY <1>1, <1>2, <1>3, <1>4, <1>5, <1>6, <1>7, <1>8

(* ABTD_futex_sleep stores the flag: nobody else looks at it yet.          *)
LEMMA ArmStep ==
  ASSUME IInv, NEW k \in Klts, Arm(k)
  PROVE  IInv'
<1> USE ConstantsAssumption DEF IInv, Contexts, Mains, Subs, Arm, mainVars,
       esVars, listVars, threadVars
<1>1. TypeOK'
  BY SMT DEF TypeOK, Stages
<1>2. KltShape'
  BY SMT DEF TypeOK, KltShape
<1>3. OneOwner'
  BY SMT DEF TypeOK, KltShape, OneOwner, Owns, Drives, Granted
<1>4. SomeOwner'
  <2> SUFFICES ASSUME NEW d \in Xstreams PROVE \E j \in Klts : Owns(j, d)'
    BY Zenon DEF SomeOwner
  <2>1. PICK j \in Klts : Owns(j, d)
    BY Zenon DEF SomeOwner
  <2> QED
    BY <2>1, SMT DEF TypeOK, KltShape, Owns, Drives, Granted, Held
<1>5. OnInv'
  BY SMT DEF TypeOK, KltShape, OnInv, Returned
<1>6. PreemptingInv'
  BY SMT DEF TypeOK, KltShape, PreemptingInv, Preempting
<1>7. LeavingInv'
  BY SMT DEF TypeOK, KltShape, LeavingInv, Leaving, LeavesFor, Target,
     Preempting
<1>8. GrantedInv'
  BY SMT DEF TypeOK, KltShape, GrantedInv, Granted, Returned
<1>9. TargetInv'
  BY SMT DEF TypeOK, KltShape, TargetInv, Target, Preempting, Leaving, Held,
     Listed
<1>10. PreemptedInv'
  BY SMT DEF TypeOK, KltShape, PreemptedInv
<1>11. PoolInv'
  BY SMT DEF TypeOK, PoolInv
<1>12. ListInv'
  BY SMT DEF TypeOK, KltShape, ListInv, Listed, Held
<1>13. ReadyInv'
  BY SMT DEF TypeOK, KltShape, ReadyInv, Held
<1> QED
  BY <1>1, <1>2, <1>3, <1>4, <1>5, <1>6, <1>7, <1>8, <1>9, <1>10, <1>11, <1>12,
     <1>13

(* FUTEX_WAIT blocks or returns at once, depending on the flag.            *)
LEMMA FutexWaitStep ==
  ASSUME IInv, NEW k \in Klts, FutexWait(k)
  PROVE  IInv'
<1> USE ConstantsAssumption DEF IInv, Contexts, Mains, Subs, FutexWait,
       futexVars, mainVars, esVars, listVars, threadVars
<1>1. TypeOK'
  BY SMT DEF TypeOK, Stages
<1>2. KltShape'
  BY SMT DEF TypeOK, KltShape
<1>3. OneOwner'
  BY SMT DEF TypeOK, KltShape, OneOwner, Owns, Drives, Granted
<1>4. SomeOwner'
  <2> SUFFICES ASSUME NEW d \in Xstreams PROVE \E j \in Klts : Owns(j, d)'
    BY Zenon DEF SomeOwner
  <2>1. PICK j \in Klts : Owns(j, d)
    BY Zenon DEF SomeOwner
  <2> QED
    BY <2>1, SMT DEF TypeOK, KltShape, Owns, Drives, Granted, Held
<1>5. OnInv'
  BY SMT DEF TypeOK, KltShape, OnInv, Returned
<1>6. PreemptingInv'
  BY SMT DEF TypeOK, KltShape, PreemptingInv, Preempting
<1>7. LeavingInv'
  BY SMT DEF TypeOK, KltShape, LeavingInv, Leaving, LeavesFor, Target,
     Preempting
<1>8. GrantedInv'
  BY SMT DEF TypeOK, KltShape, GrantedInv, Granted, Returned
<1>9. TargetInv'
  BY SMT DEF TypeOK, KltShape, TargetInv, Target, Preempting, Leaving, Held,
     Listed
<1>10. PreemptedInv'
  BY SMT DEF TypeOK, KltShape, PreemptedInv
<1>11. PoolInv'
  BY SMT DEF TypeOK, PoolInv
<1>12. ListInv'
  BY SMT DEF TypeOK, KltShape, ListInv, Listed, Held
<1>13. ReadyInv'
  BY SMT DEF TypeOK, KltShape, ReadyInv, Held
<1> QED
  BY <1>1, <1>2, <1>3, <1>4, <1>5, <1>6, <1>7, <1>8, <1>9, <1>10, <1>11, <1>12,
     <1>13

(* A new KLT enters the global list: it is held and nobody's target.       *)
LEMMA OnInitialSleepStep ==
  ASSUME IInv, NEW k \in Klts, OnInitialSleep(k)
  PROVE  IInv'
<1> USE ConstantsAssumption DEF IInv, Contexts, Mains, Subs, OnInitialSleep,
       futexVars, esVars, threadVars
<1>1. stage[k] = "callback" /\ ctx[k] = k /\ tls[k] = None /\ sleep_flag[k] = 1 /\ ~ Held(k)
  BY SMT DEF OnInitialSleep, KltShape, Held
<1>2. ~ Listed(k) /\ k \in Subs /\ ~ Leaving(k) /\ ~ Preempting(k) /\ \A j \in Klts : Target(j) # k
  BY <1>1, SMT DEF ListInv, TargetInv, KltShape, Leaving, Preempting
<1>3. TypeOK'
  BY <1>1, <1>2, SMT DEF TypeOK, Stages
<1>4. KltShape'
  BY <1>1, <1>2, SMT DEF TypeOK, KltShape
<1>5. OneOwner'
  BY <1>1, <1>2, SMT DEF TypeOK, KltShape, OneOwner, Owns, Drives, Granted
<1>6. SomeOwner'
  <2> SUFFICES ASSUME NEW d \in Xstreams PROVE \E j \in Klts : Owns(j, d)'
    BY Zenon DEF SomeOwner
  <2>1. PICK j \in Klts : Owns(j, d)
    BY Zenon DEF SomeOwner
  <2> QED
    BY <2>1, <1>1, <1>2, SMT DEF TypeOK, KltShape, Owns, Drives, Granted, Held
<1>7. OnInv'
  BY <1>1, <1>2, SMT DEF TypeOK, KltShape, OnInv, Returned
<1>8. PreemptingInv'
  BY <1>1, <1>2, SMT DEF TypeOK, KltShape, PreemptingInv, Preempting
<1>9. LeavingInv'
  BY <1>1, <1>2, SMT DEF TypeOK, KltShape, LeavingInv, Leaving, LeavesFor,
     Target, Preempting
<1>10. GrantedInv'
  BY <1>1, <1>2, SMT DEF TypeOK, KltShape, GrantedInv, Granted, Returned
<1>11. TargetInv'
  BY <1>1, <1>2, SMT DEF TypeOK, KltShape, TargetInv, Target, Preempting,
     Leaving, Held, Listed
<1>12. PreemptedInv'
  BY <1>1, <1>2, SMT DEF TypeOK, KltShape, PreemptedInv
<1>13. PoolInv'
  BY <1>1, <1>2, SMT DEF TypeOK, PoolInv
<1>14. ListInv'
  <2>1. \A j \in Klts : Held(j) => Held(j)'
    BY <1>1, SMT DEF TypeOK, Held
  <2>2. \A j \in Klts : Listed(j)' => Listed(j) \/ j = k
    BY SMT DEF Listed
  <2>3. Held(k)'
    BY <1>1, SMT DEF TypeOK, Held
  <2> QED
    BY <1>1, <1>2, <2>1, <2>2, <2>3, SMT DEF ListInv, Listed, TypeOK
<1>15. ReadyInv'
  BY <1>1, <1>2, SMT DEF TypeOK, KltShape, ReadyInv, Held
<1> QED
  BY <1>3, <1>4, <1>5, <1>6, <1>7, <1>8, <1>9, <1>10, <1>11, <1>12, <1>13,
     <1>14, <1>15

(* The signal handler passes its ES to the KLT popped before; the ULT      *)
(* stays.                                                                  *)
LEMMA PreemptOnSleepStep ==
  ASSUME IInv, NEW k \in Klts, PreemptOnSleep(k)
  PROVE  IInv'
<1> USE ConstantsAssumption DEF IInv, Contexts, Mains, Subs, listVars
<1>1. PICK e \in Xstreams, t \in Threads, s \in Subs :
        /\ e = tls[k] /\ t = ctx[k] /\ s = next_sub[k]
        /\ cur_thread[e] = t /\ dispatched[e] = t /\ p_wakeup_thread[e] = None
        /\ t \notin preempted /\ btm[t] = "no" /\ ctx[s] = s
  BY SMT DEF PreemptOnSleep, TypeOK, KltShape, PreemptingInv, Preempting
<1>2. /\ stage[k] = "callback" /\ sleep_flag[k] = 1 /\ Preempting(k) /\ Drives(k, e)
      /\ Target(k) = s
  BY <1>1, SMT DEF PreemptOnSleep, KltShape, Preempting, Drives, Target
<1>3. s # k /\ Held(s) /\ ~ Listed(s) /\ \A j \in Klts : Target(j) = s => j = k
  BY <1>2, SMT DEF TargetInv
<1>4. /\ WakeNext(k, s)
      /\ preempted' = preempted \cup {t}
      /\ p_wakeup' = [p_wakeup EXCEPT ![t] = k]
      /\ state' = [state EXCEPT ![t] = "READY"]
      /\ next_sub' = [next_sub EXCEPT ![k] = None]
      /\ UNCHANGED <<tls, ctx, ready, p_return_thread, p_wakeup_thread, p_cur_sub, cur_thread,
                     dispatched, listVars, pool, p_last_xstream, request, btm>>
  BY <1>1, Zenon DEF PreemptOnSleep, mainVars, esVars
<1>5. \A j \in Klts : j # k => ~ Drives(j, e) /\ ~ Granted(j, e)
  BY <1>2, DriverAlone
<1>6. Woke(k, s)
  BY <1>1, <1>2, <1>3, <1>4, WakeNextEffect
<1>7. /\ \A j \in Klts : j # s /\ Held(j) => Held(j)'
      /\ \A j \in Klts : Listed(j)' <=> Listed(j)
      /\ \A j \in Klts : j # k => (Preempting(j)' <=> Preempting(j)) /\ (Leaving(j)' <=> Leaving(j))
      /\ ~ Preempting(k)' /\ ~ Leaving(k)'
  BY <1>1, <1>2, <1>3, <1>4, <1>6, SMT DEF Woke, Held, Listed, Preempting,
     Leaving, TypeOK
<1>8. ASSUME NEW j \in Klts, j # k, stage[j] = "on" \/ Leaving(j) \/ Preempting(j)
      PROVE  tls[j] \in Xstreams /\ tls[j] # e
  BY <1>5, <1>8, SMT DEF TypeOK, KltShape, Drives, Leaving, Preempting
<1>9. ASSUME NEW j \in Klts, j # k
      PROVE  Target(j)' = Target(j)
  <2>1. CASE Preempting(j)
    BY <2>1, <1>4, <1>7, <1>9, SMT DEF TypeOK, Target
  <2>2. CASE Leaving(j) /\ ~ Preempting(j)
    <3>1. /\ tls[j] \in Xstreams /\ tls[j] # e
          /\ p_wakeup_thread[tls[j]] \in Contexts
          /\ p_wakeup_thread[tls[j]] = t => dispatched[tls[j]] = t
      BY <2>2, <1>8, <1>9, LeavingThread
    <3>2. p_wakeup_thread[tls[j]] # t
      BY <3>1, <1>1, SMT DEF PoolInv
    <3>3. p_wakeup'[p_wakeup_thread[tls[j]]] = p_wakeup[p_wakeup_thread[tls[j]]]
      BY <3>1, <3>2, <1>4, SMT DEF TypeOK
    <3> QED
      BY <2>2, <3>3, <1>4, <1>7, <1>9, SMT DEF Target
  <2>3. CASE ~ Leaving(j) /\ ~ Preempting(j)
    BY <2>3, <1>7, <1>9, SMT DEF Target
  <2> QED
    BY <2>1, <2>2, <2>3
<1>10. /\ \A d \in Xstreams : dispatched[d] = t => d = e
       /\ t \notin pool /\ state[t] # "TERMINATED" /\ ~ Listed(k)
  BY <1>1, <1>2, SMT DEF PoolInv, ListInv, Held
<1>11. \A j \in Klts : ctx[j] = t => j = k
  BY <1>1, ContextUnique DEF ContextOnOneKlt
<1>12. TypeOK'
  <2>1. state' \in [Threads -> {"READY", "RUNNING", "TERMINATED"}]
    BY <1>4, SMT DEF TypeOK
  <2>2. p_wakeup' \in [Contexts -> Klts \cup {None}]
    BY <1>4, SMT DEF TypeOK
  <2>3. next_sub' \in [Klts -> Klts \cup {None}] /\ preempted' \in SUBSET Threads
    BY <1>4, SMT DEF TypeOK
  <2> QED
    BY <1>4, <1>6, <2>1, <2>2, <2>3, SMT DEF TypeOK, Woke
<1>13. KltShape'
  BY <1>1, <1>2, <1>3, <1>4, <1>6, SMT DEF TypeOK, KltShape, Held, Woke
<1>14. OneOwner'
  BY <1>1, <1>2, <1>3, <1>4, WakeNextOwners
<1>15. SomeOwner'
  BY <1>1, <1>2, <1>3, <1>4, WakeNextOwners
<1>16. OnInv'
  <2> SUFFICES ASSUME NEW j \in Klts, stage'[j] = "on"
               PROVE  (/\ p_cur_sub[tls[j]] = j
                       /\ p_wakeup_thread[tls[j]] = None
                       /\ ctx[j] = tls[j] => Returned(tls[j])
                       /\ ctx[j] \in Threads =>
                            /\ dispatched[tls[j]] = ctx[j] /\ cur_thread[tls[j]] = ctx[j]
                            /\ p_last_xstream[ctx[j]] = tls[j] /\ ctx[j] \notin preempted
                            /\ btm[ctx[j]] = "back" => j = Main[tls[j]])'
    BY DEF OnInv
  <2>1. j # k /\ j # s
    BY <1>3, <1>6, SMT DEF Woke, Held
  <2>2. stage[j] = "on" /\ ctx[j] # t
    BY <1>6, <1>11, <2>1, SMT DEF Woke
  <2> QED
    BY <1>4, <2>2, SMT DEF OnInv, Returned
<1>17. PreemptingInv'
  BY <1>1, <1>4, <1>7, <1>8, <1>11, SMT DEF TypeOK, KltShape, PreemptingInv,
     Preempting
<1>18. LeavingInv'
  <2> SUFFICES ASSUME NEW j \in Klts, Leaving(j), j # k
               PROVE  (/\ p_wakeup_thread[tls[j]] # None
                       /\ Target(j) \in Klts
                       /\ LeavesFor(j, tls[j], p_wakeup_thread[tls[j]], Target(j)))'
    BY <1>7 DEF LeavingInv
  <2>1. tls[j] \in Xstreams /\ tls[j] # e
    BY <1>8
  <2>2. /\ p_wakeup_thread[tls[j]] # None /\ Target(j) \in Klts
        /\ LeavesFor(j, tls[j], p_wakeup_thread[tls[j]], Target(j))
    BY SMT DEF LeavingInv
  <2>3. dispatched[tls[j]] # t
    BY <1>10, <2>1
  <2> QED
    BY <1>1, <1>4, <1>9, <2>1, <2>2, <2>3, SMT DEF LeavesFor
<1>19. GrantedInv'
  BY <1>1, <1>2, <1>3, <1>4, <1>5, <1>6, <1>10, <1>11, SMT DEF TypeOK,
     KltShape, GrantedInv, Granted, Returned, Woke, Held
<1>20. TargetInv'
  BY <1>1, <1>2, <1>3, <1>7, <1>9, SMT DEF TargetInv, Target
<1>21. PreemptedInv'
  <2>1. ASSUME NEW j \in Klts, ctx'[j] \in Threads, stage'[j] \notin {"on", "arm", "callback"}
        PROVE  ctx'[j] \in preempted' /\ p_wakeup'[ctx'[j]] = j
    <3>1. CASE j = k
      BY <3>1, <1>1, <1>4, SMT DEF TypeOK
    <3>2. CASE j # k
      <4>1. j # s /\ ctx[j] # t /\ ctx[j] \in Threads
        BY <3>2, <2>1, <1>1, <1>4, <1>11, SMT
      <4>2. stage'[j] = stage[j]
        BY <3>2, <4>1, <1>6, SMT DEF Woke
      <4>3. ctx[j] \in preempted /\ p_wakeup[ctx[j]] = j
        BY <4>1, <4>2, <2>1, SMT DEF PreemptedInv
      <4> QED
        BY <4>1, <4>3, <1>4, SMT DEF TypeOK
    <3> QED
      BY <3>1, <3>2
  <2>2. ASSUME NEW v \in preempted'
        PROVE  /\ p_wakeup'[v] \in Klts /\ ctx'[p_wakeup'[v]] = v
               /\ stage'[p_wakeup'[v]] \in {"wait", "asleep", "woken"}
               /\ btm'[v] = "no"
    <3>1. CASE v = t
      BY <3>1, <1>1, <1>4, <1>6, SMT DEF TypeOK, Woke
    <3>2. CASE v # t
      <4>1. v \in preempted /\ v \in Threads /\ p_wakeup'[v] = p_wakeup[v]
        BY <3>2, <1>4, SMT DEF TypeOK
      <4>2. /\ p_wakeup[v] \in Klts /\ ctx[p_wakeup[v]] = v /\ btm[v] = "no"
            /\ stage[p_wakeup[v]] \in {"wait", "asleep", "woken"}
        BY <4>1 DEF PreemptedInv
      <4>3. p_wakeup[v] # k /\ p_wakeup[v] # s
        BY <3>2, <4>1, <4>2, <1>1, SMT
      <4> QED
        BY <4>1, <4>2, <4>3, <1>4, <1>6, SMT DEF Woke
    <3> QED
      BY <3>1, <3>2
  <2> QED
    BY <2>1, <2>2 DEF PreemptedInv
<1>22. PoolInv'
  BY <1>4, <1>10, SMT DEF TypeOK, PoolInv
<1>23. ListInv'
  BY <1>3, <1>4, <1>7, SMT DEF ListInv
<1>24. ReadyInv'
  BY <1>1, <1>2, <1>3, <1>4, <1>6, <1>7, SMT DEF TypeOK, KltShape, ReadyInv,
     Held, LeavesFor
<1> QED
  BY <1>12, <1>13, <1>14, <1>15, <1>16, <1>17, <1>18, <1>19, <1>20, <1>21,
     <1>22, <1>23, <1>24

(* A KLT lists itself although it has still to wake the next one.          *)
LEMMA OnSleepAddSelfStep ==
  ASSUME IInv, NEW k \in Klts, OnSleepAddSelf(k)
  PROVE  IInv'
<1> USE ConstantsAssumption DEF IInv, Contexts, Mains, Subs, futexVars,
       mainVars, esVars, threadVars
<1>1. /\ stage[k] = "callback" /\ ctx[k] = k /\ k \in Subs /\ tls[k] \in Xstreams
      /\ sleep_flag[k] = 1 /\ ~ Held(k)
  BY SMT DEF OnSleepAddSelf, KltShape, Held, TypeOK
<1>2. ~ Listed(k) /\ Leaving(k) /\ ~ Preempting(k) /\ \A j \in Klts : Target(j) # k
  BY <1>1, SMT DEF ListInv, TargetInv, Leaving, Preempting
<1>3. /\ stage' = [stage EXCEPT ![k] = "handoff"]
      /\ UNCHANGED <<tls, ctx, next_sub, futexVars, mainVars, esVars, threadVars>>
      /\ ListAdd(tls[k], k)
  BY DEF OnSleepAddSelf
<1>4. ListTypes /\ \A j \in Klts : Listed(j)' <=> Listed(j) \/ j = k
  BY <1>1, <1>2, <1>3, ListAddEffect
<1>5. Held(k)' /\ \A j \in Klts : Held(j) => Held(j)'
  BY <1>1, <1>3, SMT DEF TypeOK, Held
<1>6. Target(k) # k /\ \A j \in Klts : Target(j)' = Target(j)
  BY <1>1, <1>2, <1>3, SMT DEF TypeOK, Target, Preempting, Leaving
<1>7. TypeOK'
  BY <1>1, <1>3, <1>4, SMT DEF TypeOK, Stages, ListTypes
<1>8. KltShape'
  BY <1>1, <1>2, <1>3, SMT DEF TypeOK, KltShape
<1>9. OneOwner'
  BY <1>1, <1>2, <1>3, SMT DEF TypeOK, KltShape, OneOwner, Owns, Drives,
     Granted
<1>10. SomeOwner'
  <2> SUFFICES ASSUME NEW d \in Xstreams PROVE \E j \in Klts : Owns(j, d)'
    BY Zenon DEF SomeOwner
  <2>1. PICK j \in Klts : Owns(j, d)
    BY Zenon DEF SomeOwner
  <2> QED
    BY <2>1, <1>1, <1>2, <1>3, SMT DEF TypeOK, KltShape, Owns, Drives, Granted,
       Held
<1>11. OnInv'
  BY <1>1, <1>2, <1>3, SMT DEF TypeOK, KltShape, OnInv, Returned
<1>12. PreemptingInv'
  BY <1>1, <1>2, <1>3, SMT DEF TypeOK, KltShape, PreemptingInv, Preempting
<1>13. LeavingInv'
  BY <1>1, <1>2, <1>3, SMT DEF TypeOK, KltShape, LeavingInv, Leaving,
     LeavesFor, Target, Preempting
<1>14. GrantedInv'
  BY <1>1, <1>2, <1>3, SMT DEF TypeOK, KltShape, GrantedInv, Granted, Returned
<1>15. TargetInv'
  BY <1>2, <1>4, <1>5, <1>6, SMT DEF TargetInv
<1>16. PreemptedInv'
  BY <1>1, <1>2, <1>3, SMT DEF TypeOK, KltShape, PreemptedInv
<1>17. PoolInv'
  BY <1>1, <1>2, <1>3, SMT DEF TypeOK, PoolInv
<1>18. ListInv'
  BY <1>1, <1>3, <1>4, <1>5, SMT DEF ListInv, ListTypes
<1>19. ReadyInv'
  BY <1>1, <1>2, <1>3, SMT DEF TypeOK, KltShape, ReadyInv, Held
<1> QED
  BY <1>7, <1>8, <1>9, <1>10, <1>11, <1>12, <1>13, <1>14, <1>15, <1>16, <1>17,
     <1>18, <1>19

(* A main KLT announces that it can be given its ES back.                  *)
LEMMA TrampolineOnSleepStep ==
  ASSUME IInv, NEW k \in Klts, TrampolineOnSleep(k)
  PROVE  IInv'
<1> USE ConstantsAssumption DEF IInv, Contexts, Mains, Subs, TrampolineOnSleep,
       futexVars, esVars, listVars, threadVars
<1>1. /\ stage[k] = "callback" /\ ctx[k] = k /\ k \in Mains /\ sleep_flag[k] = 1 /\ ~ Held(k)
      /\ tls[k] \in Xstreams
  BY SMT DEF TrampolineOnSleep, KltShape, Held, TypeOK
<1>2. ~ Listed(k) /\ Leaving(k) /\ \A j \in Klts : Target(j) # k
  BY <1>1, SMT DEF ListInv, TargetInv, Leaving, TypeOK
<1>3. TypeOK'
  BY <1>1, <1>2, SMT DEF TypeOK, Stages
<1>4. KltShape'
  BY <1>1, <1>2, SMT DEF TypeOK, KltShape
<1>5. OneOwner'
  BY <1>1, <1>2, SMT DEF TypeOK, KltShape, OneOwner, Owns, Drives, Granted
<1>6. SomeOwner'
  <2> SUFFICES ASSUME NEW d \in Xstreams PROVE \E j \in Klts : Owns(j, d)'
    BY Zenon DEF SomeOwner
  <2>1. PICK j \in Klts : Owns(j, d)
    BY Zenon DEF SomeOwner
  <2> QED
    BY <2>1, <1>1, <1>2, SMT DEF TypeOK, KltShape, Owns, Drives, Granted, Held
<1>7. OnInv'
  BY <1>1, <1>2, SMT DEF TypeOK, KltShape, OnInv, Returned
<1>8. PreemptingInv'
  BY <1>1, <1>2, SMT DEF TypeOK, KltShape, PreemptingInv, Preempting
<1>9. LeavingInv'
  BY <1>1, <1>2, SMT DEF TypeOK, KltShape, LeavingInv, Leaving, LeavesFor,
     Target, Preempting
<1>10. GrantedInv'
  BY <1>1, <1>2, SMT DEF TypeOK, KltShape, GrantedInv, Granted, Returned
<1>11. TargetInv'
  BY <1>1, <1>2, SMT DEF TypeOK, KltShape, TargetInv, Target, Preempting,
     Leaving, Held, Listed
<1>12. PreemptedInv'
  BY <1>1, <1>2, SMT DEF TypeOK, KltShape, PreemptedInv
<1>13. PoolInv'
  BY <1>1, <1>2, SMT DEF TypeOK, PoolInv
<1>14. ListInv'
  BY <1>1, <1>2, SMT DEF TypeOK, KltShape, ListInv, Listed, Held
<1>15. ReadyInv'
  BY <1>1, <1>2, SMT DEF TypeOK, KltShape, ReadyInv, Held
<1> QED
  BY <1>3, <1>4, <1>5, <1>6, <1>7, <1>8, <1>9, <1>10, <1>11, <1>12, <1>13,
     <1>14, <1>15

(* The sleep callback passes the ES to the KLT of the next thread.         *)
LEMMA HandoffStep ==
  ASSUME IInv, NEW k \in Klts, Handoff(k)
  PROVE  IInv'
<1> USE ConstantsAssumption DEF IInv, Contexts, Mains, Subs, listVars
<1>1. PICK e \in Xstreams, s \in Klts, u \in Contexts :
        /\ e = tls[k] /\ s = Target(k) /\ u = p_wakeup_thread[e] /\ s = p_wakeup[u]
        /\ u # None /\ LeavesFor(k, e, u, s)
  <2>1. Leaving(k) /\ tls[k] \in Xstreams
    BY SMT DEF Handoff, TypeOK, KltShape, Leaving
  <2> QED
    BY <2>1, LeavingThread DEF LeavingInv
<1>2. stage[k] = "handoff" /\ ctx[k] = k /\ Drives(k, e) /\ ~ Preempting(k) /\ Leaving(k)
  BY <1>1, SMT DEF Handoff, KltShape, Preempting, Drives, Leaving
<1>3. s # k /\ Held(s) /\ ~ Listed(s) /\ \A j \in Klts : Target(j) = s => j = k
  <2>1. s \in Klts /\ s = Target(k)
    BY <1>1
  <2>2. Target(k) # k /\ Held(Target(k)) /\ ~ Listed(Target(k))
    BY <2>1 DEF TargetInv
  <2>3. \A j \in Klts : Target(j) = Target(k) => j = k
    BY <2>1 DEF TargetInv
  <2> QED
    BY <2>1, <2>2, <2>3
<1>4. /\ WakeNext(k, s)
      /\ p_wakeup_thread' = [p_wakeup_thread EXCEPT ![e] = None]
      /\ cur_thread' = [cur_thread EXCEPT ![e] = u]
      /\ UNCHANGED <<tls, ctx, next_sub, ready, p_return_thread, p_cur_sub, dispatched, listVars,
                     pool, state, preempted, p_wakeup, p_last_xstream, request, btm>>
  BY <1>1, Zenon DEF Handoff, TakeWakeupThread, mainVars, threadVars
<1>5. \A j \in Klts : j # k => ~ Drives(j, e) /\ ~ Granted(j, e)
  BY <1>2, DriverAlone
<1>6. Woke(k, s)
  BY <1>1, <1>2, <1>3, <1>4, WakeNextEffect
<1>7. /\ \A j \in Klts : j # s /\ Held(j) => Held(j)'
      /\ \A j \in Klts : Listed(j)' <=> Listed(j)
      /\ \A j \in Klts : j # k => (Preempting(j)' <=> Preempting(j)) /\ (Leaving(j)' <=> Leaving(j))
      /\ ~ Preempting(k)' /\ ~ Leaving(k)'
  BY <1>1, <1>2, <1>3, <1>4, <1>6, SMT DEF Woke, Held, Listed, Preempting,
     Leaving, TypeOK
<1>8. ASSUME NEW j \in Klts, j # k, stage[j] = "on" \/ Leaving(j) \/ Preempting(j)
      PROVE  tls[j] \in Xstreams /\ tls[j] # e
  BY <1>5, <1>8, SMT DEF TypeOK, KltShape, Drives, Leaving, Preempting
<1>9. ASSUME NEW j \in Klts, j # k
      PROVE  Target(j)' = Target(j)
  <2>1. CASE Preempting(j)
    BY <2>1, <1>4, <1>7, <1>9, SMT DEF TypeOK, Target
  <2>2. CASE Leaving(j) /\ ~ Preempting(j)
    <3>1. tls[j] \in Xstreams /\ tls[j] # e
      BY <2>2, <1>8, <1>9
    <3>2. p_wakeup_thread'[tls[j]] = p_wakeup_thread[tls[j]]
      BY <3>1, <1>4, SMT DEF TypeOK
    <3> QED
      BY <2>2, <3>2, <1>4, <1>7, <1>9, SMT DEF Target
  <2>3. CASE ~ Leaving(j) /\ ~ Preempting(j)
    BY <2>3, <1>7, <1>9, SMT DEF Target
  <2> QED
    BY <2>1, <2>2, <2>3
<1>10. \A d \in Xstreams : dispatched[d] = dispatched[e] /\ dispatched[d] # None => d = e
  BY SMT DEF PoolInv
<1>11. TypeOK'
  BY <1>1, <1>4, <1>6, SMT DEF TypeOK, Woke
<1>12. KltShape'
  BY <1>1, <1>2, <1>3, <1>4, <1>6, SMT DEF TypeOK, KltShape, Held, Woke
<1>13. OneOwner'
  BY <1>1, <1>2, <1>3, <1>4, WakeNextOwners
<1>14. SomeOwner'
  BY <1>1, <1>2, <1>3, <1>4, WakeNextOwners
<1>15. OnInv'
  BY <1>1, <1>2, <1>3, <1>4, <1>6, <1>8, SMT DEF TypeOK, KltShape, OnInv,
     Returned, Woke, Held
<1>16. PreemptingInv'
  BY <1>1, <1>4, <1>7, <1>8, SMT DEF TypeOK, KltShape, PreemptingInv,
     Preempting
<1>17. LeavingInv'
  <2> SUFFICES ASSUME NEW j \in Klts, Leaving(j), j # k
               PROVE  (/\ p_wakeup_thread[tls[j]] # None
                       /\ Target(j) \in Klts
                       /\ LeavesFor(j, tls[j], p_wakeup_thread[tls[j]], Target(j)))'
    BY <1>7 DEF LeavingInv
  <2>1. tls[j] \in Xstreams /\ tls[j] # e
    BY <1>8
  <2>2. /\ p_wakeup_thread[tls[j]] # None /\ Target(j) \in Klts
        /\ LeavesFor(j, tls[j], p_wakeup_thread[tls[j]], Target(j))
    BY SMT DEF LeavingInv
  <2>3. p_wakeup_thread'[tls[j]] = p_wakeup_thread[tls[j]]
    BY <1>4, <2>1, SMT DEF TypeOK
  <2> QED
    BY <1>4, <1>9, <2>1, <2>2, <2>3, SMT DEF LeavesFor
<1>18. GrantedInv'
  BY <1>1, <1>2, <1>3, <1>4, <1>5, <1>6, <1>10, SMT DEF TypeOK, KltShape,
     GrantedInv, Granted, Returned, Woke, Held, LeavesFor
<1>19. TargetInv'
  BY <1>1, <1>2, <1>3, <1>7, <1>9, SMT DEF TargetInv, Target
<1>20. PreemptedInv'
  <2>1. ASSUME NEW j \in Klts, ctx[j] \in Threads, stage'[j] \notin {"on", "arm", "callback"}
        PROVE  ctx[j] \in preempted /\ p_wakeup[ctx[j]] = j
    <3>1. j # k
      BY <1>2, <2>1
    <3>2. stage[j] \notin {"on", "arm", "callback"}
      BY <1>3, <1>6, <2>1, <3>1, SMT DEF Woke, Held
    <3> QED
      BY <2>1, <3>2 DEF PreemptedInv
  <2>2. ASSUME NEW v \in preempted
        PROVE  /\ p_wakeup[v] \in Klts /\ ctx[p_wakeup[v]] = v
               /\ stage'[p_wakeup[v]] \in {"wait", "asleep", "woken"}
               /\ btm[v] = "no"
    <3>1. /\ p_wakeup[v] \in Klts /\ ctx[p_wakeup[v]] = v /\ btm[v] = "no"
          /\ stage[p_wakeup[v]] \in {"wait", "asleep", "woken"}
      BY DEF PreemptedInv
    <3> QED
      BY <3>1, <1>2, <1>6, SMT DEF Woke
  <2> QED
    BY <1>4, <2>1, <2>2 DEF PreemptedInv
<1>21. PoolInv'
  BY <1>1, <1>4, SMT DEF TypeOK, PoolInv
<1>22. ListInv'
  BY <1>3, <1>4, <1>7, SMT DEF ListInv
<1>23. ReadyInv'
  BY <1>1, <1>2, <1>3, <1>4, <1>6, <1>7, SMT DEF TypeOK, KltShape, ReadyInv,
     Held, LeavesFor
<1> QED
  BY <1>11, <1>12, <1>13, <1>14, <1>15, <1>16, <1>17, <1>18, <1>19, <1>20,
     <1>21, <1>22, <1>23

(* The KLT of a preempted ULT takes over the ES that dispatched it.        *)
LEMMA ResumeThreadStep ==
  ASSUME IInv, NEW k \in Klts, ResumeThread(k)
  PROVE  IInv'
<1> USE ConstantsAssumption DEF IInv, Contexts, Mains, Subs, ResumeThread,
       futexVars, mainVars, listVars
<1>1. PICK e \in Xstreams : /\ e = p_local[k] /\ stage[k] = "woken"
                            /\ sleep_flag[k] = 0 /\ Granted(k, e)
  BY SMT DEF ResumeThread, Reload, TypeOK, KltShape, Granted
<1>2. /\ stage' = [stage EXCEPT ![k] = "on"] /\ tls' = [tls EXCEPT ![k] = e]
      /\ p_cur_sub' = [p_cur_sub EXCEPT ![e] = k]
  BY <1>1 DEF ResumeThread, Reload
<1>3. /\ \A j \in Klts : ~ Drives(j, e)
      /\ \A j \in Klts : j # k => ~ Granted(j, e)
      /\ \A d \in Xstreams : d # e => ~ Granted(k, d)
  BY <1>1, SMT DEF OneOwner, Owns, Granted
<1>4. ~ Held(k) /\ ~ Listed(k) /\ \A j \in Klts : Target(j) # k
  BY <1>1, SMT DEF Held, ListInv, TargetInv
<1>5. PICK t \in Threads :
        /\ t = ctx[k] /\ dispatched[e] = t /\ cur_thread[e] = t /\ p_last_xstream[t] = e
        /\ p_wakeup_thread[e] = None /\ t \in preempted /\ p_wakeup[t] = k /\ btm[t] = "no"
        /\ preempted' = preempted \ {t}
  BY <1>1, SMT DEF ResumeThread, GrantedInv, PreemptedInv
<1>6. /\ \A d \in Xstreams : dispatched[d] = t => d = e
      /\ \A j \in Klts : ctx[j] = t => j = k
  BY <1>5, ContextUnique, SMT DEF PoolInv, ContextOnOneKlt
<1>8. /\ ctx' = ctx
      /\ UNCHANGED <<p_wakeup, p_wakeup_thread, next_sub, futexVars, mainVars,
                     dispatched, listVars, btm, p_last_xstream>>
  BY Zenon DEF ResumeThread, threadVars
<1>11. /\ \A j \in Klts : Held(j)' <=> Held(j)
       /\ \A j \in Klts : Preempting(j)' <=> Preempting(j)
       /\ \A j \in Klts : Leaving(j)' <=> Leaving(j)
       /\ \A j \in Klts : Leaving(j) \/ Preempting(j) => j # k
  BY <1>1, <1>2, <1>5, <1>6, <1>8, SMT DEF TypeOK, Held, Preempting, Leaving
<1>12. \A j \in Klts : Target(j)' = Target(j)
  BY <1>1, <1>2, <1>5, <1>6, <1>8, <1>11, SMT DEF TypeOK, Target
<1>13. TypeOK'
  BY <1>1, <1>2, <1>3, <1>4, <1>5, <1>6, SMT DEF TypeOK, Stages
<1>14. KltShape'
  BY <1>1, <1>2, <1>3, <1>4, <1>5, <1>6, SMT DEF TypeOK, KltShape
<1>15. OneOwner'
  BY <1>1, <1>2, <1>3, <1>4, <1>5, <1>6, SMT DEF TypeOK, KltShape, OneOwner,
     Owns, Drives, Granted
<1>16. SomeOwner'
  <2> SUFFICES ASSUME NEW d \in Xstreams PROVE \E j \in Klts : Owns(j, d)'
    BY Zenon DEF SomeOwner
  <2>1. PICK j \in Klts : Owns(j, d)
    BY Zenon DEF SomeOwner
  <2> QED
    BY <2>1, <1>1, <1>2, <1>3, <1>4, <1>5, <1>6, SMT DEF TypeOK, KltShape,
       Owns, Drives, Granted, Held
<1>17. OnInv'
  BY <1>1, <1>2, <1>3, <1>4, <1>5, <1>6, SMT DEF TypeOK, KltShape, OnInv,
     Returned, Drives, Granted
<1>18. PreemptingInv'
  BY <1>1, <1>2, <1>3, <1>5, <1>6, <1>8, <1>11, SMT DEF TypeOK, KltShape,
     PreemptingInv, Preempting, Drives
<1>19. LeavingInv'
  <2> SUFFICES ASSUME NEW j \in Klts, Leaving(j)
               PROVE  (/\ p_wakeup_thread[tls[j]] # None
                       /\ Target(j) \in Klts
                       /\ LeavesFor(j, tls[j], p_wakeup_thread[tls[j]], Target(j)))'
    BY <1>11 DEF LeavingInv
  <2>1. tls[j] \in Xstreams /\ tls[j] # e /\ j # k
    BY <1>3, <1>11, LeavingThread
  <2>2. /\ p_wakeup_thread[tls[j]] # None /\ Target(j) \in Klts
        /\ LeavesFor(j, tls[j], p_wakeup_thread[tls[j]], Target(j))
    BY SMT DEF LeavingInv
  <2>3. tls'[j] = tls[j] /\ ctx'[Target(j)] = ctx[Target(j)]
    BY <1>1, <1>2, <1>5, <1>6, <1>8, <1>4, <2>1, <2>2, SMT DEF TypeOK
  <2> QED
    BY <1>5, <1>6, <1>8, <1>12, <2>1, <2>2, <2>3, SMT DEF LeavesFor
<1>20. GrantedInv'
  BY <1>1, <1>2, <1>3, <1>4, <1>5, <1>6, SMT DEF TypeOK, KltShape, GrantedInv,
     Granted, Returned, Drives
<1>21. TargetInv'
  BY <1>8, <1>11, <1>12, SMT DEF TargetInv, Listed, listVars
<1>22. PreemptedInv'
  BY <1>1, <1>2, <1>3, <1>4, <1>5, <1>6, SMT DEF TypeOK, KltShape, PreemptedInv
<1>23. PoolInv'
  BY <1>1, <1>2, <1>3, <1>4, <1>5, <1>6, SMT DEF TypeOK, PoolInv
<1>24. ListInv'
  BY <1>1, <1>2, <1>3, <1>4, <1>5, <1>6, SMT DEF TypeOK, KltShape, ListInv,
     Listed, Held
<1>25. ReadyInv'
  BY <1>1, <1>2, <1>3, <1>4, <1>5, <1>6, SMT DEF TypeOK, KltShape, ReadyInv,
     Held
<1> QED
  BY <1>13, <1>14, <1>15, <1>16, <1>17, <1>18, <1>19, <1>20, <1>21, <1>22,
     <1>23, <1>24, <1>25

(* A woken sub KLT goes on with the scheduler of the ES it was given.      *)
LEMMA ResumeBaseStep ==
  ASSUME IInv, NEW k \in Klts, ResumeBase(k)
  PROVE  IInv'
<1> USE ConstantsAssumption DEF IInv, Contexts, Mains, Subs, ResumeBase,
       futexVars, mainVars, listVars, threadVars
<1>1. PICK e \in Xstreams : /\ e = p_local[k] /\ stage[k] = "woken"
                            /\ sleep_flag[k] = 0 /\ Granted(k, e)
  BY SMT DEF ResumeBase, Reload, TypeOK, KltShape, Granted
<1>2. /\ stage' = [stage EXCEPT ![k] = "on"] /\ tls' = [tls EXCEPT ![k] = e]
      /\ p_cur_sub' = [p_cur_sub EXCEPT ![e] = k]
  BY <1>1 DEF ResumeBase, Reload
<1>3. /\ \A j \in Klts : ~ Drives(j, e)
      /\ \A j \in Klts : j # k => ~ Granted(j, e)
      /\ \A d \in Xstreams : d # e => ~ Granted(k, d)
  BY <1>1, SMT DEF OneOwner, Owns, Granted
<1>4. ~ Held(k) /\ ~ Listed(k) /\ \A j \in Klts : Target(j) # k
  BY <1>1, SMT DEF Held, ListInv, TargetInv
<1>5. ctx[k] = k /\ k \in Subs /\ p_wakeup_thread[e] = None /\ Returned(e)
  BY <1>1, SMT DEF ResumeBase, GrantedInv
<1>6. /\ ctx' = [ctx EXCEPT ![k] = e]
      /\ UNCHANGED <<p_wakeup_thread, cur_thread>>
  BY <1>1, <1>5, SMT DEF ResumeBase
<1>8. UNCHANGED <<p_wakeup, p_wakeup_thread, next_sub, futexVars, mainVars,
                  dispatched, listVars, btm, p_last_xstream, preempted>>
  BY <1>6 DEF ResumeBase, threadVars, esVars
<1>11. /\ \A j \in Klts : Held(j)' <=> Held(j)
       /\ \A j \in Klts : Preempting(j)' <=> Preempting(j)
       /\ \A j \in Klts : Leaving(j)' <=> Leaving(j)
       /\ \A j \in Klts : Leaving(j) \/ Preempting(j) => j # k
  BY <1>1, <1>2, <1>5, <1>6, <1>8, SMT DEF TypeOK, Held, Preempting, Leaving
<1>12. \A j \in Klts : Target(j)' = Target(j)
  BY <1>1, <1>2, <1>5, <1>6, <1>8, <1>11, SMT DEF TypeOK, Target
<1>13. TypeOK'
  BY <1>1, <1>2, <1>3, <1>4, <1>5, <1>6, SMT DEF TypeOK, Stages
<1>14. KltShape'
  BY <1>1, <1>2, <1>3, <1>4, <1>5, <1>6, SMT DEF TypeOK, KltShape
<1>15. OneOwner'
  BY <1>1, <1>2, <1>3, <1>4, <1>5, <1>6, SMT DEF TypeOK, KltShape, OneOwner,
     Owns, Drives, Granted
<1>16. SomeOwner'
  <2> SUFFICES ASSUME NEW d \in Xstreams PROVE \E j \in Klts : Owns(j, d)'
    BY Zenon DEF SomeOwner
  <2>1. PICK j \in Klts : Owns(j, d)
    BY Zenon DEF SomeOwner
  <2> QED
    BY <2>1, <1>1, <1>2, <1>3, <1>4, <1>5, <1>6, SMT DEF TypeOK, KltShape,
       Owns, Drives, Granted, Held
<1>17. OnInv'
  BY <1>1, <1>2, <1>3, <1>4, <1>5, <1>6, SMT DEF TypeOK, KltShape, OnInv,
     Returned, Drives, Granted
<1>18. PreemptingInv'
  <2> SUFFICES ASSUME NEW j \in Klts, Preempting(j)
               PROVE  (/\ p_wakeup_thread[tls[j]] = None
                       /\ dispatched[tls[j]] = ctx[j] /\ cur_thread[tls[j]] = ctx[j]
                       /\ ctx[j] \notin preempted /\ btm[ctx[j]] = "no"
                       /\ next_sub[j] \in Subs /\ ctx[next_sub[j]] = next_sub[j])'
    BY <1>11 DEF PreemptingInv
  <2>1. j # k /\ next_sub[j] # k
    BY <1>4, <1>11, SMT DEF Target
  <2>2. tls'[j] = tls[j] /\ ctx'[j] = ctx[j] /\ ctx'[next_sub[j]] = ctx[next_sub[j]]
    BY <1>2, <1>6, <2>1, SMT DEF TypeOK, PreemptingInv
  <2> QED
    BY <1>6, <1>8, <2>2, SMT DEF PreemptingInv
<1>19. LeavingInv'
  <2> SUFFICES ASSUME NEW j \in Klts, Leaving(j)
               PROVE  (/\ p_wakeup_thread[tls[j]] # None
                       /\ Target(j) \in Klts
                       /\ LeavesFor(j, tls[j], p_wakeup_thread[tls[j]], Target(j)))'
    BY <1>11 DEF LeavingInv
  <2>1. tls[j] \in Xstreams /\ tls[j] # e /\ j # k
    BY <1>3, <1>11, LeavingThread
  <2>2. /\ p_wakeup_thread[tls[j]] # None /\ Target(j) \in Klts
        /\ LeavesFor(j, tls[j], p_wakeup_thread[tls[j]], Target(j))
    BY SMT DEF LeavingInv
  <2>3. tls'[j] = tls[j] /\ ctx'[Target(j)] = ctx[Target(j)]
    BY <1>1, <1>2, <1>5, <1>6, <1>8, <1>4, <2>1, <2>2, SMT DEF TypeOK
  <2> QED
    BY <1>8, <1>12, <2>1, <2>2, <2>3, SMT DEF LeavesFor
<1>20. GrantedInv'
  BY <1>1, <1>2, <1>3, <1>4, <1>5, <1>6, SMT DEF TypeOK, KltShape, GrantedInv,
     Granted, Returned, Drives
<1>21. TargetInv'
  BY <1>8, <1>11, <1>12, SMT DEF TargetInv, Listed, listVars
<1>22. PreemptedInv'
  BY <1>1, <1>2, <1>3, <1>4, <1>5, <1>6, SMT DEF TypeOK, KltShape, PreemptedInv
<1>23. PoolInv'
  BY <1>1, <1>2, <1>3, <1>4, <1>5, <1>6, SMT DEF TypeOK, PoolInv
<1>24. ListInv'
  BY <1>1, <1>2, <1>3, <1>4, <1>5, <1>6, SMT DEF TypeOK, KltShape, ListInv,
     Listed, Held
<1>25. ReadyInv'
  BY <1>1, <1>2, <1>3, <1>4, <1>5, <1>6, SMT DEF TypeOK, KltShape, ReadyInv,
     Held
<1> QED
  BY <1>13, <1>14, <1>15, <1>16, <1>17, <1>18, <1>19, <1>20, <1>21, <1>22,
     <1>23, <1>24, <1>25

(* A woken main KLT goes on with the ULT in back_to_main.                  *)
LEMMA ResumeTrampolineStep ==
  ASSUME IInv, NEW k \in Klts, ResumeTrampoline(k)
  PROVE  IInv'
<1> USE ConstantsAssumption DEF IInv, Contexts, Mains, Subs, ResumeTrampoline,
       futexVars, mainVars, listVars, threadVars
<1>1. PICK e \in Xstreams : /\ e = p_local[k] /\ stage[k] = "woken"
                            /\ sleep_flag[k] = 0 /\ Granted(k, e)
  BY SMT DEF ResumeTrampoline, Reload, TypeOK, KltShape, Granted
<1>2. /\ stage' = [stage EXCEPT ![k] = "on"] /\ tls' = [tls EXCEPT ![k] = e]
      /\ p_cur_sub' = [p_cur_sub EXCEPT ![e] = k]
  BY <1>1 DEF ResumeTrampoline, Reload
<1>3. /\ \A j \in Klts : ~ Drives(j, e)
      /\ \A j \in Klts : j # k => ~ Granted(j, e)
      /\ \A d \in Xstreams : d # e => ~ Granted(k, d)
  BY <1>1, SMT DEF OneOwner, Owns, Granted
<1>4. ~ Held(k) /\ ~ Listed(k) /\ \A j \in Klts : Target(j) # k
  BY <1>1, SMT DEF Held, ListInv, TargetInv
<1>5. PICK t \in Threads :
        /\ dispatched[e] = t /\ p_return_thread[k] = t /\ p_last_xstream[t] = e
        /\ ctx[k] = k /\ k = Main[e] /\ ready[k] = 0 /\ p_wakeup_thread[e] = None
        /\ t \notin preempted
  BY <1>1, SMT DEF ResumeTrampoline, GrantedInv
<1>6. /\ ctx' = [ctx EXCEPT ![k] = t] /\ cur_thread' = [cur_thread EXCEPT ![e] = t]
  BY <1>1, <1>5, SMT DEF ResumeTrampoline
<1>7. \A d \in Xstreams : dispatched[d] = t => d = e
  BY <1>5, SMT DEF PoolInv
<1>8. UNCHANGED <<p_wakeup, p_wakeup_thread, next_sub, futexVars, mainVars,
                  dispatched, listVars, btm, p_last_xstream, preempted>>
  BY Zenon DEF ResumeTrampoline, threadVars, esVars
<1>11. /\ \A j \in Klts : Held(j)' <=> Held(j)
       /\ \A j \in Klts : Preempting(j)' <=> Preempting(j)
       /\ \A j \in Klts : Leaving(j)' <=> Leaving(j)
       /\ \A j \in Klts : Leaving(j) \/ Preempting(j) => j # k
  BY <1>1, <1>2, <1>5, <1>6, <1>8, SMT DEF TypeOK, Held, Preempting, Leaving
<1>12. ASSUME NEW j \in Klts
       PROVE  Target(j)' = Target(j)
  <2>1. CASE Leaving(j)
    <3>1. tls'[j] = tls[j]
      BY <1>2, <1>11, <2>1, SMT DEF TypeOK
    <3> QED
      BY <1>8, <1>11, <2>1, <3>1, SMT DEF Target
  <2>2. CASE ~ Leaving(j)
    BY <1>8, <1>11, <2>2, SMT DEF Target
  <2> QED
    BY <2>1, <2>2
<1>13. TypeOK'
  BY <1>1, <1>2, <1>3, <1>4, <1>5, <1>6, <1>7, SMT DEF TypeOK, Stages
<1>14. KltShape'
  BY <1>1, <1>2, <1>3, <1>4, <1>5, <1>6, <1>7, SMT DEF TypeOK, KltShape
<1>15. OneOwner'
  BY <1>1, <1>2, <1>3, <1>4, <1>5, <1>6, <1>7, SMT DEF TypeOK, KltShape,
     OneOwner, Owns, Drives, Granted
<1>16. SomeOwner'
  <2> SUFFICES ASSUME NEW d \in Xstreams PROVE \E j \in Klts : Owns(j, d)'
    BY Zenon DEF SomeOwner
  <2>1. PICK j \in Klts : Owns(j, d)
    BY Zenon DEF SomeOwner
  <2> QED
    BY <2>1, <1>1, <1>2, <1>3, <1>4, <1>5, <1>6, <1>7, SMT DEF TypeOK,
       KltShape, Owns, Drives, Granted, Held
<1>17. OnInv'
  BY <1>1, <1>2, <1>3, <1>4, <1>5, <1>6, <1>7, SMT DEF TypeOK, KltShape, OnInv,
     Returned, Drives, Granted
<1>18. PreemptingInv'
  BY <1>1, <1>2, <1>3, <1>5, <1>6, <1>8, <1>11, SMT DEF TypeOK, KltShape,
     PreemptingInv, Preempting, Drives
<1>19. LeavingInv'
  <2> SUFFICES ASSUME NEW j \in Klts, Leaving(j)
               PROVE  (/\ p_wakeup_thread[tls[j]] # None
                       /\ Target(j) \in Klts
                       /\ LeavesFor(j, tls[j], p_wakeup_thread[tls[j]], Target(j)))'
    BY <1>11 DEF LeavingInv
  <2>1. tls[j] \in Xstreams /\ tls[j] # e /\ j # k
    BY <1>3, <1>11, LeavingThread
  <2>2. /\ p_wakeup_thread[tls[j]] # None /\ Target(j) \in Klts
        /\ LeavesFor(j, tls[j], p_wakeup_thread[tls[j]], Target(j))
    BY SMT DEF LeavingInv
  <2>3. tls'[j] = tls[j] /\ ctx'[Target(j)] = ctx[Target(j)]
    BY <1>1, <1>2, <1>5, <1>6, <1>8, <1>4, <2>1, <2>2, SMT DEF TypeOK
  <2> QED
    BY <1>8, <1>12, <2>1, <2>2, <2>3, SMT DEF LeavesFor
<1>20. GrantedInv'
  BY <1>1, <1>2, <1>3, <1>4, <1>5, <1>6, <1>7, SMT DEF TypeOK, KltShape,
     GrantedInv, Granted, Returned, Drives
<1>21. TargetInv'
  BY <1>8, <1>11, <1>12, SMT DEF TargetInv, Listed, listVars
<1>22. PreemptedInv'
  BY <1>1, <1>2, <1>3, <1>4, <1>5, <1>6, <1>7, SMT DEF TypeOK, KltShape,
     PreemptedInv
<1>23. PoolInv'
  BY <1>1, <1>2, <1>3, <1>4, <1>5, <1>6, <1>7, SMT DEF TypeOK, PoolInv
<1>24. ListInv'
  BY <1>1, <1>2, <1>3, <1>4, <1>5, <1>6, <1>7, SMT DEF TypeOK, KltShape,
     ListInv, Listed, Held
<1>25. ReadyInv'
  BY <1>1, <1>2, <1>3, <1>4, <1>5, <1>6, <1>7, SMT DEF TypeOK, KltShape,
     ReadyInv, Held
<1> QED
  BY <1>13, <1>14, <1>15, <1>16, <1>17, <1>18, <1>19, <1>20, <1>21, <1>22,
     <1>23, <1>24, <1>25

(* A ULT that was not preempted starts on the KLT of the scheduler.        *)
LEMMA DispatchFreshStep ==
  ASSUME IInv, NEW k \in Klts, NEW t \in Threads, Dispatch(k, t), t \notin preempted
  PROVE  IInv'
<1> USE ConstantsAssumption DEF IInv, Contexts, Mains, Subs, futexVars,
       mainVars, listVars
<1>1. tls[k] \in Xstreams
  BY SMT DEF Dispatch, TypeOK, KltShape, Executes
<1>2. PICK e \in Xstreams :
        /\ e = tls[k] /\ Executes(k, e) /\ dispatched[e] = None /\ t \in pool
        /\ pool' = pool \ {t} /\ p_last_xstream' = [p_last_xstream EXCEPT ![t] = e]
        /\ state' = [state EXCEPT ![t] = "RUNNING"] /\ dispatched' = [dispatched EXCEPT ![e] = t]
        /\ UNCHANGED <<tls, next_sub, futexVars, mainVars, p_cur_sub, listVars,
                       preempted, p_wakeup, request, btm>>
  BY <1>1, Zenon DEF Dispatch
<1>3. /\ Drives(k, e) /\ sleep_flag[k] = 0 /\ stage[k] = "on" /\ ctx[k] = e
      /\ p_wakeup_thread[e] = None /\ p_cur_sub[e] = k
      /\ ~ Listed(k) /\ ~ Held(k) /\ \A j \in Klts : Target(j) # k
      /\ ~ Preempting(k) /\ ~ Leaving(k)
  BY <1>2, ExecutingScheduler DEF Executes, Preempting, Leaving
<1>4. \A j \in Klts : j # k => ~ Drives(j, e) /\ ~ Granted(j, e)
  BY <1>3, DriverAlone
<1>5. state[t] # "TERMINATED" /\ btm[t] # "back" /\ \A d \in Xstreams : dispatched[d] # t
  BY <1>2, SMT DEF PoolInv
<1>6. /\ t \notin preempted
      /\ ctx' = [ctx EXCEPT ![k] = t] /\ cur_thread' = [cur_thread EXCEPT ![e] = t]
      /\ UNCHANGED <<p_wakeup_thread, stage>>
  BY <1>2 DEF Dispatch
<1>7. TypeOK'
  BY <1>2, <1>3, <1>4, <1>5, <1>6, SMT DEF TypeOK
<1>8. KltShape'
  BY <1>2, <1>3, <1>4, <1>5, <1>6, SMT DEF TypeOK, KltShape
<1>9. OneOwner'
  BY <1>2, <1>3, <1>4, <1>5, <1>6, SMT DEF TypeOK, KltShape, OneOwner, Owns,
     Drives, Granted
<1>10. SomeOwner'
  <2> SUFFICES ASSUME NEW d \in Xstreams PROVE \E j \in Klts : Owns(j, d)'
    BY Zenon DEF SomeOwner
  <2>1. PICK j \in Klts : Owns(j, d)
    BY Zenon DEF SomeOwner
  <2> QED
    BY <2>1, <1>2, <1>3, <1>4, <1>5, <1>6, SMT DEF TypeOK, KltShape, Owns,
       Drives, Granted, Held
<1>11. OnInv'
  BY <1>2, <1>3, <1>4, <1>5, <1>6, SMT DEF TypeOK, KltShape, OnInv, Returned,
     Drives
<1>12. PreemptingInv'
  BY <1>2, <1>3, <1>4, <1>5, <1>6, SMT DEF TypeOK, KltShape, PreemptingInv,
     Preempting, Drives
<1>13. LeavingInv'
  BY <1>2, <1>3, <1>4, <1>5, <1>6, SMT DEF TypeOK, KltShape, LeavingInv,
     Leaving, LeavesFor, Target, Preempting, Drives
<1>14. GrantedInv'
  BY <1>2, <1>3, <1>4, <1>5, <1>6, SMT DEF TypeOK, KltShape, GrantedInv,
     Granted, Returned, Drives
<1>15. TargetInv'
  BY <1>2, <1>3, <1>4, <1>5, <1>6, SMT DEF TypeOK, KltShape, TargetInv, Target,
     Preempting, Leaving, Held, Listed
<1>16. PreemptedInv'
  BY <1>2, <1>3, <1>4, <1>5, <1>6, SMT DEF TypeOK, KltShape, PreemptedInv
<1>17. PoolInv'
  BY <1>2, <1>3, <1>4, <1>5, <1>6, SMT DEF TypeOK, PoolInv
<1>18. ListInv'
  BY <1>2, <1>3, <1>4, <1>5, <1>6, SMT DEF TypeOK, KltShape, ListInv, Listed,
     Held
<1>19. ReadyInv'
  BY <1>2, <1>3, <1>4, <1>5, <1>6, SMT DEF TypeOK, KltShape, ReadyInv, Held
<1> QED
  BY <1>7, <1>8, <1>9, <1>10, <1>11, <1>12, <1>13, <1>14, <1>15, <1>16, <1>17,
     <1>18, <1>19

(* A preempted ULT is left to its KLT, which is held for it.               *)
LEMMA DispatchPreemptedStep ==
  ASSUME IInv, NEW k \in Klts, NEW t \in Threads, Dispatch(k, t), t \in preempted
  PROVE  IInv'
<1> USE ConstantsAssumption DEF IInv, Contexts, Mains, Subs, futexVars,
       mainVars, listVars
<1>1. tls[k] \in Xstreams
  BY SMT DEF Dispatch, TypeOK, KltShape, Executes
<1>2. PICK e \in Xstreams :
        /\ e = tls[k] /\ Executes(k, e) /\ dispatched[e] = None /\ t \in pool
        /\ pool' = pool \ {t} /\ p_last_xstream' = [p_last_xstream EXCEPT ![t] = e]
        /\ state' = [state EXCEPT ![t] = "RUNNING"] /\ dispatched' = [dispatched EXCEPT ![e] = t]
        /\ UNCHANGED <<tls, next_sub, futexVars, mainVars, p_cur_sub, listVars,
                       preempted, p_wakeup, request, btm>>
  BY <1>1, Zenon DEF Dispatch
<1>3. /\ Drives(k, e) /\ sleep_flag[k] = 0 /\ stage[k] = "on" /\ ctx[k] = e
      /\ p_wakeup_thread[e] = None /\ p_cur_sub[e] = k
      /\ ~ Listed(k) /\ ~ Held(k) /\ \A j \in Klts : Target(j) # k
      /\ ~ Preempting(k) /\ ~ Leaving(k)
  BY <1>2, ExecutingScheduler DEF Executes, Preempting, Leaving
<1>4. \A j \in Klts : j # k => ~ Drives(j, e) /\ ~ Granted(j, e)
  BY <1>3, DriverAlone
<1>5. state[t] # "TERMINATED" /\ btm[t] # "back" /\ \A d \in Xstreams : dispatched[d] # t
  BY <1>2, SMT DEF PoolInv
<1>6. /\ t \in preempted
      /\ p_wakeup_thread' = [p_wakeup_thread EXCEPT ![e] = t]
      /\ ctx' = [ctx EXCEPT ![k] = k] /\ cur_thread' = [cur_thread EXCEPT ![e] = k]
      /\ stage' = [stage EXCEPT ![k] = "arm"]
  BY <1>2 DEF Dispatch, SwitchToBase
<1>7. PICK s \in Klts :
        s = p_wakeup[t] /\ ctx[s] = t /\ stage[s] \in {"wait", "asleep", "woken"} /\ s # k
  BY <1>3, <1>6, SMT DEF PreemptedInv
<1>8. Held(s) /\ ~ Listed(s)
  <2>1. sleep_flag[s] # 0
    <3> SUFFICES ASSUME sleep_flag[s] = 0
                 PROVE  FALSE
      OBVIOUS
    <3>1. p_local[s] \in Xstreams /\ Granted(s, p_local[s])
      BY <1>7, SMT DEF TypeOK, KltShape, Granted
    <3> QED
      BY <1>5, <1>7, <3>1, SMT DEF GrantedInv
  <2> QED
    BY <1>7, <2>1, SMT DEF TypeOK, KltShape, Held, ListInv
<1>9. \A j \in Klts : Target(j) # s
  <2> SUFFICES ASSUME NEW j \in Klts, Target(j) = s
               PROVE  FALSE
    OBVIOUS
  <2>1. CASE Preempting(j)
    BY <1>7, <2>1, SMT DEF PreemptingInv, Target
  <2>2. CASE Leaving(j)
    <3>1. LeavesFor(j, tls[j], p_wakeup_thread[tls[j]], s) /\ tls[j] \in Xstreams
      BY <2>2, LeavingThread DEF LeavingInv
    <3> QED
      BY <1>5, <1>7, <3>1, SMT DEF LeavesFor
  <2> QED
    BY <2>1, <2>2, <1>7 DEF Target
<1>10. /\ \A j \in Klts : Held(j)' <=> Held(j)
       /\ \A j \in Klts : Listed(j)' <=> Listed(j)
       /\ \A j \in Klts : j # k =>
            (Preempting(j)' <=> Preempting(j)) /\ (Leaving(j)' <=> Leaving(j))
       /\ Leaving(k)' /\ ~ Preempting(k)'
  BY <1>2, <1>3, <1>6, SMT DEF TypeOK, Held, Preempting, Leaving, Listed
<1>11. Target(k)' = s
  BY <1>2, <1>6, <1>7, <1>10, SMT DEF TypeOK, Target
<1>12. ASSUME NEW j \in Klts, j # k, Leaving(j)
       PROVE  tls[j] \in Xstreams /\ tls[j] # e /\ Target(j)' = Target(j)
  <2>1. tls[j] \in Xstreams /\ tls[j] # e /\ ~ Preempting(j)
    BY <1>4, <1>12, LeavingThread DEF Leaving, Preempting
  <2> QED
    BY <1>2, <1>6, <1>10, <1>12, <2>1, SMT DEF TypeOK, Target
<1>13. ASSUME NEW j \in Klts, j # k
       PROVE  Target(j)' = Target(j)
  <2>1. CASE Preempting(j)
    BY <1>2, <1>10, <1>13, <2>1, SMT DEF Target
  <2>2. CASE ~ Leaving(j) /\ ~ Preempting(j)
    BY <1>10, <1>13, <2>2, SMT DEF Target
  <2> QED
    BY <1>12, <1>13, <2>1, <2>2
<1>14. TypeOK'
  BY <1>2, <1>3, <1>4, <1>5, <1>6, SMT DEF TypeOK, Stages
<1>15. KltShape'
  BY <1>2, <1>3, <1>4, <1>5, <1>6, SMT DEF TypeOK, KltShape
<1>16. OneOwner'
  BY <1>2, <1>3, <1>4, <1>5, <1>6, SMT DEF TypeOK, KltShape, OneOwner, Owns,
     Drives, Granted
<1>17. SomeOwner'
  <2> SUFFICES ASSUME NEW d \in Xstreams PROVE \E j \in Klts : Owns(j, d)'
    BY Zenon DEF SomeOwner
  <2>1. PICK j \in Klts : Owns(j, d)
    BY Zenon DEF SomeOwner
  <2> QED
    BY <2>1, <1>2, <1>3, <1>4, <1>5, <1>6, SMT DEF TypeOK, KltShape, Owns,
       Drives, Granted, Held
<1>18. OnInv'
  BY <1>2, <1>3, <1>4, <1>5, <1>6, SMT DEF TypeOK, KltShape, OnInv, Returned,
     Drives
<1>19. PreemptingInv'
  BY <1>2, <1>3, <1>4, <1>5, <1>6, SMT DEF TypeOK, KltShape, PreemptingInv,
     Preempting, Drives
<1>20. LeavingInv'
  <2> SUFFICES ASSUME NEW j \in Klts, Leaving(j)'
               PROVE  (/\ p_wakeup_thread[tls[j]] # None
                       /\ Target(j) \in Klts
                       /\ LeavesFor(j, tls[j], p_wakeup_thread[tls[j]], Target(j)))'
    BY DEF LeavingInv
  <2>1. CASE j = k
    BY <1>2, <1>6, <1>7, <1>11, <2>1, SMT DEF TypeOK, LeavesFor
  <2>2. CASE j # k
    <3>1. Leaving(j) /\ Target(j)' = Target(j)
      BY <1>10, <1>12, <2>2
    <3>2. tls[j] \in Xstreams /\ tls[j] # e
      BY <1>12, <2>2, <3>1
    <3>3. /\ p_wakeup_thread[tls[j]] # None /\ Target(j) \in Klts
          /\ LeavesFor(j, tls[j], p_wakeup_thread[tls[j]], Target(j))
      BY <3>1, SMT DEF LeavingInv
    <3>4. p_wakeup_thread'[tls[j]] = p_wakeup_thread[tls[j]]
      BY <1>6, <3>2, SMT DEF TypeOK
    <3>5. Target(j) # k
      BY <1>3
    <3>6. ctx'[Target(j)] = ctx[Target(j)]
      BY <1>6, <3>3, <3>5, SMT DEF TypeOK
    <3>7. dispatched'[tls[j]] = dispatched[tls[j]] /\ dispatched[tls[j]] # t
      BY <1>2, <1>5, <3>2, SMT DEF TypeOK
    <3>8. \A u \in Threads : u # t => p_last_xstream'[u] = p_last_xstream[u]
      BY <1>2, SMT DEF TypeOK
    <3> QED
      BY <1>2, <3>1, <3>2, <3>3, <3>4, <3>6, <3>7, <3>8, SMT DEF LeavesFor,
         TypeOK
  <2> QED
    BY <2>1, <2>2
<1>21. GrantedInv'
  BY <1>2, <1>3, <1>4, <1>5, <1>6, SMT DEF TypeOK, KltShape, GrantedInv,
     Granted, Returned, Drives
<1>22. TargetInv'
  BY <1>7, <1>8, <1>9, <1>10, <1>11, <1>13, SMT DEF TargetInv
<1>23. PreemptedInv'
  BY <1>2, <1>3, <1>4, <1>5, <1>6, SMT DEF TypeOK, KltShape, PreemptedInv
<1>24. PoolInv'
  BY <1>2, <1>3, <1>4, <1>5, <1>6, SMT DEF TypeOK, PoolInv
<1>25. ListInv'
  BY <1>2, <1>3, <1>6, <1>10, SMT DEF ListInv, TypeOK
<1>26. ReadyInv'
  BY <1>2, <1>3, <1>6, <1>10, SMT DEF ReadyInv, TypeOK
<1> QED
  BY <1>14, <1>15, <1>16, <1>17, <1>18, <1>19, <1>20, <1>21, <1>22, <1>23,
     <1>24, <1>25, <1>26

(* The scheduler takes back the ULT that it dispatched.                    *)
LEMMA SchedReturnStep ==
  ASSUME IInv, NEW k \in Klts, SchedReturn(k)
  PROVE  IInv'
<1> USE ConstantsAssumption DEF IInv, Contexts, Mains, Subs, kltVars,
       futexVars, mainVars, listVars
<1>1. PICK e \in Xstreams, t \in Threads :
        /\ e = tls[k] /\ Executes(k, tls[k]) /\ dispatched[e] = t /\ cur_thread[e] = t
        /\ btm[t] # "back"
  BY ExecutingScheduler, SMT DEF SchedReturn, Executes, KltShape, TypeOK,
     Returned
<1>2. /\ dispatched' = [dispatched EXCEPT ![e] = None]
      /\ \/ pool' = pool /\ state' = [state EXCEPT ![t] = "TERMINATED"]
         \/ pool' = pool \cup {t} /\ state' = [state EXCEPT ![t] = "READY"]
      /\ UNCHANGED <<kltVars, futexVars, mainVars, p_wakeup_thread, p_cur_sub, cur_thread, listVars,
                     preempted, p_wakeup, p_last_xstream, request, btm>>
  BY <1>1, SMT DEF SchedReturn
<1>3. \A d \in Xstreams : dispatched[d] = t => d = e
  BY <1>1, SMT DEF PoolInv
<1>4. \A j \in Klts : j # k => ~ Drives(j, e) /\ ~ Granted(j, e)
  BY <1>1, ExecutingScheduler, DriverAlone
<1>5. TypeOK'
  <2>1. state' \in [Threads -> {"READY", "RUNNING", "TERMINATED"}] /\ pool' \in SUBSET Threads
    <3>1. CASE pool' = pool /\ state' = [state EXCEPT ![t] = "TERMINATED"]
      BY <3>1, SMT DEF TypeOK
    <3>2. CASE pool' = pool \cup {t} /\ state' = [state EXCEPT ![t] = "READY"]
      BY <3>2, SMT DEF TypeOK
    <3> QED
      BY <1>2, <3>1, <3>2
  <2>2. dispatched' \in [Xstreams -> Threads \cup {None}]
    BY <1>2, SMT DEF TypeOK
  <2> QED
    BY <1>2, <2>1, <2>2, SMT DEF TypeOK
<1>6. KltShape'
  BY <1>1, <1>2, <1>3, <1>4, ExecutingScheduler, SMT DEF TypeOK, KltShape
<1>7. OneOwner'
  BY <1>1, <1>2, <1>3, <1>4, ExecutingScheduler, SMT DEF TypeOK, KltShape,
     OneOwner, Owns, Drives, Granted
<1>8. SomeOwner'
  <2> SUFFICES ASSUME NEW d \in Xstreams PROVE \E j \in Klts : Owns(j, d)'
    BY Zenon DEF SomeOwner
  <2>1. PICK j \in Klts : Owns(j, d)
    BY Zenon DEF SomeOwner
  <2> QED
    BY <2>1, <1>1, <1>2, <1>3, <1>4, ExecutingScheduler, SMT DEF TypeOK,
       KltShape, Owns, Drives, Granted, Held
<1>9. OnInv'
  BY <1>1, <1>2, <1>3, <1>4, ExecutingScheduler, SMT DEF TypeOK, KltShape,
     OnInv, Returned, Drives
<1>10. PreemptingInv'
  BY <1>1, <1>2, <1>3, <1>4, ExecutingScheduler, SMT DEF TypeOK, KltShape,
     PreemptingInv, Preempting, Drives
<1>11. LeavingInv'
  BY <1>1, <1>2, <1>3, <1>4, ExecutingScheduler, SMTT(30) DEF TypeOK, KltShape,
     LeavingInv, Leaving, LeavesFor, Target, Preempting, Drives
<1>12. GrantedInv'
  BY <1>1, <1>2, <1>3, <1>4, ExecutingScheduler, SMT DEF TypeOK, KltShape,
     GrantedInv, Granted, Returned, Drives
<1>13. TargetInv'
  BY <1>1, <1>2, <1>3, <1>4, ExecutingScheduler, SMT DEF TypeOK, KltShape,
     TargetInv, Target, Preempting, Leaving, Held, Listed
<1>14. PreemptedInv'
  BY <1>1, <1>2, <1>3, <1>4, ExecutingScheduler, SMT DEF TypeOK, KltShape,
     PreemptedInv
<1>15. PoolInv'
  BY <1>1, <1>2, <1>3, <1>4, ExecutingScheduler, SMT DEF TypeOK, PoolInv
<1>16. ListInv'
  BY <1>1, <1>2, <1>3, <1>4, ExecutingScheduler, SMT DEF TypeOK, KltShape,
     ListInv, Listed, Held
<1>17. ReadyInv'
  BY <1>1, <1>2, <1>3, <1>4, ExecutingScheduler, SMT DEF TypeOK, KltShape,
     ReadyInv, Held
<1> QED
  BY <1>5, <1>6, <1>7, <1>8, <1>9, <1>10, <1>11, <1>12, <1>13, <1>14, <1>15,
     <1>16, <1>17

(* A failed pop changes no list.                                           *)
LEMMA ListStutter ==
  ASSUME IInv, ListTypes, UNCHANGED <<sub_list, global_list>>,
         UNCHANGED <<kltVars, futexVars, mainVars, esVars, threadVars>>
  PROVE  IInv'
<1> USE ConstantsAssumption DEF IInv, Contexts, Mains, Subs, ListTypes,
       kltVars, futexVars, mainVars, esVars, threadVars
<1>1. TypeOK'
  BY SMT DEF TypeOK
<1>2. KltShape'
  BY SMT DEF TypeOK, KltShape
<1>3. OneOwner'
  BY SMT DEF TypeOK, KltShape, OneOwner, Owns, Drives, Granted
<1>4. SomeOwner'
  <2> SUFFICES ASSUME NEW d \in Xstreams PROVE \E j \in Klts : Owns(j, d)'
    BY Zenon DEF SomeOwner
  <2>1. PICK j \in Klts : Owns(j, d)
    BY Zenon DEF SomeOwner
  <2> QED
    BY <2>1, SMT DEF TypeOK, KltShape, Owns, Drives, Granted, Held
<1>5. OnInv'
  BY SMT DEF TypeOK, KltShape, OnInv, Returned
<1>6. PreemptingInv'
  BY SMT DEF TypeOK, KltShape, PreemptingInv, Preempting
<1>7. LeavingInv'
  BY SMT DEF TypeOK, KltShape, LeavingInv, Leaving, LeavesFor, Target,
     Preempting
<1>8. GrantedInv'
  BY SMT DEF TypeOK, KltShape, GrantedInv, Granted, Returned
<1>9. TargetInv'
  BY SMT DEF TypeOK, KltShape, TargetInv, Target, Preempting, Leaving, Held,
     Listed
<1>10. PreemptedInv'
  BY SMT DEF TypeOK, KltShape, PreemptedInv
<1>11. PoolInv'
  BY SMT DEF TypeOK, PoolInv
<1>12. ListInv'
  BY SMT DEF TypeOK, KltShape, ListInv, Listed, Held
<1>13. ReadyInv'
  BY SMT DEF TypeOK, KltShape, ReadyInv, Held
<1> QED
  BY <1>1, <1>2, <1>3, <1>4, <1>5, <1>6, <1>7, <1>8, <1>9, <1>10, <1>11, <1>12,
     <1>13

(* A scheduler or a ULT leaves the main KLT of another ES.                 *)
LEMMA ExitMainStep ==
  ASSUME IInv, NEW k \in Klts, NEW u, NEW s \in Subs,
         \/ u \in Threads /\ Executes(k, u) /\ btm'[u] = "main"
         \/ u = tls[k] /\ u \in Xstreams /\ Executes(k, u) /\ dispatched[u] = None,
         ListPop(tls[k], s), p_wakeup' = [p_wakeup EXCEPT ![u] = s],
         p_wakeup_thread' = [p_wakeup_thread EXCEPT ![tls[k]] = u], SwitchToBase(k),
         btm' \in [Threads -> {"no", "exit", "main", "back"}],
         \A t \in Threads : t # u => btm'[t] = btm[t],
         UNCHANGED <<tls, next_sub, futexVars, mainVars, p_cur_sub, dispatched, pool, state,
                     preempted, p_last_xstream, request>>
  PROVE  IInv'
<1> USE ConstantsAssumption DEF IInv, Contexts, Mains, Subs, futexVars,
       mainVars
<1>1. PICK e \in Xstreams : e = tls[k]
  BY ExecutingThread
<1>2. /\ Drives(k, e) /\ sleep_flag[k] = 0 /\ stage[k] = "on" /\ ctx[k] = u
      /\ p_wakeup_thread[e] = None /\ p_cur_sub[e] = k /\ u \in Contexts
      /\ \A j \in Klts : ctx[j] = u => j = k
      /\ ~ Listed(k) /\ ~ Held(k) /\ \A j \in Klts : Target(j) # k
      /\ ~ Preempting(k) /\ ~ Leaving(k)
  BY <1>1, ExecutingThread, ExecutingScheduler DEF Executes, Preempting,
     Leaving
<1>3. /\ u \in Threads => /\ dispatched[e] = u /\ u \notin preempted /\ u \notin pool /\ btm'[u] # "back"
                          /\ \A d \in Xstreams : dispatched[d] = u => d = e
      /\ u \notin Threads => u = e /\ dispatched[e] = None
  BY <1>1, ExecutingThread
<1>4. \A j \in Klts : j # k => ~ Drives(j, e) /\ ~ Granted(j, e)
  BY <1>2, DriverAlone
<1>5. /\ ListTypes /\ ~ Listed(s)' /\ Held(s) /\ ctx[s] = s /\ \A j \in Klts : Target(j) # s
      /\ \A j \in Klts : j # s => (Listed(j)' <=> Listed(j))
      /\ s # k
  BY <1>1, <1>2, ListPopEffect
<1>6. /\ ctx' = [ctx EXCEPT ![k] = k] /\ stage' = [stage EXCEPT ![k] = "arm"]
      /\ cur_thread' = [cur_thread EXCEPT ![e] = k]
      /\ p_wakeup' = [p_wakeup EXCEPT ![u] = s]
      /\ p_wakeup_thread' = [p_wakeup_thread EXCEPT ![e] = u]
  BY <1>1 DEF SwitchToBase
<1>7. /\ \A j \in Klts : Held(j)' <=> Held(j)
      /\ \A j \in Klts : j # k => (Preempting(j)' <=> Preempting(j)) /\ (Leaving(j)' <=> Leaving(j))
      /\ Leaving(k)' /\ ~ Preempting(k)'
  BY <1>1, <1>2, <1>6, SMT DEF TypeOK, Held, Preempting, Leaving
<1>8. Target(k)' = s
  BY <1>1, <1>2, <1>6, <1>7, SMT DEF TypeOK, Target
<1>9. ASSUME NEW j \in Klts, j # k
      PROVE  Target(j)' = Target(j)
  <2>1. CASE Preempting(j)
    BY <1>7, <1>9, <2>1, SMT DEF Target
  <2>2. CASE Leaving(j) /\ ~ Preempting(j)
    <3>1. /\ tls[j] \in Xstreams /\ tls[j] # e /\ p_wakeup_thread[tls[j]] # u
          /\ p_wakeup_thread[tls[j]] \in Contexts
      <4>1. tls[j] \in Xstreams /\ tls[j] # e
        BY <1>4, <1>9, <2>2, LeavingThread
      <4>2. CASE u \in Threads
        BY <1>3, <2>2, <4>1, <4>2, LeavingThread
      <4>3. CASE u = e
        <5>1. p_wakeup_thread[tls[j]] \in {tls[j], Main[tls[j]], dispatched[tls[j]]}
          BY <2>2, LeavingThread
        <5>2. Main[tls[j]] \in Klts
          BY <4>1
        <5>3. dispatched[tls[j]] \in Threads \cup {None}
          BY <4>1 DEF TypeOK
        <5> QED
          BY <2>2, <4>1, <4>3, <5>1, <5>2, <5>3, LeavingThread
      <4> QED
        BY <1>3, <2>2, <4>1, <4>2, <4>3, LeavingThread
    <3> QED
      BY <1>6, <1>7, <1>9, <2>2, <3>1, SMT DEF TypeOK, Target
  <2>3. CASE ~ Leaving(j) /\ ~ Preempting(j)
    BY <1>7, <1>9, <2>3, SMT DEF Target
  <2> QED
    BY <2>1, <2>2, <2>3
<1>10. TypeOK'
  BY <1>1, <1>2, <1>5, <1>6, SMT DEF TypeOK, Stages, ListTypes
<1>11. KltShape'
  BY <1>1, <1>2, <1>3, <1>4, <1>6, SMT DEF TypeOK, KltShape
<1>12. OneOwner'
  BY <1>1, <1>2, <1>3, <1>4, <1>6, SMT DEF TypeOK, KltShape, OneOwner, Owns,
     Drives, Granted
<1>13. SomeOwner'
  <2> SUFFICES ASSUME NEW d \in Xstreams PROVE \E j \in Klts : Owns(j, d)'
    BY Zenon DEF SomeOwner
  <2>1. PICK j \in Klts : Owns(j, d)
    BY Zenon DEF SomeOwner
  <2> QED
    BY <2>1, <1>1, <1>2, <1>3, <1>4, <1>6, SMT DEF TypeOK, KltShape, Owns,
       Drives, Granted, Held
<1>14. OnInv'
  BY <1>1, <1>2, <1>3, <1>4, <1>6, SMT DEF TypeOK, KltShape, OnInv, Returned,
     Drives
<1>15. PreemptingInv'
  BY <1>1, <1>2, <1>3, <1>4, <1>6, SMT DEF TypeOK, KltShape, PreemptingInv,
     Preempting, Drives
<1>16. LeavingInv'
  <2> SUFFICES ASSUME NEW j \in Klts, Leaving(j)'
               PROVE  (/\ p_wakeup_thread[tls[j]] # None
                       /\ Target(j) \in Klts
                       /\ LeavesFor(j, tls[j], p_wakeup_thread[tls[j]], Target(j)))'
    BY DEF LeavingInv
  <2>1. CASE j = k
    BY <1>1, <1>2, <1>3, <1>5, <1>6, <1>8, <2>1, SMT DEF TypeOK, LeavesFor
  <2>2. CASE j # k
    <3>1. Leaving(j) /\ Target(j)' = Target(j)
      BY <1>7, <1>9, <2>2
    <3>2. tls[j] \in Xstreams /\ tls[j] # e
      BY <1>4, <2>2, <3>1, LeavingThread
    <3>3. /\ p_wakeup_thread[tls[j]] # None /\ Target(j) \in Klts
          /\ LeavesFor(j, tls[j], p_wakeup_thread[tls[j]], Target(j))
      BY <3>1, SMT DEF LeavingInv
    <3>4. p_wakeup_thread'[tls[j]] = p_wakeup_thread[tls[j]]
      BY <1>6, <3>2, SMT DEF TypeOK
    <3>5. Target(j) # k
      BY <1>2
    <3>6. ctx'[Target(j)] = ctx[Target(j)]
      BY <1>6, <3>3, <3>5, SMT DEF TypeOK
    <3>7. dispatched[tls[j]] = u => u \notin Threads
      BY <1>3, <3>2
    <3> QED
      BY <3>1, <3>2, <3>3, <3>4, <3>6, <3>7, SMT DEF LeavesFor
  <2> QED
    BY <2>1, <2>2
<1>17. GrantedInv'
  BY <1>1, <1>2, <1>3, <1>4, <1>6, SMT DEF TypeOK, KltShape, GrantedInv,
     Granted, Returned, Drives
<1>18. TargetInv'
  BY <1>2, <1>5, <1>7, <1>8, <1>9, SMT DEF TargetInv
<1>19. PreemptedInv'
  BY <1>1, <1>2, <1>3, <1>4, <1>6, SMT DEF TypeOK, KltShape, PreemptedInv
<1>20. PoolInv'
  BY <1>1, <1>2, <1>3, <1>4, <1>6, SMT DEF TypeOK, PoolInv
<1>21. ListInv'
  BY <1>2, <1>5, <1>6, <1>7, SMT DEF ListInv, ListTypes
<1>22. ReadyInv'
  BY <1>2, <1>6, <1>7, SMT DEF ReadyInv, TypeOK
<1> QED
  BY <1>10, <1>11, <1>12, <1>13, <1>14, <1>15, <1>16, <1>17, <1>18, <1>19,
     <1>20, <1>21, <1>22

(* ABTI_xstream_check_events.                                              *)
LEMMA CheckEventsStep ==
  ASSUME IInv, NEW k \in Klts, CheckEvents(k)
  PROVE  IInv'
<1>1. /\ tls[k] \in Xstreams /\ Executes(k, tls[k]) /\ dispatched[tls[k]] = None
      /\ UNCHANGED <<tls, next_sub, futexVars, mainVars, p_cur_sub, dispatched,
                     pool, state, preempted, p_last_xstream, request, btm>>
  BY SMT DEF IInv, CheckEvents, TypeOK, KltShape, Executes
<1>2. CASE ExitMain(k, tls[k])
  <2>1. PICK s \in Subs : ListPop(tls[k], s) /\ p_wakeup' = [p_wakeup EXCEPT ![tls[k]] = s]
    BY <1>2 DEF ExitMain
  <2>2. p_wakeup_thread' = [p_wakeup_thread EXCEPT ![tls[k]] = tls[k]] /\ SwitchToBase(k)
    BY <1>2 DEF ExitMain
  <2>3. /\ btm' \in [Threads -> {"no", "exit", "main", "back"}]
        /\ \A t \in Threads : t # tls[k] => btm'[t] = btm[t]
    BY <1>1, SMT DEF IInv, TypeOK
  <2> QED
    BY <1>1, <2>1, <2>2, <2>3, ExitMainStep
<1>3. CASE /\ ListPopFails(tls[k])
           /\ UNCHANGED <<ctx, cur_thread, stage, p_wakeup, p_wakeup_thread>>
  <2>1. ListTypes /\ UNCHANGED <<sub_list, global_list>>
    BY <1>1, <1>3, ListPopFailsEffect
  <2> QED
    BY <1>1, <1>3, <2>1, ListStutter DEF kltVars, futexVars, mainVars, esVars,
       threadVars
<1> QED
  BY <1>2, <1>3 DEF CheckEvents

(* A ULT yields to the scheduler of the ES that dispatched it.             *)
LEMMA YieldStep ==
  ASSUME IInv, NEW k \in Klts, NEW t \in Threads, Yield(k, t)
  PROVE  IInv'
<1> USE ConstantsAssumption DEF IInv, Contexts, Mains, Subs, Yield, InUserCode,
       futexVars, mainVars, esVars, listVars
<1>1. Executes(k, t)
  BY DEF Yield, InUserCode
<1>2. PICK e \in Xstreams : e = tls[k]
  BY <1>1, ExecutingThread
<1>3. TypeOK'
  BY <1>1, <1>2, ExecutingThread, SMT DEF TypeOK
<1>4. KltShape'
  BY <1>1, <1>2, ExecutingThread, SMT DEF TypeOK, KltShape
<1>5. OneOwner'
  BY <1>1, <1>2, ExecutingThread, SMT DEF TypeOK, KltShape, OneOwner, Owns,
     Drives, Granted
<1>6. SomeOwner'
  <2> SUFFICES ASSUME NEW d \in Xstreams PROVE \E j \in Klts : Owns(j, d)'
    BY Zenon DEF SomeOwner
  <2>1. PICK j \in Klts : Owns(j, d)
    BY Zenon DEF SomeOwner
  <2> QED
    BY <2>1, <1>1, <1>2, ExecutingThread, SMT DEF TypeOK, KltShape, Owns,
       Drives, Granted, Held
<1>7. OnInv'
  BY <1>1, <1>2, ExecutingThread, SMT DEF TypeOK, KltShape, OnInv, Returned
<1>8. PreemptingInv'
  BY <1>1, <1>2, ExecutingThread, SMT DEF TypeOK, KltShape, PreemptingInv,
     Preempting
<1>9. LeavingInv'
  BY <1>1, <1>2, ExecutingThread, SMTT(30) DEF TypeOK, KltShape, LeavingInv,
     Leaving, LeavesFor, Target, Preempting
<1>10. GrantedInv'
  BY <1>1, <1>2, ExecutingThread, SMT DEF TypeOK, KltShape, GrantedInv,
     Granted, Returned
<1>11. TargetInv'
  BY <1>1, <1>2, ExecutingThread, SMT DEF TypeOK, KltShape, TargetInv, Target,
     Preempting, Leaving, Held, Listed
<1>12. PreemptedInv'
  BY <1>1, <1>2, ExecutingThread, SMT DEF TypeOK, KltShape, PreemptedInv
<1>13. PoolInv'
  BY <1>1, <1>2, ExecutingThread, SMT DEF TypeOK, PoolInv
<1>14. ListInv'
  BY <1>1, <1>2, ExecutingThread, SMT DEF TypeOK, KltShape, ListInv, Listed,
     Held
<1>15. ReadyInv'
  BY <1>1, <1>2, ExecutingThread, SMT DEF TypeOK, KltShape, ReadyInv, Held
<1> QED
  BY <1>3, <1>4, <1>5, <1>6, <1>7, <1>8, <1>9, <1>10, <1>11, <1>12, <1>13,
     <1>14, <1>15

(* A ULT ends and leaves its KLT to the scheduler.                         *)
LEMMA FinishStep ==
  ASSUME IInv, NEW k \in Klts, NEW t \in Threads, Finish(k, t)
  PROVE  IInv'
<1> USE ConstantsAssumption DEF IInv, Contexts, Mains, Subs, Finish,
       InUserCode, futexVars, mainVars, esVars, listVars
<1>1. Executes(k, t)
  BY DEF Finish, InUserCode
<1>2. PICK e \in Xstreams : e = tls[k]
  BY <1>1, ExecutingThread
<1>3. TypeOK'
  BY <1>1, <1>2, ExecutingThread, SMT DEF TypeOK
<1>4. KltShape'
  BY <1>1, <1>2, ExecutingThread, SMT DEF TypeOK, KltShape
<1>5. OneOwner'
  BY <1>1, <1>2, ExecutingThread, SMT DEF TypeOK, KltShape, OneOwner, Owns,
     Drives, Granted
<1>6. SomeOwner'
  <2> SUFFICES ASSUME NEW d \in Xstreams PROVE \E j \in Klts : Owns(j, d)'
    BY Zenon DEF SomeOwner
  <2>1. PICK j \in Klts : Owns(j, d)
    BY Zenon DEF SomeOwner
  <2> QED
    BY <2>1, <1>1, <1>2, ExecutingThread, SMT DEF TypeOK, KltShape, Owns,
       Drives, Granted, Held
<1>7. OnInv'
  BY <1>1, <1>2, ExecutingThread, SMT DEF TypeOK, KltShape, OnInv, Returned
<1>8. PreemptingInv'
  BY <1>1, <1>2, ExecutingThread, SMT DEF TypeOK, KltShape, PreemptingInv,
     Preempting
<1>9. LeavingInv'
  BY <1>1, <1>2, ExecutingThread, SMTT(30) DEF TypeOK, KltShape, LeavingInv,
     Leaving, LeavesFor, Target, Preempting
<1>10. GrantedInv'
  BY <1>1, <1>2, ExecutingThread, SMT DEF TypeOK, KltShape, GrantedInv,
     Granted, Returned
<1>11. TargetInv'
  BY <1>1, <1>2, ExecutingThread, SMT DEF TypeOK, KltShape, TargetInv, Target,
     Preempting, Leaving, Held, Listed
<1>12. PreemptedInv'
  BY <1>1, <1>2, ExecutingThread, SMT DEF TypeOK, KltShape, PreemptedInv
<1>13. PoolInv'
  BY <1>1, <1>2, ExecutingThread, SMT DEF TypeOK, PoolInv
<1>14. ListInv'
  BY <1>1, <1>2, ExecutingThread, SMT DEF TypeOK, KltShape, ListInv, Listed,
     Held
<1>15. ReadyInv'
  BY <1>1, <1>2, ExecutingThread, SMT DEF TypeOK, KltShape, ReadyInv, Held
<1> QED
  BY <1>3, <1>4, <1>5, <1>6, <1>7, <1>8, <1>9, <1>10, <1>11, <1>12, <1>13,
     <1>14, <1>15

(* A timer tick takes a KLT off a list for the ES.                         *)
LEMMA PreemptPopStep ==
  ASSUME IInv, NEW k \in Klts, NEW t \in Threads, NEW s \in Subs,
         InUserCode(k, t), ListPop(tls[k], s),
         next_sub' = [next_sub EXCEPT ![k] = s], stage' = [stage EXCEPT ![k] = "arm"],
         UNCHANGED <<tls, ctx, futexVars, mainVars, esVars, threadVars>>
  PROVE  IInv'
<1> USE ConstantsAssumption DEF IInv, Contexts, Mains, Subs, futexVars,
       mainVars, esVars, threadVars
<1>1. Executes(k, t) /\ btm[t] = "no"
  BY DEF InUserCode
<1>2. PICK e \in Xstreams : e = tls[k]
  BY <1>1, ExecutingThread
<1>3. /\ ListTypes /\ ~ Listed(s)' /\ Held(s) /\ ctx[s] = s /\ \A j \in Klts : Target(j) # s
      /\ \A j \in Klts : j # s => (Listed(j)' <=> Listed(j))
  BY <1>2, ListPopEffect
<1>4. s # k /\ Target(k)' = s /\ Preempting(k)' /\ ~ Leaving(k)'
  BY <1>1, <1>3, ExecutingThread, SMT DEF TypeOK, Target, Preempting, Leaving
<1>5. /\ \A j \in Klts : Held(j)' <=> Held(j)
      /\ \A j \in Klts : j # k => Target(j)' = Target(j)
  BY <1>1, ExecutingThread, SMT DEF TypeOK, Held, Target, Preempting, Leaving
<1>6. TypeOK'
  BY <1>1, <1>2, <1>3, <1>4, ExecutingThread, SMT DEF TypeOK, Stages, ListTypes
<1>7. KltShape'
  BY <1>1, <1>2, <1>3, <1>4, ExecutingThread, SMT DEF TypeOK, KltShape
<1>8. OneOwner'
  BY <1>1, <1>2, <1>3, <1>4, ExecutingThread, SMT DEF TypeOK, KltShape,
     OneOwner, Owns, Drives, Granted
<1>9. SomeOwner'
  <2> SUFFICES ASSUME NEW d \in Xstreams PROVE \E j \in Klts : Owns(j, d)'
    BY Zenon DEF SomeOwner
  <2>1. PICK j \in Klts : Owns(j, d)
    BY Zenon DEF SomeOwner
  <2> QED
    BY <2>1, <1>1, <1>2, <1>3, <1>4, ExecutingThread, SMT DEF TypeOK, KltShape,
       Owns, Drives, Granted, Held
<1>10. OnInv'
  BY <1>1, <1>2, <1>3, <1>4, ExecutingThread, SMT DEF TypeOK, KltShape, OnInv,
     Returned
<1>11. PreemptingInv'
  BY <1>1, <1>2, <1>3, <1>4, ExecutingThread, SMT DEF TypeOK, KltShape,
     PreemptingInv, Preempting
<1>12. LeavingInv'
  BY <1>1, <1>2, <1>3, <1>4, ExecutingThread, SMTT(30) DEF TypeOK, KltShape,
     LeavingInv, Leaving, LeavesFor, Target, Preempting
<1>13. GrantedInv'
  BY <1>1, <1>2, <1>3, <1>4, ExecutingThread, SMT DEF TypeOK, KltShape,
     GrantedInv, Granted, Returned
<1>14. TargetInv'
  BY <1>1, <1>3, <1>4, <1>5, ExecutingThread, SMT DEF TargetInv
<1>15. PreemptedInv'
  BY <1>1, <1>2, <1>3, <1>4, ExecutingThread, SMT DEF TypeOK, KltShape,
     PreemptedInv
<1>16. PoolInv'
  BY <1>1, <1>2, <1>3, <1>4, ExecutingThread, SMT DEF TypeOK, PoolInv
<1>17. ListInv'
  BY <1>3, <1>5, SMT DEF ListInv, ListTypes
<1>18. ReadyInv'
  BY <1>5, SMT DEF ReadyInv
<1> QED
  BY <1>6, <1>7, <1>8, <1>9, <1>10, <1>11, <1>12, <1>13, <1>14, <1>15, <1>16,
     <1>17, <1>18

(* A timer tick.                                                           *)
LEMMA PreemptStep ==
  ASSUME IInv, NEW k \in Klts, NEW t \in Threads, Preempt(k, t)
  PROVE  IInv'
<1>1. /\ InUserCode(k, t) /\ UNCHANGED <<tls, ctx, futexVars, mainVars, esVars, threadVars>>
      /\ tls[k] \in Xstreams
  BY ExecutingThread DEF Preempt, InUserCode
<1>2. CASE \E s \in Subs : /\ ListPop(tls[k], s)
                           /\ next_sub' = [next_sub EXCEPT ![k] = s]
                           /\ stage' = [stage EXCEPT ![k] = "arm"]
  BY <1>1, <1>2, PreemptPopStep, Zenon
<1>3. CASE ListPopFails(tls[k]) /\ UNCHANGED <<next_sub, stage>>
  <2>1. ListTypes /\ UNCHANGED <<sub_list, global_list>>
    BY <1>1, <1>3, ListPopFailsEffect
  <2> QED
    BY <1>1, <1>3, <2>1, ListStutter DEF kltVars
<1> QED
  BY <1>2, <1>3 DEF Preempt

(* A ULT enters back_to_main.                                              *)
LEMMA CallBackToMainStep ==
  ASSUME IInv, NEW k \in Klts, NEW t \in Threads, CallBackToMain(k, t)
  PROVE  IInv'
<1> USE ConstantsAssumption DEF IInv, Contexts, Mains, Subs, CallBackToMain,
       InUserCode, kltVars, futexVars, mainVars, esVars, listVars
<1>1. Executes(k, t)
  BY DEF CallBackToMain, InUserCode
<1>2. PICK e \in Xstreams : e = tls[k]
  BY <1>1, ExecutingThread
<1>3. TypeOK'
  BY <1>1, <1>2, ExecutingThread, SMT DEF TypeOK
<1>4. KltShape'
  BY <1>1, <1>2, ExecutingThread, SMT DEF TypeOK, KltShape
<1>5. OneOwner'
  BY <1>1, <1>2, ExecutingThread, SMT DEF TypeOK, KltShape, OneOwner, Owns,
     Drives, Granted
<1>6. SomeOwner'
  <2> SUFFICES ASSUME NEW d \in Xstreams PROVE \E j \in Klts : Owns(j, d)'
    BY Zenon DEF SomeOwner
  <2>1. PICK j \in Klts : Owns(j, d)
    BY Zenon DEF SomeOwner
  <2> QED
    BY <2>1, <1>1, <1>2, ExecutingThread, SMT DEF TypeOK, KltShape, Owns,
       Drives, Granted, Held
<1>7. OnInv'
  BY <1>1, <1>2, ExecutingThread, SMT DEF TypeOK, KltShape, OnInv, Returned
<1>8. PreemptingInv'
  BY <1>1, <1>2, ExecutingThread, SMT DEF TypeOK, KltShape, PreemptingInv,
     Preempting
<1>9. LeavingInv'
  BY <1>1, <1>2, ExecutingThread, SMTT(30) DEF TypeOK, KltShape, LeavingInv,
     Leaving, LeavesFor, Target, Preempting
<1>10. GrantedInv'
  BY <1>1, <1>2, ExecutingThread, SMT DEF TypeOK, KltShape, GrantedInv,
     Granted, Returned
<1>11. TargetInv'
  BY <1>1, <1>2, ExecutingThread, SMT DEF TypeOK, KltShape, TargetInv, Target,
     Preempting, Leaving, Held, Listed
<1>12. PreemptedInv'
  BY <1>1, <1>2, ExecutingThread, SMT DEF TypeOK, KltShape, PreemptedInv
<1>13. PoolInv'
  BY <1>1, <1>2, ExecutingThread, SMT DEF TypeOK, PoolInv
<1>14. ListInv'
  BY <1>1, <1>2, ExecutingThread, SMT DEF TypeOK, KltShape, ListInv, Listed,
     Held
<1>15. ReadyInv'
  BY <1>1, <1>2, ExecutingThread, SMT DEF TypeOK, KltShape, ReadyInv, Held
<1> QED
  BY <1>3, <1>4, <1>5, <1>6, <1>7, <1>8, <1>9, <1>10, <1>11, <1>12, <1>13,
     <1>14, <1>15

(* back_to_main on a KLT that need not be left.                            *)
LEMMA BackToMainHomeStep ==
  ASSUME IInv, NEW k \in Klts, NEW t \in Threads, Executes(k, t),
         btm[t] = "exit", btm' = [btm EXCEPT ![t] = "main"],
         UNCHANGED <<kltVars, futexVars, mainVars, esVars, listVars, pool, state, preempted,
                     p_wakeup, p_last_xstream, request>>
  PROVE  IInv'
<1> USE ConstantsAssumption DEF IInv, Contexts, Mains, Subs, kltVars,
       futexVars, mainVars, esVars, listVars
<1>1. TypeOK'
  BY ExecutingThread, SMT DEF TypeOK
<1>2. KltShape'
  BY ExecutingThread, SMT DEF TypeOK, KltShape
<1>3. OneOwner'
  BY ExecutingThread, SMT DEF TypeOK, KltShape, OneOwner, Owns, Drives, Granted
<1>4. SomeOwner'
  <2> SUFFICES ASSUME NEW d \in Xstreams PROVE \E j \in Klts : Owns(j, d)'
    BY Zenon DEF SomeOwner
  <2>1. PICK j \in Klts : Owns(j, d)
    BY Zenon DEF SomeOwner
  <2> QED
    BY <2>1, ExecutingThread, SMT DEF TypeOK, KltShape, Owns, Drives, Granted,
       Held
<1>5. OnInv'
  BY ExecutingThread, SMT DEF TypeOK, KltShape, OnInv, Returned
<1>6. PreemptingInv'
  BY ExecutingThread, SMT DEF TypeOK, KltShape, PreemptingInv, Preempting
<1>7. LeavingInv'
  BY ExecutingThread, SMTT(30) DEF TypeOK, KltShape, LeavingInv, Leaving, LeavesFor,
     Target, Preempting
<1>8. GrantedInv'
  BY ExecutingThread, SMT DEF TypeOK, KltShape, GrantedInv, Granted, Returned
<1>9. TargetInv'
  <2>1. \A j \in Klts : Target(j)' = Target(j) /\ (Held(j)' <=> Held(j))
                        /\ (Listed(j)' <=> Listed(j))
    BY SMT DEF Target, Preempting, Leaving, Held, Listed
  <2> QED
    BY <2>1, SMT DEF TargetInv
<1>10. PreemptedInv'
  BY ExecutingThread, SMT DEF TypeOK, KltShape, PreemptedInv
<1>11. PoolInv'
  BY ExecutingThread, SMT DEF TypeOK, PoolInv
<1>12. ListInv'
  BY ExecutingThread, SMT DEF TypeOK, KltShape, ListInv, Listed, Held
<1>13. ReadyInv'
  BY ExecutingThread, SMT DEF TypeOK, KltShape, ReadyInv, Held
<1> QED
  BY <1>1, <1>2, <1>3, <1>4, <1>5, <1>6, <1>7, <1>8, <1>9, <1>10, <1>11, <1>12,
     <1>13

(* The first loop of back_to_main.                                         *)
LEMMA BackToMainExitStep ==
  ASSUME IInv, NEW k \in Klts, NEW t \in Threads, BackToMainExit(k, t)
  PROVE  IInv'
<1>1. /\ tls[k] \in Xstreams /\ Executes(k, t) /\ btm[t] = "exit"
      /\ UNCHANGED <<tls, next_sub, futexVars, mainVars, pool, state, preempted,
                     p_last_xstream, request>>
  BY ExecutingThread DEF BackToMainExit
<1>2. CASE /\ btm' = [btm EXCEPT ![t] = "main"]
           /\ UNCHANGED <<ctx, stage, esVars, listVars, p_wakeup>>
  BY <1>1, <1>2, BackToMainHomeStep DEF kltVars
<1>3. CASE /\ ExitMain(k, t) /\ btm' = [btm EXCEPT ![t] = "main"]
           /\ UNCHANGED <<p_cur_sub, dispatched>>
  <2>1. PICK s \in Subs : ListPop(tls[k], s) /\ p_wakeup' = [p_wakeup EXCEPT ![t] = s]
    BY <1>3 DEF ExitMain
  <2>2. p_wakeup_thread' = [p_wakeup_thread EXCEPT ![tls[k]] = t] /\ SwitchToBase(k)
    BY <1>3 DEF ExitMain
  <2>3. /\ btm' \in [Threads -> {"no", "exit", "main", "back"}] /\ btm'[t] = "main"
        /\ \A u \in Threads : u # t => btm'[u] = btm[u]
    BY <1>3, SMT DEF IInv, TypeOK
  <2> QED
    BY <1>1, <1>3, <2>1, <2>2, <2>3, ExitMainStep
<1>4. CASE /\ ListPopFails(tls[k])
           /\ UNCHANGED <<ctx, stage, esVars, p_wakeup, btm>>
  <2>1. ListTypes /\ UNCHANGED <<sub_list, global_list>>
    BY <1>1, <1>4, ListPopFailsEffect
  <2> QED
    BY <1>1, <1>4, <2>1, ListStutter DEF kltVars, futexVars, mainVars, esVars,
       threadVars
<1> QED
  BY <1>2, <1>3, <1>4 DEF BackToMainExit

(* back_to_main gives the ES to its main KLT.                              *)
LEMMA BackToMainSwitchStep ==
  ASSUME IInv, NEW k \in Klts, NEW t \in Threads, BackToMainSwitch(k, t)
  PROVE  IInv'
<1> USE ConstantsAssumption DEF IInv, Contexts, Mains, Subs, futexVars,
       listVars
<1>1. Executes(k, t) /\ btm[t] = "main"
  BY DEF BackToMainSwitch
<1>2. PICK e \in Xstreams, m \in Mains : e = tls[k] /\ m = Main[e]
  BY <1>1, ExecutingThread
<1>3. /\ k # m /\ ready[m] = 1
      /\ ready' = [ready EXCEPT ![m] = 0] /\ p_return_thread' = [p_return_thread EXCEPT ![m] = t]
      /\ p_wakeup_thread' = [p_wakeup_thread EXCEPT ![e] = m]
      /\ p_wakeup' = [p_wakeup EXCEPT ![m] = m]
      /\ ctx' = [ctx EXCEPT ![k] = k] /\ cur_thread' = [cur_thread EXCEPT ![e] = k]
      /\ stage' = [stage EXCEPT ![k] = "arm"] /\ btm' = [btm EXCEPT ![t] = "back"]
      /\ UNCHANGED <<tls, next_sub, futexVars, p_cur_sub, dispatched, listVars, pool, state,
                     preempted, p_last_xstream, request>>
  BY <1>2, Zenon DEF BackToMainSwitch, SwitchToBase
<1>4. /\ Drives(k, e) /\ sleep_flag[k] = 0 /\ stage[k] = "on" /\ ctx[k] = t
      /\ dispatched[e] = t /\ p_wakeup_thread[e] = None /\ p_cur_sub[e] = k /\ p_last_xstream[t] = e
      /\ t \notin preempted /\ t \notin pool
      /\ \A d \in Xstreams : dispatched[d] = t => d = e
      /\ \A j \in Klts : ctx[j] = t => j = k
      /\ ~ Listed(k) /\ ~ Held(k) /\ \A j \in Klts : Target(j) # k
      /\ ~ Preempting(k) /\ ~ Leaving(k)
  BY <1>1, <1>2, ExecutingThread DEF Preempting, Leaving
<1>5. \A j \in Klts : j # k => ~ Drives(j, e) /\ ~ Granted(j, e)
  BY <1>4, DriverAlone
<1>6. m \in Klts /\ ctx[m] = m /\ Held(m) /\ ~ Listed(m)
  BY <1>3, SMT DEF ReadyInv, Listed, TypeOK
<1>7. \A d \in Xstreams : Main[d] = m => d = e
  BY <1>2
<1>8. \A j \in Klts : Target(j) # m
  <2> SUFFICES ASSUME NEW j \in Klts, Target(j) = m
               PROVE  FALSE
    OBVIOUS
  <2>1. CASE Preempting(j)
    BY <2>1, SMT DEF PreemptingInv, Target
  <2>2. CASE Leaving(j)
    <3>1. LeavesFor(j, tls[j], p_wakeup_thread[tls[j]], m)
      BY <2>2 DEF LeavingInv
    <3> QED
      BY <1>2, <1>3, <1>6, <3>1, SMT DEF LeavesFor, TypeOK
  <2> QED
    BY <2>1, <2>2, <1>6 DEF Target
<1>9. /\ \A j \in Klts : Held(j)' <=> Held(j)
      /\ \A j \in Klts : Listed(j)' <=> Listed(j)
      /\ \A j \in Klts : j # k => (Preempting(j)' <=> Preempting(j)) /\ (Leaving(j)' <=> Leaving(j))
      /\ Leaving(k)' /\ ~ Preempting(k)'
  BY <1>2, <1>3, <1>4, SMT DEF TypeOK, Held, Preempting, Leaving, Listed
<1>10. Target(k)' = m
  BY <1>2, <1>3, <1>9, SMT DEF TypeOK, Target
<1>11. ASSUME NEW j \in Klts, j # k, Leaving(j)
       PROVE  /\ tls[j] \in Xstreams /\ tls[j] # e
              /\ p_wakeup_thread[tls[j]] \in Contexts /\ p_wakeup_thread[tls[j]] # m
  <2>1. tls[j] \in Xstreams /\ tls[j] # e /\ p_wakeup_thread[tls[j]] \in Contexts
    BY <1>5, <1>11, LeavingThread
  <2>2. p_wakeup_thread[tls[j]] \in {tls[j], Main[tls[j]], dispatched[tls[j]]}
    BY <1>11, LeavingThread
  <2>3. dispatched[tls[j]] \in Threads \cup {None}
    BY <2>1 DEF TypeOK
  <2> QED
    BY <1>6, <1>7, <2>1, <2>2, <2>3
<1>12. ASSUME NEW j \in Klts, j # k
       PROVE  Target(j)' = Target(j)
  <2>1. CASE Preempting(j)
    BY <1>3, <1>9, <1>12, <2>1, SMT DEF Target
  <2>2. CASE Leaving(j) /\ ~ Preempting(j)
    BY <1>3, <1>9, <1>11, <1>12, <2>2, SMT DEF TypeOK, Target
  <2>3. CASE ~ Leaving(j) /\ ~ Preempting(j)
    BY <1>9, <1>12, <2>3, SMT DEF Target
  <2> QED
    BY <2>1, <2>2, <2>3
<1>13. TypeOK'
  BY <1>2, <1>3, <1>4, <1>5, SMT DEF TypeOK, Stages
<1>14. KltShape'
  BY <1>2, <1>3, <1>4, <1>5, SMT DEF TypeOK, KltShape
<1>15. OneOwner'
  BY <1>2, <1>3, <1>4, <1>5, SMT DEF TypeOK, KltShape, OneOwner, Owns, Drives,
     Granted
<1>16. SomeOwner'
  <2> SUFFICES ASSUME NEW d \in Xstreams PROVE \E j \in Klts : Owns(j, d)'
    BY Zenon DEF SomeOwner
  <2>1. PICK j \in Klts : Owns(j, d)
    BY Zenon DEF SomeOwner
  <2> QED
    BY <2>1, <1>2, <1>3, <1>4, <1>5, SMT DEF TypeOK, KltShape, Owns, Drives,
       Granted, Held
<1>17. OnInv'
  BY <1>2, <1>3, <1>4, <1>5, SMT DEF TypeOK, KltShape, OnInv, Returned, Drives
<1>18. PreemptingInv'
  BY <1>2, <1>3, <1>4, <1>5, SMT DEF TypeOK, KltShape, PreemptingInv,
     Preempting, Drives
<1>19. LeavingInv'
  <2> SUFFICES ASSUME NEW j \in Klts, Leaving(j)'
               PROVE  (/\ p_wakeup_thread[tls[j]] # None
                       /\ Target(j) \in Klts
                       /\ LeavesFor(j, tls[j], p_wakeup_thread[tls[j]], Target(j)))'
    BY DEF LeavingInv
  <2>1. CASE j = k
    BY <1>2, <1>3, <1>4, <1>6, <1>10, <2>1, SMT DEF TypeOK, LeavesFor
  <2>2. CASE j # k
    <3>1. Leaving(j) /\ Target(j)' = Target(j)
      BY <1>9, <1>12, <2>2
    <3>2. tls[j] \in Xstreams /\ tls[j] # e
      BY <1>11, <2>2, <3>1
    <3>3. /\ p_wakeup_thread[tls[j]] # None /\ Target(j) \in Klts
          /\ LeavesFor(j, tls[j], p_wakeup_thread[tls[j]], Target(j))
      BY <3>1, SMT DEF LeavingInv
    <3>4. p_wakeup_thread'[tls[j]] = p_wakeup_thread[tls[j]]
      BY <1>3, <3>2, SMT DEF TypeOK
    <3>5. Target(j) # k /\ Target(j) # m
      BY <1>4, <1>8
    <3>6. /\ ctx'[Target(j)] = ctx[Target(j)] /\ ready'[Target(j)] = ready[Target(j)]
          /\ p_return_thread'[Target(j)] = p_return_thread[Target(j)]
      BY <1>3, <3>3, <3>5, SMT DEF TypeOK
    <3>7. dispatched[tls[j]] # t
      BY <1>4, <3>2
    <3>8. \A u \in Threads : u # t => btm'[u] = btm[u]
      BY <1>3, SMT DEF TypeOK
    <3> QED
      BY <1>3, <3>1, <3>2, <3>3, <3>4, <3>6, <3>7, <3>8, SMT DEF LeavesFor
  <2> QED
    BY <2>1, <2>2
<1>20. GrantedInv'
  BY <1>2, <1>3, <1>4, <1>5, <1>6, <1>7, SMT DEF TypeOK, KltShape, GrantedInv,
     Granted, Returned, Drives, Held
<1>21. TargetInv'
  BY <1>4, <1>6, <1>8, <1>9, <1>10, <1>12, SMT DEF TargetInv
<1>22. PreemptedInv'
  BY <1>2, <1>3, <1>4, <1>5, SMT DEF TypeOK, KltShape, PreemptedInv
<1>23. PoolInv'
  BY <1>2, <1>3, <1>4, <1>5, SMT DEF TypeOK, PoolInv
<1>24. ListInv'
  BY <1>3, <1>4, <1>9, SMT DEF ListInv, TypeOK
<1>25. ReadyInv'
  BY <1>3, <1>4, <1>9, SMT DEF ReadyInv, TypeOK
<1> QED
  BY <1>13, <1>14, <1>15, <1>16, <1>17, <1>18, <1>19, <1>20, <1>21, <1>22,
     <1>23, <1>24, <1>25

(* back_to_main returns.                                                   *)
LEMMA BackToMainReturnStep ==
  ASSUME IInv, NEW k \in Klts, NEW t \in Threads, BackToMainReturn(k, t)
  PROVE  IInv'
<1> USE ConstantsAssumption DEF IInv, Contexts, Mains, Subs, BackToMainReturn,
       kltVars, futexVars, mainVars, esVars, listVars
<1>1. Executes(k, t)
  BY DEF BackToMainReturn
<1>2. PICK e \in Xstreams : e = tls[k]
  BY <1>1, ExecutingThread
<1>3. TypeOK'
  BY <1>1, <1>2, ExecutingThread, SMT DEF TypeOK
<1>4. KltShape'
  BY <1>1, <1>2, ExecutingThread, SMT DEF TypeOK, KltShape
<1>5. OneOwner'
  BY <1>1, <1>2, ExecutingThread, SMT DEF TypeOK, KltShape, OneOwner, Owns,
     Drives, Granted
<1>6. SomeOwner'
  <2> SUFFICES ASSUME NEW d \in Xstreams PROVE \E j \in Klts : Owns(j, d)'
    BY Zenon DEF SomeOwner
  <2>1. PICK j \in Klts : Owns(j, d)
    BY Zenon DEF SomeOwner
  <2> QED
    BY <2>1, <1>1, <1>2, ExecutingThread, SMT DEF TypeOK, KltShape, Owns,
       Drives, Granted, Held
<1>7. OnInv'
  BY <1>1, <1>2, ExecutingThread, SMT DEF TypeOK, KltShape, OnInv, Returned
<1>8. PreemptingInv'
  BY <1>1, <1>2, ExecutingThread, SMT DEF TypeOK, KltShape, PreemptingInv,
     Preempting
<1>9. LeavingInv'
  BY <1>1, <1>2, ExecutingThread, SMTT(30) DEF TypeOK, KltShape, LeavingInv,
     Leaving, LeavesFor, Target, Preempting
<1>10. GrantedInv'
  BY <1>1, <1>2, ExecutingThread, SMT DEF TypeOK, KltShape, GrantedInv,
     Granted, Returned
<1>11. TargetInv'
  BY <1>1, <1>2, ExecutingThread, SMT DEF TypeOK, KltShape, TargetInv, Target,
     Preempting, Leaving, Held, Listed
<1>12. PreemptedInv'
  BY <1>1, <1>2, ExecutingThread, SMT DEF TypeOK, KltShape, PreemptedInv
<1>13. PoolInv'
  BY <1>1, <1>2, ExecutingThread, SMT DEF TypeOK, PoolInv
<1>14. ListInv'
  BY <1>1, <1>2, ExecutingThread, SMT DEF TypeOK, KltShape, ListInv, Listed,
     Held
<1>15. ReadyInv'
  BY <1>1, <1>2, ExecutingThread, SMT DEF TypeOK, KltShape, ReadyInv, Held
<1> QED
  BY <1>3, <1>4, <1>5, <1>6, <1>7, <1>8, <1>9, <1>10, <1>11, <1>12, <1>13,
     <1>14, <1>15

(* The allocator creates KLTs.                                             *)
LEMMA AllocatorCreateStep ==
  ASSUME IInv, AllocatorCreate
  PROVE  IInv'
<1> USE ConstantsAssumption DEF IInv, Contexts, Mains, Subs, futexVars,
       mainVars, esVars, threadVars
<1>1. PICK new \in SUBSET Subs :
        /\ \A k \in new : stage[k] = "unborn"
        /\ stage' = [k \in Klts |-> IF k \in new THEN "arm" ELSE stage[k]]
  BY Zenon DEF AllocatorCreate
<1>2. /\ alloc_req' = FALSE
      /\ UNCHANGED <<tls, ctx, next_sub, futexVars, mainVars, esVars, sub_list, global_list, threadVars>>
  BY Zenon DEF AllocatorCreate
<1>3. stage' \in [Klts -> Stages]
  BY <1>1, SMT DEF TypeOK, Stages
<1>4. TypeOK'
  <2>1. alloc_req' \in BOOLEAN
    BY <1>2, Zenon
  <2> QED
    BY <1>2, <1>3, <2>1, SMT DEF TypeOK
<1>5. KltShape'
  BY <1>1, <1>2, <1>3, SMT DEF TypeOK, KltShape
<1>6. OneOwner'
  BY <1>1, <1>2, <1>3, SMT DEF TypeOK, KltShape, OneOwner, Owns, Drives,
     Granted
<1>7. SomeOwner'
  <2> SUFFICES ASSUME NEW d \in Xstreams PROVE \E j \in Klts : Owns(j, d)'
    BY Zenon DEF SomeOwner
  <2>1. PICK j \in Klts : Owns(j, d)
    BY Zenon DEF SomeOwner
  <2> QED
    BY <2>1, <1>1, <1>2, <1>3, SMT DEF TypeOK, KltShape, Owns, Drives, Granted,
       Held
<1>8. OnInv'
  BY <1>1, <1>2, <1>3, SMT DEF TypeOK, KltShape, OnInv, Returned
<1>9. PreemptingInv'
  BY <1>1, <1>2, <1>3, SMT DEF TypeOK, KltShape, PreemptingInv, Preempting
<1>10. LeavingInv'
  BY <1>1, <1>2, <1>3, SMT DEF TypeOK, KltShape, LeavingInv, Leaving,
     LeavesFor, Target, Preempting
<1>11. GrantedInv'
  BY <1>1, <1>2, <1>3, SMT DEF TypeOK, KltShape, GrantedInv, Granted, Returned
<1>12. TargetInv'
  BY <1>1, <1>2, <1>3, SMT DEF TypeOK, KltShape, TargetInv, Target, Preempting,
     Leaving, Held, Listed
<1>13. PreemptedInv'
  BY <1>1, <1>2, <1>3, SMT DEF TypeOK, KltShape, PreemptedInv
<1>14. PoolInv'
  BY <1>1, <1>2, <1>3, SMT DEF TypeOK, PoolInv
<1>15. ListInv'
  BY <1>1, <1>2, <1>3, SMT DEF TypeOK, KltShape, ListInv, Listed, Held
<1>16. ReadyInv'
  BY <1>1, <1>2, <1>3, SMT DEF TypeOK, KltShape, ReadyInv, Held
<1> QED
  BY <1>4, <1>5, <1>6, <1>7, <1>8, <1>9, <1>10, <1>11, <1>12, <1>13, <1>14,
     <1>15, <1>16

-----------------------------------------------------------------------------
(* The theorems.                                                           *)

(* Every step of the runtime preserves the inductive invariant.            *)
LEMMA NextStep ==
  ASSUME IInv, [Next]_vars
  PROVE  IInv'
<1>1. ASSUME NEW k \in Klts, SleepStep(k)
      PROVE  IInv'
  BY <1>1, ArmStep, FutexWaitStep, OnInitialSleepStep, PreemptOnSleepStep,
     OnSleepAddSelfStep, TrampolineOnSleepStep, HandoffStep, ResumeThreadStep,
     ResumeBaseStep, ResumeTrampolineStep DEF SleepStep
<1>2. ASSUME NEW k \in Klts, SchedReturn(k) \/ CheckEvents(k)
      PROVE  IInv'
  BY <1>2, SchedReturnStep, CheckEventsStep
<1>3. ASSUME NEW k \in Klts, NEW t \in Threads, Dispatch(k, t)
      PROVE  IInv'
  BY <1>3, DispatchFreshStep, DispatchPreemptedStep
<1>4. ASSUME NEW k \in Klts, NEW t \in Threads,
             Yield(k, t) \/ Finish(k, t) \/ Preempt(k, t) \/ CallBackToMain(k, t)
      PROVE  IInv'
  BY <1>4, YieldStep, FinishStep, PreemptStep, CallBackToMainStep
<1>5. ASSUME NEW k \in Klts, NEW t \in Threads, BackToMainStep(k, t)
      PROVE  IInv'
  BY <1>5, BackToMainExitStep, BackToMainSwitchStep, BackToMainReturnStep
     DEF BackToMainStep
<1>6. CASE AllocatorCreate
  BY <1>6, AllocatorCreateStep
<1>7. CASE Idle \/ UNCHANGED vars
  BY <1>7, StutterStep DEF Idle
<1> QED
  BY <1>1, <1>2, <1>3, <1>4, <1>5, <1>6, <1>7 DEF Next

(* The inductive invariant holds in every reachable state.                 *)
THEOREM Invariance == Spec => []IInv
<1>1. Init => IInv
  BY InitInv
<1>2. IInv /\ [Next]_vars => IInv'
  BY NextStep
<1> QED
  BY <1>1, <1>2, PTL DEF Spec

(* Type correctness: in particular a KLT never continues with a thread     *)
(* that was not stored, and only ULTs are put into pools.                  *)
THEOREM TypeCorrect == Spec => []TypeOK
<1>1. IInv => TypeOK
  BY DEF IInv
<1> QED
  BY <1>1, Invariance, PTL

(* Switching KLTs neither duplicates nor loses an ES.                      *)
THEOREM DriverTheorem == Spec => []OneDriver
<1>1. IInv => OneDriver
  <2> SUFFICES ASSUME IInv, NEW e \in Xstreams
               PROVE  \E k \in Klts :
                        /\ Drives(k, e) # Granted(k, e)
                        /\ \A j \in Klts \ {k} : ~ Drives(j, e) /\ ~ Granted(j, e)
    BY DEF OneDriver
  <2>1. PICK k \in Klts : Owns(k, e)
    BY DEF IInv, SomeOwner
  <2>2. \A j \in Klts \ {k} : ~ Drives(j, e) /\ ~ Granted(j, e)
    BY <2>1 DEF IInv, OneOwner, Owns
  <2>3. ~ (Drives(k, e) /\ Granted(k, e))
    BY DEF IInv, OneOwner
  <2>4. (Drives(k, e) \/ Granted(k, e)) /\ Drives(k, e) \in BOOLEAN /\ Granted(k, e) \in BOOLEAN
    BY <2>1 DEF Owns, Drives, Granted
  <2> QED
    BY <2>2, <2>3, <2>4, Zenon
<1> QED
  BY <1>1, Invariance, PTL

(* A preempted ULT runs nowhere but on its KLT, and a scheduler once.      *)
THEOREM ContextTheorem == Spec => []ContextOnOneKlt
BY Invariance, ContextUnique, PTL

(* No wakeup finds the flag of its KLT clear, although the flag is cleared *)
(* and tested without a lock.                                              *)
THEOREM WakeupTheorem == Spec => []WakeupNeverLost
<1>1. IInv => WakeupNeverLost
  <2> SUFFICES ASSUME IInv, NEW k \in Klts, WakeupTarget(k) # None
               PROVE  /\ WakeupTarget(k) # k /\ sleep_flag[WakeupTarget(k)] = 1
                      /\ stage[WakeupTarget(k)] \in {"handoff", "wait", "asleep"}
                      /\ \A j \in Klts \ {k} : WakeupTarget(j) # WakeupTarget(k)
    BY DEF WakeupNeverLost
  <2>1. ASSUME NEW j \in Klts, WakeupTarget(j) # None
        PROVE  Target(j) = WakeupTarget(j) /\ Target(j) \in Klts
    <3>1. CASE stage[j] = "callback" /\ ctx[j] \in Threads
      BY <3>1 DEF WakeupTarget, Target, Preempting, IInv, PreemptingInv, Subs
    <3>2. CASE stage[j] = "handoff"
      <4>1. Leaving(j) /\ ~ Preempting(j)
        BY <3>2 DEF IInv, KltShape, Leaving, Preempting
      <4> QED
        BY <2>1, <3>2, <4>1 DEF WakeupTarget, Target, IInv, LeavingInv
    <3> QED
      BY <2>1, <3>1, <3>2 DEF WakeupTarget
  <2>2. /\ WakeupTarget(k) # k /\ Held(WakeupTarget(k))
    BY <2>1 DEF IInv, TargetInv
  <2>3. ASSUME NEW j \in Klts, WakeupTarget(j) = WakeupTarget(k)
        PROVE  j = k
    BY <2>1, <2>3 DEF IInv, TargetInv
  <2> QED
    BY <2>2, <2>3 DEF Held
<1> QED
  BY <1>1, Invariance, PTL

(* A KLT in a list holds nothing and is in one list only.                  *)
THEOREM ListTheorem == Spec => []ListedKltsSleep
<1>1. IInv => ListedKltsSleep
  BY DEF IInv, ListInv, ListedKltsSleep, Listed, Held, Subs
<1> QED
  BY <1>1, Invariance, PTL

(* What runs agrees with its KLT about the ES, the scheduler finds the ULT *)
(* that it dispatched, back_to_main ends on the main KLT, and a base loop  *)
(* goes on with a scheduler.                                               *)
THEOREM ExecutionTheorem ==
  Spec => [](/\ RunningOnOwnEs /\ SchedulerGetsItsThread
             /\ BackToMainEndsOnMain /\ BaseLoopFindsNoThread)
<1>1. IInv => RunningOnOwnEs
  <2> SUFFICES ASSUME IInv, NEW k \in Klts, stage[k] = "on"
               PROVE  /\ p_cur_sub[tls[k]] = k
                      /\ ctx[k] \in Threads => p_last_xstream[ctx[k]] = tls[k]
                      /\ ctx[k] \in Xstreams => ctx[k] = tls[k]
    BY DEF RunningOnOwnEs
  <2>1. ctx[k] \in Threads \/ ctx[k] = tls[k]
    BY DEF IInv, KltShape
  <2> QED
    BY <2>1, ConstantsAssumption DEF IInv, OnInv
<1>2. IInv => SchedulerGetsItsThread
  <2> SUFFICES ASSUME IInv, NEW k \in Klts, NEW e \in Xstreams,
                      Executes(k, e), dispatched[e] # None
               PROVE  cur_thread[e] = dispatched[e]
    BY DEF SchedulerGetsItsThread
  <2>1. tls[k] = e /\ stage[k] = "on" /\ ctx[k] = e
    BY ConstantsAssumption DEF IInv, KltShape, Executes
  <2> QED
    BY <2>1 DEF IInv, OnInv, Returned
<1>3. IInv => BackToMainEndsOnMain
  BY DEF IInv, OnInv, BackToMainEndsOnMain, Executes
<1>4. IInv => BaseLoopFindsNoThread
  <2> SUFFICES ASSUME IInv, NEW k \in Subs, stage[k] = "woken", ctx[k] = k
               PROVE  p_wakeup_thread[p_local[k]] = None
    BY DEF BaseLoopFindsNoThread
  <2>1. p_local[k] \in Xstreams /\ Granted(k, p_local[k])
    BY SMT DEF IInv, TypeOK, KltShape, Granted, Subs
  <2> QED
    BY <2>1 DEF IInv, GrantedInv, Subs
<1> QED
  BY <1>1, <1>2, <1>3, <1>4, Invariance, PTL

(* back_to_main (sub_stream.c:344) returns on the main KLT of the ES that  *)
(* called it, whichever KLTs the ES has used and whoever has used its main *)
(* KLT in between.                                                         *)
THEOREM BackToMainTheorem == Spec => []BackToMainEndsOnMain
BY ExecutionTheorem, PTL

-----------------------------------------------------------------------------
(* KltSwitch implements UltSched, for every value of the constants: what   *)
(* an ES does to ULTs looks the same whichever KLTs carry it out.          *)

Ended == {t \in Threads : state[t] = "TERMINATED"}
AllExecuting == [e \in Xstreams |-> Executing(e)]

(* KLT k runs the code of a ULT.                                           *)
RunsUlt(k) == stage[k] = "on" /\ ctx[k] \in Threads

(* No KLT starts or stops running a ULT.                                   *)
SameRuns ==
  \A k \in Klts : /\ RunsUlt(k)' <=> RunsUlt(k)
                  /\ RunsUlt(k) => tls'[k] = tls[k] /\ ctx'[k] = ctx[k]

(* If no KLT starts or stops running a ULT, no ES does.                    *)
LEMMA SameExecuting ==
  ASSUME SameRuns
  PROVE  AllExecuting' = AllExecuting
<1>1. ASSUME NEW e \in Xstreams
      PROVE  Executing(e)' = Executing(e)
  BY SMT DEF Executing, RunsUlt, SameRuns
<1> QED
  BY <1>1 DEF AllExecuting

(* A ULT that a KLT runs on behalf of an ES is the only one of that ES.    *)
LEMMA OneUltRuns ==
  ASSUME IInv, NEW k \in Klts, NEW e \in Xstreams, tls[k] = e, stage[k] = "on"
  PROVE  Executing(e) = IF ctx[k] \in Threads THEN {ctx[k]} ELSE {}
<1>1. \A j \in Klts : stage[j] = "on" /\ tls[j] = e => j = k
  BY SMT DEF IInv, OneOwner, Owns, Drives
<1> QED
  BY <1>1, SMT DEF Executing

(* An ES that a sleeping KLT has been granted, or leaves, runs no ULT.     *)
LEMMA NoUltRuns ==
  ASSUME IInv, NEW k \in Klts, NEW e \in Xstreams, Owns(k, e), stage[k] # "on"
  PROVE  Executing(e) = {}
<1>1. \A j \in Klts : ~ (stage[j] = "on" /\ tls[j] = e)
  BY SMT DEF IInv, OneOwner, Owns, Drives
<1> QED
  BY <1>1, SMT DEF Executing

(* Only KLT k changes what it runs, in the name of ES e.                   *)
OnlyAt(k, e) ==
  \A j \in Klts : j # k =>
    /\ RunsUlt(j)' <=> RunsUlt(j)
    /\ RunsUlt(j) => tls'[j] = tls[j] /\ ctx'[j] = ctx[j] /\ tls[j] # e

(* KLT k starts ULT t in the name of e: that ES now runs t and no other.   *)
LEMMA UltStarts ==
  ASSUME NEW k \in Klts, NEW e \in Xstreams, NEW t \in Threads, OnlyAt(k, e),
         ~ RunsUlt(k), RunsUlt(k)', tls'[k] = e, ctx'[k] = t
  PROVE  AllExecuting' = [AllExecuting EXCEPT ![e] = {t}]
<1>1. Executing(e)' = {t}
  BY SMT DEF Executing, OnlyAt, RunsUlt
<1>2. ASSUME NEW d \in Xstreams, d # e
      PROVE  Executing(d)' = Executing(d)
  BY <1>2, SMT DEF Executing, OnlyAt, RunsUlt
<1> QED
  BY <1>1, <1>2 DEF AllExecuting

(* KLT k stops running a ULT: its ES then runs none.                       *)
LEMMA UltStops ==
  ASSUME NEW k \in Klts, NEW e \in Xstreams, OnlyAt(k, e),
         RunsUlt(k), tls[k] = e, ~ RunsUlt(k)'
  PROVE  AllExecuting' = [AllExecuting EXCEPT ![e] = {}]
<1>1. Executing(e)' = {}
  BY SMT DEF Executing, OnlyAt, RunsUlt
<1>2. ASSUME NEW d \in Xstreams, d # e
      PROVE  Executing(d)' = Executing(d)
  BY <1>2, SMT DEF Executing, OnlyAt, RunsUlt
<1> QED
  BY <1>1, <1>2 DEF AllExecuting

(* The steps of UltSched, in terms of KltSwitch.                           *)
AbsStep == [Abstract!Next]_(Abstract!absVars)

(* A step that moves no ULT is a stutter of UltSched.                      *)
LEMMA AbsStutter ==
  ASSUME SameRuns, UNCHANGED <<pool, dispatched, Ended>>
  PROVE  AbsStep
<1>1. AllExecuting' = AllExecuting
  BY SameExecuting
<1> QED
  BY <1>1 DEF AbsStep, Abstract!absVars, Ended, AllExecuting

(* Taking a ULT from a pool, with or without running it, is a Take.        *)
LEMMA AbsTake ==
  ASSUME NEW e \in Xstreams, NEW t \in Threads,
         dispatched[e] = None, t \in pool \cap Serves[e], pool' = pool \ {t},
         dispatched' = [dispatched EXCEPT ![e] = t], Ended' = Ended,
         \/ AllExecuting' = [AllExecuting EXCEPT ![e] = {t}]
         \/ AllExecuting' = AllExecuting
  PROVE  AbsStep
BY DEF AbsStep, Abstract!Next, Abstract!Take, Abstract!TakeAndRun, Abstract!TakeOnly,
   Ended, AllExecuting

(* Running the ULT that an idle ES has dispatched is a Run.                *)
LEMMA AbsRun ==
  ASSUME NEW e \in Xstreams, dispatched[e] # None, Executing(e) = {},
         AllExecuting' = [AllExecuting EXCEPT ![e] = {dispatched[e]}],
         UNCHANGED <<pool, dispatched, Ended>>
  PROVE  AbsStep
BY DEF AbsStep, Abstract!Next, Abstract!Run, Ended, AllExecuting

(* An ES that stops running its ULT makes a Stop.                          *)
LEMMA AbsStop ==
  ASSUME NEW e \in Xstreams, Executing(e) # {},
         AllExecuting' = [AllExecuting EXCEPT ![e] = {}],
         UNCHANGED <<pool, dispatched, Ended>>
  PROVE  AbsStep
BY DEF AbsStep, Abstract!Next, Abstract!Stop, Ended, AllExecuting

(* Putting a dispatched ULT back, or ending it, is a GiveBack.             *)
LEMMA AbsGiveBack ==
  ASSUME NEW e \in Xstreams, dispatched[e] # None, Executing(e) = {},
         dispatched' = [dispatched EXCEPT ![e] = None],
         \/ pool' = pool \cup {dispatched[e]} /\ Ended' = Ended
         \/ Ended' = Ended \cup {dispatched[e]} /\ pool' = pool,
         AllExecuting' = AllExecuting
  PROVE  AbsStep
BY DEF AbsStep, Abstract!Next, Abstract!GiveBack, Ended, AllExecuting

(* Steps that move no ULT and change no ULT's state.                       *)
LEMMA QuietStep ==
  ASSUME IInv, NEW k \in Klts,
         \/ Arm(k) \/ FutexWait(k) \/ OnInitialSleep(k)
         \/ OnSleepAddSelf(k) \/ TrampolineOnSleep(k)
  PROVE  AbsStep
<1>1. SameRuns
  BY SMT DEF SameRuns, RunsUlt, Arm, FutexWait, OnInitialSleep, OnSleepAddSelf,
     TrampolineOnSleep, IInv, TypeOK
<1>2. UNCHANGED <<pool, dispatched, Ended>>
  BY DEF Arm, FutexWait, OnInitialSleep, OnSleepAddSelf, TrampolineOnSleep,
     threadVars, esVars, Ended
<1> QED
  BY <1>1, <1>2, AbsStutter

(* Waking the next KLT of an ES moves no ULT.                              *)
LEMMA HandoffQuiet ==
  ASSUME IInv, NEW k \in Klts, Handoff(k)
  PROVE  AbsStep
<1>1. SameRuns
  BY SMT DEF SameRuns, RunsUlt, Handoff, WakeNext, IInv, TypeOK
<1>2. UNCHANGED <<pool, dispatched, Ended>>
  BY DEF Handoff, threadVars, Ended
<1> QED
  BY <1>1, <1>2, AbsStutter

(* The last step of a preempted KLT before it sleeps only readies its ULT. *)
LEMMA PreemptOnSleepQuiet ==
  ASSUME IInv, NEW k \in Klts, PreemptOnSleep(k)
  PROVE  AbsStep
<1>1. SameRuns
  BY SMT DEF SameRuns, RunsUlt, PreemptOnSleep, WakeNext, IInv, TypeOK
<1>2. tls[k] \in Xstreams /\ cur_thread[tls[k]] \in Threads
      /\ state[cur_thread[tls[k]]] # "TERMINATED"
  BY ConstantsAssumption, SMT DEF PreemptOnSleep, IInv, TypeOK, KltShape, PreemptingInv,
     Preempting, PoolInv, Contexts
<1>3. Ended' = Ended
  BY <1>2, SMT DEF PreemptOnSleep, IInv, TypeOK, Ended
<1>4. UNCHANGED <<pool, dispatched>>
  BY DEF PreemptOnSleep, esVars
<1> QED
  BY <1>1, <1>3, <1>4, AbsStutter

(* A KLT that has been woken owns the ES it was given.                     *)
LEMMA WokenKlt ==
  ASSUME IInv, NEW k \in Klts, stage[k] = "woken"
  PROVE  p_local[k] \in Xstreams /\ Granted(k, p_local[k])
BY SMT DEF IInv, TypeOK, KltShape, Granted

(* A base loop goes on with the scheduler.                                 *)
LEMMA ResumeBaseQuiet ==
  ASSUME IInv, NEW k \in Klts, ResumeBase(k)
  PROVE  AbsStep
<1>1. p_local[k] \in Xstreams /\ p_wakeup_thread[p_local[k]] = None
  BY WokenKlt, SMT DEF ResumeBase, Reload, IInv, GrantedInv
<1>2. /\ ctx'[k] = p_local[k] /\ stage[k] = "woken"
      /\ \A j \in Klts : j # k => /\ ctx'[j] = ctx[j]
                                 /\ tls'[j] = tls[j] /\ stage'[j] = stage[j]
  BY <1>1, SMT DEF ResumeBase, Reload, IInv, TypeOK
<1>3. ~ RunsUlt(k) /\ ~ RunsUlt(k)'
  BY <1>1, <1>2, ConstantsAssumption DEF RunsUlt
<1>4. SameRuns
  BY <1>2, <1>3 DEF SameRuns, RunsUlt
<1>5. UNCHANGED <<pool, dispatched, Ended>>
  BY DEF ResumeBase, threadVars, Ended
<1> QED
  BY <1>4, <1>5, AbsStutter

(* A scheduler that is asked to leave its KLT runs no ULT.                 *)
LEMMA CheckEventsQuiet ==
  ASSUME IInv, NEW k \in Klts, CheckEvents(k)
  PROVE  AbsStep
<1>1. ctx[k] \notin Threads
  BY ConstantsAssumption, SMT DEF CheckEvents, Executes, IInv, TypeOK, KltShape
<1>2. ctx'[k] \notin Threads
  BY <1>1, ConstantsAssumption, SMT DEF CheckEvents, ExitMain, SwitchToBase, IInv, TypeOK
<1>3. \A j \in Klts : j # k => /\ ctx'[j] = ctx[j]
                              /\ tls'[j] = tls[j] /\ stage'[j] = stage[j]
  BY SMT DEF CheckEvents, ExitMain, SwitchToBase, IInv, TypeOK
<1>4. SameRuns
  BY <1>1, <1>2, <1>3 DEF SameRuns, RunsUlt
<1>5. UNCHANGED <<pool, dispatched, Ended>>
  BY DEF CheckEvents, Ended
<1> QED
  BY <1>4, <1>5, AbsStutter

(* New KLTs run no ULT.                                                    *)
LEMMA AllocatorQuiet ==
  ASSUME IInv, AllocatorCreate
  PROVE  AbsStep
<1>1. PICK new \in SUBSET {k \in Subs : stage[k] = "unborn"} :
        stage' = [k \in Klts |-> IF k \in new THEN "arm" ELSE stage[k]]
  BY DEF AllocatorCreate
<1>2. SameRuns
  BY <1>1, SMT DEF SameRuns, RunsUlt, AllocatorCreate, IInv, TypeOK
<1>3. UNCHANGED <<pool, dispatched, Ended>>
  BY DEF AllocatorCreate, esVars, threadVars, Ended
<1> QED
  BY <1>2, <1>3, AbsStutter

(* back_to_main is entered, left, or waits for a KLT.                      *)
LEMMA BackToMainQuiet ==
  ASSUME IInv, UNCHANGED <<tls, ctx, stage, pool, dispatched, state>>
  PROVE  AbsStep
<1>1. SameRuns
  BY DEF SameRuns, RunsUlt
<1>2. Ended' = Ended
  BY DEF Ended
<1> QED
  BY <1>1, <1>2, AbsStutter

(* A ULT that a KLT runs gives up its ES.                                  *)
LEMMA StopsAt ==
  ASSUME IInv, NEW k \in Klts, NEW t \in Threads, Executes(k, t),
         ~ RunsUlt(k)', UNCHANGED tls,
         \A j \in Klts : j # k => ctx'[j] = ctx[j] /\ stage'[j] = stage[j],
         UNCHANGED <<pool, dispatched, Ended>>
  PROVE  AbsStep
<1> DEFINE e == tls[k]
<1>1. /\ e \in Xstreams /\ Drives(k, e) /\ RunsUlt(k)
      /\ stage[k] = "on" /\ ctx[k] = t
  BY ExecutingThread DEF RunsUlt
<1>2. \A j \in Klts : j # k /\ RunsUlt(j) => tls[j] # e
  BY <1>1, DriverAlone, SMT DEF RunsUlt, Drives
<1>3. OnlyAt(k, e)
  BY <1>2, SMT DEF OnlyAt, RunsUlt
<1>4. Executing(e) # {}
  BY <1>1, OneUltRuns
<1>5. AllExecuting' = [AllExecuting EXCEPT ![e] = {}]
  BY <1>1, <1>3, UltStops
<1> QED
  BY <1>1, <1>4, <1>5, AbsStop

(* A ULT that yields stops running.                                        *)
LEMMA YieldStops ==
  ASSUME IInv, NEW k \in Klts, NEW t \in Threads, Yield(k, t)
  PROVE  AbsStep
<1>1. Executes(k, t)
  BY DEF Yield, InUserCode
<1>2. p_last_xstream[t] \in Xstreams /\ state[t] # "TERMINATED"
  BY <1>1, ExecutingThread
<1>3. /\ ctx'[k] = p_last_xstream[t]
      /\ \A j \in Klts : j # k => ctx'[j] = ctx[j] /\ stage'[j] = stage[j]
  BY SMT DEF Yield, IInv, TypeOK
<1>4. ~ RunsUlt(k)'
  BY <1>2, <1>3, ConstantsAssumption DEF RunsUlt
<1>5. Ended' = Ended
  BY <1>2, SMT DEF Yield, IInv, TypeOK, Ended
<1>6. UNCHANGED <<tls, pool, dispatched>>
  BY DEF Yield, esVars
<1> QED
  BY <1>1, <1>3, <1>4, <1>5, <1>6, StopsAt

(* A ULT that ends stops running.                                          *)
LEMMA FinishStops ==
  ASSUME IInv, NEW k \in Klts, NEW t \in Threads, Finish(k, t)
  PROVE  AbsStep
<1>1. Executes(k, t)
  BY DEF Finish, InUserCode
<1>2. p_last_xstream[t] \in Xstreams
  BY <1>1, ExecutingThread
<1>3. /\ ctx'[k] = p_last_xstream[t]
      /\ \A j \in Klts : j # k => ctx'[j] = ctx[j] /\ stage'[j] = stage[j]
  BY SMT DEF Finish, IInv, TypeOK
<1>4. ~ RunsUlt(k)'
  BY <1>2, <1>3, ConstantsAssumption DEF RunsUlt
<1>5. UNCHANGED <<tls, pool, dispatched, Ended>>
  BY DEF Finish, esVars, Ended
<1> QED
  BY <1>1, <1>3, <1>4, <1>5, StopsAt

(* A preempted ULT stops running, unless no sub ES was there to take over. *)
LEMMA PreemptStops ==
  ASSUME IInv, NEW k \in Klts, NEW t \in Threads, Preempt(k, t)
  PROVE  AbsStep
<1>1. Executes(k, t)
  BY DEF Preempt, InUserCode
<1>2. UNCHANGED <<tls, ctx, pool, dispatched, state, Ended>>
  BY DEF Preempt, esVars, threadVars, Ended
<1>3. CASE UNCHANGED stage
  BY <1>2, <1>3, BackToMainQuiet
<1>4. CASE stage' = [stage EXCEPT ![k] = "arm"]
  <2>1. ~ RunsUlt(k)' /\ \A j \in Klts : j # k => ctx'[j] = ctx[j] /\ stage'[j] = stage[j]
    BY <1>2, <1>4, SMT DEF RunsUlt, IInv, TypeOK
  <2> QED
    BY <1>1, <1>2, <2>1, StopsAt
<1> QED
  BY <1>3, <1>4 DEF Preempt

(* A ULT leaves the KLT it runs on for the base thread of that KLT.        *)
LEMMA SwitchStops ==
  ASSUME IInv, NEW k \in Klts, NEW t \in Threads, Executes(k, t), SwitchToBase(k),
         UNCHANGED <<tls, pool, dispatched, state>>
  PROVE  AbsStep
<1>1. ~ RunsUlt(k)' /\ \A j \in Klts : j # k => ctx'[j] = ctx[j] /\ stage'[j] = stage[j]
  BY SMT DEF SwitchToBase, RunsUlt, IInv, TypeOK
<1>2. Ended' = Ended
  BY DEF Ended
<1> QED
  BY <1>1, <1>2, StopsAt

(* back_to_main stops the ULT as it leaves for its main KLT, or moves none.*)
LEMMA BackToMainMaps ==
  ASSUME IInv, NEW k \in Klts, NEW t \in Threads, BackToMainStep(k, t)
  PROVE  AbsStep
<1>1. CASE BackToMainExit(k, t)
  <2>1. UNCHANGED <<tls, pool, dispatched, state>> /\ Executes(k, t)
    BY <1>1 DEF BackToMainExit, esVars
  <2>2. CASE UNCHANGED <<ctx, stage>>
    BY <2>1, <2>2, BackToMainQuiet
  <2>3. CASE ExitMain(k, t)
    BY <2>1, <2>3, SwitchStops DEF ExitMain
  <2> QED
    BY <1>1, <2>2, <2>3 DEF BackToMainExit
<1>2. CASE BackToMainSwitch(k, t)
  BY <1>2, SwitchStops DEF BackToMainSwitch
<1>3. CASE BackToMainReturn(k, t)
  BY <1>3, BackToMainQuiet DEF BackToMainReturn, kltVars, esVars
<1> QED
  BY <1>1, <1>2, <1>3 DEF BackToMainStep

(* A woken KLT starts the ULT that its ES has dispatched.                  *)
LEMMA RunsAt ==
  ASSUME IInv, NEW k \in Klts, stage[k] = "woken",
         dispatched[p_local[k]] \in Threads, ctx'[k] = dispatched[p_local[k]], Reload(k),
         \A j \in Klts : j # k => ctx'[j] = ctx[j],
         UNCHANGED <<pool, dispatched, Ended>>
  PROVE  AbsStep
<1> DEFINE e == p_local[k]
<1>1. e \in Xstreams /\ Granted(k, e)
  BY WokenKlt
<1>2. /\ stage'[k] = "on" /\ tls'[k] = e
      /\ \A j \in Klts : j # k => stage'[j] = stage[j] /\ tls'[j] = tls[j]
  BY SMT DEF Reload, IInv, TypeOK
<1>3. \A j \in Klts : j # k /\ RunsUlt(j) => tls[j] # e
  BY <1>1, SMT DEF RunsUlt, IInv, OneOwner, Owns, Drives
<1>4. OnlyAt(k, e)
  BY <1>2, <1>3, SMT DEF OnlyAt, RunsUlt
<1>5. ~ RunsUlt(k) /\ RunsUlt(k)'
  BY <1>2 DEF RunsUlt
<1>6. AllExecuting' = [AllExecuting EXCEPT ![e] = {dispatched[e]}]
  BY <1>1, <1>2, <1>4, <1>5, UltStarts
<1>7. Executing(e) = {}
  BY <1>1, NoUltRuns DEF Owns
<1>8. dispatched[e] # None
  BY ConstantsAssumption DEF Contexts
<1> QED
  BY <1>1, <1>6, <1>7, <1>8, AbsRun

(* A woken KLT runs the ULT that its ES dispatched before it slept.        *)
LEMMA ResumeMaps ==
  ASSUME IInv, NEW k \in Klts, ResumeThread(k) \/ ResumeTrampoline(k)
  PROVE  AbsStep
<1>1. /\ stage[k] = "woken" /\ Reload(k)
      /\ p_local[k] \in Xstreams /\ Granted(k, p_local[k])
  BY WokenKlt DEF ResumeThread, ResumeTrampoline, Reload
<1>2. UNCHANGED <<pool, dispatched, Ended>>
  BY DEF ResumeThread, ResumeTrampoline, threadVars, Ended
<1>3. CASE ResumeThread(k)
  <2>1. ctx[k] \in Threads /\ dispatched[p_local[k]] = ctx[k] /\ UNCHANGED ctx
    BY <1>1, <1>3 DEF ResumeThread, IInv, GrantedInv
  <2> QED
    BY <1>1, <1>2, <2>1, RunsAt
<1>4. CASE ResumeTrampoline(k)
  <2>1. /\ dispatched[p_local[k]] \in Threads
        /\ p_return_thread[k] = dispatched[p_local[k]]
    BY <1>1, <1>4 DEF ResumeTrampoline, IInv, GrantedInv
  <2>2. ctx'[k] = p_return_thread[k] /\ \A j \in Klts : j # k => ctx'[j] = ctx[j]
    BY <1>4, SMT DEF ResumeTrampoline, IInv, TypeOK
  <2> QED
    BY <1>1, <1>2, <2>1, <2>2, RunsAt
<1> QED
  BY <1>3, <1>4

(* A scheduler takes a ULT and runs it, or wakes the KLT that holds it.    *)
LEMMA DispatchMaps ==
  ASSUME IInv, NEW k \in Klts, NEW t \in Threads, Dispatch(k, t)
  PROVE  AbsStep
<1> DEFINE e == tls[k]
<1>1. Executes(k, e) /\ e \in Xstreams
  BY SMT DEF Dispatch, Executes, IInv, TypeOK, KltShape
<1>2. /\ Drives(k, e) /\ stage[k] = "on" /\ ctx[k] = e /\ ~ RunsUlt(k)
  BY <1>1, ExecutingScheduler, ConstantsAssumption DEF RunsUlt
<1>3. state[t] # "TERMINATED"
  BY DEF Dispatch, IInv, PoolInv
<1>4. Ended' = Ended
  BY <1>3, SMT DEF Dispatch, IInv, TypeOK, Ended
<1>5. /\ dispatched[e] = None /\ t \in pool \cap Serves[e] /\ pool' = pool \ {t}
      /\ dispatched' = [dispatched EXCEPT ![e] = t] /\ UNCHANGED tls
  BY DEF Dispatch
<1>6. \A j \in Klts : j # k => ctx'[j] = ctx[j] /\ stage'[j] = stage[j]
  BY SMT DEF Dispatch, SwitchToBase, IInv, TypeOK
<1>7. CASE t \in preempted
  <2>1. ctx'[k] = k
    BY <1>7, SMT DEF Dispatch, SwitchToBase, IInv, TypeOK
  <2>2. ~ RunsUlt(k)'
    BY <2>1, ConstantsAssumption DEF RunsUlt
  <2>3. SameRuns
    BY <1>2, <1>5, <1>6, <2>2 DEF SameRuns, RunsUlt
  <2>4. AllExecuting' = AllExecuting
    BY <2>3, SameExecuting
  <2> QED
    BY <1>1, <1>4, <1>5, <2>4, AbsTake
<1>8. CASE t \notin preempted
  <2>1. ctx'[k] = t /\ stage'[k] = "on"
    BY <1>2, <1>8, SMT DEF Dispatch, IInv, TypeOK
  <2>2. \A j \in Klts : j # k /\ RunsUlt(j) => tls[j] # e
    BY <1>1, <1>2, DriverAlone, SMT DEF RunsUlt, Drives
  <2>3. OnlyAt(k, e)
    BY <1>5, <1>6, <2>2, SMT DEF OnlyAt, RunsUlt
  <2>4. RunsUlt(k)' /\ tls'[k] = e
    BY <1>5, <2>1 DEF RunsUlt
  <2>5. AllExecuting' = [AllExecuting EXCEPT ![e] = {t}]
    BY <1>1, <1>2, <2>1, <2>3, <2>4, UltStarts
  <2> QED
    BY <1>1, <1>4, <1>5, <2>5, AbsTake
<1> QED
  BY <1>7, <1>8

(* A scheduler that regains control gives its ULT back, or sees it ended.  *)
LEMMA SchedReturnMaps ==
  ASSUME IInv, NEW k \in Klts, SchedReturn(k)
  PROVE  AbsStep
<1> DEFINE e == tls[k]
           t == cur_thread[e]
<1>1. Executes(k, e) /\ e \in Xstreams /\ dispatched[e] # None
  BY SMT DEF SchedReturn, Executes, IInv, TypeOK, KltShape
<1>2. stage[k] = "on" /\ ctx[k] = e /\ Returned(e)
  BY <1>1, ExecutingScheduler
<1>3. t = dispatched[e] /\ t \in Threads /\ state[t] # "TERMINATED"
  BY <1>1, <1>2, SMT DEF Returned, IInv, TypeOK, PoolInv
<1>4. Executing(e) = {}
  BY <1>1, <1>2, OneUltRuns, ConstantsAssumption
<1>5. AllExecuting' = AllExecuting
  BY SameExecuting DEF SchedReturn, kltVars, SameRuns, RunsUlt
<1>6. \/ pool' = pool \cup {t} /\ Ended' = Ended
      \/ Ended' = Ended \cup {t} /\ pool' = pool
  BY <1>3, SMT DEF SchedReturn, IInv, TypeOK, Ended
<1>7. dispatched' = [dispatched EXCEPT ![e] = None]
  BY DEF SchedReturn
<1> QED
  BY <1>1, <1>3, <1>4, <1>5, <1>6, <1>7, AbsGiveBack

(* Every step of KltSwitch is a step of UltSched, or stutters.             *)
LEMMA StepMaps ==
  ASSUME IInv, [Next]_vars
  PROVE  AbsStep
<1>1. ASSUME NEW k \in Klts, SleepStep(k)
      PROVE  AbsStep
  BY <1>1, QuietStep, PreemptOnSleepQuiet, HandoffQuiet, ResumeBaseQuiet, ResumeMaps
     DEF SleepStep
<1>2. ASSUME NEW k \in Klts, SchedReturn(k) \/ CheckEvents(k)
      PROVE  AbsStep
  BY <1>2, SchedReturnMaps, CheckEventsQuiet
<1>3. ASSUME NEW k \in Klts, NEW t \in Threads, Dispatch(k, t)
      PROVE  AbsStep
  BY <1>3, DispatchMaps
<1>4. ASSUME NEW k \in Klts, NEW t \in Threads, Yield(k, t) \/ Finish(k, t) \/ Preempt(k, t)
      PROVE  AbsStep
  BY <1>4, YieldStops, FinishStops, PreemptStops
<1>5. ASSUME NEW k \in Klts, NEW t \in Threads, CallBackToMain(k, t)
      PROVE  AbsStep
  BY <1>5, BackToMainQuiet DEF CallBackToMain, kltVars, esVars
<1>6. ASSUME NEW k \in Klts, NEW t \in Threads, BackToMainStep(k, t)
      PROVE  AbsStep
  BY <1>6, BackToMainMaps
<1>7. CASE AllocatorCreate
  BY <1>7, AllocatorQuiet
<1>8. CASE Idle \/ UNCHANGED vars
  BY <1>8, BackToMainQuiet DEF Idle, vars, kltVars, esVars, threadVars
<1> QED
  BY <1>1, <1>2, <1>3, <1>4, <1>5, <1>6, <1>7, <1>8 DEF Next

(* At the start no ES runs a ULT.                                          *)
LEMMA InitMaps ==
  ASSUME Init
  PROVE  Abstract!Init
<1>1. IInv
  BY InitInv
<1>2. \A k \in Klts : stage[k] = "on" => ctx[k] \notin Threads
  BY <1>1, ConstantsAssumption, SMT DEF IInv, OnInv, TypeOK, Init, Contexts
<1>3. \A e \in Xstreams : Executing(e) = {}
  BY <1>2 DEF Executing
<1>4. {t \in Threads : state[t] = "TERMINATED"} = {}
  BY DEF Init
<1> QED
  BY <1>3, <1>4 DEF Init, Abstract!Init

(* Switching KLTs is invisible to ULT scheduling: seen without KLTs, the   *)
(* runtime takes, runs, stops and gives back one ULT per ES.               *)
THEOREM Refinement == Spec => ImplementsUltSched
<1>1. Init => Abstract!Init
  BY InitMaps
<1>2. IInv /\ [Next]_vars => AbsStep
  BY StepMaps
<1> QED
  BY <1>1, <1>2, Invariance, PTL DEF Spec, ImplementsUltSched, Abstract!Spec, AbsStep

=============================================================================
