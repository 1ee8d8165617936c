------------------------------ MODULE KltSwitch ------------------------------
(***************************************************************************)
(* KLT-switching preemption: how the kernel-level threads (sub ESs) of an  *)
(* Argobots runtime hand execution streams to each other.                  *)
(*                                                                         *)
(* An execution stream (ES) is driven by one KLT at a time.  A user-level  *)
(* thread (ULT) preempted in NEW_ES mode keeps its KLT: the signal handler *)
(* puts that KLT to sleep on its futex after waking a fresh KLT, which     *)
(* goes on with the scheduler of the ES.  When a scheduler pops such a     *)
(* ULT, its KLT sleeps in turn after waking the KLT that holds the ULT.    *)
(* Sources: sub_stream.c, preemption_timer.c (preempt), stream.c           *)
(* (schedule_thread, check_events, join), arch/abtd_signal.c (futex).      *)
(*                                                                         *)
(* A "context" is what a KLT executes on its processor: the scheduler of   *)
(* an ES (named by the ES), the base thread of a KLT (named by the KLT;    *)
(* for a main KLT the trampoline thread), or a ULT.                        *)
(***************************************************************************)
EXTENDS Naturals, FiniteSets

CONSTANTS
  Xstreams,   \* execution streams
  Klts,       \* kernel-level threads, those not created yet included
  Threads,    \* user-level threads
  Main,       \* Main[e]: the KLT that started as the Pthread of ES e
  InitSubs,   \* InitSubs[e]: the KLTs created for the local list of ES e
  InitNum,    \* gp_ABTI_global->initial_num_sub_xstreams
  Serves,     \* Serves[e]: the ULTs of the pools the scheduler of e pops from
  NewEs,      \* ULTs whose preemption type is ABT_PREEMPTION_NEW_ES
  Joiners,    \* ULTs that may call ABT_xstream_join or ABT_finalize
  None

Mains    == {Main[e] : e \in Xstreams}
Subs     == Klts \ Mains
Contexts == Xstreams \cup Klts \cup Threads

ASSUME ConstantsAssumption ==
  /\ Xstreams \cap Klts = {} /\ Xstreams \cap Threads = {} /\ Klts \cap Threads = {}
  /\ None \notin Contexts
  /\ Main \in [Xstreams -> Klts]
  /\ \A d, e \in Xstreams : Main[d] = Main[e] => d = e
  /\ InitSubs \in [Xstreams -> SUBSET Subs]
  /\ \A d, e \in Xstreams : d # e => InitSubs[d] \cap InitSubs[e] = {}
  /\ InitNum \in Nat \ {0}
  /\ \A e \in Xstreams : IsFiniteSet(InitSubs[e]) /\ Cardinality(InitSubs[e]) = InitNum
  /\ Serves \in [Xstreams -> SUBSET Threads]
  /\ NewEs \subseteq Threads /\ Joiners \subseteq Threads

VARIABLES
  \* a KLT
  tls,              \* lp_ABTI_local: the ES the KLT believes it drives
  ctx,              \* the context it executes, or sleeps in
  stage,            \* where it is in ABTI_sub_xstream_sleep
  next_sub,         \* argument of the sleep callback of the signal handler
  \* fields of its ABTI_sub_xstream
  sleep_flag, p_local, ready, p_return_thread,
  \* fields of an ABTI_xstream and of its ES-local data
  p_wakeup_thread, p_cur_sub, cur_thread,
  dispatched,       \* the ULT schedule_thread of the ES has switched to
  sub_list,         \* the local list of sleeping KLTs
  \* the allocator
  global_list,      \* the global list of sleeping KLTs
  alloc_req,        \* the allocator has been woken and has not run yet
  \* a ULT (p_wakeup: also the thread of a scheduler or of a trampoline)
  pool,             \* the ULTs that are in their pools
  state,
  preempted,        \* the ULTs with the preempted flag
  p_wakeup, p_last_xstream,
  request,          \* the ULTs with ABTI_THREAD_REQ_TERMINATE
  btm               \* progress in ABTI_sub_xstream_back_to_main

kltVars    == <<tls, ctx, stage, next_sub>>
futexVars  == <<sleep_flag, p_local>>
mainVars   == <<ready, p_return_thread>>
esVars     == <<p_wakeup_thread, p_cur_sub, cur_thread, dispatched>>
listVars   == <<sub_list, global_list, alloc_req>>
threadVars == <<pool, state, preempted, p_wakeup, p_last_xstream, request, btm>>
vars == <<kltVars, futexVars, mainVars, esVars, listVars, threadVars>>

Stages == {"unborn",    \* not created
           "on",        \* executing its context
           "arm",       \* entered ABTD_futex_sleep
           "callback",  \* stored sleep_flag, running the callback
           "handoff",   \* in the callback, about to wake the next KLT
           "wait",      \* about to call FUTEX_WAIT
           "asleep",    \* blocked in FUTEX_WAIT
           "woken"}     \* FUTEX_WAIT has returned

TypeOK ==
  /\ tls \in [Klts -> Xstreams \cup {None}]
  /\ ctx \in [Klts -> Contexts]
  /\ stage \in [Klts -> Stages]
  /\ next_sub \in [Klts -> Klts \cup {None}]
  /\ sleep_flag \in [Klts -> {0, 1}]
  /\ p_local \in [Klts -> Xstreams \cup {None}]
  /\ ready \in [Klts -> {0, 1}]
  /\ p_return_thread \in [Klts -> Threads \cup {None}]
  /\ p_wakeup_thread \in [Xstreams -> Contexts \cup {None}]
  /\ p_cur_sub \in [Xstreams -> Klts]
  /\ cur_thread \in [Xstreams -> Contexts]
  /\ dispatched \in [Xstreams -> Threads \cup {None}]
  /\ sub_list \in [Xstreams -> SUBSET Subs]
  /\ global_list \in SUBSET Subs
  /\ alloc_req \in BOOLEAN
  /\ pool \in SUBSET Threads
  /\ state \in [Threads -> {"READY", "RUNNING", "TERMINATED"}]
  /\ preempted \in SUBSET Threads
  /\ p_wakeup \in [Contexts -> Klts \cup {None}]
  /\ p_last_xstream \in [Threads -> Xstreams \cup {None}]
  /\ request \in SUBSET Threads
  /\ btm \in [Threads -> {"no", "exit", "main", "back"}]

-----------------------------------------------------------------------------
(* The lists of sleeping KLTs.  Which member a pop returns is left open.   *)

(* A KLT created by the allocator has not reached the global list.         *)
Booting(k) == tls[k] = None /\ stage[k] \in {"arm", "callback"}

(* Mutant: the head of the list is not advanced.                           *)
ListPopKeeps(e, s) ==
  /\ s \in sub_list[e] \/ (sub_list[e] = {} /\ s \in global_list)
  /\ UNCHANGED <<sub_list, global_list, alloc_req>>

(* ABTI_sub_xstream_list_pop called by ES e returns s.                     *)
ListPop(e, s) ==
  \/ /\ s \in sub_list[e]
     /\ sub_list' = [sub_list EXCEPT ![e] = @ \ {s}]
     /\ UNCHANGED <<global_list, alloc_req>>
  \/ /\ sub_list[e] = {}
     /\ s \in global_list
     /\ global_list' = global_list \ {s}
     /\ UNCHANGED <<sub_list, alloc_req>>

(* Mutant: the allocator is not asked for more KLTs.                       *)
ListPopFailsSilently(e) ==
  /\ sub_list[e] = {} /\ global_list = {}
  /\ UNCHANGED <<sub_list, global_list, alloc_req>>

(* ABTI_sub_xstream_list_pop called by ES e finds no KLT.                  *)
ListPopFails(e) ==
  /\ sub_list[e] = {} /\ global_list = {}
  /\ alloc_req' = (alloc_req \/ ~ \E k \in Klts : Booting(k))
  /\ UNCHANGED <<sub_list, global_list>>

(* Mutant: no return after the local list has taken the KLT.               *)
ListAddTwice(e, k) ==
  /\ sub_list' = IF Cardinality(sub_list[e]) < InitNum
                 THEN [sub_list EXCEPT ![e] = @ \cup {k}] ELSE sub_list
  /\ global_list' = global_list \cup {k}
  /\ UNCHANGED alloc_req

(* ABTI_sub_xstream_list_add called by ES e: the local list has a bound.   *)
ListAdd(e, k) ==
  IF Cardinality(sub_list[e]) < InitNum
  THEN /\ sub_list' = [sub_list EXCEPT ![e] = @ \cup {k}]
       /\ UNCHANGED <<global_list, alloc_req>>
  ELSE /\ global_list' = global_list \cup {k}
       /\ UNCHANGED <<sub_list, alloc_req>>

-----------------------------------------------------------------------------
(* Sleeping and waking.  ABTD_futex_sleep stores sleep_flag, runs the      *)
(* callback and waits; ABTD_futex_wakeup clears the flag and wakes the     *)
(* waiter only if the flag was set.                                        *)

(* Mutant: the woken KLT is not told its ES.                               *)
WakeNextAnonymously(k, s) ==
  /\ sleep_flag' = [sleep_flag EXCEPT ![s] = 0]
  /\ stage' = [stage EXCEPT
                 ![s] = IF @ = "asleep" /\ sleep_flag[s] = 1 THEN "woken" ELSE @,
                 ![k] = "wait"]
  /\ UNCHANGED p_local

(* KLT k wakes s with its own ES and is left in front of FUTEX_WAIT.       *)
WakeNext(k, s) ==
  /\ p_local' = [p_local EXCEPT ![s] = tls[k]]
  /\ sleep_flag' = [sleep_flag EXCEPT ![s] = 0]
  /\ stage' = [stage EXCEPT
                 ![s] = IF @ = "asleep" /\ sleep_flag[s] = 1 THEN "woken" ELSE @,
                 ![k] = "wait"]

Arm(k) ==
  /\ stage[k] = "arm"
  /\ stage' = [stage EXCEPT ![k] = "callback"]
  /\ sleep_flag' = [sleep_flag EXCEPT ![k] = 1]
  /\ UNCHANGED <<tls, ctx, next_sub, p_local, mainVars, esVars, listVars, threadVars>>

FutexWait(k) ==
  /\ stage[k] = "wait"
  /\ stage' = [stage EXCEPT ![k] = IF sleep_flag[k] = 1 THEN "asleep" ELSE "woken"]
  /\ UNCHANGED <<tls, ctx, next_sub, futexVars, mainVars, esVars, listVars, threadVars>>

(* A KLT of the allocator starts, sleeps and adds itself to the list.      *)
OnInitialSleep(k) ==
  /\ stage[k] = "callback" /\ ctx[k] = k /\ tls[k] = None
  /\ ready' = [ready EXCEPT ![k] = 1]
  /\ global_list' = global_list \cup {k}
  /\ stage' = [stage EXCEPT ![k] = "wait"]
  /\ UNCHANGED <<tls, ctx, next_sub, futexVars, p_return_thread, esVars,
                 sub_list, alloc_req, threadVars>>

(* Mutant: the ULT is not marked as preempted.                             *)
PreemptOnSleepUnmarked(k) ==
  LET t == cur_thread[tls[k]]
  IN /\ stage[k] = "callback" /\ ctx[k] \in Threads
     /\ p_wakeup' = [p_wakeup EXCEPT ![t] = k]
     /\ state' = [state EXCEPT ![t] = "READY"]
     /\ WakeNext(k, next_sub[k])
     /\ next_sub' = [next_sub EXCEPT ![k] = None]
     /\ UNCHANGED <<tls, ctx, mainVars, esVars, listVars, pool, preempted,
                    p_last_xstream, request, btm>>

(* The signal handler ties the preempted ULT to its KLT, wakes the next.   *)
PreemptOnSleep(k) ==
  LET t == cur_thread[tls[k]]
  IN /\ stage[k] = "callback" /\ ctx[k] \in Threads
     /\ preempted' = preempted \cup {t}
     /\ p_wakeup' = [p_wakeup EXCEPT ![t] = k]
     /\ state' = [state EXCEPT ![t] = "READY"]
     /\ WakeNext(k, next_sub[k])
     /\ next_sub' = [next_sub EXCEPT ![k] = None]
     /\ UNCHANGED <<tls, ctx, mainVars, esVars, listVars, pool,
                    p_last_xstream, request, btm>>

(* A sub KLT returns to a list before it wakes the next one.               *)
OnSleepAddSelf(k) ==
  /\ stage[k] = "callback" /\ ctx[k] = k /\ k \in Subs /\ tls[k] # None
  /\ ListAdd(tls[k], k)
  /\ stage' = [stage EXCEPT ![k] = "handoff"]
  /\ UNCHANGED <<tls, ctx, next_sub, futexVars, mainVars, esVars, threadVars>>

(* A main KLT only announces that it sleeps.                               *)
TrampolineOnSleep(k) ==
  /\ stage[k] = "callback" /\ ctx[k] = k /\ k \in Mains
  /\ ready' = [ready EXCEPT ![k] = 1]
  /\ stage' = [stage EXCEPT ![k] = "handoff"]
  /\ UNCHANGED <<tls, ctx, next_sub, futexVars, p_return_thread, esVars,
                 listVars, threadVars>>

(* Mutant: the ES-local data keep naming the base thread.                  *)
TakeWakeupThreadUnset(e) ==
  /\ p_wakeup_thread' = [p_wakeup_thread EXCEPT ![e] = None]
  /\ UNCHANGED cur_thread

(* The thread that ES e goes on with becomes its current one.              *)
TakeWakeupThread(e) ==
  /\ p_wakeup_thread' = [p_wakeup_thread EXCEPT ![e] = None]
  /\ cur_thread' = [cur_thread EXCEPT ![e] = p_wakeup_thread[e]]

(* Both callbacks end by waking the KLT of the next thread.                *)
Handoff(k) ==
  LET e == tls[k]
      u == p_wakeup_thread[e]
  IN /\ stage[k] = "handoff"
     /\ IF u # None
        THEN TakeWakeupThread(e) /\ WakeNext(k, p_wakeup[u])
        ELSE /\ stage' = [stage EXCEPT ![k] = "wait"]
             /\ UNCHANGED <<futexVars, p_wakeup_thread, cur_thread>>
     /\ UNCHANGED <<tls, ctx, next_sub, mainVars, p_cur_sub, dispatched,
                    listVars, threadVars>>

(* Mutant: the ES keeps naming the KLT that drove it before.               *)
ReloadStale(k) ==
  /\ stage[k] = "woken"
  /\ stage' = [stage EXCEPT ![k] = "on"]
  /\ tls' = [tls EXCEPT ![k] = p_local[k]]
  /\ UNCHANGED p_cur_sub

(* The end of ABTI_sub_xstream_sleep: the KLT reloads the ES it was given. *)
Reload(k) ==
  /\ stage[k] = "woken"
  /\ stage' = [stage EXCEPT ![k] = "on"]
  /\ tls' = [tls EXCEPT ![k] = p_local[k]]
  /\ p_cur_sub' = [p_cur_sub EXCEPT ![p_local[k]] = k]

(* ... in the signal handler of a preempted ULT                            *)
ResumeThread(k) ==
  /\ ctx[k] \in Threads
  /\ Reload(k)
  /\ preempted' = preempted \ {ctx[k]}
  /\ UNCHANGED <<ctx, next_sub, futexVars, mainVars, p_wakeup_thread, cur_thread,
                 dispatched, listVars, pool, state, p_wakeup, p_last_xstream,
                 request, btm>>

(* ... in the base loop, which goes on with a thread or the scheduler      *)
ResumeBase(k) ==
  LET e == p_local[k]
      u == p_wakeup_thread[e]
  IN /\ ctx[k] = k /\ k \in Subs
     /\ Reload(k)
     /\ IF u # None
        THEN TakeWakeupThread(e) /\ ctx' = [ctx EXCEPT ![k] = u]
        ELSE /\ ctx' = [ctx EXCEPT ![k] = e]
             /\ UNCHANGED <<p_wakeup_thread, cur_thread>>
     /\ UNCHANGED <<next_sub, futexVars, mainVars, dispatched, listVars, threadVars>>

(* ... in the trampoline, which goes on with p_return_thread               *)
ResumeTrampoline(k) ==
  LET u == p_return_thread[k]
  IN /\ ctx[k] = k /\ k \in Mains
     /\ Reload(k)
     /\ ctx' = [ctx EXCEPT ![k] = u]
     /\ cur_thread' = [cur_thread EXCEPT ![p_local[k]] = u]
     /\ UNCHANGED <<next_sub, futexVars, mainVars, p_wakeup_thread, dispatched,
                    listVars, threadVars>>

-----------------------------------------------------------------------------
(* The scheduler of an ES, in whichever KLT drives it.                     *)

Executes(k, u) == stage[k] = "on" /\ ctx[k] = u

(* A switch from a scheduler or a ULT to the base thread of its KLT, which *)
(* goes to sleep at once.                                                  *)
SwitchToBase(k) ==
  /\ ctx' = [ctx EXCEPT ![k] = k]
  /\ cur_thread' = [cur_thread EXCEPT ![tls[k]] = k]
  /\ stage' = [stage EXCEPT ![k] = "arm"]

(* ABTI_xstream_schedule_thread: a ULT that was preempted continues only   *)
(* on the KLT that holds it, any other on the KLT of the scheduler.        *)
Dispatch(k, t) ==
  LET e == tls[k]
  IN /\ Executes(k, e)
     /\ dispatched[e] = None
     /\ t \in pool \cap Serves[e]
     /\ pool' = pool \ {t}
     /\ p_last_xstream' = [p_last_xstream EXCEPT ![t] = e]
     /\ state' = [state EXCEPT ![t] = "RUNNING"]
     /\ dispatched' = [dispatched EXCEPT ![e] = t]
     /\ IF t \in preempted
        THEN /\ p_wakeup_thread' = [p_wakeup_thread EXCEPT ![e] = t]
             /\ SwitchToBase(k)
        ELSE /\ ctx' = [ctx EXCEPT ![k] = t]
             /\ cur_thread' = [cur_thread EXCEPT ![e] = t]
             /\ UNCHANGED <<p_wakeup_thread, stage>>
     /\ UNCHANGED <<tls, next_sub, futexVars, mainVars, p_cur_sub, listVars,
                    preempted, p_wakeup, request, btm>>

(* The second half of schedule_thread: the ULT that gave up the ES         *)
(* terminates or goes back to its pool.                                    *)
SchedReturn(k) ==
  LET e == tls[k]
      t == cur_thread[e]
  IN /\ Executes(k, e)
     /\ dispatched[e] # None
     /\ dispatched' = [dispatched EXCEPT ![e] = None]
     /\ IF t \in request
        THEN /\ state' = [state EXCEPT ![t] = "TERMINATED"]
             /\ UNCHANGED pool
        ELSE /\ state' = [state EXCEPT ![t] = "READY"]
             /\ pool' = pool \cup {t}
     /\ UNCHANGED <<kltVars, futexVars, mainVars, p_wakeup_thread, p_cur_sub,
                    cur_thread, listVars, preempted, p_wakeup, p_last_xstream,
                    request, btm>>

(* ABTI_sub_xstream_exit_main on the main KLT of another ES: context u     *)
(* moves to a KLT of a list and the main KLT goes back to its trampoline.  *)
OnForeignMain(k) == k \in Mains /\ k # Main[tls[k]]

ExitMain(k, u) ==
  /\ \E s \in Subs : /\ ListPop(tls[k], s)
                     /\ p_wakeup' = [p_wakeup EXCEPT ![u] = s]
  /\ p_wakeup_thread' = [p_wakeup_thread EXCEPT ![tls[k]] = u]
  /\ SwitchToBase(k)

(* ABTI_xstream_check_events                                               *)
CheckEvents(k) ==
  LET e == tls[k]
  IN /\ Executes(k, e)
     /\ dispatched[e] = None
     /\ OnForeignMain(k)
     /\ \/ ExitMain(k, e)
        \/ /\ ListPopFails(e)
           /\ UNCHANGED <<ctx, cur_thread, stage, p_wakeup, p_wakeup_thread>>
     /\ UNCHANGED <<tls, next_sub, futexVars, mainVars, p_cur_sub, dispatched,
                    pool, state, preempted, p_last_xstream, request, btm>>

-----------------------------------------------------------------------------
(* User-level threads.                                                     *)

(* Mutant: library code can be preempted.                                  *)
InUserCodeAlways(k, t) == Executes(k, t)

(* Outside of the library, where the entry count of the KLT is 0.          *)
InUserCode(k, t) == Executes(k, t) /\ btm[t] = "no"

(* ABTI_thread_yield, also in the handler of a ULT preempted by yielding.  *)
Yield(k, t) ==
  /\ InUserCode(k, t)
  /\ state' = [state EXCEPT ![t] = "READY"]
  /\ ctx' = [ctx EXCEPT ![k] = p_last_xstream[t]]
  /\ UNCHANGED <<tls, stage, next_sub, futexVars, mainVars, esVars, listVars,
                 pool, preempted, p_wakeup, p_last_xstream, request, btm>>

Finish(k, t) ==
  /\ InUserCode(k, t)
  /\ request' = request \cup {t}
  /\ ctx' = [ctx EXCEPT ![k] = p_last_xstream[t]]
  /\ UNCHANGED <<tls, stage, next_sub, futexVars, mainVars, esVars, listVars,
                 pool, state, preempted, p_wakeup, p_last_xstream, btm>>

(* A timer tick in user code: ABTI_preemption_timer_preempt.               *)
Preempt(k, t) ==
  /\ InUserCode(k, t)
  /\ t \in NewEs
  /\ \/ \E s \in Subs : /\ ListPop(tls[k], s)
                        /\ next_sub' = [next_sub EXCEPT ![k] = s]
                        /\ stage' = [stage EXCEPT ![k] = "arm"]
     \/ ListPopFails(tls[k]) /\ UNCHANGED <<next_sub, stage>>
  /\ UNCHANGED <<tls, ctx, futexVars, mainVars, esVars, threadVars>>

(* ABTI_sub_xstream_back_to_main, called at the end of ABT_xstream_join    *)
(* and by ABT_finalize.  The waits of its loops are guards.                *)
CallBackToMain(k, t) ==
  /\ InUserCode(k, t)
  /\ t \in Joiners
  /\ btm' = [btm EXCEPT ![t] = "exit"]
  /\ UNCHANGED <<kltVars, futexVars, mainVars, esVars, listVars, pool, state,
                 preempted, p_wakeup, p_last_xstream, request>>

BackToMainExit(k, t) ==
  /\ Executes(k, t) /\ btm[t] = "exit"
  /\ IF ~ OnForeignMain(k)
     THEN /\ btm' = [btm EXCEPT ![t] = "main"]
          /\ UNCHANGED <<ctx, stage, esVars, listVars, p_wakeup>>
     ELSE \/ /\ ExitMain(k, t)
             /\ btm' = [btm EXCEPT ![t] = "main"]
             /\ UNCHANGED <<p_cur_sub, dispatched>>
          \/ /\ ListPopFails(tls[k])
             /\ UNCHANGED <<ctx, stage, esVars, p_wakeup, btm>>
  /\ UNCHANGED <<tls, next_sub, futexVars, mainVars, pool, state, preempted,
                 p_last_xstream, request>>

BackToMainSwitch(k, t) ==
  LET e == tls[k]
      m == Main[e]
  IN /\ Executes(k, t) /\ btm[t] = "main"
     /\ k # m /\ ready[m] = 1
     /\ ready' = [ready EXCEPT ![m] = 0]
     /\ p_return_thread' = [p_return_thread EXCEPT ![m] = t]
     /\ p_wakeup_thread' = [p_wakeup_thread EXCEPT ![e] = m]
     /\ p_wakeup' = [p_wakeup EXCEPT ![m] = m]
     /\ SwitchToBase(k)
     /\ btm' = [btm EXCEPT ![t] = "back"]
     /\ UNCHANGED <<tls, next_sub, futexVars, p_cur_sub, dispatched, listVars,
                    pool, state, preempted, p_last_xstream, request>>

BackToMainReturn(k, t) ==
  /\ Executes(k, t)
  /\ \/ btm[t] = "back"
     \/ btm[t] = "main" /\ k = Main[tls[k]]
  /\ btm' = [btm EXCEPT ![t] = "no"]
  /\ UNCHANGED <<kltVars, futexVars, mainVars, esVars, listVars, pool, state,
                 preempted, p_wakeup, p_last_xstream, request>>

-----------------------------------------------------------------------------
(* The allocator creates InitNum KLTs, or those left of the finite Klts.   *)
AllocatorCreate ==
  LET unborn == {k \in Subs : stage[k] = "unborn"}
      n == IF Cardinality(unborn) < InitNum THEN Cardinality(unborn) ELSE InitNum
  IN /\ alloc_req
     /\ unborn # {}
     /\ alloc_req' = FALSE
     /\ \E new \in SUBSET unborn :
          /\ Cardinality(new) = n
          /\ stage' = [k \in Klts |-> IF k \in new THEN "arm" ELSE stage[k]]
     /\ UNCHANGED <<tls, ctx, next_sub, futexVars, mainVars, esVars, sub_list,
                    global_list, threadVars>>

(* All ULTs are done and the schedulers poll empty pools.                  *)
Idle ==
  /\ \A t \in Threads : state[t] = "TERMINATED"
  /\ UNCHANGED vars

Init ==
  LET listed(k) == \E e \in Xstreams : k \in InitSubs[e]
      home(k) == CHOOSE e \in Xstreams : Main[e] = k
  IN /\ tls = [k \in Klts |-> IF k \in Mains THEN home(k) ELSE None]
     /\ ctx = [k \in Klts |-> IF k \in Mains THEN home(k) ELSE k]
     /\ stage = [k \in Klts |-> IF k \in Mains THEN "on"
                                ELSE IF listed(k) THEN "wait" ELSE "unborn"]
     /\ next_sub = [k \in Klts |-> None]
     /\ sleep_flag = [k \in Klts |-> IF listed(k) THEN 1 ELSE 0]
     /\ p_local = [k \in Klts |-> None]
     /\ ready = [k \in Klts |-> IF listed(k) THEN 1 ELSE 0]
     /\ p_return_thread = [k \in Klts |-> None]
     /\ p_wakeup_thread = [e \in Xstreams |-> None]
     /\ p_cur_sub = Main
     /\ cur_thread = [e \in Xstreams |-> e]
     /\ dispatched = [e \in Xstreams |-> None]
     /\ sub_list = InitSubs
     /\ global_list = {}
     /\ alloc_req = FALSE
     /\ pool = Threads
     /\ state = [t \in Threads |-> "READY"]
     /\ preempted = {}
     /\ p_wakeup = [u \in Contexts |-> None]
     /\ p_last_xstream = [t \in Threads |-> None]
     /\ request = {}
     /\ btm = [t \in Threads |-> "no"]

SleepStep(k) ==
  \/ Arm(k) \/ FutexWait(k)
  \/ OnInitialSleep(k) \/ PreemptOnSleep(k)
  \/ OnSleepAddSelf(k) \/ TrampolineOnSleep(k) \/ Handoff(k)
  \/ ResumeThread(k) \/ ResumeBase(k) \/ ResumeTrampoline(k)

BackToMainStep(k, t) ==
  BackToMainExit(k, t) \/ BackToMainSwitch(k, t) \/ BackToMainReturn(k, t)

Next ==
  \/ \E k \in Klts : SleepStep(k) \/ SchedReturn(k) \/ CheckEvents(k)
  \/ \E k \in Klts, t \in Threads :
       \/ Dispatch(k, t)
       \/ Yield(k, t) \/ Finish(k, t) \/ Preempt(k, t)
       \/ CallBackToMain(k, t) \/ BackToMainStep(k, t)
  \/ AllocatorCreate
  \/ Idle

Spec == Init /\ [][Next]_vars

(* KLTs are scheduled by the kernel, so code that does not wait goes on.   *)
(* Pools are FIFO, so a ULT that keeps being in the pool of a polling      *)
(* scheduler is popped; a scheduler calls check_events every event_freq    *)
(* iterations.                                                             *)
RuntimeFairness ==
  /\ \A k \in Klts : WF_vars(SleepStep(k) \/ SchedReturn(k))
  /\ \A k \in Mains : SF_vars(CheckEvents(k))
  /\ \A t \in Threads : SF_vars(\E k \in Klts : Dispatch(k, t))
  /\ \A t \in Joiners : WF_vars(\E k \in Klts : BackToMainStep(k, t))
  /\ WF_vars(AllocatorCreate)

(* Timer ticks keep arriving at a ULT that keeps running, however long it  *)
(* runs; a ULT that cannot be preempted gives up its ES on its own.        *)
FairSpec ==
  /\ Spec /\ RuntimeFairness
  /\ \A t \in NewEs : SF_vars(\E k \in Klts : Preempt(k, t))
  /\ \A t \in Threads \ NewEs : WF_vars(\E k \in Klts : Yield(k, t) \/ Finish(k, t))

(* Every ULT that keeps getting processor time ends.                       *)
EndingSpec ==
  /\ Spec /\ RuntimeFairness
  /\ \A t \in Threads : SF_vars(\E k \in Klts : Finish(k, t))

-----------------------------------------------------------------------------
(* Correctness.                                                            *)

(* KLT k executes on behalf of ES e; k has been woken for ES e but has not *)
(* reloaded it yet.                                                        *)
Drives(k, e)  == tls[k] = e /\ stage[k] \in {"on", "arm", "callback", "handoff"}
Granted(k, e) == /\ p_local[k] = e /\ sleep_flag[k] = 0
                 /\ stage[k] \in {"handoff", "wait", "woken"}

(* Every ES is driven by one KLT, or has been granted to one: switching    *)
(* KLTs neither duplicates nor loses an ES (sub_stream.c, preempt).        *)
OneDriver ==
  \A e \in Xstreams : \E k \in Klts :
    /\ Drives(k, e) # Granted(k, e)
    /\ \A j \in Klts \ {k} : ~ Drives(j, e) /\ ~ Granted(j, e)

(* The KLT that a sleep callback is about to wake.                         *)
WakeupTarget(k) ==
  IF stage[k] = "callback" /\ ctx[k] \in Threads THEN next_sub[k]
  ELSE IF stage[k] = "handoff" /\ p_wakeup_thread[tls[k]] # None
       THEN p_wakeup[p_wakeup_thread[tls[k]]]
       ELSE None

(* A wakeup clears the flag whatever it was, so one that finds it clear is *)
(* lost: every KLT about to be woken has armed its flag, is the target of  *)
(* one waker only and is not a waker's own KLT (ABTD_futex_wakeup).        *)
WakeupNeverLost ==
  \A k \in Klts :
    LET s == WakeupTarget(k)
    IN s # None => /\ s # k /\ sleep_flag[s] = 1
                   /\ stage[s] \in {"handoff", "wait", "asleep"}
                   /\ \A j \in Klts \ {k} : WakeupTarget(j) # s

(* No context is loaded on two KLTs: a preempted ULT, whose stack and      *)
(* signal frame are on its KLT, runs nowhere else, and the scheduler of an *)
(* ES has one copy (schedule_thread, preempted).                           *)
ContextOnOneKlt ==
  \A j, k \in Klts : ctx[j] = ctx[k] => j = k

(* A KLT in a list is asleep or about to be, holds nothing, is in one list *)
(* only and is no main KLT, although a KLT lists itself before it sleeps.  *)
ListedKltsSleep ==
  \A k \in Subs :
    LET listedBy == {e \in Xstreams : k \in sub_list[e]}
    IN (k \in global_list \/ listedBy # {}) =>
         /\ ctx[k] = k /\ sleep_flag[k] = 1
         /\ stage[k] \in {"handoff", "wait", "asleep"}
         /\ k \in global_list => listedBy = {}
         /\ \A d, e \in listedBy : d = e

(* The half of schedule_thread after the context switch reads the ULT from *)
(* ES-local data: across any number of KLT switches it is the ULT that the *)
(* first half dispatched (stream.c, ABTI_local_get_thread_explicit).       *)
SchedulerGetsItsThread ==
  \A k \in Klts : \A e \in Xstreams :
    Executes(k, e) /\ dispatched[e] # None => cur_thread[e] = dispatched[e]

(* A running context agrees with the KLT it runs on about its ES, and      *)
(* p_cur_sub, the KLT that timer signals are sent to, is that KLT.         *)
RunningOnOwnEs ==
  \A k \in Klts :
    /\ stage[k] = "on" => p_cur_sub[tls[k]] = k
    /\ stage[k] = "on" /\ ctx[k] \in Threads => p_last_xstream[ctx[k]] = tls[k]
    /\ stage[k] = "on" /\ ctx[k] \in Xstreams => ctx[k] = tls[k]

(* ABTI_ASSERT at the end of ABTI_sub_xstream_back_to_main.                *)
BackToMainEndsOnMain ==
  \A k \in Klts, t \in Threads :
    Executes(k, t) /\ btm[t] = "back" => k = Main[tls[k]]

(* A KLT woken in its base loop finds no pending p_wakeup_thread, because  *)
(* every callback takes it: the base loop always goes on with a scheduler. *)
BaseLoopFindsNoThread ==
  \A k \in Subs :
    stage[k] = "woken" /\ ctx[k] = k => p_wakeup_thread[p_local[k]] = None

(* A ULT that never yields cannot keep an ES to itself: the scheduler of   *)
(* every ES regains control again and again, which is what preemption is   *)
(* for (ABTI_preemption_timer_preempt).                                    *)
SchedulerRegainsEs ==
  \A e \in Xstreams : []<>(\E k \in Klts : Executes(k, e))

(* A preempted ULT runs again, although only one KLT can run it.           *)
PreemptedResumes ==
  \A t \in Threads : t \in preempted ~> t \notin preempted

(* ABTI_sub_xstream_back_to_main returns: "wait until the main ES surely   *)
(* sleeps" (sub_stream.c) ends.                                            *)
BackToMainReturns ==
  \A t \in Joiners : btm[t] # "no" ~> btm[t] = "no"

-----------------------------------------------------------------------------
(* Switching KLTs is invisible to ULT scheduling: seen without KLTs, the   *)
(* runtime takes, runs, stops and gives back one ULT per ES (UltSched).    *)
Executing(e) == {ctx[k] : k \in {j \in Klts : stage[j] = "on" /\ tls[j] = e}} \cap Threads

Abstract == INSTANCE UltSched WITH
  queued <- pool,
  executing <- [e \in Xstreams |-> Executing(e)],
  ended <- {t \in Threads : state[t] = "TERMINATED"}

ImplementsUltSched == Abstract!Spec

=============================================================================
