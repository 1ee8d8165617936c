------------------------------ MODULE Blocking ------------------------------
(***************************************************************************)
(* How the callers of the synchronisation objects get and lose an ES, as   *)
(* far as the objects can tell: a ULT runs on an ES, waits in the pool the *)
(* ESs share, or is blocked.  The fields behind these steps (state,        *)
(* request, num_blocked) and the other requests are modelled in UltSync,   *)
(* preemption in KltSwitch; inside the runtime ABTI_ENTER (abti.h:742)     *)
(* keeps the timer from preempting.                                        *)
(***************************************************************************)
CONSTANTS
  Xstreams,
  Ults,        \* callers that are ULTs
  Externals,   \* callers that are threads of the application, without an ES
  None

VARIABLES
  cur,         \* cur[e]: the ULT that ES e executes, None: its scheduler
  pool,        \* the ULTs in the pool
  blocking     \* the ULTs with a standing BLOCK request

schedVars == <<cur, pool, blocking>>

Callers == Ults \cup Externals

SchedTypeOK ==
  /\ cur \in [Xstreams -> Ults \cup {None}]
  /\ pool \in SUBSET Ults /\ blocking \in SUBSET Ults

SchedInit ==
  /\ cur = [e \in Xstreams |-> None]
  /\ pool = Ults
  /\ blocking = {}

(* Caller p is executing.                                                  *)
Executes(p) == p \in Externals \/ \E e \in Xstreams : cur[e] = p

(* The scheduler of ES e pops ULT t and runs it.                           *)
Dispatch(e, t) ==
  /\ cur[e] = None /\ t \in pool
  /\ cur' = [cur EXCEPT ![e] = t]
  /\ pool' = pool \ {t}
  /\ UNCHANGED blocking

(* ULT t gives its ES back to the scheduler.                               *)
BackToSched(t) == cur' = [e \in Xstreams |-> IF cur[e] = t THEN None ELSE cur[e]]

(* ULT t yields, or the timer preempts it.                                 *)
YieldUlt(t) ==
  /\ Executes(t)
  /\ BackToSched(t)
  /\ pool' = pool \cup {t}
  /\ UNCHANGED blocking

(* ABTI_thread_set_blocked, by the ULT itself.                             *)
SetBlocked(t) == blocking' = blocking \cup {t}

(* Mutant: the request stays.                                              *)
SuspendKeepsRequest(t) ==
  /\ Executes(t)
  /\ BackToSched(t)
  /\ UNCHANGED <<pool, blocking>>

(* ABTI_thread_suspend: the scheduler takes the BLOCK request back.        *)
SuspendUlt(t) ==
  /\ Executes(t)
  /\ BackToSched(t)
  /\ blocking' = blocking \ {t}
  /\ UNCHANGED pool

(* Mutant: nobody waits for the scheduler of the blocked ULT.              *)
SetReadyAtOnce(t) == pool' = pool \cup {t}

(* ABTI_thread_set_ready: the waker spins as long as the request stands.   *)
SetReady(t) ==
  /\ t \notin blocking
  /\ pool' = pool \cup {t}
=============================================================================
