-------------------------- MODULE KltSwitchInductive --------------------------
(***************************************************************************)
(* The inductive invariant behind the safety properties of KltSwitch.      *)
(*                                                                         *)
(* Every ES is a token that exactly one KLT owns: the KLT drives the ES or *)
(* has been granted it by a wakeup.  What the owner is doing determines    *)
(* the ES-local data, and a KLT that nobody drives with is held for one    *)
(* purpose: it is listed, it keeps a preempted ULT, it is a parked main    *)
(* KLT, or exactly one owner is on its way to wake it.                     *)
(***************************************************************************)
EXTENDS KltSwitch

Owns(k, e) == Drives(k, e) \/ Granted(k, e)

(* A KLT that sleeps, or will, and that no wakeup has reached.             *)
Held(k) == sleep_flag[k] = 1 /\ stage[k] \in {"handoff", "wait", "asleep"}

Listed(k) == k \in global_list \/ \E e \in Xstreams : k \in sub_list[e]

(* The owner of an ES is in the signal handler; it has left for its base.  *)
Preempting(k) == ctx[k] \in Threads /\ stage[k] \in {"arm", "callback"}
Leaving(k) == /\ tls[k] # None /\ ctx[k] = k
              /\ stage[k] \in {"arm", "callback", "handoff"}

(* The KLT that k is going to wake: WakeupTarget before the callback too.  *)
Target(k) ==
  IF Preempting(k) THEN next_sub[k]
  ELSE IF Leaving(k) THEN p_wakeup[p_wakeup_thread[tls[k]]] ELSE None

(* What a KLT can be executing in each stage of its sleep.                 *)
KltShape ==
  \A k \in Klts :
    /\ stage[k] = "unborn" => tls[k] = None /\ ctx[k] = k /\ sleep_flag[k] = 0 /\ k \in Subs
    /\ stage[k] = "on" => /\ tls[k] # None /\ sleep_flag[k] = 0
                          /\ ctx[k] \in Threads \/ ctx[k] = tls[k]
    /\ stage[k] # "on" => ctx[k] \in Threads \/ ctx[k] = k
    /\ stage[k] \in {"arm", "callback"} => tls[k] # None \/ (ctx[k] = k /\ k \in Subs)
    /\ stage[k] = "arm" => sleep_flag[k] = 0
    /\ stage[k] = "callback" => sleep_flag[k] = 1
    /\ stage[k] = "handoff" => tls[k] # None /\ ctx[k] = k
    /\ stage[k] = "asleep" => sleep_flag[k] = 1
    /\ stage[k] = "woken" => sleep_flag[k] = 0
    /\ stage[k] \in {"handoff", "wait", "woken"} /\ sleep_flag[k] = 0 => p_local[k] # None

OneOwner ==
  /\ \A j, k \in Klts, e \in Xstreams : Owns(j, e) /\ Owns(k, e) => j = k
  /\ \A k \in Klts, e \in Xstreams : ~ (Drives(k, e) /\ Granted(k, e))

SomeOwner == \A e \in Xstreams : \E k \in Klts : Owns(k, e)

(* ES e is not between two threads, and its scheduler may look at the ULT  *)
(* that it dispatched.                                                     *)
Returned(e) ==
  dispatched[e] # None => /\ cur_thread[e] = dispatched[e]
                          /\ btm[dispatched[e]] # "back"

OnInv ==
  \A k \in Klts : stage[k] = "on" =>
    /\ p_cur_sub[tls[k]] = k
    /\ p_wakeup_thread[tls[k]] = None
    /\ ctx[k] = tls[k] => Returned(tls[k])
    /\ ctx[k] \in Threads =>
         /\ dispatched[tls[k]] = ctx[k] /\ cur_thread[tls[k]] = ctx[k]
         /\ p_last_xstream[ctx[k]] = tls[k] /\ ctx[k] \notin preempted
         /\ btm[ctx[k]] = "back" => k = Main[tls[k]]

PreemptingInv ==
  \A k \in Klts : Preempting(k) =>
    /\ p_wakeup_thread[tls[k]] = None
    /\ dispatched[tls[k]] = ctx[k] /\ cur_thread[tls[k]] = ctx[k]
    /\ ctx[k] \notin preempted /\ btm[ctx[k]] = "no"
    /\ next_sub[k] \in Subs /\ ctx[next_sub[k]] = next_sub[k]

(* The thread that the owner k of ES e is going to wake: a preempted ULT,  *)
(* a ULT or the scheduler leaving a main KLT, or the trampoline.           *)
LeavesFor(k, e, u, s) ==
  \/ /\ u \in preempted /\ ctx[s] = u
     /\ dispatched[e] = u /\ p_last_xstream[u] = e
  \/ /\ u \in Threads /\ u \notin preempted /\ s \in Subs /\ ctx[s] = s
     /\ dispatched[e] = u /\ btm[u] # "back"
  \/ /\ u = e /\ s \in Subs /\ ctx[s] = s
     /\ dispatched[e] = None
  \/ /\ u = Main[e] /\ s = u /\ ctx[s] = s /\ ready[s] = 0
     /\ dispatched[e] \in Threads /\ p_return_thread[s] = dispatched[e]
     /\ dispatched[e] \notin preempted /\ p_last_xstream[dispatched[e]] = e

LeavingInv ==
  \A k \in Klts : Leaving(k) =>
    /\ p_wakeup_thread[tls[k]] # None
    /\ Target(k) \in Klts
    /\ LeavesFor(k, tls[k], p_wakeup_thread[tls[k]], Target(k))

GrantedInv ==
  \A k \in Klts, e \in Xstreams : Granted(k, e) =>
    /\ p_wakeup_thread[e] = None
    /\ ctx[k] \in Threads =>
         /\ dispatched[e] = ctx[k] /\ cur_thread[e] = ctx[k]
         /\ p_last_xstream[ctx[k]] = e
    /\ ctx[k] = k /\ k \in Subs => Returned(e)
    /\ ctx[k] = k /\ k \in Mains =>
         /\ k = Main[e] /\ ready[k] = 0
         /\ dispatched[e] \in Threads /\ p_return_thread[k] = dispatched[e]
         /\ dispatched[e] \notin preempted /\ p_last_xstream[dispatched[e]] = e

(* A KLT about to be woken waits for that one wakeup and for nothing else. *)
TargetInv ==
  /\ \A k \in Klts : Target(k) \in Klts =>
       Target(k) # k /\ Held(Target(k)) /\ ~ Listed(Target(k))
  /\ \A j, k \in Klts : Target(j) \in Klts /\ Target(j) = Target(k) => j = k

(* A ULT whose KLT sleeps is preempted, and tied to that KLT.              *)
PreemptedInv ==
  /\ \A k \in Klts :
       ctx[k] \in Threads /\ stage[k] \notin {"on", "arm", "callback"} =>
         ctx[k] \in preempted /\ p_wakeup[ctx[k]] = k
  /\ \A t \in preempted :
       /\ p_wakeup[t] \in Klts /\ ctx[p_wakeup[t]] = t
       /\ stage[p_wakeup[t]] \in {"wait", "asleep", "woken"}
       /\ btm[t] = "no"

(* A ULT is in its pool, or dispatched by one ES, or done.                 *)
PoolInv ==
  /\ \A t \in pool : state[t] # "TERMINATED" /\ btm[t] # "back"
  /\ \A e \in Xstreams : dispatched[e] # None =>
       state[dispatched[e]] # "TERMINATED" /\ dispatched[e] \notin pool
  /\ \A d, e \in Xstreams : dispatched[d] = dispatched[e] /\ dispatched[d] # None => d = e

ListInv ==
  /\ \A k \in Klts : Listed(k) => ctx[k] = k /\ Held(k)
  /\ \A e \in Xstreams : sub_list[e] \cap global_list = {}
  /\ \A d, e \in Xstreams : d # e => sub_list[d] \cap sub_list[e] = {}

ReadyInv == \A m \in Mains : ready[m] = 1 => ctx[m] = m /\ Held(m)

(* What holds in every state and is preserved by every step.               *)
IInv ==
  /\ TypeOK /\ KltShape /\ OneOwner /\ SomeOwner
  /\ OnInv /\ PreemptingInv /\ LeavingInv /\ GrantedInv
  /\ TargetInv /\ PreemptedInv /\ PoolInv /\ ListInv /\ ReadyInv

=============================================================================
