----------------------------- MODULE MCKltSwitch -----------------------------
(* Instances of KltSwitch for TLC.                                         *)
EXTENDS KltSwitchInductive, TLC

CONSTANTS e1, e2, m1, m2, k1, k2, k3, t1, t2, t3

MCMainOne == (e1 :> m1)
MCInitSubsOne == (e1 :> {k1})
MCMain == (e1 :> m1) @@ (e2 :> m2)
MCInitSubs == (e1 :> {k1}) @@ (e2 :> {k2})
MCServesJoin == (e1 :> {t1, t2}) @@ (e2 :> {t2})
MCServesAll == [e \in Xstreams |-> Threads]

(* The part of a state that later steps can read: a field that will be     *)
(* written before it is read next is left out.                             *)
MCLiveState ==
  LET driving(k) == stage[k] \in {"on", "arm", "callback", "handoff"}
      granted(k) == sleep_flag[k] = 0 /\ stage[k] \in {"handoff", "wait", "woken"}
      loaded(e)  == \E k \in Klts : stage[k] = "on" /\ tls[k] = e
      named(u)   == \E e \in Xstreams : p_wakeup_thread[e] = u
  IN << ctx, stage, next_sub, sleep_flag, ready, p_wakeup_thread, dispatched,
        listVars, pool, state, preempted, request, btm,
        [k \in Klts |-> IF driving(k) THEN tls[k] ELSE None],
        [k \in Klts |-> IF granted(k) THEN p_local[k] ELSE None],
        IF \E t \in Threads : btm[t] = "back" THEN p_return_thread ELSE None,
        [e \in Xstreams |-> IF loaded(e) THEN p_cur_sub[e] ELSE None],
        [e \in Xstreams |-> IF dispatched[e] # None THEN cur_thread[e] ELSE None],
        [u \in Contexts |-> IF named(u) \/ (u \in Threads /\ u \in preempted)
                            THEN p_wakeup[u] ELSE None],
        [t \in Threads |-> IF \E e \in Xstreams : dispatched[e] = t
                           THEN p_last_xstream[t] ELSE None] >>

=============================================================================
