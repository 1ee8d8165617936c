----------------------------- MODULE TimerGroup -----------------------------
(***************************************************************************)
(* The preemption timers of a group of ESs (type SIGNAL): the handler of   *)
(* a timer signal passes the signal on to the next ES of the group that    *)
(* can be preempted, once around, and then preempts the ULT of its own ES; *)
(* start, stop and delete of the group.                                    *)
(* Sources: preemption_timer.c, stream.c.                                  *)
(*                                                                         *)
(* The fields of the group are shared by the handlers and protected by     *)
(* nothing.  A handler reads index_next once (what it has compared or just *)
(* stored stays in a register); two stores in a row, or the search for the *)
(* next ES and the signal to it, are one step.  SIGURG is not queued: a    *)
(* KLT has at most one signal pending, which is delivered before or after  *)
(* any of its own steps and is masked within the handler.                  *)
(*                                                                         *)
(* The ULTs have preemption type YIELD, so that each ES stays on its main  *)
(* KLT, whose timer only start and stop set.  The client is on an ES that  *)
(* is not in the group.  That FREE_TIMER blocks the signal is left out: a  *)
(* ULT that was preempted unblocks it when it returns from its handler,    *)
(* and what protects the group is ptimer_on.                               *)
(***************************************************************************)
EXTENDS Integers

CONSTANTS
  N,             \* the number of ESs in the group
  MaxOverlaps    \* how often a timer expires while another signal is on its way

ASSUME GroupAssumption == N \in Nat \ {0} /\ MaxOverlaps \in Nat

Es == 0..(N - 1)

VARIABLES
  index_next, index_until, in_chain,   \* fields of the group
  ptimer_on, preemptive,               \* fields of an ES
  at,                \* what an ES does
  pending, handler,  \* its pending signal, and where it is in the handler
  client,            \* the call of the client and the ES it is at
  requests, delete_counter,
  overlaps,          \* history: how many ticks have overlapped another signal
  solo, lost,        \* the last tick did not; how many such ticks in a row came to nothing
  round              \* what a tick has caused

chain   == <<index_next, index_until, in_chain>>
place   == <<preemptive, at>>
calls   == <<client, requests, delete_counter>>
history == <<overlaps, solo, lost, round>>
vars == <<chain, ptimer_on, place, pending, handler, calls, history>>

TypeOK ==
  /\ index_next \in Es \cup {-1} /\ index_until \in Es /\ in_chain \in BOOLEAN
  /\ ptimer_on \in [Es -> BOOLEAN] /\ preemptive \in [Es -> BOOLEAN]
  /\ at \in [Es -> {"sched", "ult", "return"}]
  /\ pending \in [Es -> BOOLEAN]
  /\ handler \in [Es -> {"none", "claim", "own", "reset", "chain", "start", "next", "preempt"}]
  /\ client \in [call : {"user", "start", "on", "stop", "delete", "request", "freed"}, e : 0..N]
  /\ requests \in SUBSET Es /\ delete_counter \in 0..N
  /\ overlaps \in 0..MaxOverlaps /\ solo \in BOOLEAN /\ lost \in 0..2
  /\ round \in [live : BOOLEAN, hit : SUBSET Es, spared : SUBSET Es, twice : BOOLEAN]
-----------------------------------------------------------------------------
Goto(e, l) == at' = [at EXCEPT ![e] = l]

(* A ULT is dispatched, yields or ends; the scheduler is back from it.     *)
Dispatch(e) ==
  /\ handler[e] = "none" /\ at[e] = "sched"
  /\ preemptive' = [preemptive EXCEPT ![e] = TRUE]
  /\ Goto(e, "ult")
  /\ UNCHANGED <<chain, ptimer_on, pending, handler, calls, history>>

Yield(e) ==
  /\ handler[e] = "none" /\ at[e] = "ult"
  /\ Goto(e, "return")
  /\ UNCHANGED <<chain, ptimer_on, preemptive, pending, handler, calls, history>>

Return(e) ==
  /\ handler[e] = "none" /\ at[e] = "return"
  /\ preemptive' = [preemptive EXCEPT ![e] = FALSE]
  /\ Goto(e, "sched")
  /\ round' = [round EXCEPT !.spared = IF round.live THEN @ \cup {e} ELSE @]
  /\ UNCHANGED <<chain, ptimer_on, pending, handler, calls, overlaps, solo, lost>>

(* check_events serves FREE_TIMER.                                         *)
FreeTimer(e) ==
  /\ handler[e] = "none" /\ at[e] = "sched" /\ e \in requests
  /\ requests' = requests \ {e}
  /\ delete_counter' = delete_counter + 1
  /\ UNCHANGED <<chain, ptimer_on, place, pending, handler, client, history>>
-----------------------------------------------------------------------------
(* No signal of the group is on its way.                                   *)
Quiet == \A e \in Es : handler[e] = "none" /\ ~ pending[e]

NoRound == [live |-> FALSE, hit |-> {}, spared |-> {}, twice |-> FALSE]

(* The timer of an ES expires.  If nothing else is on its way, and the     *)
(* group is as start leaves it, a round of signals begins.                 *)
Tick(e) ==
  /\ ptimer_on[e] /\ ~ pending[e]
  /\ overlaps' = IF Quiet THEN overlaps ELSE overlaps + 1
  /\ overlaps' <= MaxOverlaps
  /\ solo' = (Quiet /\ client.call = "on")
  /\ lost' = IF solo' THEN lost ELSE 0
  /\ pending' = [pending EXCEPT ![e] = TRUE]
  /\ round' = IF solo' /\ index_next = -1 /\ ~ in_chain
              THEN [NoRound EXCEPT !.live = TRUE, !.spared = {d \in Es : ~ preemptive[d]}]
              ELSE NoRound
  /\ UNCHANGED <<chain, ptimer_on, place, handler, calls>>

At(e, l) == handler[e] = l

Handles(e, l) == handler' = [handler EXCEPT ![e] = l]

(* Mutant: the handler does not look whether the timers are on.            *)
DeliverAlways(e) ==
  /\ At(e, "none") /\ pending[e]
  /\ pending' = [pending EXCEPT ![e] = FALSE]
  /\ Handles(e, "claim")
  /\ UNCHANGED <<chain, ptimer_on, place, calls, history>>

(* ABTI_preemption_timer_preempt_another, from its entry to its end.       *)
Deliver(e) ==
  /\ At(e, "none") /\ pending[e]
  /\ pending' = [pending EXCEPT ![e] = FALSE]
  /\ IF ptimer_on[e] THEN Handles(e, "claim") ELSE UNCHANGED handler
  /\ UNCHANGED <<chain, ptimer_on, place, calls, history>>

(* The signal is meant for ES e.                                           *)
Hit(e) ==
  /\ lost' = 0
  /\ round' = IF round.live
              THEN [round EXCEPT !.hit = @ \cup {e}, !.twice = @ \/ e \in round.hit]
              ELSE round

Claim(e) ==
  /\ At(e, "claim")
  /\ Handles(e, IF index_next = -1 THEN "own" ELSE IF index_next = e THEN "chain" ELSE "reset")
  /\ IF index_next = e THEN Hit(e) ELSE UNCHANGED <<lost, round>>
  /\ UNCHANGED <<chain, ptimer_on, place, pending, calls, overlaps, solo>>

Own(e) ==
  /\ At(e, "own")
  /\ index_next' = e
  /\ Handles(e, "chain") /\ Hit(e)
  /\ UNCHANGED <<index_until, in_chain, ptimer_on, place, pending, calls, overlaps, solo>>

(* Mutant: an unintended signal leaves the chain as it is.                 *)
ResetNothing(e) ==
  /\ At(e, "reset")
  /\ Handles(e, "none")
  /\ lost' = IF solo /\ lost < 2 THEN lost + 1 ELSE lost
  /\ UNCHANGED <<chain, ptimer_on, place, pending, calls, overlaps, solo, round>>

(* An unintended signal.                                                   *)
Reset(e) ==
  /\ At(e, "reset")
  /\ index_next' = -1 /\ in_chain' = FALSE
  /\ Handles(e, "none")
  /\ lost' = IF solo /\ lost < 2 THEN lost + 1 ELSE lost
  /\ UNCHANGED <<index_until, ptimer_on, place, pending, calls, overlaps, solo, round>>

Chain(e) ==
  /\ At(e, "chain")
  /\ Handles(e, IF in_chain THEN "next" ELSE "start")
  /\ UNCHANGED <<chain, ptimer_on, place, pending, calls, history>>

(* Mutant: a chain ends where the last one did.                            *)
StartKeepsEnd(e) ==
  /\ At(e, "start")
  /\ in_chain' = TRUE
  /\ Handles(e, "next")
  /\ UNCHANGED <<index_next, index_until, ptimer_on, place, pending, calls, history>>

Start(e) ==
  /\ At(e, "start")
  /\ in_chain' = TRUE /\ index_until' = e
  /\ Handles(e, "next")
  /\ UNCHANGED <<index_next, ptimer_on, place, pending, calls, history>>

(* How many steps it is from ES e to ES d in the ring, at least one.       *)
Distance(e, d) == IF d = e THEN N ELSE (d - e + N) % N

(* The ESs after e and before index_until that can be preempted.           *)
Following(e) == {d \in Es : Distance(e, d) < Distance(e, index_until) /\ preemptive[d]}

(* The signal goes on to the next of them, or the chain ends.              *)
Forward(e) ==
  /\ At(e, "next")
  /\ \/ \E d \in Following(e) :
          /\ \A c \in Following(e) : Distance(e, d) <= Distance(e, c)
          /\ index_next' = d
          /\ pending' = [pending EXCEPT ![d] = TRUE]
          /\ UNCHANGED in_chain
     \/ /\ Following(e) = {}
        /\ index_next' = -1 /\ in_chain' = FALSE
        /\ UNCHANGED pending
  /\ Handles(e, "preempt")
  /\ UNCHANGED <<index_until, ptimer_on, place, calls, history>>

(* ABTI_preemption_timer_preempt, if the signal has interrupted a ULT that *)
(* is not in the library.                                                  *)
Preempt(e) ==
  /\ At(e, "preempt")
  /\ (at[e] = "ult" /\ Goto(e, "return")) \/ UNCHANGED at
  /\ Handles(e, "none")
  /\ UNCHANGED <<chain, ptimer_on, preemptive, pending, calls, history>>
-----------------------------------------------------------------------------
Calls(c) == client.call = c /\ client.e < N

Called(c) == client.call = c /\ client.e = N

NextEs == client' = [client EXCEPT !.e = @ + 1]

CallIs(c) == client' = [call |-> c, e |-> 0]

(* ABT_preemption_timer_start                                              *)
CallStart ==
  /\ client.call = "user"
  /\ CallIs("start")
  /\ index_next' = -1 /\ in_chain' = FALSE
  /\ UNCHANGED <<index_until, ptimer_on, place, pending, handler, requests, delete_counter,
                 history>>

StartTimer ==
  /\ Calls("start")
  /\ ptimer_on' = [ptimer_on EXCEPT ![client.e] = TRUE]
  /\ NextEs
  /\ UNCHANGED <<chain, place, pending, handler, requests, delete_counter, history>>

Started ==
  /\ Called("start") /\ CallIs("on")
  /\ UNCHANGED <<chain, ptimer_on, place, pending, handler, requests, delete_counter, history>>

(* ABT_preemption_timer_stop, also as the first part of delete.            *)
CallStop(c) ==
  /\ client.call = "on"
  /\ CallIs(c)
  /\ solo' = FALSE /\ lost' = 0 /\ round' = NoRound
  /\ UNCHANGED <<chain, ptimer_on, place, pending, handler, requests, delete_counter, overlaps>>

StopTimer ==
  /\ Calls("stop") \/ Calls("delete")
  /\ ptimer_on' = [ptimer_on EXCEPT ![client.e] = FALSE]
  /\ NextEs
  /\ UNCHANGED <<chain, place, pending, handler, requests, delete_counter, history>>

Stopped ==
  /\ \/ Called("stop") /\ CallIs("user")
     \/ Called("delete") /\ CallIs("request")
  /\ UNCHANGED <<chain, ptimer_on, place, pending, handler, requests, delete_counter, history>>

(* The rest of ABT_preemption_timer_delete.                                *)
Request ==
  /\ Calls("request")
  /\ requests' = requests \cup {client.e}
  /\ NextEs
  /\ UNCHANGED <<chain, ptimer_on, place, pending, handler, delete_counter, history>>

Free ==
  /\ Called("request") /\ delete_counter = N
  /\ CallIs("freed")
  /\ UNCHANGED <<chain, ptimer_on, place, pending, handler, requests, delete_counter, history>>
-----------------------------------------------------------------------------
(* The fields of a new group have no values; start stores two of them, and *)
(* a chain the third, before they are read.                                *)
Init ==
  /\ index_next = -1 /\ index_until = 0 /\ in_chain = FALSE
  /\ ptimer_on = [e \in Es |-> FALSE] /\ preemptive = [e \in Es |-> FALSE]
  /\ at = [e \in Es |-> "sched"]
  /\ pending = [e \in Es |-> FALSE] /\ handler = [e \in Es |-> "none"]
  /\ client = [call |-> "user", e |-> 0]
  /\ requests = {} /\ delete_counter = 0
  /\ overlaps = 0 /\ solo = FALSE /\ lost = 0 /\ round = NoRound

HandlerStep(e) ==
  \/ Deliver(e) \/ Claim(e) \/ Own(e) \/ Reset(e) \/ Chain(e) \/ Start(e) \/ Forward(e)
  \/ Preempt(e)

ClientStep ==
  \/ CallStart \/ StartTimer \/ Started \/ StopTimer \/ Stopped \/ Request \/ Free
  \/ \E c \in {"stop", "delete"} : CallStop(c)

Next ==
  \/ \E e \in Es : Tick(e) \/ HandlerStep(e) \/ Dispatch(e) \/ Yield(e) \/ Return(e) \/ FreeTimer(e)
  \/ ClientStep

Spec == Init /\ [][Next]_vars
-----------------------------------------------------------------------------
(* A round of signals that no other timer disturbs hits every ES that can  *)
(* be preempted from its begin to its end, and no ES twice.                *)
RoundHitsAll ==
  round.live =>
    /\ ~ round.twice
    /\ Quiet => round.hit \cup round.spared = Es

(* However the handlers of the group, a stop and a start have met before, *)
(* of two ticks in a row that nothing overlaps one preempts its ES.        *)
GroupRecovers == lost <= 1

(* The group is not accessed in a signal handler any more when delete      *)
(* frees it (preemption_timer.c:482).                                      *)
NoUseAfterDelete ==
  client.call = "freed" => \A e \in Es : handler[e] \in {"none", "preempt"}
=============================================================================
