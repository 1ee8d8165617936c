-------------------------- MODULE TimerGroupProofs --------------------------
(***************************************************************************)
(* The safety properties of TimerGroup, for every number of ESs.           *)
(*                                                                         *)
(* Delete: an ES that answers a request to free the timer is not in its    *)
(* handler, and it does not enter it again, because delete has turned      *)
(* ptimer_on off at all ESs before it makes the first request.  When       *)
(* delete_counter reaches N all requests have been made and none of them   *)
(* is open.                                                                *)
(*                                                                         *)
(* Recovery: after a tick that nothing overlaps there is one signal in the *)
(* group, so that what its handler leaves behind is what the next finds.   *)
(*                                                                         *)
(* Rounds: the ESs are compared by their positions in the ring from        *)
(* index_until on; the signal divides them into those that have got it and *)
(* those that have not.                                                    *)
(***************************************************************************)
EXTENDS TimerGroup, FiniteSets, FiniteSetTheorems, TLAPS

(* An ES that has not entered its handler, or has left the group alone.    *)
Outside(e) == handler[e] \in {"none", "preempt"}

DeleteType ==
  /\ ptimer_on \in [Es -> BOOLEAN] /\ at \in [Es -> {"sched", "ult", "return"}]
  /\ handler \in [Es -> {"none", "claim", "own", "reset", "chain", "start", "next", "preempt"}]
  /\ client \in [call : {"user", "start", "on", "stop", "delete", "request", "freed"}, e : 0..N]
  /\ requests \in SUBSET Es /\ delete_counter \in Nat

DeleteInv ==
  /\ DeleteType
  /\ client.call = "delete" => \A e \in Es : e < client.e => ~ ptimer_on[e]
  /\ client.call \in {"request", "freed"} => \A e \in Es : ~ ptimer_on[e]
  /\ client.call \notin {"request", "freed"} => requests = {} /\ delete_counter = 0
  /\ client.call = "request" =>
       /\ \A e \in requests : e < client.e
       /\ delete_counter + Cardinality(requests) = client.e
       /\ \A e \in Es : e < client.e => e \in requests \/ Outside(e)
  /\ client.call = "freed" => requests = {} /\ \A e \in Es : Outside(e)

LEMMA EsFinite == IsFiniteSet(Es)
BY GroupAssumption, FS_Interval DEF Es

(* Requests can be counted.                                                *)
LEMMA RequestsFinite ==
  ASSUME DeleteType
  PROVE  IsFiniteSet(requests) /\ Cardinality(requests) \in Nat
<1>1. IsFiniteSet(requests)
  BY EsFinite, FS_Subset DEF DeleteType
<1> QED
  BY <1>1, FS_CardinalityType

LEMMA DeleteInit == Init => DeleteInv
BY GroupAssumption DEF Init, DeleteInv, DeleteType, Es

(* Steps that change neither what the client does nor what ES e has been   *)
(* asked keep the invariant if no handler enters the group with its timer  *)
(* off.                                                                    *)
LEMMA DeleteKeeps ==
  ASSUME DeleteInv, DeleteType',
         UNCHANGED <<ptimer_on, client, requests, delete_counter>>,
         \A d \in Es : Outside(d) /\ ~ ptimer_on[d] => Outside(d)'
  PROVE  DeleteInv'
BY DEF DeleteInv

LEMMA DeleteStep == DeleteInv /\ [Next]_vars => DeleteInv'
<1> SUFFICES ASSUME DeleteInv, [Next]_vars PROVE DeleteInv'
  OBVIOUS
<1> USE DEF DeleteType
<1>t. DeleteType
  BY DEF DeleteInv
<1>1. CASE UNCHANGED vars
  <2>1. UNCHANGED <<ptimer_on, client, requests, delete_counter, handler, at>>
    BY <1>1 DEF vars, calls, place
  <2> QED
    BY <1>t, <2>1, DeleteKeeps DEF Outside
<1>2. ASSUME NEW e \in Es, Tick(e) \/ Dispatch(e) \/ Yield(e) \/ Return(e) PROVE DeleteInv'
  <2>1. UNCHANGED <<ptimer_on, client, requests, delete_counter, handler>>
    BY <1>2 DEF Tick, Dispatch, Yield, Return, calls
  <2>2. DeleteType'
    BY <1>t, <1>2, <2>1 DEF Tick, Dispatch, Yield, Return, Goto, place
  <2> QED
    BY <2>1, <2>2, DeleteKeeps DEF Outside
<1>3. ASSUME NEW e \in Es, HandlerStep(e) PROVE DeleteInv'
  <2>1. UNCHANGED <<ptimer_on, client, requests, delete_counter>>
    BY <1>3 DEF HandlerStep, Deliver, Claim, Own, Reset, Chain, Start, Forward, Preempt, calls
  <2>2. \E l \in {"none", "claim", "own", "reset", "chain", "start", "next", "preempt"} :
           handler' = [handler EXCEPT ![e] = l]
    BY <1>t, <1>3 DEF HandlerStep, Deliver, Claim, Own, Reset, Chain, Start, Forward, Preempt,
                      Handles, At
  <2>3. at' \in [Es -> {"sched", "ult", "return"}]
    BY <1>t, <1>3 DEF HandlerStep, Deliver, Claim, Own, Reset, Chain, Start, Forward, Preempt,
                      Goto, place
  <2>4. DeleteType'
    BY <1>t, <2>1, <2>2, <2>3, ZenonT(60)
  <2>5. Outside(e) /\ ~ ptimer_on[e] => handler'[e] \in {"none", "preempt"}
    BY <1>t, <1>3 DEF HandlerStep, Deliver, Claim, Own, Reset, Chain, Start, Forward, Preempt,
                      Handles, At, Outside
  <2>6. \A d \in Es : Outside(d) /\ ~ ptimer_on[d] => Outside(d)'
    BY <1>t, <2>2, <2>5 DEF Outside
  <2> QED
    BY <2>1, <2>4, <2>6, DeleteKeeps
<1>4. ASSUME NEW e \in Es, FreeTimer(e) PROVE DeleteInv'
  <2>1. client.call = "request" /\ e \in requests
    BY <1>4 DEF FreeTimer, DeleteInv
  <2>2. Cardinality(requests') = Cardinality(requests) - 1
    BY <1>t, <1>4, RequestsFinite, FS_RemoveElement DEF FreeTimer
  <2>3. delete_counter' + Cardinality(requests') = client.e
    BY <1>t, <1>4, <2>1, <2>2, RequestsFinite DEF FreeTimer, DeleteInv
  <2>4. UNCHANGED <<ptimer_on, at, handler, client>>
    BY <1>4 DEF FreeTimer, place
  <2>5. DeleteType'
    BY <1>t, <1>4, <2>4 DEF FreeTimer
  <2>6. \A d \in Es : d < client.e => d \in requests' \/ Outside(d)
    BY <1>4, <2>1 DEF FreeTimer, DeleteInv, Outside
  <2> QED
    BY <1>4, <2>1, <2>3, <2>4, <2>5, <2>6 DEF DeleteInv, FreeTimer, Outside
<1>5. ASSUME ClientStep PROVE DeleteInv'
  <2>1. CASE CallStart \/ StartTimer \/ Started \/ Stopped \/ \E c \in {"stop", "delete"} : CallStop(c)
    <3>1. UNCHANGED <<at, handler, requests, delete_counter>> /\ requests = {} /\ delete_counter = 0
      BY <2>1 DEF CallStart, StartTimer, Started, Stopped, CallStop, Calls, Called, place, DeleteInv
    <3>a. client'.call \in {"user", "start", "on", "stop", "delete", "request"}
          /\ client' \in [call : {"user", "start", "on", "stop", "delete", "request", "freed"}, e : 0..N]
      <4>1. CASE StartTimer
        BY <1>t, <4>1, GroupAssumption DEF StartTimer, Calls, NextEs
      <4>2. CASE CallStart \/ Started \/ Stopped \/ \E c \in {"stop", "delete"} : CallStop(c)
        BY <4>2, GroupAssumption DEF CallStart, Started, Stopped, CallStop, CallIs
      <4> QED
        BY <2>1, <4>1, <4>2
    <3>b. ptimer_on' \in [Es -> BOOLEAN]
      BY <1>t, <2>1 DEF CallStart, StartTimer, Started, Stopped, CallStop
    <3>2. DeleteType' /\ client'.call # "freed"
      BY <1>t, <3>1, <3>a, <3>b
    <3>3. client'.call = "delete" => client'.e = 0
      BY <1>t, <2>1 DEF CallStart, StartTimer, Started, Stopped, CallStop, Calls, Called, CallIs, NextEs
    <3>4. client'.call = "request" => client'.e = 0 /\ \A e \in Es : ~ ptimer_on'[e]
      BY <1>t, <2>1, GroupAssumption
      DEF CallStart, StartTimer, Started, Stopped, CallStop, Calls, Called, CallIs, NextEs, Es,
          DeleteInv
    <3>5. Cardinality({}) = 0
      BY FS_EmptySet
    <3> QED
      BY <3>1, <3>2, <3>3, <3>4, <3>5, GroupAssumption DEF DeleteInv, Es
  <2>2. CASE StopTimer
    <3>1. UNCHANGED <<at, handler, requests, delete_counter>> /\ client'.call = client.call
          /\ client.call \in {"stop", "delete"} /\ client'.e = client.e + 1
          /\ ptimer_on' = [ptimer_on EXCEPT ![client.e] = FALSE] /\ client.e < N
      BY <1>t, <2>2 DEF StopTimer, Calls, NextEs, place
    <3>a. client' = [client EXCEPT !.e = client.e + 1] /\ client.e + 1 \in 0..N
      BY <1>t, <2>2, GroupAssumption DEF StopTimer, Calls, NextEs
    <3>2. DeleteType'
      BY <1>t, <3>1, <3>a
    <3>3. client'.call = "delete" => \A e \in Es : e < client'.e => ~ ptimer_on'[e]
      BY <1>t, <3>1, GroupAssumption DEF DeleteInv, Es
    <3> QED
      BY <3>1, <3>2, <3>3 DEF DeleteInv
  <2>3. CASE Request
    <3>1. UNCHANGED <<ptimer_on, at, handler, delete_counter>> /\ client'.call = "request"
          /\ client.call = "request" /\ client'.e = client.e + 1 /\ client.e \in Es
          /\ requests' = requests \cup {client.e}
      BY <1>t, <2>3, GroupAssumption DEF Request, Calls, NextEs, place, Es
    <3>a. client' = [client EXCEPT !.e = client.e + 1] /\ client.e + 1 \in 0..N
      BY <1>t, <2>3, GroupAssumption DEF Request, Calls, NextEs
    <3>2. DeleteType'
      BY <1>t, <3>1, <3>a
    <3>3. client.e \notin requests
      BY <1>t, <3>1 DEF DeleteInv
    <3>4. Cardinality(requests') = Cardinality(requests) + 1
      BY <1>t, <3>1, <3>3, RequestsFinite, FS_AddElement
    <3>5. delete_counter' + Cardinality(requests') = client'.e
      BY <1>t, <3>1, <3>4, RequestsFinite DEF DeleteInv
    <3>6. \A e \in requests' : e < client'.e
      BY <1>t, <3>1 DEF DeleteInv, Es
    <3>7. \A e \in Es : e < client'.e => e \in requests' \/ Outside(e)
      BY <1>t, <3>1 DEF DeleteInv, Es
    <3> QED
      BY <3>1, <3>2, <3>5, <3>6, <3>7 DEF DeleteInv, Outside
  <2>4. CASE Free
    <3>1. client.call = "request" /\ client.e = N /\ delete_counter = N
          /\ client' = [call |-> "freed", e |-> 0]
          /\ UNCHANGED <<ptimer_on, at, handler, requests, delete_counter>>
      BY <2>4 DEF Free, Called, CallIs, place
    <3>2. Cardinality(requests) = 0
      BY <1>t, <3>1, RequestsFinite, GroupAssumption DEF DeleteInv
    <3>3. requests = {}
      BY <1>t, <3>2, RequestsFinite, FS_EmptySet
    <3>4. \A e \in Es : Outside(e)
      BY <3>1, <3>3, GroupAssumption DEF DeleteInv, Es
    <3>5. DeleteType'
      BY <1>t, <3>1, GroupAssumption
    <3> QED
      BY <3>1, <3>3, <3>4, <3>5 DEF DeleteInv, Outside
  <2> QED
    BY <1>5, <2>1, <2>2, <2>3, <2>4 DEF ClientStep
<1> QED
  BY <1>1, <1>2, <1>3, <1>4, <1>5 DEF Next

(* The handshake of delete with the schedulers of its ESs.                 *)
THEOREM DeleteHandshake == Spec => []DeleteInv
BY DeleteInit, DeleteStep, PTL DEF Spec

(* ABT_preemption_timer_delete frees the group when no handler of any ES   *)
(* is between its test of ptimer_on and its last access to the group.      *)
THEOREM DeleteTheorem == Spec => []NoUseAfterDelete
<1>1. DeleteInv => NoUseAfterDelete
  BY DEF DeleteInv, NoUseAfterDelete, Outside
<1> QED
  BY <1>1, DeleteHandshake, PTL
-----------------------------------------------------------------------------
(* Types.                                                                  *)

Rounds == [live : BOOLEAN, hit : SUBSET Es, spared : SUBSET Es, twice : BOOLEAN]

LEMMA RoundTyped ==
  /\ NoRound \in Rounds
  /\ \A P \in SUBSET Es : [NoRound EXCEPT !.live = TRUE, !.spared = P] \in Rounds
  /\ \A r \in Rounds, e \in Es, b \in BOOLEAN : [r EXCEPT !.hit = @ \cup {e}, !.twice = b] \in Rounds
  /\ \A r \in Rounds, e \in Es : [r EXCEPT !.spared = IF r.live THEN @ \cup {e} ELSE @] \in Rounds
<1>1. NoRound \in Rounds
  BY DEF NoRound, Rounds
<1>2. \A P \in SUBSET Es : [NoRound EXCEPT !.live = TRUE, !.spared = P] \in Rounds
  BY DEF NoRound, Rounds
<1>3. ASSUME NEW r \in Rounds, NEW e \in Es, NEW b \in BOOLEAN
      PROVE  [r EXCEPT !.hit = @ \cup {e}, !.twice = b] \in Rounds
  BY DEF Rounds
<1>4. ASSUME NEW r \in Rounds, NEW e \in Es
      PROVE  [r EXCEPT !.spared = IF r.live THEN @ \cup {e} ELSE @] \in Rounds
  BY DEF Rounds
<1> QED BY <1>1, <1>2, <1>3, <1>4

LEMMA TypeStep ==
  ASSUME TypeOK, DeleteInv, DeleteInv', [Next]_vars
  PROVE  TypeOK'
<1> USE GroupAssumption
<1>1. CASE UNCHANGED vars
  BY <1>1 DEF TypeOK, vars, chain, place, calls, history
<1>2. ASSUME NEW e \in Es, Tick(e)
      PROVE  TypeOK'
  <2>1. overlaps' \in 0..MaxOverlaps
    BY <1>2 DEF Tick, TypeOK
  <2>2. round' \in Rounds
    <3>1. [NoRound EXCEPT !.live = TRUE, !.spared = {d \in Es : ~ preemptive[d]}] \in Rounds
      BY RoundTyped
    <3> QED BY <1>2, <3>1, RoundTyped DEF Tick
  <2>3. solo' \in BOOLEAN /\ lost' \in 0..2
    BY <1>2 DEF Tick, TypeOK
  <2> QED BY <1>2, <2>1, <2>2, <2>3 DEF Tick, TypeOK, chain, place, calls, Rounds
<1>3. ASSUME NEW e \in Es, Dispatch(e) \/ Yield(e) \/ Return(e)
      PROVE  TypeOK'
  <2>1. round' \in Rounds
    <3>1. round \in Rounds
      BY DEF TypeOK, Rounds
    <3>2. UNCHANGED round \/ round' = [round EXCEPT !.spared = IF round.live THEN @ \cup {e} ELSE @]
      BY <1>3 DEF Dispatch, Yield, Return, history
    <3> QED BY <3>1, <3>2, RoundTyped
  <2>2. preemptive' \in [Es -> BOOLEAN] /\ at' \in [Es -> {"sched", "ult", "return"}]
    BY <1>3 DEF Dispatch, Yield, Return, Goto, TypeOK
  <2>3. UNCHANGED <<chain, ptimer_on, pending, handler, calls, overlaps, solo, lost>>
    BY <1>3 DEF Dispatch, Yield, Return, history
  <2> QED BY <2>1, <2>2, <2>3 DEF TypeOK, chain, calls, Rounds
<1>4. ASSUME NEW e \in Es, HandlerStep(e)
      PROVE  TypeOK'
  <2>1. index_next' \in Es \cup {-1} /\ index_until' \in Es /\ in_chain' \in BOOLEAN
    BY <1>4 DEF HandlerStep, Deliver, Claim, Own, Reset, Chain, Start, Forward, Following, Preempt,
                TypeOK, chain
  <2>2. handler' \in [Es -> {"none", "claim", "own", "reset", "chain", "start", "next", "preempt"}]
    BY <1>4 DEF HandlerStep, Deliver, Claim, Own, Reset, Chain, Start, Forward, Preempt, Handles, TypeOK
  <2>3. pending' \in [Es -> BOOLEAN] /\ at' \in [Es -> {"sched", "ult", "return"}]
    BY <1>4 DEF HandlerStep, Deliver, Claim, Own, Reset, Chain, Start, Forward, Preempt, Goto, TypeOK, place
  <2>4. lost' \in 0..2 /\ round' \in Rounds
    <3>1. lost' \in {lost, 0} \/ (lost < 2 /\ lost' = lost + 1)
      BY <1>4 DEF HandlerStep, Deliver, Claim, Own, Reset, Chain, Start, Forward, Preempt, Hit, history
    <3>2. \/ UNCHANGED round
          \/ round' = [round EXCEPT !.hit = @ \cup {e}, !.twice = @ \/ e \in round.hit]
      BY <1>4 DEF HandlerStep, Deliver, Claim, Own, Reset, Chain, Start, Forward, Preempt, Hit, history
    <3>3. round \in Rounds
      BY DEF TypeOK, Rounds
    <3>4. (round.twice \/ e \in round.hit) \in BOOLEAN
      OBVIOUS
    <3>5. round' \in Rounds
      BY <3>2, <3>3, <3>4, RoundTyped
    <3>6. lost \in 0..2
      BY DEF TypeOK
    <3> QED BY <3>1, <3>5, <3>6
  <2>5. UNCHANGED <<ptimer_on, preemptive, client, requests, delete_counter, overlaps, solo>>
    BY <1>4 DEF HandlerStep, Deliver, Claim, Own, Reset, Chain, Start, Forward, Preempt, place, calls, history
  <2> QED BY <2>1, <2>2, <2>3, <2>4, <2>5 DEF TypeOK, Rounds
<1>5. ASSUME (\E e \in Es : FreeTimer(e)) \/ ClientStep
      PROVE  TypeOK'
  <2>1. /\ UNCHANGED <<index_until, preemptive, at, pending, handler, overlaps>>
        /\ index_next' \in {index_next, -1} /\ in_chain' \in {in_chain, FALSE}
        /\ solo' \in {solo, FALSE} /\ lost' \in {lost, 0} /\ round' \in {round, NoRound}
    BY <1>5 DEF FreeTimer, ClientStep, CallStart, StartTimer, Started, StopTimer, Stopped, Request, Free,
                CallStop, chain, place, history
  <2>2. /\ round' \in Rounds /\ lost' \in 0..2 /\ solo' \in BOOLEAN
        /\ index_next' \in Es \cup {-1} /\ in_chain' \in BOOLEAN
    <3>1. round \in Rounds /\ NoRound \in Rounds
      BY RoundTyped DEF TypeOK, Rounds
    <3>2. lost \in 0..2 /\ solo \in BOOLEAN /\ index_next \in Es \cup {-1} /\ in_chain \in BOOLEAN
      BY DEF TypeOK
    <3>3. 0 \in 0..2
      OBVIOUS
    <3> QED BY <2>1, <3>1, <3>2, <3>3
  <2>3. ptimer_on' \in [Es -> BOOLEAN] /\ requests' \in SUBSET Es
        /\ client' \in [call : {"user", "start", "on", "stop", "delete", "request", "freed"}, e : 0..N]
    BY DEF DeleteInv, DeleteType
  <2>4. delete_counter' \in 0..N
    <3>1. CASE client'.call = "freed"
      <4>1. UNCHANGED delete_counter \/ requests # {}
        BY <1>5 DEF FreeTimer, ClientStep, CallStart, StartTimer, Started, StopTimer, Stopped, Request,
                    Free, CallStop
      <4>2. UNCHANGED delete_counter
        <5>1. CASE \E e \in Es : FreeTimer(e)
          <6>1. client.call = "freed" /\ requests # {}
            BY <3>1, <5>1 DEF FreeTimer
          <6> QED BY <6>1 DEF DeleteInv
        <5>2. CASE ClientStep
          BY <5>2 DEF ClientStep, CallStart, StartTimer, Started, StopTimer, Stopped, Request, Free, CallStop
        <5> QED BY <1>5, <5>1, <5>2
      <4> QED BY <4>2 DEF TypeOK
    <3>2. CASE client'.call = "request"
      <4>1. requests' \in SUBSET Es /\ delete_counter' \in Nat
        BY DEF DeleteInv, DeleteType
      <4>2. Cardinality(requests') \in Nat
        BY <4>1, EsFinite, FS_Subset, FS_CardinalityType
      <4>3. delete_counter' + Cardinality(requests') = client'.e /\ client'.e \in 0..N
        BY <2>3, <3>2 DEF DeleteInv
      <4> QED BY <4>1, <4>2, <4>3
    <3>3. CASE client'.call \notin {"request", "freed"}
      BY <3>3 DEF DeleteInv
    <3> QED BY <3>1, <3>2, <3>3
  <2> QED BY <2>1, <2>2, <2>3, <2>4 DEF TypeOK, Rounds
<1> QED BY <1>1, <1>2, <1>3, <1>4, <1>5 DEF Next

(* The variables of the group (preemption_timer.c) have their types; in    *)
(* particular index_next is -1 or an ES of the group, whoever writes it.   *)
THEOREM TimerTypeCorrect == Spec => []TypeOK
<1>1. ASSUME Init PROVE TypeOK
  <2>1. 0 \in Es /\ 0 \in 0..N /\ 0 \in 0..MaxOverlaps /\ 0 \in 0..2
    BY GroupAssumption DEF Es
  <2>2. /\ ptimer_on \in [Es -> BOOLEAN] /\ preemptive \in [Es -> BOOLEAN] /\ pending \in [Es -> BOOLEAN]
        /\ at \in [Es -> {"sched", "ult", "return"}]
        /\ handler \in [Es -> {"none", "claim", "own", "reset", "chain", "start", "next", "preempt"}]
    BY <1>1 DEF Init
  <2>3. client \in [call : {"user", "start", "on", "stop", "delete", "request", "freed"}, e : 0..N]
    BY <1>1, <2>1 DEF Init
  <2>4. round \in Rounds
    BY <1>1, RoundTyped DEF Init
  <2>5. /\ index_next \in Es \cup {-1} /\ index_until \in Es /\ in_chain \in BOOLEAN
        /\ requests \in SUBSET Es /\ delete_counter \in 0..N
        /\ overlaps \in 0..MaxOverlaps /\ solo \in BOOLEAN /\ lost \in 0..2
    BY <1>1, <2>1 DEF Init
  <2> QED BY <2>2, <2>3, <2>4, <2>5 DEF TypeOK, Rounds
<1>2. DeleteInv /\ TypeOK /\ [Next]_vars => DeleteInv' /\ TypeOK'
  BY DeleteStep, TypeStep
<1> QED BY <1>1, <1>2, DeleteInit, PTL DEF Spec
-----------------------------------------------------------------------------
(* One signal at a time.                                                   *)

(* A signal to ES e is on its way, or its handler uses the group.          *)
Active(e) == pending[e] \/ ~ Outside(e)

(* A tick that has met no other signal leaves one signal in the group: it  *)
(* is pending at one ES, or in the handler of one.                         *)
Alone ==
  solo => /\ \A d, e \in Es : Active(d) /\ Active(e) => d = e
          /\ \A e \in Es : pending[e] => Outside(e)

(* Where a handler can be after a tick that came to nothing.               *)
LostInv ==
  lost > 0 => /\ lost = 1 /\ index_next = -1
              /\ \A e \in Es : handler[e] \in {"none", "claim", "own", "preempt"}

LEMMA AloneStep ==
  ASSUME TypeOK, Alone, [Next]_vars
  PROVE  Alone'
<1> USE DEF TypeOK
<1>1. CASE UNCHANGED vars
  BY <1>1 DEF Alone, Active, Outside, vars, history
<1>2. ASSUME NEW e \in Es, Tick(e)
      PROVE  Alone'
  <2>1. solo' => \A d \in Es : handler[d] = "none" /\ ~ pending[d]
    BY <1>2 DEF Tick, Quiet
  <2>2. UNCHANGED handler /\ pending' = [pending EXCEPT ![e] = TRUE]
    BY <1>2 DEF Tick
  <2> QED BY <2>1, <2>2 DEF Alone, Active, Outside
<1>3. ASSUME NEW e \in Es, Dispatch(e) \/ Yield(e) \/ Return(e) \/ FreeTimer(e)
      PROVE  Alone'
  <2>1. UNCHANGED <<pending, handler, solo>>
    BY <1>3 DEF Dispatch, Yield, Return, FreeTimer, history
  <2> QED BY <2>1 DEF Alone, Active, Outside
<1>4. ASSUME NEW e \in Es, HandlerStep(e)
      PROVE  Alone'
  <2>1. UNCHANGED solo
    BY <1>4 DEF HandlerStep, Deliver, Claim, Own, Reset, Chain, Start, Forward, Preempt, history
  <2>2. CASE Deliver(e) \/ Claim(e) \/ Own(e) \/ Reset(e) \/ Chain(e) \/ Start(e) \/ Preempt(e)
    <3>1. \A d \in Es \ {e} : UNCHANGED <<pending[d], handler[d]>>
      BY <2>2 DEF Deliver, Claim, Own, Reset, Chain, Start, Preempt, Handles
    <3>2. Active(e)' => Active(e)
      BY <2>2 DEF Deliver, Claim, Own, Reset, Chain, Start, Preempt, Handles, At, Active, Outside
    <3>3. (pending[e] => Outside(e)) => (pending'[e] => Outside(e)')
      BY <2>2 DEF Deliver, Claim, Own, Reset, Chain, Start, Preempt, Handles, At, Outside
    <3> QED BY <2>1, <3>1, <3>2, <3>3 DEF Alone, Active, Outside
  <2>3. CASE Forward(e)
    <3>1. At(e, "next") /\ handler' = [handler EXCEPT ![e] = "preempt"]
      BY <2>3 DEF Forward, Handles
    <3>2. UNCHANGED pending \/ \E d \in Es : pending' = [pending EXCEPT ![d] = TRUE]
      BY <2>3 DEF Forward, Following
    <3>3. SUFFICES ASSUME solo PROVE Alone'
      BY <2>1 DEF Alone
    <3>4. ~ pending[e] /\ \A d \in Es \ {e} : ~ pending[d] /\ Outside(d)
      BY <3>1, <3>3 DEF Alone, Active, Outside, At
    <3> QED BY <3>1, <3>2, <3>4 DEF Alone, Active, Outside
  <2> QED BY <1>4, <2>2, <2>3 DEF HandlerStep
<1>5. ASSUME ClientStep
      PROVE  Alone'
  <2>1. UNCHANGED <<pending, handler>> /\ solo' \in {solo, FALSE}
    BY <1>5 DEF ClientStep, CallStart, StartTimer, Started, StopTimer, Stopped, Request, Free, CallStop, history
  <2> QED BY <2>1 DEF Alone, Active, Outside
<1> QED BY <1>1, <1>2, <1>3, <1>4, <1>5 DEF Next

LEMMA LostStep ==
  ASSUME TypeOK, Alone, LostInv, [Next]_vars
  PROVE  LostInv'
<1> USE DEF TypeOK
<1>1. CASE UNCHANGED vars
  BY <1>1 DEF LostInv, vars, history, chain
<1>2. ASSUME NEW e \in Es, Tick(e) \/ Dispatch(e) \/ Yield(e) \/ Return(e) \/ FreeTimer(e)
      PROVE  LostInv'
  <2>1. UNCHANGED <<index_next, handler>> /\ lost' \in {lost, 0}
    BY <1>2 DEF Tick, Dispatch, Yield, Return, FreeTimer, chain, history
  <2> QED BY <2>1 DEF LostInv
<1>3. ASSUME ClientStep
      PROVE  LostInv'
  <2>1. UNCHANGED handler /\ lost' \in {lost, 0} /\ index_next' \in {index_next, -1}
    BY <1>3 DEF ClientStep, CallStart, StartTimer, Started, StopTimer, Stopped, Request, Free, CallStop,
                chain, history
  <2> QED BY <2>1 DEF LostInv
<1>4. ASSUME NEW e \in Es, HandlerStep(e)
      PROVE  LostInv'
  <2>1. CASE Reset(e)
    <3>1. handler[e] = "reset" /\ index_next' = -1 /\ handler' = [handler EXCEPT ![e] = "none"]
      BY <2>1 DEF Reset, At, Handles
    <3>2. lost = 0
      BY <3>1 DEF LostInv
    <3>3. lost' = IF solo THEN 1 ELSE 0
      BY <2>1, <3>2 DEF Reset
    <3>4. solo => \A d \in Es \ {e} : handler[d] \in {"none", "preempt"}
      BY <3>1 DEF Alone, Active, Outside
    <3> QED BY <3>1, <3>3, <3>4 DEF LostInv
  <2>2. CASE Own(e)
    BY <2>2 DEF Own, Hit, LostInv
  <2>3. CASE Claim(e)
    <3>1. handler[e] = "claim" /\ UNCHANGED index_next /\ lost' \in {lost, 0}
      BY <2>3 DEF Claim, At, Hit, chain
    <3>2. index_next = -1 => handler' = [handler EXCEPT ![e] = "own"]
      BY <2>3 DEF Claim, Handles
    <3> QED BY <3>1, <3>2 DEF LostInv
  <2>4. CASE Deliver(e) \/ Preempt(e)
    BY <2>4 DEF Deliver, Preempt, Handles, LostInv, chain, history
  <2>5. CASE Chain(e) \/ Start(e) \/ Forward(e)
    <3>1. handler[e] \in {"chain", "start", "next"} /\ UNCHANGED lost
      BY <2>5 DEF Chain, Start, Forward, At, history
    <3> QED BY <3>1 DEF LostInv
  <2> QED BY <1>4, <2>1, <2>2, <2>3, <2>4, <2>5 DEF HandlerStep
<1> QED BY <1>1, <1>2, <1>3, <1>4 DEF Next

(* A tick that no other signal overlaps may find the group as a stop and a *)
(* start left it in the middle of a chain, and preempt nobody; it then has *)
(* reset index_next, so that the next such tick is not lost (Reset in      *)
(* ABTI_preemption_timer_preempt_another).                                 *)
THEOREM GroupRecoversTheorem == Spec => []GroupRecovers
<1>1. Init => Alone /\ LostInv
  BY DEF Init, Alone, LostInv
<1>2. TypeOK /\ Alone /\ LostInv /\ [Next]_vars => Alone' /\ LostInv'
  BY AloneStep, LostStep
<1>3. TypeOK /\ LostInv => GroupRecovers
  BY DEF TypeOK, LostInv, GroupRecovers
<1> QED BY <1>1, <1>2, <1>3, TimerTypeCorrect, PTL DEF Spec
-----------------------------------------------------------------------------
(* The ring.  ESs are compared by their positions from index_until on.     *)

Pos(u, e) == IF e >= u THEN e - u ELSE e - u + N

LEMMA Ring ==
  ASSUME NEW u \in Es, NEW d \in Es, NEW e \in Es
  PROVE  /\ Pos(u, e) \in Es /\ Pos(u, u) = 0
         /\ Pos(u, d) = Pos(u, e) => d = e
         /\ Distance(e, u) = N - Pos(u, e)
         /\ Pos(u, d) > Pos(u, e) => Distance(e, d) = Pos(u, d) - Pos(u, e)
         /\ Distance(e, d) < Distance(e, u) => Pos(u, d) > Pos(u, e)
<1>1. /\ N \in Nat \ {0} /\ u \in 0..(N - 1) /\ d \in 0..(N - 1) /\ e \in 0..(N - 1)
  BY GroupAssumption DEF Es
<1>2. ASSUME NEW x \in 0..(N - 1), NEW y \in 0..(N - 1), x # y
      PROVE  (y - x + N) % N = IF y > x THEN y - x ELSE y - x + N
  BY <1>1, <1>2
<1>3. /\ Distance(e, u) = IF u = e THEN N ELSE IF u > e THEN u - e ELSE u - e + N
      /\ Distance(e, d) = IF d = e THEN N ELSE IF d > e THEN d - e ELSE d - e + N
  BY <1>1, <1>2 DEF Distance
<1> HIDE DEF Distance
<1>4. Pos(u, e) \in Es /\ Pos(u, u) = 0 /\ (Pos(u, d) = Pos(u, e) => d = e)
  BY <1>1 DEF Pos, Es
<1>5. Distance(e, u) = N - Pos(u, e)
  BY <1>1, <1>3 DEF Pos
<1>6. Pos(u, d) > Pos(u, e) => Distance(e, d) = Pos(u, d) - Pos(u, e)
  BY <1>1, <1>3 DEF Pos
<1>7. Distance(e, d) < Distance(e, u) => Pos(u, d) > Pos(u, e)
  BY <1>1, <1>3 DEF Pos
<1> QED BY <1>4, <1>5, <1>6, <1>7
-----------------------------------------------------------------------------
(* A round of signals.                                                     *)

(* ESs that need no signal any more: they have got one, or could not be    *)
(* preempted at some time in the round.                                    *)
Seen == round.hit \cup round.spared

(* The stages of a round: ES e has the first signal and has not claimed    *)
(* the group, has claimed it and not begun the chain, holds the chain, or  *)
(* has been sent the signal by the one before.                             *)
Waits(e) == handler[e] = "claim" \/ (pending[e] /\ Outside(e))

Begins(e) ==
  /\ index_next = -1 /\ ~ in_chain /\ round.hit = {}
  /\ handler[e] = "own" \/ Waits(e)

Owns(e) ==
  index_next = e /\ ~ in_chain /\ round.hit = {e} /\ handler[e] \in {"chain", "start"}

Holds(e) ==
  /\ index_next = e /\ in_chain /\ handler[e] \in {"chain", "next"}
  /\ \A d \in Es : Pos(index_until, d) <= Pos(index_until, e) => d \in Seen
  /\ \A d \in round.hit : Pos(index_until, d) <= Pos(index_until, e)

Goes(e) ==
  /\ index_next = e /\ in_chain /\ Waits(e)
  /\ \A d \in Es : Pos(index_until, d) < Pos(index_until, e) => d \in Seen
  /\ \A d \in round.hit : Pos(index_until, d) < Pos(index_until, e)

Stage(e) == Begins(e) \/ Owns(e) \/ Holds(e) \/ Goes(e)

RoundInv ==
  round.live =>
    /\ solo /\ client.call = "on" /\ ~ round.twice
    /\ \A e \in Es : ~ preemptive[e] => e \in round.spared
    /\ \A e \in Es : Active(e) => Stage(e)
    /\ Seen = Es \/ \E e \in Es : Active(e)

(* The timers are on between start and stop.                               *)
OnInv ==
  /\ client.call = "on" => \A e \in Es : ptimer_on[e]
  /\ client.call = "start" => \A e \in Es : e < client.e => ptimer_on[e]

LEMMA OnStep ==
  ASSUME TypeOK, OnInv, [Next]_vars
  PROVE  OnInv'
<1> USE DEF TypeOK
<1>1. CASE UNCHANGED vars
  BY <1>1 DEF OnInv, vars, calls
<1>2. ASSUME NEW e \in Es, Tick(e) \/ Dispatch(e) \/ Yield(e) \/ Return(e) \/ FreeTimer(e) \/ HandlerStep(e)
      PROVE  OnInv'
  <2>1. UNCHANGED <<client, ptimer_on>>
    BY <1>2 DEF Tick, Dispatch, Yield, Return, FreeTimer, HandlerStep, Deliver, Claim, Own, Reset, Chain,
                Start, Forward, Preempt, calls
  <2> QED BY <2>1 DEF OnInv
<1>3. CASE StartTimer
  <2>1. /\ client.call = "start" /\ client.e \in Es /\ client.e + 1 \in 0..N
        /\ client' = [client EXCEPT !.e = client.e + 1]
        /\ ptimer_on' = [ptimer_on EXCEPT ![client.e] = TRUE]
    BY <1>3, GroupAssumption DEF StartTimer, Calls, NextEs, Es
  <2>2. client'.call = "start" /\ client'.e = client.e + 1
    BY <2>1
  <2>3. \A e \in Es : e < client.e + 1 => ptimer_on'[e]
    BY <2>1, GroupAssumption DEF OnInv, Es
  <2> QED BY <2>2, <2>3 DEF OnInv
<1>4. CASE Started
  <2>1. /\ client.call = "start" /\ client.e = N /\ client' = [call |-> "on", e |-> 0]
        /\ UNCHANGED ptimer_on
    BY <1>4 DEF Started, Called, CallIs
  <2>2. \A e \in Es : e < N
    BY GroupAssumption DEF Es
  <2> QED BY <2>1, <2>2 DEF OnInv
<1>5. CASE CallStart
  <2>1. client' = [call |-> "start", e |-> 0] /\ \A e \in Es : ~ e < 0
    BY <1>5 DEF CallStart, CallIs, Es
  <2> QED BY <2>1 DEF OnInv
<1>6. CASE StopTimer \/ Stopped \/ Request \/ Free \/ \E c \in {"stop", "delete"} : CallStop(c)
  <2>1. client'.call \notin {"on", "start"}
    BY <1>6 DEF StopTimer, Stopped, Request, Free, CallStop, Calls, Called, CallIs, NextEs
  <2> QED BY <2>1 DEF OnInv
<1> QED BY <1>1, <1>2, <1>3, <1>4, <1>5, <1>6 DEF Next, ClientStep

GroupInv == TypeOK /\ Alone /\ OnInv /\ RoundInv

(* A round begins with the tick.                                           *)
LEMMA RoundTick ==
  ASSUME GroupInv, NEW e \in Es, Tick(e)
  PROVE  RoundInv'
<1>1. SUFFICES ASSUME round'.live PROVE RoundInv'
  BY DEF RoundInv
<1>2. solo' /\ index_next = -1 /\ ~ in_chain
  BY <1>1 DEF Tick, NoRound
<1>3. round' = [NoRound EXCEPT !.live = TRUE, !.spared = {d \in Es : ~ preemptive[d]}]
  BY <1>2 DEF Tick
<1>4. round'.hit = {} /\ round'.spared = {d \in Es : ~ preemptive[d]} /\ ~ round'.twice
  BY <1>3 DEF NoRound
<1>5. /\ \A d \in Es : handler[d] = "none" /\ ~ pending[d]
      /\ client.call = "on"
  BY <1>2 DEF Tick, Quiet
<1>6. /\ UNCHANGED <<index_next, in_chain, handler, client, preemptive>>
      /\ pending' = [pending EXCEPT ![e] = TRUE]
  BY DEF Tick, chain, calls, place
<1>7. \A d \in Es : Active(d)' => d = e
  BY <1>5, <1>6 DEF Active, Outside, GroupInv, TypeOK
<1>8. Begins(e)' /\ Active(e)'
  BY <1>2, <1>4, <1>5, <1>6 DEF Begins, Waits, Active, Outside, GroupInv, TypeOK
<1> QED BY <1>1, <1>2, <1>4, <1>5, <1>6, <1>7, <1>8 DEF RoundInv, Stage

(* A ULT that becomes preemptive or not, at one ES, changes nothing.       *)
LEMMA RoundPlace ==
  ASSUME GroupInv, NEW e \in Es, Dispatch(e) \/ Yield(e) \/ Return(e) \/ FreeTimer(e)
  PROVE  RoundInv'
<1>1. UNCHANGED <<index_next, index_until, in_chain, pending, handler, client, solo>>
  BY DEF Dispatch, Yield, Return, FreeTimer, chain, calls, history
<1>2. round \in Rounds
  BY DEF GroupInv, TypeOK, Rounds
<1>3. round' = round \/ round' = [round EXCEPT !.spared = IF round.live THEN @ \cup {e} ELSE @]
  BY DEF Dispatch, Yield, Return, FreeTimer, history
<1>4. UNCHANGED <<round.live, round.hit, round.twice>> /\ round.spared \subseteq round'.spared
      /\ round'.spared \subseteq Es
  BY <1>2, <1>3 DEF Rounds
<1>5. SUFFICES ASSUME round.live PROVE RoundInv'
  BY <1>4 DEF RoundInv
<1>6. \A d \in Es : ~ preemptive'[d] => d \in round'.spared
  <2>1. CASE Return(e)
    <3>1. preemptive' = [preemptive EXCEPT ![e] = FALSE] /\ e \in round'.spared
      BY <1>2, <1>5, <2>1 DEF Return, Rounds
    <3> QED BY <1>4, <1>5, <3>1 DEF GroupInv, TypeOK, RoundInv
  <2>2. CASE Dispatch(e) \/ Yield(e) \/ FreeTimer(e)
    <3>1. preemptive' = preemptive \/ preemptive' = [preemptive EXCEPT ![e] = TRUE]
      BY <2>2 DEF Dispatch, Yield, FreeTimer, place
    <3> QED BY <1>4, <1>5, <3>1 DEF GroupInv, TypeOK, RoundInv
  <2> QED BY <2>1, <2>2
<1>7. \A d \in Es : (Active(d)' <=> Active(d)) /\ (Stage(d) => Stage(d)')
  <2>1. Seen \subseteq Seen'
    BY <1>4 DEF Seen
  <2> QED BY <1>1, <1>4, <2>1 DEF Active, Outside, Stage, Begins, Owns, Holds, Goes, Waits
<1>8. Seen = Es => Seen' = Es
  BY <1>2, <1>4 DEF Seen, Rounds
<1> QED BY <1>1, <1>4, <1>5, <1>6, <1>7, <1>8 DEF GroupInv, RoundInv

(* The client does not act in a round, except that it calls stop or        *)
(* delete.                                                                 *)
LEMMA RoundClient ==
  ASSUME GroupInv, ClientStep
  PROVE  RoundInv'
<1>1. CASE \E c \in {"stop", "delete"} : CallStop(c)
  BY <1>1 DEF CallStop, NoRound, RoundInv
<1>2. CASE CallStart \/ StartTimer \/ Started \/ StopTimer \/ Stopped \/ Request \/ Free
  <2>1. UNCHANGED round /\ client.call # "on"
    BY <1>2 DEF CallStart, StartTimer, Started, StopTimer, Stopped, Request, Free, Calls, Called, history
  <2> QED BY <2>1 DEF GroupInv, RoundInv
<1> QED BY <1>1, <1>2 DEF ClientStep

(* The handler of the ES that has the signal goes from stage to stage.     *)
LEMMA RoundFields ==
  ASSUME GroupInv, NEW e \in Es, round.live, HandlerStep(e), Active(e), round' \in Rounds,
         round'.live, ~ round'.twice, round'.spared = round.spared,
         \A d \in Es : Active(d)' => Stage(d)',
         Seen' = Es \/ \E d \in Es : Active(d)'
  PROVE  RoundInv'
<1>1. UNCHANGED <<preemptive, client, solo>>
  BY DEF HandlerStep, Deliver, Claim, Own, Reset, Chain, Start, Forward, Preempt, place, calls, history
<1> QED BY <1>1 DEF GroupInv, RoundInv

LEMMA RoundStay ==
  ASSUME GroupInv, NEW e \in Es, round.live, HandlerStep(e), Active(e),
         round'.live, ~ round'.twice, round'.spared = round.spared, round' \in Rounds,
         UNCHANGED pending \/ pending' = [pending EXCEPT ![e] = FALSE],
         NEW l, handler' = [handler EXCEPT ![e] = l], Active(e)', Stage(e)'
  PROVE  RoundInv'
<1>1. \A d \in Es : Active(d)' => d = e
  BY DEF GroupInv, RoundInv, Alone, Active, Outside, TypeOK
<1> QED BY <1>1, RoundFields

LEMMA RoundHandler ==
  ASSUME GroupInv, NEW e \in Es, HandlerStep(e)
  PROVE  RoundInv'
<1>r. round \in Rounds /\ index_until \in Es
  BY DEF GroupInv, TypeOK, Rounds
<1>t. pending \in [Es -> BOOLEAN] /\ handler \in [Es -> {"none", "claim", "own", "reset", "chain", "start", "next", "preempt"}]
  BY DEF GroupInv, TypeOK
<1>n. \A i \in Es : i # -1
  BY GroupAssumption DEF Es
<1>1. SUFFICES ASSUME round.live PROVE RoundInv'
  BY <1>r DEF HandlerStep, Deliver, Claim, Own, Reset, Chain, Start, Forward, Preempt, Hit, history, RoundInv
<1>s. Active(e) => Stage(e)
  BY <1>1 DEF GroupInv, RoundInv
<1>w. ~ round.twice /\ solo /\ client.call = "on"
  BY <1>1 DEF GroupInv, RoundInv
<1>o. pending[e] => Outside(e)
  BY <1>w DEF GroupInv, Alone
<1>2. CASE Deliver(e)
  <2>1. pending[e] /\ handler[e] = "none" /\ ptimer_on[e]
    BY <1>2, <1>w DEF Deliver, At, GroupInv, OnInv
  <2>2. /\ handler' = [handler EXCEPT ![e] = "claim"] /\ pending' = [pending EXCEPT ![e] = FALSE]
        /\ UNCHANGED <<index_next, index_until, in_chain, round>>
    BY <1>2, <2>1 DEF Deliver, Handles, chain, history
  <2>3. Begins(e) \/ Goes(e)
    BY <1>s, <2>1 DEF Active, Stage, Owns, Holds
  <2>4. handler'[e] = "claim" /\ Active(e) /\ Active(e)'
    BY <1>t, <2>1, <2>2 DEF Active, Outside
  <2>5. Begins(e)' \/ Goes(e)'
    <3>1. Begins(e) => Begins(e)'
      BY <2>2, <2>4 DEF Begins, Waits
    <3>2. Goes(e) => Goes(e)'
      BY <2>2, <2>4 DEF Goes, Waits, Seen
    <3> QED BY <2>3, <3>1, <3>2
  <2> QED BY <1>1, <1>r, <1>w, <2>2, <2>4, <2>5, RoundStay DEF Stage
<1>3. CASE Claim(e)
  <2>1. handler[e] = "claim" /\ Active(e) /\ UNCHANGED <<index_next, index_until, in_chain, pending>>
    BY <1>3, <1>t DEF Claim, At, Active, Outside, chain
  <2>2. Begins(e) \/ Goes(e)
    BY <1>s, <2>1 DEF Stage, Owns, Holds
  <2>3. CASE Begins(e)
    <3>1. index_next = -1 /\ index_next # e
      BY <1>n, <2>3 DEF Begins
    <3>2. handler' = [handler EXCEPT ![e] = "own"] /\ UNCHANGED round
      BY <1>3, <3>1 DEF Claim, Handles
    <3>3. Begins(e)' /\ Active(e)'
      BY <1>t, <2>1, <2>3, <3>2 DEF Begins, Active, Outside
    <3> QED BY <1>1, <1>r, <1>w, <2>1, <3>2, <3>3, RoundStay DEF Stage
  <2>4. CASE Goes(e)
    <3>1. index_next = e /\ index_next # -1
      BY <1>n, <2>4 DEF Goes
    <3>2. /\ handler' = [handler EXCEPT ![e] = "chain"]
          /\ round' = [round EXCEPT !.hit = @ \cup {e}, !.twice = @ \/ e \in round.hit]
      BY <1>1, <1>3, <3>1 DEF Claim, Handles, Hit
    <3>3. e \notin round.hit
      <4>1. Pos(index_until, e) \in Int
        BY <1>r, Ring DEF Es
      <4>2. ~ Pos(index_until, e) < Pos(index_until, e)
        BY <4>1
      <4> QED BY <2>4, <4>2 DEF Goes
    <3>4. /\ round'.live /\ ~ round'.twice /\ round'.spared = round.spared
          /\ round'.hit = round.hit \cup {e} /\ round' \in Rounds
      <4>1. round' = [round EXCEPT !.hit = @ \cup {e}, !.twice = FALSE]
        BY <1>w, <1>r, <3>2, <3>3 DEF Rounds
      <4> QED BY <1>1, <1>r, <4>1, RoundTyped DEF Rounds
    <3>5. handler'[e] = "chain" /\ Active(e)'
      BY <1>t, <3>2 DEF Active, Outside
    <3>6. \A d \in Es : Pos(index_until, d) <= Pos(index_until, e) => d \in Seen'
      <4> SUFFICES ASSUME NEW d \in Es, Pos(index_until, d) <= Pos(index_until, e)
                   PROVE  d \in Seen'
        OBVIOUS
      <4>1. Pos(index_until, d) \in Int /\ Pos(index_until, e) \in Int
        BY <1>r, Ring DEF Es
      <4>2. CASE Pos(index_until, d) < Pos(index_until, e)
        BY <2>4, <3>4, <4>2 DEF Goes, Seen
      <4>3. CASE Pos(index_until, d) = Pos(index_until, e)
        BY <1>r, <3>4, <4>3, Ring DEF Seen
      <4> QED BY <4>1, <4>2, <4>3
    <3>7. \A d \in round'.hit : Pos(index_until, d) <= Pos(index_until, e)
      <4>1. \A d \in round.hit : Pos(index_until, d) \in Int /\ Pos(index_until, e) \in Int
        BY <1>r, Ring DEF Es, Rounds
      <4>2. Pos(index_until, e) <= Pos(index_until, e)
        BY <1>r, Ring DEF Es
      <4> QED BY <2>4, <3>4, <4>1, <4>2 DEF Goes
    <3>8. Holds(e)'
      BY <2>1, <2>4, <3>5, <3>4, <3>6, <3>7 DEF Goes, Holds
    <3> QED BY <1>1, <2>1, <3>2, <3>4, <3>5, <3>8, RoundStay DEF Stage
  <2> QED BY <2>2, <2>3, <2>4
<1>4. CASE Own(e)
  <2>1. handler[e] = "own" /\ Active(e)
    BY <1>4, <1>t DEF Own, At, Active, Outside
  <2>2. Begins(e)
    BY <1>s, <1>o, <2>1 DEF Stage, Owns, Holds, Goes, Waits, Outside
  <2>3. /\ handler' = [handler EXCEPT ![e] = "chain"] /\ index_next' = e /\ UNCHANGED <<in_chain, pending>>
        /\ round' = [round EXCEPT !.hit = @ \cup {e}, !.twice = @ \/ e \in round.hit]
    BY <1>1, <1>4 DEF Own, Handles, Hit
  <2>4. round.hit = {} /\ ~ in_chain
    BY <2>2 DEF Begins
  <2>5. /\ round'.live /\ ~ round'.twice /\ round'.spared = round.spared
        /\ round'.hit = {e} /\ round' \in Rounds
    <3>1. round' = [round EXCEPT !.hit = @ \cup {e}, !.twice = FALSE]
      BY <1>w, <1>r, <2>3, <2>4 DEF Rounds
    <3>2. round' \in Rounds
      BY <1>r, <3>1, RoundTyped
    <3>3. round'.live /\ ~ round'.twice /\ round'.spared = round.spared /\ round'.hit = round.hit \cup {e}
      BY <1>1, <1>r, <3>1 DEF Rounds
    <3> QED BY <2>4, <3>2, <3>3
  <2>6. Owns(e)' /\ Active(e)'
    BY <1>t, <2>3, <2>4, <2>5 DEF Owns, Active, Outside
  <2> QED BY <1>1, <2>1, <2>3, <2>5, <2>6, RoundStay DEF Stage
<1>5. CASE Reset(e)
  <2>1. handler[e] = "reset" /\ Active(e)
    BY <1>5, <1>t DEF Reset, At, Active, Outside
  <2> QED BY <1>s, <1>o, <2>1 DEF Stage, Begins, Owns, Holds, Goes, Waits, Outside
<1>6. CASE Chain(e)
  <2>1. handler[e] = "chain" /\ Active(e) /\ UNCHANGED <<index_next, index_until, in_chain, pending, round>>
    BY <1>6, <1>t DEF Chain, At, Active, Outside, chain, history
  <2>2. Owns(e) \/ Holds(e)
    BY <1>s, <1>o, <2>1 DEF Stage, Begins, Goes, Waits, Outside
  <2>3. CASE Owns(e)
    <3>1. handler' = [handler EXCEPT ![e] = "start"]
      BY <1>6, <2>3 DEF Chain, Handles, Owns
    <3>2. Owns(e)' /\ Active(e)'
      BY <1>t, <2>1, <2>3, <3>1 DEF Owns, Active, Outside
    <3> QED BY <1>1, <1>r, <1>w, <2>1, <3>1, <3>2, RoundStay DEF Stage
  <2>4. CASE Holds(e)
    <3>1. handler' = [handler EXCEPT ![e] = "next"]
      BY <1>6, <2>4 DEF Chain, Handles, Holds
    <3>2. Holds(e)' /\ Active(e)'
      BY <1>t, <2>1, <2>4, <3>1 DEF Holds, Active, Outside, Seen
    <3> QED BY <1>1, <1>r, <1>w, <2>1, <3>1, <3>2, RoundStay DEF Stage
  <2> QED BY <2>2, <2>3, <2>4
<1>7. CASE Start(e)
  <2>1. /\ handler[e] = "start" /\ Active(e) /\ UNCHANGED <<index_next, pending, round>>
        /\ in_chain' = TRUE /\ index_until' = e /\ handler' = [handler EXCEPT ![e] = "next"]
    BY <1>7, <1>t DEF Start, At, Active, Outside, Handles, history
  <2>2. Owns(e)
    BY <1>s, <1>o, <2>1 DEF Stage, Begins, Holds, Goes, Waits, Outside
  <2>3. \A d \in Es : Pos(e, d) <= Pos(e, e) => d = e
    <3> SUFFICES ASSUME NEW d \in Es, Pos(e, d) <= Pos(e, e)
                 PROVE  d = e
      OBVIOUS
    <3>1. Pos(e, d) \in Es /\ Pos(e, e) = 0
      BY Ring
    <3>2. Pos(e, d) = Pos(e, e)
      BY <3>1, GroupAssumption DEF Es
    <3> QED BY <3>2, Ring
  <2>4. Pos(e, e) <= Pos(e, e)
    BY Ring DEF Es
  <2>5. handler'[e] = "next" /\ Active(e)'
    BY <1>t, <2>1 DEF Active, Outside
  <2>6. Holds(e)'
    BY <2>1, <2>2, <2>3, <2>4, <2>5 DEF Owns, Holds, Seen
  <2> QED BY <1>1, <1>r, <1>w, <2>1, <2>5, <2>6, RoundStay DEF Stage
<1>8. CASE Forward(e)
  <2>1. /\ handler[e] = "next" /\ Active(e) /\ UNCHANGED <<index_until, round>>
        /\ handler' = [handler EXCEPT ![e] = "preempt"]
    BY <1>8, <1>t DEF Forward, At, Active, Outside, Handles, history
  <2>2. Holds(e)
    BY <1>s, <1>o, <2>1 DEF Stage, Begins, Owns, Goes, Waits, Outside
  <2>3. \A d \in Es \ {e} : ~ pending[d] /\ Outside(d)
    BY <1>w, <2>1 DEF GroupInv, Alone, Active
  <2>4. ~ pending[e]
    BY <1>o, <2>1 DEF Outside
  <2>5. \A d \in Es : ~ preemptive[d] => d \in Seen
    BY <1>1 DEF GroupInv, RoundInv, Seen
  <2>6. ASSUME NEW d \in Es
        PROVE  Pos(index_until, d) \in Int /\ Pos(index_until, e) \in Int
    BY <1>r, Ring DEF Es
  <2>7. ASSUME NEW d \in Es, Pos(index_until, d) > Pos(index_until, e), d \notin Seen
        PROVE  /\ d \in Following(e)
               /\ Distance(e, d) = Pos(index_until, d) - Pos(index_until, e)
    <3>1. /\ Distance(e, index_until) = N - Pos(index_until, e)
          /\ Distance(e, d) = Pos(index_until, d) - Pos(index_until, e)
      BY <1>r, <2>7, Ring
    <3>2. Pos(index_until, d) \in 0..(N - 1) /\ Pos(index_until, e) \in 0..(N - 1)
      BY <1>r, Ring DEF Es
    <3>3. Distance(e, d) < Distance(e, index_until)
      BY <3>1, <3>2, GroupAssumption
    <3> QED BY <2>5, <2>7, <3>1, <3>3 DEF Following
  <2>8. CASE Following(e) = {} /\ index_next' = -1 /\ in_chain' = FALSE /\ UNCHANGED pending
    <3>1. \A d \in Es : d \in Seen
      BY <2>2, <2>6, <2>7, <2>8 DEF Holds
    <3>2. Seen' = Es
      BY <1>r, <2>1, <3>1 DEF Seen, Rounds
    <3>3. \A d \in Es : ~ Active(d)'
      BY <1>t, <2>1, <2>3, <2>4, <2>8 DEF Active, Outside
    <3> QED BY <1>1, <1>r, <1>w, <2>1, <3>2, <3>3, RoundFields
  <2>9. ASSUME NEW d \in Following(e),
               \A c \in Following(e) : Distance(e, d) <= Distance(e, c),
               index_next' = d, pending' = [pending EXCEPT ![d] = TRUE], UNCHANGED in_chain
        PROVE  RoundInv'
    <3>1. d \in Es /\ Distance(e, d) < Distance(e, index_until)
      BY <2>9 DEF Following
    <3>2. Pos(index_until, d) > Pos(index_until, e)
      BY <1>r, <3>1, Ring
    <3>3. Distance(e, d) = Pos(index_until, d) - Pos(index_until, e)
      BY <1>r, <3>1, <3>2, Ring
    <3>4. d # e
      BY <2>6, <3>2
    <3>5. \A c \in Es : Pos(index_until, c) < Pos(index_until, d) => c \in Seen
      <4> SUFFICES ASSUME NEW c \in Es, Pos(index_until, c) < Pos(index_until, d), c \notin Seen
                   PROVE  FALSE
        OBVIOUS
      <4>1. Pos(index_until, c) > Pos(index_until, e)
        BY <2>2, <2>6 DEF Holds
      <4>2. c \in Following(e) /\ Distance(e, c) = Pos(index_until, c) - Pos(index_until, e)
        BY <2>7, <4>1
      <4>3. Distance(e, d) <= Distance(e, c)
        BY <2>9, <4>2
      <4> QED BY <2>6, <3>1, <3>3, <4>2, <4>3
    <3>6. \A c \in round.hit : Pos(index_until, c) < Pos(index_until, d)
      <4>1. \A c \in round.hit : c \in Es /\ Pos(index_until, c) <= Pos(index_until, e)
        BY <1>r, <2>2 DEF Holds, Rounds
      <4> QED BY <2>6, <3>1, <3>2, <4>1
    <3>7. pending'[d] /\ Outside(d)' /\ Active(d)'
      BY <1>t, <2>1, <2>3, <2>9, <3>1, <3>4 DEF Active, Outside
    <3>8. Goes(d)'
      BY <2>1, <2>2, <2>9, <3>5, <3>6, <3>7 DEF Goes, Holds, Waits, Seen
    <3>9. \A c \in Es : Active(c)' => c = d
      BY <1>t, <2>1, <2>3, <2>4, <2>9, <3>1 DEF Active, Outside
    <3> QED BY <1>1, <1>r, <1>w, <2>1, <3>1, <3>7, <3>8, <3>9, RoundFields DEF Stage
  <2> QED BY <1>8, <2>8, <2>9 DEF Forward
<1>9. CASE Preempt(e)
  <2>1. /\ handler[e] = "preempt" /\ UNCHANGED <<index_next, index_until, in_chain, pending, round>>
        /\ handler' = [handler EXCEPT ![e] = "none"] /\ UNCHANGED <<preemptive, client, solo>>
    BY <1>9 DEF Preempt, At, Handles, chain, history, calls
  <2>2. \A d \in Es : (Outside(d)' <=> Outside(d)) /\ (Active(d)' <=> Active(d))
    BY <1>t, <2>1 DEF Active, Outside
  <2>3. \A d \in Es : handler[d] = "preempt" \/ handler'[d] = handler[d]
    BY <1>t, <2>1
  <2>4. \A d \in Es : Stage(d) => Stage(d)'
    BY <2>1, <2>2, <2>3 DEF Stage, Begins, Owns, Holds, Goes, Waits, Seen
  <2>5. UNCHANGED Seen
    BY <2>1 DEF Seen
  <2> QED BY <1>1, <2>1, <2>2, <2>4, <2>5 DEF GroupInv, RoundInv
<1> QED BY <1>2, <1>3, <1>4, <1>5, <1>6, <1>7, <1>8, <1>9 DEF HandlerStep

LEMMA RoundStep ==
  ASSUME GroupInv, [Next]_vars
  PROVE  RoundInv'
<1>1. CASE UNCHANGED vars
  BY <1>1 DEF GroupInv, RoundInv, Stage, Begins, Owns, Holds, Goes, Waits, Seen, Active, Outside,
              vars, chain, place, calls, history
<1>2. CASE Next
  BY <1>2, RoundTick, RoundPlace, RoundClient, RoundHandler DEF Next
<1> QED BY <1>1, <1>2

(* A round of signals that no other timer disturbs visits the ESs in the   *)
(* order of the ring: those before the one that has the signal have got it *)
(* or could not be preempted, those behind have not got it, and nobody     *)
(* gets it twice; when no signal is on its way any more, all ESs that can  *)
(* be preempted have got it.                                               *)
THEOREM RoundHitsAllTheorem == Spec => []RoundHitsAll
<1>1. Init => Alone /\ OnInv /\ RoundInv
  BY DEF Init, Alone, OnInv, RoundInv, NoRound
<1>2. TypeOK /\ Alone /\ OnInv /\ RoundInv /\ [Next]_vars => Alone' /\ OnInv' /\ RoundInv'
  BY AloneStep, OnStep, RoundStep DEF GroupInv
<1>3. TypeOK /\ RoundInv => RoundHitsAll
  BY DEF TypeOK, RoundInv, RoundHitsAll, Quiet, Active, Outside, Seen
<1> QED BY <1>1, <1>2, <1>3, TimerTypeCorrect, PTL DEF Spec
=============================================================================
