------------------------------ MODULE EsSleep ------------------------------
(***************************************************************************)
(* The adaptive number of ESs: a signal to the allocator's thread changes  *)
(* how many ESs are active, the others sleep on a futex; and what else     *)
(* meets a sleeping ES: ABT_preemption_timer_delete and ABT_xstream_join,  *)
(* which first see to it that the ES is awake and does not sleep again.    *)
(* Sources: arch/abtd_signal.c, stream.c, preemption_timer.c.              *)
(*                                                                         *)
(* The primary ES has rank 0.  It is always active and runs the main ULT,  *)
(* the client, that creates, joins and frees the other ESs.                *)
(***************************************************************************)
EXTENDS Naturals, FiniteSets

CONSTANTS
  N,           \* the number of ESs, ranks are 0..N-1
  MaxSignals,  \* bound: how often the number of active ESs is changed
  Hogs         \* the ESs that may run a ULT that never gives them back

Secondary == 1..(N - 1)

ASSUME EsSleepAssumption ==
  N \in Nat \ {0} /\ MaxSignals \in Nat /\ Hogs \subseteq Secondary

VARIABLES
  num_active,                \* num_active_xstreams
  should_sleep, disable_sleep, sleep_flag,
  request,                   \* the requests JOIN and FREE_TIMER of an ES
  es,                        \* where the scheduler of an ES is
  handler,                   \* the handler of the signal: its label, its loop index, its argument
  signals,                   \* how many signals have come
  client,                    \* the client: its call, its label, the ES it is at
  delete_counter,
  late                       \* history: the ESs the client forbade to sleep too late (DisableSleep)

esVars == <<should_sleep, disable_sleep, sleep_flag, request, es>>
vars == <<num_active, esVars, handler, signals, client, delete_counter, late>>

TypeOK ==
  /\ num_active \in 1..N
  /\ should_sleep \in [Secondary -> BOOLEAN] /\ disable_sleep \in [Secondary -> BOOLEAN]
  /\ sleep_flag \in [Secondary -> {0, 1}]
  /\ request \in [Secondary -> SUBSET {"JOIN", "FREE_TIMER"}]
  /\ es \in [Secondary -> {"working", "arming", "callback", "futex", "asleep", "events",
                           "terminated"}]
  /\ handler \in [at : {"idle", "grow", "wake", "shrink", "set"}, i : 0..N, new : 1..N]
  /\ signals \in 0..MaxSignals
  /\ client \in [call : {"user", "delete", "join", "end"}, e : 1..N,
                 at : {"request", "disable", "test", "spin", "flag", "wake", "wait"}]
  /\ delete_counter \in Nat /\ late \subseteq Secondary
-----------------------------------------------------------------------------
(* The scheduler of ES e comes to check_events, whatever ULT it ran.       *)
Step(e, from, to) == es[e] = from /\ es' = [es EXCEPT ![e] = to]

CheckSleep(e) ==
  /\ Step(e, "working", IF should_sleep[e] THEN "arming" ELSE "events")
  /\ UNCHANGED <<num_active, should_sleep, disable_sleep, sleep_flag, request, handler, signals,
                 client, delete_counter>>

(* Mutant: the wait is not prepared by the store of the flag.              *)
StoreFlagNot(e) ==
  /\ Step(e, "arming", "callback")
  /\ UNCHANGED <<num_active, should_sleep, disable_sleep, sleep_flag, request, handler, signals,
                 client, delete_counter>>

(* ABTD_futex_sleep: the flag, the callback, the wait.                     *)
StoreFlag(e) ==
  /\ Step(e, "arming", "callback")
  /\ sleep_flag' = [sleep_flag EXCEPT ![e] = 1]
  /\ UNCHANGED <<num_active, should_sleep, disable_sleep, request, handler, signals, client,
                 delete_counter>>

(* Mutant: should_sleep is left for whoever wakes the ES.                  *)
SleepCallbackForgets(e) ==
  /\ Step(e, "callback", "futex")
  /\ UNCHANGED <<num_active, should_sleep, disable_sleep, sleep_flag, request, handler, signals,
                 client, delete_counter>>

SleepCallback(e) ==
  /\ Step(e, "callback", "futex")
  /\ should_sleep' = [should_sleep EXCEPT ![e] = FALSE]
  /\ UNCHANGED <<num_active, disable_sleep, sleep_flag, request, handler, signals, client,
                 delete_counter>>

FutexWait(e) ==
  /\ Step(e, "futex", IF sleep_flag[e] = 1 THEN "asleep" ELSE "events")
  /\ UNCHANGED <<num_active, should_sleep, disable_sleep, sleep_flag, request, handler, signals,
                 client, delete_counter>>

(* The rest of check_events.  With a JOIN request the scheduler stops when *)
(* its pools are empty.                                                    *)
Events(e) ==
  /\ \/ Step(e, "events", "working")
     \/ "JOIN" \in request[e] /\ Step(e, "events", "terminated")
  /\ IF "FREE_TIMER" \in request[e]
     THEN /\ request' = [request EXCEPT ![e] = @ \ {"FREE_TIMER"}]
          /\ delete_counter' = delete_counter + 1
     ELSE UNCHANGED <<request, delete_counter>>
  /\ UNCHANGED <<num_active, should_sleep, disable_sleep, sleep_flag, handler, signals, client>>

(* ABTI_xstream_wakeup: one atomic FUTEX_WAKE_OP.                          *)
Wakeup(e) ==
  /\ sleep_flag' = [sleep_flag EXCEPT ![e] = 0]
  /\ es' = [es EXCEPT ![e] = IF @ = "asleep" THEN "events" ELSE @]
-----------------------------------------------------------------------------
Handles(at, i) == handler' = [at |-> at, i |-> i, new |-> handler.new]

(* The signal arrives with the new number of ESs; the process exits if it  *)
(* is not among 1..N.                                                      *)
Signal(n) ==
  /\ handler.at = "idle" /\ signals < MaxSignals /\ n # num_active
  /\ n \in 1..N
  /\ signals' = signals + 1
  /\ handler' = IF n > num_active THEN [at |-> "grow", i |-> num_active, new |-> n]
                                  ELSE [at |-> "shrink", i |-> n, new |-> n]
  /\ UNCHANGED <<num_active, esVars, client, delete_counter, late>>

(* Mutant: the ES to wake may still be on its way to sleep.                *)
GrowWaitNot ==
  /\ handler.at = "grow" /\ handler.i < handler.new
  /\ Handles("wake", handler.i)
  /\ UNCHANGED <<num_active, esVars, signals, client, delete_counter>>

GrowWait ==
  /\ handler.at = "grow" /\ handler.i < handler.new
  /\ ~ should_sleep[handler.i]
  /\ Handles("wake", handler.i)
  /\ UNCHANGED <<num_active, esVars, signals, client, delete_counter>>

GrowWake ==
  /\ handler.at = "wake"
  /\ Wakeup(handler.i)
  /\ Handles("grow", handler.i + 1)
  /\ UNCHANGED <<num_active, should_sleep, disable_sleep, request, signals, client,
                 delete_counter>>

ShrinkTest ==
  /\ handler.at = "shrink" /\ handler.i < num_active
  /\ IF disable_sleep[handler.i] THEN Handles("shrink", handler.i + 1)
                                 ELSE Handles("set", handler.i)
  /\ UNCHANGED <<num_active, esVars, signals, client, delete_counter>>

ShrinkSet ==
  /\ handler.at = "set"
  /\ should_sleep' = [should_sleep EXCEPT ![handler.i] = TRUE]
  /\ Handles("shrink", handler.i + 1)
  /\ UNCHANGED <<num_active, disable_sleep, sleep_flag, request, es, signals, client,
                 delete_counter>>

HandlerEnd ==
  /\ \/ handler.at = "grow" /\ handler.i = handler.new
     \/ handler.at = "shrink" /\ handler.i = num_active
  /\ num_active' = handler.new
  /\ Handles("idle", 0)
  /\ UNCHANGED <<esVars, signals, client, delete_counter>>
-----------------------------------------------------------------------------
At(l) == client.call \in {"delete", "join"} /\ client.at = l /\ client.e < N

Goto(l) == client' = [call |-> client.call, e |-> client.e, at |-> l]

(* The client goes on with the next ES: the request of a join comes after  *)
(* the ES has been woken, that of delete before.                           *)
NextEs == client' = [call |-> client.call, e |-> client.e + 1,
                     at |-> IF client.call = "join" THEN "disable" ELSE "request"]

(* ABT_preemption_timer_delete, once, and then ABT_xstream_join for each   *)
(* ES.  The primary ES counts its own timer.                               *)
CallDelete ==
  /\ client.call = "user" /\ delete_counter = 0
  /\ client' = [call |-> "delete", e |-> 1, at |-> "request"]
  /\ delete_counter' = 1
  /\ UNCHANGED <<num_active, esVars, handler, signals, late>>

CallJoin ==
  /\ client.call = "user"
  /\ client' = [call |-> "join", e |-> 1, at |-> "disable"]
  /\ UNCHANGED <<num_active, esVars, handler, signals, delete_counter, late>>

Request ==
  /\ At("request")
  /\ request' = [request EXCEPT ![client.e] = @ \cup
                   {IF client.call = "join" THEN "JOIN" ELSE "FREE_TIMER"}]
  /\ Goto(IF client.call = "join" THEN "wait" ELSE "disable")
  /\ UNCHANGED <<num_active, should_sleep, disable_sleep, sleep_flag, es, handler, signals,
                 delete_counter>>

(* Too late, if the handler has tested disable_sleep of this ES and is     *)
(* about to set its should_sleep.                                          *)
DisableSleep ==
  /\ At("disable")
  /\ disable_sleep' = [disable_sleep EXCEPT ![client.e] = TRUE]
  /\ late' = IF handler.at = "set" /\ handler.i = client.e THEN late \cup {client.e}
                                                          ELSE late \ {client.e}
  /\ Goto("test")
  /\ UNCHANGED <<num_active, should_sleep, sleep_flag, request, es, handler, signals,
                 delete_counter>>

TestShouldSleep ==
  /\ At("test")
  /\ Goto(IF should_sleep[client.e] THEN "spin" ELSE "flag")
  /\ UNCHANGED <<num_active, esVars, handler, signals, delete_counter>>

Spin ==
  /\ At("spin") /\ ~ should_sleep[client.e]
  /\ Goto("wake")
  /\ UNCHANGED <<num_active, esVars, handler, signals, delete_counter>>

(* Where the client goes on when the ES is awake.                          *)
Awake == IF client.call = "join" THEN Goto("request") ELSE NextEs

(* Mutant: an ES that does not want to sleep is taken to be awake.         *)
TestFlagNot ==
  /\ At("flag")
  /\ Awake
  /\ UNCHANGED <<num_active, esVars, handler, signals, delete_counter>>

TestFlag ==
  /\ At("flag")
  /\ IF sleep_flag[client.e] = 1 THEN Goto("wake") ELSE Awake
  /\ UNCHANGED <<num_active, esVars, handler, signals, delete_counter>>

ClientWake ==
  /\ At("wake")
  /\ Wakeup(client.e)
  /\ Awake
  /\ UNCHANGED <<num_active, should_sleep, disable_sleep, request, handler, signals,
                 delete_counter>>

Joined ==
  /\ At("wait") /\ es[client.e] = "terminated"
  /\ NextEs
  /\ UNCHANGED <<num_active, esVars, handler, signals, delete_counter>>

(* delete waits until every ES has answered and frees the group.           *)
Return ==
  /\ client.e = N
  /\ client.call = "delete" => delete_counter = N
  /\ client.call \in {"delete", "join"}
  /\ client' = [call |-> IF client.call = "join" THEN "end" ELSE "user", e |-> N,
                at |-> "request"]
  /\ UNCHANGED <<num_active, esVars, handler, signals, delete_counter>>
-----------------------------------------------------------------------------
Init ==
  /\ num_active = N
  /\ should_sleep = [e \in Secondary |-> FALSE] /\ disable_sleep = [e \in Secondary |-> FALSE]
  /\ sleep_flag = [e \in Secondary |-> 0] /\ request = [e \in Secondary |-> {}]
  /\ es = [e \in Secondary |-> "working"]
  /\ handler = [at |-> "idle", i |-> 0, new |-> N] /\ signals = 0
  /\ client = [call |-> "user", e |-> N, at |-> "request"]
  /\ delete_counter = 0 /\ late = {}

EsStep(e) ==
  /\ CheckSleep(e) \/ StoreFlag(e) \/ SleepCallback(e) \/ FutexWait(e) \/ Events(e)
  /\ UNCHANGED late

HandlerStep ==
  (GrowWait \/ GrowWake \/ ShrinkTest \/ ShrinkSet \/ HandlerEnd) /\ UNCHANGED late

ClientStep ==
  \/ DisableSleep
  \/ /\ \/ Request \/ TestShouldSleep \/ Spin \/ TestFlag \/ ClientWake \/ Joined
        \/ Return
     /\ UNCHANGED late

Next ==
  \/ \E e \in Secondary : EsStep(e)
  \/ \E n \in 0..N + 1 : Signal(n)
  \/ HandlerStep
  \/ CallDelete \/ CallJoin \/ ClientStep

Spec == Init /\ [][Next]_vars

(* An ES comes to its events again and again, unless its ULT keeps it; its *)
(* pools run empty when it is joined; the handler and the client run.      *)
Stops(e) == EsStep(e) /\ es'[e] = "terminated"

FairSpec ==
  /\ Spec
  /\ \A e \in Secondary :
       /\ WF_vars((e \in Hogs => es[e] # "working") /\ EsStep(e))
       /\ SF_vars(Stops(e))
  /\ WF_vars(HandlerStep) /\ WF_vars(ClientStep)
-----------------------------------------------------------------------------
(* Between two signals the active ESs are awake and none is on its way to  *)
(* sleep, whatever ES the signals before have put to sleep and woken; and  *)
(* an ES that sleeps has not been woken already.                           *)
ActiveEsAwake ==
  /\ \A e \in Secondary : es[e] = "asleep" => sleep_flag[e] = 1
  /\ handler.at = "idle" =>
       \A e \in Secondary : e < num_active => ~ should_sleep[e] /\ sleep_flag[e] = 0

(* An ES that the client has seen awake, in delete or in join, never wants *)
(* to sleep again, so that it answers, whatever signals come: the only one *)
(* that may is an ES that was forbidden to sleep between the handler's     *)
(* test of disable_sleep and its store of should_sleep.                    *)
Wakes(e) == client.e = e /\ client.at \in {"test", "spin", "flag", "wake"}

AnswersAwake ==
  \A e \in Secondary :
    disable_sleep[e] /\ ~ Wakes(e) /\ e \notin late => ~ should_sleep[e] /\ sleep_flag[e] = 0

(* An ES that is not to be active sleeps in the end, unless its ULT keeps  *)
(* it, the client has forbidden it or the number changes again.            *)
InactiveEsSleeps ==
  \A e \in Secondary \ Hogs :
    (handler.at = "idle" /\ e >= num_active)
      ~> (es[e] = "asleep" \/ disable_sleep[e] \/ handler.at # "idle")

(* A ULT keeps ES e from its events.                                       *)
Kept(e) == e \in Hogs /\ es[e] = "working"

(* The handler does not keep the allocator's thread for ever, unless it    *)
(* waits for an ES whose ULT never gives it back, or for one that was      *)
(* joined and put to sleep at the same time and has terminated since.      *)
HandlerEnds ==
  \/ []<>(handler.at = "idle")
  \/ <>[](\E e \in Secondary :
            /\ handler.at = "grow" /\ handler.i = e /\ should_sleep[e]
            /\ Kept(e) \/ (e \in late /\ es[e] = "terminated"))

(* Delete and join return, whichever ESs were sleeping, unless they wait   *)
(* for an ES whose ULT never gives it back, or for one that sleeps because *)
(* it was forbidden to do so too late.                                     *)
ClientReturnsUnlessLate ==
  \/ []<>(client.call \in {"user", "end"})
  \/ <>[](\E e \in Secondary :
            /\ client.call = "join" => e = client.e
            /\ Kept(e) \/ (e \in late /\ es[e] = "asleep"))

(* ABT_xstream_join: "Wait for xstream to terminate" (stream.c:455), and   *)
(* the deletion of a timer group likewise returns.                         *)
ClientReturns == client.call \in {"delete", "join"} ~> client.call \in {"user", "end"}
=============================================================================
