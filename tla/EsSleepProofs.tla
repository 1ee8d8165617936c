--------------------------- MODULE EsSleepProofs ---------------------------
(***************************************************************************)
(* Proofs about EsSleep for any number of ESs and of signals, and whatever *)
(* ESs have ULTs that never give them back.                                *)
(***************************************************************************)
EXTENDS EsSleep, TLAPS

(* ES e wants to sleep, is about to, or sleeps.                            *)
Sleepy(e) == should_sleep[e] \/ sleep_flag[e] = 1

(* What the scheduler of an ES knows of the two flags, at each of its      *)
(* steps; should_sleep only comes back to FALSE by its callback.           *)
FlagsHold ==
  \A e \in Secondary :
    /\ es[e] \in {"arming", "callback"} => should_sleep[e]
    /\ sleep_flag[e] = 1 => es[e] \in {"callback", "futex", "asleep"}
    /\ es[e] = "asleep" => sleep_flag[e] = 1

(* The ranks below this bound are awake: the handler raises it step by     *)
(* step when it wakes and lowers it at once when it puts to sleep.         *)
AwakeBound ==
  IF handler.at = "idle" THEN num_active
  ELSE IF handler.at \in {"grow", "wake"} THEN handler.i ELSE handler.new

HandlerHolds ==
  /\ handler.at \in {"grow", "wake"} => handler.i \in 1..handler.new /\ handler.new <= N
  /\ handler.at = "wake" => handler.i < handler.new /\ ~ should_sleep[handler.i]
  /\ handler.at \in {"shrink", "set"} =>
       handler.new \in 1..handler.i /\ handler.i <= num_active
  /\ handler.at = "set" => handler.i < num_active

AwakeBelow == \A e \in Secondary : Sleepy(e) => e >= AwakeBound

(* Why an ES the client has disabled cannot be put to sleep any more: the  *)
(* handler that would do so had tested it before, and then it is late.     *)
DisabledHolds ==
  /\ client.call \in {"user", "end"} => client.at = "request"
  /\ handler.at = "set" => ~ disable_sleep[handler.i] \/ handler.i \in late
  /\ \A e \in Secondary :
       disable_sleep[e] /\ e \notin late =>
         /\ ~ Wakes(e) => ~ Sleepy(e)
         /\ Wakes(e) /\ client.at \in {"flag", "wake"} => ~ should_sleep[e]
  /\ At("test") \/ At("spin") \/ At("flag") \/ At("wake") => disable_sleep[client.e]

IInv == TypeOK /\ FlagsHold /\ HandlerHolds /\ AwakeBelow
-----------------------------------------------------------------------------
(* The initial state satisfies the invariants.                             *)
LEMMA InitIInv == Init => IInv /\ DisabledHolds
  <1> USE EsSleepAssumption DEF Init, Secondary
  <1>1. Init => TypeOK  BY DEF TypeOK
  <1>2. Init => FlagsHold /\ HandlerHolds /\ AwakeBelow
    BY DEF FlagsHold, HandlerHolds, AwakeBelow, AwakeBound, Sleepy
  <1>3. Init => DisabledHolds
    BY DEF DisabledHolds, At, Wakes, Sleepy
  <1> QED  BY <1>1, <1>2, <1>3 DEF IInv

(* A step of the scheduler of an ES.                                       *)
LEMMA EsStepIInv == ASSUME IInv, NEW e \in Secondary, EsStep(e) PROVE IInv'
  <1> USE EsSleepAssumption DEF IInv, TypeOK, FlagsHold, HandlerHolds, AwakeBelow, AwakeBound,
                                Sleepy, Secondary, Step
  <1>0. late' = late  BY DEF EsStep
  <1>1. CASE CheckSleep(e)  BY <1>0, <1>1 DEF CheckSleep
  <1>2. CASE StoreFlag(e)  BY <1>0, <1>2 DEF StoreFlag
  <1>3. CASE SleepCallback(e)  BY <1>0, <1>3 DEF SleepCallback
  <1>4. CASE FutexWait(e)  BY <1>0, <1>4 DEF FutexWait
  <1>5. CASE Events(e)
    <2> HIDE DEF FlagsHold, HandlerHolds, AwakeBelow, AwakeBound, Sleepy
    <2>1. request' \in [Secondary -> SUBSET {"JOIN", "FREE_TIMER"}]
      <3>1. CASE request' = request  BY <3>1
      <3>2. CASE request' = [request EXCEPT ![e] = @ \ {"FREE_TIMER"}]
        <4>1. request[e] \ {"FREE_TIMER"} \in SUBSET {"JOIN", "FREE_TIMER"}  OBVIOUS
        <4> QED  BY <3>2, <4>1
      <3> QED  BY <1>5, <3>1, <3>2 DEF Events
    <2>2. delete_counter' \in Nat
      BY <1>5 DEF Events
    <2>3. es' = [es EXCEPT ![e] = "working"] \/ es' = [es EXCEPT ![e] = "terminated"]
      BY <1>5 DEF Events
    <2>4. es[e] = "events" /\ UNCHANGED <<num_active, should_sleep, disable_sleep, sleep_flag,
                                          handler, signals, client>>
      BY <1>5 DEF Events
    <2>5. TypeOK'  BY <1>0, <2>1, <2>2, <2>3, <2>4
    <2>6. FlagsHold'  BY <2>3, <2>4 DEF FlagsHold
    <2>7. HandlerHolds' /\ AwakeBelow'
      BY <2>4 DEF HandlerHolds, AwakeBelow, AwakeBound, Sleepy
    <2> QED  BY <2>5, <2>6, <2>7
  <1> QED  BY <1>1, <1>2, <1>3, <1>4, <1>5 DEF EsStep

(* A signal or a step of its handler.                                      *)
LEMMA HandlerIInv == ASSUME IInv, HandlerStep \/ \E n \in 0..N + 1 : Signal(n) PROVE IInv'
  <1> USE EsSleepAssumption DEF IInv, TypeOK, FlagsHold, HandlerHolds, AwakeBelow, AwakeBound,
                                Sleepy, Secondary, Handles, esVars
  <1>1. ASSUME NEW n \in 0..N + 1, Signal(n) PROVE IInv'  BY <1>1 DEF Signal
  <1>2. CASE GrowWait /\ UNCHANGED late  BY <1>2 DEF GrowWait
  <1>3. CASE GrowWake /\ UNCHANGED late  BY <1>3 DEF GrowWake, Wakeup
  <1>4. CASE ShrinkTest /\ UNCHANGED late  BY <1>4 DEF ShrinkTest
  <1>5. CASE ShrinkSet /\ UNCHANGED late  BY <1>5 DEF ShrinkSet
  <1>6. CASE HandlerEnd /\ UNCHANGED late  BY <1>6 DEF HandlerEnd
  <1> QED  BY <1>1, <1>2, <1>3, <1>4, <1>5, <1>6 DEF HandlerStep

(* A step of the client.                                                   *)
LEMMA ClientIInv == ASSUME IInv, CallDelete \/ CallJoin \/ ClientStep PROVE IInv'
  <1> USE EsSleepAssumption DEF IInv, TypeOK, FlagsHold, HandlerHolds, AwakeBelow, AwakeBound,
                                Sleepy, Secondary, Goto, NextEs, Awake, At, esVars
  <1>1. CASE CallDelete  BY <1>1 DEF CallDelete
  <1>8. CASE CallJoin  BY <1>8 DEF CallJoin
  <1>2. CASE Request /\ UNCHANGED late  BY <1>2 DEF Request
  <1>3. CASE DisableSleep
    <2> client.e \in 1..(N - 1)  BY <1>3 DEF DisableSleep
    <2>1. late' \subseteq Secondary
      <3> HIDE DEF FlagsHold, HandlerHolds, AwakeBelow
      <3> QED  BY <1>3 DEF DisableSleep
    <2>2. UNCHANGED <<num_active, should_sleep, sleep_flag, request, es, handler, signals,
                      delete_counter>>
      BY <1>3 DEF DisableSleep
    <2>3. disable_sleep' = [disable_sleep EXCEPT ![client.e] = TRUE]
            /\ client' = [call |-> client.call, e |-> client.e, at |-> "test"]
      BY <1>3 DEF DisableSleep
    <2> QED  BY <2>1, <2>2, <2>3
  <1>4. CASE (TestShouldSleep \/ Spin) /\ UNCHANGED late  BY <1>4 DEF TestShouldSleep, Spin
  <1>5. CASE TestFlag /\ UNCHANGED late  BY <1>5 DEF TestFlag
  <1>6. CASE ClientWake /\ UNCHANGED late  BY <1>6 DEF ClientWake, Wakeup
  <1>7. CASE Joined /\ UNCHANGED late  BY <1>7 DEF Joined
  <1>9. CASE Return /\ UNCHANGED late  BY <1>9 DEF Return
  <1> QED  BY <1>1, <1>2, <1>3, <1>4, <1>5, <1>6, <1>7, <1>8, <1>9 DEF ClientStep

LEMMA NextIInv == IInv /\ [Next]_vars => IInv'
  <1> SUFFICES ASSUME IInv, [Next]_vars PROVE IInv'
    OBVIOUS
  <1>1. CASE UNCHANGED vars
    BY <1>1 DEF vars, esVars, IInv, TypeOK, FlagsHold, HandlerHolds, AwakeBelow, AwakeBound, Sleepy
  <1> QED  BY <1>1, EsStepIInv, HandlerIInv, ClientIInv DEF Next

(* IInv holds in every reachable state.                                    *)
THEOREM Invariance == Spec => []IInv
  <1> QED  BY InitIInv, NextIInv, PTL DEF Spec

(* Type correctness of EsSleep.                                            *)
THEOREM TypeCorrect == Spec => []TypeOK
  <1>1. IInv => TypeOK  BY DEF IInv
  <1> QED  BY <1>1, Invariance, PTL

(* Between two signals every active ES is awake, however many ESs there    *)
(* are and however often their number has been changed.                    *)
THEOREM ActiveTheorem == Spec => []ActiveEsAwake
  <1>1. IInv => ActiveEsAwake
    BY EsSleepAssumption DEF IInv, TypeOK, FlagsHold, AwakeBelow, AwakeBound, Sleepy,
                             ActiveEsAwake, Secondary
  <1> QED  BY <1>1, Invariance, PTL
-----------------------------------------------------------------------------
(* The client's part.                                                      *)
LEMMA EsStepDisabled ==
  ASSUME IInv, DisabledHolds, NEW e \in Secondary, EsStep(e) PROVE DisabledHolds'
  <1> USE EsSleepAssumption DEF IInv, TypeOK, FlagsHold, DisabledHolds, Wakes, Sleepy, Secondary,
                                At, Step
  <1>0. late' = late  BY DEF EsStep
  <1>1. CASE CheckSleep(e)  BY <1>0, <1>1 DEF CheckSleep
  <1>2. CASE StoreFlag(e)  BY <1>0, <1>2 DEF StoreFlag
  <1>3. CASE SleepCallback(e)  BY <1>0, <1>3 DEF SleepCallback
  <1>4. CASE FutexWait(e)  BY <1>0, <1>4 DEF FutexWait
  <1>5. CASE Events(e)  BY <1>0, <1>5 DEF Events
  <1> QED  BY <1>1, <1>2, <1>3, <1>4, <1>5 DEF EsStep

LEMMA HandlerDisabled ==
  ASSUME IInv, DisabledHolds, HandlerStep \/ \E n \in 0..N + 1 : Signal(n)
  PROVE  DisabledHolds'
  <1> USE EsSleepAssumption DEF IInv, TypeOK, FlagsHold, HandlerHolds, DisabledHolds, Wakes,
                                Sleepy, Secondary, At, Handles, esVars
  <1>1. ASSUME NEW n \in 0..N + 1, Signal(n) PROVE DisabledHolds'  BY <1>1 DEF Signal
  <1>2. CASE GrowWait /\ UNCHANGED late  BY <1>2 DEF GrowWait
  <1>3. CASE GrowWake /\ UNCHANGED late  BY <1>3 DEF GrowWake, Wakeup
  <1>4. CASE ShrinkTest /\ UNCHANGED late  BY <1>4 DEF ShrinkTest
  <1>5. CASE ShrinkSet /\ UNCHANGED late  BY <1>5 DEF ShrinkSet
  <1>6. CASE HandlerEnd /\ UNCHANGED late  BY <1>6 DEF HandlerEnd
  <1> QED  BY <1>1, <1>2, <1>3, <1>4, <1>5, <1>6 DEF HandlerStep

LEMMA ClientDisabled ==
  ASSUME IInv, DisabledHolds, CallDelete \/ CallJoin \/ ClientStep
  PROVE  DisabledHolds'
  <1> USE EsSleepAssumption DEF IInv, TypeOK, FlagsHold, HandlerHolds, DisabledHolds, Wakes,
                                Sleepy, Secondary, At, Goto, NextEs, Awake, esVars
  <1>1. CASE CallDelete  BY <1>1 DEF CallDelete
  <1>8. CASE CallJoin  BY <1>8 DEF CallJoin
  <1>2. CASE Request /\ UNCHANGED late  BY <1>2 DEF Request
  <1>3. CASE DisableSleep  BY <1>3 DEF DisableSleep
  <1>4. CASE (TestShouldSleep \/ Spin) /\ UNCHANGED late  BY <1>4 DEF TestShouldSleep, Spin
  <1>5. CASE TestFlag /\ UNCHANGED late  BY <1>5 DEF TestFlag
  <1>6. CASE ClientWake /\ UNCHANGED late  BY <1>6 DEF ClientWake, Wakeup
  <1>7. CASE Joined /\ UNCHANGED late  BY <1>7 DEF Joined
  <1>9. CASE Return /\ UNCHANGED late  BY <1>9 DEF Return
  <1> QED  BY <1>1, <1>2, <1>3, <1>4, <1>5, <1>6, <1>7, <1>8, <1>9 DEF ClientStep

(* An ES that the client has seen awake stays awake for good, so that it   *)
(* answers the request, whatever signals come, unless the client forbade   *)
(* it to sleep between the handler's test and its store.                   *)
THEOREM AnswersTheorem == Spec => []AnswersAwake
  <1>1. IInv /\ DisabledHolds /\ [Next]_vars => DisabledHolds'
    <2> SUFFICES ASSUME IInv, DisabledHolds, [Next]_vars PROVE DisabledHolds'
      OBVIOUS
    <2>1. CASE UNCHANGED vars
      BY <2>1 DEF vars, esVars, DisabledHolds, Wakes, Sleepy, At
    <2> QED  BY <2>1, EsStepDisabled, HandlerDisabled, ClientDisabled DEF Next
  <1>2. IInv /\ DisabledHolds => AnswersAwake
    BY EsSleepAssumption DEF IInv, TypeOK, DisabledHolds, Sleepy, AnswersAwake, Secondary
  <1> QED  BY <1>1, <1>2, InitIInv, NextIInv, PTL DEF Spec
=============================================================================
