------------------------------ MODULE UltSched ------------------------------
(***************************************************************************)
(* What the scheduling of user-level threads promises, with no KLT in      *)
(* sight: every ES dispatches one ULT at a time from its pools, executes   *)
(* it for as long as it likes, takes it back and returns it to its pool or *)
(* ends it.  A preempted ULT is one that the ES takes back; it is          *)
(* dispatched again like any other, by any ES that serves its pool.        *)
(***************************************************************************)
CONSTANTS Xstreams, Threads, Serves, None

VARIABLES
  queued,      \* the ULTs in their pools
  dispatched,  \* dispatched[e]: the ULT that ES e has taken from a pool
  executing,   \* executing[e]: the ULTs whose code runs on ES e
  ended        \* the ULTs that are done

absVars == <<queued, dispatched, executing, ended>>

Init ==
  /\ queued = Threads
  /\ dispatched = [e \in Xstreams |-> None]
  /\ executing = [e \in Xstreams |-> {}]
  /\ ended = {}

Take(e, t) ==
  /\ dispatched[e] = None
  /\ t \in queued \cap Serves[e]
  /\ queued' = queued \ {t}
  /\ dispatched' = [dispatched EXCEPT ![e] = t]
  /\ UNCHANGED ended

(* The ULT starts at once, or after the ES has switched KLTs.              *)
TakeAndRun(e, t) ==
  /\ Take(e, t)
  /\ executing' = [executing EXCEPT ![e] = {t}]

TakeOnly(e, t) == Take(e, t) /\ UNCHANGED executing

Run(e) ==
  /\ dispatched[e] # None /\ executing[e] = {}
  /\ executing' = [executing EXCEPT ![e] = {dispatched[e]}]
  /\ UNCHANGED <<queued, dispatched, ended>>

Stop(e) ==
  /\ executing[e] # {}
  /\ executing' = [executing EXCEPT ![e] = {}]
  /\ UNCHANGED <<queued, dispatched, ended>>

GiveBack(e) ==
  /\ dispatched[e] # None /\ executing[e] = {}
  /\ dispatched' = [dispatched EXCEPT ![e] = None]
  /\ \/ queued' = queued \cup {dispatched[e]} /\ UNCHANGED ended
     \/ ended' = ended \cup {dispatched[e]} /\ UNCHANGED queued
  /\ UNCHANGED executing

Next ==
  \E e \in Xstreams :
    \/ \E t \in Threads : TakeAndRun(e, t) \/ TakeOnly(e, t)
    \/ Run(e) \/ Stop(e) \/ GiveBack(e)

Spec == Init /\ [][Next]_absVars

=============================================================================
