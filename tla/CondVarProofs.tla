---------------------------- MODULE CondVarProofs ----------------------------
(***************************************************************************)
(* The safety properties of CondVar, for all sets of callers and ESs and   *)
(* all programs.                                                           *)
(*                                                                         *)
(* The readers-writer lock: what unlock finds in write_flag agrees with    *)
(* how its caller has the lock (RwInv).                                    *)
(*                                                                         *)
(* The queue: the units form a circle or, while a broadcast takes them off *)
(* one by one, a chain that ends at the old head (QueueInv); a caller is   *)
(* parked if and only if it is in the queue or about to be woken           *)
(* (ParkInv).                                                              *)
(*                                                                         *)
(* The items: for every item there is a signal or a taker on its way, and  *)
(* one more while a signal is being delivered (SignalInv).                 *)
(***************************************************************************)
EXTENDS CondVar, FiniteSetTheorems, TLAPS

-----------------------------------------------------------------------------
(* Circles and chains of units.  Set Q has the units of a queue, nx and pv *)
(* are its links.                                                          *)

(* Whoever follows nx from c meets all of Q.                               *)
Reaches(nx, c, Q) ==
  \A S \in SUBSET Callers : c \in S /\ (\A q \in S \cap Q : nx[q] \in S) => Q \subseteq S

IsCircle(nx, pv, hd, tl, Q) ==
  /\ hd \in Q /\ tl \in Q /\ nx[tl] = hd
  /\ \A q \in Q : nx[q] \in Q /\ pv[q] \in Q /\ pv[nx[q]] = q /\ nx[pv[q]] = q
  /\ Reaches(nx, hd, Q)

(* A chain from c to the unit hd, which has been taken off.                *)
IsChain(nx, hd, c, Q) ==
  /\ hd \in Callers \ Q /\ (c \in Q \/ (c = hd /\ Q = {}))
  /\ \A q \in Q : nx[q] \in (Q \ {c}) \cup {hd}
  /\ \A q, r \in Q : nx[q] = nx[r] => q = r
  /\ Reaches(nx, c, Q)

Links == [Callers -> Callers \cup {None}]

(* The first unit.                                                         *)
LEMMA CircleOne ==
  ASSUME NEW nx \in Links, NEW pv \in Links, NEW p \in Callers
  PROVE  IsCircle([nx EXCEPT ![p] = p], [pv EXCEPT ![p] = p], p, p, {p})
BY DEF IsCircle, Reaches, Links

(* A unit at the end.                                                      *)
LEMMA CircleAppend ==
  ASSUME NEW nx \in Links, NEW pv \in Links, NEW Q \in SUBSET Callers, NEW hd, NEW tl,
         IsCircle(nx, pv, hd, tl, Q), NEW p \in Callers \ Q
  PROVE  IsCircle([nx EXCEPT ![tl] = p, ![p] = hd], [pv EXCEPT ![hd] = p, ![p] = tl], hd, p, Q \cup {p})
<1> DEFINE mx == [nx EXCEPT ![tl] = p, ![p] = hd]
           mv == [pv EXCEPT ![hd] = p, ![p] = tl]
<1>1. /\ hd \in Q /\ tl \in Q /\ nx[tl] = hd /\ hd # p /\ tl # p
      /\ \A q \in Q : nx[q] \in Q /\ pv[q] \in Q /\ pv[nx[q]] = q /\ nx[pv[q]] = q
  BY DEF IsCircle
<1>2. /\ mx[p] = hd /\ mx[tl] = p /\ \A q \in Q \ {tl} : mx[q] = nx[q]
      /\ mv[p] = tl /\ mv[hd] = p /\ \A q \in Q \ {hd} : mv[q] = pv[q]
  BY <1>1 DEF Links
<1> HIDE DEF mx, mv
<1>3. \A q \in Q \ {tl} : nx[q] # hd
  BY <1>1
<1>4. \A q \in Q \ {hd} : pv[q] # tl
  BY <1>1
<1>5. \A q \in Q \cup {p} : mx[q] \in Q \cup {p} /\ mv[q] \in Q \cup {p} /\ mv[mx[q]] = q /\ mx[mv[q]] = q
  <2>1. ASSUME NEW q \in Q \ {tl}
        PROVE  mx[q] \in Q /\ mv[mx[q]] = q
    BY <1>1, <1>2, <1>3, <2>1
  <2>2. ASSUME NEW q \in Q \ {hd}
        PROVE  mv[q] \in Q /\ mx[mv[q]] = q
    BY <1>1, <1>2, <1>4, <2>2
  <2> QED BY <1>1, <1>2, <2>1, <2>2
<1>6. ASSUME NEW S \in SUBSET Callers, hd \in S, \A q \in S \cap (Q \cup {p}) : mx[q] \in S
      PROVE  Q \cup {p} \subseteq S
  <2>1. \A q \in S \cap Q : nx[q] \in S
    BY <1>1, <1>2, <1>6
  <2>2. Q \subseteq S
    BY <1>6, <2>1 DEF IsCircle, Reaches
  <2> QED BY <1>1, <1>2, <1>6, <2>2
<1> QED BY <1>1, <1>2, <1>5, <1>6 DEF IsCircle, Reaches, mx, mv

(* A unit that links to itself is alone.                                   *)
LEMMA CircleSelf ==
  ASSUME NEW nx, NEW pv, NEW Q \in SUBSET Callers, NEW hd, NEW tl, IsCircle(nx, pv, hd, tl, Q),
         NEW u \in Q, nx[u] = u \/ pv[u] = u
  PROVE  Q = {u}
<1>1. /\ nx[u] = u /\ pv[u] = u /\ hd \in Q
      /\ \A q \in Q : nx[q] \in Q /\ pv[nx[q]] = q
  BY DEF IsCircle
<1>2. CASE u = hd
  <2>1. {u} \in SUBSET Callers /\ \A q \in {u} \cap Q : nx[q] \in {u}
    BY <1>1
  <2>2. Q \subseteq {u}
    BY <1>2, <2>1 DEF IsCircle, Reaches
  <2> QED BY <2>2
<1>3. CASE u # hd
  <2>1. \A q \in (Q \ {u}) \cap Q : nx[q] \in Q \ {u}
    BY <1>1
  <2>2. Q \subseteq Q \ {u}
    BY <1>1, <1>3, <2>1 DEF IsCircle, Reaches
  <2> QED BY <2>2
<1> QED BY <1>2, <1>3

(* A unit is taken out of a circle of more than one.                       *)
LEMMA CircleUnlink ==
  ASSUME NEW nx \in Links, NEW pv \in Links, NEW Q \in SUBSET Callers, NEW hd, NEW tl,
         IsCircle(nx, pv, hd, tl, Q), NEW u \in Q, Q # {u}
  PROVE  IsCircle([nx EXCEPT ![pv[u]] = nx[u], ![u] = None], [pv EXCEPT ![nx[u]] = pv[u], ![u] = None],
                  IF u = hd THEN nx[u] ELSE hd, IF u # hd /\ u = tl THEN pv[u] ELSE tl, Q \ {u})
<1> DEFINE mx == [nx EXCEPT ![pv[u]] = nx[u], ![u] = None]
           mv == [pv EXCEPT ![nx[u]] = pv[u], ![u] = None]
           a == pv[u]
           b == nx[u]
<1>1. /\ hd \in Q /\ tl \in Q /\ nx[tl] = hd /\ pv[hd] = tl
      /\ \A q \in Q : nx[q] \in Q /\ pv[q] \in Q /\ pv[nx[q]] = q /\ nx[pv[q]] = q
  BY DEF IsCircle
<1>2. a \in Q \ {u} /\ b \in Q \ {u} /\ nx[a] = u /\ pv[b] = u
  BY <1>1, CircleSelf
<1>3. /\ mx[a] = b /\ \A q \in Q \ {u, a} : mx[q] = nx[q]
      /\ mv[b] = a /\ \A q \in Q \ {u, b} : mv[q] = pv[q]
  BY <1>2 DEF Links
<1> DEFINE h == IF u = hd THEN b ELSE hd
           t == IF u # hd /\ u = tl THEN a ELSE tl
<1> HIDE DEF mx, mv, a, b
<1>4. \A q \in Q \ {u, a} : nx[q] # u
  BY <1>1, <1>2 DEF a
<1>5. \A q \in Q \ {u, b} : pv[q] # u
  BY <1>1, <1>2 DEF b
<1>6. ASSUME NEW q \in Q \ {u}
      PROVE  mx[q] \in Q \ {u} /\ mv[q] \in Q \ {u} /\ mv[mx[q]] = q /\ mx[mv[q]] = q
  <2>1. mx[q] \in Q \ {u} /\ mv[q] \in Q \ {u}
    BY <1>1, <1>2, <1>3, <1>4, <1>5, <1>6
  <2>2. mv[mx[q]] = q
    <3>1. CASE q = a
      BY <1>3, <3>1
    <3>2. CASE q # a
      <4>1. mx[q] = nx[q] /\ nx[q] # b
        BY <1>1, <1>2, <1>3, <1>6, <3>2 DEF a, b
      <4> QED BY <1>1, <1>3, <2>1, <4>1
    <3> QED BY <3>1, <3>2
  <2>3. mx[mv[q]] = q
    <3>1. CASE q = b
      BY <1>3, <3>1
    <3>2. CASE q # b
      <4>1. mv[q] = pv[q] /\ pv[q] # a
        BY <1>1, <1>2, <1>3, <1>6, <3>2 DEF a, b
      <4> QED BY <1>1, <1>3, <2>1, <4>1
    <3> QED BY <3>1, <3>2
  <2> QED BY <2>1, <2>2, <2>3
<1>7. h \in Q \ {u} /\ t \in Q \ {u} /\ mx[t] = h
  <2>1. CASE u = hd
    <3>1. a = tl
      BY <1>1, <2>1 DEF a
    <3> QED BY <1>2, <1>3, <2>1, <3>1
  <2>2. CASE u # hd /\ u = tl
    <3>1. b = hd
      BY <1>1, <2>2 DEF b
    <3> QED BY <1>2, <1>3, <2>2, <3>1
  <2>3. CASE u # hd /\ u # tl
    <3>1. tl # a
      BY <1>1, <1>2, <2>3
    <3> QED BY <1>1, <1>3, <2>3, <3>1
  <2> QED BY <2>1, <2>2, <2>3
<1>8. ASSUME NEW S \in SUBSET Callers, h \in S, \A q \in S \cap (Q \ {u}) : mx[q] \in S
      PROVE  Q \ {u} \subseteq S
  <2>1. CASE u = hd \/ a \in S
    <3>1. \A q \in (S \cup {u}) \cap Q : nx[q] \in S \cup {u}
      <4> SUFFICES ASSUME NEW q \in (S \cup {u}) \cap Q PROVE nx[q] \in S \cup {u}
        OBVIOUS
      <4>1. CASE q = u
        BY <1>2, <1>3, <1>8, <2>1, <4>1 DEF b
      <4>2. CASE q = a
        BY <1>2, <4>2
      <4>3. CASE q \notin {u, a}
        BY <1>3, <1>8, <4>3
      <4> QED BY <4>1, <4>2, <4>3
    <3>2. hd \in S \cup {u} /\ S \cup {u} \in SUBSET Callers
      BY <1>8
    <3>3. Q \subseteq S \cup {u}
      BY <3>1, <3>2 DEF IsCircle, Reaches
    <3> QED BY <3>3
  <2>2. CASE u # hd /\ a \notin S
    <3>1. \A q \in (S \ {u}) \cap Q : nx[q] \in S \ {u}
      BY <1>3, <1>4, <1>8, <2>2
    <3>2. hd \in S \ {u}
      BY <1>8, <2>2
    <3>3. Q \subseteq S \ {u}
      BY <3>1, <3>2 DEF IsCircle, Reaches
    <3> QED BY <3>3
  <2> QED BY <2>1, <2>2
<1>9. IsCircle(mx, mv, h, t, Q \ {u})
  BY <1>6, <1>7, <1>8 DEF IsCircle, Reaches
<1> QED BY <1>9 DEF mx, mv, a, b

(* A broadcast takes the head off, which leaves a chain.                   *)
LEMMA CircleDetach ==
  ASSUME NEW nx \in Links, NEW pv, NEW Q \in SUBSET Callers, NEW hd, NEW tl,
         IsCircle(nx, pv, hd, tl, Q)
  PROVE  IsChain([nx EXCEPT ![hd] = None], hd, nx[hd], Q \ {hd})
<1> DEFINE mx == [nx EXCEPT ![hd] = None]
<1>1. /\ hd \in Q /\ nx[hd] \in Q
      /\ \A q \in Q : nx[q] \in Q /\ pv[nx[q]] = q
  BY DEF IsCircle
<1>2. \A q \in Q \ {hd} : mx[q] = nx[q]
  BY DEF Links
<1> HIDE DEF mx
<1>3. nx[hd] \in Q \ {hd} \/ (nx[hd] = hd /\ Q \ {hd} = {})
  <2>1. nx[hd] = hd => Q = {hd}
    BY <1>1, CircleSelf
  <2> QED BY <1>1, <2>1
<1>4. \A q \in Q \ {hd} : mx[q] \in ((Q \ {hd}) \ {nx[hd]}) \cup {hd}
  BY <1>1, <1>2
<1>5. \A q, r \in Q \ {hd} : mx[q] = mx[r] => q = r
  BY <1>1, <1>2
<1>6. ASSUME NEW S \in SUBSET Callers, nx[hd] \in S, \A q \in S \cap (Q \ {hd}) : mx[q] \in S
      PROVE  Q \ {hd} \subseteq S
  <2>1. \A q \in (S \cup {hd}) \cap Q : nx[q] \in S \cup {hd}
    BY <1>2, <1>6
  <2>2. S \cup {hd} \in SUBSET Callers
    BY <1>1
  <2>3. Q \subseteq S \cup {hd}
    BY <2>1, <2>2 DEF IsCircle, Reaches
  <2> QED BY <2>3
<1> QED BY <1>1, <1>3, <1>4, <1>5, <1>6 DEF IsChain, Reaches, mx

(* It takes the next one off.                                              *)
LEMMA ChainDetach ==
  ASSUME NEW nx \in Links, NEW Q \in SUBSET Callers, NEW hd, NEW c \in Q, IsChain(nx, hd, c, Q)
  PROVE  IsChain([nx EXCEPT ![c] = None], hd, nx[c], Q \ {c})
<1> DEFINE mx == [nx EXCEPT ![c] = None]
<1>1. /\ hd \in Callers \ Q
      /\ \A q \in Q : nx[q] \in (Q \ {c}) \cup {hd}
      /\ \A q, r \in Q : nx[q] = nx[r] => q = r
  BY DEF IsChain
<1>2. \A q \in Q \ {c} : mx[q] = nx[q]
  BY DEF Links
<1> HIDE DEF mx
<1>3. nx[c] = hd => Q \ {c} = {}
  <2>1. ASSUME nx[c] = hd
        PROVE  Q \subseteq {c, hd}
    <3>1. \A q \in {c, hd} \cap Q : nx[q] \in {c, hd}
      BY <1>1, <2>1
    <3>2. {c, hd} \in SUBSET Callers
      BY <1>1
    <3> QED BY <3>1, <3>2 DEF IsChain, Reaches
  <2> QED BY <1>1, <2>1
<1>4. nx[c] \in Q \ {c} \/ (nx[c] = hd /\ Q \ {c} = {})
  BY <1>1, <1>3
<1>5. \A q \in Q \ {c} : mx[q] \in ((Q \ {c}) \ {nx[c]}) \cup {hd}
  BY <1>1, <1>2
<1>6. \A q, r \in Q \ {c} : mx[q] = mx[r] => q = r
  BY <1>1, <1>2
<1>7. ASSUME NEW S \in SUBSET Callers, nx[c] \in S, \A q \in S \cap (Q \ {c}) : mx[q] \in S
      PROVE  Q \ {c} \subseteq S
  <2>1. \A q \in (S \cup {c}) \cap Q : nx[q] \in S \cup {c}
    BY <1>2, <1>7
  <2>2. Q \subseteq S \cup {c}
    BY <2>1 DEF IsChain, Reaches
  <2> QED BY <2>2
<1> QED BY <1>1, <1>4, <1>5, <1>6, <1>7 DEF IsChain, Reaches, mx
-----------------------------------------------------------------------------
(* What a caller does where, and the readers-writer lock.                  *)

WaitLabels == {"leave", "suspend", "waiting", "poll", "remove", "remove.lock"}

WaitOps == {"rdlock", "wrlock", "take", "timed", "timedout"}

LabelInv ==
  \A p \in Callers :
    /\ pc[p] \in WaitLabels => op[p] \in WaitOps
    /\ pc[p] = "poll" => Polls(p)
    /\ pc[p] \in {"remove", "remove.lock"} => op[p] = "timedout"
    /\ pc[p] \in {"suspend", "waiting"} => ~ Polls(p)
    /\ pc[p] = "signal" => op[p] = "put"
    /\ pc[p] \in {"broadcast", "detach", "clear"} => op[p] = "rwunlock"
    /\ pc[p] \in {"wake", "unlock"} => op[p] \in {"put", "rwunlock"}
    /\ pc[p] # "user" /\ op[p] # "rwunlock" => mode[p] = "no"
    /\ pc[p] = "lock" /\ op[p] = "rwunlock" => mode[p] # "no"

(* What the program uses the condition variable for.                       *)
Items == \A p \in Callers : prog.does[p] \subseteq {"take", "timed", "put"}

UseInv ==
  IF Items
  THEN \A p \in Callers : mode[p] = "no" /\ op[p] \in {"take", "timed", "timedout", "put"}
  ELSE items = 0 /\ \A p \in Callers : pc[p] = "user" \/ op[p] \in {"rdlock", "wrlock", "rwunlock"}

LEMMA LabelStep ==
  ASSUME CondAssumption, TypeOK, LabelInv, [Next]_vars
  PROVE  LabelInv'
<1> USE DEF TypeOK
<1>1. CASE UNCHANGED vars \/ \E e \in Xstreams, t \in Ults : Run(e, t)
  <2>1. UNCHANGED <<pc, op, mode>>
    BY <1>1 DEF vars, callVars, dataVars, Run
  <2> QED BY <2>1 DEF LabelInv, Polls
<1>2. ASSUME NEW p \in Callers, CallStep(p)
      PROVE  LabelInv'
  <2>1. PICK o \in Ops \cup {"rwunlock"} : Call(p, o)
    BY <1>2 DEF CallStep
  <2>2. /\ pc' = [pc EXCEPT ![p] = "lock"] /\ op' = [op EXCEPT ![p] = o] /\ UNCHANGED mode
        /\ IF o = "rwunlock" THEN mode[p] # "no" ELSE mode[p] = "no"
    <3>1. prog.does[p] \subseteq Ops
      BY CondAssumption DEF CondAssumption
    <3> QED BY <2>1, <3>1 DEF Call, Goto, dataVars, Ops
  <2> QED BY <2>2 DEF LabelInv, Polls, WaitLabels
<1>3. ASSUME NEW p \in Callers, WaitStep(p)
      PROVE  LabelInv'
  <2>1. CASE Wait(p)
    <3>1. /\ pc[p] = "lock" /\ op[p] \in WaitOps /\ pc' = [pc EXCEPT ![p] = "leave"] /\ UNCHANGED <<op, mode>>
      BY <2>1 DEF Wait, Locks, At, MustWait, WaitOps, Goto, dataVars
    <3> QED BY <3>1 DEF LabelInv, Polls, WaitLabels, WaitOps
  <2>2. CASE WaitUnlock(p)
    BY <2>2 DEF WaitUnlock, At, Goto, dataVars, LabelInv, Polls, WaitLabels
  <2>3. CASE Suspend(p) \/ Woken(p) \/ RemoveTest(p) \/ RemoveLocked(p)
    <3>1. /\ UNCHANGED <<op, mode>>
          /\ \/ pc[p] = "suspend" /\ pc' = [pc EXCEPT ![p] = "waiting"]
             \/ pc[p] = "remove" /\ pc' = [pc EXCEPT ![p] = "remove.lock"]
             \/ pc[p] \in WaitLabels /\ pc' = [pc EXCEPT ![p] = "lock"]
      BY <2>3 DEF Suspend, Woken, RemoveTest, RemoveLocked, At, Goto, dataVars, WaitLabels
    <3> QED BY <3>1 DEF LabelInv, Polls, WaitLabels, WaitOps
  <2>4. CASE TimeOut(p)
    BY <2>4 DEF TimeOut, At, Goto, dataVars, LabelInv, Polls, WaitLabels, WaitOps
  <2> QED BY <1>3, <2>1, <2>2, <2>3, <2>4 DEF WaitStep
<1>4. ASSUME NEW p \in Callers, WakeStep(p)
      PROVE  LabelInv'
  <2>1. UNCHANGED <<op, mode>>
    BY <1>4 DEF WakeStep, Nobody, Signal, Broadcast, Detach, Wake, Clear, dataVars
  <2>2. \/ pc' = [pc EXCEPT ![p] = "user"] \/ (pc[p] \in {"signal", "broadcast", "wake", "clear"} /\ pc' = [pc EXCEPT ![p] = "unlock"])
        \/ (pc[p] \in {"signal", "detach"} /\ pc' = [pc EXCEPT ![p] = "wake"])
        \/ (pc[p] = "broadcast" /\ pc' = [pc EXCEPT ![p] = "detach"])
        \/ (pc[p] = "wake" /\ op[p] # "put" /\ pc' = [pc EXCEPT ![p] = "detach"])
        \/ (pc[p] = "wake" /\ op[p] # "put" /\ pc' = [pc EXCEPT ![p] = "clear"])
    <3>1. CASE Nobody(p) \/ Clear(p)
      BY <3>1 DEF Nobody, Clear, At, Caller, Goto
    <3>2. CASE Wake(p)
      BY <3>2 DEF Wake, At, Caller, Goto
    <3>3. CASE Signal(p) \/ Broadcast(p) \/ Detach(p)
      BY <3>3 DEF Signal, Broadcast, Detach, At, Goto
    <3> QED BY <1>4, <3>1, <3>2, <3>3 DEF WakeStep
  <2> QED BY <2>1, <2>2 DEF LabelInv, Polls, WaitLabels, WaitOps
<1>5. ASSUME NEW p \in Callers, LockedStep(p)
      PROVE  LabelInv'
  <2>1. CASE Unlock(p) \/ Take(p) \/ GiveUp(p)
    <3>1. UNCHANGED <<op, mode>> /\ pc' = [pc EXCEPT ![p] = "user"]
      BY <2>1 DEF Unlock, Take, GiveUp, Goto, dataVars
    <3> QED BY <3>1 DEF LabelInv, Polls, WaitLabels
  <2>2. CASE RdLock(p) \/ WrLock(p)
    <3>1. UNCHANGED op /\ pc' = [pc EXCEPT ![p] = "user"] /\ \E m : mode' = [mode EXCEPT ![p] = m]
      BY <2>2 DEF RdLock, WrLock, Goto
    <3> QED BY <3>1 DEF LabelInv, Polls, WaitLabels
  <2>3. CASE RwUnlock(p)
    BY <2>3 DEF RwUnlock, Locks, At, Goto, LabelInv, Polls, WaitLabels
  <2>4. CASE Put(p)
    BY <2>4 DEF Put, Locks, At, Goto, LabelInv, Polls, WaitLabels
  <2> QED BY <1>5, <2>1, <2>2, <2>3, <2>4 DEF LockedStep
<1>6. ASSUME NEW p \in Callers, Yield(p) \/ End(p)
      PROVE  LabelInv'
  <2>1. UNCHANGED <<pc, op, mode>>
    BY <1>6 DEF Yield, End, callVars, dataVars
  <2> QED BY <2>1 DEF LabelInv, Polls
<1> QED BY <1>1, <1>2, <1>3, <1>4, <1>5, <1>6 DEF Next

LEMMA SameUse ==
  ASSUME [Next]_vars
  PROVE  Items' <=> Items
<1>1. UNCHANGED prog
  BY DEF Next, CallStep, WaitStep, WakeStep, LockedStep, Call, Wait, WaitUnlock, Suspend, Woken, TimeOut,
         RemoveTest, RemoveLocked, Nobody, Signal, Broadcast, Detach, Wake, Clear, Unlock, RdLock, WrLock,
         RwUnlock, Take, GiveUp, Put, Yield, End, Run, vars
<1> QED BY <1>1 DEF Items

LEMMA UseStep ==
  ASSUME CondAssumption, TypeOK, UseInv, [Next]_vars
  PROVE  UseInv'
<1> USE DEF TypeOK
<1>j. Items' <=> Items
  BY SameUse
<1>1. CASE \/ UNCHANGED vars \/ \E e \in Xstreams, t \in Ults : Run(e, t)
           \/ \E p \in Callers : Yield(p) \/ End(p)
  <2>1. UNCHANGED <<pc, op, mode, items>>
    BY <1>1 DEF vars, callVars, dataVars, Run, Yield, End
  <2> QED BY <1>j, <2>1 DEF UseInv
<1>2. ASSUME NEW p \in Callers, CallStep(p)
      PROVE  UseInv'
  <2>1. PICK o \in Ops \cup {"rwunlock"} : Call(p, o)
    BY <1>2 DEF CallStep
  <2>2. /\ op' = [op EXCEPT ![p] = o] /\ pc' = [pc EXCEPT ![p] = "lock"] /\ UNCHANGED <<mode, items>>
        /\ (mode[p] = "no" /\ o \in prog.does[p]) \/ (mode[p] # "no" /\ o = "rwunlock")
    BY <2>1 DEF Call, Goto, dataVars
  <2>3. Items \/ prog.does[p] \subseteq {"rdlock", "wrlock"}
    BY CondAssumption DEF CondAssumption, Items
  <2>4. CASE Items
    <3>1. prog.does[p] \subseteq {"take", "timed", "put"} /\ mode[p] = "no"
      BY <2>4 DEF Items, UseInv
    <3> QED BY <1>j, <2>2, <2>4, <3>1 DEF UseInv
  <2>5. CASE ~ Items
    <3>1. o \in {"rdlock", "wrlock", "rwunlock"}
      BY <2>2, <2>3, <2>5
    <3> QED BY <1>j, <2>2, <2>5, <3>1 DEF UseInv
  <2> QED BY <2>4, <2>5
<1>3. ASSUME NEW p \in Callers, WaitStep(p) \/ WakeStep(p)
      PROVE  UseInv'
  <2>1. CASE TimeOut(p)
    <3>1. /\ pc[p] = "poll" /\ op[p] = "timed" /\ op' = [op EXCEPT ![p] = "timedout"] /\ UNCHANGED <<mode, items>>
      BY <2>1 DEF TimeOut, At, dataVars
    <3> QED BY <1>j, <3>1 DEF UseInv
  <2>2. CASE ~ TimeOut(p)
    <3>1. UNCHANGED <<op, mode, items>> /\ pc[p] # "user" /\ \E l : pc' = [pc EXCEPT ![p] = l]
      BY <1>3, <2>2 DEF WaitStep, WakeStep, Wait, Locks, WaitUnlock, Suspend, Woken, RemoveTest, RemoveLocked,
                 Nobody, Signal, Broadcast, Detach, Wake, Clear, Goto, dataVars, At
    <3> QED BY <1>j, <3>1 DEF UseInv
  <2> QED BY <2>1, <2>2
<1>4. ASSUME NEW p \in Callers, LockedStep(p)
      PROVE  UseInv'
  <2>1. UNCHANGED op /\ pc[p] # "user" /\ \E l : pc' = [pc EXCEPT ![p] = l]
    BY <1>4 DEF LockedStep, Unlock, RdLock, WrLock, RwUnlock, Take, GiveUp, Put, Goto, Locks, At
  <2>2. CASE Items
    <3>1. op[p] \in {"take", "timed", "timedout", "put"}
      BY <2>2 DEF UseInv
    <3>2. UNCHANGED mode
      BY <1>4, <3>1 DEF LockedStep, Unlock, RdLock, WrLock, RwUnlock, Take, GiveUp, Put, dataVars
    <3> QED BY <1>j, <2>1, <2>2, <3>2 DEF UseInv
  <2>3. CASE ~ Items
    <3>1. op[p] \in {"rdlock", "wrlock", "rwunlock"}
      BY <2>1, <2>3 DEF UseInv
    <3>2. UNCHANGED items
      BY <1>4, <3>1 DEF LockedStep, Unlock, RdLock, WrLock, RwUnlock, Take, GiveUp, Put, dataVars
    <3> QED BY <1>j, <2>1, <2>3, <3>1, <3>2 DEF UseInv
  <2> QED BY <2>2, <2>3
<1> QED BY <1>1, <1>2, <1>3, <1>4 DEF Next

Having(m) == {p \in Callers : mode[p] = m}

LEMMA HavingCount ==
  ASSUME CondAssumption, TypeOK, NEW p \in Callers, NEW m, mode[p] # m
  PROVE  /\ IsFiniteSet(Having(m)) /\ Cardinality(Having(m)) \in Nat
         /\ Cardinality(Having(m) \cup {p}) = Cardinality(Having(m)) + 1
<1>1. IsFiniteSet(Having(m))
  BY FS_Subset DEF CondAssumption, Having
<1>2. p \notin Having(m)
  BY DEF Having
<1> QED BY <1>1, <1>2, FS_CardinalityType, FS_AddElement

LEMMA RwStep ==
  ASSUME CondAssumption, TypeOK, LabelInv, RwExclusion, [Next]_vars
  PROVE  RwExclusion'
<1> USE DEF TypeOK
<1>1. /\ reader_count = Cardinality(Having("rd")) /\ write_flag = Cardinality(Having("wr"))
      /\ Having("wr") # {} => Having("rd") = {}
  BY DEF RwExclusion, Having
<1>2. \A m : IsFiniteSet(Having(m))
  BY FS_Subset DEF CondAssumption, Having
<1>3. \A m : Cardinality(Having(m)) = 0 <=> Having(m) = {}
  BY <1>2, FS_EmptySet
<1>4. Cardinality({}) = 0 /\ \A p : Cardinality({p}) = 1
  BY FS_EmptySet, FS_Singleton
<1>6. ASSUME NEW p \in Callers, RdLock(p)
      PROVE  RwExclusion'
  <2>1. /\ mode[p] = "no" /\ write_flag = 0 /\ UNCHANGED write_flag /\ reader_count' = reader_count + 1
        /\ mode' = [mode EXCEPT ![p] = "rd"]
    BY <1>6 DEF RdLock, Locks, At, MustWait, LabelInv
  <2>0. Having("wr") = {}
    BY <1>1, <1>3, <2>1
  <2>2. Having("wr")' = {} /\ Having("rd")' = Having("rd") \cup {p}
    BY <2>0, <2>1 DEF Having
  <2>3. Cardinality(Having("rd") \cup {p}) = Cardinality(Having("rd")) + 1
    BY <2>1, HavingCount
  <2> QED BY <1>1, <1>4, <2>1, <2>2, <2>3 DEF RwExclusion, Having
<1>7. ASSUME NEW p \in Callers, WrLock(p)
      PROVE  RwExclusion'
  <2>1. /\ mode[p] = "no" /\ write_flag = 0 /\ reader_count \in Nat /\ ~ reader_count > 0 /\ write_flag' = 1
        /\ UNCHANGED reader_count /\ mode' = [mode EXCEPT ![p] = "wr"]
    BY <1>7 DEF WrLock, Locks, At, MustWait, LabelInv
  <2>2. Having("wr") = {} /\ Having("rd") = {}
    BY <1>1, <1>3, <2>1
  <2>3. Having("wr")' = {p} /\ Having("rd")' = {}
    BY <2>1, <2>2 DEF Having
  <2> QED BY <1>1, <1>4, <2>1, <2>2, <2>3 DEF RwExclusion, Having
<1>8. ASSUME NEW p \in Callers, RwUnlock(p)
      PROVE  RwExclusion'
  <2>1. /\ mode[p] \in {"rd", "wr"} /\ mode' = [mode EXCEPT ![p] = "no"]
        /\ IF write_flag = 1 THEN write_flag' = 0 /\ UNCHANGED reader_count
                             ELSE reader_count' = reader_count - 1 /\ UNCHANGED write_flag
    BY <1>8 DEF RwUnlock, Locks, At, LabelInv
  <2>2. /\ Having("rd")' = Having("rd") \ {p} /\ Having("wr")' = Having("wr") \ {p}
        /\ mode[p] = "rd" => p \in Having("rd")
        /\ mode[p] = "wr" => p \in Having("wr")
    BY <2>1 DEF Having
  <2>3. CASE write_flag = 1
    <3>1. PICK w : Having("wr") = {w}
      BY <1>1, <1>2, <2>3, FS_Singleton
    <3>2. Having("rd") = {} /\ w = p
      BY <1>1, <2>1, <2>2, <3>1
    <3>3. Having("wr")' = {} /\ Having("rd")' = {}
      BY <2>2, <3>1, <3>2
    <3> QED BY <1>1, <1>4, <2>1, <2>3, <3>2, <3>3 DEF RwExclusion, Having
  <2>4. CASE write_flag # 1
    <3>1. Having("wr") = {}
      BY <1>1, <1>3, <2>4
    <3>2. p \in Having("rd")
      BY <2>1, <2>2, <3>1
    <3>3. Cardinality(Having("rd") \ {p}) = Cardinality(Having("rd")) - 1
      <4>1. PICK R : R = Having("rd")
        OBVIOUS
      <4>2. IsFiniteSet(R) /\ p \in R
        BY <1>2, <3>2, <4>1
      <4>3. Cardinality(R \ {p}) = Cardinality(R) - 1
        BY <4>2, FS_RemoveElement, Zenon
      <4> QED BY <4>1, <4>3
    <3>4. Having("wr")' = {}
      BY <2>2, <3>1
    <3> QED BY <1>1, <1>4, <2>1, <2>2, <2>4, <3>1, <3>3, <3>4 DEF RwExclusion, Having
  <2> QED BY <2>3, <2>4
<1>9. CASE UNCHANGED <<reader_count, write_flag, mode>>
  BY <1>1, <1>9 DEF RwExclusion, Having
<1>10. \/ UNCHANGED <<reader_count, write_flag, mode>>
       \/ \E p \in Callers : RdLock(p) \/ WrLock(p) \/ RwUnlock(p)
  BY DEF Next, CallStep, WaitStep, WakeStep, LockedStep, Call, Wait, WaitUnlock, Suspend, Woken, TimeOut,
         RemoveTest, RemoveLocked, Nobody, Signal, Broadcast, Detach, Wake, Clear, Unlock,
         Take, GiveUp, Put, Yield, End, Run, vars, dataVars
<1> QED BY <1>6, <1>7, <1>8, <1>9, <1>10
-----------------------------------------------------------------------------
(* The queue.                                                              *)

Queued == {q \in Callers : p_next[q] # None}

Whole ==
  /\ num_waiters = Cardinality(Queued)
  /\ IF Queued = {} THEN p_head = None ELSE IsCircle(p_next, p_prev, p_head, p_tail, Queued)

Busy == {"detach", "wake", "clear"}

LockInv ==
  /\ lock # None => pc[lock] \in Busy
  /\ \A p \in Callers : /\ pc[p] \in Busy => lock = p
                        /\ target[p] # None <=> pc[p] \in {"detach", "wake"}

(* While a broadcast goes through the queue, the units that are left form  *)
(* a chain from the one it takes next to the old head.                     *)
QueueInv ==
  /\ lock = None => Whole
  /\ \A p \in Callers :
       /\ pc[p] = "wake" /\ op[p] = "put" => Whole
       /\ pc[p] = "detach" => /\ target[p] \in Queued
                              /\ \/ p_head = target[p] /\ Whole
                                 \/ IsChain(p_next, p_head, target[p], Queued)
       /\ pc[p] = "wake" /\ op[p] # "put" => IsChain(p_next, p_head, next[p], Queued)
       /\ pc[p] = "clear" => Queued = {}

LEMMA QueuedFinite ==
  ASSUME CondAssumption
  PROVE  /\ IsFiniteSet(Queued) /\ Cardinality(Queued) \in Nat
         /\ Cardinality(Queued) = 0 <=> Queued = {}
         /\ Cardinality(Queued) = 1 <=> \E q : Queued = {q}
         /\ \A p : p \notin Queued => Cardinality(Queued \cup {p}) = Cardinality(Queued) + 1
         /\ \A p : p \in Queued => Cardinality(Queued \ {p}) = Cardinality(Queued) - 1
<1>1. IsFiniteSet(Queued)
  BY FS_Subset DEF CondAssumption, Queued
<1> QED
  <2>1. \A p : p \notin Queued => Cardinality(Queued \cup {p}) = Cardinality(Queued) + 1
    BY <1>1, FS_AddElement
  <2>2. \A p : p \in Queued => Cardinality(Queued \ {p}) = Cardinality(Queued) - 1
    BY <1>1, FS_RemoveElement
  <2>3. Cardinality(Queued) = 1 <=> \E q : Queued = {q}
    BY <1>1, FS_Singleton
  <2> QED BY <1>1, <2>1, <2>2, <2>3, FS_CardinalityType, FS_EmptySet

LEMMA WholeWait ==
  ASSUME CondAssumption, TypeOK, Whole, NEW p \in Callers \ Queued, Wait(p)
  PROVE  Whole' /\ Queued' = Queued \cup {p}
<1> USE DEF TypeOK
<1>0. p # None /\ p_next \in Links /\ p_prev \in Links /\ None \notin Queued
  BY DEF CondAssumption, Links, Queued
<1>1. CASE num_waiters = 0
  <2>1. Queued = {}
    BY <1>1, QueuedFinite DEF Whole
  <2>2. /\ p_next' = [p_next EXCEPT ![p] = p] /\ p_prev' = [p_prev EXCEPT ![p] = p]
        /\ p_head' = p /\ p_tail' = p /\ num_waiters' = 1
    BY <1>1 DEF Wait
  <2>3. Queued' = {p}
    BY <1>0, <2>1, <2>2 DEF Queued, Links
  <2>4. IsCircle(p_next', p_prev', p_head', p_tail', Queued')
    BY <1>0, <2>2, <2>3, CircleOne
  <2> QED BY <2>1, <2>2, <2>3, <2>4, FS_Singleton DEF Whole
<1>2. CASE num_waiters # 0
  <2>1. Queued # {} /\ IsCircle(p_next, p_prev, p_head, p_tail, Queued)
    BY <1>2, QueuedFinite DEF Whole
  <2>2. /\ p_next' = [p_next EXCEPT ![p_tail] = p, ![p] = p_head]
        /\ p_prev' = [p_prev EXCEPT ![p_head] = p, ![p] = p_tail]
        /\ p_head' = p_head /\ p_tail' = p /\ num_waiters' = num_waiters + 1
    BY <1>2 DEF Wait
  <2>3. p_head \in Queued /\ p_tail \in Queued
    BY <2>1 DEF IsCircle
  <2>4. Queued' = Queued \cup {p}
    BY <1>0, <2>2, <2>3 DEF Queued, Links
  <2>5. Queued \in SUBSET Callers
    BY DEF Queued
  <2>6. IsCircle(p_next', p_prev', p_head', p_tail', Queued')
    BY <1>0, <2>1, <2>2, <2>4, <2>5, CircleAppend
  <2>7. Cardinality(Queued') = Cardinality(Queued) + 1
    BY <2>4, QueuedFinite
  <2> QED BY <2>2, <2>3, <2>4, <2>6, <2>7 DEF Whole
<1> QED BY <1>1, <1>2

LEMMA WholeUnlink ==
  ASSUME CondAssumption, TypeOK, Whole, NEW u \in Queued, Unlink(u)
  PROVE  Whole' /\ Queued' = Queued \ {u}
<1> USE DEF TypeOK
<1>0. u \in Callers /\ u # None /\ p_next \in Links /\ p_prev \in Links /\ None \notin Queued
  BY DEF CondAssumption, Links, Queued
<1>1. CASE num_waiters = 1
  <2>1. Queued = {u}
    BY <1>1, QueuedFinite DEF Whole
  <2>2. /\ p_next' = [p_next EXCEPT ![u] = None] /\ p_head' = None /\ num_waiters' = 0
    BY <1>1 DEF Unlink
  <2>3. Queued' = {}
    BY <1>0, <2>1, <2>2 DEF Queued, Links
  <2> QED BY <2>1, <2>2, <2>3, FS_EmptySet DEF Whole
<1>2. CASE num_waiters # 1
  <2>1. Queued # {u} /\ IsCircle(p_next, p_prev, p_head, p_tail, Queued)
    BY <1>2, FS_Singleton DEF Whole
  <2>2. /\ p_next' = [p_next EXCEPT ![p_prev[u]] = p_next[u], ![u] = None]
        /\ p_prev' = [p_prev EXCEPT ![p_next[u]] = p_prev[u], ![u] = None]
        /\ p_head' = (IF u = p_head THEN p_next[u] ELSE p_head)
        /\ p_tail' = (IF u # p_head /\ u = p_tail THEN p_prev[u] ELSE p_tail)
        /\ num_waiters' = num_waiters - 1
    BY <1>2 DEF Unlink
  <2>3. p_prev[u] \in Queued /\ p_next[u] \in Queued
    BY <2>1 DEF IsCircle
  <2>4. Queued' = Queued \ {u}
    BY <1>0, <2>2, <2>3 DEF Queued, Links
  <2>5. Queued \in SUBSET Callers
    BY DEF Queued
  <2>6. IsCircle(p_next', p_prev', p_head', p_tail', Queued')
    <3>1. IsCircle([p_next EXCEPT ![p_prev[u]] = p_next[u], ![u] = None],
                   [p_prev EXCEPT ![p_next[u]] = p_prev[u], ![u] = None],
                   IF u = p_head THEN p_next[u] ELSE p_head,
                   IF u # p_head /\ u = p_tail THEN p_prev[u] ELSE p_tail, Queued \ {u})
      BY <1>0, <2>1, <2>5, CircleUnlink
    <3> QED BY <2>2, <2>4, <3>1
  <2>7. Cardinality(Queued') = Cardinality(Queued) - 1
    BY <2>4, QueuedFinite
  <2>8. Queued' # {}
    BY <2>1, <2>4
  <2> QED BY <2>2, <2>4, <2>6, <2>7, <2>8 DEF Whole
<1> QED BY <1>1, <1>2
(* Caller p is in a wait and no waker has released it.                     *)
Parked(p) ==
  /\ pc[p] \in WaitLabels
  /\ IF Polls(p) THEN p \notin signalled ELSE p \notin pool /\ ~ (pc[p] = "waiting" /\ Executes(p))

(* A ULT is in one place, and blocked before it suspends itself.           *)
PlaceInv ==
  /\ \A e \in Xstreams : cur[e] \notin pool
  /\ \A p \in Callers : pc[p] \in {"leave", "suspend"} /\ ~ Polls(p) => p \in blocking /\ p \notin pool

(* A polling caller may go on before the waker has stored to its unit.     *)
ParkInv ==
  /\ \A q \in Queued : Parked(q)
  /\ \A q \in Callers : Parked(q) => q \in Queued \/ \E p \in Callers : pc[p] = "wake" /\ target[p] = q
  /\ \A p \in Callers :
       pc[p] = "wake" => target[p] \notin Queued /\ (pc[target[p]] \in WaitLabels => Parked(target[p]))

(* A step that neither takes nor gives back the lock of the condition      *)
(* variable.                                                               *)
Quiet ==
  /\ UNCHANGED <<lock, p_next, p_prev, p_head, p_tail, num_waiters, target, next>>
  /\ \A q \in Callers : pc[q] \in Busy \/ pc'[q] \in Busy => pc'[q] = pc[q] /\ op'[q] = op[q]

ListStep(p) ==
  Wait(p) \/ RemoveLocked(p) \/ Signal(p) \/ Broadcast(p) \/ Detach(p) \/ Wake(p) \/ Clear(p)

LEMMA QuietStep ==
  ASSUME CondAssumption, TypeOK, [Next]_vars
  PROVE  Quiet \/ \E p \in Callers : ListStep(p)
<1> USE DEF TypeOK
<1>1. CASE \/ UNCHANGED vars \/ \E e \in Xstreams, t \in Ults : Run(e, t)
           \/ \E p \in Callers : Yield(p) \/ End(p)
  <2>1. UNCHANGED <<pc, op, lock, listVars, target, next>>
    BY <1>1 DEF vars, callVars, wakeVars, Run, Yield, End
  <2> QED BY <2>1 DEF Quiet, listVars
<1>2. ASSUME NEW p \in Callers, CallStep(p)
      PROVE  Quiet
  <2>1. PICK o \in Ops \cup {"rwunlock"} : Call(p, o)
    BY <1>2 DEF CallStep
  <2>2. /\ pc[p] = "user" /\ pc' = [pc EXCEPT ![p] = "lock"] /\ op' = [op EXCEPT ![p] = o]
        /\ UNCHANGED <<lock, listVars, target, next>>
    BY <2>1 DEF Call, At, Goto, wakeVars
  <2> QED BY <2>2 DEF Quiet, listVars, Busy
<1>3. ASSUME NEW p \in Callers, LockedStep(p) \/ Nobody(p) \/ WaitUnlock(p) \/ Suspend(p) \/ Woken(p) \/ RemoveTest(p)
      PROVE  Quiet
  <2>1. /\ pc[p] \notin Busy /\ UNCHANGED <<op, lock, listVars, target, next>>
        /\ \E l \in Labels \ Busy : pc' = [pc EXCEPT ![p] = l]
    <3>1. CASE LockedStep(p)
      BY <3>1 DEF LockedStep, Unlock, RdLock, WrLock, RwUnlock, Take, GiveUp, Put, Locks, At, Goto, wakeVars, Busy, Labels
    <3>2. CASE Nobody(p)
      BY <3>2 DEF Nobody, Goto, Caller, wakeVars, Busy, Labels
    <3>3. CASE WaitUnlock(p)
      BY <3>3 DEF WaitUnlock, At, Goto, wakeVars, Busy, Labels
    <3>4. CASE Suspend(p)
      BY <3>4 DEF Suspend, At, Goto, wakeVars, Busy, Labels
    <3>5. CASE Woken(p)
      BY <3>5 DEF Woken, At, Goto, wakeVars, Busy, Labels
    <3>6. CASE RemoveTest(p)
      BY <3>6 DEF RemoveTest, At, Goto, wakeVars, Busy, Labels
    <3> QED BY <1>3, <3>1, <3>2, <3>3, <3>4, <3>5, <3>6
  <2> QED BY <2>1 DEF Quiet, listVars
<1>4. ASSUME NEW p \in Callers, TimeOut(p)
      PROVE  Quiet
  <2>1. /\ pc[p] = "poll" /\ pc' = [pc EXCEPT ![p] = "remove"] /\ op' = [op EXCEPT ![p] = "timedout"]
        /\ UNCHANGED <<lock, listVars, target, next>>
    BY <1>4 DEF TimeOut, At, Goto, wakeVars
  <2> QED BY <2>1 DEF Quiet, listVars, Busy
<1> QED BY <1>1, <1>2, <1>3, <1>4 DEF Next, WaitStep, WakeStep, ListStep

LEMMA QuietQueue ==
  ASSUME CondAssumption, TypeOK, LockInv, QueueInv, Quiet
  PROVE  LockInv' /\ QueueInv' /\ Queued' = Queued
<1>1. Queued' = Queued
  BY DEF Quiet, Queued
<1>2. Whole' <=> Whole
  BY <1>1 DEF Quiet, Whole
<1>3. LockInv'
  BY DEF Quiet, LockInv, Busy, TypeOK
<1>4. ASSUME NEW p \in Callers, pc'[p] \in Busy
      PROVE  pc'[p] = pc[p] /\ op'[p] = op[p] /\ target'[p] = target[p] /\ next'[p] = next[p]
  BY <1>4 DEF Quiet
<1>5. QueueInv'
  <2>1. lock' = None => Whole'
    BY <1>2 DEF Quiet, QueueInv
  <2>2. ASSUME NEW p \in Callers, pc'[p] \in Busy
        PROVE  /\ pc'[p] = "wake" /\ op'[p] = "put" => Whole'
               /\ pc'[p] = "detach" => /\ target'[p] \in Queued'
                                       /\ \/ p_head' = target'[p] /\ Whole'
                                          \/ IsChain(p_next', p_head', target'[p], Queued')
               /\ pc'[p] = "wake" /\ op'[p] # "put" => IsChain(p_next', p_head', next'[p], Queued')
               /\ pc'[p] = "clear" => Queued' = {}
    <3>1. p_next' = p_next /\ p_head' = p_head
      BY DEF Quiet
    <3> QED BY <1>1, <1>2, <1>4, <2>2, <3>1 DEF QueueInv
  <2> QED BY <2>1, <2>2 DEF QueueInv, Busy
<1> QED BY <1>1, <1>3, <1>5

LEMMA IdleBefore ==
  ASSUME CondAssumption, LockInv, QueueInv, lock = None
  PROVE  Whole /\ \A q \in Callers : pc[q] \notin Busy /\ target[q] = None
<1>1. \A q \in Callers : pc[q] \notin Busy
  BY DEF LockInv, CondAssumption
<1> QED BY <1>1 DEF LockInv, QueueInv, Busy

LEMMA IdleAfter ==
  ASSUME lock' = None, Whole', \A q \in Callers : pc'[q] \notin Busy /\ target'[q] = None
  PROVE  LockInv' /\ QueueInv'
BY DEF LockInv, QueueInv, Busy

(* The holder of the lock is the only one who is busy with the queue.      *)
LEMMA OneBusy ==
  ASSUME TypeOK, LockInv, NEW p \in Callers, pc[p] \in Busy
  PROVE  lock = p /\ \A q \in Callers \ {p} : pc[q] \notin Busy /\ target[q] = None
BY DEF LockInv, Busy

LEMMA HeadQueued ==
  ASSUME CondAssumption, Whole, num_waiters # 0
  PROVE  p_head \in Queued
<1>1. Queued # {}
  BY FS_EmptySet DEF Whole
<1> QED BY <1>1 DEF Whole, IsCircle

(* What a step on the queue does to it.                                    *)
LEMMA WaitQueue ==
  ASSUME CondAssumption, TypeOK, LockInv, QueueInv, ParkInv, NEW p \in Callers, Wait(p)
  PROVE  LockInv' /\ QueueInv' /\ Queued' = Queued \cup {p} /\ p \notin Queued
<1> USE DEF TypeOK
<1>1. pc[p] = "lock" /\ lock = None /\ pc' = [pc EXCEPT ![p] = "leave"] /\ UNCHANGED <<lock, target>>
  BY DEF Wait, Locks, At, Goto
<1>2. p \notin Queued
  BY <1>1 DEF ParkInv, Parked, WaitLabels
<1>3. Whole /\ \A q \in Callers : pc[q] \notin Busy /\ target[q] = None
  BY <1>1, IdleBefore
<1>4. Whole' /\ Queued' = Queued \cup {p}
  BY <1>2, <1>3, WholeWait
<1>5. \A q \in Callers : pc'[q] \notin Busy /\ target'[q] = None
  BY <1>1, <1>3 DEF Busy
<1> QED BY <1>1, <1>2, <1>4, <1>5, IdleAfter

LEMMA RemoveQueue ==
  ASSUME CondAssumption, TypeOK, LockInv, QueueInv, NEW p \in Callers, RemoveLocked(p)
  PROVE  LockInv' /\ QueueInv' /\ Queued' = Queued \ {p}
<1> USE DEF TypeOK
<1>1. /\ pc[p] = "remove.lock" /\ lock = None /\ pc' = [pc EXCEPT ![p] = "lock"] /\ UNCHANGED <<lock, target>>
      /\ IF p_next[p] = None THEN UNCHANGED listVars ELSE Unlink(p)
  BY DEF RemoveLocked, At, Goto, wakeVars
<1>2. Whole /\ \A q \in Callers : pc[q] \notin Busy /\ target[q] = None
  BY <1>1, IdleBefore
<1>3. Whole' /\ Queued' = Queued \ {p}
  <2>1. CASE p_next[p] = None
    <3>1. Queued' = Queued /\ p \notin Queued
      BY <1>1, <2>1 DEF Queued, listVars
    <3> QED BY <1>1, <1>2, <2>1, <3>1 DEF Whole, listVars
  <2>2. CASE p_next[p] # None
    <3>1. p \in Queued
      BY <2>2 DEF Queued
    <3> QED BY <1>1, <1>2, <2>2, <3>1, WholeUnlink
  <2> QED BY <2>1, <2>2
<1>4. \A q \in Callers : pc'[q] \notin Busy /\ target'[q] = None
  BY <1>1, <1>2 DEF Busy
<1> QED BY <1>1, <1>3, <1>4, IdleAfter

LEMMA SignalQueue ==
  ASSUME CondAssumption, TypeOK, LabelInv, LockInv, QueueInv, NEW p \in Callers, Signal(p)
  PROVE  /\ LockInv' /\ QueueInv' /\ Queued' = Queued \ {p_head} /\ p_head \in Queued
         /\ target' = [target EXCEPT ![p] = p_head]
<1> USE DEF TypeOK
<1>1. /\ pc[p] = "signal" /\ lock = None /\ pc' = [pc EXCEPT ![p] = "wake"] /\ UNCHANGED op
      /\ lock' = p /\ target' = [target EXCEPT ![p] = p_head] /\ num_waiters # 0 /\ Unlink(p_head)
  BY DEF Signal, At, Goto
<1>2. Whole /\ \A q \in Callers : pc[q] \notin Busy /\ target[q] = None
  BY <1>1, IdleBefore
<1>3. p_head \in Queued /\ p_head # None
  BY <1>1, <1>2, HeadQueued DEF Queued, CondAssumption
<1>4. Whole' /\ Queued' = Queued \ {p_head}
  BY <1>1, <1>2, <1>3, WholeUnlink
<1>5. op'[p] = "put"
  BY <1>1 DEF LabelInv
<1>6. /\ pc'[p] = "wake" /\ target'[p] # None
      /\ \A q \in Callers \ {p} : pc'[q] \notin Busy /\ target'[q] = None
  BY <1>1, <1>2, <1>3 DEF Busy
<1>7. LockInv'
  BY <1>1, <1>6 DEF LockInv, Busy
<1>8. QueueInv'
  <2>1. lock' # None
    BY <1>1 DEF CondAssumption
  <2> QED BY <1>4, <1>5, <1>6, <2>1 DEF QueueInv, Busy
<1> QED BY <1>1, <1>3, <1>4, <1>7, <1>8

LEMMA BroadcastQueue ==
  ASSUME CondAssumption, TypeOK, LockInv, QueueInv, NEW p \in Callers, Broadcast(p)
  PROVE  LockInv' /\ QueueInv' /\ Queued' = Queued
<1> USE DEF TypeOK
<1>1. /\ pc[p] = "broadcast" /\ lock = None /\ pc' = [pc EXCEPT ![p] = "detach"] /\ UNCHANGED <<op, listVars>>
      /\ lock' = p /\ target' = [target EXCEPT ![p] = p_head] /\ num_waiters # 0
  BY DEF Broadcast, At, Goto
<1>2. Whole /\ \A q \in Callers : pc[q] \notin Busy /\ target[q] = None
  BY <1>1, IdleBefore
<1>3. p_head \in Queued /\ p_head # None
  BY <1>1, <1>2, HeadQueued DEF Queued, CondAssumption
<1>4. Queued' = Queued
  BY <1>1 DEF Queued, listVars
<1>5. Whole'
  BY <1>1, <1>2, <1>4 DEF Whole, listVars
<1>6. /\ pc'[p] = "detach" /\ target'[p] = p_head
      /\ \A q \in Callers \ {p} : pc'[q] \notin Busy /\ target'[q] = None
  BY <1>1, <1>2 DEF Busy
<1>7. LockInv'
  BY <1>1, <1>3, <1>6 DEF LockInv, Busy
<1>8. QueueInv'
  <2>1. lock' # None /\ p_head' = p_head
    BY <1>1 DEF CondAssumption, listVars
  <2> QED BY <1>3, <1>4, <1>5, <1>6, <2>1 DEF QueueInv, Busy
<1> QED BY <1>4, <1>7, <1>8

LEMMA DetachQueue ==
  ASSUME CondAssumption, TypeOK, LabelInv, LockInv, QueueInv, NEW p \in Callers, Detach(p)
  PROVE  /\ LockInv' /\ QueueInv' /\ Queued' = Queued \ {target[p]} /\ target[p] \in Queued
<1> USE DEF TypeOK
<1>1. /\ pc[p] = "detach" /\ pc' = [pc EXCEPT ![p] = "wake"] /\ UNCHANGED <<op, lock, p_head, target>>
      /\ next' = [next EXCEPT ![p] = p_next[target[p]]] /\ p_next' = [p_next EXCEPT ![target[p]] = None]
  BY DEF Detach, At, Goto
<1>2. lock = p /\ \A q \in Callers \ {p} : pc[q] \notin Busy /\ target[q] = None
  BY <1>1, OneBusy DEF Busy
<1>3. /\ target[p] \in Queued
      /\ (p_head = target[p] /\ Whole) \/ IsChain(p_next, p_head, target[p], Queued)
  BY <1>1 DEF QueueInv
<1>4. Queued' = Queued \ {target[p]} /\ Queued \in SUBSET Callers /\ p_next \in Links
  BY <1>1, <1>3 DEF Queued, Links
<1>5. op'[p] # "put" /\ target'[p] # None
  BY <1>1, <1>3 DEF LabelInv, Queued, CondAssumption
<1>6. IsChain([p_next EXCEPT ![target[p]] = None], p_head, p_next[target[p]], Queued \ {target[p]})
  <2>1. CASE p_head = target[p] /\ Whole
    <3>1. IsCircle(p_next, p_prev, p_head, p_tail, Queued)
      BY <1>3, <2>1 DEF Whole
    <3>2. IsChain([p_next EXCEPT ![p_head] = None], p_head, p_next[p_head], Queued \ {p_head})
      BY <1>4, <3>1, CircleDetach
    <3> QED BY <2>1, <3>2
  <2>2. CASE IsChain(p_next, p_head, target[p], Queued)
    BY <1>3, <1>4, <2>2, ChainDetach
  <2> QED BY <1>3, <2>1, <2>2
<1>7. IsChain(p_next', p_head', next'[p], Queued')
  BY <1>1, <1>4, <1>6
<1>8. pc'[p] = "wake" /\ \A q \in Callers \ {p} : pc'[q] \notin Busy /\ target'[q] = None
  BY <1>1, <1>2
<1>9. LockInv'
  BY <1>1, <1>2, <1>5, <1>8 DEF LockInv, Busy
<1>10. QueueInv'
  <2>1. lock' # None
    BY <1>1, <1>2 DEF CondAssumption
  <2> QED BY <1>5, <1>7, <1>8, <2>1 DEF QueueInv, Busy
<1> QED BY <1>3, <1>4, <1>9, <1>10

LEMMA WakeQueue ==
  ASSUME CondAssumption, TypeOK, LabelInv, LockInv, QueueInv, NEW p \in Callers, Wake(p)
  PROVE  LockInv' /\ QueueInv' /\ Queued' = Queued
<1> USE DEF TypeOK
<1>1. /\ pc[p] = "wake" /\ UNCHANGED <<op, listVars>>
      /\ IF op[p] = "put"
         THEN /\ lock' = None /\ target' = [target EXCEPT ![p] = None]
              /\ pc' = [pc EXCEPT ![p] = Caller(p)]
         ELSE /\ lock' = lock
              /\ IF next[p] = p_head
                 THEN pc' = [pc EXCEPT ![p] = "clear"] /\ target' = [target EXCEPT ![p] = None]
                 ELSE pc' = [pc EXCEPT ![p] = "detach"] /\ target' = [target EXCEPT ![p] = next[p]]
  BY DEF Wake, At, Goto
<1>2. lock = p /\ \A q \in Callers \ {p} : pc[q] \notin Busy /\ target[q] = None
  BY <1>1, OneBusy DEF Busy
<1>3. Queued' = Queued /\ (Whole' <=> Whole)
  <2>1. Queued' = Queued
    BY <1>1 DEF listVars, Queued
  <2> QED BY <1>1, <2>1 DEF listVars, Whole
<1>4. \A q \in Callers \ {p} : pc'[q] \notin Busy /\ target'[q] = None
  BY <1>1, <1>2
<1>5. CASE op[p] = "put"
  <2>1. Whole
    BY <1>1, <1>5 DEF QueueInv
  <2>2. pc'[p] \notin Busy /\ target'[p] = None
    BY <1>1, <1>5 DEF Caller, Busy
  <2> QED BY <1>1, <1>3, <1>4, <1>5, <2>1, <2>2, IdleAfter
<1>6. CASE op[p] # "put"
  <2>1. IsChain(p_next, p_head, next[p], Queued) /\ lock' = p /\ lock' # None
    BY <1>1, <1>2, <1>6 DEF QueueInv, CondAssumption
  <2>2. CASE next[p] = p_head
    <3>1. Queued = {}
      BY <2>1, <2>2 DEF IsChain
    <3>2. pc'[p] = "clear" /\ target'[p] = None
      BY <1>1, <1>6, <2>2
    <3> QED BY <1>3, <1>4, <2>1, <3>1, <3>2 DEF LockInv, QueueInv, Busy
  <2>3. CASE next[p] # p_head
    <3>1. next[p] \in Queued /\ next[p] # None
      BY <2>1, <2>3 DEF IsChain, Queued, CondAssumption
    <3>2. pc'[p] = "detach" /\ target'[p] = next[p]
      BY <1>1, <1>6, <2>3
    <3>3. IsChain(p_next', p_head', target'[p], Queued')
      BY <1>1, <1>3, <2>1, <3>2 DEF listVars
    <3> QED BY <1>3, <1>4, <2>1, <3>1, <3>2, <3>3 DEF LockInv, QueueInv, Busy
  <2> QED BY <2>2, <2>3
<1> QED BY <1>3, <1>5, <1>6

LEMMA ClearQueue ==
  ASSUME CondAssumption, TypeOK, LockInv, QueueInv, NEW p \in Callers, Clear(p)
  PROVE  LockInv' /\ QueueInv' /\ Queued' = Queued /\ Queued = {}
<1> USE DEF TypeOK
<1>1. /\ pc[p] = "clear" /\ num_waiters' = 0 /\ p_head' = None /\ lock' = None
      /\ pc' = [pc EXCEPT ![p] = Caller(p)] /\ UNCHANGED <<p_next, target>>
  BY DEF Clear, At, Goto, wakeVars
<1>2. \A q \in Callers \ {p} : pc[q] \notin Busy /\ target[q] = None
  BY <1>1, OneBusy DEF Busy
<1>3. Queued = {} /\ target[p] = None
  BY <1>1 DEF QueueInv, LockInv
<1>4. Queued' = Queued
  BY <1>1 DEF Queued
<1>5. Whole'
  BY <1>1, <1>3, <1>4, FS_EmptySet DEF Whole
<1>6. \A q \in Callers : pc'[q] \notin Busy /\ target'[q] = None
  BY <1>1, <1>2, <1>3 DEF Caller, Busy
<1> QED BY <1>1, <1>3, <1>4, <1>5, <1>6, IdleAfter

LEMMA QueueStep ==
  ASSUME CondAssumption, TypeOK, LabelInv, LockInv, QueueInv, ParkInv, [Next]_vars
  PROVE  LockInv' /\ QueueInv'
BY QuietStep, QuietQueue, WaitQueue, RemoveQueue, SignalQueue, BroadcastQueue, DetachQueue, WakeQueue,
   ClearQueue DEF ListStep
-----------------------------------------------------------------------------
(* Who is parked.                                                          *)

LEMMA ParkFrame ==
  ASSUME NEW q \in Callers, pc'[q] = pc[q], op'[q] = op[q], q \in pool' <=> q \in pool,
         q \in signalled' <=> q \in signalled, Executes(q)' <=> Executes(q)
  PROVE  (Polls(q)' <=> Polls(q)) /\ (Parked(q)' <=> Parked(q))
<1>1. Polls(q)' <=> Polls(q)
  BY DEF Polls
<1> QED BY <1>1 DEF Parked

(* How a step may change whether caller q is parked.                       *)
Unparks(q) ==
  /\ ~ Parked(q)'
  /\ \/ RemoveTest(q) /\ p_next[q] = None
     \/ RemoveLocked(q)
     \/ \E p \in Callers : Wake(p) /\ target[p] = q

ParkedNext(q) ==
  \/ Parked(q)' <=> Parked(q)
  \/ Wait(q) /\ Parked(q)'
  \/ Unparks(q)

(* Only Wait leads into a wait.                                            *)
WaitsNext(q) == pc'[q] \in WaitLabels => pc[q] \in WaitLabels \/ Wait(q)

Settled == PlaceInv' /\ \A q \in Callers : ParkedNext(q) /\ WaitsNext(q)

(* A step of p that leaves the ESs and the pool alone.                     *)
LEMMA StaysPlaced ==
  ASSUME TypeOK, PlaceInv, NEW p \in Callers, UNCHANGED <<schedVars, signalled>>,
         \A q \in Callers \ {p} : pc'[q] = pc[q] /\ op'[q] = op[q],
         ParkedNext(p), WaitsNext(p),
         pc'[p] \in {"leave", "suspend"} /\ ~ Polls(p)' => pc[p] = "leave" /\ ~ Polls(p)
  PROVE  Settled
<1>1. \A q \in Callers : Executes(q)' <=> Executes(q)
  BY DEF Executes, schedVars
<1>2. \A q \in Callers \ {p} : (Polls(q)' <=> Polls(q)) /\ (Parked(q)' <=> Parked(q))
  BY <1>1, ParkFrame DEF schedVars
<1>3. PlaceInv'
  <2>1. \A q \in Callers : pc'[q] \in {"leave", "suspend"} /\ ~ Polls(q)'
                             => pc[q] \in {"leave", "suspend"} /\ ~ Polls(q)
    BY <1>2
  <2> QED BY <2>1 DEF PlaceInv, schedVars
<1> QED BY <1>2, <1>3 DEF Settled, ParkedNext, WaitsNext

(* A step of p that is no part of a wait.                                  *)
LEMMA OutsidePlaced ==
  ASSUME TypeOK, PlaceInv, NEW p \in Callers, UNCHANGED <<schedVars, signalled>>,
         \A q \in Callers \ {p} : pc'[q] = pc[q] /\ op'[q] = op[q],
         pc[p] \notin WaitLabels, pc'[p] \notin WaitLabels
  PROVE  Settled
<1>1. ParkedNext(p) /\ WaitsNext(p)
  BY DEF ParkedNext, WaitsNext, Parked
<1>2. pc'[p] \notin {"leave", "suspend"}
  BY DEF WaitLabels
<1> QED BY <1>1, <1>2, StaysPlaced

LEMMA OutsideSteps ==
  ASSUME TypeOK, PlaceInv, NEW p \in Callers,
         \/ CallStep(p) \/ LockedStep(p) \/ Nobody(p) \/ Signal(p) \/ Broadcast(p) \/ Detach(p) \/ Clear(p)
  PROVE  Settled
<1> USE DEF TypeOK
<1>1. /\ UNCHANGED <<schedVars, signalled>> /\ pc[p] \notin WaitLabels
      /\ \E l \in Labels \ WaitLabels : pc' = [pc EXCEPT ![p] = l]
      /\ \E o : op' = [op EXCEPT ![p] = o]
  <2>1. CASE CallStep(p)
    BY <2>1 DEF CallStep, Call, At, Goto, wakeVars, Labels, WaitLabels
  <2>2. op = [op EXCEPT ![p] = op[p]]
    OBVIOUS
  <2>3. CASE LockedStep(p)
    BY <2>2, <2>3 DEF LockedStep, Unlock, RdLock, WrLock, RwUnlock, Take, GiveUp, Put, Locks, At, Goto, wakeVars,
             Labels, WaitLabels
  <2>4. CASE Nobody(p)
    BY <2>2, <2>4 DEF Nobody, At, Goto, Caller, wakeVars, Labels, WaitLabels
  <2>5. CASE Signal(p)
    BY <2>2, <2>5 DEF Signal, At, Goto, Labels, WaitLabels
  <2>6. CASE Broadcast(p)
    BY <2>2, <2>6 DEF Broadcast, At, Goto, Labels, WaitLabels
  <2>7. CASE Detach(p)
    BY <2>2, <2>7 DEF Detach, At, Goto, Labels, WaitLabels
  <2>8. CASE Clear(p)
    BY <2>2, <2>8 DEF Clear, At, Goto, Caller, wakeVars, Labels, WaitLabels
  <2> QED BY <2>1, <2>3, <2>4, <2>5, <2>6, <2>7, <2>8
<1>2. /\ \A q \in Callers \ {p} : pc'[q] = pc[q] /\ op'[q] = op[q]
      /\ pc'[p] \notin WaitLabels
  BY <1>1
<1> QED BY <1>1, <1>2, OutsidePlaced

LEMMA WaitSteps ==
  ASSUME TypeOK, LabelInv, PlaceInv, NEW p \in Callers,
         WaitUnlock(p) \/ Woken(p) \/ TimeOut(p) \/ RemoveTest(p) \/ RemoveLocked(p)
  PROVE  Settled
<1> USE DEF TypeOK
<1>1. CASE WaitUnlock(p)
  <2>1. /\ pc[p] = "leave" /\ pc' = [pc EXCEPT ![p] = IF Polls(p) THEN "poll" ELSE "suspend"]
        /\ UNCHANGED <<schedVars, op, signalled>>
    BY <1>1 DEF WaitUnlock, At, Goto, wakeVars
  <2>2. Polls(p)' <=> Polls(p)
    BY <2>1 DEF Polls
  <2>3. Parked(p)' <=> Parked(p)
    <3>1. pc'[p] \in {"poll", "suspend"}
      BY <2>1
    <3> QED BY <2>1, <2>2, <3>1 DEF Parked, WaitLabels, schedVars
  <2>4. pc'[p] \in {"leave", "suspend"} => ~ Polls(p)
    BY <2>1
  <2>5. \A q \in Callers \ {p} : pc'[q] = pc[q] /\ op'[q] = op[q]
    BY <2>1
  <2> QED BY <2>1, <2>2, <2>3, <2>4, <2>5, StaysPlaced DEF ParkedNext, WaitsNext, WaitLabels
<1>2. CASE Woken(p)
  <2>1. /\ (pc[p] = "waiting" /\ Executes(p)) \/ (pc[p] = "poll" /\ p \in signalled)
        /\ pc' = [pc EXCEPT ![p] = "lock"] /\ UNCHANGED <<schedVars, op, signalled>>
    BY <1>2 DEF Woken, At, Goto, wakeVars
  <2>2. ~ Parked(p) /\ ~ Parked(p)'
    BY <2>1 DEF Parked, LabelInv, WaitLabels
  <2>3. pc'[p] = "lock" /\ \A q \in Callers \ {p} : pc'[q] = pc[q] /\ op'[q] = op[q]
    BY <2>1
  <2> QED BY <2>1, <2>2, <2>3, StaysPlaced DEF ParkedNext, WaitsNext, WaitLabels
<1>3. CASE TimeOut(p)
  <2>1. /\ pc[p] = "poll" /\ op[p] = "timed" /\ pc' = [pc EXCEPT ![p] = "remove"]
        /\ op' = [op EXCEPT ![p] = "timedout"] /\ UNCHANGED <<schedVars, signalled>>
    BY <1>3 DEF TimeOut, At, Goto, wakeVars
  <2>2. Polls(p) /\ Polls(p)'
    BY <2>1 DEF Polls
  <2>3. pc'[p] = "remove" /\ \A q \in Callers \ {p} : pc'[q] = pc[q] /\ op'[q] = op[q]
    BY <2>1
  <2>4. Parked(p)' <=> Parked(p)
    BY <2>1, <2>2, <2>3 DEF Parked, WaitLabels
  <2> QED BY <2>1, <2>2, <2>3, <2>4, StaysPlaced DEF ParkedNext, WaitsNext, WaitLabels
<1>4. CASE RemoveTest(p) \/ RemoveLocked(p)
  <2>1. /\ pc[p] \in {"remove", "remove.lock"} /\ op[p] = "timedout" /\ UNCHANGED <<schedVars, op, signalled>>
        /\ \/ pc' = [pc EXCEPT ![p] = "lock"] /\ ((RemoveTest(p) /\ p_next[p] = None) \/ RemoveLocked(p))
           \/ pc' = [pc EXCEPT ![p] = "remove.lock"]
    BY <1>4 DEF RemoveTest, RemoveLocked, At, Goto, wakeVars, LabelInv
  <2>2. Polls(p) /\ Polls(p)'
    BY <2>1 DEF Polls
  <2>3. pc'[p] \in {"lock", "remove.lock"} /\ \A q \in Callers \ {p} : pc'[q] = pc[q] /\ op'[q] = op[q]
    BY <2>1
  <2>4. ParkedNext(p)
    <3>1. CASE pc'[p] = "lock"
      <4>1. (RemoveTest(p) /\ p_next[p] = None) \/ RemoveLocked(p)
        BY <2>1, <3>1
      <4> QED BY <3>1, <4>1 DEF ParkedNext, Unparks, Parked, WaitLabels
    <3>2. CASE pc'[p] = "remove.lock"
      BY <2>1, <2>2, <3>2 DEF ParkedNext, Parked, WaitLabels
    <3> QED BY <2>3, <3>1, <3>2
  <2> QED BY <2>1, <2>2, <2>3, <2>4, StaysPlaced DEF WaitsNext, WaitLabels
<1> QED BY <1>1, <1>2, <1>3, <1>4

(* Who executes after p has given its ES back, and after t has got one.    *)
LEMMA BackExecutes ==
  ASSUME CondAssumption, TypeOK, NEW p \in Ults, BackToSched(p)
  PROVE  /\ ~ Executes(p)' /\ \A q \in Callers \ {p} : Executes(q)' <=> Executes(q)
         /\ \A e \in Xstreams : cur'[e] # p /\ (cur'[e] = None \/ cur'[e] = cur[e])
<1>1. cur' = [e \in Xstreams |-> IF cur[e] = p THEN None ELSE cur[e]]
  BY DEF BackToSched
<1>2. p # None /\ p \notin Externals /\ None \notin Callers
  BY DEF CondAssumption, Callers
<1> QED BY <1>1, <1>2 DEF Executes

LEMMA WaitPlaced ==
  ASSUME CondAssumption, TypeOK, PlaceInv, NEW p \in Callers, Wait(p)
  PROVE  Settled /\ Parked(p)'
<1> USE DEF TypeOK
<1>1. /\ pc[p] = "lock" /\ Executes(p) /\ pc' = [pc EXCEPT ![p] = "leave"] /\ UNCHANGED <<op, cur, pool>>
      /\ IF Polls(p) THEN signalled' = signalled \ {p} /\ UNCHANGED blocking
                     ELSE blocking' = blocking \cup {p} /\ UNCHANGED signalled
  BY DEF Wait, Locks, At, Goto, SetBlocked, schedVars
<1>2. \A q \in Callers : (Executes(q)' <=> Executes(q)) /\ (Polls(q)' <=> Polls(q))
  BY <1>1 DEF Executes, Polls
<1>3. Polls(p) \/ p \notin pool
  BY <1>1 DEF PlaceInv, Executes, Polls
<1>4. Parked(p)'
  <2>1. pc'[p] = "leave"
    BY <1>1
  <2> QED BY <1>1, <1>2, <1>3, <2>1 DEF Parked, WaitLabels
<1>5. \A q \in Callers \ {p} : Parked(q)' <=> Parked(q)
  BY <1>1, <1>2, ParkFrame
<1>6. PlaceInv'
  BY <1>1, <1>2, <1>3 DEF PlaceInv
<1>7. \A q \in Callers : WaitsNext(q)
  BY <1>1 DEF WaitsNext
<1> QED BY <1>4, <1>5, <1>6, <1>7 DEF Settled, ParkedNext

LEMMA SuspendPlaced ==
  ASSUME CondAssumption, TypeOK, LabelInv, PlaceInv, NEW p \in Callers, Suspend(p)
  PROVE  Settled
<1> USE DEF TypeOK
<1>1. /\ pc[p] = "suspend" /\ pc' = [pc EXCEPT ![p] = "waiting"] /\ UNCHANGED <<op, pool, signalled>>
      /\ BackToSched(p) /\ blocking' = blocking \ {p}
  BY DEF Suspend, SuspendUlt, Goto, wakeVars
<1>2. ~ Polls(p) /\ p \notin pool /\ p \in Ults
  BY <1>1 DEF LabelInv, PlaceInv, Polls, Callers
<1>3. /\ ~ Executes(p)' /\ \A q \in Callers \ {p} : Executes(q)' <=> Executes(q)
      /\ \A e \in Xstreams : cur'[e] # p /\ (cur'[e] = None \/ cur'[e] = cur[e])
  BY <1>1, <1>2, BackExecutes
<1>4. \A q \in Callers : Polls(q)' <=> Polls(q)
  BY <1>1 DEF Polls
<1>5. pc'[p] = "waiting" /\ \A q \in Callers \ {p} : pc'[q] = pc[q]
  BY <1>1
<1>6. Parked(p) /\ Parked(p)'
  BY <1>1, <1>2, <1>3, <1>4, <1>5 DEF Parked, WaitLabels
<1>7. \A q \in Callers \ {p} : Parked(q)' <=> Parked(q)
  BY <1>1, <1>3, <1>5, ParkFrame
<1>8. PlaceInv'
  <2>1. None \notin pool
    BY DEF CondAssumption, Callers, SchedTypeOK
  <2>2. \A e \in Xstreams : cur'[e] \notin pool'
    BY <1>1, <1>3, <2>1 DEF PlaceInv
  <2>3. ASSUME NEW q \in Callers, pc'[q] \in {"leave", "suspend"}, ~ Polls(q)'
        PROVE  q \in blocking' /\ q \notin pool'
    BY <1>1, <1>4, <1>5, <2>3 DEF PlaceInv
  <2> QED BY <2>2, <2>3 DEF PlaceInv
<1>9. \A q \in Callers : WaitsNext(q)
  BY <1>1, <1>5 DEF WaitsNext, WaitLabels
<1> QED BY <1>6, <1>7, <1>8, <1>9 DEF Settled, ParkedNext

LEMMA WakePlaced ==
  ASSUME CondAssumption, TypeOK, LabelInv, LockInv, PlaceInv, ParkInv, NEW p \in Callers, Wake(p)
  PROVE  Settled /\ \E u \in Callers : u = target[p] /\ ~ Parked(u)'
<1> USE DEF TypeOK
<1>1. /\ pc[p] = "wake" /\ Release(target[p]) /\ UNCHANGED op
      /\ \E l \in {"user", "unlock", "clear", "detach"} : pc' = [pc EXCEPT ![p] = l]
  BY DEF Wake, At, Goto, Caller
<1>2. PICK u \in Callers : u = target[p]
  BY <1>1 DEF LockInv
<1>3. \A q \in Callers : Polls(q)' <=> Polls(q)
  BY <1>1 DEF Polls
<1>4. /\ pc[p] \notin WaitLabels /\ pc'[p] \notin WaitLabels
      /\ \A q \in Callers \ {p} : pc'[q] = pc[q]
  BY <1>1 DEF WaitLabels
<1>5. CASE ~ Polls(u) /\ pc[u] \in {"leave", "suspend", "waiting"}
  <2>1. u \notin blocking /\ pool' = pool \cup {u} /\ UNCHANGED <<cur, blocking, signalled>>
    BY <1>1, <1>2, <1>5 DEF Release, SetReady
  <2>2. Parked(u)
    BY <1>1, <1>2, <1>5 DEF ParkInv, WaitLabels
  <2>3. pc[u] = "waiting" /\ ~ Executes(u) /\ u # p
    BY <1>1, <1>5, <2>1, <2>2 DEF PlaceInv, Parked
  <2>4. \A q \in Callers : Executes(q)' <=> Executes(q)
    BY <2>1 DEF Executes
  <2>5. ~ Parked(u)'
    BY <1>3, <1>5, <2>1 DEF Parked
  <2>6. \A q \in Callers \ {u} : Parked(q)' <=> Parked(q)
    <3>1. ASSUME NEW q \in Callers \ {u, p}
          PROVE  Parked(q)' <=> Parked(q)
      BY <1>1, <1>4, <2>1, <2>4, ParkFrame
    <3>2. ~ Parked(p) /\ ~ Parked(p)'
      BY <1>4 DEF Parked
    <3> QED BY <3>1, <3>2
  <2>7. PlaceInv'
    <3>1. \A e \in Xstreams : cur'[e] \notin pool'
      BY <2>1, <2>3 DEF PlaceInv, Executes
    <3>2. ASSUME NEW q \in Callers, pc'[q] \in {"leave", "suspend"}, ~ Polls(q)'
          PROVE  q \in blocking' /\ q \notin pool'
      <4>1. q # p
        BY <1>4, <3>2 DEF WaitLabels
      <4>2. pc[q] \in {"leave", "suspend"} /\ q # u
        BY <1>4, <2>3, <3>2, <4>1
      <4> QED BY <1>3, <2>1, <3>2, <4>2 DEF PlaceInv
    <3> QED BY <3>1, <3>2 DEF PlaceInv
  <2>8. \A q \in Callers : WaitsNext(q)
    BY <1>4 DEF WaitsNext
  <2>9. Unparks(u)
    BY <1>2, <2>5 DEF Unparks
  <2> QED BY <1>2, <2>5, <2>6, <2>7, <2>8, <2>9 DEF Settled, ParkedNext
<1>6. CASE ~ (~ Polls(u) /\ pc[u] \in {"leave", "suspend", "waiting"})
  <2>1. /\ UNCHANGED schedVars
        /\ \/ signalled' = signalled \cup {u}
           \/ pc[u] \notin {"leave", "poll", "remove", "remove.lock"} /\ UNCHANGED signalled
    BY <1>1, <1>2, <1>6 DEF Release
  <2>2. ~ Polls(u) => pc[u] \notin WaitLabels
    BY <1>6 DEF LabelInv, WaitLabels, Polls
  <2>3. ~ Parked(u)'
    <3>1. CASE u = p
      BY <1>4, <3>1 DEF Parked
    <3>2. CASE u # p /\ ~ Polls(u)
      BY <1>4, <2>2, <3>2 DEF Parked
    <3>3. CASE u # p /\ Polls(u)
      <4>1. pc'[u] = pc[u] /\ pc[u] \notin {"suspend", "waiting"}
        BY <1>4, <3>3 DEF LabelInv
      <4> QED BY <1>3, <2>1, <3>3, <4>1 DEF Parked, WaitLabels
    <3> QED BY <3>1, <3>2, <3>3
  <2>4. \A q \in Callers : Executes(q)' <=> Executes(q)
    BY <2>1 DEF Executes, schedVars
  <2>6. \A q \in Callers \ {u} : Parked(q)' <=> Parked(q)
    <3>1. ASSUME NEW q \in Callers \ {u, p}
          PROVE  Parked(q)' <=> Parked(q)
      <4>1. (q \in pool' <=> q \in pool) /\ (q \in signalled' <=> q \in signalled)
        BY <2>1 DEF schedVars
      <4> QED BY <1>1, <1>4, <2>4, <4>1, ParkFrame
    <3>2. ~ Parked(p) /\ ~ Parked(p)'
      BY <1>4 DEF Parked
    <3> QED BY <3>1, <3>2
  <2>7. PlaceInv'
    <3>1. ASSUME NEW q \in Callers, pc'[q] \in {"leave", "suspend"}, ~ Polls(q)'
          PROVE  q \in blocking' /\ q \notin pool'
      <4>1. q # p
        BY <1>4, <3>1 DEF WaitLabels
      <4> QED BY <1>3, <1>4, <2>1, <3>1, <4>1 DEF PlaceInv, schedVars
    <3> QED BY <2>1, <3>1 DEF PlaceInv, schedVars
  <2>8. \A q \in Callers : WaitsNext(q)
    BY <1>4 DEF WaitsNext
  <2>9. Unparks(u)
    BY <1>2, <2>3 DEF Unparks
  <2> QED BY <1>2, <2>3, <2>6, <2>7, <2>8, <2>9 DEF Settled, ParkedNext
<1> QED BY <1>5, <1>6

LEMMA YieldPlaced ==
  ASSUME CondAssumption, TypeOK, LabelInv, PlaceInv, NEW p \in Callers, Yield(p) \/ End(p)
  PROVE  Settled
<1> USE DEF TypeOK
<1>1. /\ p \in Ults /\ pc[p] \in {"user", "poll", "lock"} /\ UNCHANGED <<pc, op, blocking, signalled>>
      /\ BackToSched(p) /\ (pool' = pool \/ pool' = pool \cup {p})
  BY DEF Yield, End, YieldUlt, Finished, callVars, wakeVars
<1>2. /\ ~ Executes(p)' /\ \A q \in Callers \ {p} : Executes(q)' <=> Executes(q)
      /\ \A e \in Xstreams : cur'[e] # p /\ (cur'[e] = None \/ cur'[e] = cur[e])
  BY <1>1, BackExecutes
<1>3. \A q \in Callers : Polls(q)' <=> Polls(q)
  BY <1>1 DEF Polls
<1>4. \A q \in Callers \ {p} : Parked(q)' <=> Parked(q)
  BY <1>1, <1>2, ParkFrame
<1>5. Parked(p)' <=> Parked(p)
  BY <1>1, <1>3 DEF Parked, WaitLabels, LabelInv
<1>6. PlaceInv'
  <2>1. None \notin pool /\ None # p
    BY DEF CondAssumption, Callers, SchedTypeOK
  <2>2. \A e \in Xstreams : cur'[e] \notin pool'
    BY <1>1, <1>2, <2>1 DEF PlaceInv
  <2>3. ASSUME NEW q \in Callers, pc'[q] \in {"leave", "suspend"}, ~ Polls(q)'
        PROVE  q \in blocking' /\ q \notin pool'
    BY <1>1, <1>3, <2>3 DEF PlaceInv
  <2> QED BY <2>2, <2>3 DEF PlaceInv
<1>7. \A q \in Callers : WaitsNext(q)
  BY <1>1 DEF WaitsNext
<1> QED BY <1>4, <1>5, <1>6, <1>7 DEF Settled, ParkedNext

LEMMA RunPlaced ==
  ASSUME CondAssumption, TypeOK, LabelInv, PlaceInv, NEW e \in Xstreams, NEW t \in Ults, Run(e, t)
  PROVE  Settled
<1> USE DEF TypeOK
<1>1. /\ t \in pool /\ cur[e] = None /\ cur' = [cur EXCEPT ![e] = t] /\ pool' = pool \ {t}
      /\ UNCHANGED <<pc, op, blocking, signalled>>
  BY DEF Run, Dispatch, callVars, wakeVars
<1>2. /\ cur'[e] = t /\ \A f \in Xstreams \ {e} : cur'[f] = cur[f]
      /\ t \in Callers /\ None \notin Callers
  BY <1>1 DEF SchedTypeOK, Callers, CondAssumption
<1>3. Executes(t)' /\ \A q \in Callers \ {t} : Executes(q)' <=> Executes(q)
  BY <1>1, <1>2 DEF Executes
<1>4. \A q \in Callers : Polls(q)' <=> Polls(q)
  BY <1>1 DEF Polls
<1>5. \A q \in Callers \ {t} : Parked(q)' <=> Parked(q)
  BY <1>1, <1>3, ParkFrame
<1>6. Parked(t)' <=> Parked(t)
  <2>1. CASE Polls(t)
    BY <1>1, <1>2, <1>4, <2>1 DEF Parked
  <2>2. CASE ~ Polls(t)
    <3>1. pc[t] \in WaitLabels => pc[t] = "waiting"
      BY <1>1, <1>2, <2>2 DEF PlaceInv, LabelInv, WaitLabels, Polls
    <3> QED BY <1>1, <1>2, <1>3, <1>4, <2>2, <3>1 DEF Parked
  <2> QED BY <2>1, <2>2
<1>7. PlaceInv'
  <2>1. \A f \in Xstreams : cur'[f] \notin pool'
    BY <1>1, <1>2 DEF PlaceInv
  <2>2. ASSUME NEW q \in Callers, pc'[q] \in {"leave", "suspend"}, ~ Polls(q)'
        PROVE  q \in blocking' /\ q \notin pool'
    BY <1>1, <1>4, <2>2 DEF PlaceInv
  <2> QED BY <2>1, <2>2 DEF PlaceInv
<1>8. \A q \in Callers : WaitsNext(q)
  BY <1>1 DEF WaitsNext
<1> QED BY <1>5, <1>6, <1>7, <1>8 DEF Settled, ParkedNext

LEMMA PlaceStep ==
  ASSUME CondAssumption, TypeOK, LabelInv, LockInv, PlaceInv, ParkInv, [Next]_vars
  PROVE  Settled
<1>1. CASE UNCHANGED vars
  <2>1. UNCHANGED <<pc, op, schedVars, signalled>>
    BY <1>1 DEF vars, callVars, wakeVars
  <2>2. \A q \in Callers : (Parked(q)' <=> Parked(q)) /\ (Polls(q)' <=> Polls(q))
    BY <2>1 DEF Parked, Polls, Executes, schedVars
  <2> QED BY <2>1, <2>2 DEF Settled, ParkedNext, WaitsNext, PlaceInv, schedVars
<1> QED BY <1>1, OutsideSteps, WaitSteps, WaitPlaced, SuspendPlaced, WakePlaced, YieldPlaced, RunPlaced
        DEF Next, WaitStep, WakeStep

LEMMA ParkedHow ==
  ASSUME TypeOK, Settled, NEW q \in Callers
  PROVE  \/ Parked(q)' <=> Parked(q)
         \/ pc[q] = "lock" /\ pc'[q] = "leave" /\ Parked(q)'
         \/ /\ pc[q] \in {"remove", "remove.lock"} /\ pc'[q] = "lock" /\ ~ Parked(q)'
            /\ RemoveLocked(q) \/ p_next[q] = None
         \/ ~ Parked(q)' /\ \E p \in Callers : pc[p] = "wake" /\ pc'[p] # "wake" /\ target[p] = q
<1> USE DEF TypeOK
<1>1. Wait(q) => pc[q] = "lock" /\ pc'[q] = "leave"
  BY DEF Wait, Locks, At, Goto
<1>2. (RemoveTest(q) /\ p_next[q] = None) \/ RemoveLocked(q)
        => pc[q] \in {"remove", "remove.lock"} /\ pc'[q] = "lock"
  BY DEF RemoveTest, RemoveLocked, At, Goto
<1>3. \A p \in Callers : Wake(p) => pc[p] = "wake" /\ pc'[p] # "wake"
  BY DEF Wake, At, Goto, Caller
<1> QED BY <1>1, <1>2, <1>3 DEF Settled, ParkedNext, Unparks

(* A step of the waker, while no unit is on its way out of the queue.      *)
LEMMA StillParked ==
  ASSUME TypeOK, Settled, NEW p \in Callers, pc[p] \in {"signal", "broadcast", "detach", "clear"},
         NEW l, pc' = [pc EXCEPT ![p] = l], \A r \in Callers : pc[r] # "wake"
  PROVE  \A q \in Callers : Parked(q)' <=> Parked(q)
<1>1. \A q \in Callers \ {p} : pc'[q] = pc[q]
  BY DEF TypeOK
<1> QED BY <1>1, ParkedHow

LEMMA ParkBy ==
  ASSUME \A q \in Callers : q \in Queued' => Parked(q)',
         \A q \in Callers : Parked(q)' => q \in Queued' \/ \E p \in Callers : pc'[p] = "wake" /\ target'[p] = q,
         \A p \in Callers : pc'[p] = "wake" =>
           \E u \in Callers : target'[p] = u /\ u \notin Queued' /\ (pc'[u] \in WaitLabels => Parked(u)')
  PROVE  ParkInv'
<1>1. \A q \in Queued' : Parked(q)'
  BY DEF Queued
<1>2. ASSUME NEW p \in Callers, pc'[p] = "wake"
      PROVE  target'[p] \notin Queued' /\ (pc'[target'[p]] \in WaitLabels => Parked(target[p])')
  <2>1. PICK u \in Callers : target'[p] = u /\ u \notin Queued' /\ (pc'[u] \in WaitLabels => Parked(u)')
    BY <1>2
  <2>2. Parked(u)' => Parked(target[p])'
    BY <2>1 DEF Parked, Polls, Executes
  <2> QED BY <2>1, <2>2
<1> QED BY <1>1, <1>2 DEF ParkInv

LEMMA ParkStep ==
  ASSUME CondAssumption, TypeOK, LabelInv, LockInv, QueueInv, PlaceInv, ParkInv, [Next]_vars
  PROVE  ParkInv'
<1> USE DEF TypeOK
<1>s. Settled
  BY PlaceStep
<1>q. Queued \in SUBSET Callers /\ \A q \in Callers : q \in Queued <=> p_next[q] # None
  BY DEF Queued
<1>n. lock = None => \A r \in Callers : pc[r] # "wake" /\ pc[r] # "detach"
  BY IdleBefore DEF Busy
<1>o. ASSUME NEW p \in Callers, pc[p] \in {"detach", "clear"}
      PROVE  \A r \in Callers : pc[r] # "wake"
  BY <1>o, OneBusy DEF Busy
<1>1. CASE Quiet /\ ~ \E p \in Callers : ListStep(p)
  <2>1. Queued' = Queued /\ target' = target
    BY <1>1, QuietQueue DEF Quiet
  <2>2. \A p \in Callers : (pc[p] = "wake" <=> pc'[p] = "wake")
    BY <1>1 DEF Quiet, Busy
  <2>3. \A q \in Callers : ~ Wait(q) /\ ~ RemoveLocked(q)
    BY <1>1 DEF ListStep
  <2>4. ASSUME NEW q \in Callers
        PROVE  \/ Parked(q)' <=> Parked(q)
               \/ pc'[q] = "lock" /\ p_next[q] = None /\ ~ Parked(q)'
    <3>1. ~ (\E p \in Callers : pc[p] = "wake" /\ pc'[p] # "wake" /\ target[p] = q)
      BY <2>2
    <3>2. ~ Wait(q) /\ ~ RemoveLocked(q) /\ ParkedNext(q)
      BY <1>s, <2>3 DEF Settled
    <3>3. Unparks(q) => pc'[q] = "lock" /\ p_next[q] = None /\ ~ Parked(q)'
      <4>1. RemoveTest(q) /\ p_next[q] = None => pc'[q] = "lock"
        BY DEF RemoveTest, Goto
      <4>2. \A p \in Callers : Wake(p) => pc[p] = "wake" /\ pc'[p] # "wake"
        BY DEF Wake, At, Goto, Caller
      <4> QED BY <2>2, <3>2, <4>1, <4>2 DEF Unparks
    <3> QED BY <3>2, <3>3 DEF ParkedNext
  <2>5. \A q \in Callers : q \in Queued' => Parked(q)'
    BY <1>q, <2>1, <2>4 DEF ParkInv
  <2>6. ASSUME NEW q \in Callers, Parked(q)'
        PROVE  q \in Queued' \/ \E p \in Callers : pc'[p] = "wake" /\ target'[p] = q
    <3>1. Parked(q)
      BY <2>4, <2>6
    <3> QED BY <2>1, <2>2, <3>1 DEF ParkInv
  <2>7. ASSUME NEW p \in Callers, pc'[p] = "wake"
        PROVE  \E u \in Callers : target'[p] = u /\ u \notin Queued' /\ (pc'[u] \in WaitLabels => Parked(u)')
    <3>1. PICK u \in Callers : u = target[p]
      BY <2>2, <2>7 DEF LockInv
    <3>2. u \notin Queued /\ (pc[u] \in WaitLabels => Parked(u))
      BY <2>2, <2>7, <3>1 DEF ParkInv
    <3>3. pc'[u] \in WaitLabels => pc[u] \in WaitLabels
      BY <1>s, <2>3 DEF Settled, WaitsNext
    <3>4. pc'[u] \in WaitLabels => Parked(u)'
      BY <2>4, <3>2, <3>3 DEF WaitLabels
    <3> QED BY <2>1, <3>1, <3>2, <3>4
  <2> QED BY <2>5, <2>6, <2>7, ParkBy
<1>2. ASSUME NEW p \in Callers, Wait(p)
      PROVE  ParkInv'
  <2>1. Queued' = Queued \cup {p} /\ pc[p] = "lock" /\ pc' = [pc EXCEPT ![p] = "leave"] /\ lock = None
    BY <1>2, WaitQueue DEF Wait, Locks, At, Goto
  <2>2. pc'[p] = "leave" /\ \A q \in Callers \ {p} : pc'[q] = pc[q]
    BY <2>1
  <2>3. \A q \in Callers \ {p} : Parked(q)' <=> Parked(q)
    BY <1>n, <1>s, <2>1, <2>2, ParkedHow
  <2>4. Parked(p)'
    BY <1>2, WaitPlaced
  <2>5. \A r \in Callers : pc'[r] # "wake"
    BY <1>n, <2>1, <2>2
  <2>6. \A q \in Callers : q \in Queued' <=> Parked(q)'
    BY <1>n, <2>1, <2>3, <2>4 DEF ParkInv
  <2> QED BY <2>5, <2>6, ParkBy
<1>3. ASSUME NEW p \in Callers, RemoveLocked(p)
      PROVE  ParkInv'
  <2>1. /\ Queued' = Queued \ {p} /\ pc[p] = "remove.lock" /\ pc' = [pc EXCEPT ![p] = "lock"] /\ lock = None
    BY <1>3, RemoveQueue DEF RemoveLocked, At, Goto
  <2>2. pc'[p] = "lock" /\ \A q \in Callers \ {p} : pc'[q] = pc[q]
    BY <2>1
  <2>3. \A q \in Callers \ {p} : Parked(q)' <=> Parked(q)
    BY <1>n, <1>s, <2>1, <2>2, ParkedHow
  <2>4. ~ Parked(p)'
    BY <2>2 DEF Parked, WaitLabels
  <2>5. \A r \in Callers : pc'[r] # "wake"
    BY <1>n, <2>1, <2>2
  <2>6. \A q \in Callers : q \in Queued' <=> Parked(q)'
    BY <1>n, <2>1, <2>3, <2>4 DEF ParkInv
  <2> QED BY <2>5, <2>6, ParkBy
<1>4. ASSUME NEW p \in Callers, Signal(p)
      PROVE  ParkInv'
  <2>1. /\ Queued' = Queued \ {p_head} /\ p_head \in Queued /\ target' = [target EXCEPT ![p] = p_head]
        /\ pc[p] = "signal" /\ pc' = [pc EXCEPT ![p] = "wake"] /\ lock = None
    BY <1>4, SignalQueue DEF Signal, At, Goto
  <2>2. /\ pc'[p] = "wake" /\ \A q \in Callers \ {p} : pc'[q] = pc[q]
        /\ target'[p] = p_head
    BY <2>1
  <2>3. \A q \in Callers : Parked(q)' <=> Parked(q)
    BY <1>n, <1>s, <2>1, StillParked
  <2>4. \A r \in Callers \ {p} : pc'[r] # "wake"
    BY <1>n, <2>1, <2>2
  <2>5. PICK u \in Callers : u = p_head /\ Parked(u)'
    BY <1>q, <2>1, <2>3 DEF ParkInv
  <2>6. \A q \in Callers : q \in Queued' => Parked(q)'
    BY <1>q, <2>1, <2>3 DEF ParkInv
  <2>7. \A q \in Callers : Parked(q)' => q \in Queued' \/ \E r \in Callers : pc'[r] = "wake" /\ target'[r] = q
    BY <1>n, <2>1, <2>2, <2>3 DEF ParkInv
  <2>8. \A r \in Callers : pc'[r] = "wake" =>
          \E v \in Callers : target'[r] = v /\ v \notin Queued' /\ (pc'[v] \in WaitLabels => Parked(v)')
    BY <2>1, <2>2, <2>4, <2>5
  <2> QED BY <2>6, <2>7, <2>8, ParkBy
<1>5. ASSUME NEW p \in Callers, Broadcast(p)
      PROVE  ParkInv'
  <2>1. Queued' = Queued /\ pc[p] = "broadcast" /\ pc' = [pc EXCEPT ![p] = "detach"] /\ lock = None
    BY <1>5, BroadcastQueue DEF Broadcast, At, Goto
  <2>2. \A q \in Callers : Parked(q)' <=> Parked(q)
    BY <1>n, <1>s, <2>1, StillParked
  <2>3. \A r \in Callers : pc'[r] # "wake"
    BY <1>n, <2>1
  <2>4. \A q \in Callers : q \in Queued' <=> Parked(q)'
    BY <1>n, <1>q, <2>1, <2>2 DEF ParkInv
  <2> QED BY <2>3, <2>4, ParkBy
<1>6. ASSUME NEW p \in Callers, Detach(p)
      PROVE  ParkInv'
  <2>1. /\ Queued' = Queued \ {target[p]} /\ target[p] \in Queued /\ target' = target
        /\ pc[p] = "detach" /\ pc' = [pc EXCEPT ![p] = "wake"]
    BY <1>6, DetachQueue DEF Detach, At, Goto
  <2>2. pc'[p] = "wake" /\ \A q \in Callers \ {p} : pc'[q] = pc[q]
    BY <2>1
  <2>3. \A q \in Callers : Parked(q)' <=> Parked(q)
    BY <1>o, <1>s, <2>1, StillParked
  <2>4. \A r \in Callers \ {p} : pc'[r] # "wake"
    BY <1>o, <2>1, <2>2
  <2>5. PICK u \in Callers : u = target[p] /\ Parked(u)'
    BY <1>q, <2>1, <2>3 DEF ParkInv
  <2>6. \A q \in Callers : q \in Queued' => Parked(q)'
    BY <1>q, <2>1, <2>3 DEF ParkInv
  <2>7. \A q \in Callers : Parked(q)' => q \in Queued' \/ \E r \in Callers : pc'[r] = "wake" /\ target'[r] = q
    BY <1>o, <2>1, <2>2, <2>3 DEF ParkInv
  <2>8. \A r \in Callers : pc'[r] = "wake" =>
          \E v \in Callers : target'[r] = v /\ v \notin Queued' /\ (pc'[v] \in WaitLabels => Parked(v)')
    BY <2>1, <2>2, <2>4, <2>5
  <2> QED BY <2>6, <2>7, <2>8, ParkBy
<1>7. ASSUME NEW p \in Callers, Wake(p)
      PROVE  ParkInv'
  <2>1. /\ Queued' = Queued /\ pc[p] = "wake"
        /\ \E l \in {"user", "unlock", "clear", "detach"} : pc' = [pc EXCEPT ![p] = l]
    BY <1>7, WakeQueue DEF Wake, At, Goto, Caller
  <2>2. /\ pc'[p] \in {"user", "unlock", "clear", "detach"} /\ \A q \in Callers \ {p} : pc'[q] = pc[q]
        /\ \A r \in Callers \ {p} : pc[r] # "wake"
    BY <2>1, OneBusy DEF Busy
  <2>3. \A q \in Callers : q # target[p] => (Parked(q)' <=> Parked(q))
    <3>1. ~ Parked(p) /\ ~ Parked(p)'
      BY <2>1, <2>2 DEF Parked, WaitLabels
    <3>2. \A q \in Callers \ {p} : q # target[p] => (Parked(q)' <=> Parked(q))
      BY <1>s, <2>2, ParkedHow
    <3> QED BY <3>1, <3>2
  <2>4. PICK u \in Callers : u = target[p] /\ ~ Parked(u)'
    BY <1>7, WakePlaced
  <2>6. u \notin Queued
    BY <2>1, <2>4 DEF ParkInv
  <2>7. \A r \in Callers : pc'[r] # "wake"
    BY <2>2
  <2>8. \A q \in Callers : q \in Queued' => Parked(q)'
    BY <1>q, <2>1, <2>3, <2>4, <2>6 DEF ParkInv
  <2>9. \A q \in Callers : Parked(q)' => q \in Queued'
    BY <2>1, <2>2, <2>3, <2>4 DEF ParkInv
  <2> QED BY <2>7, <2>8, <2>9, ParkBy
<1>8. ASSUME NEW p \in Callers, Clear(p)
      PROVE  ParkInv'
  <2>1. /\ Queued' = Queued /\ Queued = {} /\ pc[p] = "clear"
        /\ \E l \in {"user", "unlock"} : pc' = [pc EXCEPT ![p] = l]
    BY <1>8, ClearQueue DEF Clear, At, Goto, Caller
  <2>2. \A q \in Callers : Parked(q)' <=> Parked(q)
    BY <1>o, <1>s, <2>1, StillParked
  <2>3. \A r \in Callers : pc'[r] # "wake"
    BY <1>o, <2>1
  <2>4. \A q \in Callers : q \in Queued' <=> Parked(q)'
    BY <1>o, <1>q, <2>1, <2>2 DEF ParkInv
  <2> QED BY <2>3, <2>4, ParkBy
<1> QED BY <1>1, <1>2, <1>3, <1>4, <1>5, <1>6, <1>7, <1>8, QuietStep DEF ListStep
-----------------------------------------------------------------------------
(* Types.                                                                  *)

PlaceType == SchedTypeOK /\ signalled \in SUBSET Callers

CallType ==
  /\ prog \in Programs
  /\ pc \in [Callers -> Labels] /\ op \in [Callers -> Ops \cup {"rwunlock", "timedout"}]
  /\ calls \in [Callers -> Nat]
  /\ owner \in Callers \cup {None} /\ lock \in Callers \cup {None}

QueueType ==
  /\ p_next \in [Callers -> Callers \cup {None}] /\ p_prev \in [Callers -> Callers \cup {None}]
  /\ p_head \in Callers \cup {None} /\ p_tail \in Callers \cup {None}
  /\ num_waiters \in 0..Cardinality(Callers)
  /\ target \in [Callers -> Callers \cup {None}] /\ next \in [Callers -> Callers \cup {None}]

DataType ==
  /\ reader_count \in 0..Cardinality(Callers) /\ write_flag \in {0, 1}
  /\ mode \in [Callers -> {"no", "rd", "wr"}] /\ items \in Nat

LEMMA TypeParts == TypeOK <=> PlaceType /\ CallType /\ QueueType /\ DataType
BY DEF TypeOK, PlaceType, CallType, QueueType, DataType

LEMMA PlaceTypeStep ==
  ASSUME CondAssumption, TypeOK, LockInv, [Next]_vars
  PROVE  PlaceType'
<1> USE DEF TypeOK, SchedTypeOK
<1>1. CASE UNCHANGED <<schedVars, signalled>>
  BY <1>1 DEF PlaceType, schedVars
<1>2. ASSUME NEW p \in Callers, Wait(p)
      PROVE  PlaceType'
  <2>1. ~ Polls(p) => p \in Ults
    BY DEF Polls, Callers
  <2> QED BY <1>2, <2>1 DEF Wait, SetBlocked, PlaceType, schedVars
<1>3. ASSUME NEW p \in Callers, Suspend(p)
      PROVE  PlaceType'
  <2>1. cur' = [e \in Xstreams |-> IF cur[e] = p THEN None ELSE cur[e]]
    BY <1>3 DEF Suspend, SuspendUlt, BackToSched
  <2>2. cur' \in [Xstreams -> Ults \cup {None}]
    BY <2>1
  <2> QED BY <1>3, <2>2 DEF Suspend, SuspendUlt, PlaceType, wakeVars
<1>4. ASSUME NEW p \in Callers, Wake(p)
      PROVE  PlaceType'
  <2>1. target[p] \in Callers /\ Release(target[p])
    BY <1>4 DEF Wake, At, LockInv
  <2>2. ~ Polls(target[p]) => target[p] \in Ults
    BY <2>1 DEF Polls, Callers
  <2> QED BY <2>1, <2>2 DEF Release, SetReady, PlaceType, schedVars
<1>5. ASSUME NEW p \in Callers, Yield(p) \/ End(p)
      PROVE  PlaceType'
  <2>1. cur' = [e \in Xstreams |-> IF cur[e] = p THEN None ELSE cur[e]]
    BY <1>5 DEF Yield, End, YieldUlt, BackToSched
  <2>2. cur' \in [Xstreams -> Ults \cup {None}]
    BY <2>1
  <2> QED BY <1>5, <2>2 DEF Yield, End, YieldUlt, PlaceType, wakeVars
<1>6. ASSUME NEW e \in Xstreams, NEW t \in Ults, Run(e, t)
      PROVE  PlaceType'
  BY <1>6 DEF Run, Dispatch, PlaceType, wakeVars
<1>7. \/ UNCHANGED <<schedVars, signalled>>
      \/ \E p \in Callers : Wait(p) \/ Suspend(p) \/ Wake(p) \/ Yield(p) \/ End(p)
      \/ \E e \in Xstreams, t \in Ults : Run(e, t)
  BY DEF Next, CallStep, WaitStep, WakeStep, LockedStep, Call, WaitUnlock, Woken, TimeOut,
         RemoveTest, RemoveLocked, Nobody, Signal, Broadcast, Detach, Clear, Unlock, RdLock, WrLock,
         RwUnlock, Take, GiveUp, Put, vars, wakeVars
<1> QED BY <1>1, <1>2, <1>3, <1>4, <1>5, <1>6, <1>7

LEMMA CallTypeStep ==
  ASSUME CondAssumption, TypeOK, [Next]_vars
  PROVE  CallType'
<1> USE DEF TypeOK
<1>1. CASE \/ UNCHANGED vars \/ \E e \in Xstreams, t \in Ults : Run(e, t)
           \/ \E p \in Callers : Yield(p) \/ End(p)
  BY <1>1 DEF vars, Run, Yield, End, callVars, CallType
<1>2. ASSUME NEW p \in Callers, CallStep(p)
      PROVE  CallType'
  <2>1. PICK o \in Ops \cup {"rwunlock"} : Call(p, o)
    BY <1>2 DEF CallStep
  <2> QED BY <2>1 DEF Call, Goto, Labels, CallType
<1>3. ASSUME NEW p \in Callers, WaitStep(p)
      PROVE  CallType'
  <2>1. /\ UNCHANGED <<prog, calls, lock>> /\ owner' \in {owner, p, None}
        /\ op' = op \/ op' = [op EXCEPT ![p] = "timedout"]
    BY <1>3 DEF WaitStep, Wait, WaitUnlock, Suspend, Woken, TimeOut, RemoveTest, RemoveLocked
  <2>2. \E l \in Labels : pc' = [pc EXCEPT ![p] = l]
    <3>1. CASE Wait(p) \/ WaitUnlock(p) \/ Suspend(p) \/ Woken(p)
      BY <3>1 DEF Wait, WaitUnlock, Suspend, Woken, Goto, Labels
    <3>2. CASE TimeOut(p) \/ RemoveTest(p) \/ RemoveLocked(p)
      BY <3>2 DEF TimeOut, RemoveTest, RemoveLocked, Goto, Labels
    <3> QED BY <1>3, <3>1, <3>2 DEF WaitStep
  <2> QED BY <2>1, <2>2 DEF CallType
<1>4. ASSUME NEW p \in Callers, WakeStep(p)
      PROVE  CallType'
  <2>1. UNCHANGED <<prog, calls, owner, op>> /\ lock' \in {lock, p, None}
    BY <1>4 DEF WakeStep, Nobody, Signal, Broadcast, Detach, Wake, Clear
  <2>2. \E l \in Labels : pc' = [pc EXCEPT ![p] = l]
    <3>1. CASE Nobody(p) \/ Clear(p)
      BY <3>1 DEF Nobody, Clear, Goto, Caller, Labels
    <3>2. CASE Signal(p) \/ Broadcast(p) \/ Detach(p)
      BY <3>2 DEF Signal, Broadcast, Detach, Goto, Labels
    <3>3. CASE Wake(p)
      BY <3>3 DEF Wake, Goto, Caller, Labels
    <3> QED BY <1>4, <3>1, <3>2, <3>3 DEF WakeStep
  <2> QED BY <2>1, <2>2 DEF CallType
<1>5. ASSUME NEW p \in Callers, LockedStep(p)
      PROVE  CallType'
  <2>1. /\ UNCHANGED <<prog, calls, lock, op>> /\ owner' \in {owner, p, None}
    BY <1>5 DEF LockedStep, Unlock, RdLock, WrLock, RwUnlock, Take, GiveUp, Put
  <2>2. \E l \in Labels : pc' = [pc EXCEPT ![p] = l]
    BY <1>5 DEF LockedStep, Unlock, RdLock, WrLock, RwUnlock, Take, GiveUp, Put, Goto, Labels
  <2> QED BY <2>1, <2>2 DEF CallType
<1> QED BY <1>1, <1>2, <1>3, <1>4, <1>5 DEF Next

LEMMA QueueTypeStep ==
  ASSUME CondAssumption, TypeOK, LockInv, QueueInv, ParkInv, [Next]_vars
  PROVE  QueueType'
<1> USE DEF TypeOK
<1>f. /\ IsFiniteSet(Callers) /\ Cardinality(Callers) \in Nat
      /\ \A S \in SUBSET Callers : Cardinality(S) <= Cardinality(Callers)
  BY FS_Subset, FS_CardinalityType DEF CondAssumption
<1>1. CASE Quiet
  BY <1>1 DEF Quiet, QueueType
<1>2. ASSUME NEW p \in Callers, Wait(p)
      PROVE  QueueType'
  <2>1. Whole' /\ Queued' \in SUBSET Callers
    BY <1>2, WaitQueue DEF Wait, QueueInv, Queued
  <2>2. num_waiters' \in 0..Cardinality(Callers)
    BY <1>2, <1>f, <2>1 DEF Wait, Whole
  <2>3. p_next' \in [Callers -> Callers \cup {None}] /\ p_prev' \in [Callers -> Callers \cup {None}]
    BY <1>2 DEF Wait
  <2> QED BY <1>2, <2>2, <2>3 DEF Wait, QueueType
<1>3. ASSUME NEW u \in Queued, Unlink(u), num_waiters # 0
      PROVE  /\ p_next' \in [Callers -> Callers \cup {None}] /\ p_prev' \in [Callers -> Callers \cup {None}]
             /\ p_head' \in Callers \cup {None} /\ p_tail' \in Callers \cup {None}
             /\ num_waiters' \in 0..Cardinality(Callers)
  <2>1. u \in Callers
    BY DEF Queued
  <2>2. p_next' \in [Callers -> Callers \cup {None}]
    BY <1>3, <2>1 DEF Unlink
  <2>3. p_prev' \in [Callers -> Callers \cup {None}]
    BY <1>3, <2>1 DEF Unlink
  <2>4. p_head' \in Callers \cup {None} /\ p_tail' \in Callers \cup {None}
    BY <1>3, <2>1 DEF Unlink
  <2>5. num_waiters' \in 0..Cardinality(Callers)
    BY <1>3, <1>f DEF Unlink
  <2> QED BY <2>2, <2>3, <2>4, <2>5
<1>4. ASSUME NEW p \in Callers, RemoveLocked(p)
      PROVE  QueueType'
  <2>1. UNCHANGED <<target, next>> /\ IF p_next[p] = None THEN UNCHANGED listVars ELSE Unlink(p)
    BY <1>4 DEF RemoveLocked, wakeVars
  <2>2. CASE p_next[p] = None
    BY <2>1, <2>2 DEF QueueType, listVars
  <2>3. CASE p_next[p] # None
    <3>1. p \in Queued /\ Whole
      BY <1>4, <2>3, IdleBefore DEF RemoveLocked, Queued
    <3>2. num_waiters # 0
      BY <3>1, QueuedFinite DEF Whole
    <3> QED BY <1>3, <2>1, <2>3, <3>1, <3>2 DEF QueueType
  <2> QED BY <2>2, <2>3
<1>5. ASSUME NEW p \in Callers, Signal(p)
      PROVE  QueueType'
  <2>1. /\ Unlink(p_head) /\ num_waiters # 0 /\ lock = None /\ next' = next
        /\ target' = [target EXCEPT ![p] = p_head]
    BY <1>5 DEF Signal
  <2>2. p_head \in Queued
    BY <2>1, IdleBefore, HeadQueued
  <2>3. target' \in [Callers -> Callers \cup {None}]
    BY <2>1
  <2> QED BY <1>3, <2>1, <2>2, <2>3 DEF QueueType
<1>6. ASSUME NEW p \in Callers, Broadcast(p) \/ Clear(p)
      PROVE  QueueType'
  BY <1>6, <1>f DEF Broadcast, Clear, listVars, wakeVars, QueueType
<1>7. ASSUME NEW p \in Callers, Detach(p)
      PROVE  QueueType'
  <2>1. target[p] \in Callers
    BY <1>7 DEF Detach, At, LockInv
  <2> QED BY <1>7, <2>1 DEF Detach, QueueType
<1>8. ASSUME NEW p \in Callers, Wake(p)
      PROVE  QueueType'
  <2>1. target' \in [Callers -> Callers \cup {None}] /\ next' \in [Callers -> Callers \cup {None}]
    BY <1>8 DEF Wake
  <2> QED BY <1>8, <2>1 DEF Wake, listVars, QueueType
<1> QED BY <1>1, <1>2, <1>4, <1>5, <1>6, <1>7, <1>8, QuietStep DEF ListStep

LEMMA DataTypeStep ==
  ASSUME CondAssumption, TypeOK, RwExclusion', [Next]_vars
  PROVE  DataType'
<1> USE DEF TypeOK
<1>1. /\ write_flag' \in {0, 1} /\ mode' \in [Callers -> {"no", "rd", "wr"}] /\ items' \in Nat
  <2>1. CASE UNCHANGED dataVars
    BY <2>1 DEF dataVars
  <2>2. ASSUME NEW p \in Callers, LockedStep(p)
        PROVE  /\ write_flag' \in {0, 1} /\ mode' \in [Callers -> {"no", "rd", "wr"}] /\ items' \in Nat
    BY <2>2 DEF LockedStep, Unlock, RdLock, WrLock, RwUnlock, Take, GiveUp, Put, dataVars
  <2>3. UNCHANGED dataVars \/ \E p \in Callers : LockedStep(p)
    BY DEF Next, CallStep, WaitStep, WakeStep, Call, Wait, WaitUnlock, Suspend, Woken, TimeOut,
           RemoveTest, RemoveLocked, Nobody, Signal, Broadcast, Detach, Wake, Clear, Yield, End, Run, vars
  <2> QED BY <2>1, <2>2, <2>3
<1>2. reader_count' \in 0..Cardinality(Callers)
  <2>1. PICK R \in SUBSET Callers : reader_count' = Cardinality(R)
    BY DEF RwExclusion
  <2>2. IsFiniteSet(R) /\ Cardinality(R) <= Cardinality(Callers) /\ IsFiniteSet(Callers)
    BY FS_Subset DEF CondAssumption
  <2> QED BY <2>1, <2>2, FS_CardinalityType
<1> QED BY <1>1, <1>2 DEF DataType
-----------------------------------------------------------------------------
(* The items.                                                              *)

Takers == {"take", "timed", "timedout"}

Coming == {p \in Callers : OnTheWay(p)}

Due == items + (IF lock # None /\ Items THEN 1 ELSE 0)

SignalInv == (\E p \in Callers : Waits(p)) => Due <= Cardinality(Coming)

LEMMA WaitsParked ==
  ASSUME NEW q \in Callers
  PROVE  /\ Waits(q) <=> Parked(q) /\ \A r \in Callers : target[r] # q
         /\ Waits(q)' <=> Parked(q)' /\ \A r \in Callers : target'[r] # q
<1>1. Waits(q) <=> Parked(q) /\ \A r \in Callers : target[r] # q
  BY DEF Waits, Parked, WaitLabels
<1>2. Waits(q)' <=> Parked(q)' /\ \A r \in Callers : target'[r] # q
  BY DEF Waits, Parked, WaitLabels
<1> QED BY <1>1, <1>2

LEMMA Counts ==
  ASSUME CondAssumption, NEW A \in SUBSET Callers, NEW B \in SUBSET Callers, NEW p \in Callers
  PROVE  /\ Cardinality(A) \in Nat /\ Cardinality(B) \in Nat
         /\ A \subseteq B => Cardinality(A) <= Cardinality(B)
         /\ A \ {p} \subseteq B => Cardinality(A) <= Cardinality(B) + 1
         /\ p \notin A /\ A \cup {p} \subseteq B => Cardinality(A) + 1 <= Cardinality(B)
<1>1. IsFiniteSet(A) /\ IsFiniteSet(B)
  BY FS_Subset DEF CondAssumption
<1>2. Cardinality(A) \in Nat /\ Cardinality(B) \in Nat
  BY <1>1, FS_CardinalityType
<1>3. A \subseteq B => Cardinality(A) <= Cardinality(B)
  BY <1>1, FS_Subset
<1>4. ASSUME A \ {p} \subseteq B
      PROVE  Cardinality(A) <= Cardinality(B) + 1
  <2>1. Cardinality(A \ {p}) <= Cardinality(B)
    BY <1>1, <1>4, FS_Subset
  <2>2. Cardinality(A \ {p}) = IF p \in A THEN Cardinality(A) - 1 ELSE Cardinality(A)
    BY <1>1, FS_RemoveElement
  <2> QED BY <1>2, <2>1, <2>2
<1>5. ASSUME p \notin A, A \cup {p} \subseteq B
      PROVE  Cardinality(A) + 1 <= Cardinality(B)
  <2>1. Cardinality(A \cup {p}) <= Cardinality(B)
    BY <1>1, <1>5, FS_Subset
  <2>2. Cardinality(A \cup {p}) = Cardinality(A) + 1
    BY <1>1, <1>5, FS_AddElement
  <2> QED BY <2>1, <2>2
<1> QED BY <1>2, <1>3, <1>4, <1>5

(* Who is on the way stays there, unless he is through.                    *)
LEMMA StaysOnTheWay ==
  ASSUME NEW q \in Callers, Waits(q)' => Waits(q), OnTheWay(q),
         \/ pc'[q] = pc[q] /\ op'[q] = op[q]
         \/ op[q] \in Takers /\ op'[q] \in Takers /\ pc'[q] # "user"
  PROVE  OnTheWay(q)'
BY DEF OnTheWay, Takers

(* A step in which nothing happens to the items.                           *)
LEMMA CalmStep ==
  ASSUME CondAssumption, TypeOK, SignalInv, UNCHANGED <<items, lock>>, Items' <=> Items,
         \A q \in Callers : Waits(q)' => Waits(q),
         \A q \in Callers : \/ pc'[q] = pc[q] /\ op'[q] = op[q]
                            \/ op[q] \in Takers /\ op'[q] \in Takers /\ pc'[q] # "user"
                            \/ ~ OnTheWay(q)
  PROVE  SignalInv'
<1>1. Coming \subseteq Coming'
  BY StaysOnTheWay DEF Coming
<1>2. Coming \in SUBSET Callers /\ Coming' \in SUBSET Callers
  BY DEF Coming
<1>3. Due' = Due /\ Due \in Nat
  BY DEF Due, TypeOK
<1>4. SUFFICES ASSUME NEW p \in Callers, Waits(p)' PROVE Due' <= Cardinality(Coming)'
  BY DEF SignalInv
<1>5. Due <= Cardinality(Coming)
  BY <1>4 DEF SignalInv
<1>6. Cardinality(Coming) <= Cardinality(Coming') /\ Cardinality(Coming) \in Nat /\ Cardinality(Coming') \in Nat
  BY <1>1, <1>2, <1>4, Counts
<1> QED BY <1>3, <1>5, <1>6

(* What the state says of a program with items.                            *)
LEMMA ItemsState ==
  ASSUME CondAssumption, TypeOK, LabelInv, LockInv, UseInv, Items
  PROVE  /\ \A q \in Callers : /\ op[q] \in Takers \cup {"put"}
                               /\ pc[q] \in WaitLabels => op[q] \in Takers
                               /\ pc[q] \notin {"detach", "clear", "broadcast"}
                               /\ pc[q] \in {"signal", "wake", "unlock"} => op[q] = "put"
                               /\ mode[q] = "no"
         /\ lock # None => lock \in Callers /\ pc[lock] = "wake" /\ op[lock] = "put"
<1>1. \A q \in Callers : op[q] \in Takers \cup {"put"} /\ mode[q] = "no"
  BY DEF UseInv, Takers
<1>2. \A q \in Callers : /\ pc[q] \in WaitLabels => op[q] \in Takers
                         /\ pc[q] \notin {"detach", "clear", "broadcast"}
                         /\ pc[q] \in {"signal", "wake", "unlock"} => op[q] = "put"
  BY <1>1 DEF LabelInv, WaitOps, Takers
<1>3. lock # None => lock \in Callers /\ pc[lock] \in Busy
  BY DEF LockInv, TypeOK
<1> QED BY <1>1, <1>2, <1>3 DEF Busy

LEMMA SignalStep ==
  ASSUME CondAssumption, TypeOK, LabelInv, LockInv, QueueInv, PlaceInv, ParkInv, UseInv, SignalInv,
         Items, [Next]_vars
  PROVE  SignalInv'
<1> USE DEF TypeOK
<1>s. Settled /\ (Items' <=> Items)
  BY PlaceStep, SameUse
<1>i. /\ \A q \in Callers : /\ op[q] \in Takers \cup {"put"}
                            /\ pc[q] \in WaitLabels => op[q] \in Takers
                            /\ pc[q] \notin {"detach", "clear", "broadcast"}
                            /\ pc[q] \in {"signal", "wake", "unlock"} => op[q] = "put"
                            /\ mode[q] = "no"
      /\ lock # None => lock \in Callers /\ pc[lock] = "wake" /\ op[lock] = "put"
  BY ItemsState
<1>c. Coming \in SUBSET Callers /\ Coming' \in SUBSET Callers
  BY DEF Coming
<1>w. ASSUME target' = target, \A q \in Callers : ~ Wait(q)
      PROVE  \A q \in Callers : Waits(q)' => Waits(q)
  BY <1>s, <1>w, WaitsParked DEF Settled, ParkedNext, Unparks
<1>1. CASE \/ UNCHANGED vars \/ \E e \in Xstreams, t \in Ults : Run(e, t)
           \/ \E p \in Callers : Yield(p) \/ End(p)
  <2>1. UNCHANGED <<pc, op, lock, target, items>>
    BY <1>1 DEF vars, Run, Yield, End, callVars, wakeVars, dataVars
  <2>2. \A q \in Callers : ~ Wait(q)
    BY <2>1 DEF Wait, Locks, At, Goto
  <2> QED BY <1>s, <1>w, <2>1, <2>2, CalmStep
<1>2. ASSUME NEW p \in Callers, CallStep(p)
      PROVE  SignalInv'
  <2>1. PICK o \in Ops \cup {"rwunlock"} : Call(p, o)
    BY <1>2 DEF CallStep
  <2>2. /\ pc[p] = "user" /\ pc' = [pc EXCEPT ![p] = "lock"] /\ op' = [op EXCEPT ![p] = o]
        /\ UNCHANGED <<lock, target, items>>
    BY <2>1 DEF Call, At, Goto, wakeVars, dataVars
  <2>3. \A q \in Callers : ~ Wait(q)
    BY <2>2 DEF Wait, Locks, At, Goto
  <2>4. ~ OnTheWay(p)
    BY <2>2 DEF OnTheWay
  <2> QED BY <1>s, <1>w, <2>2, <2>3, <2>4, CalmStep
<1>3. ASSUME NEW p \in Callers,
             WaitUnlock(p) \/ Suspend(p) \/ Woken(p) \/ TimeOut(p) \/ RemoveTest(p) \/ RemoveLocked(p)
      PROVE  SignalInv'
  <2>1. /\ pc[p] \in WaitLabels /\ UNCHANGED <<lock, target, items>>
        /\ \E l \in Labels \ {"user", "leave"} : pc' = [pc EXCEPT ![p] = l]
        /\ op' = op \/ op' = [op EXCEPT ![p] = "timedout"]
    <3>1. CASE WaitUnlock(p)
      <4>1. /\ pc[p] = "leave" /\ UNCHANGED <<op, lock, target, items>>
            /\ pc' = [pc EXCEPT ![p] = "poll"] \/ pc' = [pc EXCEPT ![p] = "suspend"]
        BY <3>1 DEF WaitUnlock, At, Goto, wakeVars, dataVars
      <4>2. {"poll", "suspend"} \subseteq Labels \ {"user", "leave"} /\ pc[p] \in WaitLabels
        BY <4>1 DEF Labels, WaitLabels
      <4> QED BY <4>1, <4>2
    <3>2. CASE Suspend(p)
      BY <3>2 DEF Suspend, At, Goto, Labels, WaitLabels, wakeVars, dataVars
    <3>3. CASE Woken(p)
      BY <3>3 DEF Woken, At, Goto, Labels, WaitLabels, wakeVars, dataVars
    <3>4. CASE TimeOut(p)
      BY <3>4 DEF TimeOut, At, Goto, Labels, WaitLabels, wakeVars, dataVars
    <3>5. CASE RemoveTest(p)
      BY <3>5 DEF RemoveTest, At, Goto, Labels, WaitLabels, wakeVars, dataVars
    <3>6. CASE RemoveLocked(p)
      BY <3>6 DEF RemoveLocked, At, Goto, Labels, WaitLabels, wakeVars, dataVars
    <3> QED BY <1>3, <3>1, <3>2, <3>3, <3>4, <3>5, <3>6
  <2>2. /\ op[p] \in Takers /\ op'[p] \in Takers /\ pc'[p] \notin {"user", "leave"}
        /\ \A q \in Callers \ {p} : pc'[q] = pc[q] /\ op'[q] = op[q]
    BY <1>i, <2>1 DEF Takers
  <2>3. \A q \in Callers : ~ Wait(q)
    BY <2>2 DEF Wait, Locks, At, Goto
  <2> QED BY <1>s, <1>w, <2>1, <2>2, <2>3, CalmStep
<1>4. ASSUME NEW p \in Callers, Unlock(p)
      PROVE  SignalInv'
  <2>1. /\ pc[p] = "unlock" /\ pc' = [pc EXCEPT ![p] = "user"] /\ UNCHANGED <<op, lock, target, items>>
    BY <1>4 DEF Unlock, At, Goto, wakeVars, dataVars
  <2>2. \A q \in Callers : ~ Wait(q)
    BY <2>1 DEF Wait, Locks, At, Goto
  <2>3. ~ OnTheWay(p)
    BY <1>i, <2>1 DEF OnTheWay
  <2> QED BY <1>s, <1>w, <2>1, <2>2, <2>3, CalmStep
<1>5. ASSUME NEW p \in Callers, Wait(p)
      PROVE  SignalInv'
  <2>1. UNCHANGED <<items, lock>> /\ lock = None /\ items = 0
    <3>1. MustWait(p) /\ UNCHANGED <<items, lock>> /\ lock = None /\ pc[p] = "lock"
      BY <1>5 DEF Wait, Locks, At, dataVars
    <3>2. op[p] \in {"take", "timed", "timedout", "put"}
      BY <1>i DEF Takers
    <3> QED BY <3>1, <3>2 DEF MustWait
  <2>2. Due' = 0
    BY <2>1 DEF Due
  <2> QED BY <1>c, <1>5, <2>2, Counts DEF SignalInv
<1>6. ASSUME NEW p \in Callers, Signal(p)
      PROVE  SignalInv'
  <2>1. /\ Queued' = Queued \ {p_head} /\ p_head \in Queued /\ target' = [target EXCEPT ![p] = p_head]
        /\ pc[p] = "signal" /\ pc' = [pc EXCEPT ![p] = "wake"] /\ UNCHANGED <<op, items>> /\ lock = None
        /\ lock' = p
    BY <1>6, SignalQueue DEF Signal, At, Goto, dataVars
  <2>2. /\ pc'[p] = "wake" /\ \A q \in Callers \ {p} : pc'[q] = pc[q]
    BY <2>1
  <2>3. \A r \in Callers : pc[r] # "wake" /\ target[r] = None
    BY <2>1, IdleBefore DEF Busy
  <2>4. \A q \in Callers : Parked(q)' <=> Parked(q)
    BY <1>s, <2>1, <2>3, StillParked
  <2>5. \A q \in Callers : Waits(q)' => Waits(q)
    BY <2>3, <2>4, WaitsParked DEF CondAssumption
  <2>6. PICK u \in Callers : u = p_head
    BY <2>1 DEF Queued
  <2>7. Parked(u) /\ u # p /\ pc[u] \in WaitLabels /\ target'[p] = u
    BY <2>1, <2>6 DEF ParkInv, Parked, WaitLabels
  <2>8. Waits(u) /\ ~ Waits(u)'
    BY <2>3, <2>7, WaitsParked DEF CondAssumption
  <2>9. u \notin Coming /\ u \in Coming'
    <3>1. op[u] \in Takers /\ op'[u] = op[u] /\ pc'[u] = pc[u]
      BY <1>i, <2>1, <2>2, <2>7
    <3> QED BY <2>7, <2>8, <3>1 DEF Coming, OnTheWay, Takers, WaitLabels
  <2>10. Coming \subseteq Coming'
    <3>1. OnTheWay(p)'
      BY <1>i, <2>1, <2>2 DEF OnTheWay
    <3>2. \A q \in Callers \ {p} : OnTheWay(q) => OnTheWay(q)'
      BY <2>1, <2>2, <2>5, StaysOnTheWay
    <3> QED BY <3>1, <3>2 DEF Coming
  <2>11. Cardinality(Coming) + 1 <= Cardinality(Coming')
    BY <1>c, <2>9, <2>10, Counts
  <2>12. Due <= Cardinality(Coming) /\ Due' = Due + 1 /\ Due \in Nat
    BY <1>s, <2>1, <2>8 DEF SignalInv, Due, CondAssumption
  <2>13. Cardinality(Coming) \in Nat /\ Cardinality(Coming') \in Nat
    BY <1>c, <1>6, Counts
  <2> QED BY <2>11, <2>12, <2>13 DEF SignalInv
<1>7. ASSUME NEW p \in Callers, Nobody(p)
      PROVE  SignalInv'
  <2>1. /\ pc[p] \in {"signal", "broadcast"} /\ lock = None /\ num_waiters = 0
        /\ \E l \in {"user", "unlock"} : pc' = [pc EXCEPT ![p] = l]
    BY <1>7 DEF Nobody, Goto, Caller
  <2>2. Queued = {} /\ \A r \in Callers : pc[r] # "wake"
    BY <2>1, IdleBefore, QueuedFinite DEF Busy, Whole
  <2>3. \A q \in Callers : Parked(q)' <=> Parked(q)
    BY <1>s, <2>1, <2>2, StillParked
  <2>4. \A q \in Callers : ~ Waits(q)'
    BY <2>2, <2>3, WaitsParked DEF ParkInv
  <2> QED BY <2>4 DEF SignalInv
<1>8. ASSUME NEW p \in Callers, Wake(p)
      PROVE  SignalInv'
  <2>1. /\ pc[p] = "wake" /\ op[p] = "put" /\ UNCHANGED <<op, items>> /\ lock' = None
        /\ target' = [target EXCEPT ![p] = None] /\ \E l \in {"user", "unlock"} : pc' = [pc EXCEPT ![p] = l]
    BY <1>8, <1>i DEF Wake, At, Goto, Caller, dataVars
  <2>2. lock = p /\ \A r \in Callers \ {p} : pc[r] # "wake" /\ target[r] = None
    BY <2>1, OneBusy DEF Busy
  <2>3. PICK u \in Callers : u = target[p] /\ ~ Parked(u)'
    BY <1>8, WakePlaced
  <2>4. /\ pc'[p] \in {"user", "unlock"} /\ \A q \in Callers \ {p} : pc'[q] = pc[q]
        /\ \A r \in Callers \ {p} : target'[r] = target[r]
    BY <2>1
  <2>5. \A q \in Callers : Waits(q)' => Waits(q)
    <3>1. ASSUME NEW q \in Callers, q # u, Parked(q)'
          PROVE  Parked(q)
      BY <1>s, <2>1, <2>2, <2>3, <2>4, <3>1, ParkedHow
    <3>2. \A q \in Callers : q # u => \A r \in Callers : target[r] # q
      BY <2>2, <2>3 DEF CondAssumption
    <3> QED BY <2>3, <3>1, <3>2, WaitsParked
  <2>6. Coming \ {p} \subseteq Coming'
    <3>1. \A q \in Callers \ {p} : OnTheWay(q) => OnTheWay(q)'
      BY <2>1, <2>4, <2>5, StaysOnTheWay
    <3> QED BY <3>1 DEF Coming
  <2>7. SUFFICES ASSUME NEW q \in Callers, Waits(q)' PROVE Due' <= Cardinality(Coming)'
    BY DEF SignalInv
  <2>8. Due <= Cardinality(Coming)
    BY <2>5, <2>7 DEF SignalInv
  <2>9. Due = Due' + 1 /\ Due' \in Nat
    BY <1>s, <2>1, <2>2 DEF Due, CondAssumption
  <2>10. /\ Cardinality(Coming) \in Nat /\ Cardinality(Coming') \in Nat
         /\ Cardinality(Coming) <= Cardinality(Coming') + 1
    BY <1>c, <2>6, Counts
  <2> QED BY <2>8, <2>9, <2>10
<1>9. ASSUME NEW p \in Callers, Put(p)
      PROVE  SignalInv'
  <2>1. /\ pc[p] = "lock" /\ op[p] = "put" /\ pc' = [pc EXCEPT ![p] = "signal"] /\ UNCHANGED <<op, lock, target>>
        /\ items' = items + 1
    BY <1>9 DEF Put, Locks, At, Goto, wakeVars
  <2>2. /\ pc'[p] = "signal" /\ \A q \in Callers \ {p} : pc'[q] = pc[q]
    BY <2>1
  <2>3. \A q \in Callers : ~ Wait(q)
    BY <2>1, <2>2 DEF Wait, Locks, At, Goto
  <2>4. \A q \in Callers : Waits(q)' => Waits(q)
    BY <1>w, <2>1, <2>3
  <2>5. p \notin Coming /\ p \in Coming'
    BY <2>1, <2>2 DEF Coming, OnTheWay
  <2>6. Coming \subseteq Coming'
    <3>1. \A q \in Callers \ {p} : OnTheWay(q) => OnTheWay(q)'
      BY <2>1, <2>2, <2>4, StaysOnTheWay
    <3> QED BY <2>5, <3>1 DEF Coming
  <2>7. SUFFICES ASSUME NEW q \in Callers, Waits(q)' PROVE Due' <= Cardinality(Coming)'
    BY DEF SignalInv
  <2>8. Due <= Cardinality(Coming)
    BY <2>4, <2>7 DEF SignalInv
  <2>9. Due' = Due + 1 /\ Due \in Nat
    BY <1>s, <2>1 DEF Due
  <2>10. Cardinality(Coming) + 1 <= Cardinality(Coming')
    BY <1>c, <2>5, <2>6, Counts
  <2>11. Cardinality(Coming) \in Nat /\ Cardinality(Coming') \in Nat
    BY <1>c, <2>7, Counts
  <2> QED BY <2>8, <2>9, <2>10, <2>11
<1>10. ASSUME NEW p \in Callers, Take(p)
       PROVE  SignalInv'
  <2>1. /\ pc[p] = "lock" /\ pc' = [pc EXCEPT ![p] = "user"] /\ UNCHANGED <<op, lock, target>>
        /\ items' = items - 1 /\ items > 0
    BY <1>10 DEF Take, Locks, At, Goto, wakeVars
  <2>2. /\ pc'[p] = "user" /\ \A q \in Callers \ {p} : pc'[q] = pc[q]
    BY <2>1
  <2>3. \A q \in Callers : ~ Wait(q)
    BY <2>1, <2>2 DEF Wait, Locks, At, Goto
  <2>4. \A q \in Callers : Waits(q)' => Waits(q)
    BY <1>w, <2>1, <2>3
  <2>6. Coming \ {p} \subseteq Coming'
    <3>1. \A q \in Callers \ {p} : OnTheWay(q) => OnTheWay(q)'
      BY <2>1, <2>2, <2>4, StaysOnTheWay
    <3> QED BY <3>1 DEF Coming
  <2>7. SUFFICES ASSUME NEW q \in Callers, Waits(q)' PROVE Due' <= Cardinality(Coming)'
    BY DEF SignalInv
  <2>8. Due <= Cardinality(Coming)
    BY <2>4, <2>7 DEF SignalInv
  <2>9. Due = Due' + 1 /\ Due' \in Nat
    BY <1>s, <2>1 DEF Due
  <2>10. /\ Cardinality(Coming) \in Nat /\ Cardinality(Coming') \in Nat
         /\ Cardinality(Coming) <= Cardinality(Coming') + 1
    BY <1>c, <2>6, Counts
  <2> QED BY <2>8, <2>9, <2>10
<1>11. ASSUME NEW p \in Callers, GiveUp(p)
       PROVE  SignalInv'
  <2>1. /\ pc[p] = "lock" /\ pc' = [pc EXCEPT ![p] = "user"] /\ UNCHANGED <<op, lock, items>> /\ items = 0
    BY <1>11 DEF GiveUp, Locks, At, Goto, dataVars
  <2>2. CASE lock = None
    <3>1. Due' = 0
      BY <2>1, <2>2 DEF Due
    <3> QED BY <1>c, <1>11, <3>1, Counts DEF SignalInv
  <2>3. CASE lock # None
    <3>1. lock \in Callers /\ pc[lock] = "wake" /\ op[lock] = "put"
      BY <1>i, <2>3
    <3>2. PICK r \in Callers : r = lock
      BY <3>1
    <3>3. pc'[r] = "wake" /\ op'[r] = "put"
      BY <2>1, <3>1, <3>2
    <3>4. {} \cup {r} \subseteq Coming'
      BY <3>3 DEF Coming, OnTheWay
    <3>5. Cardinality({}) + 1 <= Cardinality(Coming') /\ Cardinality({}) = 0
      BY <1>c, <3>4, Counts, FS_EmptySet
    <3>6. Due' <= 1
      BY <2>1 DEF Due
    <3>7. Cardinality(Coming') \in Nat /\ Due' \in Int
      BY <1>c, <1>11, <2>1, Counts DEF Due
    <3> QED BY <3>5, <3>6, <3>7 DEF SignalInv
  <2> QED BY <2>2, <2>3
<1>12. ASSUME NEW p \in Callers,
              RdLock(p) \/ WrLock(p) \/ RwUnlock(p) \/ Broadcast(p) \/ Detach(p) \/ Clear(p)
       PROVE  FALSE
  <2>1. op[p] \in {"rdlock", "wrlock", "rwunlock"} \/ pc[p] \in {"broadcast", "detach", "clear"}
    BY <1>12 DEF RdLock, WrLock, RwUnlock, Broadcast, Detach, Clear, At
  <2> QED BY <1>i, <2>1 DEF Takers
<1> QED BY <1>1, <1>2, <1>3, <1>4, <1>5, <1>6, <1>7, <1>8, <1>9, <1>10, <1>11, <1>12
        DEF Next, WaitStep, WakeStep, LockedStep
-----------------------------------------------------------------------------
(* The inductive invariant.                                                *)
IInv ==
  /\ TypeOK /\ LabelInv /\ UseInv /\ RwExclusion
  /\ LockInv /\ QueueInv /\ PlaceInv /\ ParkInv /\ SignalInv

LEMMA InitInv ==
  ASSUME CondAssumption, Init
  PROVE  IInv
<1> USE DEF Init
<1>f. /\ IsFiniteSet(Callers) /\ Cardinality(Callers) \in Nat /\ Cardinality({}) = 0
      /\ None \notin Callers /\ None \notin Ults
  BY FS_CardinalityType, FS_EmptySet DEF CondAssumption, Callers
<1>1. TypeOK
  BY <1>f DEF TypeOK, SchedTypeOK, Labels, Ops
<1>2. Queued = {} /\ \A p \in Callers : ~ Parked(p) /\ ~ Waits(p)
  BY DEF Queued, Parked, Waits, WaitLabels
<1>3. LabelInv
  BY DEF LabelInv, WaitLabels
<1>4. UseInv
  BY DEF UseInv
<1>5. RwExclusion
  <2>1. \A m \in {"rd", "wr"} : {p \in Callers : mode[p] = m} = {}
    OBVIOUS
  <2> QED BY <1>f, <2>1 DEF RwExclusion
<1>6. LockInv /\ QueueInv
  BY <1>f, <1>2 DEF LockInv, QueueInv, Whole, Busy
<1>7. PlaceInv
  BY <1>f DEF PlaceInv
<1>8. ParkInv /\ SignalInv
  BY <1>2 DEF ParkInv, SignalInv
<1> QED BY <1>1, <1>3, <1>4, <1>5, <1>6, <1>7, <1>8 DEF IInv

LEMMA NextInv ==
  ASSUME CondAssumption, IInv, [Next]_vars
  PROVE  IInv'
<1> USE DEF IInv
<1>1. LabelInv' /\ UseInv' /\ RwExclusion'
  BY LabelStep, UseStep, RwStep
<1>2. LockInv' /\ QueueInv' /\ ParkInv'
  BY QueueStep, ParkStep
<1>3. PlaceInv'
  BY PlaceStep DEF Settled
<1>4. TypeOK'
  <2>1. PlaceType' /\ CallType' /\ QueueType' /\ DataType'
    BY <1>1, PlaceTypeStep, CallTypeStep, QueueTypeStep, DataTypeStep
  <2> QED BY <2>1 DEF PlaceType, CallType, QueueType, DataType, TypeOK
<1>5. SignalInv'
  <2>1. CASE Items
    BY <2>1, SignalStep
  <2>2. CASE ~ Items
    <3>1. items' = 0 /\ ~ Items'
      BY <1>1, <2>2, SameUse DEF UseInv
    <3>2. Due' = 0
      BY <3>1 DEF Due
    <3>3. Coming' \in SUBSET Callers
      BY DEF Coming
    <3> QED BY <3>2, <3>3, Counts DEF SignalInv
  <2> QED BY <2>1, <2>2
<1> QED BY <1>1, <1>2, <1>3, <1>4, <1>5

(* The invariant of this module holds in every reachable state of the      *)
(* operations of cond.c, abti_cond.h and abti_rwlock.h.                    *)
THEOREM CondVarInvariant ==
  ASSUME CondAssumption
  PROVE  Spec => []IInv
<1>1. Init => IInv
  BY InitInv
<1>2. IInv /\ [Next]_vars => IInv'
  BY NextInv
<1> QED BY <1>1, <1>2, PTL DEF Spec

(* The variables of the condition variable, its mutex and the readers-     *)
(* writer lock keep their types: num_waiters and reader_count, which the   *)
(* code decrements without a test, never get below zero.                   *)
THEOREM CondVarTypeCorrect ==
  ASSUME CondAssumption
  PROVE  Spec => []TypeOK
<1>1. IInv => TypeOK
  BY DEF IInv
<1> QED BY <1>1, CondVarInvariant, PTL

(* ABTI_rwlock: a writer is alone, and reader_count and write_flag say who *)
(* has the lock, although ABTI_rwlock_unlock decides by write_flag alone   *)
(* which kind of lock its caller gives up.                                 *)
THEOREM RwLockExcludes ==
  ASSUME CondAssumption
  PROVE  Spec => []RwExclusion
<1>1. IInv => RwExclusion
  BY DEF IInv
<1> QED BY <1>1, CondVarInvariant, PTL

LEMMA CircleQueued ==
  ASSUME CondAssumption, TypeOK, Whole, Queued # {}
  PROVE  Circle(p_head) = Queued
<1>1. /\ IsCircle(p_next, p_prev, p_head, p_tail, Queued) /\ Queued \in SUBSET Callers
      /\ \A q \in Callers : q \in Queued <=> p_next[q] # None
  BY DEF Whole, Queued
<1>2. p_head \in Queued /\ \A q \in Queued : p_next[q] \in Queued
  BY <1>1 DEF IsCircle
<1>3. Circle(p_head) \subseteq Queued
  BY <1>1, <1>2 DEF Circle
<1>4. ASSUME NEW q \in Queued, NEW S \in SUBSET Callers, p_head \in S,
             \A r \in S : p_next[r] \in S \cup {None}
      PROVE  q \in S
  <2>1. \A r \in S \cap Queued : p_next[r] \in S
    BY <1>1, <1>4
  <2> QED BY <1>1, <1>4, <2>1 DEF IsCircle, Reaches
<1>5. Queued \subseteq Circle(p_head)
  BY <1>1, <1>4 DEF Circle
<1> QED BY <1>3, <1>5

(* Whenever nobody holds its lock, the queue of the condition variable is  *)
(* the circle of exactly those callers that wait, with the right links,    *)
(* head, tail and count: signal, broadcast and the removal of a unit whose *)
(* time is over, which tests p_next before it takes the lock, neither lose *)
(* a waiter nor leave one behind.                                          *)
THEOREM QueueIsKept ==
  ASSUME CondAssumption
  PROVE  Spec => []QueueHolds
<1>1. ASSUME IInv
      PROVE  QueueHolds
  <2> SUFFICES ASSUME lock = None
               PROVE  /\ num_waiters = Cardinality({p \in Callers : p_next[p] # None})
                      /\ \A p \in Callers : p_next[p] # None => p_prev[p_next[p]] = p
                      /\ IF num_waiters = 0 THEN p_head = None
                         ELSE /\ p_prev[p_head] = p_tail
                              /\ Circle(p_head) = {p \in Callers : p_next[p] # None}
                      /\ \A p \in Callers : p_next[p] # None <=> Waits(p)
    BY DEF QueueHolds
  <2>1. Whole /\ \A r \in Callers : pc[r] \notin Busy /\ target[r] = None
    BY <1>1, IdleBefore DEF IInv
  <2>2. \A p \in Callers : p \in Queued <=> p_next[p] # None
    BY DEF Queued
  <2>3. \A p \in Callers : p_next[p] # None => p_prev[p_next[p]] = p
    BY <2>1, <2>2 DEF Whole, IsCircle
  <2>4. IF num_waiters = 0 THEN p_head = None ELSE p_prev[p_head] = p_tail /\ Circle(p_head) = Queued
    <3>1. CASE num_waiters = 0
      BY <2>1, <3>1, QueuedFinite DEF Whole
    <3>2. CASE num_waiters # 0
      <4>1. Queued # {}
        BY <2>1, <3>2, QueuedFinite DEF Whole
      <4>2. Circle(p_head) = Queued
        BY <1>1, <2>1, <4>1, CircleQueued DEF IInv
      <4>3. p_prev[p_head] = p_tail
        BY <2>1, <4>1 DEF Whole, IsCircle
      <4> QED BY <3>2, <4>2, <4>3
    <3> QED BY <3>1, <3>2
  <2>5. \A p \in Callers : p \in Queued <=> Waits(p)
    BY <1>1, <2>1, WaitsParked DEF IInv, ParkInv, Busy, CondAssumption
  <2> QED BY <2>1, <2>2, <2>3, <2>4, <2>5 DEF Whole, Queued
<1> QED BY <1>1, CondVarInvariant, PTL

(* While a taker waits there is, for every item, a signal or a taker on    *)
(* its way: ABT_cond_signal does not spend itself on a timed waiter that   *)
(* has given up, and no caller goes to sleep past an item.                 *)
THEOREM SignalsArrive ==
  ASSUME CondAssumption
  PROVE  Spec => []NoSignalLost
<1>1. ASSUME IInv
      PROVE  NoSignalLost
  <2>1. Coming \in SUBSET Callers
    BY DEF Coming
  <2>2. ASSUME NEW p \in Callers, Waits(p)
        PROVE  items <= Cardinality(Coming)
    <3>1. Due <= Cardinality(Coming)
      BY <1>1, <2>2 DEF IInv, SignalInv
    <3>2. Cardinality(Coming) \in Nat
      BY <2>1, Counts
    <3> QED BY <1>1, <3>1, <3>2 DEF IInv, TypeOK, Due
  <2> QED BY <2>2 DEF NoSignalLost, Coming
<1> QED BY <1>1, CondVarInvariant, PTL
=============================================================================
