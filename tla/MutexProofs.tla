----------------------------- MODULE MutexProofs -----------------------------
(***************************************************************************)
(* The safety properties of Mutex, for all sets of ULTs and ESs, programs  *)
(* and numbers of handovers and wakeups.                                   *)
(*                                                                         *)
(* The lock: an ES that holds the mutex and the one that it is handed to   *)
(* are told apart by the labels alone (OwnerInv), so that every step is a  *)
(* step of Lock or none, whatever the queues do.                           *)
(*                                                                         *)
(* The ULTs: a waiter is in one place (HeldOnce), where it is asleep or    *)
(* about to be (HeldSleeps), in a row that only ESs that may run it look   *)
(* into (HomeInv); what an ES executes is in no row (ExecInv, GiveInv).    *)
(*                                                                         *)
(* The wakeups: as long as there are waiters the value of the mutex is 2,  *)
(* or somebody is on the way to wake one (WaiterInv).                      *)
(***************************************************************************)
EXTENDS Mutex, FiniteSetTheorems, TLAPS

-----------------------------------------------------------------------------
(* Rows and the lists of rows.                                             *)

(* A set of numbers has a least one.  (NatLessThanWellFounded takes an     *)
(* operator; the intervals below its elements are ordered by inclusion.)   *)
LEMMA Smallest ==
  ASSUME NEW T \in SUBSET Nat, T # {}
  PROVE  \E i \in T : \A j \in T : i <= j
<1> DEFINE I == {1..i : i \in T}
<1>1. I \subseteq FiniteSubsetsOf(Nat)
  <2>1. \A i \in T : IsFiniteSet(1..i) /\ 1..i \in SUBSET Nat
    BY FS_Interval
  <2> QED BY <2>1 DEF FiniteSubsetsOf
<1>2. PICK M \in I : \A X \in I : ~ (<<X, M>> \in StrictSubsetOrdering(Nat))
  <2>1. I # {}
    OBVIOUS
  <2> HIDE DEF I
  <2> QED BY <1>1, <2>1, FS_StrictSubsetOrderingWellFounded, WFMin, Zenon
<1>3. PICK i \in T : M = 1..i
  OBVIOUS
<1>4. ASSUME NEW j \in T, j < i
      PROVE  FALSE
  <2>1. 1..j \in I /\ 1..j \in SUBSET Nat /\ 1..i \in SUBSET Nat
    OBVIOUS
  <2>2. 1..j \subseteq 1..i /\ i \in 1..i /\ i \notin 1..j
    BY <1>4
  <2> HIDE DEF I
  <2> QED BY <1>2, <1>3, <2>1, <2>2 DEF StrictSubsetOrdering
<1> QED BY <1>4

LEMMA AppendLinks ==
  ASSUME NEW list \in Seq(Xstreams), NEW e \in Xstreams
  PROVE  /\ Append(list, e) \in Seq(Xstreams)
         /\ \A d : Linked(Append(list, e), d) <=> Linked(list, d) \/ d = e
<1>1. /\ Append(list, e) \in Seq(Xstreams) /\ Len(Append(list, e)) = Len(list) + 1
      /\ Append(list, e)[Len(list) + 1] = e
      /\ \A i \in 1..Len(list) : Append(list, e)[i] = list[i]
  OBVIOUS
<1>2. \A i \in 1..(Len(list) + 1) : i = Len(list) + 1 \/ i \in 1..Len(list)
  OBVIOUS
<1> QED BY <1>1, <1>2 DEF Linked

LEMMA TailOfOne ==
  ASSUME NEW s \in Seq(Ults), s # <<>>, Len(s) = 1
  PROVE  Tail(s) = <<>>
<1>1. Len(Tail(s)) = 0 /\ Tail(s) \in Seq(Ults)
  OBVIOUS
<1>2. \A t \in Seq(Ults) : Len(t) = 0 => t = <<>>
  OBVIOUS
<1> QED BY <1>1, <1>2

(* The first linked row with a waiter is what its definition says.         *)
LEMMA FirstRowFound ==
  ASSUME NEW list \in Seq(Xstreams), NEW row, HasWaiter(list, row)
  PROVE  LET i == FirstRow(list, row)
         IN /\ i \in 1..Len(list) /\ list[i] \in Xstreams /\ row[list[i]] # <<>>
            /\ \A j \in 1..(i - 1) : row[list[j]] = <<>>
<1> DEFINE T == {k \in 1..Len(list) : row[list[k]] # <<>>}
<1>1. PICK i \in T : \A j \in T : i <= j
  <2>1. T # {} /\ T \in SUBSET Nat
    BY DEF HasWaiter
  <2> QED BY <2>1, Smallest
<1>2. i \in DOMAIN list /\ \A j \in 1..(i - 1) : row[list[j]] = <<>>
  BY <1>1
<1>3. /\ FirstRow(list, row) \in DOMAIN list /\ row[list[FirstRow(list, row)]] # <<>>
      /\ \A j \in 1..(FirstRow(list, row) - 1) : row[list[j]] = <<>>
  BY <1>1, <1>2 DEF FirstRow
<1> QED BY <1>3

(* What is left of a list behind its i-th element.                         *)
LEMMA Behind ==
  ASSUME NEW S, NEW s \in Seq(S), NEW i \in 1..Len(s)
  PROVE  /\ SubSeq(s, i + 1, Len(s)) \in Seq(S)
         /\ Len(SubSeq(s, i + 1, Len(s))) = Len(s) - i
         /\ \A j \in 1..(Len(s) - i) : SubSeq(s, i + 1, Len(s))[j] = s[j + i]
<1>1. SubSeq(s, i + 1, Len(s)) \in Seq(S)
  OBVIOUS
<1>2. Len(SubSeq(s, i + 1, Len(s))) = Len(s) - i
  OBVIOUS
<1>3. ASSUME NEW j \in 1..(Len(s) - i)
      PROVE  SubSeq(s, i + 1, Len(s))[j] = s[j + i]
  OBVIOUS
<1> QED BY <1>1, <1>2, <1>3

(* A pop leaves every row linked that still has a waiter.                  *)
LEMMA RotatedLinks ==
  ASSUME NEW list \in Seq(Xstreams), NEW row \in [Xstreams -> Seq(Ults)], HasWaiter(list, row),
         \A e \in Xstreams : row[e] # <<>> => Linked(list, e),
         NEW d, d = list[FirstRow(list, row)]
  PROVE  /\ Rotated(list, row) \in Seq(Xstreams)
         /\ \A e \in Xstreams :
              [row EXCEPT ![d] = Tail(@)][e] # <<>> => Linked(Rotated(list, row), e)
<1> DEFINE i == FirstRow(list, row)
           rest == SubSeq(list, i + 1, Len(list))
<1>1. /\ i \in 1..Len(list) /\ d \in Xstreams /\ row[d] # <<>> /\ row[d] \in Seq(Ults)
      /\ \A j \in 1..(i - 1) : row[list[j]] = <<>>
  BY FirstRowFound
<1> HIDE DEF i
<1>2. /\ rest \in Seq(Xstreams) /\ Len(rest) = Len(list) - i
      /\ \A j \in 1..(Len(list) - i) : rest[j] = list[j + i]
  BY <1>1, Behind
<1>3. Rotated(list, row) = IF Len(row[d]) = 1 THEN rest ELSE Append(rest, d)
  BY DEF Rotated, i
<1> HIDE DEF rest
<1>4. Rotated(list, row) \in Seq(Xstreams)
  BY <1>1, <1>2, <1>3
<1>5. ASSUME NEW e \in Xstreams, e # d, row[e] # <<>>
      PROVE  Linked(rest, e)
  <2>1. PICK j \in 1..Len(list) : list[j] = e
    BY <1>5 DEF Linked
  <2>2. j \notin 1..(i - 1) /\ j # i
    BY <1>1, <1>5, <2>1 DEF i
  <2>3. j - i \in 1..(Len(list) - i) /\ (j - i) + i = j
    BY <1>1, <2>2
  <2>4. rest[j - i] = e
    BY <1>2, <2>1, <2>3
  <2> QED BY <1>2, <2>3, <2>4 DEF Linked
<1>6. ASSUME NEW e \in Xstreams, [row EXCEPT ![d] = Tail(@)][e] # <<>>
      PROVE  Linked(Rotated(list, row), e)
  <2>1. CASE e = d
    <3>1. Tail(row[d]) # <<>>
      BY <1>1, <1>6, <2>1
    <3>2. Rotated(list, row) = Append(rest, d)
      BY <1>1, <1>3, <3>1, TailOfOne
    <3> QED BY <1>1, <1>2, <2>1, <3>2, AppendLinks
  <2>2. CASE e # d
    <3>1. Linked(rest, e)
      BY <1>5, <1>6, <2>2
    <3>2. Linked(Append(rest, d), e)
      BY <1>1, <1>2, <3>1, AppendLinks
    <3> QED BY <1>3, <3>1, <3>2
  <2> QED BY <2>1, <2>2
<1> QED BY <1>4, <1>6

(* A row that is linked already is not linked twice.                       *)
LEMMA AddNodeLinks ==
  ASSUME NEW list \in Seq(Xstreams), NEW e \in Xstreams
  PROVE  /\ AddNode(list, e) \in Seq(Xstreams)
         /\ \A d : Linked(AddNode(list, e), d) <=> Linked(list, d) \/ d = e
<1>1. CASE Linked(list, e)
  BY <1>1 DEF AddNode
<1>2. CASE ~ Linked(list, e)
  BY <1>2, AppendLinks DEF AddNode
<1> QED BY <1>1, <1>2

(* Taking the head of a row, or adding to its end.                         *)
LEMMA RowTyped ==
  ASSUME NEW row \in [Xstreams -> Seq(Ults)], NEW e \in Xstreams, NEW p \in Ults
  PROVE  /\ [row EXCEPT ![e] = Append(@, p)] \in [Xstreams -> Seq(Ults)]
         /\ row[e] # <<>> => /\ Head(row[e]) \in Ults
                             /\ [row EXCEPT ![e] = Tail(@)] \in [Xstreams -> Seq(Ults)]
                             /\ [row EXCEPT ![e] = Append(Tail(@), p)] \in [Xstreams -> Seq(Ults)]
         /\ TailOf(row, e) \in [Xstreams -> Seq(Ults)]
<1>1. row[e] \in Seq(Ults)
  OBVIOUS
<1>2. Append(row[e], p) \in Seq(Ults)
  BY <1>1
<1>3. ASSUME row[e] # <<>>
      PROVE  Head(row[e]) \in Ults /\ Tail(row[e]) \in Seq(Ults) /\ Append(Tail(row[e]), p) \in Seq(Ults)
  BY <1>1, <1>3
<1> QED BY <1>2, <1>3 DEF TailOf

-----------------------------------------------------------------------------
(* What holds of the rows and of the callers in any program.               *)

(* Rows with waiters are linked.                                           *)
RowInv ==
  /\ h_row \in [Xstreams -> Seq(Ults)] /\ l_row \in [Xstreams -> Seq(Ults)]
  /\ h_list \in Seq(Xstreams) /\ l_list \in Seq(Xstreams)
  /\ \A e \in Xstreams : (h_row[e] # <<>> => Linked(h_list, e)) /\ (l_row[e] # <<>> => Linked(l_list, e))

Waiting == {"exch", "check", "push", "suspend", "switching", "queued"}

(* Only a ULT waits.  A caller of unlock wakes MaxWakeups waiters at most, *)
(* and has one to make ready; a receiver has a giver.                      *)
CallInv ==
  /\ prog \in Programs /\ SchedTypeOK
  /\ pc \in [Callers -> Labels] /\ popped \in [Callers -> Ults \cup {None}]
  /\ wakes \in [Callers -> 0..MaxWakeups] /\ locks \in [Callers -> Nat]
  /\ p_handover \in Ults \cup {None} /\ p_giver \in Ults \cup {None}
  /\ htlock \in Ults \cup {None}
  /\ num_handovers \in [Xstreams -> Nat]
  /\ \A p \in Callers : pc[p] \in Waiting => p \in Ults
  /\ \A p \in Callers : pc[p] \in {"wake", "ready"} => wakes[p] < MaxWakeups
  /\ \A p \in Callers : pc[p] = "ready" => popped[p] # None
  /\ p_handover # None => p_giver # None

(* What the lemmas need of a program.                                      *)
LEMMA ProgramTyped ==
  ASSUME MutexAssumption, CallInv
  PROVE  /\ prog.serves \in [Ults -> SUBSET Xstreams] /\ prog.low \in SUBSET Ults
         /\ prog.se \in SUBSET Ults
         /\ None \notin Callers /\ Ults \cap Externals = {}
BY DEF MutexAssumption, CallInv

(* Who executes on an ES is a ULT.                                         *)
LEMMA RunsUlt ==
  ASSUME MutexAssumption, CallInv, NEW e \in Xstreams, NEW p \in Callers, Runs(e, p)
  PROVE  p \in Ults
BY DEF MutexAssumption, CallInv, SchedTypeOK, Runs

LEMMA PopRow ==
  ASSUME RowInv, NEW list, NEW row, <<list, row>> \in {<<h_list, h_row>>, <<l_list, l_row>>},
         HasWaiter(list, row), NEW d, d = list[FirstRow(list, row)]
  PROVE  /\ d \in Xstreams /\ row[d] # <<>> /\ Head(row[d]) \in Ults
         /\ [row EXCEPT ![d] = Tail(@)] \in [Xstreams -> Seq(Ults)]
         /\ Rotated(list, row) \in Seq(Xstreams)
         /\ \A e \in Xstreams :
              [row EXCEPT ![d] = Tail(@)][e] # <<>> => Linked(Rotated(list, row), e)
<1>1. /\ list \in Seq(Xstreams) /\ row \in [Xstreams -> Seq(Ults)]
      /\ \A e \in Xstreams : row[e] # <<>> => Linked(list, e)
  BY DEF RowInv
<1>2. d \in Xstreams /\ row[d] # <<>>
  BY <1>1, FirstRowFound
<1>3. row[d] \in Seq(Ults) /\ Head(row[d]) \in Ults /\ Tail(row[d]) \in Seq(Ults)
  BY <1>1, <1>2
<1>4. [row EXCEPT ![d] = Tail(@)] \in [Xstreams -> Seq(Ults)]
  BY <1>1, <1>3
<1>5. /\ Rotated(list, row) \in Seq(Xstreams)
      /\ \A e \in Xstreams :
           [row EXCEPT ![d] = Tail(@)][e] # <<>> => Linked(Rotated(list, row), e)
  BY <1>1, RotatedLinks
<1> QED BY <1>2, <1>3, <1>4, <1>5

LEMMA RowStep ==
  ASSUME MutexAssumption, CallInv, RowInv, [Next]_vars
  PROVE  RowInv'
<1>1. CASE UNCHANGED rowVars
  BY <1>1 DEF RowInv, rowVars
<1>2. ASSUME NEW p \in Callers, NEW e \in Xstreams, WaitPush(e, p)
      PROVE  RowInv'
  <2>1. p \in Ults
    BY <1>2, RunsUlt DEF WaitPush
  <2>2. CASE p \in prog.low
    <3>1. /\ l_list' = AddNode(l_list, e) /\ l_row' = [l_row EXCEPT ![e] = Append(@, p)]
          /\ UNCHANGED <<h_list, h_row>>
      BY <1>2, <2>2 DEF WaitPush
    <3>2. l_row' \in [Xstreams -> Seq(Ults)]
      BY <2>1, <3>1, RowTyped DEF RowInv
    <3>3. \A d \in Xstreams : l_row'[d] # <<>> => l_row[d] # <<>> \/ d = e
      BY <3>1 DEF RowInv
    <3>4. l_list' \in Seq(Xstreams) /\ \A d : Linked(l_list', d) <=> Linked(l_list, d) \/ d = e
      BY <3>1, AddNodeLinks DEF RowInv
    <3> QED BY <3>1, <3>2, <3>3, <3>4 DEF RowInv
  <2>3. CASE p \notin prog.low
    <3>1. /\ h_list' = AddNode(h_list, e) /\ h_row' = [h_row EXCEPT ![e] = Append(@, p)]
          /\ UNCHANGED <<l_list, l_row>>
      BY <1>2, <2>3 DEF WaitPush
    <3>2. h_row' \in [Xstreams -> Seq(Ults)]
      BY <2>1, <3>1, RowTyped DEF RowInv
    <3>3. \A d \in Xstreams : h_row'[d] # <<>> => h_row[d] # <<>> \/ d = e
      BY <3>1 DEF RowInv
    <3>4. h_list' \in Seq(Xstreams) /\ \A d : Linked(h_list', d) <=> Linked(h_list, d) \/ d = e
      BY <3>1, AddNodeLinks DEF RowInv
    <3> QED BY <3>1, <3>2, <3>3, <3>4 DEF RowInv
  <2> QED BY <2>2, <2>3
<1>3. ASSUME NEW p \in Callers, NEW e \in Xstreams, LockLowSwitch(e, p)
      PROVE  RowInv'
  <2>1. /\ p \in Ults /\ l_row[e] # <<>> /\ l_row' = [l_row EXCEPT ![e] = Append(Tail(@), p)]
        /\ UNCHANGED <<h_row, h_list, l_list>>
    BY <1>3, RunsUlt DEF LockLowSwitch
  <2>2. l_row' \in [Xstreams -> Seq(Ults)]
    BY <2>1, RowTyped DEF RowInv
  <2>3. \A d \in Xstreams : l_row'[d] # <<>> => l_row[d] # <<>>
    BY <2>1 DEF RowInv
  <2> QED BY <2>1, <2>2, <2>3 DEF RowInv
<1>4. ASSUME NEW p \in Callers, WakePopHigh(p)
      PROVE  RowInv'
  <2> DEFINE e == h_list[FirstRow(h_list, h_row)]
  <2>1. /\ h_row' = [h_row EXCEPT ![e] = Tail(@)] /\ h_list' = Rotated(h_list, h_row)
        /\ UNCHANGED <<l_row, l_list>> /\ HasWaiter(h_list, h_row)
    BY <1>4 DEF WakePopHigh
  <2> HIDE DEF e
  <2>2. /\ h_row' \in [Xstreams -> Seq(Ults)] /\ h_list' \in Seq(Xstreams)
        /\ \A d \in Xstreams : h_row'[d] # <<>> => Linked(h_list', d)
    BY <2>1, PopRow DEF e
  <2> QED BY <2>1, <2>2 DEF RowInv
<1>5. ASSUME NEW p \in Callers, WakePopLow(p)
      PROVE  RowInv'
  <2> DEFINE e == l_list[FirstRow(l_list, l_row)]
  <2>1. /\ l_row' = [l_row EXCEPT ![e] = Tail(@)] /\ l_list' = Rotated(l_list, l_row)
        /\ h_list' = <<>> /\ UNCHANGED h_row /\ HasWaiter(l_list, l_row) /\ ~ HasWaiter(h_list, h_row)
    BY <1>5 DEF WakePopLow
  <2> HIDE DEF e
  <2>2. /\ l_row' \in [Xstreams -> Seq(Ults)] /\ l_list' \in Seq(Xstreams)
        /\ \A d \in Xstreams : l_row'[d] # <<>> => Linked(l_list', d)
    BY <2>1, PopRow DEF e
  <2>3. \A d \in Xstreams : h_row[d] = <<>>
    BY <2>1 DEF RowInv, HasWaiter, Linked
  <2>4. h_list' \in Seq(Xstreams)
    BY <2>1
  <2> QED BY <2>1, <2>2, <2>3, <2>4 DEF RowInv
<1>6. ASSUME NEW p \in Callers, NEW e \in Xstreams, SePop(e, p) \/ SePopLow(e, p)
      PROVE  RowInv'
  <2>1. /\ p \in Ults /\ UNCHANGED <<h_list, l_list>>
        /\ \/ h_row' = TailOf(h_row, e) /\ UNCHANGED l_row
           \/ l_row' = TailOf(l_row, e) /\ UNCHANGED h_row
    BY <1>6, RunsUlt DEF SePop, SePopLow
  <2>2. h_row' \in [Xstreams -> Seq(Ults)] /\ l_row' \in [Xstreams -> Seq(Ults)]
    <3>1. /\ TailOf(h_row, e) \in [Xstreams -> Seq(Ults)]
          /\ TailOf(l_row, e) \in [Xstreams -> Seq(Ults)]
      BY <2>1, RowTyped DEF RowInv
    <3> QED BY <2>1, <3>1 DEF RowInv
  <2>3. \A d \in Xstreams : /\ h_row'[d] # <<>> => h_row[d] # <<>>
                            /\ l_row'[d] # <<>> => l_row[d] # <<>>
    BY <2>1 DEF RowInv, TailOf
  <2> QED BY <2>1, <2>2, <2>3 DEF RowInv
<1>7. CASE \/ \E p \in Callers : \/ LockCas(p) \/ LockExch(p) \/ WaitCheck(p) \/ Suspend(p)
                                 \/ Resumed(p) \/ Unlock(p) \/ UnlockStore(p) \/ WakeNobody(p)
                                 \/ WakeReady(p) \/ Given(p) \/ Yield(p)
                                 \/ \E e \in Xstreams : \/ LockLowSwitched(e, p)
                                                        \/ SeCheck(e, p) \/ SeSwitch(e, p)
           \/ \E e \in Xstreams, t \in Ults : Run(e, t)
           \/ UNCHANGED vars
  <2>1. UNCHANGED rowVars
    BY <1>7 DEF LockCas, LockExch, WaitCheck, Suspend, Resumed, Unlock, UnlockStore, WakeNobody,
                WakeReady, Given, Yield, LockLowSwitched, SeCheck, SeSwitch, Run, vars
  <2> QED BY <2>1, <1>1
<1> QED BY <1>2, <1>3, <1>4, <1>5, <1>6, <1>7 DEF Next, LockStep, UnlockStep

(* A caller moves on and changes nothing else of CallInv.                  *)
LEMMA CallMoves ==
  ASSUME MutexAssumption, CallInv, NEW p \in Callers, NEW l \in Labels \ {"wake", "ready"},
         pc' = [pc EXCEPT ![p] = l], l \in Waiting => p \in Ults,
         UNCHANGED <<prog, popped, wakes, p_handover, p_giver>>,
         SchedTypeOK', locks' \in [Callers -> Nat], htlock' \in Ults \cup {None},
         num_handovers' \in [Xstreams -> Nat]
  PROVE  CallInv'
BY DEF CallInv

LEMMA LockCallStep ==
  ASSUME MutexAssumption, CallInv, NEW p \in Callers,
         LockCas(p) \/ LockExch(p) \/ WaitCheck(p) \/ Suspend(p) \/ Unlock(p) \/ WakeNobody(p)
           \/ Given(p) \/ Yield(p)
  PROVE  CallInv'
<1>1. UNCHANGED <<prog, popped, wakes, p_handover, p_giver, num_handovers>>
  BY DEF LockCas, LockExch, WaitCheck, Suspend, Unlock, WakeNobody, Given, Yield, handVars
<1>2. locks' \in [Callers -> Nat]
  BY DEF CallInv, LockCas, LockExch, WaitCheck, Suspend, Unlock, WakeNobody, Given, Yield
<1>3. SchedTypeOK'
  BY DEF CallInv, LockCas, LockExch, WaitCheck, Suspend, Unlock, WakeNobody, Given, Yield,
         SchedTypeOK, schedVars, SuspendUlt, YieldUlt, BackToSched
<1>4. htlock' \in Ults \cup {None}
  BY DEF CallInv, LockCas, LockExch, WaitCheck, Suspend, Unlock, WakeNobody, Given, Yield, At,
         Waiting
<1>5. PICK l \in Labels \ {"wake", "ready"} :
        pc' = [pc EXCEPT ![p] = l] /\ (l \in Waiting => p \in Ults)
  <2>1. CASE LockCas(p)
    BY <2>1 DEF LockCas, Goto, Labels, Owning, Waiting
  <2>2. CASE LockExch(p) \/ WaitCheck(p) \/ Suspend(p)
    <3>1. p \in Ults
      BY <2>2 DEF LockExch, WaitCheck, Suspend, At, CallInv, Waiting
    <3>2. PICK l \in {"cs", "check", "push", "exch", "queued"} : pc' = [pc EXCEPT ![p] = l]
      BY <2>2 DEF LockExch, WaitCheck, Suspend, Goto
    <3> QED BY <3>1, <3>2 DEF Labels, Owning
  <2>3. CASE Unlock(p) \/ WakeNobody(p) \/ Given(p)
    <3>1. PICK l \in {"user", "yield", "se.check", "store"} : pc' = [pc EXCEPT ![p] = l]
      BY <2>3 DEF Unlock, WakeNobody, Given, Unlocked, Goto
    <3> QED BY <3>1 DEF Labels, Owning, Waiting
  <2>4. CASE Yield(p)
    <3>1. PICK l \in {"user", "cs"} : pc' = [pc EXCEPT ![p] = l]
      BY <2>4 DEF Yield, Goto
    <3> QED BY <3>1 DEF Labels, Owning, Waiting
  <2> QED BY <2>1, <2>2, <2>3, <2>4
<1> QED BY <1>1, <1>2, <1>3, <1>4, <1>5, CallMoves DEF CallInv

LEMMA CallStep ==
  ASSUME MutexAssumption, CallInv, RowInv, [Next]_vars
  PROVE  CallInv'
<1>p. /\ prog.serves \in [Ults -> SUBSET Xstreams] /\ prog.low \in SUBSET Ults
      /\ prog.se \in SUBSET Ults /\ None \notin Callers /\ Ults \cap Externals = {}
  BY ProgramTyped
<1>m. MaxWakeups \in Nat \ {0}
  BY DEF MutexAssumption
<1>1. ASSUME NEW p \in Callers, NEW e \in Xstreams, WaitPush(e, p)
      PROVE  CallInv'
  <2>1. p \in Ults /\ pc' = [pc EXCEPT ![p] = "suspend"] /\ SchedTypeOK' /\ htlock' = None
    BY <1>1, RunsUlt DEF WaitPush, Goto, SetBlocked, SchedTypeOK, CallInv
  <2>2. UNCHANGED <<prog, popped, wakes, locks, p_handover, p_giver, num_handovers>>
    BY <1>1 DEF WaitPush, handVars
  <2> QED BY <2>1, <2>2, CallMoves DEF Labels, CallInv
<1>2. ASSUME NEW p \in Callers, NEW e \in Xstreams, LockLowSwitch(e, p)
      PROVE  CallInv'
  <2>1. /\ p \in Ults /\ pc' = [pc EXCEPT ![p] = "switching"]
        /\ popped' = [popped EXCEPT ![p] = Head(l_row[e])] /\ locks' = [locks EXCEPT ![p] = @ + 1]
        /\ UNCHANGED <<prog, cur, pool, blocking, wakes, p_handover, p_giver, num_handovers, htlock>>
    BY <1>2, RunsUlt DEF LockLowSwitch, Goto, handVars, schedVars
  <2>2. Head(l_row[e]) \in Ults
    BY <1>2, RowTyped, <2>1 DEF LockLowSwitch, RowInv
  <2>3. popped' \in [Callers -> Ults \cup {None}] /\ locks' \in [Callers -> Nat]
    BY <2>1, <2>2 DEF CallInv
  <2> QED BY <2>1, <2>3 DEF CallInv, SchedTypeOK, Labels, Waiting
<1>3. ASSUME NEW p \in Callers, NEW e \in Xstreams, LockLowSwitched(e, p)
      PROVE  CallInv'
  <2>1. /\ p \in Ults /\ pc' = [pc EXCEPT ![p] = "queued"] /\ cur' = [cur EXCEPT ![e] = popped[p]]
        /\ popped' = [popped EXCEPT ![p] = None]
        /\ UNCHANGED <<prog, pool, blocking, wakes, locks, p_handover, p_giver, num_handovers, htlock>>
    BY <1>3, RunsUlt DEF LockLowSwitched, Goto, handVars
  <2> QED BY <2>1 DEF CallInv, SchedTypeOK, Labels, Waiting
<1>4. ASSUME NEW p \in Callers, Resumed(p)
      PROVE  CallInv'
  <2>1. /\ p \in Ults
        /\ UNCHANGED <<prog, cur, blocking, popped, wakes, locks, p_giver, num_handovers, htlock>>
    BY <1>4 DEF Resumed, At, CallInv, Waiting
  <2>2. CASE p_handover = p
    <3>1. /\ p_handover' = None /\ pool' = pool \cup {p_giver} /\ pc' = [pc EXCEPT ![p] = "cs"]
      BY <1>4, <2>2 DEF Resumed, Goto
    <3>2. p_giver \in Ults
      BY <1>p, <2>2 DEF CallInv
    <3> QED BY <2>1, <3>1, <3>2 DEF CallInv, SchedTypeOK, Labels, Owning, Waiting
  <2>3. CASE p_handover # p
    <3>1. pc' = [pc EXCEPT ![p] = "exch"] /\ UNCHANGED <<p_handover, pool>>
      BY <1>4, <2>3 DEF Resumed, Goto
    <3> QED BY <2>1, <3>1 DEF CallInv, SchedTypeOK, Labels, Waiting
  <2> QED BY <2>2, <2>3
<1>5. ASSUME NEW p \in Callers, UnlockStore(p)
      PROVE  CallInv'
  <2>1. /\ pc' = [pc EXCEPT ![p] = "wake"] /\ wakes' = [wakes EXCEPT ![p] = 0]
        /\ UNCHANGED <<prog, cur, pool, blocking, popped, locks, p_handover, p_giver, num_handovers,
                       htlock>>
    BY <1>5 DEF UnlockStore, Goto, handVars, schedVars
  <2> QED BY <2>1, <1>m DEF CallInv, SchedTypeOK, Labels, Waiting
<1>6. ASSUME NEW p \in Callers, WakePopHigh(p) \/ WakePopLow(p)
      PROVE  CallInv'
  <2>1. PICK u \in Ults : popped' = [popped EXCEPT ![p] = u]
    <3>1. CASE WakePopHigh(p)
      <4> DEFINE e == h_list[FirstRow(h_list, h_row)]
      <4>1. HasWaiter(h_list, h_row) /\ popped' = [popped EXCEPT ![p] = Head(h_row[e])]
        BY <3>1 DEF WakePopHigh
      <4>2. Head(h_row[e]) \in Ults
        BY <4>1, PopRow
      <4> QED BY <4>1, <4>2
    <3>2. CASE WakePopLow(p)
      <4> DEFINE e == l_list[FirstRow(l_list, l_row)]
      <4>1. HasWaiter(l_list, l_row) /\ popped' = [popped EXCEPT ![p] = Head(l_row[e])]
        BY <3>2 DEF WakePopLow
      <4>2. Head(l_row[e]) \in Ults
        BY <4>1, PopRow
      <4> QED BY <4>1, <4>2
    <3> QED BY <1>6, <3>1, <3>2
  <2>2. /\ pc[p] = "wake" /\ pc' = [pc EXCEPT ![p] = "ready"]
        /\ UNCHANGED <<prog, cur, pool, blocking, wakes, locks, p_handover, p_giver, num_handovers,
                       htlock>>
    BY <1>6 DEF WakePopHigh, WakePopLow, At, Goto, handVars, schedVars
  <2> QED BY <2>1, <2>2, <1>p DEF CallInv, SchedTypeOK, Labels, Waiting, Callers
<1>7. ASSUME NEW p \in Callers, WakeReady(p)
      PROVE  CallInv'
  <2>1. /\ pc[p] = "ready" /\ pool' = pool \cup {popped[p]} /\ popped' = [popped EXCEPT ![p] = None]
        /\ wakes' = [wakes EXCEPT ![p] = @ + 1]
        /\ UNCHANGED <<prog, cur, blocking, locks, p_handover, p_giver, num_handovers, htlock>>
    BY <1>7 DEF WakeReady, SetReady, At, handVars
  <2>2. popped[p] \in Ults /\ wakes[p] + 1 \in 0..MaxWakeups
    BY <1>m, <2>1 DEF CallInv
  <2>3. PICK l \in {"wake", "yield", "user"} :
          pc' = [pc EXCEPT ![p] = l] /\ (l = "wake" => wakes[p] + 1 < MaxWakeups)
    BY <1>7 DEF WakeReady, Goto, Unlocked
  <2> QED BY <2>1, <2>2, <2>3 DEF CallInv, SchedTypeOK, Labels, Waiting
<1>8. ASSUME NEW p \in Callers, NEW e \in Xstreams, SeCheck(e, p)
      PROVE  CallInv'
  <2>1. PICK l \in {"store", "se.pop", "se.poplow"} : pc' = [pc EXCEPT ![p] = l]
    BY <1>8 DEF SeCheck, Goto
  <2>2. num_handovers' \in [Xstreams -> Nat]
    BY <1>8 DEF SeCheck, CallInv
  <2>3. UNCHANGED <<prog, cur, pool, blocking, popped, wakes, locks, p_handover, p_giver, htlock>>
    BY <1>8 DEF SeCheck, schedVars
  <2> QED BY <2>1, <2>2, <2>3, CallMoves DEF CallInv, SchedTypeOK, Labels, Owning, Waiting
<1>9. ASSUME NEW p \in Callers, NEW e \in Xstreams, SePop(e, p) \/ SePopLow(e, p)
      PROVE  CallInv'
  <2>1. PICK row \in {h_row, l_row} : PopFor(e, p, row)
    BY <1>9 DEF SePop, SePopLow
  <2>2. /\ UNCHANGED <<prog, cur, pool, blocking, popped, wakes, locks, htlock>> /\ p \in Ults
    BY <1>9, RunsUlt DEF SePop, SePopLow, schedVars
  <2>3. CASE row[e] = <<>>
    <3>1. /\ pc' = [pc EXCEPT ![p] = "se.check"]
          /\ UNCHANGED <<p_handover, p_giver, num_handovers>>
      BY <2>1, <2>3 DEF PopFor, Goto
    <3> QED BY <2>2, <3>1, CallMoves DEF CallInv, SchedTypeOK, Labels, Owning, Waiting
  <2>4. CASE row[e] # <<>>
    <3>1. /\ pc' = [pc EXCEPT ![p] = "se.switch"] /\ p_handover' = Head(row[e]) /\ p_giver' = p
          /\ num_handovers' = [num_handovers EXCEPT ![e] = @ + 1]
      BY <2>1, <2>4 DEF PopFor, Goto
    <3>2. Head(row[e]) \in Ults
      BY <2>2, <2>4, RowTyped DEF RowInv
    <3> QED BY <1>p, <2>2, <3>1, <3>2 DEF CallInv, SchedTypeOK, Labels, Waiting, Callers
  <2> QED BY <2>3, <2>4
<1>10. ASSUME NEW p \in Callers, NEW e \in Xstreams, SeSwitch(e, p)
       PROVE  CallInv'
  <2>1. /\ pc' = [pc EXCEPT ![p] = "given"] /\ cur' = [cur EXCEPT ![e] = p_handover]
        /\ UNCHANGED <<prog, pool, blocking, popped, wakes, locks, p_handover, p_giver,
                       num_handovers, htlock>>
    BY <1>10 DEF SeSwitch, Goto, handVars
  <2>2. SchedTypeOK'
    BY <2>1 DEF CallInv, SchedTypeOK
  <2> QED BY <2>1, <2>2, CallMoves DEF CallInv, Labels, Waiting
<1>11. ASSUME NEW e \in Xstreams, NEW t \in Ults, Run(e, t)
       PROVE  CallInv'
  <2>1. SchedTypeOK'
    BY <1>11 DEF Run, Dispatch, CallInv, SchedTypeOK
  <2>2. UNCHANGED <<prog, pc, popped, wakes, locks, p_handover, p_giver, num_handovers, htlock>>
    BY <1>11 DEF Run, callVars, handVars
  <2> QED BY <2>1, <2>2 DEF CallInv
<1>12. CASE UNCHANGED vars
  BY <1>12 DEF vars, callVars, handVars, schedVars, CallInv, SchedTypeOK
<1> QED BY <1>1, <1>2, <1>3, <1>4, <1>5, <1>6, <1>7, <1>8, <1>9, <1>10, <1>11, <1>12, LockCallStep
      DEF Next, LockStep, UnlockStep

-----------------------------------------------------------------------------
(* The mutex implements the lock, whatever the program and however the     *)
(* ULTs are scheduled.                                                     *)

(* There is one owner at most, and val says whether there is one.  The     *)
(* receiver of a handover owns the mutex before it executes.               *)
OwnerInv ==
  /\ val \in 0..2
  /\ \A p, q \in Callers : pc[p] \in Owning /\ pc[q] \in Owning => p = q
  /\ p_handover # None => \A p \in Callers : pc[p] \notin Owning
  /\ val = 0 <=> Owners = {}

OwnerTypeOK ==
  pc \in [Callers -> Labels] /\ p_handover \in Callers \cup {None} /\ None \notin Callers

(* A step that leaves p_handover and the owners' labels alone.             *)
LEMMA OwnersKept ==
  ASSUME UNCHANGED p_handover, \A q \in Callers : pc'[q] \in Owning <=> pc[q] \in Owning
  PROVE  Owners' = Owners
BY DEF Owners

LEMMA OwnerInvKept ==
  ASSUME OwnerInv, UNCHANGED <<p_handover, val, pc>>
  PROVE  OwnerInv' /\ Owners' = Owners
<1>1. Owners' = Owners
  BY OwnersKept
<1> QED BY <1>1 DEF OwnerInv

(* Caller p gets a mutex that nobody owns.                                 *)
LEMMA AcquireStep ==
  ASSUME OwnerTypeOK, OwnerInv, NEW p \in Callers, val = 0, val' \in 1..2,
         pc' = [pc EXCEPT ![p] = "cs"], UNCHANGED p_handover
  PROVE  OwnerInv' /\ L!Acquire(p)
<1>1. Owners = {} /\ p_handover = None /\ \A q \in Callers : pc[q] \notin Owning
  BY DEF OwnerTypeOK, OwnerInv, Owners
<1>2. Owners' = {p}
  BY <1>1 DEF OwnerTypeOK, OwnerInv, Owners, Owning
<1>3. OwnerInv'
  BY <1>1, <1>2 DEF OwnerTypeOK, OwnerInv, Owning, Labels
<1> QED BY <1>1, <1>2, <1>3 DEF L!Acquire

(* The owner gives the mutex up.                                           *)
LEMMA ReleaseStep ==
  ASSUME OwnerTypeOK, OwnerInv, NEW p \in Callers, pc[p] \in Owning, val' = 0,
         NEW l \in Labels \ Owning, pc' = [pc EXCEPT ![p] = l],
         UNCHANGED p_handover
  PROVE  OwnerInv' /\ L!Release(p)
<1>1. Owners = {p} /\ p_handover = None
  BY DEF OwnerTypeOK, OwnerInv, Owners
<1>2. Owners' = {}
  BY <1>1 DEF OwnerTypeOK, OwnerInv, Owners
<1>3. OwnerInv'
  BY <1>1, <1>2 DEF OwnerTypeOK, OwnerInv
<1> QED BY <1>1, <1>2, <1>3 DEF L!Release

(* unlock_se has popped a waiter q: it is the owner from now on.           *)
LEMMA HandOverStep ==
  ASSUME OwnerTypeOK, OwnerInv, NEW p \in Callers, NEW q \in Callers, pc[p] \in Owning,
         pc' = [pc EXCEPT ![p] = "se.switch"], p_handover' = q, UNCHANGED val
  PROVE  OwnerInv' /\ (L!HandOver(p, q) \/ Owners' = Owners)
<1>1. Owners = {p} /\ p_handover = None /\ val # 0
  BY DEF OwnerTypeOK, OwnerInv, Owners
<1>2. Owners' = {q} /\ \A r \in Callers : pc'[r] \notin Owning
  BY <1>1 DEF OwnerTypeOK, OwnerInv, Owners, Owning
<1>3. OwnerInv'
  BY <1>1, <1>2 DEF OwnerTypeOK, OwnerInv, Labels
<1> QED BY <1>1, <1>2, <1>3 DEF L!HandOver

(* The receiver of a handover goes on in its critical section.             *)
LEMMA ReceiveStep ==
  ASSUME OwnerTypeOK, OwnerInv, NEW p \in Callers, p_handover = p, p_handover' = None,
         pc' = [pc EXCEPT ![p] = "cs"], val' = 2
  PROVE  OwnerInv' /\ Owners' = Owners
<1>1. Owners = {p} /\ \A q \in Callers : pc[q] \notin Owning
  BY DEF OwnerTypeOK, OwnerInv, Owners
<1>2. Owners' = {p}
  BY <1>1 DEF OwnerTypeOK, OwnerInv, Owners, Owning
<1>3. OwnerInv'
  BY <1>1, <1>2 DEF OwnerTypeOK, OwnerInv, Labels, Owning
<1> QED BY <1>1, <1>2, <1>3

(* A caller that owns nothing moves on, or one that does within unlock.    *)
LEMMA MoveStep ==
  ASSUME OwnerTypeOK, OwnerInv, NEW p \in Callers, NEW l \in Labels,
         pc' = [pc EXCEPT ![p] = l], l \in Owning <=> pc[p] \in Owning,
         val' \in 0..2, val' = 0 <=> val = 0, UNCHANGED p_handover
  PROVE  OwnerInv' /\ Owners' = Owners
<1>1. pc' \in [Callers -> Labels] /\ \A q \in Callers : pc'[q] \in Owning <=> pc[q] \in Owning
  BY DEF OwnerTypeOK, OwnerInv
<1>2. Owners' = Owners
  BY <1>1, OwnersKept
<1> QED BY <1>1, <1>2 DEF OwnerTypeOK, OwnerInv

LEMMA OwnerStep ==
  ASSUME MutexAssumption, CallInv, RowInv, OwnerInv, [Next]_vars
  PROVE  OwnerInv' /\ (L!Next \/ Owners' = Owners)
<1>a. OwnerTypeOK
  BY DEF MutexAssumption, CallInv, OwnerTypeOK, Callers
<1>t. val \in 0..2
  BY DEF OwnerInv
<1>i. ASSUME NEW p \in Callers, L!Acquire(p) \/ L!Release(p) \/ \E q \in Callers : L!HandOver(p, q)
      PROVE  L!Next
  BY <1>i DEF L!Next
<1>1. ASSUME NEW p \in Callers, LockCas(p)
      PROVE  OwnerInv' /\ (L!Next \/ Owners' = Owners)
  <2>1. CASE val = 0
    BY <1>1, <1>a, <1>i, <2>1, AcquireStep DEF LockCas, Goto, handVars, rowVars
  <2>2. CASE val # 0
    BY <1>1, <1>a, <1>t, <2>2, MoveStep
      DEF LockCas, At, Goto, handVars, rowVars, Labels, Owning
  <2> QED BY <2>1, <2>2
<1>2. ASSUME NEW p \in Callers, LockExch(p)
      PROVE  OwnerInv' /\ (L!Next \/ Owners' = Owners)
  <2>1. CASE val = 0
    <3>1. pc' = [pc EXCEPT ![p] = "cs"] /\ val' \in 1..2 /\ UNCHANGED p_handover
      BY <1>2, <2>1 DEF LockExch, Goto, handVars, rowVars
    <3> QED BY <1>a, <1>i, <2>1, <3>1, AcquireStep
  <2>2. CASE val # 0
    <3>1. /\ pc[p] = "exch" /\ pc' = [pc EXCEPT ![p] = "check"] /\ val' = 2
          /\ UNCHANGED p_handover
      BY <1>2, <2>2 DEF LockExch, At, Goto, handVars, rowVars
    <3>2. val' \in 0..2 /\ (val' = 0 <=> val = 0)
      BY <2>2, <3>1
    <3>3. "check" \in Labels /\ ("check" \in Owning <=> pc[p] \in Owning)
      BY <3>1 DEF Labels, Owning
    <3> QED BY <1>a, <3>1, <3>2, <3>3, MoveStep
  <2> QED BY <2>1, <2>2
<1>3. ASSUME NEW p \in Callers, WaitCheck(p) \/ Suspend(p) \/ UnlockStore(p) \/ WakeNobody(p)
                                  \/ WakeReady(p) \/ Given(p) \/ Yield(p)
                                  \/ \E e \in Xstreams : \/ LockLowSwitched(e, p)
                                                         \/ SeCheck(e, p) \/ SeSwitch(e, p)
      PROVE  OwnerInv' /\ (L!Next \/ Owners' = Owners)
  <2>1. CASE UnlockStore(p)
    BY <1>a, <1>i, <2>1, ReleaseStep
      DEF UnlockStore, At, Goto, handVars, rowVars, Labels, Owning
  <2>2. CASE WaitCheck(p)
    BY <1>a, <1>t, <2>2, MoveStep DEF WaitCheck, At, Goto, handVars, rowVars, Labels, Owning
  <2>3. CASE Suspend(p)
    BY <1>a, <1>t, <2>3, MoveStep DEF Suspend, Goto, handVars, rowVars, Labels, Owning
  <2>4. CASE WakeNobody(p)
    BY <1>a, <1>t, <2>4, MoveStep
      DEF WakeNobody, At, Goto, handVars, rowVars, Labels, Owning, Unlocked
  <2>5. CASE WakeReady(p)
    BY <1>a, <1>t, <2>5, MoveStep
      DEF WakeReady, At, Goto, handVars, rowVars, Labels, Owning, Unlocked
  <2>6. CASE Given(p)
    BY <1>a, <1>t, <2>6, MoveStep DEF Given, At, Goto, handVars, rowVars, Labels, Owning
  <2>7. CASE Yield(p)
    BY <1>a, <1>t, <2>7, MoveStep DEF Yield, Goto, handVars, rowVars, Labels, Owning
  <2>8. CASE \E e \in Xstreams : LockLowSwitched(e, p)
    <3>1. /\ pc[p] = "switching" /\ pc' = [pc EXCEPT ![p] = "queued"]
          /\ UNCHANGED <<val, p_handover>>
      BY <2>8 DEF LockLowSwitched, Goto, handVars, rowVars
    <3> QED BY <1>a, <1>t, <3>1, MoveStep DEF Labels, Owning
  <2>9. CASE \E e \in Xstreams : SeCheck(e, p)
    <3>1. PICK l \in {"store", "se.pop", "se.poplow"} : pc' = [pc EXCEPT ![p] = l]
      BY <2>9 DEF SeCheck, Goto
    <3>2. pc[p] = "se.check" /\ UNCHANGED <<val, p_handover>>
      BY <2>9 DEF SeCheck, rowVars
    <3> QED BY <1>a, <1>t, <3>1, <3>2, MoveStep DEF Labels, Owning
  <2>10. CASE \E e \in Xstreams : SeSwitch(e, p)
    BY <1>a, <1>t, <2>10, MoveStep DEF SeSwitch, Goto, handVars, rowVars, Labels, Owning
  <2> QED BY <1>3, <2>1, <2>2, <2>3, <2>4, <2>5, <2>6, <2>7, <2>8, <2>9, <2>10
<1>4. ASSUME NEW p \in Callers, NEW e \in Xstreams, WaitPush(e, p)
      PROVE  OwnerInv' /\ (L!Next \/ Owners' = Owners)
  <2>1. /\ pc[p] = "push" /\ pc' = [pc EXCEPT ![p] = "suspend"] /\ UNCHANGED <<val, p_handover>>
    BY <1>4 DEF WaitPush, Goto, handVars
  <2> QED BY <1>a, <1>t, <2>1, MoveStep DEF Labels, Owning
<1>5. ASSUME NEW p \in Callers, NEW e \in Xstreams, LockLowSwitch(e, p)
      PROVE  OwnerInv' /\ (L!Next \/ Owners' = Owners)
  <2>1. /\ pc[p] = "user" /\ pc' = [pc EXCEPT ![p] = "switching"] /\ UNCHANGED <<val, p_handover>>
    BY <1>5 DEF LockLowSwitch, Goto, handVars
  <2> QED BY <1>a, <1>t, <2>1, MoveStep DEF Labels, Owning
<1>6. ASSUME NEW p \in Callers, Resumed(p)
      PROVE  OwnerInv' /\ (L!Next \/ Owners' = Owners)
  <2>1. CASE p_handover = p
    BY <1>6, <1>a, <2>1, ReceiveStep DEF Resumed, Goto, rowVars
  <2>2. CASE p_handover # p
    BY <1>6, <1>a, <1>t, <2>2, MoveStep DEF Resumed, At, Goto, rowVars, Labels, Owning
  <2> QED BY <2>1, <2>2
<1>7. ASSUME NEW p \in Callers, Unlock(p)
      PROVE  OwnerInv' /\ (L!Next \/ Owners' = Owners)
  <2>0. pc[p] = "cs" /\ val # 0
    BY <1>7 DEF Unlock, At, OwnerInv, Owners, Owning
  <2>1. CASE val = 1
    <3>1. PICK l \in {"yield", "user"} : pc' = [pc EXCEPT ![p] = l]
      BY <1>7, <2>1 DEF Unlock, Goto
    <3>2. val' = 0 /\ UNCHANGED p_handover
      BY <1>7, <2>1 DEF Unlock, handVars, rowVars
    <3>3. OwnerInv' /\ L!Release(p)
      BY <1>a, <2>0, <3>1, <3>2, ReleaseStep DEF Labels, Owning
    <3> QED BY <1>i, <3>3
  <2>2. CASE val = 2
    <3>1. PICK l \in {"se.check", "store"} : pc' = [pc EXCEPT ![p] = l]
      <4>1. val # 1
        BY <2>2
      <4> QED BY <1>7, <4>1 DEF Unlock, Goto
    <3>2. val' = 1 /\ UNCHANGED p_handover
      BY <1>7, <2>2 DEF Unlock, handVars, rowVars
    <3>3. val' \in 0..2 /\ (val' = 0 <=> val = 0)
      BY <2>2, <3>2
    <3> QED BY <1>a, <2>0, <3>1, <3>2, <3>3, MoveStep DEF Labels, Owning
  <2> QED BY <1>t, <2>0, <2>1, <2>2
<1>8. ASSUME NEW p \in Callers, WakePopHigh(p) \/ WakePopLow(p)
      PROVE  OwnerInv' /\ (L!Next \/ Owners' = Owners)
  <2>1. /\ pc[p] = "wake" /\ pc' = [pc EXCEPT ![p] = "ready"] /\ UNCHANGED <<val, p_handover>>
    BY <1>8 DEF WakePopHigh, WakePopLow, At, Goto, handVars
  <2> QED BY <1>a, <1>t, <2>1, MoveStep DEF Labels, Owning
<1>10. ASSUME NEW p \in Callers, NEW e \in Xstreams, SePop(e, p) \/ SePopLow(e, p)
       PROVE  OwnerInv' /\ (L!Next \/ Owners' = Owners)
  <2>1. PICK row \in {h_row, l_row} : PopFor(e, p, row)
    BY <1>10 DEF SePop, SePopLow
  <2>2. UNCHANGED val /\ pc[p] \in {"se.pop", "se.poplow"} /\ p \in Ults
    BY <1>10, RunsUlt DEF SePop, SePopLow
  <2>3. CASE row[e] = <<>>
    <3>1. pc' = [pc EXCEPT ![p] = "se.check"] /\ UNCHANGED p_handover
      BY <2>1, <2>3 DEF PopFor, Goto
    <3> QED BY <1>a, <1>t, <2>2, <3>1, MoveStep DEF Labels, Owning
  <2>4. CASE row[e] # <<>>
    <3>1. pc' = [pc EXCEPT ![p] = "se.switch"] /\ p_handover' = Head(row[e])
      BY <2>1, <2>4 DEF PopFor, Goto
    <3>2. Head(row[e]) \in Callers
      BY <2>2, <2>4, RowTyped DEF RowInv, Callers
    <3>3. OwnerInv' /\ (L!HandOver(p, Head(row[e])) \/ Owners' = Owners)
      BY <1>a, <2>2, <3>1, <3>2, HandOverStep DEF Owning
    <3> QED BY <1>i, <3>2, <3>3
  <2> QED BY <2>3, <2>4
<1>11. ASSUME NEW e \in Xstreams, NEW t \in Ults, Run(e, t)
       PROVE  OwnerInv' /\ (L!Next \/ Owners' = Owners)
  <2>1. UNCHANGED <<pc, val, p_handover>>
    BY <1>11 DEF Run, callVars, handVars, rowVars
  <2> QED BY <2>1, OwnerInvKept
<1>12. CASE UNCHANGED vars
  <2>1. UNCHANGED <<pc, val, p_handover>>
    BY <1>12 DEF vars, callVars, handVars, rowVars
  <2> QED BY <2>1, OwnerInvKept
<1> QED BY <1>1, <1>2, <1>3, <1>4, <1>5, <1>6, <1>7, <1>8, <1>10, <1>11, <1>12
      DEF Next, LockStep, UnlockStep

LEMMA InitInvs ==
  ASSUME MutexAssumption, Init
  PROVE  CallInv /\ RowInv /\ OwnerInv /\ Owners = {}
<1>1. Owners = {}
  BY DEF Init, Owners, Owning
<1>2. OwnerInv
  BY <1>1 DEF Init, OwnerInv, Owning
<1>3. CallInv
  BY DEF Init, SchedInit, CallInv, SchedTypeOK, Labels, Waiting
<1>4. <<>> \in Seq(Ults) /\ <<>> \in Seq(Xstreams)
  OBVIOUS
<1>5. RowInv
  BY <1>4 DEF Init, RowInv
<1> QED BY <1>1, <1>2, <1>3, <1>5

(* The mutex (mutex.c, abti_mutex.h) has one owner at a time, also during  *)
(* a handover by unlock_se, for any program and any numbers of callers,    *)
(* ESs, handovers and wakeups: every step is one of Lock or none.          *)
THEOREM MutexImplementsLock == Spec => ImplementsLock
<1>1. Init => CallInv /\ RowInv /\ OwnerInv /\ L!Init
  BY MutexAssumption, InitInvs DEF L!Init, OwnerInv
<1>2. CallInv /\ RowInv /\ OwnerInv /\ [Next]_vars =>
        CallInv' /\ RowInv' /\ OwnerInv' /\ [L!Next]_Owners
  BY MutexAssumption, CallStep, RowStep, OwnerStep
<1> QED BY <1>1, <1>2, PTL DEF Spec, ImplementsLock, L!Spec
-----------------------------------------------------------------------------
(* No two ESs execute one ULT, if only one ES pops a ULT that locks with   *)
(* low priority.                                                           *)

LowStaysHome ==
  \A g \in Programs : \A t \in g.low : \A d, e \in g.serves[t] : d = e

(* Where a waiter is held: in a row of ES x, by caller x that has popped   *)
(* it, or by unlock_se, which is about to switch to it.                    *)
Holds(k, x, u) ==
  \/ k = "high" /\ x \in Xstreams /\ Linked(h_row[x], u)
  \/ k = "low" /\ x \in Xstreams /\ Linked(l_row[x], u)
  \/ k = "popped" /\ x \in Callers /\ popped[x] = u
  \/ k = "handover" /\ x = None /\ p_handover = u /\ pc[p_giver] = "se.switch"

Once(s) == \A i, j \in 1..Len(s) : s[i] = s[j] => i = j

(* A waiter is held in one place, once.                                    *)
HeldOnce ==
  /\ \A u \in Ults : \A k, m, x, y : Holds(k, x, u) /\ Holds(m, y, u) => k = m /\ x = y
  /\ \A e \in Xstreams : Once(h_row[e]) /\ Once(l_row[e])

(* It is in no pool, and does not execute once its context is saved.       *)
Asleep(u) ==
  /\ u \notin pool /\ pc[u] \in {"suspend", "switching", "queued"}
  /\ pc[u] = "queued" => ~ Executes(u)

HeldSleeps == \A u \in Ults : \A k, x : Holds(k, x, u) => Asleep(u)

(* A waiter is in a row of an ES that serves it, and goes on there if it   *)
(* is switched to.                                                         *)
HomeInv ==
  \A e \in Xstreams, t \in Ults :
    /\ Runs(e, t) \/ Linked(h_row[e], t) \/ Linked(l_row[e], t) => e \in prog.serves[t]
    /\ Linked(l_row[e], t) => t \in prog.low
    /\ pc[t] = "switching" /\ Runs(e, t) =>
         popped[t] \in prog.low /\ popped[t] # t /\ e \in prog.serves[popped[t]]
    /\ pc[t] = "se.switch" /\ Runs(e, t) => e \in prog.serves[p_handover]

ExecInv ==
  /\ RunsOnce
  /\ \A t \in pool : Executes(t) => pc[t] = "switching"
  /\ \A t \in Ults :
       /\ pc[t] = "suspend" <=> t \in blocking
       /\ pc[t] \in {"suspend", "switching", "se.check", "se.pop", "se.poplow", "se.switch"} => Executes(t)
       /\ pc[t] = "switching" => t \in prog.low /\ popped[t] # None

(* The giver of a handover has no ES and is in no pool until the receiver, *)
(* which executes, goes on.                                                *)
GiveInv ==
  /\ \A t \in Ults : pc[t] = "se.switch" => p_handover # None /\ p_giver = t
  /\ p_handover # None => pc[p_giver] \in {"se.switch", "given"}
  /\ p_handover # None /\ pc[p_giver] = "given" =>
       /\ ~ Executes(p_giver) /\ p_giver \notin pool
       /\ pc[p_handover] = "queued" /\ Executes(p_handover)

CountInv ==
  \A e \in Xstreams :
    /\ num_handovers[e] <= MaxHandovers
    /\ \A t \in Ults : Runs(e, t) /\ pc[t] \in {"se.pop", "se.poplow"} => num_handovers[e] < MaxHandovers

UltInv == HeldOnce /\ HeldSleeps /\ HomeInv /\ ExecInv /\ GiveInv /\ CountInv

(* What the lemmas of this section need of the types.                      *)
UltTypeOK ==
  /\ cur \in [Xstreams -> Ults \cup {None}] /\ pool \in SUBSET Ults /\ blocking \in SUBSET Ults
  /\ pc \in [Callers -> Labels] /\ popped \in [Callers -> Ults \cup {None}]
  /\ p_handover \in Ults \cup {None} /\ p_giver \in Ults \cup {None}
  /\ p_handover # None => p_giver # None
  /\ h_row \in [Xstreams -> Seq(Ults)] /\ l_row \in [Xstreams -> Seq(Ults)]
  /\ num_handovers \in [Xstreams -> Nat] /\ MaxHandovers \in Nat \ {0}
  /\ prog.serves \in [Ults -> SUBSET Xstreams] /\ prog.low \in SUBSET Ults
  /\ \A t \in prog.low : \A d, e \in prog.serves[t] : d = e
  /\ None \notin Callers /\ Ults \cap Externals = {} /\ Ults \subseteq Callers

LEMMA UltTyped ==
  ASSUME MutexAssumption, LowStaysHome, CallInv, RowInv
  PROVE  UltTypeOK
<1>1. \A t \in prog.low : \A d, e \in prog.serves[t] : d = e
  BY DEF CallInv, LowStaysHome
<1>2. prog.serves \in [Ults -> SUBSET Xstreams] /\ prog.low \in SUBSET Ults
  BY ProgramTyped
<1> QED BY <1>1, <1>2 DEF MutexAssumption, CallInv, RowInv, SchedTypeOK, UltTypeOK, Callers

(* A waiter joins a row at its end, or leaves it as its head.              *)
LEMMA AppendWaiter ==
  ASSUME NEW s \in Seq(Ults), NEW p \in Ults
  PROVE  /\ \A u \in Ults : Linked(Append(s, p), u) <=> Linked(s, u) \/ u = p
         /\ Once(s) /\ ~ Linked(s, p) => Once(Append(s, p))
<1> DEFINE n == Len(s)  w == Append(s, p)
<1>1. n \in Nat /\ DOMAIN s = 1..n
  OBVIOUS
<1>2. Len(w) = n + 1 /\ DOMAIN w = 1..(n + 1) /\ w[n + 1] = p /\ \A i \in 1..n : w[i] = s[i]
  OBVIOUS
<1> HIDE DEF n, w
<1>4. \A i \in 1..(n + 1) : i = n + 1 \/ i \in 1..n
  BY <1>1
<1>5. \A u \in Ults : Linked(w, u) <=> Linked(s, u) \/ u = p
  <2>1. \A u \in Ults : Linked(w, u) <=> \E i \in 1..(n + 1) : w[i] = u
    BY <1>2 DEF Linked
  <2>2. \A u \in Ults : Linked(s, u) <=> \E i \in 1..n : s[i] = u
    BY <1>1 DEF Linked
  <2>3. n + 1 \in 1..(n + 1) /\ \A i \in 1..n : i \in 1..(n + 1)
    BY <1>1
  <2> QED BY <1>2, <1>4, <2>1, <2>2, <2>3
<1>6. ASSUME Once(s), ~ Linked(s, p)
      PROVE  Once(w)
  <2>1. \A i \in 1..n : s[i] # p
    BY <1>1, <1>6 DEF Linked
  <2>2. \A i, j \in 1..n : s[i] = s[j] => i = j
    BY <1>6 DEF Once, n
  <2> QED BY <1>2, <1>4, <2>1, <2>2 DEF Once
<1> QED BY <1>5, <1>6 DEF w

LEMMA TailWaiter ==
  ASSUME NEW s \in Seq(Ults), s # <<>>, Once(s)
  PROVE  /\ Head(s) \in Ults /\ Tail(s) \in Seq(Ults) /\ Linked(s, Head(s))
         /\ \A u \in Ults : Linked(Tail(s), u) <=> Linked(s, u) /\ u # Head(s)
         /\ Once(Tail(s))
<1> DEFINE n == Len(s)  w == Tail(s)
<1>1. n \in Nat \ {0} /\ DOMAIN s = 1..n /\ Head(s) = s[1] /\ Head(s) \in Ults
  OBVIOUS
<1>2. Len(w) = n - 1 /\ w \in Seq(Ults) /\ \A i \in 1..(n - 1) : w[i] = s[i + 1]
  OBVIOUS
<1>3. DOMAIN w = 1..(n - 1)
  BY <1>2
<1>4. \A i, j \in 1..n : s[i] = s[j] => i = j
  BY DEF Once
<1> HIDE DEF n, w
<1>5. \A i \in 1..(n - 1) : i + 1 \in 1..n /\ i + 1 # 1
  BY <1>1
<1>6. \A i \in 1..n : i # 1 => i - 1 \in 1..(n - 1) /\ (i - 1) + 1 = i
  BY <1>1
<1>7. 1 \in 1..n
  BY <1>1
<1>8. Linked(s, Head(s))
  BY <1>1, <1>7 DEF Linked
<1>9. ASSUME NEW u \in Ults
      PROVE  Linked(w, u) <=> Linked(s, u) /\ u # Head(s)
  <2>1. ASSUME Linked(w, u)
        PROVE  Linked(s, u) /\ u # Head(s)
    <3>1. PICK i \in 1..(n - 1) : w[i] = u
      BY <1>3, <2>1 DEF Linked
    <3>2. s[i + 1] = u /\ i + 1 \in 1..n /\ i + 1 # 1
      BY <1>2, <1>5, <3>1
    <3>3. u # s[1]
      BY <1>4, <1>7, <3>2
    <3> QED BY <1>1, <3>2, <3>3 DEF Linked
  <2>2. ASSUME Linked(s, u), u # Head(s)
        PROVE  Linked(w, u)
    <3>1. PICK i \in 1..n : s[i] = u
      BY <1>1, <2>2 DEF Linked
    <3>2. i - 1 \in 1..(n - 1) /\ (i - 1) + 1 = i
      BY <1>1, <1>6, <2>2, <3>1
    <3>3. w[i - 1] = u
      BY <1>2, <3>1, <3>2
    <3> QED BY <1>3, <3>2, <3>3 DEF Linked
  <2> QED BY <2>1, <2>2
<1>10. Once(w)
  <2>1. ASSUME NEW i \in 1..(n - 1), NEW j \in 1..(n - 1), w[i] = w[j]
        PROVE  i = j
    <3>1. i + 1 = j + 1
      BY <1>2, <1>4, <1>5, <2>1
    <3> QED BY <3>1
  <2> QED BY <1>2, <2>1 DEF Once
<1> QED BY <1>1, <1>2, <1>8, <1>9, <1>10 DEF w

(* A step of a caller that executes, in which no ULT moves.                *)
LEMMA UltMoves ==
  ASSUME UltTypeOK, UltInv, NEW p \in Callers, Executes(p),
         pc[p] \notin {"suspend", "switching", "se.switch"}, pc[p] = "queued" => p_handover # p,
         NEW l \in Labels \ {"suspend", "switching", "queued", "se.pop", "se.poplow", "se.switch", "given"},
         pc' = [pc EXCEPT ![p] = l],
         UNCHANGED <<prog, cur, pool, blocking, popped, p_handover, p_giver, num_handovers, h_row, l_row>>
  PROVE  UltInv'
<1> USE DEF UltTypeOK, UltInv
<1>1. \A q \in Callers : q # p => pc'[q] = pc[q]
  OBVIOUS
<1>2. \A q : Executes(q)' <=> Executes(q)
  BY DEF Executes
<1>3. \A u \in Ults : \A k, x : Holds(k, x, u)' <=> Holds(k, x, u)
  <2>1. ASSUME p_handover # None
        PROVE  pc'[p_giver] = "se.switch" <=> pc[p_giver] = "se.switch"
    BY <2>1
  <2> QED BY <2>1 DEF Holds
<1>4. HeldOnce'
  BY <1>3 DEF HeldOnce
<1>5. HeldSleeps'
  <2>1. \A u \in Ults : \A k, x : Holds(k, x, u) => u # p
    BY DEF HeldSleeps, Asleep
  <2> QED BY <1>1, <1>2, <1>3, <2>1 DEF HeldSleeps, Asleep
<1>6. HomeInv'
  BY <1>1 DEF HomeInv, Runs
<1>7. ExecInv'
  BY <1>1, <1>2 DEF ExecInv, RunsOnce
<1>8. GiveInv'
  <2>1. ASSUME p_handover # None
        PROVE  p_giver # p /\ (pc[p_giver] = "given" => p_handover # p)
    BY <2>1 DEF GiveInv
  <2>2. ASSUME p_handover # None
        PROVE  /\ pc'[p_giver] = pc[p_giver] /\ (pc[p_giver] = "given" => pc'[p_handover] = pc[p_handover])
    BY <1>1, <2>1, <2>2
  <2> QED BY <1>1, <1>2, <2>2 DEF GiveInv
<1>9. CountInv'
  BY <1>1 DEF CountInv, Runs
<1> QED BY <1>4, <1>5, <1>6, <1>7, <1>8, <1>9

(* A ULT leaves its ES: for its pool, or as a waiter.                      *)
LEMMA UltLeaves ==
  ASSUME UltTypeOK, UltInv, NEW p \in Ults, Executes(p), BackToSched(p),
         \/ /\ pc[p] \in {"yield", "user", "cs"} /\ pool' = pool \cup {p} /\ UNCHANGED blocking
            /\ \E l \in {"user", "cs"} : pc' = [pc EXCEPT ![p] = l]
         \/ /\ pc[p] = "suspend" /\ UNCHANGED pool /\ blocking' = blocking \ {p}
            /\ pc' = [pc EXCEPT ![p] = "queued"],
         UNCHANGED <<prog, popped, p_handover, p_giver, num_handovers, h_row, l_row>>
  PROVE  UltInv'
<1> USE DEF UltTypeOK, UltInv
<1>1. /\ p \in Callers /\ pc[p] \in {"yield", "user", "cs", "suspend"}
      /\ \A q \in Callers : q # p => pc'[q] = pc[q]
      /\ pc'[p] \in {"user", "cs", "queued"} /\ (pc'[p] = "queued" => pc[p] = "suspend")
      /\ pool' \in {pool, pool \cup {p}} /\ (p \in pool' => pc[p] # "suspend")
  BY DEF ExecInv
<1>2. /\ \A e \in Xstreams : cur'[e] = IF cur[e] = p THEN None ELSE cur[e]
      /\ \A q \in Callers : Executes(q)' <=> Executes(q) /\ q # p
  BY DEF BackToSched, Executes
<1>3. \A u \in Ults : \A k, x : Holds(k, x, u)' <=> Holds(k, x, u)
  <2>1. ASSUME p_handover # None
        PROVE  pc'[p_giver] = "se.switch" <=> pc[p_giver] = "se.switch"
    BY <1>1, <2>1
  <2> QED BY <2>1 DEF Holds
<1>4. HeldOnce'
  BY <1>3 DEF HeldOnce
<1>5. HeldSleeps'
  <2>1. \A u \in Ults : \A k, x : Holds(k, x, u) => Asleep(u)
    BY DEF HeldSleeps
  <2>2. ASSUME NEW u \in Ults, Asleep(u)
        PROVE  Asleep(u)'
    <3>1. CASE u = p
      BY <1>1, <1>2, <2>2, <3>1 DEF Asleep
    <3>2. CASE u # p
      BY <1>1, <1>2, <2>2, <3>2 DEF Asleep
    <3> QED BY <3>1, <3>2
  <2> QED BY <1>3, <2>1, <2>2 DEF HeldSleeps
<1>6. HomeInv'
  BY <1>1, <1>2 DEF HomeInv, Runs
<1>7. ExecInv'
  <2>1. RunsOnce'
    BY <1>2 DEF ExecInv, RunsOnce
  <2>2. \A t \in pool' : Executes(t)' => pc'[t] = "switching"
    BY <1>1, <1>2 DEF ExecInv
  <2>3. ASSUME NEW t \in Ults
        PROVE  (/\ pc[t] = "suspend" <=> t \in blocking
                /\ pc[t] \in {"suspend", "switching", "se.check", "se.pop", "se.poplow", "se.switch"}
                     => Executes(t)
                /\ pc[t] = "switching" => t \in prog.low /\ popped[t] # None)'
    <3>1. CASE t = p
      BY <1>1, <3>1 DEF ExecInv
    <3>2. CASE t # p
      BY <1>1, <1>2, <3>2 DEF ExecInv
    <3> QED BY <3>1, <3>2
  <2> QED BY <2>1, <2>2, <2>3 DEF ExecInv
<1>8. GiveInv'
  <2>1. ASSUME p_handover # None
        PROVE  p_giver # p /\ (pc[p_giver] = "given" => p_handover # p)
    BY <1>1, <2>1 DEF GiveInv
  <2>2. ASSUME p_handover # None
        PROVE  /\ pc'[p_giver] = pc[p_giver] /\ (pc[p_giver] = "given" => pc'[p_handover] = pc[p_handover])
    BY <1>1, <2>1, <2>2
  <2>3. p_handover # None /\ pc[p_giver] = "given" => ~ Executes(p_giver)' /\ p_giver \notin pool'
          /\ Executes(p_handover)'
    BY <1>1, <1>2, <2>1 DEF GiveInv
  <2> QED BY <1>1, <2>2, <2>3 DEF GiveInv
<1>9. CountInv'
  <2>1. ASSUME NEW e \in Xstreams, NEW t \in Ults, Runs(e, t)', pc'[t] \in {"se.pop", "se.poplow"}
        PROVE  Runs(e, t) /\ pc[t] = pc'[t]
    BY <1>1, <1>2, <2>1 DEF Runs
  <2> QED BY <2>1 DEF CountInv
<1> QED BY <1>4, <1>5, <1>6, <1>7, <1>8, <1>9

(* A ULT joins a row.                                                      *)
LEMMA UltQueues ==
  ASSUME UltTypeOK, UltInv, NEW e \in Xstreams, NEW p \in Ults, Runs(e, p), pc[p] = "push",
         blocking' = blocking \cup {p}, pc' = [pc EXCEPT ![p] = "suspend"],
         \/ /\ p \in prog.low /\ l_row' = [l_row EXCEPT ![e] = Append(@, p)] /\ UNCHANGED h_row
         \/ /\ h_row' = [h_row EXCEPT ![e] = Append(@, p)] /\ UNCHANGED l_row,
         UNCHANGED <<prog, cur, pool, popped, p_handover, p_giver, num_handovers>>
  PROVE  UltInv'
<1> USE DEF UltTypeOK, UltInv
<1>1. /\ p \in Callers /\ Executes(p) /\ p \notin pool
      /\ \A q \in Callers : q # p => pc'[q] = pc[q]
      /\ pc'[p] = "suspend"
  BY DEF ExecInv, Runs, Executes
<1>2. \A q : Executes(q)' <=> Executes(q)
  BY DEF Executes
<1>3. \A k, x : ~ Holds(k, x, p)
  BY DEF HeldSleeps, Asleep
<1> DEFINE Joins(c) ==
             /\ c = "low" => p \in prog.low
             /\ \A d \in Xstreams, u \in Ults :
                  /\ Linked(h_row'[d], u) <=> Linked(h_row[d], u) \/ (c = "high" /\ d = e /\ u = p)
                  /\ Linked(l_row'[d], u) <=> Linked(l_row[d], u) \/ (c = "low" /\ d = e /\ u = p)
             /\ \A d \in Xstreams : Once(h_row'[d]) /\ Once(l_row'[d])
<1>a. PICK c \in {"high", "low"} : Joins(c)
  <2>1. \A d \in Xstreams : ~ Linked(h_row[d], p) /\ ~ Linked(l_row[d], p)
                            /\ Once(h_row[d]) /\ Once(l_row[d])
    BY <1>3 DEF Holds, HeldOnce
  <2>2. CASE p \in prog.low /\ l_row' = [l_row EXCEPT ![e] = Append(@, p)] /\ UNCHANGED h_row
    <3>1. /\ \A d \in Xstreams, u \in Ults :
                 Linked(l_row'[d], u) <=> Linked(l_row[d], u) \/ (d = e /\ u = p)
          /\ \A d \in Xstreams : Once(l_row'[d])
      <4>1. /\ l_row[e] \in Seq(Ults) /\ l_row'[e] = Append(l_row[e], p)
            /\ \A d \in Xstreams : d # e => l_row'[d] = l_row[d]
        BY <2>2
      <4>2. /\ \A u \in Ults : Linked(l_row'[e], u) <=> Linked(l_row[e], u) \/ u = p
            /\ Once(l_row'[e])
        BY <2>1, <4>1, AppendWaiter
      <4> QED BY <2>1, <4>1, <4>2
    <3>2. Joins("low")
      BY <2>1, <2>2, <3>1
    <3> HIDE DEF Joins
    <3> QED BY <3>2
  <2>3. CASE h_row' = [h_row EXCEPT ![e] = Append(@, p)] /\ UNCHANGED l_row
    <3>1. /\ \A d \in Xstreams, u \in Ults :
                 Linked(h_row'[d], u) <=> Linked(h_row[d], u) \/ (d = e /\ u = p)
          /\ \A d \in Xstreams : Once(h_row'[d])
      <4>1. /\ h_row[e] \in Seq(Ults) /\ h_row'[e] = Append(h_row[e], p)
            /\ \A d \in Xstreams : d # e => h_row'[d] = h_row[d]
        BY <2>3
      <4>2. /\ \A u \in Ults : Linked(h_row'[e], u) <=> Linked(h_row[e], u) \/ u = p
            /\ Once(h_row'[e])
        BY <2>1, <4>1, AppendWaiter
      <4> QED BY <2>1, <4>1, <4>2
    <3>2. Joins("high")
      BY <2>1, <2>3, <3>1
    <3> HIDE DEF Joins
    <3> QED BY <3>2
  <2> HIDE DEF Joins
  <2> QED BY <2>2, <2>3
<1>4. /\ c = "low" => p \in prog.low
      /\ \A d \in Xstreams, u \in Ults :
           /\ Linked(h_row'[d], u) <=> Linked(h_row[d], u) \/ (c = "high" /\ d = e /\ u = p)
           /\ Linked(l_row'[d], u) <=> Linked(l_row[d], u) \/ (c = "low" /\ d = e /\ u = p)
      /\ \A d \in Xstreams : Once(h_row'[d]) /\ Once(l_row'[d])
  BY <1>a
<1>5. \A u \in Ults : \A k, x : Holds(k, x, u)' <=> Holds(k, x, u) \/ (u = p /\ k = c /\ x = e)
  <2>1. ASSUME p_handover # None
        PROVE  pc'[p_giver] = "se.switch" <=> pc[p_giver] = "se.switch"
    BY <1>1, <2>1
  <2> QED BY <1>4, <2>1 DEF Holds
<1>6. HeldOnce'
  <2>1. ASSUME NEW u \in Ults, NEW k, NEW m, NEW x, NEW y, Holds(k, x, u)', Holds(m, y, u)'
        PROVE  k = m /\ x = y
    <3>1. CASE u = p
      <4>1. ~ Holds(k, x, u) /\ ~ Holds(m, y, u)
        BY <1>3, <3>1
      <4> QED BY <1>5, <2>1, <4>1
    <3>2. CASE u # p
      BY <1>5, <2>1, <3>2 DEF HeldOnce
    <3> QED BY <3>1, <3>2
  <2> QED BY <1>4, <2>1 DEF HeldOnce
<1>7. HeldSleeps'
  <2>1. Asleep(p)'
    BY <1>1 DEF Asleep
  <2>2. \A u \in Ults : u # p /\ Asleep(u) => Asleep(u)'
    BY <1>1, <1>2 DEF Asleep
  <2> QED BY <1>3, <1>5, <2>1, <2>2 DEF HeldSleeps
<1>8. HomeInv'
  BY <1>1, <1>4 DEF HomeInv, Runs
<1>9. ExecInv'
  BY <1>1, <1>2 DEF ExecInv, RunsOnce
<1>10. GiveInv'
  <2>1. ASSUME p_handover # None
        PROVE  p_giver # p /\ (pc[p_giver] = "given" => p_handover # p)
    BY <2>1 DEF GiveInv
  <2> QED BY <1>1, <1>2, <2>1 DEF GiveInv
<1>11. CountInv'
  BY <1>1 DEF CountInv, Runs
<1> QED BY <1>6, <1>7, <1>8, <1>9, <1>10, <1>11

(* The head of row e of kind c leaves it.                                  *)
PopsRow(c, e, u) ==
  \/ /\ c = "high" /\ h_row[e] # <<>> /\ u = Head(h_row[e])
     /\ h_row' = [h_row EXCEPT ![e] = Tail(@)] /\ UNCHANGED l_row
  \/ /\ c = "low" /\ l_row[e] # <<>> /\ u = Head(l_row[e])
     /\ l_row' = [l_row EXCEPT ![e] = Tail(@)] /\ UNCHANGED h_row

LEMMA RowPop ==
  ASSUME UltTypeOK, HeldOnce, NEW e \in Xstreams, NEW c, NEW u, PopsRow(c, e, u)
  PROVE  /\ u \in Ults /\ Holds(c, e, u) /\ c \in {"high", "low"}
         /\ \A d \in Xstreams, v \in Ults :
              /\ Linked(h_row'[d], v) <=> Linked(h_row[d], v) /\ ~ (c = "high" /\ d = e /\ v = u)
              /\ Linked(l_row'[d], v) <=> Linked(l_row[d], v) /\ ~ (c = "low" /\ d = e /\ v = u)
         /\ \A d \in Xstreams : Once(h_row'[d]) /\ Once(l_row'[d])
<1>1. \A d \in Xstreams : Once(h_row[d]) /\ Once(l_row[d])
  BY DEF HeldOnce
<1>2. CASE c = "high"
  <2>1. /\ h_row[e] \in Seq(Ults) /\ h_row[e] # <<>> /\ u = Head(h_row[e]) /\ h_row'[e] = Tail(h_row[e])
        /\ \A d \in Xstreams : d # e => h_row'[d] = h_row[d]
        /\ UNCHANGED l_row
    BY <1>2 DEF PopsRow, UltTypeOK
  <2>2. /\ u \in Ults /\ Linked(h_row[e], u)
        /\ \A v \in Ults : Linked(h_row'[e], v) <=> Linked(h_row[e], v) /\ v # u
        /\ Once(h_row'[e])
    BY <1>1, <2>1, TailWaiter
  <2> QED BY <1>1, <1>2, <2>1, <2>2 DEF Holds
<1>3. CASE c = "low"
  <2>1. /\ l_row[e] \in Seq(Ults) /\ l_row[e] # <<>> /\ u = Head(l_row[e]) /\ l_row'[e] = Tail(l_row[e])
        /\ \A d \in Xstreams : d # e => l_row'[d] = l_row[d]
        /\ UNCHANGED h_row
    BY <1>3 DEF PopsRow, UltTypeOK
  <2>2. /\ u \in Ults /\ Linked(l_row[e], u)
        /\ \A v \in Ults : Linked(l_row'[e], v) <=> Linked(l_row[e], v) /\ v # u
        /\ Once(l_row'[e])
    BY <1>1, <2>1, TailWaiter
  <2> QED BY <1>1, <1>3, <2>1, <2>2 DEF Holds
<1> QED BY <1>2, <1>3 DEF PopsRow

(* A waker pops a waiter.                                                  *)
LEMMA UltPops ==
  ASSUME UltTypeOK, UltInv, NEW e \in Xstreams, NEW p \in Callers, NEW c, NEW u, PopsRow(c, e, u),
         pc[p] = "wake", pc' = [pc EXCEPT ![p] = "ready"], popped' = [popped EXCEPT ![p] = u],
         UNCHANGED <<prog, cur, pool, blocking, p_handover, p_giver, num_handovers>>
  PROVE  UltInv'
<1> USE DEF UltTypeOK, UltInv
<1>1. /\ \A q \in Callers : q # p => pc'[q] = pc[q] /\ popped'[q] = popped[q]
      /\ pc'[p] = "ready" /\ popped'[p] = u
  OBVIOUS
<1>2. \A q : Executes(q)' <=> Executes(q)
  BY DEF Executes
<1>3. /\ u \in Ults /\ Holds(c, e, u) /\ c \in {"high", "low"}
      /\ \A d \in Xstreams, v \in Ults :
           /\ Linked(h_row'[d], v) <=> Linked(h_row[d], v) /\ ~ (c = "high" /\ d = e /\ v = u)
           /\ Linked(l_row'[d], v) <=> Linked(l_row[d], v) /\ ~ (c = "low" /\ d = e /\ v = u)
      /\ \A d \in Xstreams : Once(h_row'[d]) /\ Once(l_row'[d])
  BY RowPop
<1>4. \A k, x : Holds(k, x, u) => k = c /\ x = e
  BY <1>3 DEF HeldOnce
<1>5. ASSUME p_handover # None
      PROVE  pc'[p_giver] = pc[p_giver]
  <2>1. p_giver \in Callers /\ p_giver # p
    BY <1>5 DEF GiveInv
  <2> QED BY <1>1, <2>1
<1>6. \A v \in Ults : \A k, x :
        Holds(k, x, v)' => (v = u /\ k = "popped" /\ x = p) \/ (v # u /\ Holds(k, x, v))
  <2>1. ASSUME NEW v \in Ults, v # u, NEW k, NEW x, Holds(k, x, v)'
        PROVE  Holds(k, x, v)
    BY <1>1, <1>3, <1>5, <2>1 DEF Holds
  <2>2. ASSUME NEW k, NEW x, Holds(k, x, u)'
        PROVE  k = "popped" /\ x = p
    <3>1. ~ Holds("high", x, u) \/ (c = "high" /\ x = e)
      BY <1>4
    <3>2. ~ Holds("low", x, u) \/ (c = "low" /\ x = e)
      BY <1>4
    <3>3. ~ Holds("popped", x, u) /\ ~ Holds("handover", x, u)
      BY <1>3, <1>4
    <3> QED BY <1>1, <1>3, <1>5, <2>2, <3>1, <3>2, <3>3 DEF Holds
  <2> QED BY <2>1, <2>2
<1>7. HeldOnce'
  <2>1. ASSUME NEW v \in Ults, NEW k, NEW m, NEW x, NEW y, Holds(k, x, v)', Holds(m, y, v)'
        PROVE  k = m /\ x = y
    <3>1. CASE v = u
      BY <1>6, <2>1, <3>1
    <3>2. CASE v # u
      BY <1>6, <2>1, <3>2 DEF HeldOnce
    <3> QED BY <3>1, <3>2
  <2> QED BY <1>3, <2>1 DEF HeldOnce
<1>8. HeldSleeps'
  <2>1. \A v \in Ults : \A k, x : Holds(k, x, v)' => Asleep(v)
    BY <1>3, <1>6 DEF HeldSleeps
  <2>2. \A v \in Ults : Asleep(v) => Asleep(v)'
    BY <1>1, <1>2 DEF Asleep
  <2> QED BY <2>1, <2>2 DEF HeldSleeps
<1>9. HomeInv'
  BY <1>1, <1>3 DEF HomeInv, Runs
<1>10. ExecInv'
  BY <1>1, <1>2 DEF ExecInv, RunsOnce
<1>11. GiveInv'
  <2>1. p_handover # None /\ pc[p_giver] = "given" => p_handover # p
    BY DEF GiveInv
  <2> QED BY <1>1, <1>2, <1>5, <2>1 DEF GiveInv
<1>12. CountInv'
  BY <1>1 DEF CountInv, Runs
<1> QED BY <1>7, <1>8, <1>9, <1>10, <1>11, <1>12

(* The waiter goes to its pool.                                            *)
LEMMA UltReady ==
  ASSUME UltTypeOK, UltInv, NEW p \in Callers, NEW u, popped[p] = u, u # None, pc[p] = "ready",
         SetReady(u), popped' = [popped EXCEPT ![p] = None],
         NEW l \in {"wake", "yield", "user"}, pc' = [pc EXCEPT ![p] = l],
         UNCHANGED <<prog, cur, blocking, p_handover, p_giver, num_handovers, h_row, l_row>>
  PROVE  UltInv'
<1> USE DEF UltTypeOK, UltInv
<1>1. /\ \A q \in Callers : q # p => pc'[q] = pc[q] /\ popped'[q] = popped[q]
      /\ pc'[p] = l /\ popped'[p] = None
      /\ pool' = pool \cup {u} /\ u \notin blocking
  BY DEF SetReady
<1>2. \A q : Executes(q)' <=> Executes(q)
  BY DEF Executes
<1>3. u \in Ults /\ Holds("popped", p, u) /\ Asleep(u)
  BY DEF Holds, HeldSleeps
<1>4. \A k, x : Holds(k, x, u) => k = "popped" /\ x = p
  BY <1>3 DEF HeldOnce
<1>5. ASSUME p_handover # None
      PROVE  pc'[p_giver] = pc[p_giver] /\ p_giver # u
  <2>1. p_giver \in Callers /\ p_giver # p /\ pc[p_giver] \notin {"suspend", "switching", "queued"}
    BY <1>5 DEF GiveInv
  <2> QED BY <1>1, <1>3, <2>1 DEF Asleep
<1>6. \A v \in Ults : \A k, x : Holds(k, x, v)' => v # u /\ Holds(k, x, v)
  <2>1. ASSUME NEW v \in Ults, NEW k, NEW x, Holds(k, x, v)'
        PROVE  Holds(k, x, v) /\ ~ (k = "popped" /\ x = p)
    BY <1>1, <1>5, <2>1 DEF Holds
  <2>2. ASSUME NEW k, NEW x, Holds(k, x, u), ~ (k = "popped" /\ x = p)
        PROVE  FALSE
    BY <1>4, <2>2
  <2> QED BY <2>1, <2>2
<1>7. HeldOnce'
  BY <1>6 DEF HeldOnce
<1>8. HeldSleeps'
  <2>1. \A v \in Ults : \A k, x : Holds(k, x, v)' => v # u /\ Asleep(v)
    BY <1>6 DEF HeldSleeps
  <2>2. \A v \in Ults : v # u /\ Asleep(v) => Asleep(v)'
    BY <1>1, <1>2 DEF Asleep
  <2> QED BY <2>1, <2>2 DEF HeldSleeps
<1>9. HomeInv'
  BY <1>1 DEF HomeInv, Runs
<1>10. ExecInv'
  <2>1. Executes(u) => pc[u] = "switching"
    BY <1>1, <1>3 DEF Asleep, ExecInv
  <2>2. u # p
    BY <1>3 DEF Asleep
  <2>3. \A t \in pool' : Executes(t)' => pc'[t] = "switching"
    BY <1>1, <1>2, <2>1, <2>2 DEF ExecInv
  <2> QED BY <1>1, <1>2, <2>3 DEF ExecInv, RunsOnce
<1>11. GiveInv'
  <2>1. p_handover # None /\ pc[p_giver] = "given" => p_handover # p
    BY DEF GiveInv
  <2> QED BY <1>1, <1>2, <1>5, <2>1 DEF GiveInv
<1>12. CountInv'
  BY <1>1 DEF CountInv, Runs
<1> QED BY <1>7, <1>8, <1>9, <1>10, <1>11, <1>12

(* unlock_se looks for a receiver.                                         *)
LEMMA UltChecks ==
  ASSUME UltTypeOK, UltInv, NEW e \in Xstreams, NEW p \in Ults, Runs(e, p), pc[p] = "se.check",
         NEW l \in {"store", "se.pop", "se.poplow"}, pc' = [pc EXCEPT ![p] = l],
         NEW n \in {0, num_handovers[e]}, num_handovers' = [num_handovers EXCEPT ![e] = n],
         l # "store" => n < MaxHandovers,
         UNCHANGED <<prog, cur, pool, blocking, popped, p_handover, p_giver, h_row, l_row>>
  PROVE  UltInv'
<1> USE DEF UltTypeOK, UltInv
<1>1. /\ p \in Callers /\ Executes(p) /\ pc'[p] = l
      /\ \A q \in Callers : q # p => pc'[q] = pc[q]
  BY DEF Executes, Runs
<1>2. \A q : Executes(q)' <=> Executes(q)
  BY DEF Executes
<1>3. ASSUME p_handover # None
      PROVE  pc'[p_giver] = pc[p_giver]
  <2>1. p_giver \in Callers /\ p_giver # p
    BY <1>3 DEF GiveInv
  <2> QED BY <1>1, <2>1
<1>4. \A u \in Ults : \A k, x : Holds(k, x, u)' <=> Holds(k, x, u)
  BY <1>3 DEF Holds
<1>5. HeldOnce'
  BY <1>4 DEF HeldOnce
<1>6. HeldSleeps'
  <2>1. \A u \in Ults : \A k, x : Holds(k, x, u) => u # p
    BY DEF HeldSleeps, Asleep
  <2> QED BY <1>1, <1>2, <1>4, <2>1 DEF HeldSleeps, Asleep
<1>7. HomeInv'
  BY <1>1 DEF HomeInv, Runs
<1>8. ExecInv'
  BY <1>1, <1>2 DEF ExecInv, RunsOnce
<1>9. GiveInv'
  <2>1. p_handover # None /\ pc[p_giver] = "given" => p_handover # p
    BY DEF GiveInv
  <2> QED BY <1>1, <1>2, <1>3, <2>1 DEF GiveInv
<1>10. CountInv'
  <2>1. ASSUME NEW d \in Xstreams
        PROVE  num_handovers'[d] <= MaxHandovers
    <3>1. num_handovers[d] \in Nat /\ num_handovers[d] <= MaxHandovers
      BY DEF CountInv
    <3>2. num_handovers'[d] = IF d = e THEN n ELSE num_handovers[d]
      OBVIOUS
    <3>3. 0 <= MaxHandovers
      OBVIOUS
    <3> QED BY <3>1, <3>2, <3>3
  <2>2. ASSUME NEW d \in Xstreams, NEW t \in Ults, Runs(d, t)', pc'[t] \in {"se.pop", "se.poplow"}
        PROVE  num_handovers'[d] < MaxHandovers
    <3>1. Runs(d, t) /\ (d = e <=> t = p)
      BY <2>2 DEF ExecInv, RunsOnce, Runs
    <3>2. CASE d = e
      BY <1>1, <2>2, <3>1, <3>2
    <3>3. CASE d # e
      BY <1>1, <2>2, <3>1, <3>3 DEF CountInv
    <3> QED BY <3>2, <3>3
  <2> QED BY <2>1, <2>2 DEF CountInv
<1> QED BY <1>5, <1>6, <1>7, <1>8, <1>9, <1>10

(* It takes one from a row.                                                *)
LEMMA UltTakes ==
  ASSUME UltTypeOK, UltInv, NEW e \in Xstreams, NEW p \in Ults, Runs(e, p),
         NEW c, NEW u, PopsRow(c, e, u), p_handover = None,
         pc[p] \in {"se.pop", "se.poplow"}, pc' = [pc EXCEPT ![p] = "se.switch"],
         p_handover' = u, p_giver' = p, num_handovers' = [num_handovers EXCEPT ![e] = @ + 1],
         UNCHANGED <<prog, cur, pool, blocking, popped>>
  PROVE  UltInv'
<1> USE DEF UltTypeOK, UltInv
<1>1. /\ p \in Callers /\ Executes(p) /\ pc'[p] = "se.switch"
      /\ \A q \in Callers : q # p => pc'[q] = pc[q]
  BY DEF Executes, Runs
<1>2. \A q : Executes(q)' <=> Executes(q)
  BY DEF Executes
<1>3. /\ u \in Ults /\ Holds(c, e, u) /\ c \in {"high", "low"}
      /\ \A d \in Xstreams, v \in Ults :
           /\ Linked(h_row'[d], v) <=> Linked(h_row[d], v) /\ ~ (c = "high" /\ d = e /\ v = u)
           /\ Linked(l_row'[d], v) <=> Linked(l_row[d], v) /\ ~ (c = "low" /\ d = e /\ v = u)
      /\ \A d \in Xstreams : Once(h_row'[d]) /\ Once(l_row'[d])
  BY RowPop
<1>4. \A k, x : Holds(k, x, u) => k = c /\ x = e
  BY <1>3 DEF HeldOnce
<1>5. u # None /\ e \in prog.serves[u]
  BY <1>3 DEF HomeInv, Holds
<1>6. \A v \in Ults : \A k, x :
        Holds(k, x, v)' => (v = u /\ k = "handover" /\ x = None) \/ (v # u /\ Holds(k, x, v))
  <2>1. ASSUME NEW v \in Ults, v # u, NEW k, NEW x, Holds(k, x, v)'
        PROVE  Holds(k, x, v)
    BY <1>3, <2>1 DEF Holds
  <2>2. ASSUME NEW k, NEW x, Holds(k, x, u)'
        PROVE  k = "handover" /\ x = None
    <3>1. ~ Holds("high", x, u) \/ (c = "high" /\ x = e)
      BY <1>4
    <3>2. ~ Holds("low", x, u) \/ (c = "low" /\ x = e)
      BY <1>4
    <3>3. ~ Holds("popped", x, u)
      BY <1>3, <1>4
    <3> QED BY <1>3, <2>2, <3>1, <3>2, <3>3 DEF Holds
  <2> QED BY <2>1, <2>2
<1>7. HeldOnce'
  <2>1. ASSUME NEW v \in Ults, NEW k, NEW m, NEW x, NEW y, Holds(k, x, v)', Holds(m, y, v)'
        PROVE  k = m /\ x = y
    <3>1. CASE v = u
      BY <1>6, <2>1, <3>1
    <3>2. CASE v # u
      BY <1>6, <2>1, <3>2 DEF HeldOnce
    <3> QED BY <3>1, <3>2
  <2> QED BY <1>3, <2>1 DEF HeldOnce
<1>8. HeldSleeps'
  <2>1. \A v \in Ults : \A k, x : Holds(k, x, v)' => Asleep(v)
    BY <1>3, <1>6 DEF HeldSleeps
  <2>2. \A v \in Ults : Asleep(v) => Asleep(v)'
    BY <1>1, <1>2 DEF Asleep
  <2> QED BY <2>1, <2>2 DEF HeldSleeps
<1>9. \A t \in Ults : t # p => pc[t] # "se.switch"
  BY DEF GiveInv
<1>10. HomeInv'
  <2>1. ASSUME NEW d \in Xstreams, Runs(d, p)
        PROVE  d = e
    BY <2>1 DEF Runs, ExecInv, RunsOnce
  <2> QED BY <1>1, <1>3, <1>5, <1>9, <2>1 DEF HomeInv, Runs
<1>11. ExecInv'
  BY <1>1, <1>2 DEF ExecInv, RunsOnce
<1>12. GiveInv'
  BY <1>1, <1>5, <1>9 DEF GiveInv
<1>13. CountInv'
  <2>1. num_handovers[e] < MaxHandovers /\ num_handovers[e] \in Nat
    BY DEF CountInv
  <2>2. ASSUME NEW d \in Xstreams
        PROVE  num_handovers'[d] <= MaxHandovers
    <3>1. num_handovers[d] \in Nat /\ num_handovers[d] <= MaxHandovers
      BY DEF CountInv
    <3> QED BY <2>1, <3>1
  <2>3. ASSUME NEW d \in Xstreams, NEW t \in Ults, Runs(d, t)', pc'[t] \in {"se.pop", "se.poplow"}
        PROVE  num_handovers'[d] < MaxHandovers
    <3>1. t # p /\ Runs(d, t) /\ pc[t] = pc'[t]
      BY <1>1, <2>3 DEF Runs
    <3>2. d # e
      BY <3>1 DEF Runs
    <3> QED BY <2>3, <3>1, <3>2 DEF CountInv
  <2> QED BY <2>2, <2>3 DEF CountInv
<1> QED BY <1>7, <1>8, <1>10, <1>11, <1>12, <1>13

(* The receiver takes the ES of the giver: no other step has made it go on *)
(* while it was held, and where it may be switching it may not go on.      *)
LEMMA UltSwitches ==
  ASSUME UltTypeOK, UltInv, NEW e \in Xstreams, NEW p \in Ults, Runs(e, p), pc[p] = "se.switch",
         NEW u, p_handover = u, u \notin blocking,
         cur' = [cur EXCEPT ![e] = u], pc' = [pc EXCEPT ![p] = "given"],
         UNCHANGED <<prog, pool, blocking, popped, p_handover, p_giver, num_handovers, h_row, l_row>>
  PROVE  UltInv'
<1> USE DEF UltTypeOK, UltInv
<1>1. /\ p \in Callers /\ Executes(p) /\ p_giver = p /\ u \in Ults /\ u # None /\ pc'[p] = "given"
      /\ \A q \in Callers : q # p => pc'[q] = pc[q]
  BY DEF GiveInv, Executes, Runs
<1>2. Holds("handover", None, u) /\ Asleep(u)
  BY <1>1 DEF Holds, HeldSleeps
<1>3. u # p /\ u \notin pool /\ pc[u] = "queued" /\ ~ Executes(u)
  <2>1. u # p /\ u \notin pool /\ pc[u] # "suspend" /\ pc[u] \in {"suspend", "switching", "queued"}
    BY <1>1, <1>2 DEF Asleep, ExecInv
  <2>2. ASSUME pc[u] = "switching"
        PROVE  FALSE
    <3>1. u \in prog.low /\ Executes(u) /\ u \notin Externals
      BY <1>1, <2>2 DEF ExecInv
    <3>2. PICK d \in Xstreams : Runs(d, u)
      BY <3>1 DEF Executes, Runs
    <3>3. d \in prog.serves[u] /\ e \in prog.serves[u]
      BY <1>1, <3>2 DEF HomeInv
    <3>4. d = e
      BY <3>1, <3>3
    <3> QED BY <2>1, <3>2, <3>4 DEF Runs
  <2> QED BY <1>2, <2>1, <2>2 DEF Asleep
<1>4. /\ \A d \in Xstreams : cur'[d] = IF d = e THEN u ELSE cur[d]
      /\ \A d \in Xstreams : cur[d] = p => d = e
  BY DEF ExecInv, RunsOnce, Runs
<1>5. \A q \in Callers : Executes(q)' <=> (Executes(q) /\ q # p) \/ q = u
  BY <1>1, <1>3, <1>4 DEF Executes, Runs
<1>6. \A k, x : Holds(k, x, u) => k = "handover"
  BY <1>1, <1>2 DEF HeldOnce
<1>7. \A v \in Ults : \A k, x : Holds(k, x, v)' => v # u /\ Holds(k, x, v)
  <2>1. \A v \in Ults : \A k, x : Holds(k, x, v)' => k # "handover" /\ Holds(k, x, v)
    BY <1>1 DEF Holds
  <2> QED BY <1>6, <2>1
<1>8. HeldOnce'
  BY <1>7 DEF HeldOnce
<1>9. HeldSleeps'
  <2>1. \A v \in Ults : \A k, x : Holds(k, x, v)' => v # u /\ Asleep(v)
    BY <1>7 DEF HeldSleeps
  <2>2. \A v \in Ults : v # u /\ Asleep(v) => Asleep(v)'
    BY <1>1, <1>5 DEF Asleep
  <2> QED BY <2>1, <2>2 DEF HeldSleeps
<1>10. \A t \in Ults : t # p => pc[t] # "se.switch"
  BY <1>1 DEF GiveInv
<1>11. HomeInv'
  <2>1. \A d \in Xstreams, t \in Ults : Runs(d, t)' => (d = e /\ t = u) \/ (t # p /\ t # u /\ Runs(d, t))
    BY <1>3, <1>4 DEF Runs, Executes
  <2>2. e \in prog.serves[u]
    BY <1>1 DEF HomeInv
  <2> QED BY <1>1, <1>3, <1>10, <2>1, <2>2 DEF HomeInv
<1>12. ExecInv'
  <2>1. RunsOnce'
    BY <1>3, <1>4 DEF ExecInv, RunsOnce, Executes
  <2>2. \A t \in pool' : Executes(t)' => pc'[t] = "switching"
    BY <1>1, <1>3, <1>5 DEF ExecInv
  <2> QED BY <1>1, <1>5, <2>1, <2>2 DEF ExecInv
<1>13. GiveInv'
  <2>1. p \notin pool
    BY <1>1 DEF ExecInv
  <2> QED BY <1>1, <1>3, <1>5, <1>10, <2>1 DEF GiveInv
<1>14. CountInv'
  <2>1. ASSUME NEW d \in Xstreams, NEW t \in Ults, Runs(d, t)', pc'[t] \in {"se.pop", "se.poplow"}
        PROVE  Runs(d, t) /\ pc[t] = pc'[t]
    BY <1>1, <1>3, <1>4, <2>1 DEF Runs
  <2> QED BY <2>1 DEF CountInv
<1> QED BY <1>8, <1>9, <1>11, <1>12, <1>13, <1>14

(* The receiver goes on and pushes the giver to its pool.                  *)
LEMMA UltReceives ==
  ASSUME UltTypeOK, UltInv, NEW p \in Ults, Executes(p), pc[p] = "queued", p_handover = p,
         NEW g, p_giver = g, pool' = pool \cup {g}, p_handover' = None, pc' = [pc EXCEPT ![p] = "cs"],
         UNCHANGED <<prog, cur, blocking, popped, p_giver, num_handovers, h_row, l_row>>
  PROVE  UltInv'
<1> USE DEF UltTypeOK, UltInv
<1>1. /\ p \in Callers /\ p # None /\ g \in Ults /\ g \in Callers /\ pc'[p] = "cs"
      /\ \A q \in Callers : q # p => pc'[q] = pc[q]
  OBVIOUS
<1>2. \A q : Executes(q)' <=> Executes(q)
  BY DEF Executes
<1>3. \A k, x : ~ Holds(k, x, p)
  BY DEF HeldSleeps, Asleep
<1>4. pc[g] = "given" /\ ~ Executes(g) /\ g # p
  <2>1. pc[g] # "se.switch"
    BY <1>3 DEF Holds
  <2> QED BY <1>1, <2>1 DEF GiveInv
<1>5. \A u \in Ults : \A k, x : Holds(k, x, u)' => Holds(k, x, u)
  BY <1>1 DEF Holds
<1>6. HeldOnce'
  BY <1>5 DEF HeldOnce
<1>7. HeldSleeps'
  <2>1. \A u \in Ults : \A k, x : Holds(k, x, u)' => Asleep(u)
    BY <1>5 DEF HeldSleeps
  <2>2. \A u \in Ults : \A k, x : Holds(k, x, u)' => u # p
    BY <1>3, <1>5
  <2>3. \A u \in Ults : Asleep(u) => u # g
    BY <1>4 DEF Asleep
  <2> QED BY <1>1, <1>2, <2>1, <2>2, <2>3 DEF HeldSleeps, Asleep
<1>8. \A t \in Ults : pc'[t] # "se.switch"
  BY <1>1, <1>4 DEF GiveInv
<1>9. HomeInv'
  BY <1>1, <1>8 DEF HomeInv, Runs
<1>10. ExecInv'
  BY <1>1, <1>2, <1>4 DEF ExecInv, RunsOnce
<1>11. GiveInv'
  BY <1>8 DEF GiveInv
<1>12. CountInv'
  BY <1>1 DEF CountInv, Runs
<1> QED BY <1>6, <1>7, <1>9, <1>10, <1>11, <1>12

(* lock_low: the caller takes the place of the head of its row.            *)
LEMMA UltSwaps ==
  ASSUME UltTypeOK, UltInv, NEW e \in Xstreams, NEW p \in Ults, Runs(e, p), pc[p] = "user",
         p \in prog.low, l_row[e] # <<>>, NEW u, u = Head(l_row[e]),
         l_row' = [l_row EXCEPT ![e] = Append(Tail(@), p)], popped' = [popped EXCEPT ![p] = u],
         pc' = [pc EXCEPT ![p] = "switching"],
         UNCHANGED <<prog, cur, pool, blocking, p_handover, p_giver, num_handovers, h_row>>
  PROVE  UltInv'
<1> USE DEF UltTypeOK, UltInv
<1>1. /\ p \in Callers /\ Executes(p) /\ p \notin pool /\ pc'[p] = "switching" /\ popped'[p] = u
      /\ \A q \in Callers : q # p => pc'[q] = pc[q] /\ popped'[q] = popped[q]
  BY DEF ExecInv, Executes, Runs
<1>2. \A q : Executes(q)' <=> Executes(q)
  BY DEF Executes
<1>3. \A k, x : ~ Holds(k, x, p)
  BY <1>1 DEF HeldSleeps, Asleep
<1>4. /\ u \in Ults /\ Linked(l_row[e], u)
      /\ \A d \in Xstreams, v \in Ults :
           Linked(l_row'[d], v) <=> (Linked(l_row[d], v) /\ ~ (d = e /\ v = u)) \/ (d = e /\ v = p)
      /\ \A d \in Xstreams : Once(l_row'[d])
  <2>1. /\ l_row[e] \in Seq(Ults) /\ Once(l_row[e]) /\ ~ Linked(l_row[e], p)
        /\ l_row'[e] = Append(Tail(l_row[e]), p)
        /\ \A d \in Xstreams : d # e => l_row'[d] = l_row[d] /\ Once(l_row[d])
    BY <1>3 DEF Holds, HeldOnce
  <2>2. /\ u \in Ults /\ Tail(l_row[e]) \in Seq(Ults) /\ Linked(l_row[e], u)
        /\ \A v \in Ults : Linked(Tail(l_row[e]), v) <=> Linked(l_row[e], v) /\ v # u
        /\ Once(Tail(l_row[e]))
    BY <2>1, TailWaiter
  <2> DEFINE w == Tail(l_row[e])
  <2>a. w \in Seq(Ults) /\ Once(w) /\ ~ Linked(w, p) /\ l_row'[e] = Append(w, p)
    BY <2>1, <2>2
  <2>b. /\ \A v \in Ults : Linked(Append(w, p), v) <=> Linked(w, v) \/ v = p
        /\ Once(Append(w, p))
    <3> HIDE DEF w
    <3> QED BY <2>a, AppendWaiter
  <2>3. /\ \A v \in Ults : Linked(l_row'[e], v) <=> Linked(Tail(l_row[e]), v) \/ v = p
        /\ Once(l_row'[e])
    BY <2>a, <2>b
  <2>4. ASSUME NEW d \in Xstreams, NEW v \in Ults
        PROVE  Linked(l_row'[d], v) <=> (Linked(l_row[d], v) /\ ~ (d = e /\ v = u)) \/ (d = e /\ v = p)
    <3>1. CASE d = e
      BY <2>2, <2>3, <3>1
    <3>2. CASE d # e
      BY <2>1, <3>2
    <3> QED BY <3>1, <3>2
  <2>5. \A d \in Xstreams : Once(l_row'[d])
    BY <2>1, <2>3
  <2> QED BY <2>2, <2>4, <2>5
<1>5. u # p /\ Holds("low", e, u)
  BY <1>3, <1>4 DEF Holds
<1>6. \A k, x : Holds(k, x, u) => k = "low" /\ x = e
  BY <1>4, <1>5 DEF HeldOnce
<1>7. ASSUME p_handover # None
      PROVE  pc'[p_giver] = pc[p_giver]
  <2>1. p_giver \in Callers /\ p_giver # p
    BY <1>7 DEF GiveInv
  <2> QED BY <1>1, <2>1
<1>8. \A v \in Ults : \A k, x :
        Holds(k, x, v)' => \/ v = u /\ k = "popped" /\ x = p
                           \/ v = p /\ k = "low" /\ x = e
                           \/ v # u /\ v # p /\ Holds(k, x, v)
  <2>1. ASSUME NEW v \in Ults, v # u, v # p, NEW k, NEW x, Holds(k, x, v)'
        PROVE  Holds(k, x, v)
    BY <1>1, <1>4, <1>7, <2>1 DEF Holds
  <2>2. ASSUME NEW k, NEW x, Holds(k, x, u)'
        PROVE  k = "popped" /\ x = p
    <3>1. ~ Holds("high", x, u) /\ ~ Holds("popped", x, u) /\ ~ Holds("handover", x, u)
      BY <1>6
    <3>2. ~ Holds("low", x, u) \/ x = e
      BY <1>6
    <3> QED BY <1>1, <1>4, <1>5, <1>7, <2>2, <3>1, <3>2 DEF Holds
  <2>3. ASSUME NEW k, NEW x, Holds(k, x, p)'
        PROVE  k = "low" /\ x = e
    <3>1. ~ Holds("high", x, p) /\ ~ Holds("popped", x, p) /\ ~ Holds("handover", x, p) /\ ~ Holds("low", x, p)
      BY <1>3
    <3> QED BY <1>1, <1>4, <1>5, <1>7, <2>3, <3>1 DEF Holds
  <2> QED BY <2>1, <2>2, <2>3
<1>9. HeldOnce'
  <2>1. ASSUME NEW v \in Ults, NEW k, NEW m, NEW x, NEW y, Holds(k, x, v)', Holds(m, y, v)'
        PROVE  k = m /\ x = y
    <3>1. CASE v = u
      BY <1>5, <1>8, <2>1, <3>1
    <3>2. CASE v = p
      BY <1>5, <1>8, <2>1, <3>2
    <3>3. CASE v # u /\ v # p
      BY <1>8, <2>1, <3>3 DEF HeldOnce
    <3> QED BY <3>1, <3>2, <3>3
  <2> QED BY <1>4, <2>1 DEF HeldOnce
<1>10. HeldSleeps'
  <2>0. Asleep(u) /\ \A v \in Ults : \A k, x : Holds(k, x, v) => Asleep(v)
    BY <1>4, <1>5 DEF HeldSleeps
  <2>1. \A v \in Ults : \A k, x : Holds(k, x, v)' => Asleep(v) \/ v = p
    BY <1>8, <2>0
  <2>2. Asleep(p)'
    BY <1>1 DEF Asleep
  <2>3. \A v \in Ults : v # p /\ Asleep(v) => Asleep(v)'
    BY <1>1, <1>2 DEF Asleep
  <2> QED BY <2>1, <2>2, <2>3 DEF HeldSleeps
<1>11. HomeInv'
  <2>1. e \in prog.serves[p] /\ e \in prog.serves[u] /\ u \in prog.low
    BY <1>4 DEF HomeInv
  <2>2. \A d \in Xstreams : Runs(d, p) => d = e
    BY DEF Runs, ExecInv, RunsOnce
  <2> QED BY <1>1, <1>4, <1>5, <2>1, <2>2 DEF HomeInv, Runs
<1>12. ExecInv'
  BY <1>1, <1>2, <1>4 DEF ExecInv, RunsOnce
<1>13. GiveInv'
  <2>1. p_handover # None /\ pc[p_giver] = "given" => p_handover # p
    BY DEF GiveInv
  <2> QED BY <1>1, <1>2, <1>7, <2>1 DEF GiveInv
<1>14. CountInv'
  BY <1>1 DEF CountInv, Runs
<1> QED BY <1>9, <1>10, <1>11, <1>12, <1>13, <1>14

(* It gives its ES to the one it has popped, which waited there.           *)
LEMMA UltSwapped ==
  ASSUME UltTypeOK, UltInv, NEW e \in Xstreams, NEW p \in Ults, Runs(e, p), pc[p] = "switching",
         NEW u, popped[p] = u, cur' = [cur EXCEPT ![e] = u], popped' = [popped EXCEPT ![p] = None],
         pc' = [pc EXCEPT ![p] = "queued"],
         UNCHANGED <<prog, pool, blocking, p_handover, p_giver, num_handovers, h_row, l_row>>
  PROVE  UltInv'
<1> USE DEF UltTypeOK, UltInv
<1>1. /\ p \in Callers /\ Executes(p) /\ pc'[p] = "queued" /\ popped'[p] = None
      /\ \A q \in Callers : q # p => pc'[q] = pc[q] /\ popped'[q] = popped[q]
      /\ u \in Ults /\ u # p /\ u # None /\ u \in prog.low /\ e \in prog.serves[u]
  BY DEF HomeInv, Executes, Runs
<1>2. Holds("popped", p, u) /\ Asleep(u)
  BY <1>1 DEF Holds, HeldSleeps
<1>3. u \notin pool /\ pc[u] = "queued" /\ ~ Executes(u)
  <2>1. ASSUME Executes(u)
        PROVE  FALSE
    <3>1. PICK d \in Xstreams : Runs(d, u)
      BY <1>1, <2>1 DEF Executes, Runs
    <3>2. d \in prog.serves[u]
      BY <1>1, <3>1 DEF HomeInv
    <3>3. d = e
      BY <1>1, <3>2
    <3> QED BY <1>1, <3>1, <3>3 DEF Runs
  <2> QED BY <1>1, <1>2, <2>1 DEF Asleep, ExecInv
<1>4. /\ \A d \in Xstreams : cur'[d] = IF d = e THEN u ELSE cur[d]
      /\ \A d \in Xstreams : cur[d] = p => d = e
  BY DEF ExecInv, RunsOnce, Runs
<1>5. \A q \in Callers : Executes(q)' <=> (Executes(q) /\ q # p) \/ q = u
  BY <1>1, <1>3, <1>4 DEF Executes, Runs
<1>6. \A k, x : Holds(k, x, u) => k = "popped" /\ x = p
  BY <1>1, <1>2 DEF HeldOnce
<1>7. ASSUME p_handover # None
      PROVE  pc'[p_giver] = pc[p_giver] /\ p_giver # u /\ p_giver # p
  <2>1. p_giver \in Callers /\ p_giver # p /\ p_giver # u
    BY <1>3, <1>7 DEF GiveInv
  <2> QED BY <1>1, <2>1
<1>8. \A v \in Ults : \A k, x : Holds(k, x, v)' => v # u /\ Holds(k, x, v)
  <2>1. ASSUME NEW v \in Ults, NEW k, NEW x, Holds(k, x, v)'
        PROVE  Holds(k, x, v) /\ ~ (k = "popped" /\ x = p)
    BY <1>1, <1>7, <2>1 DEF Holds
  <2> QED BY <1>6, <2>1
<1>9. HeldOnce'
  BY <1>8 DEF HeldOnce
<1>10. HeldSleeps'
  <2>1. \A v \in Ults : \A k, x : Holds(k, x, v)' => v # u /\ Asleep(v)
    BY <1>8 DEF HeldSleeps
  <2>2. \A v \in Ults : v # u /\ Asleep(v) => Asleep(v)'
    BY <1>1, <1>5 DEF Asleep
  <2> QED BY <2>1, <2>2 DEF HeldSleeps
<1>11. \A d \in Xstreams, t \in Ults : Runs(d, t)' => (d = e /\ t = u) \/ (t # p /\ t # u /\ Runs(d, t))
  BY <1>1, <1>3, <1>4 DEF Runs, Executes
<1>12. HomeInv'
  BY <1>1, <1>3, <1>11 DEF HomeInv
<1>13. ExecInv'
  <2>1. RunsOnce'
    BY <1>3, <1>4 DEF ExecInv, RunsOnce, Executes
  <2>2. \A t \in pool' : Executes(t)' => pc'[t] = "switching"
    BY <1>1, <1>3, <1>5 DEF ExecInv
  <2> QED BY <1>1, <1>5, <2>1, <2>2 DEF ExecInv
<1>14. GiveInv'
  <2>1. p_handover # None /\ pc[p_giver] = "given" => p_handover # p
    BY DEF GiveInv
  <2>2. \A t \in Ults : pc'[t] = "se.switch" => pc[t] = "se.switch"
    BY <1>1
  <2>3. p_handover # None /\ pc[p_giver] = "given" => ~ Executes(p_giver)' /\ Executes(p_handover)'
    BY <1>1, <1>5, <1>7, <2>1 DEF GiveInv
  <2> QED BY <1>1, <1>7, <2>1, <2>2, <2>3 DEF GiveInv
<1>15. CountInv'
  <2>1. ASSUME NEW d \in Xstreams, NEW t \in Ults, Runs(d, t)', pc'[t] \in {"se.pop", "se.poplow"}
        PROVE  Runs(d, t) /\ pc[t] = pc'[t]
    BY <1>1, <1>3, <1>11, <2>1
  <2> QED BY <2>1 DEF CountInv
<1> QED BY <1>9, <1>10, <1>12, <1>13, <1>14, <1>15

(* An ES pops a ULT.                                                       *)
LEMMA UltRuns ==
  ASSUME UltTypeOK, UltInv, NEW e \in Xstreams, NEW t \in Ults, Run(e, t)
  PROVE  UltInv'
<1> USE DEF UltTypeOK, UltInv
<1>0. UNCHANGED <<prog, pc, popped, blocking, p_handover, p_giver, num_handovers, h_row, l_row>>
  BY DEF Run, Dispatch, callVars, handVars, rowVars
<1>1. /\ t \in Callers /\ t \in pool /\ cur[e] = None /\ t # None /\ e \in prog.serves[t]
      /\ pool' = pool \ {t} /\ cur' = [cur EXCEPT ![e] = t]
  BY DEF Run, Dispatch
<1>2. ~ Executes(t)
  <2>1. ASSUME Executes(t)
        PROVE  FALSE
    <3>1. t \in prog.low
      BY <1>1, <2>1 DEF ExecInv
    <3>2. PICK d \in Xstreams : Runs(d, t)
      BY <1>1, <2>1 DEF Executes, Runs
    <3>3. d \in prog.serves[t]
      BY <1>1, <3>2 DEF HomeInv
    <3>4. d = e
      BY <1>1, <3>1, <3>3
    <3> QED BY <1>1, <3>2, <3>4 DEF Runs
  <2> QED BY <2>1
<1>3. pc[t] \notin {"suspend", "switching", "se.check", "se.pop", "se.poplow", "se.switch"}
  BY <1>2 DEF ExecInv
<1>4. \A k, x : ~ Holds(k, x, t)
  BY <1>1 DEF HeldSleeps, Asleep
<1>5. /\ \A d \in Xstreams : cur'[d] = IF d = e THEN t ELSE cur[d]
      /\ \A q \in Callers : Executes(q)' <=> Executes(q) \/ q = t
  BY <1>1 DEF Executes
<1>6. \A u \in Ults : \A k, x : Holds(k, x, u)' => u # t /\ Holds(k, x, u)
  BY <1>0, <1>4 DEF Holds
<1>7. HeldOnce'
  BY <1>0, <1>6 DEF HeldOnce
<1>8. HeldSleeps'
  <2>1. \A u \in Ults : \A k, x : Holds(k, x, u)' => u # t /\ Asleep(u)
    BY <1>6 DEF HeldSleeps
  <2>2. \A u \in Ults : u # t /\ Asleep(u) => Asleep(u)'
    BY <1>0, <1>1, <1>5 DEF Asleep
  <2> QED BY <2>1, <2>2 DEF HeldSleeps
<1>9. \A d \in Xstreams, v \in Ults : Runs(d, v)' => (d = e /\ v = t) \/ (v # t /\ Runs(d, v))
  BY <1>1, <1>2, <1>5 DEF Runs, Executes
<1>10. HomeInv'
  BY <1>0, <1>1, <1>3, <1>9 DEF HomeInv
<1>11. ExecInv'
  <2>0. \A d \in Xstreams : cur[d] # t
    BY <1>2 DEF Executes
  <2>1. RunsOnce'
    BY <1>5, <2>0 DEF ExecInv, RunsOnce
  <2>2. \A v \in pool' : Executes(v)' => pc'[v] = "switching"
    BY <1>0, <1>1, <1>5 DEF ExecInv
  <2> QED BY <1>0, <1>5, <2>1, <2>2 DEF ExecInv
<1>12. GiveInv'
  <2>1. ASSUME p_handover # None, pc[p_giver] = "given"
        PROVE  ~ Executes(p_giver)' /\ Executes(p_handover)'
    <3>1. /\ p_giver \in Callers /\ p_handover \in Callers
          /\ p_giver' = p_giver /\ p_handover' = p_handover
      BY <1>0, <2>1
    <3>2. ~ Executes(p_giver) /\ p_giver # t /\ Executes(p_handover)
      BY <1>1, <2>1 DEF GiveInv
    <3> QED BY <1>5, <3>1, <3>2
  <2>2. /\ \A v \in Ults : pc'[v] = "se.switch" => p_handover' # None /\ p_giver' = v
        /\ p_handover' # None => pc'[p_giver'] \in {"se.switch", "given"}
    BY <1>0 DEF GiveInv
  <2>3. p_handover # None /\ pc[p_giver] = "given" => p_giver \notin pool' /\ pc'[p_handover] = "queued"
    BY <1>0, <1>1 DEF GiveInv
  <2>4. p_handover' = p_handover /\ p_giver' = p_giver /\ pc' = pc
    BY <1>0
  <2> QED BY <2>1, <2>2, <2>3, <2>4 DEF GiveInv
<1>13. CountInv'
  <2>1. ASSUME NEW d \in Xstreams, NEW v \in Ults, Runs(d, v)', pc'[v] \in {"se.pop", "se.poplow"}
        PROVE  Runs(d, v) /\ pc[v] = pc'[v]
    BY <1>0, <1>3, <1>9, <2>1
  <2> QED BY <1>0, <2>1 DEF CountInv
<1> QED BY <1>7, <1>8, <1>10, <1>11, <1>12, <1>13

(* A step of none of them.                                                 *)
LEMMA UltKept ==
  ASSUME UltInv,
         UNCHANGED <<prog, cur, pool, blocking, pc, popped, p_handover, p_giver, num_handovers, h_row, l_row>>
  PROVE  UltInv'
<1>1. \A q : Executes(q)' <=> Executes(q)
  BY DEF Executes
<1>2. \A u \in Ults : \A k, x : Holds(k, x, u)' <=> Holds(k, x, u)
  BY DEF Holds
<1>3. HeldOnce' /\ HeldSleeps'
  BY <1>1, <1>2 DEF UltInv, HeldOnce, HeldSleeps, Asleep
<1>4. HomeInv' /\ CountInv'
  BY DEF UltInv, HomeInv, CountInv, Runs
<1>5. ExecInv' /\ GiveInv'
  BY <1>1 DEF UltInv, ExecInv, GiveInv, RunsOnce
<1> QED BY <1>3, <1>4, <1>5 DEF UltInv

(* Every step of a caller or of an ES is of one of these kinds.            *)
LEMMA UltStep ==
  ASSUME MutexAssumption, LowStaysHome, CallInv, RowInv, OwnerInv, UltInv, [Next]_vars
  PROVE  UltInv'
<1>t. UltTypeOK
  BY UltTyped
<1>n. None \notin Callers /\ Ults \subseteq Callers
  BY <1>t DEF UltTypeOK
<1>1. ASSUME NEW p \in Callers,
             LockCas(p) \/ LockExch(p) \/ WaitCheck(p) \/ Unlock(p) \/ UnlockStore(p)
               \/ WakeNobody(p) \/ Given(p)
      PROVE  UltInv'
  <2>1. /\ Executes(p) /\ pc[p] \in {"user", "exch", "check", "cs", "store", "wake", "given"}
        /\ UNCHANGED <<prog, cur, pool, blocking, popped, p_handover, p_giver, num_handovers, h_row, l_row>>
    BY <1>1 DEF LockCas, LockExch, WaitCheck, Unlock, UnlockStore, WakeNobody, Given, At,
                schedVars, handVars, rowVars
  <2>2. PICK l \in {"user", "cs", "check", "exch", "push", "yield", "se.check", "store", "wake"} :
           pc' = [pc EXCEPT ![p] = l]
    BY <1>1 DEF LockCas, LockExch, WaitCheck, Unlock, UnlockStore, WakeNobody, Given, Goto, Unlocked
  <2> QED BY <1>t, <2>1, <2>2, UltMoves DEF Labels, Owning
<1>2. ASSUME NEW p \in Callers, Yield(p)
      PROVE  UltInv'
  <2>1. /\ p \in Ults /\ Executes(p) /\ BackToSched(p) /\ pc[p] \in {"yield", "user", "cs"}
        /\ pool' = pool \cup {p} /\ UNCHANGED blocking
        /\ \E l \in {"user", "cs"} : pc' = [pc EXCEPT ![p] = l]
        /\ UNCHANGED <<prog, popped, p_handover, p_giver, num_handovers, h_row, l_row>>
    BY <1>2 DEF Yield, YieldUlt, Goto, handVars, rowVars
  <2> QED BY <1>t, <2>1, UltLeaves
<1>3. ASSUME NEW p \in Callers, Suspend(p)
      PROVE  UltInv'
  <2>1. /\ p \in Ults /\ Executes(p) /\ BackToSched(p) /\ pc[p] = "suspend"
        /\ UNCHANGED pool /\ blocking' = blocking \ {p}
        /\ pc' = [pc EXCEPT ![p] = "queued"]
        /\ UNCHANGED <<prog, popped, p_handover, p_giver, num_handovers, h_row, l_row>>
    BY <1>3 DEF Suspend, SuspendUlt, Goto, handVars, rowVars, CallInv, Waiting
  <2> QED BY <1>t, <2>1, UltLeaves
<1>4. ASSUME NEW p \in Callers, NEW e \in Xstreams, WaitPush(e, p)
      PROVE  UltInv'
  <2>1. /\ p \in Ults /\ Runs(e, p) /\ pc[p] = "push"
        /\ blocking' = blocking \cup {p} /\ pc' = [pc EXCEPT ![p] = "suspend"]
        /\ UNCHANGED <<prog, cur, pool, popped, p_handover, p_giver, num_handovers>>
    BY <1>4, RunsUlt DEF WaitPush, SetBlocked, Goto, handVars
  <2>2. \/ /\ p \in prog.low /\ l_row' = [l_row EXCEPT ![e] = Append(@, p)] /\ UNCHANGED h_row
        \/ /\ h_row' = [h_row EXCEPT ![e] = Append(@, p)] /\ UNCHANGED l_row
    BY <1>4 DEF WaitPush
  <2> QED BY <1>t, <2>1, <2>2, UltQueues
<1>5. ASSUME NEW p \in Callers, NEW e \in Xstreams, LockLowSwitch(e, p)
      PROVE  UltInv'
  <2>1. PICK u : u = Head(l_row[e])
    OBVIOUS
  <2>2. /\ p \in Ults /\ Runs(e, p) /\ pc[p] = "user" /\ p \in prog.low /\ l_row[e] # <<>>
        /\ l_row' = [l_row EXCEPT ![e] = Append(Tail(@), p)] /\ popped' = [popped EXCEPT ![p] = u]
        /\ pc' = [pc EXCEPT ![p] = "switching"]
        /\ UNCHANGED <<prog, cur, pool, blocking, p_handover, p_giver, num_handovers, h_row>>
    BY <1>5, <2>1, RunsUlt DEF LockLowSwitch, Goto, schedVars, handVars
  <2> QED BY <1>t, <2>1, <2>2, UltSwaps
<1>6. ASSUME NEW p \in Callers, NEW e \in Xstreams, LockLowSwitched(e, p)
      PROVE  UltInv'
  <2>1. PICK u : popped[p] = u
    OBVIOUS
  <2>2. /\ p \in Ults /\ Runs(e, p) /\ pc[p] = "switching" /\ cur' = [cur EXCEPT ![e] = u]
        /\ popped' = [popped EXCEPT ![p] = None] /\ pc' = [pc EXCEPT ![p] = "queued"]
        /\ UNCHANGED <<prog, pool, blocking, p_handover, p_giver, num_handovers, h_row, l_row>>
    BY <1>6, <2>1, RunsUlt DEF LockLowSwitched, Goto, handVars, rowVars
  <2> QED BY <1>t, <2>1, <2>2, UltSwapped
<1>7. ASSUME NEW p \in Callers, Resumed(p)
      PROVE  UltInv'
  <2>0. p \in Ults /\ Executes(p) /\ pc[p] = "queued"
    BY <1>7 DEF Resumed, At, CallInv, Waiting
  <2>1. CASE p_handover = p
    <3>1. PICK g : p_giver = g
      OBVIOUS
    <3>2. /\ pool' = pool \cup {g} /\ p_handover' = None /\ pc' = [pc EXCEPT ![p] = "cs"]
          /\ UNCHANGED <<prog, cur, blocking, popped, p_giver, num_handovers, h_row, l_row>>
      BY <1>7, <2>1, <3>1 DEF Resumed, Goto, rowVars
    <3> QED BY <1>t, <2>0, <2>1, <3>1, <3>2, UltReceives
  <2>2. CASE p_handover # p
    <3>1. /\ pc' = [pc EXCEPT ![p] = "exch"]
          /\ UNCHANGED <<prog, cur, pool, blocking, popped, p_handover, p_giver, num_handovers, h_row, l_row>>
      BY <1>7, <2>2 DEF Resumed, Goto, rowVars
    <3> QED BY <1>t, <2>0, <2>2, <3>1, UltMoves DEF Labels, Owning
  <2> QED BY <2>1, <2>2
<1>8. ASSUME NEW p \in Callers, WakePopHigh(p)
      PROVE  UltInv'
  <2>1. PICK e : e = h_list[FirstRow(h_list, h_row)]
    OBVIOUS
  <2>2. e \in Xstreams /\ h_row[e] # <<>>
    BY <1>8, <2>1, PopRow DEF WakePopHigh
  <2>3. PICK u : u = Head(h_row[e])
    OBVIOUS
  <2>4. /\ h_row' = [h_row EXCEPT ![e] = Tail(@)] /\ UNCHANGED l_row
        /\ pc[p] = "wake" /\ pc' = [pc EXCEPT ![p] = "ready"] /\ popped' = [popped EXCEPT ![p] = u]
        /\ UNCHANGED <<prog, cur, pool, blocking, p_handover, p_giver, num_handovers>>
    BY <1>8, <2>1, <2>3 DEF WakePopHigh, At, Goto, schedVars, handVars
  <2>5. PopsRow("high", e, u)
    BY <2>2, <2>3, <2>4 DEF PopsRow
  <2> QED BY <1>t, <2>2, <2>4, <2>5, UltPops
<1>9. ASSUME NEW p \in Callers, WakePopLow(p)
      PROVE  UltInv'
  <2>1. PICK e : e = l_list[FirstRow(l_list, l_row)]
    OBVIOUS
  <2>2. e \in Xstreams /\ l_row[e] # <<>>
    BY <1>9, <2>1, PopRow DEF WakePopLow
  <2>3. PICK u : u = Head(l_row[e])
    OBVIOUS
  <2>4. /\ l_row' = [l_row EXCEPT ![e] = Tail(@)] /\ UNCHANGED h_row
        /\ pc[p] = "wake" /\ pc' = [pc EXCEPT ![p] = "ready"] /\ popped' = [popped EXCEPT ![p] = u]
        /\ UNCHANGED <<prog, cur, pool, blocking, p_handover, p_giver, num_handovers>>
    BY <1>9, <2>1, <2>3 DEF WakePopLow, At, Goto, schedVars, handVars
  <2>5. PopsRow("low", e, u)
    BY <2>2, <2>3, <2>4 DEF PopsRow
  <2> QED BY <1>t, <2>2, <2>4, <2>5, UltPops
<1>10. ASSUME NEW p \in Callers, WakeReady(p)
       PROVE  UltInv'
  <2>1. PICK u : popped[p] = u
    OBVIOUS
  <2>2. /\ u # None /\ pc[p] = "ready" /\ SetReady(u) /\ popped' = [popped EXCEPT ![p] = None]
        /\ UNCHANGED <<prog, cur, blocking, p_handover, p_giver, num_handovers, h_row, l_row>>
    BY <1>10, <2>1 DEF WakeReady, At, handVars, rowVars, CallInv
  <2>3. PICK l \in {"wake", "yield", "user"} : pc' = [pc EXCEPT ![p] = l]
    BY <1>10 DEF WakeReady, Goto, Unlocked
  <2> QED BY <1>t, <2>1, <2>2, <2>3, UltReady
<1>11. ASSUME NEW p \in Callers, NEW e \in Xstreams, SeCheck(e, p)
       PROVE  UltInv'
  <2>1. /\ p \in Ults /\ Runs(e, p) /\ pc[p] = "se.check"
        /\ UNCHANGED <<prog, cur, pool, blocking, popped, p_handover, p_giver, h_row, l_row>>
    BY <1>11, RunsUlt DEF SeCheck, schedVars, rowVars
  <2>2. PICK l \in {"store", "se.pop", "se.poplow"} : pc' = [pc EXCEPT ![p] = l]
    BY <1>11 DEF SeCheck, Goto
  <2>3. num_handovers[e] \in Nat /\ MaxHandovers \in Nat
    BY <1>t DEF UltTypeOK
  <2>4. CASE num_handovers[e] >= MaxHandovers
    <3>1. num_handovers' = [num_handovers EXCEPT ![e] = 0] /\ pc' = [pc EXCEPT ![p] = "store"]
      BY <1>11, <2>4 DEF SeCheck, Goto
    <3> QED BY <1>t, <2>1, <3>1, UltChecks
  <2>5. CASE ~ num_handovers[e] >= MaxHandovers
    <3>1. num_handovers' = [num_handovers EXCEPT ![e] = num_handovers[e]]
      BY <1>11, <2>5 DEF SeCheck
    <3>2. num_handovers[e] < MaxHandovers
      BY <2>3, <2>5
    <3>3. PICK n : n = num_handovers[e]
      OBVIOUS
    <3> QED BY <1>t, <2>1, <2>2, <3>1, <3>2, <3>3, UltChecks
  <2> QED BY <2>4, <2>5
<1>12. ASSUME NEW p \in Callers, NEW e \in Xstreams, SePop(e, p) \/ SePopLow(e, p)
       PROVE  UltInv'
  <2>1. /\ p \in Ults /\ Runs(e, p) /\ pc[p] \in {"se.pop", "se.poplow"}
        /\ UNCHANGED <<prog, cur, pool, blocking, popped>>
    BY <1>12, RunsUlt DEF SePop, SePopLow, schedVars
  <2>2. Executes(p) /\ p_handover = None
    BY <1>n, <2>1 DEF OwnerInv, Owning, Runs, Executes
  <2>3. PICK c, row :
          /\ c \in {"high", "low"} /\ PopFor(e, p, row)
          /\ \/ c = "high" /\ row = h_row /\ h_row' = TailOf(row, e) /\ UNCHANGED l_row
             \/ c = "low" /\ row = l_row /\ l_row' = TailOf(row, e) /\ UNCHANGED h_row
    <3>1. CASE SePop(e, p)
      BY <3>1 DEF SePop
    <3>2. CASE SePopLow(e, p)
      BY <3>2 DEF SePopLow
    <3> QED BY <1>12, <3>1, <3>2
  <2>4. CASE row[e] = <<>>
    <3>1. pc' = [pc EXCEPT ![p] = "se.check"] /\ UNCHANGED <<p_handover, p_giver, num_handovers>>
      BY <2>3, <2>4 DEF PopFor, Goto
    <3>2. row \in [Xstreams -> Seq(Ults)] => TailOf(row, e) = row
      BY <2>4 DEF TailOf
    <3>3. UNCHANGED <<h_row, l_row>>
      BY <2>3, <3>2 DEF RowInv
    <3> QED BY <1>t, <2>1, <2>2, <3>1, <3>3, UltMoves DEF Labels, Owning
  <2>5. CASE row[e] # <<>>
    <3>1. PICK u : u = Head(row[e])
      OBVIOUS
    <3>2. /\ p_handover' = u /\ p_giver' = p /\ num_handovers' = [num_handovers EXCEPT ![e] = @ + 1]
          /\ pc' = [pc EXCEPT ![p] = "se.switch"]
      BY <2>3, <2>5, <3>1 DEF PopFor, Goto
    <3>3. TailOf(row, e) = [row EXCEPT ![e] = Tail(@)]
      BY <2>5 DEF TailOf
    <3>4. PopsRow(c, e, u)
      BY <2>3, <2>5, <3>1, <3>3 DEF PopsRow
    <3> QED BY <1>t, <2>1, <2>2, <3>2, <3>4, UltTakes
  <2> QED BY <2>4, <2>5
<1>13. ASSUME NEW p \in Callers, NEW e \in Xstreams, SeSwitch(e, p)
       PROVE  UltInv'
  <2>1. PICK u : p_handover = u
    OBVIOUS
  <2>2. /\ p \in Ults /\ Runs(e, p) /\ pc[p] = "se.switch" /\ u \notin blocking
        /\ cur' = [cur EXCEPT ![e] = u] /\ pc' = [pc EXCEPT ![p] = "given"]
        /\ UNCHANGED <<prog, pool, blocking, popped, p_handover, p_giver, num_handovers, h_row, l_row>>
    BY <1>13, <2>1, RunsUlt DEF SeSwitch, Goto, handVars, rowVars
  <2> QED BY <1>t, <2>1, <2>2, UltSwitches
<1>14. ASSUME NEW e \in Xstreams, NEW t \in Ults, Run(e, t)
       PROVE  UltInv'
  BY <1>t, <1>14, UltRuns
<1>15. CASE UNCHANGED vars
  BY <1>15, UltKept DEF vars, schedVars, callVars, handVars, rowVars
<1> QED BY <1>1, <1>2, <1>3, <1>4, <1>5, <1>6, <1>7, <1>8, <1>9, <1>10, <1>11, <1>12, <1>13, <1>14, <1>15
      DEF Next, LockStep, UnlockStep

LEMMA InitUlt ==
  ASSUME MutexAssumption, Init
  PROVE  UltInv
<1>1. \A p \in Callers : pc[p] = "user" /\ popped[p] = None
  BY DEF Init
<1>2. None \notin Ults /\ Ults \cap Externals = {}
  BY DEF MutexAssumption, Callers
<1>3. \A u \in Ults : \A k, x : ~ Holds(k, x, u)
  BY <1>1, <1>2 DEF Init, Holds, Linked
<1>4. \A e \in Xstreams : h_row[e] = <<>> /\ l_row[e] = <<>>
  BY DEF Init
<1>5. HeldOnce /\ HeldSleeps
  BY <1>3, <1>4 DEF HeldOnce, HeldSleeps, Once
<1>6. \A e \in Xstreams, t \in Ults : cur[e] = None /\ ~ Runs(e, t) /\ ~ Executes(t)
  BY <1>2 DEF Init, SchedInit, Runs, Executes
<1>7. HomeInv
  BY <1>4, <1>6 DEF HomeInv, Linked
<1>8. ExecInv
  <2>1. cur = [e \in Xstreams |-> None] /\ pool = Ults /\ blocking = {}
    BY DEF Init, SchedInit
  <2>2. RunsOnce
    BY <2>1 DEF RunsOnce
  <2>3. \A t \in Ults : pc[t] = "user" /\ ~ Executes(t)
    BY <1>1, <1>2, <2>1 DEF Executes, Callers
  <2> QED BY <2>1, <2>2, <2>3 DEF ExecInv
<1>9. GiveInv
  BY <1>1 DEF Init, GiveInv, Callers
<1>10. CountInv
  <2>1. MaxHandovers \in Nat /\ \A e \in Xstreams : num_handovers[e] = 0
    BY DEF Init, MutexAssumption
  <2>2. 0 <= MaxHandovers
    BY <2>1
  <2> QED BY <1>6, <2>1, <2>2 DEF CountInv
<1> QED BY <1>5, <1>7, <1>8, <1>9, <1>10 DEF UltInv

MutexInv == CallInv /\ RowInv /\ OwnerInv /\ UltInv

LEMMA MutexInvariant ==
  ASSUME LowStaysHome
  PROVE  Spec => []MutexInv
<1>1. Init => MutexInv
  BY MutexAssumption, InitInvs, InitUlt DEF MutexInv
<1>2. MutexInv /\ [Next]_vars => MutexInv'
  BY MutexAssumption, LowStaysHome, CallStep, RowStep, OwnerStep, UltStep DEF MutexInv
<1> QED BY <1>1, <1>2, PTL DEF Spec

(* Variables of the mutex (abti_mutex.h, thread_htable.c) have their       *)
(* types; in particular no ES hands the mutex over more than max_handovers *)
(* times in a row, whatever its callers do.                                *)
THEOREM MutexTypeCorrect ==
  ASSUME LowStaysHome
  PROVE  Spec => []TypeOK
<1>1. MutexInv => TypeOK
  <2>1. ASSUME CountInv, num_handovers \in [Xstreams -> Nat]
        PROVE  num_handovers \in [Xstreams -> 0..MaxHandovers]
    <3>1. ASSUME NEW e \in Xstreams
          PROVE  num_handovers[e] \in 0..MaxHandovers
      <4>1. num_handovers[e] \in Nat /\ num_handovers[e] <= MaxHandovers /\ MaxHandovers \in Nat
        BY <2>1, MutexAssumption DEF CountInv, MutexAssumption
      <4> QED BY <4>1
    <3> QED BY <2>1, <3>1
  <2> QED BY <2>1 DEF MutexInv, CallInv, RowInv, OwnerInv, UltInv, TypeOK
<1> QED BY <1>1, MutexInvariant, PTL

(* No ES goes on with a ULT that another ES still executes                 *)
(* (ABTI_mutex_unlock_se, ABTI_thread_htable_switch_low, mutex.c): a       *)
(* waiter is held by one row, waker or giver, and its context is saved     *)
(* before it is run, if only one ES pops a ULT that uses lock_low.         *)
THEOREM MutexRunsOnce ==
  ASSUME LowStaysHome
  PROVE  Spec => []RunsOnce
<1>1. MutexInv => RunsOnce
  BY DEF MutexInv, UltInv, ExecInv
<1> QED BY <1>1, MutexInvariant, PTL
-----------------------------------------------------------------------------
(* No waiter is forgotten, under the same assumption on lock_low.          *)

Cared == val = 2 \/ \E p \in Callers : WillWake(p)

(* Whoever is about to join a row holds the lock of the table, and counts  *)
(* as a waiter.                                                            *)
WaiterInv ==
  /\ \A p \in Callers : pc[p] = "push" => htlock = p
  /\ SomeWaiter \/ (\E p \in Callers : pc[p] = "push") => Cared

LEMMA RowGains ==
  ASSUME NEW s \in Seq(Ults), NEW p \in Ults
  PROVE  /\ \A v : Linked(Append(s, p), v) => Linked(s, v) \/ v = p
         /\ s # <<>> => /\ Tail(s) \in Seq(Ults)
                        /\ \A v : Linked(Tail(s), v) => Linked(s, v)
<1>1. ASSUME NEW v, Linked(Append(s, p), v), v # p
      PROVE  Linked(s, v)
  <2>1. PICK i \in DOMAIN Append(s, p) : Append(s, p)[i] = v
    BY <1>1 DEF Linked
  <2>2. i \in DOMAIN s /\ s[i] = v
    BY <1>1, <2>1
  <2> QED BY <2>2 DEF Linked
<1>2. ASSUME s # <<>>, NEW v, Linked(Tail(s), v)
      PROVE  Linked(s, v)
  <2>1. PICK i \in DOMAIN Tail(s) : Tail(s)[i] = v
    BY <1>2 DEF Linked
  <2>2. i + 1 \in DOMAIN s /\ s[i + 1] = v
    BY <1>2, <2>1
  <2> QED BY <2>2 DEF Linked
<1>3. s # <<>> => Tail(s) \in Seq(Ults)
  OBVIOUS
<1> QED BY <1>1, <1>2, <1>3

(* A caller takes a step, and the rows gain nobody else.                   *)
LEMMA WaiterMoves ==
  ASSUME UltTypeOK, WaiterInv, NEW p \in Callers, NEW l \in Labels, pc' = [pc EXCEPT ![p] = l],
         \A q \in Callers : InRow(q)' => InRow(q) \/ q = p,
         SomeWaiter' => SomeWaiter \/ pc[p] = "push",
         \/ l # "push" /\ UNCHANGED htlock
         \/ l = "push" /\ htlock = None /\ htlock' = p /\ val' = 2
         \/ l # "push" /\ pc[p] = "push" /\ htlock' = None,
         WillWake(p) => val' = 2 \/ \E r \in Callers : WillWake(r)',
         val = 2 => val' = 2 \/ WillWake(p)'
  PROVE  WaiterInv'
<1>1. pc'[p] = l /\ \A q \in Callers : q # p => pc'[q] = pc[q]
  BY DEF UltTypeOK
<1>2. \A q \in Callers : pc'[q] = "push" => htlock' = q
  <2>1. \A q \in Callers : pc[q] = "push" => htlock = q /\ q # None
    BY DEF WaiterInv, UltTypeOK
  <2> QED BY <1>1, <2>1
<1>3. Cared => val' = 2 \/ \E r \in Callers : WillWake(r)'
  <2>1. \A q \in Callers : q # p /\ WillWake(q) => WillWake(q)'
    BY <1>1 DEF WillWake
  <2> QED BY <2>1 DEF Cared
<1>4. ASSUME SomeWaiter' \/ \E q \in Callers : pc'[q] = "push"
      PROVE  Cared \/ val' = 2
  <2>1. CASE l = "push"
    BY <2>1
  <2>2. CASE l # "push"
    <3>1. SomeWaiter \/ \E q \in Callers : pc[q] = "push"
      BY <1>1, <1>4, <2>2
    <3> QED BY <3>1 DEF WaiterInv
  <2> QED BY <2>1, <2>2
<1>5. (SomeWaiter \/ \E q \in Callers : pc[q] = "push")' => val' = 2 \/ \E r \in Callers : WillWake(r)'
  BY <1>3, <1>4
<1>6. Cared' <=> val' = 2 \/ \E r \in Callers : WillWake(r)'
  BY DEF Cared
<1> QED BY <1>2, <1>5, <1>6 DEF WaiterInv

(* The rows stay.                                                          *)
LEMMA WaiterStays ==
  ASSUME UltTypeOK, WaiterInv, NEW p \in Callers, NEW l \in Labels \ {"push"}, pc' = [pc EXCEPT ![p] = l],
         UNCHANGED <<h_row, l_row, htlock>>,
         WillWake(p) => val' = 2 \/ \E r \in Callers : WillWake(r)',
         val = 2 => val' = 2 \/ WillWake(p)'
  PROVE  WaiterInv'
<1>1. \A q \in Callers : InRow(q)' => InRow(q)
  BY DEF InRow
<1>2. SomeWaiter' => SomeWaiter
  BY DEF SomeWaiter
<1> QED BY <1>1, <1>2, WaiterMoves

(* The receiver of a handover, or a waiter that has been woken, or the one *)
(* that a woken caller of lock_low is about to switch to, will wake.       *)
LEMMA HeldWillWake ==
  ASSUME UltTypeOK, UltInv, NEW k \in {"popped", "handover"}, NEW x, NEW u \in Ults, Holds(k, x, u)
  PROVE  /\ pc[u] \in {"suspend", "queued"} => WillWake(u)
         /\ \E r \in Ults : pc[r] \in {"suspend", "queued"} /\ WillWake(r)
<1>1. ASSUME NEW v \in Ults, NEW y, NEW m \in {"popped", "handover"}, Holds(m, y, v)
      PROVE  Asleep(v) /\ (pc[v] \in {"suspend", "queued"} => WillWake(v))
  <2>1. Asleep(v)
    BY <1>1 DEF UltInv, HeldSleeps
  <2>2. \A z : ~ Holds("high", z, v) /\ ~ Holds("low", z, v)
    BY <1>1 DEF UltInv, HeldOnce
  <2>3. ~ InRow(v)
    BY <2>2 DEF InRow, Holds
  <2> QED BY <2>1, <2>3 DEF WillWake
<1>2. CASE pc[u] \in {"suspend", "queued"}
  BY <1>1, <1>2
<1>3. CASE pc[u] \notin {"suspend", "queued"}
  <2>1. pc[u] = "switching"
    BY <1>1, <1>3 DEF Asleep
  <2>2. u \in prog.low /\ u \notin Externals /\ Executes(u)
    BY <2>1 DEF UltInv, ExecInv, UltTypeOK
  <2>3. PICK e \in Xstreams : Runs(e, u)
    BY <2>2 DEF Executes, Runs
  <2>4. PICK w : popped[u] = w
    OBVIOUS
  <2>5. w \in prog.low /\ w \in Ults /\ w # u /\ e \in prog.serves[w]
    BY <2>1, <2>3, <2>4 DEF UltInv, HomeInv, UltTypeOK
  <2>6. Holds("popped", u, w)
    BY <2>4 DEF Holds, UltTypeOK
  <2>7. Asleep(w) /\ (pc[w] \in {"suspend", "queued"} => WillWake(w))
    BY <1>1, <2>5, <2>6
  <2>8. pc[w] # "switching"
    <3>1. SUFFICES ASSUME pc[w] = "switching"
                   PROVE  FALSE
      OBVIOUS
    <3>2. w \notin Externals /\ Executes(w)
      BY <2>5, <3>1 DEF UltInv, ExecInv, UltTypeOK
    <3>3. PICK d \in Xstreams : Runs(d, w)
      BY <3>2 DEF Executes, Runs
    <3>4. d \in prog.serves[w]
      BY <2>5, <3>3 DEF UltInv, HomeInv
    <3>5. d = e
      BY <2>5, <3>4 DEF UltTypeOK
    <3> QED BY <2>3, <2>5, <3>3, <3>5 DEF Runs
  <2> QED BY <1>3, <2>5, <2>7, <2>8 DEF Asleep
<1> QED BY <1>2, <1>3

LEMMA WaiterStep ==
  ASSUME MutexAssumption, LowStaysHome, MutexInv, WaiterInv, [Next]_vars
  PROVE  WaiterInv'
<1>i. CallInv /\ RowInv /\ OwnerInv /\ UltInv
  BY DEF MutexInv
<1>t. UltTypeOK
  BY <1>i, UltTyped
<1>n. pc \in [Callers -> Labels] /\ None \notin Callers /\ Ults \subseteq Callers
  BY <1>t DEF UltTypeOK
<1>r. UNCHANGED <<h_row, l_row>> => (\A q : InRow(q)' <=> InRow(q)) /\ (SomeWaiter' <=> SomeWaiter)
  BY DEF InRow, SomeWaiter
<1>1. ASSUME NEW p \in Callers, LockCas(p) \/ Given(p) \/ Yield(p)
      PROVE  WaiterInv'
  <2>1. PICK l \in {"user", "cs", "check", "exch"} : pc' = [pc EXCEPT ![p] = l]
    BY <1>1 DEF LockCas, Given, Yield, Goto
  <2>2. /\ pc[p] \in {"user", "given", "yield", "cs"} /\ (val = 2 => val' = 2)
        /\ UNCHANGED <<h_row, l_row, htlock>>
    BY <1>1 DEF LockCas, Given, Yield, At, rowVars
  <2>3. ~ WillWake(p)
    BY <2>2 DEF WillWake
  <2> QED BY <1>t, <2>1, <2>2, <2>3, WaiterStays DEF Labels, Owning
<1>2. ASSUME NEW p \in Callers, LockExch(p)
      PROVE  WaiterInv'
  <2>1. PICK l \in {"cs", "check"} : pc' = [pc EXCEPT ![p] = l]
    BY <1>2 DEF LockExch, Goto
  <2>2. val' = 2 /\ UNCHANGED <<h_row, l_row, htlock>>
    BY <1>2 DEF LockExch, rowVars
  <2> QED BY <1>t, <2>1, <2>2, WaiterStays DEF Labels, Owning
<1>3. ASSUME NEW p \in Callers, WaitCheck(p)
      PROVE  WaiterInv'
  <2>1. /\ pc[p] = "check" /\ htlock = None /\ UNCHANGED <<val, h_row, l_row>>
        /\ \/ val = 2 /\ htlock' = p /\ pc' = [pc EXCEPT ![p] = "push"]
           \/ UNCHANGED htlock /\ pc' = [pc EXCEPT ![p] = "exch"]
    BY <1>3 DEF WaitCheck, At, Goto, rowVars
  <2>2. ~ WillWake(p)
    BY <2>1 DEF WillWake
  <2> QED BY <1>t, <1>r, <2>1, <2>2, WaiterMoves DEF Labels, Owning
<1>4. ASSUME NEW p \in Callers, Suspend(p)
      PROVE  WaiterInv'
  <2>1. /\ pc[p] = "suspend" /\ pc' = [pc EXCEPT ![p] = "queued"]
        /\ UNCHANGED <<val, h_row, l_row, htlock>>
    BY <1>4 DEF Suspend, Goto, rowVars
  <2>2. pc'[p] = "queued"
    BY <1>n, <2>1
  <2>3. WillWake(p) => WillWake(p)'
    BY <1>r, <2>1, <2>2 DEF WillWake
  <2> QED BY <1>t, <2>1, <2>3, WaiterStays DEF Labels, Owning
<1>5. ASSUME NEW p \in Callers, NEW e \in Xstreams, WaitPush(e, p)
      PROVE  WaiterInv'
  <2>1. /\ p \in Ults /\ pc[p] = "push" /\ pc' = [pc EXCEPT ![p] = "suspend"] /\ htlock' = None /\ UNCHANGED val
        /\ \/ l_row' = [l_row EXCEPT ![e] = Append(@, p)] /\ UNCHANGED h_row
           \/ h_row' = [h_row EXCEPT ![e] = Append(@, p)] /\ UNCHANGED l_row
    BY <1>i, <1>5, RunsUlt DEF WaitPush, Goto
  <2>2. /\ \A d \in Xstreams : \A v : Linked(h_row'[d], v) => Linked(h_row[d], v) \/ v = p
        /\ \A d \in Xstreams : \A v : Linked(l_row'[d], v) => Linked(l_row[d], v) \/ v = p
    <3>1. /\ \A v : Linked(Append(h_row[e], p), v) => Linked(h_row[e], v) \/ v = p
          /\ \A v : Linked(Append(l_row[e], p), v) => Linked(l_row[e], v) \/ v = p
      <4>1. h_row[e] \in Seq(Ults) /\ l_row[e] \in Seq(Ults)
        BY <1>t DEF UltTypeOK
      <4> QED BY <2>1, <4>1, RowGains
    <3>2. /\ \A d \in Xstreams : h_row'[d] \in {h_row[d], IF d = e THEN Append(h_row[e], p) ELSE h_row[d]}
          /\ \A d \in Xstreams : l_row'[d] \in {l_row[d], IF d = e THEN Append(l_row[e], p) ELSE l_row[d]}
      BY <1>t, <2>1 DEF UltTypeOK
    <3> QED BY <3>1, <3>2
  <2>3. \A q \in Callers : InRow(q)' => InRow(q) \/ q = p
    BY <2>2 DEF InRow
  <2>4. ~ WillWake(p)
    BY <2>1 DEF WillWake
  <2> QED BY <1>t, <2>1, <2>3, <2>4, WaiterMoves DEF Labels, Owning
<1>6. ASSUME NEW p \in Callers, NEW e \in Xstreams, LockLowSwitch(e, p)
      PROVE  WaiterInv'
  <2>1. /\ p \in Ults /\ pc[p] = "user" /\ pc' = [pc EXCEPT ![p] = "switching"] /\ l_row[e] # <<>>
        /\ l_row' = [l_row EXCEPT ![e] = Append(Tail(@), p)] /\ UNCHANGED <<h_row, htlock, val>>
    BY <1>i, <1>6, RunsUlt DEF LockLowSwitch, Goto
  <2>2. \A d \in Xstreams : \A v : Linked(l_row'[d], v) => Linked(l_row[d], v) \/ v = p
    <3>1. \A v : Linked(Append(Tail(l_row[e]), p), v) => Linked(l_row[e], v) \/ v = p
      <4>1. PICK s : s = Tail(l_row[e])
        OBVIOUS
      <4>2. l_row[e] \in Seq(Ults)
        BY <1>t DEF UltTypeOK
      <4>3. s \in Seq(Ults) /\ \A v : Linked(s, v) => Linked(l_row[e], v)
        BY <2>1, <4>1, <4>2, RowGains
      <4>4. \A v : Linked(Append(s, p), v) => Linked(s, v) \/ v = p
        BY <2>1, <4>3, RowGains
      <4> QED BY <4>1, <4>3, <4>4
    <3>2. \A d \in Xstreams : l_row'[d] = IF d = e THEN Append(Tail(l_row[e]), p) ELSE l_row[d]
      BY <1>t, <2>1 DEF UltTypeOK
    <3> QED BY <3>1, <3>2
  <2>3. \A q \in Callers : InRow(q)' => InRow(q) \/ q = p
    BY <2>1, <2>2 DEF InRow
  <2>4. SomeWaiter /\ ~ WillWake(p)
    BY <2>1 DEF WillWake, SomeWaiter
  <2> QED BY <1>t, <2>1, <2>3, <2>4, WaiterMoves DEF Labels, Owning
<1>7. ASSUME NEW p \in Callers, NEW e \in Xstreams, LockLowSwitched(e, p)
      PROVE  WaiterInv'
  <2>1. /\ pc[p] = "switching" /\ pc' = [pc EXCEPT ![p] = "queued"] /\ UNCHANGED <<val, h_row, l_row, htlock>>
    BY <1>7 DEF LockLowSwitched, Goto, rowVars
  <2>2. ~ WillWake(p)
    BY <2>1 DEF WillWake
  <2> QED BY <1>t, <2>1, <2>2, WaiterStays DEF Labels, Owning
<1>8. ASSUME NEW p \in Callers, Resumed(p)
      PROVE  WaiterInv'
  <2>1. /\ UNCHANGED <<h_row, l_row, htlock>>
        /\ \/ val' = 2 /\ pc' = [pc EXCEPT ![p] = "cs"]
           \/ UNCHANGED val /\ pc' = [pc EXCEPT ![p] = "exch"]
    BY <1>8 DEF Resumed, Goto, rowVars
  <2>2. pc' = [pc EXCEPT ![p] = "exch"] => WillWake(p)'
    BY <1>n DEF WillWake
  <2> QED BY <1>t, <2>1, <2>2, WaiterStays DEF Labels, Owning
<1>9. ASSUME NEW p \in Callers, Unlock(p)
      PROVE  WaiterInv'
  <2>1. /\ pc[p] = "cs" /\ UNCHANGED <<h_row, l_row, htlock>>
        /\ \/ \E l \in {"yield", "user"} : val = 1 /\ pc' = [pc EXCEPT ![p] = l]
           \/ \E l \in {"se.check", "store"} : pc' = [pc EXCEPT ![p] = l]
    BY <1>9 DEF Unlock, At, Goto, rowVars
  <2>2. ~ WillWake(p)
    BY <2>1 DEF WillWake
  <2>3. CASE \E l \in {"yield", "user"} : val = 1 /\ pc' = [pc EXCEPT ![p] = l]
    <3>1. val # 2
      BY <2>3
    <3> QED BY <1>t, <2>1, <2>2, <2>3, <3>1, WaiterStays DEF Labels, Owning
  <2>4. CASE \E l \in {"se.check", "store"} : pc' = [pc EXCEPT ![p] = l]
    <3>1. WillWake(p)'
      BY <1>n, <2>4 DEF WillWake
    <3> QED BY <1>t, <2>1, <2>2, <2>4, <3>1, WaiterStays DEF Labels, Owning
  <2> QED BY <2>1, <2>3, <2>4
<1>10. ASSUME NEW p \in Callers, NEW e \in Xstreams, SeCheck(e, p)
       PROVE  WaiterInv'
  <2>1. UNCHANGED <<h_row, l_row, htlock>>
    BY <1>10 DEF SeCheck, rowVars
  <2>2. PICK l \in {"store", "se.pop", "se.poplow"} : pc' = [pc EXCEPT ![p] = l]
    BY <1>10 DEF SeCheck, Goto
  <2>3. WillWake(p)'
    BY <1>n, <2>2 DEF WillWake
  <2> QED BY <1>t, <2>1, <2>2, <2>3, WaiterStays DEF Labels, Owning
<1>11. ASSUME NEW p \in Callers, NEW c, NEW e \in Xstreams, NEW u, PopsRow(c, e, u),
              NEW l \in {"ready", "se.switch"}, pc' = [pc EXCEPT ![p] = l], UNCHANGED htlock
       PROVE  WaiterInv'
  <2>1. h_row[e] \in Seq(Ults) /\ l_row[e] \in Seq(Ults)
    BY <1>t DEF UltTypeOK
  <2>2. \A d \in Xstreams : \A v : /\ Linked(h_row'[d], v) => Linked(h_row[d], v)
                                   /\ Linked(l_row'[d], v) => Linked(l_row[d], v)
    <3>1. CASE c = "high"
      <4>1. /\ UNCHANGED l_row /\ \A v : Linked(Tail(h_row[e]), v) => Linked(h_row[e], v)
            /\ \A d \in Xstreams : h_row'[d] = IF d = e THEN Tail(h_row[e]) ELSE h_row[d]
        <5>1. PICK x \in Ults : TRUE
          BY <1>11, <2>1, <3>1 DEF PopsRow
        <5> QED BY <1>t, <1>11, <2>1, <3>1, <5>1, RowGains DEF PopsRow, UltTypeOK
      <4> QED BY <4>1
    <3>2. CASE c = "low"
      <4>1. /\ UNCHANGED h_row /\ \A v : Linked(Tail(l_row[e]), v) => Linked(l_row[e], v)
            /\ \A d \in Xstreams : l_row'[d] = IF d = e THEN Tail(l_row[e]) ELSE l_row[d]
        <5>1. PICK x \in Ults : TRUE
          BY <1>11, <2>1, <3>2 DEF PopsRow
        <5> QED BY <1>t, <1>11, <2>1, <3>2, <5>1, RowGains DEF PopsRow, UltTypeOK
      <4> QED BY <4>1
    <3> QED BY <1>11, <3>1, <3>2 DEF PopsRow
  <2>3. \A q \in Callers : InRow(q)' => InRow(q)
    BY <2>2 DEF InRow
  <2>4. SomeWaiter
    BY <1>11 DEF PopsRow, SomeWaiter
  <2>5. WillWake(p)'
    BY <1>n, <1>11 DEF WillWake
  <2> QED BY <1>t, <1>11, <2>3, <2>4, <2>5, WaiterMoves DEF Labels, Owning
<1>12. ASSUME NEW p \in Callers, WakePopHigh(p) \/ WakePopLow(p)
       PROVE  WaiterInv'
  <2>1. pc' = [pc EXCEPT ![p] = "ready"] /\ UNCHANGED htlock
    BY <1>12 DEF WakePopHigh, WakePopLow, Goto
  <2>2. CASE WakePopHigh(p)
    <3>1. PICK e : e = h_list[FirstRow(h_list, h_row)]
      OBVIOUS
    <3>2. e \in Xstreams /\ h_row[e] # <<>>
      BY <1>i, <2>2, <3>1, PopRow DEF WakePopHigh
    <3>3. PICK u : u = Head(h_row[e])
      OBVIOUS
    <3>4. PopsRow("high", e, u)
      BY <2>2, <3>1, <3>2, <3>3 DEF WakePopHigh, PopsRow
    <3> QED BY <1>11, <2>1, <3>2, <3>4
  <2>3. CASE WakePopLow(p)
    <3>1. PICK e : e = l_list[FirstRow(l_list, l_row)]
      OBVIOUS
    <3>2. e \in Xstreams /\ l_row[e] # <<>>
      BY <1>i, <2>3, <3>1, PopRow DEF WakePopLow
    <3>3. PICK u : u = Head(l_row[e])
      OBVIOUS
    <3>4. PopsRow("low", e, u)
      BY <2>3, <3>1, <3>2, <3>3 DEF WakePopLow, PopsRow
    <3> QED BY <1>11, <2>1, <3>2, <3>4
  <2> QED BY <1>12, <2>2, <2>3
<1>13. ASSUME NEW p \in Callers, WakeNobody(p)
       PROVE  WaiterInv'
  <2>1. /\ htlock = None /\ ~ HasWaiter(h_list, h_row) /\ ~ HasWaiter(l_list, l_row)
        /\ UNCHANGED <<val, h_row, l_row, htlock>>
    BY <1>13 DEF WakeNobody, rowVars
  <2>2. PICK l \in {"yield", "user"} : pc' = [pc EXCEPT ![p] = l]
    BY <1>13 DEF WakeNobody, Goto, Unlocked
  <2>3. ~ SomeWaiter
    BY <1>i, <2>1 DEF SomeWaiter, RowInv, HasWaiter, Linked
  <2>4. \A q \in Callers : pc[q] # "push" /\ pc'[q] # "push"
    <3>1. \A q \in Callers : pc[q] # "push"
      BY <1>n, <2>1 DEF WaiterInv
    <3>2. \A q \in Callers : pc'[q] = IF q = p THEN l ELSE pc[q]
      BY <1>n, <2>2
    <3> QED BY <3>1, <3>2
  <2> QED BY <1>r, <2>1, <2>3, <2>4 DEF WaiterInv
<1>14. ASSUME NEW p \in Callers, pc[p] \in {"ready", "se.switch"}, NEW k \in {"popped", "handover"}, NEW x,
              NEW u \in Ults, Holds(k, x, u), NEW l \in Labels \ {"push"}, pc' = [pc EXCEPT ![p] = l],
              UNCHANGED <<val, h_row, l_row, htlock>>
       PROVE  WaiterInv'
  <2>1. PICK r \in Ults : pc[r] \in {"suspend", "queued"} /\ WillWake(r)
    BY <1>i, <1>t, <1>14, HeldWillWake
  <2>2. r \in Callers /\ pc'[r] = pc[r]
    BY <1>n, <1>14, <2>1
  <2>3. WillWake(r)'
    BY <1>r, <1>14, <2>1, <2>2 DEF WillWake
  <2> QED BY <1>t, <1>14, <2>2, <2>3, WaiterStays
<1>15. ASSUME NEW p \in Callers, WakeReady(p)
       PROVE  WaiterInv'
  <2>1. PICK u : u = popped[p]
    OBVIOUS
  <2>2. pc[p] = "ready" /\ UNCHANGED <<val, h_row, l_row, htlock>>
    BY <1>15 DEF WakeReady, At, rowVars
  <2>3. PICK l \in {"wake", "yield", "user"} : pc' = [pc EXCEPT ![p] = l]
    BY <1>15 DEF WakeReady, Goto, Unlocked
  <2>4. u \in Ults /\ Holds("popped", p, u)
    BY <1>i, <2>1, <2>2 DEF CallInv, Holds
  <2> QED BY <1>14, <2>2, <2>3, <2>4 DEF Labels, Owning
<1>16. ASSUME NEW p \in Callers, NEW e \in Xstreams, SeSwitch(e, p)
       PROVE  WaiterInv'
  <2>1. PICK u : u = p_handover
    OBVIOUS
  <2>2. /\ p \in Ults /\ pc[p] = "se.switch" /\ pc' = [pc EXCEPT ![p] = "given"]
        /\ UNCHANGED <<val, h_row, l_row, htlock>>
    BY <1>i, <1>16, RunsUlt DEF SeSwitch, Goto, rowVars
  <2>3. u \in Ults /\ Holds("handover", None, u)
    BY <1>i, <1>t, <2>1, <2>2 DEF UltInv, GiveInv, Holds, UltTypeOK
  <2> QED BY <1>14, <2>2, <2>3 DEF Labels, Owning
<1>17. ASSUME NEW p \in Callers, NEW e \in Xstreams, SePop(e, p) \/ SePopLow(e, p)
       PROVE  WaiterInv'
  <2>1. UNCHANGED <<val, htlock>>
    BY <1>17 DEF SePop, SePopLow
  <2>2. PICK c, row :
          /\ c \in {"high", "low"} /\ PopFor(e, p, row)
          /\ \/ c = "high" /\ row = h_row /\ h_row' = TailOf(row, e) /\ UNCHANGED l_row
             \/ c = "low" /\ row = l_row /\ l_row' = TailOf(row, e) /\ UNCHANGED h_row
    <3>1. CASE SePop(e, p)
      BY <3>1 DEF SePop
    <3>2. CASE SePopLow(e, p)
      BY <3>2 DEF SePopLow
    <3> QED BY <1>17, <3>1, <3>2
  <2>3. CASE row[e] = <<>>
    <3>1. pc' = [pc EXCEPT ![p] = "se.check"]
      BY <2>2, <2>3 DEF PopFor, Goto
    <3>2. row \in [Xstreams -> Seq(Ults)] => TailOf(row, e) = row
      BY <2>3 DEF TailOf
    <3>3. UNCHANGED <<h_row, l_row>>
      BY <1>i, <2>2, <3>2 DEF RowInv
    <3>4. WillWake(p)'
      BY <1>n, <3>1 DEF WillWake
    <3> QED BY <1>t, <2>1, <3>1, <3>3, <3>4, WaiterStays DEF Labels, Owning
  <2>4. CASE row[e] # <<>>
    <3>1. PICK u : u = Head(row[e])
      OBVIOUS
    <3>2. pc' = [pc EXCEPT ![p] = "se.switch"]
      BY <2>2, <2>4 DEF PopFor, Goto
    <3>3. TailOf(row, e) = [row EXCEPT ![e] = Tail(@)]
      BY <2>4 DEF TailOf
    <3>4. PopsRow(c, e, u)
      BY <2>2, <2>4, <3>1, <3>3 DEF PopsRow
    <3> QED BY <1>11, <2>1, <3>2, <3>4
  <2> QED BY <2>3, <2>4
<1>18. ASSUME UNCHANGED <<pc, val, htlock, h_row, l_row>>
       PROVE  WaiterInv'
  BY <1>18 DEF WaiterInv, Cared, WillWake, InRow, SomeWaiter
<1>19. (\E e \in Xstreams, t \in Ults : Run(e, t)) \/ UNCHANGED vars => UNCHANGED <<pc, val, htlock, h_row, l_row>>
  BY DEF Run, vars, callVars, rowVars
<1>20. ASSUME NEW p \in Callers, UnlockStore(p)
       PROVE  WaiterInv'
  <2>1. pc' = [pc EXCEPT ![p] = "wake"] /\ UNCHANGED <<h_row, l_row, htlock>>
    BY <1>20 DEF UnlockStore, Goto, rowVars
  <2>2. WillWake(p)'
    BY <1>n, <2>1 DEF WillWake
  <2> QED BY <1>t, <2>1, <2>2, WaiterStays DEF Labels, Owning
<1> QED BY <1>1, <1>2, <1>3, <1>4, <1>5, <1>6, <1>7, <1>8, <1>9, <1>10, <1>12, <1>13, <1>15, <1>16, <1>17,
           <1>18, <1>19, <1>20
      DEF Next, LockStep, UnlockStep

(* No waiter of the mutex is forgotten (ABTI_mutex_wait, ABTI_mutex_wake_de *)
(* and ABTI_mutex_unlock_se, mutex.c): rows with waiters are linked, and as *)
(* long as there are some, val is 2, so that the owner unlocks by the slow  *)
(* path, or somebody is about to look at the table.                         *)
THEOREM MutexForgetsNobody ==
  ASSUME LowStaysHome
  PROVE  Spec => []NoForgottenWaiter
<1>1. Init => MutexInv /\ WaiterInv
  <2>1. Init => ~ SomeWaiter /\ \A p \in Callers : pc[p] # "push"
    BY DEF Init, SomeWaiter
  <2> QED BY <2>1, MutexAssumption, InitInvs, InitUlt DEF MutexInv, WaiterInv
<1>2. MutexInv /\ WaiterInv /\ [Next]_vars => MutexInv' /\ WaiterInv'
  BY MutexAssumption, LowStaysHome, CallStep, RowStep, OwnerStep, UltStep, WaiterStep DEF MutexInv
<1>3. MutexInv /\ WaiterInv => NoForgottenWaiter
  BY DEF MutexInv, RowInv, WaiterInv, Cared, NoForgottenWaiter
<1> QED BY <1>1, <1>2, <1>3, PTL DEF Spec
=============================================================================
