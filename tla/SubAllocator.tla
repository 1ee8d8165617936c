---------------------------- MODULE SubAllocator -----------------------------
(***************************************************************************)
(* Where the KLTs of KltSwitch come from: the local list of every ES, the  *)
(* lock-free global list, and the allocator, a kernel thread that sleeps   *)
(* until an ES that found both lists empty asks it for more KLTs.          *)
(* Source: sub_stream.c (lists and allocator), the futexes of              *)
(* arch/abtd_signal.c.                                                     *)
(*                                                                         *)
(* A step is one access to data that several KLTs share.  What KLTs do     *)
(* with an ES is reduced to who drives it: a tick parks the driver under   *)
(* the ULT it was running and puts a popped KLT in its place; to resume a  *)
(* parked KLT the driver adds itself to a list.  KltSwitch has the rest.   *)
(***************************************************************************)
EXTENDS Integers, FiniteSets

CONSTANTS
  Xstreams, Primary,    \* the ESs, and the one that finalises the runtime
  Klts, None,
  Main,                 \* Main[e]: the main KLT of ES e, never in a list
  InitList,             \* InitList[e]: the local list that ES e starts with
  InitNum,              \* initial_num_sub_xstreams
  CountMod,             \* create_count is unsigned and wraps at CountMod
  Garbage               \* what the uninitialised sleep_flag may hold, 2 for any value but 0

Mains == {Main[e] : e \in Xstreams}

(* A local list starts with InitNum KLTs of its own.                       *)
ASSUME ConstantsAssumption ==
  /\ Primary \in Xstreams
  /\ InitNum \in Nat \ {0} /\ CountMod \in Nat /\ CountMod > Cardinality(Klts)
  /\ Mains \cap Klts = {} /\ None \notin Klts \cup Mains \cup Xstreams
  /\ \A e \in Xstreams : InitList[e] \in [1..InitNum -> Klts]
  /\ \A d, e \in Xstreams, i, j \in 1..InitNum :
       InitList[d][i] = InitList[e][j] => d = e /\ i = j
  /\ \A d, e \in Xstreams : Main[d] = Main[e] => d = e

VARIABLES
  driver,           \* driver[e]: the KLT that drives ES e
  parked,           \* the KLTs that keep a preempted ULT
  resting,          \* the main KLTs that sleep in their trampoline
  succ,             \* succ[e]: the KLT that the driver of e will wake
  pc,               \* where an ES, or a new KLT, is
  head, next,       \* its registers in a pop or an add, None once they are dead
  p_next, p_head,   \* the links of the lists; the head of the global list
  l_head, num,      \* the local list of an ES
  a_pc, batch,      \* where the allocator is; how many KLTs it has yet to create
  sleep_flag, create_count, terminate_flag,
  unborn, freed,    \* the KLTs that do not exist yet, or no longer
  cut               \* history: a pop has put a link in the head that was stale by then

esVars    == <<driver, parked, resting, succ>>
listVars  == <<p_next, p_head, l_head, num>>
regVars   == <<head, next>>
allocVars == <<a_pc, batch, sleep_flag, create_count, terminate_flag, unborn>>
vars      == <<esVars, pc, regVars, listVars, allocVars, freed, cut>>

Procs == Xstreams \cup Klts

Goto(c, l) == pc' = [pc EXCEPT ![c] = l]

(* The KLTs of the list that starts at h.                                  *)
Chain(h) ==
  LET From[C \in SUBSET Klts] ==
        LET D == C \cup ({p_next[k] : k \in C} \ {None}) IN IF D = C THEN C ELSE From[D]
  IN From[{h} \ {None}]
-----------------------------------------------------------------------------
(* A tick in a ULT (ABTI_sub_xstream_list_pop).                            *)

(* The driver d of ES e leaves with its ULT, KLT k takes over.             *)
Park(e, k) ==
  /\ parked' = parked \cup {driver[e]}
  /\ driver' = [driver EXCEPT ![e] = k]
  /\ UNCHANGED <<resting, succ>>

PopLocal(e) ==
  /\ pc[e] = "user" /\ num[e] > 0
  /\ LET k == l_head[e] IN
       /\ l_head' = [l_head EXCEPT ![e] = p_next[k]]
       /\ p_next' = [p_next EXCEPT ![k] = None]
       /\ Park(e, k)
  /\ num' = [num EXCEPT ![e] = @ - 1]
  /\ UNCHANGED <<pc, regVars, p_head, allocVars, freed>>

PopRead(e) ==
  /\ pc[e] = "read" \/ (pc[e] = "user" /\ num[e] = 0)
  /\ head' = [head EXCEPT ![e] = p_head]
  /\ Goto(e, IF p_head = None THEN "request" ELSE "next")
  /\ UNCHANGED <<esVars, next, listVars, allocVars, freed>>

PopNext(e) ==
  /\ pc[e] = "next"
  /\ next' = [next EXCEPT ![e] = p_next[head[e]]]
  /\ Goto(e, "cas")
  /\ UNCHANGED <<esVars, head, listVars, allocVars, freed>>

(* Mutant: gives up when the head has changed.                             *)
PopCasOnce(e) ==
  /\ pc[e] = "cas"
  /\ cut' = (cut \/ (p_head = head[e] /\ next[e] # p_next[p_head]))
  /\ IF p_head = head[e]
     THEN p_head' = next[e] /\ Goto(e, "take") /\ UNCHANGED head
     ELSE UNCHANGED p_head /\ Goto(e, "request") /\ head' = [head EXCEPT ![e] = None]
  /\ next' = [next EXCEPT ![e] = None]
  /\ UNCHANGED <<esVars, p_next, l_head, num, allocVars, freed>>

(* The CAS only compares the head: it cannot tell if that KLT was popped,  *)
(* used and pushed again since PopNext has read its link.                  *)
PopCas(e) ==
  /\ pc[e] = "cas"
  /\ cut' = (cut \/ (p_head = head[e] /\ next[e] # p_next[p_head]))
  /\ IF p_head = head[e]
     THEN p_head' = next[e] /\ Goto(e, "take")
     ELSE UNCHANGED p_head /\ Goto(e, "read")
  /\ next' = [next EXCEPT ![e] = None]
  /\ UNCHANGED <<esVars, head, p_next, l_head, num, allocVars, freed>>

PopTake(e) ==
  /\ pc[e] = "take"
  /\ p_next' = [p_next EXCEPT ![head[e]] = None]
  /\ Park(e, head[e])
  /\ head' = [head EXCEPT ![e] = None]
  /\ Goto(e, "user")
  /\ UNCHANGED <<next, p_head, l_head, num, allocVars, freed>>
-----------------------------------------------------------------------------
(* ABTI_sub_xstream_allocator_req: the ULT goes on whatever comes of it.   *)

FutexWakeup == sleep_flag' = 0

ReqTest(e) ==
  /\ pc[e] = "request"
  /\ Goto(e, IF create_count = 0 THEN "wake" ELSE "user")
  /\ UNCHANGED <<esVars, regVars, listVars, allocVars, freed>>

(* Bound: nobody asks for more KLTs than there are in Klts.                *)
ReqWake(e) ==
  /\ pc[e] = "wake"
  /\ IF Cardinality(unborn) >= InitNum THEN FutexWakeup ELSE UNCHANGED sleep_flag
  /\ Goto(e, "user")
  /\ UNCHANGED <<esVars, regVars, listVars, a_pc, batch, create_count, terminate_flag,
                 unborn, freed>>
-----------------------------------------------------------------------------
(* The driver leaves for a KLT that keeps a preempted ULT, or for the main *)
(* KLT of its ES (ABTI_sub_xstream_back_to_main).  A main KLT rests; any   *)
(* other adds itself to a list first (ABTI_sub_xstream_list_add).          *)
CanLeaveFor(e, k) ==
  /\ pc[e] = "user"
  /\ k \in parked \/ (k = Main[e] /\ k \in resting)

Leave(e, k, others) ==
  /\ parked' = parked \ {k}
  /\ resting' = (resting \ {k}) \cup others

RestMain(e, k) ==
  /\ CanLeaveFor(e, k) /\ driver[e] \in Mains
  /\ Leave(e, k, {driver[e]})
  /\ driver' = [driver EXCEPT ![e] = k]
  /\ UNCHANGED <<succ, pc, regVars, listVars, allocVars, freed>>

AddLocal(e, k) ==
  /\ CanLeaveFor(e, k) /\ driver[e] \in Klts /\ num[e] < InitNum
  /\ Leave(e, k, {})
  /\ p_next' = [p_next EXCEPT ![driver[e]] = l_head[e]]
  /\ l_head' = [l_head EXCEPT ![e] = driver[e]]
  /\ num' = [num EXCEPT ![e] = @ + 1]
  /\ driver' = [driver EXCEPT ![e] = k]
  /\ UNCHANGED <<succ, pc, regVars, p_head, allocVars, freed>>

AddGlobal(e, k) ==
  /\ CanLeaveFor(e, k) /\ driver[e] \in Klts /\ num[e] >= InitNum
  /\ Leave(e, k, {})
  /\ succ' = [succ EXCEPT ![e] = k]
  /\ Goto(e, "load")
  /\ UNCHANGED <<driver, regVars, listVars, allocVars, freed>>

(* ABTI_sub_xstream_list_global_add, by a driver or by a new KLT.          *)
Added(c) == IF c \in Xstreams THEN driver[c] ELSE c

AddLoad(c) ==
  /\ pc[c] = "load"
  /\ head' = [head EXCEPT ![c] = p_head]
  /\ Goto(c, "link")
  /\ UNCHANGED <<esVars, next, listVars, allocVars, freed>>

AddLink(c) ==
  /\ pc[c] = "link"
  /\ p_next' = [p_next EXCEPT ![Added(c)] = head[c]]
  /\ Goto(c, "push")
  /\ UNCHANGED <<esVars, regVars, p_head, l_head, num, allocVars, freed>>

(* Mutant: stores the head without comparing it.                           *)
AddCasBlind(c) ==
  /\ pc[c] = "push"
  /\ p_head' = Added(c)
  /\ IF c \in Xstreams
     THEN /\ driver' = [driver EXCEPT ![c] = succ[c]]
          /\ succ' = [succ EXCEPT ![c] = None]
          /\ Goto(c, "user")
     ELSE Goto(c, "count") /\ UNCHANGED <<driver, succ>>
  /\ head' = [head EXCEPT ![c] = None]
  /\ UNCHANGED <<parked, resting, next, p_next, l_head, num, allocVars, freed>>

(* After its addition a driver wakes its successor.                        *)
AddCas(c) ==
  /\ pc[c] = "push" /\ p_head = head[c]
  /\ p_head' = Added(c)
  /\ IF c \in Xstreams
     THEN /\ driver' = [driver EXCEPT ![c] = succ[c]]
          /\ succ' = [succ EXCEPT ![c] = None]
          /\ Goto(c, "user")
     ELSE Goto(c, "count") /\ UNCHANGED <<driver, succ>>
  /\ head' = [head EXCEPT ![c] = None]
  /\ UNCHANGED <<parked, resting, next, p_next, l_head, num, allocVars, freed>>

AddCasFails(c) ==
  /\ pc[c] = "push" /\ p_head # head[c]
  /\ Goto(c, "load")
  /\ UNCHANGED <<esVars, regVars, listVars, allocVars, freed>>

(* The end of ABTI_sub_xstream_on_initial_sleep: a new KLT is listed.      *)
CountDown(k) ==
  /\ pc[k] = "count"
  /\ create_count' = (create_count - 1) % CountMod
  /\ Goto(k, "listed")
  /\ UNCHANGED <<esVars, regVars, listVars, a_pc, batch, sleep_flag, terminate_flag,
                 unborn, freed>>
-----------------------------------------------------------------------------
(* ABTI_sub_xstream_allocator_fn.                                          *)

AllocStore ==
  /\ a_pc = "store"
  /\ sleep_flag' = 1
  /\ a_pc' = "wait"
  /\ UNCHANGED <<batch, create_count, terminate_flag, unborn>>

(* FUTEX_WAIT returns at once, or when it is woken, if the flag is not 1.  *)
AllocWait ==
  /\ a_pc = "wait" /\ sleep_flag # 1
  /\ a_pc' = "woken"
  /\ UNCHANGED <<batch, sleep_flag, create_count, terminate_flag, unborn>>

AllocEnd ==
  /\ a_pc = "woken" /\ terminate_flag = 1
  /\ a_pc' = "ended"
  /\ UNCHANGED <<batch, sleep_flag, create_count, terminate_flag, unborn>>

(* As built by build_argobots.bash, the assertion of line 671 is no code.  *)
AllocStart ==
  /\ a_pc = "woken" /\ terminate_flag = 0
  /\ create_count' = InitNum
  /\ batch' = InitNum
  /\ a_pc' = "create"
  /\ UNCHANGED <<sleep_flag, terminate_flag, unborn>>

(* A new KLT starts and comes to its initial sleep.                        *)
AllocCreate(k) ==
  /\ a_pc = "create" /\ k \in unborn
  /\ unborn' = unborn \ {k}
  /\ batch' = batch - 1
  /\ a_pc' = IF batch = 1 THEN "store" ELSE "create"
  /\ Goto(k, "load")
  /\ UNCHANGED <<sleep_flag, create_count, terminate_flag>>

AllocStep ==
  /\ \/ (AllocStore \/ AllocWait \/ AllocEnd \/ AllocStart) /\ UNCHANGED pc
     \/ \E k \in Klts : AllocCreate(k)
  /\ UNCHANGED <<esVars, regVars, listVars, freed, cut>>
-----------------------------------------------------------------------------
(* The end of an ES, back on its main KLT: the KLTs of its local list are  *)
(* freed.  The primary ES ends last and frees the allocator.               *)
LocalFree(e) ==
  /\ pc[e] = "user" /\ driver[e] = Main[e]
  /\ e = Primary => parked = {} /\ \A d \in Xstreams \ {e} : pc[d] = "ended"
  /\ freed' = freed \cup Chain(l_head[e])
  /\ l_head' = [l_head EXCEPT ![e] = None]
  /\ num' = [num EXCEPT ![e] = 0]
  /\ Goto(e, IF e = Primary THEN "free" ELSE "ended")
  /\ UNCHANGED <<esVars, regVars, p_next, p_head, allocVars>>

(* ABTI_sub_xstream_allocator_free.                                        *)
FreeCount ==
  /\ pc[Primary] = "free" /\ create_count = 0
  /\ Goto(Primary, "asleep")
  /\ UNCHANGED <<esVars, regVars, listVars, allocVars, freed>>

(* Mutant: does not wait until the allocator surely sleeps.                *)
FreeSleepsAtOnce ==
  /\ pc[Primary] = "asleep"
  /\ terminate_flag' = 1
  /\ Goto(Primary, "terminate")
  /\ UNCHANGED <<esVars, regVars, listVars, a_pc, batch, sleep_flag, create_count, unborn,
                 freed>>

FreeSleeps ==
  /\ pc[Primary] = "asleep" /\ sleep_flag # 0
  /\ terminate_flag' = 1
  /\ Goto(Primary, "terminate")
  /\ UNCHANGED <<esVars, regVars, listVars, a_pc, batch, sleep_flag, create_count, unborn,
                 freed>>

FreeWake ==
  /\ pc[Primary] = "terminate"
  /\ FutexWakeup
  /\ Goto(Primary, "join")
  /\ UNCHANGED <<esVars, regVars, listVars, a_pc, batch, create_count, terminate_flag,
                 unborn, freed>>

FreeList ==
  /\ pc[Primary] = "join" /\ a_pc = "ended"
  /\ freed' = freed \cup Chain(p_head)
  /\ p_head' = None
  /\ Goto(Primary, "ended")
  /\ UNCHANGED <<esVars, regVars, p_next, l_head, num, allocVars>>
-----------------------------------------------------------------------------
Init ==
  LET initial == UNION {{InitList[e][i] : i \in 1..InitNum} : e \in Xstreams} IN
  /\ driver = Main
  /\ parked = {} /\ resting = {}
  /\ succ = [e \in Xstreams |-> None]
  /\ pc = [c \in Procs |-> IF c \in Xstreams THEN "user"
                           ELSE IF c \in initial THEN "listed" ELSE "unborn"]
  /\ head = [c \in Procs |-> None] /\ next = [c \in Procs |-> None]
  /\ p_next = [k \in Klts |->
       LET after == {InitList[e][i + 1] : <<e, i>> \in
                       {x \in Xstreams \X (1..InitNum - 1) : InitList[x[1]][x[2]] = k}}
       IN IF after = {} THEN None ELSE CHOOSE l \in after : TRUE]
  /\ p_head = None
  /\ l_head = [e \in Xstreams |-> InitList[e][1]]
  /\ num = [e \in Xstreams |-> InitNum]
  /\ a_pc = "store" /\ batch = 0
  /\ sleep_flag \in Garbage /\ create_count = 0 /\ terminate_flag = 0
  /\ unborn = Klts \ initial
  /\ freed = {} /\ cut = FALSE

EsStep(e) ==
  \/ PopCas(e)
  \/ /\ \/ PopLocal(e) \/ PopRead(e) \/ PopNext(e) \/ PopTake(e)
        \/ ReqTest(e) \/ ReqWake(e) \/ LocalFree(e)
        \/ \E k \in Klts \cup Mains : RestMain(e, k) \/ AddLocal(e, k) \/ AddGlobal(e, k)
     /\ UNCHANGED cut

AddStep(c) == (AddLoad(c) \/ AddLink(c) \/ AddCas(c) \/ AddCasFails(c)) /\ UNCHANGED cut

CountStep(k) == CountDown(k) /\ UNCHANGED cut

FreeStep == (FreeCount \/ FreeSleeps \/ FreeWake \/ FreeList) /\ UNCHANGED cut

Next ==
  \/ \E e \in Xstreams : EsStep(e)
  \/ \E c \in Procs : AddStep(c)
  \/ \E k \in Klts : CountStep(k)
  \/ AllocStep \/ FreeStep

Spec == Init /\ [][Next]_vars
-----------------------------------------------------------------------------
TypeOK ==
  /\ driver \in [Xstreams -> Klts \cup Mains]
  /\ parked \subseteq Klts \cup Mains /\ resting \subseteq Mains
  /\ succ \in [Xstreams -> Klts \cup Mains \cup {None}]
  /\ pc \in [Procs -> {"user", "read", "next", "cas", "take", "request", "wake", "load",
       "link", "push", "count", "unborn", "listed", "free", "asleep", "terminate", "join",
       "ended"}]
  /\ head \in [Procs -> Klts \cup {None}] /\ next \in [Procs -> Klts \cup {None}]
  /\ p_next \in [Klts -> Klts \cup {None}] /\ p_head \in Klts \cup {None}
  /\ l_head \in [Xstreams -> Klts \cup {None}] /\ num \in [Xstreams -> 0..InitNum]
  /\ a_pc \in {"store", "wait", "woken", "create", "ended"}
  /\ batch \in 0..InitNum /\ create_count \in 0..CountMod - 1
  /\ sleep_flag \in Garbage \cup {0, 1} /\ terminate_flag \in {0, 1}
  /\ unborn \subseteq Klts /\ freed \subseteq Klts /\ cut \in BOOLEAN

(* The places of the KLTs.                                                *)
Places ==
  {<<driver[e], "drives", e>> : e \in Xstreams}
    \cup {<<succ[e], "next", e>> : e \in {d \in Xstreams : succ[d] # None}}
    \cup {<<head[e], "popped", e>> : e \in {d \in Xstreams : pc[d] = "take"}}
    \cup UNION {Chain(l_head[e]) \X {"local"} \X {e} : e \in Xstreams}
    \cup {<<k, "new", None>> : k \in {l \in Klts : pc[l] \in {"load", "link", "push"}}}
    \cup UNION {s[1] \X {s[2]} \X {None} : s \in
            {<<parked, "parked">>, <<resting, "resting">>, <<Chain(p_head), "global">>,
             <<unborn, "unborn">>, <<freed, "freed">>}}

(* Every KLT is in one place: in one list or in use once, never handed to  *)
(* two ESs and never lost, although ESs and new KLTs link it and unlink it *)
(* without a lock; and num is the length of the local list.                *)
InOnePlace ==
  /\ {p[1] : p \in Places} = Klts \cup Mains
  /\ \A p, q \in Places : p[1] = q[1] => p = q
  /\ \A e \in Xstreams : Cardinality(Chain(l_head[e])) = num[e]

(* The only thing that can break this is a stale link: whatever else ESs   *)
(* and new KLTs do to the lists at the same time, they may.                *)
OnePlace == ~ cut => InOnePlace

(* A driver may add itself to a list while it still runs, "because the     *)
(* addition is serialized in the ES execution" (sub_stream.c:44): no KLT   *)
(* is lost or driven by two ESs.  It is, after a stale link.               *)
AdditionSerialized == InOnePlace

(* The assertion of sub_stream.c:671, that all KLTs of the last request    *)
(* have been added when the next one is served.                            *)
CreateCountAssert == a_pc = "woken" /\ terminate_flag = 0 => create_count = 0

(* ABTI_sub_xstream_allocator_free waits until all KLTs allocated earlier  *)
(* are in the list (sub_stream.c:723): none adds itself once it returned.  *)
FreedAfterAdded ==
  pc[Primary] = "ended" =>
    \A k \in Klts : pc[k] \notin {"load", "link", "push", "count"}

(* It also waits until the allocator surely sleeps (sub_stream.c:728),     *)
(* before it raises terminate_flag.                                        *)
SurelySleeps == pc[Primary] = "terminate" => a_pc = "wait"

(* The wakeup that asks the allocator to terminate is not lost, so that    *)
(* the pthread_join after it returns: the allocator waits already or is    *)
(* past its wait, and does not prepare another one.  Unless the flag that  *)
(* allocator_free takes for sleep is what the memory held before the       *)
(* allocator stored it.                                                    *)
TerminationSeen ==
  [][/\ pc[Primary] = "terminate" /\ pc'[Primary] = "join"
     /\ sleep_flag \in {0, 1}
     => a_pc \in {"wait", "woken", "ended"}]_vars

(* The lock-free list is an atomic one, as KltSwitch takes it to be, up to *)
(* the first stale link.                                                   *)
List == INSTANCE KltList WITH
  listed <- Chain(p_head),
  taken  <- {<<e, head[e]>> : e \in {d \in Xstreams : pc[d] = "take"}},
  failed <- {e \in Xstreams : pc[e] = "request"}

listStateVars == <<Chain(p_head), {<<e, head[e]>> : e \in {d \in Xstreams : pc[d] = "take"}},
                   {e \in Xstreams : pc[e] = "request"}>>
ImplementsKltList == List!Init /\ [][cut' \/ List!Next]_listStateVars
=============================================================================
