---------------------------- MODULE SyncLoop_proofs ----------------------------
(***************************************************************************)
(* Theorems about SyncLoop, for every set of threads and loops.            *)
(***************************************************************************)
EXTENDS SyncLoop, TLAPS

Places == {"idle", "ensure", "lock", "recheck", "start", "publish", "submit",
           "wait", "gone"}

Locked(t) == pc[t] \in {"recheck", "start", "publish"}
Bound(t) == pc[t] \in {"submit", "wait"}

(* A loop in use is the published one, and a loop is published only by the *)
(* thread that holds the lock, which has found none.                       *)
LoopIsPublished ==
  \A t \in Threads :
    /\ Bound(t) => current # None /\ inHand[t] = current
    /\ Locked(t) => holder = t
    /\ pc[t] \in {"start", "publish"} => current = None
    /\ pc[t] = "publish" => inHand[t] # None

SyncTyped ==
  /\ pc \in [Threads -> Places]
  /\ inHand \in [Threads -> Loops \cup {None}]
  /\ current \in Loops \cup {None}

(* What every step preserves. At the end of the process _shutdown forgets  *)
(* the loop without the lock, so nothing is said of it then.               *)
SyncInv == SyncTyped /\ (main = "running" => LoopIsPublished)

LEMMA SyncInitInvariant == SyncInit => SyncInv
  BY DEF SyncInit, SyncInv, SyncTyped, LoopIsPublished, Places, Locked, Bound

(* The steps of a calling thread.                                          *)
LEMMA AdvanceInvariant ==
  ASSUME SyncInv, NEW t \in Threads, Call(t) \/ Advance(t)
  PROVE  SyncInv'
  <1> USE SyncAssumption
  <1> USE DEF SyncInv, SyncTyped, LoopIsPublished, Places, Locked, Bound, Goto, Take
  <1>1. CASE Call(t)
    BY <1>1 DEF Call
  <1>2. CASE ReadLoop(t)
    BY <1>2 DEF ReadLoop
  <1>3. CASE Acquire(t)
    BY <1>3 DEF Acquire
  <1>4. CASE Recheck(t)
    <2>1. CASE current = None
      BY <1>4, <2>1 DEF Recheck
    <2>2. CASE current # None
      BY <1>4, <2>2 DEF Recheck
    <2> QED
      BY <2>1, <2>2
  <1>5. CASE StartThread(t)
    BY <1>5 DEF StartThread
  <1>6. CASE StartFails(t)
    BY <1>6 DEF StartFails
  <1>7. CASE Publish(t)
    BY <1>7 DEF Publish
  <1>8. CASE Submit(t)
    BY <1>8 DEF Submit
  <1>9. CASE Return(t)
    BY <1>9 DEF Return
  <1> QED
    BY <1>1, <1>2, <1>3, <1>4, <1>5, <1>6, <1>7, <1>8, <1>9 DEF Advance

(* The steps of the loops' threads do not touch what the invariant is      *)
(* about, and those of the main thread leave "running" and never return.   *)
LEMMA OthersInvariant ==
  ASSUME SyncInv,
         \/ \E t \in Threads : Progress(t)
         \/ \E l \in Loops : Turn(l)
         \/ Quit \/ Shutdown
  PROVE  SyncInv'
  <1> USE SyncAssumption
  <1> USE DEF SyncInv, SyncTyped, LoopIsPublished, Places, Locked, Bound
  <1>1. CASE \E t \in Threads : Progress(t)
    BY <1>1 DEF Progress, HandlerCallsBack, FinishCoroutine
  <1>2. CASE \E l \in Loops : Turn(l)
    BY <1>2 DEF Turn, RunCallback, EndLoop
  <1>3. CASE Quit
    BY <1>3 DEF Quit
  <1>4. CASE PostStop
    BY <1>4 DEF PostStop
  <1>5. CASE JoinAndReset
    BY <1>5 DEF JoinAndReset
  <1>6. CASE Exit
    BY <1>6 DEF Exit
  <1> QED
    BY <1>1, <1>2, <1>3, <1>4, <1>5, <1>6 DEF Shutdown

LEMMA SyncStepInvariant == SyncInv /\ [SyncNext]_syncVars => SyncInv'
  <1> SUFFICES ASSUME SyncInv, [SyncNext]_syncVars
               PROVE  SyncInv'
    OBVIOUS
  <1>1. CASE \E t \in Threads : Call(t) \/ Advance(t)
    BY <1>1, AdvanceInvariant
  <1>2. CASE \/ \E t \in Threads : Progress(t)
             \/ \E l \in Loops : Turn(l)
             \/ Quit \/ Shutdown
    BY <1>2, OthersInvariant
  <1>3. CASE UNCHANGED syncVars
    BY <1>3 DEF SyncInv, SyncTyped, LoopIsPublished, Locked, Bound, syncVars
  <1> QED
    BY <1>1, <1>2, <1>3 DEF SyncNext

(* Until the process ends, every call that is under way uses the published *)
(* loop, and only the thread that holds the lock publishes one.            *)
THEOREM SyncSpecInvariant == SyncSpec => []SyncInv
  <1> QED
    BY SyncInitInvariant, SyncStepInvariant, PTL DEF SyncSpec

(* Until the process ends all calls run on one loop, for any number of     *)
(* threads that make the first call together (_ensure_loop).               *)
THEOREM AllCallsOnOneLoop == SyncSpec => []OneLoop
  <1>1. SyncInv => OneLoop
    BY DEF SyncInv, LoopIsPublished, OneLoop, Bound
  <1> QED
    BY <1>1, SyncSpecInvariant, PTL

================================================================================
