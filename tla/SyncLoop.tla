-------------------------------- MODULE SyncLoop --------------------------------
(***************************************************************************)
(* sync.py: threads that call the blocking API. _run hands a coroutine to  *)
(* one event loop in a daemon thread, which the first call starts and      *)
(* _shutdown, an atexit handler, stops.                                    *)
(*                                                                         *)
(* External: the interpreter runs atexit handlers once every thread that   *)
(* is no daemon has ended; a stopped loop accepts callbacks and runs none. *)
(***************************************************************************)
EXTENDS Naturals, Sequences

CONSTANTS
  Threads,    \* the threads that call snipz.sync
  Daemons,    \* those the interpreter does not wait for
  Loops,      \* bound: the event loops that may be created, numbered
  None

VARIABLES
  current,    \* _loop
  holder,     \* the thread that holds _lock
  loop,       \* loop -> [state, ready]: its callbacks, in order
  pc,         \* thread -> where its call is
  inHand,     \* thread -> the loop its call uses
  coro,       \* thread -> the coroutine of its call
  main        \* the main thread

syncVars == <<current, holder, loop, pc, inHand, coro, main>>

ASSUME SyncAssumption ==
  Daemons \subseteq Threads /\ Loops \subseteq Nat /\ None \notin Loops \cup Threads

SyncInit ==
  /\ current = None
  /\ holder = None
  /\ loop = [l \in Loops |-> [state |-> "new", ready |-> <<>>]]
  /\ pc = [t \in Threads |-> "idle"]
  /\ inHand = [t \in Threads |-> None]
  /\ coro = [t \in Threads |-> "none"]
  /\ main = "running"

Goto(t, where) == pc' = [pc EXCEPT ![t] = where]
Take(t, l) == inHand' = [inHand EXCEPT ![t] = l]

--------------------------------------------------------------------------------
(* _run and _ensure_loop, in the calling thread.                           *)

Call(t) ==
  /\ pc[t] = "idle"
  /\ main = "running" \/ t \in Daemons
  /\ Goto(t, "ensure")
  /\ UNCHANGED <<current, holder, loop, inHand, coro, main>>

(* The first look at _loop, without the lock.                              *)
ReadLoop(t) ==
  /\ pc[t] = "ensure"
  /\ Take(t, current)
  /\ Goto(t, IF current = None THEN "lock" ELSE "submit")
  /\ UNCHANGED <<current, holder, loop, coro, main>>

Acquire(t) ==
  /\ pc[t] = "lock"
  /\ holder = None
  /\ holder' = t
  /\ Goto(t, "recheck")
  /\ UNCHANGED <<current, loop, inHand, coro, main>>

(* Mutant of Recheck: the lock, but no second look.                        *)
RecheckNothing(t) ==
  /\ pc[t] = "recheck"
  /\ Goto(t, "start")
  /\ UNCHANGED <<current, holder, loop, inHand, coro, main>>

(* The second look, under the lock.                                        *)
Recheck(t) ==
  /\ pc[t] = "recheck"
  /\ IF current = None
     THEN Goto(t, "start") /\ UNCHANGED <<holder, inHand>>
     ELSE Goto(t, "submit") /\ Take(t, current) /\ holder' = None
  /\ UNCHANGED <<current, loop, coro, main>>

(* A new loop runs in a new thread.                                        *)
StartThread(t) ==
  /\ pc[t] = "start"
  /\ \E l \in Loops :
       /\ loop[l].state = "new"
       /\ \A k \in Loops : loop[k].state = "new" => l <= k
       /\ loop' = [loop EXCEPT ![l].state = "running"]
       /\ Take(t, l)
  /\ Goto(t, "publish")
  /\ UNCHANGED <<current, holder, coro, main>>

(* No thread can be started: RuntimeError to the caller.                   *)
StartFails(t) ==
  /\ pc[t] = "start"
  /\ holder' = None
  /\ Goto(t, "idle")
  /\ UNCHANGED <<current, loop, inHand, coro, main>>

Publish(t) ==
  /\ pc[t] = "publish"
  /\ current' = inHand[t]
  /\ holder' = None
  /\ Goto(t, "submit")
  /\ UNCHANGED <<loop, inHand, coro, main>>

(* run_coroutine_threadsafe, whatever has become of the loop meanwhile.    *)
Submit(t) ==
  /\ pc[t] = "submit"
  /\ loop' = [loop EXCEPT ![inHand[t]].ready = Append(@, t)]
  /\ coro' = [coro EXCEPT ![t] = "queued"]
  /\ Goto(t, "wait")
  /\ UNCHANGED <<current, holder, inHand, main>>

(* future.result().                                                        *)
Return(t) ==
  /\ pc[t] = "wait"
  /\ coro[t] = "done"
  /\ coro' = [coro EXCEPT ![t] = "none"]
  /\ Take(t, None)
  /\ Goto(t, "idle")
  /\ UNCHANGED <<current, holder, loop, main>>

--------------------------------------------------------------------------------
(* The thread of a loop (external, but for HandlerCallsBack).              *)

Alive(l) == loop[l].state \in {"running", "stopping"}

(* The next callback: the start of a coroutine, or loop.stop, after which  *)
(* the loop ends with the batch of callbacks it is in.                     *)
RunCallback(l) ==
  LET next == Head(loop[l].ready)
  IN  /\ Alive(l)
      /\ loop[l].ready # <<>>
      /\ loop' = [loop EXCEPT ![l].ready = Tail(@),
                              ![l].state = IF next = "stop" THEN "stopping" ELSE @]
      /\ coro' = IF next = "stop" THEN coro ELSE [coro EXCEPT ![next] = "running"]
      /\ UNCHANGED <<current, holder, pc, inHand, main>>

EndLoop(l) ==
  /\ loop[l].state = "stopping"
  /\ loop' = [loop EXCEPT ![l].state = "stopped"]
  /\ UNCHANGED <<current, holder, pc, inHand, coro, main>>

(* Mutant of HandlerCallsBack: _run does not ask whether a loop is running *)
(* and blocks the loop on its own next callback.                           *)
HandlerBlocks(t) ==
  /\ coro[t] = "running" /\ Alive(inHand[t])
  /\ loop' = [loop EXCEPT ![inHand[t]].state = "blocked"]
  /\ UNCHANGED <<current, holder, pc, inHand, coro, main>>

(* An event handler of the coroutine calls snipz.sync in the loop's own    *)
(* thread: _run raises, and the dispatcher logs the error.                 *)
HandlerCallsBack(t) ==
  /\ coro[t] = "running" /\ Alive(inHand[t])
  /\ coro' = [coro EXCEPT ![t] = "handled"]
  /\ UNCHANGED <<current, holder, loop, pc, inHand, main>>

FinishCoroutine(t) ==
  /\ coro[t] \in {"running", "handled"} /\ Alive(inHand[t])
  /\ coro' = [coro EXCEPT ![t] = "done"]
  /\ UNCHANGED <<current, holder, loop, pc, inHand, main>>

--------------------------------------------------------------------------------
(* The main thread: the end of the process, and _shutdown.                 *)

Quit ==
  /\ main = "running"
  /\ \A t \in Threads \ Daemons : pc[t] = "idle"
  /\ main' = "atexit"
  /\ UNCHANGED <<current, holder, loop, pc, inHand, coro>>

(* _shutdown: loop.stop is one more callback, behind what is queued.       *)
PostStop ==
  /\ main = "atexit"
  /\ IF current = None
     THEN main' = "last" /\ UNCHANGED loop
     ELSE /\ loop' = [loop EXCEPT ![current].ready = Append(@, "stop")]
          /\ main' = "join"
  /\ UNCHANGED <<current, holder, pc, inHand, coro>>

(* thread.join returns, after at most five seconds, and the globals are    *)
(* reset without the lock.                                                 *)
JoinAndReset ==
  /\ main = "join"
  /\ current' = None
  /\ main' = "last"
  /\ UNCHANGED <<holder, loop, pc, inHand, coro>>

(* The process ends, and with it the daemon threads.                       *)
Exit ==
  /\ main = "last"
  /\ main' = "exited"
  /\ pc' = [t \in Threads |-> "gone"]
  /\ UNCHANGED <<current, holder, loop, inHand, coro>>

--------------------------------------------------------------------------------
Advance(t) ==
  \/ ReadLoop(t) \/ Acquire(t) \/ Recheck(t) \/ StartThread(t) \/ StartFails(t)
  \/ Publish(t) \/ Submit(t) \/ Return(t)

Turn(l) ==
  /\ main # "exited"
  /\ RunCallback(l) \/ EndLoop(l)

Progress(t) == main # "exited" /\ (HandlerCallsBack(t) \/ FinishCoroutine(t))

Shutdown == PostStop \/ JoinAndReset \/ Exit

SyncNext ==
  \/ \E t \in Threads : Call(t) \/ Advance(t) \/ Progress(t)
  \/ \E l \in Loops : Turn(l)
  \/ Quit \/ Shutdown

SyncSpec == SyncInit /\ [][SyncNext]_syncVars

(* Threads are scheduled, _lock is handed on, the loop runs its callbacks, *)
(* and coroutines end because their database calls do.                     *)
FairSyncSpec ==
  /\ SyncSpec
  /\ \A t \in Threads : WF_syncVars(Advance(t)) /\ SF_syncVars(Acquire(t))
                        /\ WF_syncVars(Progress(t))
  /\ \A l \in Loops : WF_syncVars(Turn(l))
  /\ WF_syncVars(Shutdown)

--------------------------------------------------------------------------------
(* Properties.                                                             *)

(* Until the process ends every call runs on one loop, whichever threads   *)
(* make the first call together: a backend's locks and connections belong  *)
(* to the loop they were first used in (_ensure_loop).                     *)
OneLoop ==
  main = "running" =>
    \A t, u \in Threads :
      pc[t] \in {"submit", "wait"} /\ pc[u] \in {"submit", "wait"} =>
        inHand[t] = inHand[u]

(* Every blocking call comes back, with the coroutine's result or an       *)
(* error: no race to create the loop, failure to start it, or handler that *)
(* calls back leaves a thread waiting. Only the end of the process cuts a  *)
(* daemon thread's call short (_run).                                      *)
SyncCallsReturn ==
  \A t \in Threads : pc[t] # "idle" ~> pc[t] \in {"idle", "gone"}

================================================================================
