------------------------------ MODULE SqliteWriter ------------------------------
(***************************************************************************)
(* storage/sqlite.py: SqliteBackend.transaction, migrate and close. The    *)
(* tasks of a process queue for its shared writer connection; processes    *)
(* contend for the writer lock of the file.                                *)
(*                                                                         *)
(* External: aiosqlite runs the statements of a connection one by one in a *)
(* thread. A task that is cancelled while it waits for a statement leaves  *)
(* the statement in the thread's queue, and in_transaction is read at once *)
(* from the connection, whatever is still queued.                          *)
(***************************************************************************)
EXTENDS Integers, Sequences, SequencesExt

CONSTANTS
  Processes,
  Tasks,
  Home,         \* task -> its process
  Scenarios,    \* the calls of the tasks and the schema the file starts with
  Conns,        \* bound: the connections that may be opened, numbered
  MaxFaults,    \* bound: statements that fail for no reason of their own
  MaxCancels,   \* bound: cancellations
  None

VARIABLES
  file,     \* [landed, version, half]: committed writes and schema
  lock,     \* the connection that holds the writer lock of the file
  conn,     \* connection -> [home, state, jobs, tx, writes, half]
  queue,    \* process -> the tasks at its _write_queue, the first holds it
  writer,   \* process -> _writer
  pc,       \* task -> what it waits for
  call,     \* task -> the call it makes
  on,       \* task -> the connection it uses
  reply,    \* task -> the result of the statement it waits for
  answer,   \* task -> how its call ended, or will end once cleaned up
  seen,     \* task -> the schema version its migration has reached
  faults, cancels

vars == <<file, lock, conn, queue, writer, pc, call, on, reply, answer, seen, faults, cancels>>

LastVersion == 3

ASSUME SqliteAssumption ==
  /\ Conns \subseteq Nat /\ None \notin Conns \cup Processes
  /\ Home \in [Tasks -> Processes]
  /\ Scenarios \subseteq [call : [Tasks -> {"write", "migrate", "close"}],
                          version : 0..LastVersion]

Fresh == [home |-> None, state |-> "new", jobs |-> <<>>, tx |-> FALSE, writes |-> {},
          half |-> FALSE]

Init ==
  /\ \E s \in Scenarios :
       call = s.call /\ file = [landed |-> {}, version |-> s.version, half |-> FALSE]
  /\ lock = None
  /\ conn = [k \in Conns |-> Fresh]
  /\ queue = [p \in Processes |-> <<>>]
  /\ writer = [p \in Processes |-> None]
  /\ pc = [t \in Tasks |-> "idle"]
  /\ on = [t \in Tasks |-> None]
  /\ reply = [t \in Tasks |-> "none"]
  /\ answer = [t \in Tasks |-> "none"]
  /\ seen = [t \in Tasks |-> 0]
  /\ faults = 0 /\ cancels = 0

--------------------------------------------------------------------------------
(* The tasks.                                                              *)

Waits(t, at) == pc[t] = at /\ reply[t] = "ok"
Fails(t, at) == pc[t] = at /\ reply[t] = "error"

Job(t, name) == [task |-> t, name |-> name, awaited |-> TRUE]

(* Queue a statement on connection k and wait for it at "at".              *)
Await(t, k, name, at) ==
  /\ conn' = [conn EXCEPT ![k].jobs = Append(@, Job(t, name))]
  /\ on' = [on EXCEPT ![t] = k]
  /\ pc' = [pc EXCEPT ![t] = at]
  /\ reply' = [reply EXCEPT ![t] = "none"]

(* A task is in its queue once.                                            *)
Without(tasks, t) == RemoveAt(tasks, CHOOSE i \in DOMAIN tasks : tasks[i] = t)

(* Leave the "async with self._write_queue".                               *)
Leave(t, how) ==
  /\ queue' = [queue EXCEPT ![Home[t]] = Without(@, t)]
  /\ pc' = [pc EXCEPT ![t] = "done"]
  /\ answer' = [answer EXCEPT ![t] = how]
  /\ on' = [on EXCEPT ![t] = None]
  /\ reply' = [reply EXCEPT ![t] = "none"]

Enqueue(t) ==
  /\ pc[t] = "idle"
  /\ pc' = [pc EXCEPT ![t] = "queued"]
  /\ queue' = [queue EXCEPT ![Home[t]] = Append(@, t)]
  /\ UNCHANGED <<file, lock, conn, writer, call, on, reply, answer, seen, faults, cancels>>

Holds(t) == queue[Home[t]] # <<>> /\ Head(queue[Home[t]]) = t

(* _writer_connection opens a connection when there is none.               *)
OpenWriter(t) ==
  LET p == Home[t]
      k == CHOOSE k \in Conns : conn[k].state = "new" /\
                   \A j \in Conns : conn[j].state = "new" => k <= j
  IN  /\ pc[t] = "queued" /\ Holds(t)
      /\ call[t] # "close"
      /\ writer[p] = None
      /\ \E j \in Conns : conn[j].state = "new"
      /\ conn' = [conn EXCEPT ![k].home = p, ![k].state = "open"]
      /\ writer' = [writer EXCEPT ![p] = k]
      /\ UNCHANGED <<file, lock, queue, pc, call, on, reply, answer, seen, faults, cancels>>

OpenFails(t) ==
  /\ pc[t] = "queued" /\ Holds(t)
  /\ call[t] # "close"
  /\ writer[Home[t]] = None
  /\ Leave(t, "failed")
  /\ UNCHANGED <<file, lock, conn, writer, call, seen, faults, cancels>>

(* transaction: BEGIN IMMEDIATE, or migrate: the schema version.           *)
Start(t) ==
  LET k == writer[Home[t]]
  IN  /\ pc[t] = "queued" /\ Holds(t)
      /\ k # None
      /\ \/ call[t] = "write" /\ Await(t, k, "BEGIN", "begin")
         \/ call[t] = "migrate" /\ Await(t, k, "VERSION", "migrate")
      /\ UNCHANGED <<file, lock, queue, writer, call, answer, seen, faults, cancels>>

(* The body of the transaction, one statement; then COMMIT.                *)
Body(t) ==
  /\ \/ Waits(t, "begin") /\ Await(t, on[t], "WRITE", "body")
     \/ Waits(t, "body") /\ Await(t, on[t], "COMMIT", "commit")
  /\ UNCHANGED <<file, lock, queue, writer, call, answer, seen, faults, cancels>>

Committed(t) ==
  /\ Waits(t, "commit")
  /\ Leave(t, "ok")
  /\ UNCHANGED <<file, lock, conn, writer, call, seen, faults, cancels>>

(* The cancellation of what t waits for: the statement stays queued, its   *)
(* result is for nobody.                                                   *)
Orphaned(t) ==
  [k \in Conns |-> [conn[k] EXCEPT !.jobs =
     [i \in DOMAIN @ |-> IF @[i].task = t THEN [@[i] EXCEPT !.awaited = FALSE] ELSE @[i]]]]

Cancelled(t, at) == pc[t] = at /\ cancels < MaxCancels

(* An exception is raised at "at": the statement failed, or the task was   *)
(* cancelled while it waited.                                              *)
Raised(t, at, how) ==
  \/ Fails(t, at) /\ how = "failed" /\ UNCHANGED cancels
  \/ /\ Cancelled(t, at)
     /\ how = IF at = "commit" THEN "inDoubt" ELSE "cancelled"
     /\ cancels' = cancels + 1

Failures == {"failed", "cancelled", "inDoubt"}

(* Mutant of BodyRaised: what was written so far is committed.             *)
BodyRaisedCommitting(t) ==
  /\ \E how \in {"failed", "cancelled"} :
       Raised(t, "body", how) /\ answer' = [answer EXCEPT ![t] = how]
  /\ conn' = [Orphaned(t) EXCEPT ![on[t]].jobs = Append(@, Job(t, "COMMIT"))]
  /\ pc' = [pc EXCEPT ![t] = "rollback"]
  /\ reply' = [reply EXCEPT ![t] = "none"]
  /\ UNCHANGED <<file, lock, queue, writer, call, on, seen, faults>>

(* The body raised: ROLLBACK.                                              *)
BodyRaised(t) ==
  /\ \E how \in {"failed", "cancelled"} :
       Raised(t, "body", how) /\ answer' = [answer EXCEPT ![t] = how]
  /\ conn' = [Orphaned(t) EXCEPT ![on[t]].jobs = Append(@, Job(t, "ROLLBACK"))]
  /\ pc' = [pc EXCEPT ![t] = "rollback"]
  /\ reply' = [reply EXCEPT ![t] = "none"]
  /\ UNCHANGED <<file, lock, queue, writer, call, on, seen, faults>>

(* Mutants of Unwind: the connection is kept, whatever its state; it is    *)
(* closed but not forgotten.                                               *)
UnwindKeeping(t) ==
  \E at \in {"begin", "commit", "rollback"}, how \in Failures :
    /\ \/ Raised(t, at, how)
       \/ at = "rollback" /\ Waits(t, at) /\ how = answer[t] /\ UNCHANGED cancels
    /\ conn' = Orphaned(t)
    /\ Leave(t, how)
    /\ UNCHANGED <<file, lock, writer, call, seen, faults>>

UnwindRemembering(t) ==
  \E at \in {"begin", "commit", "rollback"}, how \in Failures :
    /\ Raised(t, at, how)
    /\ conn[on[t]].tx
    /\ conn' = [Orphaned(t) EXCEPT ![on[t]].jobs = Append(@, Job(t, "CLOSE"))]
    /\ pc' = [pc EXCEPT ![t] = "discard"]
    /\ answer' = [answer EXCEPT ![t] = how]
    /\ reply' = [reply EXCEPT ![t] = "none"]
    /\ UNCHANGED <<file, lock, queue, writer, call, on, seen, faults>>

(* The outer handler: BEGIN, COMMIT or ROLLBACK raised, or the body did    *)
(* and was rolled back. A connection still in a transaction is discarded.  *)
Unwind(t) ==
  LET k == on[t]
      p == Home[t]
  IN  \E at \in {"begin", "commit", "rollback"}, how \in Failures :
        /\ \/ Raised(t, at, how)
           \/ at = "rollback" /\ Waits(t, at) /\ how = answer[t] /\ UNCHANGED cancels
        /\ IF conn[k].tx
           THEN /\ writer' = [writer EXCEPT ![p] = None]
                /\ conn' = [Orphaned(t) EXCEPT ![k].jobs = Append(@, Job(t, "CLOSE"))]
                /\ pc' = [pc EXCEPT ![t] = "discard"]
                /\ answer' = [answer EXCEPT ![t] = how]
                /\ reply' = [reply EXCEPT ![t] = "none"]
                /\ UNCHANGED <<queue, on>>
           ELSE /\ conn' = Orphaned(t)
                /\ Leave(t, how)
                /\ UNCHANGED writer
        /\ UNCHANGED <<file, lock, call, seen, faults>>

(* Cancelled in the queue, or while the connection is opened.              *)
CancelQueued(t) ==
  /\ Cancelled(t, "queued")
  /\ cancels' = cancels + 1
  /\ Leave(t, "cancelled")
  /\ UNCHANGED <<file, lock, conn, writer, call, seen, faults>>

(* close: forget the writer connection, then close it.                     *)
CloseWriter(t) ==
  LET p == Home[t]
  IN  /\ pc[t] = "queued" /\ Holds(t)
      /\ call[t] = "close"
      /\ IF writer[p] = None
         THEN Leave(t, "ok") /\ UNCHANGED <<conn, writer>>
         ELSE /\ writer' = [writer EXCEPT ![p] = None]
              /\ Await(t, writer[p], "CLOSE", "discard")
              /\ answer' = [answer EXCEPT ![t] = "ok"]
              /\ UNCHANGED queue
      /\ UNCHANGED <<file, lock, call, seen, faults, cancels>>

(* The connection is closed, or its closing is no longer waited for.       *)
Discarded(t) ==
  /\ \/ Waits(t, "discard") /\ Leave(t, answer[t]) /\ UNCHANGED cancels
     \/ /\ Cancelled(t, "discard")
        /\ cancels' = cancels + 1
        /\ Leave(t, IF answer[t] = "inDoubt" THEN "inDoubt" ELSE "cancelled")
  /\ conn' = Orphaned(t)
  /\ UNCHANGED <<file, lock, writer, call, seen, faults>>

--------------------------------------------------------------------------------
(* migrate: the scripts above the version that was read, in order. What    *)
(* raises leaves the connection as it is.                                  *)

NextScript(t) ==
  /\ Waits(t, "migrate")
  /\ IF seen[t] = LastVersion
     THEN Leave(t, "ok") /\ UNCHANGED conn
     ELSE /\ Await(t, on[t], "SCRIPT", "migrate")
          /\ UNCHANGED <<queue, answer>>
  /\ UNCHANGED <<file, lock, writer, call, seen, faults, cancels>>

(* Mutants of MigrateRaised: a script that failed is passed over; the      *)
(* queue stays held.                                                       *)
MigrateRaisedIgnored(t) ==
  /\ \E how \in Failures : Raised(t, "migrate", how) /\ Leave(t, "ok")
  /\ conn' = Orphaned(t)
  /\ UNCHANGED <<file, lock, writer, call, seen, faults>>

MigrateRaisedHolding(t) ==
  /\ \E how \in Failures :
       Raised(t, "migrate", how) /\ answer' = [answer EXCEPT ![t] = how]
  /\ pc' = [pc EXCEPT ![t] = "done"]
  /\ conn' = Orphaned(t)
  /\ UNCHANGED <<file, lock, queue, writer, call, on, reply, seen, faults>>

(* A failed read or script, or a cancellation, ends the call; the error    *)
(* goes to the caller and the connection stays the writer.                 *)
MigrateRaised(t) ==
  /\ \E how \in Failures : Raised(t, "migrate", how) /\ Leave(t, how)
  /\ conn' = Orphaned(t)
  /\ UNCHANGED <<file, lock, writer, call, seen, faults>>

--------------------------------------------------------------------------------
(* The thread of a connection (external): SQLite.                          *)

(* The first job of k is "name"; k becomes "after" with the job done, and  *)
(* its task, if it still waits, gets the result.                           *)
Do(k, name, after, result) ==
  LET job == Head(conn[k].jobs)
  IN  /\ conn[k].jobs # <<>>
      /\ job.name = name
      /\ conn' = [conn EXCEPT ![k] = [after EXCEPT !.jobs = Tail(@)]]
      /\ reply' = IF job.awaited THEN [reply EXCEPT ![job.task] = result] ELSE reply

Open(k) == [conn[k] EXCEPT !.tx = TRUE]
Altered(k) == [Open(k) EXCEPT !.half = TRUE]
Ended(k) == [conn[k] EXCEPT !.tx = FALSE, !.writes = {}, !.half = FALSE]
Unlocked(k) == lock' = IF lock = k THEN None ELSE lock
Fault == faults < MaxFaults /\ faults' = faults + 1

Begin(k) ==
  /\ \/ ~conn[k].tx /\ lock = None /\ lock' = k /\ Do(k, "BEGIN", Open(k), "ok")
     \/ /\ conn[k].tx \/ lock # None     \* in a transaction; or busy_timeout
        /\ Do(k, "BEGIN", conn[k], "error")
        /\ UNCHANGED lock
  /\ UNCHANGED <<file, seen, faults>>

(* The body of a call may fail, or raise for reasons of its own; a failure *)
(* may also make SQLite roll back by itself.                               *)
Write(k) ==
  LET t == Head(conn[k].jobs).task
  IN  /\ \/ /\ file.version = LastVersion
            /\ Do(k, "WRITE", [conn[k] EXCEPT !.writes = @ \cup {t}], "ok")
            /\ UNCHANGED <<lock, faults>>
         \/ Do(k, "WRITE", conn[k], "error") /\ UNCHANGED <<lock, faults>>
         \/ Fault /\ Do(k, "WRITE", Ended(k), "error") /\ Unlocked(k)
      /\ UNCHANGED <<file, seen>>

Commit(k) ==
  /\ \/ /\ Do(k, "COMMIT", Ended(k), "ok")
        /\ file' = [file EXCEPT !.landed = @ \cup conn[k].writes]
        /\ Unlocked(k)
        /\ UNCHANGED faults
     \/ Fault /\ Do(k, "COMMIT", conn[k], "error") /\ UNCHANGED <<file, lock>>
     \/ Fault /\ Do(k, "COMMIT", Ended(k), "error") /\ Unlocked(k) /\ UNCHANGED file
  /\ UNCHANGED seen

Rollback(k) ==
  /\ \/ /\ conn[k].tx
        /\ Do(k, "ROLLBACK", Ended(k), "ok")
        /\ Unlocked(k)
        /\ UNCHANGED faults
     \/ ~conn[k].tx /\ Do(k, "ROLLBACK", conn[k], "error") /\ UNCHANGED <<lock, faults>>
     \/ Fault /\ Do(k, "ROLLBACK", conn[k], "error") /\ UNCHANGED lock
  /\ UNCHANGED <<file, seen>>

Close(k) ==
  /\ Do(k, "CLOSE", [Ended(k) EXCEPT !.state = "closed"], "ok")
  /\ Unlocked(k)
  /\ UNCHANGED <<file, seen, faults>>

ReadVersion(k) ==
  /\ Do(k, "VERSION", conn[k], "ok")
  /\ seen' = [seen EXCEPT ![Head(conn[k].jobs).task] = file.version]
  /\ UNCHANGED <<file, lock, faults>>

(* executescript first commits a transaction that is open, with what a     *)
(* script that failed has left in it.                                      *)
ImplicitCommit(k) ==
  /\ conn[k].jobs # <<>> /\ Head(conn[k].jobs).name = "SCRIPT"
  /\ conn[k].tx
  /\ conn' = [conn EXCEPT ![k] = Ended(k)]
  /\ file' = [file EXCEPT !.landed = @ \cup conn[k].writes, !.half = @ \/ conn[k].half]
  /\ Unlocked(k)
  /\ UNCHANGED <<reply, seen, faults>>

(* 0001 is no transaction: first its tables, then its version; "half" is   *)
(* a file with what a script makes and not its version.                    *)
FirstScript(k) ==
  LET t == Head(conn[k].jobs).task
  IN  /\ ~conn[k].tx
      /\ seen[t] = 0
      /\ \/ /\ file.version = 0 /\ ~file.half /\ lock = None
            /\ conn[k].jobs # <<>> /\ Head(conn[k].jobs).name = "SCRIPT"
            /\ conn' = [conn EXCEPT ![k].jobs = <<[Head(@) EXCEPT !.name = "INSERT"]>> \o Tail(@)]
            /\ file' = [file EXCEPT !.half = TRUE]
            /\ UNCHANGED <<reply, seen>>
         \/ /\ lock = None
            /\ Do(k, "INSERT", conn[k], "ok")
            /\ file' = [file EXCEPT !.half = FALSE, !.version = 1]
            /\ seen' = [seen EXCEPT ![t] = 1]
         \/ /\ file.version # 0 \/ file.half \/ lock # None
            /\ Do(k, "SCRIPT", conn[k], "error")
            /\ UNCHANGED <<file, seen>>
         \/ /\ lock # None
            /\ Do(k, "INSERT", conn[k], "error")
            /\ UNCHANGED <<file, seen>>
      /\ UNCHANGED <<lock, faults>>

(* The later scripts are transactions. One that fails, because it was      *)
(* applied meanwhile or the file is locked, leaves its BEGIN behind; one   *)
(* that fails after its ALTER, the writer lock and the ALTER as well,      *)
(* unless SQLite rolls back by itself.                                     *)
LaterScript(k) ==
  LET t == Head(conn[k].jobs).task
      applies == file.version = seen[t] /\ ~file.half /\ lock = None
  IN  /\ ~conn[k].tx
      /\ seen[t] > 0
      /\ \/ /\ applies
            /\ Do(k, "SCRIPT", conn[k], "ok")
            /\ file' = [file EXCEPT !.version = @ + 1]
            /\ seen' = [seen EXCEPT ![t] = @ + 1]
            /\ UNCHANGED <<lock, faults>>
         \/ /\ ~applies
            /\ Do(k, "SCRIPT", Open(k), "error")
            /\ UNCHANGED <<file, seen, lock, faults>>
         \/ /\ applies /\ Fault
            /\ \/ Do(k, "SCRIPT", Altered(k), "error") /\ lock' = k
               \/ Do(k, "SCRIPT", conn[k], "error") /\ UNCHANGED lock
            /\ UNCHANGED <<file, seen>>

Execute(k) ==
  /\ conn[k].jobs # <<>>
  /\ \/ Begin(k) \/ Write(k) \/ Commit(k) \/ Rollback(k) \/ Close(k)
     \/ ReadVersion(k) \/ ImplicitCommit(k) \/ FirstScript(k) \/ LaterScript(k)
  /\ UNCHANGED <<queue, writer, pc, call, on, answer, cancels>>

--------------------------------------------------------------------------------
(* A process dies: SQLite undoes its open transactions, not its scripts.   *)
Crash(p) ==
  LET dying == {t \in Tasks : Home[t] = p /\ pc[t] \notin {"idle", "done"}}
      mine == {k \in Conns : conn[k].home = p}
  IN  /\ dying # {}
      /\ pc' = [t \in Tasks |-> IF t \in dying THEN "done" ELSE pc[t]]
      /\ answer' = [t \in Tasks |-> IF t \in dying THEN "dead" ELSE answer[t]]
      /\ on' = [t \in Tasks |-> IF t \in dying THEN None ELSE on[t]]
      /\ reply' = [t \in Tasks |-> IF t \in dying THEN "none" ELSE reply[t]]
      /\ queue' = [queue EXCEPT ![p] = <<>>]
      /\ writer' = [writer EXCEPT ![p] = None]
      /\ conn' = [k \in Conns |->
                    IF k \in mine
                    THEN [conn[k] EXCEPT !.state = "closed", !.jobs = <<>>,
                                         !.tx = FALSE, !.writes = {}, !.half = FALSE]
                    ELSE conn[k]]
      /\ lock' = IF lock \in mine THEN None ELSE lock
      /\ UNCHANGED <<file, call, seen, faults, cancels>>

Resume(t) ==
  \/ OpenWriter(t) \/ Start(t) \/ Body(t) \/ Committed(t) \/ BodyRaised(t) \/ Unwind(t)
  \/ CloseWriter(t) \/ Discarded(t) \/ NextScript(t) \/ MigrateRaised(t)

Next ==
  \/ \E t \in Tasks : Enqueue(t) \/ Resume(t) \/ OpenFails(t) \/ CancelQueued(t)
  \/ \E k \in Conns : Execute(k)
  \/ \E p \in Processes : Crash(p)

Spec == Init /\ [][Next]_vars

(* The event loop resumes what can be resumed; the threads run. A          *)
(* connection that cannot be opened is an error, so opening ends.          *)
FairSpec ==
  /\ Spec
  /\ \A t \in Tasks : WF_vars(Resume(t) \/ OpenFails(t))
  /\ \A k \in Conns : WF_vars(Execute(k))

--------------------------------------------------------------------------------
(* Properties.                                                             *)

Answers == {"none", "ok", "failed", "cancelled", "inDoubt", "dead"}

SqliteTypeOK ==
  /\ file \in [landed : SUBSET Tasks, version : 0..LastVersion, half : BOOLEAN]
  /\ lock \in Conns \cup {None}
  /\ \A k \in Conns : /\ conn[k].writes \subseteq Tasks
                      /\ conn[k].state # "open" => ~conn[k].tx /\ lock # k
  /\ \A p \in Processes : writer[p] # None => conn[writer[p]].state = "open"
  /\ \A t \in Tasks : answer[t] \in Answers /\ seen[t] \in 0..LastVersion

(* A transaction that said it committed is in the file, and one that       *)
(* raised is not, unless its COMMIT was cancelled: whatever fails or is    *)
(* cancelled next, here or in the tasks that use the connection after it   *)
(* (SqliteBackend.transaction).                                            *)
AnswersMatchFile ==
  \A t \in Tasks : call[t] = "write" /\ pc[t] = "done" =>
    /\ answer[t] = "ok" => t \in file.landed
    /\ answer[t] \in {"failed", "cancelled"} => t \notin file.landed

(* The writer connection never carries uncommitted writes from one holder  *)
(* of the queue to the next, to be committed with theirs.                  *)
NoInheritedWrites ==
  \A p \in Processes : writer[p] # None =>
    \A t \in conn[writer[p]].writes : queue[p] # <<>> /\ Head(queue[p]) = t

(* A migration that returns has applied every script, though another       *)
(* process migrates, dies or locks the file meanwhile (migrate).           *)
MigrateCompletes ==
  \A t \in Tasks : call[t] = "migrate" /\ answer[t] = "ok" => file.version = LastVersion

(* Every call comes back: no failure leaves the queue held, and a writer   *)
(* left in a transaction fails one call and is replaced.                   *)
WritersReturn == \A t \in Tasks : pc[t] = "queued" ~> pc[t] = "done"

(* A transaction ends on every way out (storage/__init__.py, transaction): *)
(* while some connection holds the writer lock, a task of its process is   *)
(* in the queue or the thread still has a statement to run.                *)
LockHasHolder ==
  lock # None => queue[conn[lock].home] # <<>> \/ conn[lock].jobs # <<>>

================================================================================
