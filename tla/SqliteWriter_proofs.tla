-------------------------- MODULE SqliteWriter_proofs --------------------------
(***************************************************************************)
(* Theorems about SqliteWriter, for every set of processes, tasks and      *)
(* connections and every bound on faults and cancellations.                *)
(***************************************************************************)
EXTENDS SqliteWriter, SequenceTheorems, WellFoundedInduction, TLAPS

--------------------------------------------------------------------------------
(* The inductive invariant.                                                *)

Names == {"BEGIN", "WRITE", "COMMIT", "ROLLBACK", "CLOSE", "VERSION", "SCRIPT", "INSERT"}
Migrating == {"VERSION", "SCRIPT", "INSERT"}
Busy == {"begin", "body", "commit", "rollback", "discard", "migrate"}

Jobs == [task : Tasks, name : Names, awaited : BOOLEAN]

Connection ==
  [home : Processes \cup {None}, state : {"new", "open", "closed"}, jobs : Seq(Jobs),
   tx : BOOLEAN, writes : SUBSET Tasks, half : BOOLEAN]

TasksTyped ==
  /\ queue \in [Processes -> Seq(Tasks)]
  /\ pc \in [Tasks -> {"idle", "queued", "done"} \cup Busy]
  /\ call \in [Tasks -> {"write", "migrate", "close"}]
  /\ on \in [Tasks -> Conns \cup {None}]
  /\ reply \in [Tasks -> {"none", "ok", "error"}]
  /\ answer \in [Tasks -> Answers]

FileTyped ==
  /\ file \in [landed : SUBSET Tasks, version : 0..LastVersion, half : BOOLEAN]
  /\ lock \in Conns \cup {None}
  /\ writer \in [Processes -> Conns \cup {None}]
  /\ seen \in [Tasks -> 0..LastVersion]

ConnsTyped == conn \in [Conns -> Connection]

Typed == TasksTyped /\ FileTyped /\ ConnsTyped

(* A task that is not at rest is in the queue; one that uses a connection  *)
(* is its head, and the connection is the writer until it is discarded.    *)
TaskQueued(t) ==
  /\ pc[t] \notin {"idle", "done"} =>
       \E i \in DOMAIN queue[Home[t]] : queue[Home[t]][i] = t
  /\ pc[t] \in Busy => Holds(t)
  /\ pc[t] \notin Busy => on[t] = None /\ reply[t] = "none"
  /\ pc[t] \in Busy \ {"discard"} => writer[Home[t]] = on[t]
  /\ pc[t] = "discard" => writer[Home[t]] = None

(* The call of t, and how it can end.                                      *)
TaskCalls(t) ==
  /\ pc[t] \in {"begin", "body", "commit", "rollback"} => call[t] = "write"
  /\ pc[t] = "migrate" => call[t] = "migrate"
  /\ pc[t] = "rollback" => answer[t] \in {"failed", "cancelled"}
  /\ pc[t] \notin {"done", "discard", "rollback"} => answer[t] = "none"
  /\ pc[t] = "discard" => \/ call[t] = "write" /\ answer[t] \in Failures
                          \/ call[t] = "close" /\ answer[t] = "ok"

(* The statements a task may wait for where it is.                         *)
Expected(at) ==
  CASE at = "begin" -> {"BEGIN"}
    [] at = "body" -> {"WRITE"}
    [] at = "commit" -> {"COMMIT"}
    [] at = "rollback" -> {"ROLLBACK"}
    [] at = "discard" -> {"CLOSE"}
    [] at = "migrate" -> Migrating
    [] OTHER -> {}

(* The statement that t waits for is the last of its connection; when it   *)
(* is done none is left.                                                   *)
TaskWaits(t) ==
  pc[t] \in Busy =>
    LET k == on[t]
        jobs == conn[k].jobs
    IN  /\ k \in Conns
        /\ conn[k].home = Home[t]
        /\ reply[t] = "none" =>
             /\ jobs # <<>>
             /\ jobs[Len(jobs)].task = t /\ jobs[Len(jobs)].awaited
             /\ jobs[Len(jobs)].name \in Expected(pc[t])
        /\ reply[t] # "none" => jobs = <<>>
        /\ pc[t] \in {"begin", "body"} /\ reply[t] = "ok" => conn[k].tx
        /\ pc[t] = "body" /\ reply[t] = "ok" => t \in conn[k].writes
        /\ pc[t] \in {"commit", "rollback"} /\ reply[t] = "ok" => ~conn[k].tx

(* What is in the file, and what its task was or will be told.             *)
TaskLands(t) ==
  /\ t \in file.landed =>
       /\ call[t] = "write"
       /\ \/ pc[t] = "commit" /\ reply[t] = "ok"
          \/ pc[t] = "discard" /\ answer[t] = "inDoubt"
          \/ pc[t] = "done" /\ answer[t] \in {"ok", "inDoubt", "dead"}
  /\ pc[t] = "commit" /\ reply[t] = "ok" => t \in file.landed
  /\ call[t] = "write" /\ pc[t] = "done" /\ answer[t] = "ok" => t \in file.landed
  /\ call[t] = "migrate" /\ answer[t] = "ok" => file.version = LastVersion
  /\ seen[t] <= file.version

TaskOK(t) == TaskQueued(t) /\ TaskCalls(t) /\ TaskWaits(t) /\ TaskLands(t)

(* Some process would use k for its next call.                             *)
Written(k) == \E p \in Processes : writer[p] = k

ConnHeld(k) ==
  /\ conn[k].state # "open" => conn[k].jobs = <<>> /\ ~conn[k].tx
  /\ conn[k].state = "new" => conn[k].home = None
  /\ ~conn[k].tx => conn[k].writes = {} /\ lock # k
  /\ \A p \in Processes : writer[p] = k => conn[k].home = p /\ conn[k].state = "open"

(* Who waits for a statement, and what became of those who do not.         *)
JobsAwaited(k) ==
  \A i \in DOMAIN conn[k].jobs :
    LET job == conn[k].jobs[i]
        t == job.task
    IN  /\ job.awaited =>
             /\ i = Len(conn[k].jobs)
             /\ pc[t] \in Busy /\ on[t] = k /\ reply[t] = "none"
             /\ job.name \in Expected(pc[t])
        /\ ~job.awaited =>
             /\ job.name \in Migrating => pc[t] = "done"
             /\ job.name = "COMMIT" => pc[t] \in {"discard", "done"} /\ answer[t] = "inDoubt"

(* Where a statement can stand.                                            *)
JobsPlaced(k) ==
  \A i \in DOMAIN conn[k].jobs :
    LET job == conn[k].jobs[i]
    IN  /\ job.name = "CLOSE" => i = Len(conn[k].jobs) /\ ~Written(k)
        /\ job.name = "WRITE" => i = 1 /\ conn[k].tx /\ conn[k].writes = {}
        /\ job.name = "COMMIT" => /\ i = 1 /\ conn[k].tx
                                  /\ conn[k].writes = {job.task}
                                  /\ call[job.task] = "write"

(* A script that is to run has something to do.                            *)
JobsMigrate(k) ==
  \A i \in DOMAIN conn[k].jobs :
    LET job == conn[k].jobs[i]
    IN  /\ job.name \in {"SCRIPT", "INSERT"} => seen[job.task] < LastVersion
        /\ job.name = "INSERT" => i = 1 /\ file.half /\ file.version = 0
        /\ job.name \in Migrating =>
             \A j \in DOMAIN conn[k].jobs :
               conn[k].jobs[j].task = job.task /\ conn[k].jobs[j].name \in Migrating => j = i

(* k has writes of t that are not committed, or will have.                 *)
Carries(k, t) ==
  \/ t \in conn[k].writes
  \/ \E i \in DOMAIN conn[k].jobs :
       conn[k].jobs[i].task = t /\ conn[k].jobs[i].name = "WRITE"

(* A connection that carries writes of t has only statements of t, which   *)
(* end its transaction; and either t still uses it or nobody ever will.    *)
ConnWrites(k) ==
  \A t \in Tasks : Carries(k, t) =>
    /\ \A i \in DOMAIN conn[k].jobs :
         /\ conn[k].jobs[i].task = t
         /\ conn[k].jobs[i].name \in {"WRITE", "COMMIT", "ROLLBACK", "CLOSE"}
    /\ \/ pc[t] \in {"body", "commit", "rollback"} /\ on[t] = k
       \/ pc[t] \in {"discard", "done"} /\ ~Written(k)

(* Connection k has to do with t: it has a statement or a write of t.      *)
Mentions(k, t) ==
  \/ t \in conn[k].writes
  \/ \E i \in DOMAIN conn[k].jobs : conn[k].jobs[i].task = t

(* A task uses one connection in its life.                                 *)
ConnMentions(k) ==
  \A t \in Tasks : Mentions(k, t) =>
    /\ (pc[t] \in Busy /\ on[t] = k) \/ pc[t] = "done"
    /\ \A l \in Conns : Mentions(l, t) => l = k

ConnOK(k) ==
  /\ ConnHeld(k) /\ JobsAwaited(k) /\ JobsPlaced(k) /\ JobsMigrate(k)
  /\ ConnWrites(k) /\ ConnMentions(k)

Inserts(k) == \E i \in DOMAIN conn[k].jobs : conn[k].jobs[i].name = "INSERT"

OneInsert == \A k, l \in Conns : Inserts(k) /\ Inserts(l) => k = l

QInv ==
  /\ Typed
  /\ \A t \in Tasks : TaskOK(t)
  /\ \A k \in Conns : ConnOK(k)
  /\ OneInsert

--------------------------------------------------------------------------------
(* The sequences of the model.                                             *)

(* Whoever leaves a queue leaves the others in it, in their order.         *)
LEMMA WithoutFacts ==
  ASSUME NEW q \in Seq(Tasks), NEW t \in Tasks, \E i \in DOMAIN q : q[i] = t
  PROVE  /\ Without(q, t) \in Seq(Tasks)
         /\ \A u \in Tasks \ {t} :
              /\ (\E i \in DOMAIN q : q[i] = u) =>
                   \E i \in DOMAIN Without(q, t) : Without(q, t)[i] = u
              /\ q # <<>> /\ Head(q) = u =>
                   Without(q, t) # <<>> /\ Head(Without(q, t)) = u
  <1> DEFINE at == CHOOSE i \in DOMAIN q : q[i] = t
             before == SubSeq(q, 1, at - 1)
             after == SubSeq(q, at + 1, Len(q))
  <1>1. at \in 1..Len(q) /\ q[at] = t
    OBVIOUS
  <1> HIDE DEF at
  <1>2. Without(q, t) = before \o after
    BY DEF Without, RemoveAt, at
  <1>3. /\ before \in Seq(Tasks) /\ Len(before) = at - 1
        /\ \A i \in 1..(at - 1) : before[i] = q[i]
    <2>1. \A i \in 1..(at - 1) : q[i] \in Tasks
      BY <1>1
    <2>2. 1 \in Int /\ at - 1 \in Int /\ (at - 1) - 1 + 1 = at - 1
      BY <1>1
    <2>3. /\ before \in Seq(Tasks)
          /\ Len(before) = IF 1 <= at - 1 THEN (at - 1) - 1 + 1 ELSE 0
          /\ \A i \in 1..((at - 1) - 1 + 1) : before[i] = q[1 + i - 1]
      BY <2>1, <2>2, SubSeqProperties
    <2> HIDE DEF before
    <2> QED
      BY <2>3, <1>1
  <1>4. /\ after \in Seq(Tasks) /\ Len(after) = Len(q) - at
        /\ \A i \in 1..(Len(q) - at) : after[i] = q[at + i]
    <2>1. \A i \in (at + 1)..Len(q) : q[i] \in Tasks
      BY <1>1
    <2>2. at + 1 \in Int /\ Len(q) \in Int
      BY <1>1
    <2>3. /\ after \in Seq(Tasks)
          /\ Len(after) = IF at + 1 <= Len(q) THEN Len(q) - (at + 1) + 1 ELSE 0
          /\ \A i \in 1..(Len(q) - (at + 1) + 1) : after[i] = q[(at + 1) + i - 1]
      BY <2>1, <2>2, SubSeqProperties
    <2> HIDE DEF after
    <2> QED
      BY <2>3, <1>1
  <1> HIDE DEF before, after
  <1>5. /\ Without(q, t) \in Seq(Tasks)
        /\ Len(Without(q, t)) = Len(before) + Len(after)
        /\ \A i \in 1..(Len(before) + Len(after)) : Without(q, t)[i] =
             IF i <= Len(before) THEN before[i] ELSE after[i - Len(before)]
    <2>1. before \in Seq(Tasks) /\ after \in Seq(Tasks)
      BY <1>3, <1>4
    <2>2. /\ before \o after \in Seq(Tasks)
          /\ Len(before \o after) = Len(before) + Len(after)
          /\ \A i \in 1..(Len(before) + Len(after)) : (before \o after)[i] =
               IF i <= Len(before) THEN before[i] ELSE after[i - Len(before)]
      BY ONLY <2>1, ConcatProperties
    <2> QED
      BY <1>2, <2>2
  <1>6. /\ Len(Without(q, t)) = Len(q) - 1
        /\ \A i \in 1..(Len(q) - 1) :
             Without(q, t)[i] = IF i < at THEN q[i] ELSE q[i + 1]
    <2>1. Len(before) + Len(after) = Len(q) - 1
      BY <1>1, <1>3, <1>4
    <2>2. ASSUME NEW i \in 1..(Len(q) - 1)
          PROVE  Without(q, t)[i] = IF i < at THEN q[i] ELSE q[i + 1]
      <3>1. Without(q, t)[i] = IF i <= at - 1 THEN before[i] ELSE after[i - (at - 1)]
        BY <1>3, <1>5, <2>1
      <3>2. CASE i < at
        <4>1. i \in 1..(at - 1)
          BY <1>1, <3>2
        <4> QED
          BY <1>1, <1>3, <3>1, <3>2, <4>1
      <3>3. CASE ~(i < at)
        <4>1. i - (at - 1) \in 1..(Len(q) - at) /\ at + (i - (at - 1)) = i + 1
          BY <1>1, <3>3
        <4>2. after[i - (at - 1)] = q[at + (i - (at - 1))]
          BY <1>4, <4>1
        <4> QED
          BY <1>1, <3>1, <3>3, <4>1, <4>2
      <3> QED
        BY <3>2, <3>3
    <2> QED
      BY <1>5, <2>1, <2>2
  <1>7. ASSUME NEW u \in Tasks \ {t}, NEW i \in DOMAIN q, q[i] = u
        PROVE  \E j \in DOMAIN Without(q, t) : Without(q, t)[j] = u
    <2>1. i # at /\ i \in 1..Len(q)
      BY <1>1, <1>7
    <2>2. CASE i < at
      <3>1. i \in 1..(Len(q) - 1) /\ Without(q, t)[i] = u
        BY <1>1, <1>6, <1>7, <2>1, <2>2
      <3> QED
        BY <3>1, <1>5, <1>6
    <2>3. CASE at < i
      <3>1. i - 1 \in 1..(Len(q) - 1) /\ ~(i - 1 < at) /\ (i - 1) + 1 = i
        BY <1>1, <2>1, <2>3
      <3>2. Without(q, t)[i - 1] = u
        BY <1>6, <1>7, <3>1
      <3> QED
        BY <3>1, <3>2, <1>5, <1>6
    <2> QED
      BY <1>1, <2>1, <2>2, <2>3
  <1>8. ASSUME NEW u \in Tasks \ {t}, q # <<>>, Head(q) = u
        PROVE  Without(q, t) # <<>> /\ Head(Without(q, t)) = u
    <2>1. q[1] = u /\ at > 1
      BY <1>1, <1>8
    <2>2. 1 \in 1..(Len(q) - 1) /\ Without(q, t)[1] = q[1]
      BY <1>1, <1>6, <2>1
    <2> QED
      BY <1>5, <1>6, <2>1, <2>2
  <1> QED
    BY <1>5, <1>7, <1>8

(* The statements of t are for nobody any more.                            *)
OrphansOf(jobs, t) ==
  [i \in DOMAIN jobs |->
     IF jobs[i].task = t THEN [jobs[i] EXCEPT !.awaited = FALSE] ELSE jobs[i]]

LEMMA OrphansFacts ==
  ASSUME NEW jobs \in Seq(Jobs), NEW t \in Tasks
  PROVE  /\ OrphansOf(jobs, t) \in Seq(Jobs)
         /\ Len(OrphansOf(jobs, t)) = Len(jobs)
         /\ \A i \in 1..Len(jobs) :
              /\ OrphansOf(jobs, t)[i].task = jobs[i].task
              /\ OrphansOf(jobs, t)[i].name = jobs[i].name
              /\ OrphansOf(jobs, t)[i].awaited <=> jobs[i].awaited /\ jobs[i].task # t
         /\ (\A i \in 1..Len(jobs) : jobs[i].task # t) => OrphansOf(jobs, t) = jobs
  <1> DEFINE os == OrphansOf(jobs, t)
  <1>1. \A i \in 1..Len(jobs) : jobs[i] \in Jobs
    OBVIOUS
  <1>2. \A i \in 1..Len(jobs) : os[i] \in Jobs
    <2>1. \A job \in Jobs : [job EXCEPT !.awaited = FALSE] \in Jobs
      BY DEF Jobs
    <2> QED
      BY <1>1, <2>1 DEF OrphansOf
  <1>3. os = [i \in 1..Len(jobs) |-> os[i]]
    BY DEF OrphansOf
  <1>4. os \in Seq(Jobs) /\ Len(os) = Len(jobs)
    <2>1. os \in [1..Len(jobs) -> Jobs]
      BY <1>2, <1>3
    <2>2. Len(jobs) \in Nat
      OBVIOUS
    <2> HIDE DEF os
    <2> QED
      BY <2>1, <2>2, SeqDef
  <1>5. \A i \in 1..Len(jobs) :
          /\ os[i].task = jobs[i].task
          /\ os[i].name = jobs[i].name
          /\ os[i].awaited <=> jobs[i].awaited /\ jobs[i].task # t
    BY <1>1 DEF OrphansOf, Jobs
  <1>6. ASSUME \A i \in 1..Len(jobs) : jobs[i].task # t
        PROVE  os = jobs
    <2>1. \A i \in 1..Len(jobs) : os[i] = jobs[i]
      BY <1>6 DEF OrphansOf
    <2> HIDE DEF os
    <2> QED
      BY <2>1, <1>4, SeqEqual
  <1> QED
    BY <1>4, <1>5, <1>6

--------------------------------------------------------------------------------
(* A step of one task: what the others rely on stays.                      *)

(* The task that holds a queue is the only one that uses a connection of   *)
(* its process.                                                            *)
LEMMA OneBusy ==
  ASSUME QInv, NEW t \in Tasks, NEW u \in Tasks, NEW k \in Conns,
         Holds(t), conn[k].home = Home[t], pc[u] \in Busy, on[u] = k
  PROVE  u = t
  BY DEF QInv, TaskOK, TaskQueued, TaskWaits, Holds

Kept(l) ==
  /\ conn'[l].home = conn[l].home
  /\ conn'[l].state = conn[l].state
  /\ conn'[l].tx = conn[l].tx
  /\ conn'[l].writes = conn[l].writes

Queued(t) == \E i \in DOMAIN queue[Home[t]] : queue[Home[t]][i] = t

(* The other tasks keep their place.                                       *)
OthersWait(t) ==
  \A u \in Tasks \ {t} :
    /\ pc'[u] = pc[u]
    /\ on'[u] = on[u]
    /\ reply'[u] = reply[u]
    /\ answer'[u] = answer[u]
    /\ Queued(u) => Queued(u)'
    /\ Holds(u) => Holds(u)'

(* No connection changes but k, in its statements of t.                    *)
ConnMoves(t, k) ==
  /\ \A l \in Conns : Kept(l) /\ (l # k => conn'[l].jobs = conn[l].jobs)
  /\ k \in Conns => \A u \in Tasks \ {t} : Mentions(k, u)' => Mentions(k, u)
  /\ k \in Conns => (Inserts(k)' => Inserts(k))

(* A step of task t, which uses connection k, if any.                      *)
Moves(t, k) ==
  /\ UNCHANGED <<file, lock, call, seen>>
  /\ pc[t] # "done"
  /\ pc[t] \in Busy => on[t] = k
  /\ k \in Conns => Holds(t) /\ conn[k].home = Home[t]
  /\ \A p \in Processes :
       writer'[p] = writer[p] \/ (p = Home[t] /\ Holds(t) /\ writer'[p] = None)
  /\ OthersWait(t)
  /\ ConnMoves(t, k)

LEMMA OtherTasksStay ==
  ASSUME QInv, NEW t \in Tasks, NEW k, Moves(t, k), NEW u \in Tasks \ {t}
  PROVE  TaskOK(u)'
  <1> USE SqliteAssumption
  <1>1. TaskOK(u)
    BY DEF QInv
  <1>2. Home[u] \in Processes /\ Home[t] \in Processes
    OBVIOUS
  <1>3. pc[u] \in Busy => writer'[Home[u]] = writer[Home[u]] \/ pc[u] = "discard"
    BY <1>1, <1>2 DEF Moves, OthersWait, ConnMoves, TaskOK, TaskQueued, Holds
  <1>4. TaskQueued(u)'
    <2>1. TaskQueued(u)
      BY <1>1 DEF TaskOK
    <2>2. /\ pc'[u] = pc[u] /\ on'[u] = on[u] /\ reply'[u] = reply[u]
          /\ Queued(u) => Queued(u)'
          /\ Holds(u) => Holds(u)'
      BY DEF Moves, OthersWait, ConnMoves
    <2>3. writer[Home[u]] = None => writer'[Home[u]] = None
      BY <1>2 DEF Moves, OthersWait, ConnMoves
    <2> HIDE DEF Holds
    <2>4. pc'[u] \notin {"idle", "done"} =>
            \E i \in DOMAIN queue'[Home[u]] : queue'[Home[u]][i] = u
      BY <2>1, <2>2 DEF TaskQueued, Queued
    <2> QED
      BY <1>3, <2>1, <2>2, <2>3, <2>4 DEF TaskQueued, Busy
  <1>5. TaskCalls(u)'
    BY <1>1 DEF Moves, OthersWait, ConnMoves, TaskOK, TaskCalls
  <1>6. TaskWaits(u)'
    <2> SUFFICES ASSUME pc[u] \in Busy
                 PROVE  TaskWaits(u)'
      BY DEF TaskWaits, Moves, OthersWait, ConnMoves
    <2>1. on[u] \in Conns /\ on[u] # k
      BY <1>1, OneBusy DEF TaskOK, TaskWaits, Moves, OthersWait, ConnMoves
    <2>2. Kept(on[u]) /\ conn'[on[u]].jobs = conn[on[u]].jobs
      BY <2>1 DEF Moves, OthersWait, ConnMoves
    <2>3. pc'[u] = pc[u] /\ on'[u] = on[u] /\ reply'[u] = reply[u]
      BY DEF Moves, OthersWait, ConnMoves
    <2> QED
      BY <1>1, <2>1, <2>2, <2>3 DEF TaskOK, TaskWaits, Kept
  <1>7. TaskLands(u)'
    BY <1>1 DEF Moves, OthersWait, ConnMoves, TaskOK, TaskLands
  <1> QED
    BY <1>4, <1>5, <1>6, <1>7 DEF TaskOK

(* No other connection has to do with t.                                   *)
LEMMA OthersMention ==
  ASSUME QInv, NEW t \in Tasks, NEW k, Moves(t, k), NEW l \in Conns, l # k
  PROVE  /\ ~Mentions(l, t)
         /\ \A u \in Tasks : Mentions(l, u)' => Mentions(l, u) /\ u # t
  <1>1. ~Mentions(l, t)
    BY DEF QInv, ConnOK, ConnMentions, Moves, OthersWait, ConnMoves
  <1>2. conn'[l].jobs = conn[l].jobs /\ conn'[l].writes = conn[l].writes
    BY DEF Moves, OthersWait, ConnMoves, Kept
  <1> QED
    BY <1>1, <1>2 DEF Mentions

LEMMA OtherConnsStay ==
  ASSUME QInv, NEW t \in Tasks, NEW k, Moves(t, k), NEW l \in Conns, l # k
  PROVE  ConnOK(l)'
  <1>1. ConnOK(l)
    BY DEF QInv
  <1>2. /\ conn'[l].jobs = conn[l].jobs /\ conn'[l].writes = conn[l].writes
        /\ conn'[l].home = conn[l].home /\ conn'[l].state = conn[l].state
        /\ conn'[l].tx = conn[l].tx
    BY DEF Moves, OthersWait, ConnMoves, Kept
  <1>3. \A u \in Tasks : Mentions(l, u) =>
          /\ u # t
          /\ pc'[u] = pc[u] /\ on'[u] = on[u] /\ reply'[u] = reply[u]
          /\ answer'[u] = answer[u]
    BY OthersMention DEF Moves, OthersWait, ConnMoves
  <1>4. file' = file /\ lock' = lock /\ call' = call /\ seen' = seen
    BY DEF Moves, OthersWait, ConnMoves
  <1>5. \A p \in Processes : writer'[p] = l => writer[p] = l
    BY SqliteAssumption DEF Moves, OthersWait, ConnMoves
  <1>6. \A i \in DOMAIN conn[l].jobs :
          conn[l].jobs[i].task \in Tasks /\ Mentions(l, conn[l].jobs[i].task)
    <2>1. conn[l].jobs \in Seq(Jobs)
      BY DEF QInv, Typed, ConnsTyped, Connection
    <2>2. \A i \in DOMAIN conn[l].jobs : conn[l].jobs[i] \in Jobs
      BY <2>1
    <2> QED
      BY <2>2 DEF Jobs, Mentions
  <1>7. ConnHeld(l)'
    BY <1>1, <1>2, <1>4, <1>5 DEF ConnOK, ConnHeld
  <1>8. JobsAwaited(l)'
    BY <1>1, <1>2, <1>3, <1>6 DEF ConnOK, JobsAwaited
  <1>9. JobsPlaced(l)'
    BY <1>1, <1>2, <1>4, <1>5 DEF ConnOK, JobsPlaced, Written
  <1>10. JobsMigrate(l)'
    BY <1>1, <1>2, <1>4 DEF ConnOK, JobsMigrate
  <1>11. ConnWrites(l)'
    <2> SUFFICES ASSUME NEW u \in Tasks, Carries(l, u)'
                 PROVE  /\ \A i \in DOMAIN conn'[l].jobs :
                             /\ conn'[l].jobs[i].task = u
                             /\ conn'[l].jobs[i].name \in {"WRITE", "COMMIT", "ROLLBACK", "CLOSE"}
                        /\ \/ pc'[u] \in {"body", "commit", "rollback"} /\ on'[u] = l
                           \/ pc'[u] \in {"discard", "done"} /\ ~Written(l)'
      BY DEF ConnWrites
    <2>1. Carries(l, u)
      BY <1>2 DEF Carries
    <2>2. Mentions(l, u)
      BY <2>1 DEF Carries, Mentions
    <2>3. Written(l)' => Written(l)
      BY <1>5 DEF Written
    <2> QED
      BY <1>1, <1>2, <1>3, <2>1, <2>2, <2>3 DEF ConnOK, ConnWrites
  <1>12. ConnMentions(l)'
    <2> SUFFICES ASSUME NEW u \in Tasks, Mentions(l, u)'
                 PROVE  /\ (pc'[u] \in Busy /\ on'[u] = l) \/ pc'[u] = "done"
                        /\ \A m \in Conns : Mentions(m, u)' => m = l
      BY DEF ConnMentions
    <2>1. Mentions(l, u) /\ u # t
      BY OthersMention
    <2>2. \A m \in Conns : Mentions(m, u)' => Mentions(m, u)
      BY <2>1, OthersMention DEF Moves, OthersWait, ConnMoves
    <2> QED
      BY <1>1, <1>3, <2>1, <2>2 DEF ConnOK, ConnMentions
  <1> QED
    BY <1>7, <1>8, <1>9, <1>10, <1>11, <1>12 DEF ConnOK

LEMMA InsertsStay ==
  ASSUME QInv, NEW t \in Tasks, NEW k, Moves(t, k)
  PROVE  OneInsert'
  <1>1. \A l \in Conns : Inserts(l)' => Inserts(l)
    <2> TAKE l \in Conns
    <2>1. CASE l # k
      BY <2>1 DEF Moves, OthersWait, ConnMoves, Inserts
    <2>2. CASE l = k
      BY <2>2 DEF Moves, OthersWait, ConnMoves
    <2> QED
      BY <2>1, <2>2
  <1> QED
    BY <1>1 DEF QInv, OneInsert

--------------------------------------------------------------------------------
(* ... and what becomes of the connection that t uses.                     *)

(* The statements of connection k, and who may wait for one of them.       *)
LEMMA ConnJobs ==
  ASSUME QInv, NEW k \in Conns
  PROVE  /\ conn[k] \in Connection
         /\ conn[k].jobs \in Seq(Jobs)
         /\ DOMAIN conn[k].jobs = 1..Len(conn[k].jobs)
         /\ Len(conn[k].jobs) \in Nat
         /\ \A i \in DOMAIN conn[k].jobs : conn[k].jobs[i] \in Jobs
         /\ \A i \in DOMAIN conn[k].jobs : conn[k].jobs[i].task \in Tasks
  <1>1. conn[k] \in Connection
    BY DEF QInv, Typed, ConnsTyped
  <1>2. conn[k].jobs \in Seq(Jobs)
    BY <1>1 DEF Connection
  <1>3. \A i \in DOMAIN conn[k].jobs : conn[k].jobs[i] \in Jobs
    BY <1>2
  <1>4. \A job \in Jobs : job.task \in Tasks
    BY DEF Jobs
  <1> QED
    BY <1>1, <1>2, <1>3, <1>4

LEMMA AwaitedByHolder ==
  ASSUME QInv, NEW t \in Tasks, NEW k \in Conns, Holds(t), conn[k].home = Home[t],
         NEW i \in DOMAIN conn[k].jobs, conn[k].jobs[i].awaited
  PROVE  /\ conn[k].jobs[i].task = t
         /\ pc[t] \in Busy
         /\ i = Len(conn[k].jobs)
         /\ conn[k].jobs[i].name \in Expected(pc[t])
  <1> DEFINE u == conn[k].jobs[i].task
  <1>1. JobsAwaited(k)
    BY DEF QInv, ConnOK
  <1>2. /\ pc[u] \in Busy /\ on[u] = k /\ i = Len(conn[k].jobs)
        /\ conn[k].jobs[i].name \in Expected(pc[u])
    BY <1>1 DEF JobsAwaited
  <1>3. u \in Tasks
    BY ConnJobs
  <1>4. u = t
    BY <1>2, <1>3, OneBusy
  <1> QED
    BY <1>2, <1>4

(* What changes at k besides its statements.                               *)
LEMMA ConnStays ==
  ASSUME NEW t, NEW k \in Conns, Moves(t, k)
  PROVE  /\ conn'[k].home = conn[k].home /\ conn'[k].state = conn[k].state
         /\ conn'[k].tx = conn[k].tx /\ conn'[k].writes = conn[k].writes
         /\ file' = file /\ lock' = lock /\ call' = call /\ seen' = seen
         /\ Written(k)' => Written(k)
         /\ \A p \in Processes : writer'[p] = k => writer[p] = k
  <1>1. \A p \in Processes : writer'[p] = k => writer[p] = k
    BY SqliteAssumption DEF Moves
  <1> QED
    BY <1>1 DEF Moves, ConnMoves, Kept, Written

LEMMA MentionedByOne ==
  ASSUME QInv, NEW t \in Tasks, NEW k \in Conns, Moves(t, k),
         pc'[t] = "done" \/ (pc'[t] \in Busy /\ on'[t] = k)
  PROVE  ConnMentions(k)'
  <1> SUFFICES ASSUME NEW u \in Tasks, Mentions(k, u)'
               PROVE  /\ (pc'[u] \in Busy /\ on'[u] = k) \/ pc'[u] = "done"
                      /\ \A m \in Conns : Mentions(m, u)' => m = k
    BY DEF ConnMentions
  <1>1. CASE u = t
    BY <1>1, OthersMention
  <1>2. CASE u # t
    <2>1. Mentions(k, u)
      BY <1>2 DEF Moves, ConnMoves
    <2>2. /\ (pc[u] \in Busy /\ on[u] = k) \/ pc[u] = "done"
          /\ \A m \in Conns : Mentions(m, u) => m = k
      BY <2>1 DEF QInv, ConnOK, ConnMentions
    <2>3. pc'[u] = pc[u] /\ on'[u] = on[u]
      BY <1>2 DEF Moves, OthersWait
    <2>4. \A m \in Conns \ {k} : Mentions(m, u)' => Mentions(m, u)
      BY OthersMention
    <2> QED
      BY <2>2, <2>3, <2>4
  <1> QED
    BY <1>1, <1>2

(* t leaves; what it waited for is for nobody.                             *)
LEMMA LeaveConn ==
  ASSUME QInv, NEW t \in Tasks, NEW k \in Conns, Moves(t, k),
         pc'[t] = "done",
         conn'[k].jobs = OrphansOf(conn[k].jobs, t),
         \A i \in DOMAIN conn[k].jobs :
           conn[k].jobs[i].task = t /\ conn[k].jobs[i].name = "COMMIT" => answer'[t] = "inDoubt",
         Carries(k, t) => ~Written(k)'
  PROVE  ConnOK(k)'
  <1> DEFINE was == conn[k].jobs
             is == conn'[k].jobs
  <1>1. ConnOK(k)
    BY DEF QInv
  <1>2. /\ is \in Seq(Jobs) /\ Len(is) = Len(was)
        /\ DOMAIN is = DOMAIN was
        /\ \A i \in DOMAIN was :
             /\ is[i].task = was[i].task
             /\ is[i].name = was[i].name
             /\ is[i].awaited <=> was[i].awaited /\ was[i].task # t
    <2>1. was \in Seq(Jobs) /\ DOMAIN was = 1..Len(was)
      BY ConnJobs
    <2>2. is = OrphansOf(was, t)
      OBVIOUS
    <2> HIDE DEF was, is
    <2>3. is \in Seq(Jobs) /\ Len(is) = Len(was)
      BY <2>1, <2>2, OrphansFacts
    <2> QED
      BY <2>1, <2>2, <2>3, OrphansFacts
  <1>3. /\ conn'[k].home = conn[k].home /\ conn'[k].state = conn[k].state
        /\ conn'[k].tx = conn[k].tx /\ conn'[k].writes = conn[k].writes
        /\ file' = file /\ lock' = lock /\ call' = call /\ seen' = seen
        /\ Written(k)' => Written(k)
        /\ \A p \in Processes : writer'[p] = k => writer[p] = k
    BY ConnStays
  <1>4. \A u \in Tasks \ {t} : pc'[u] = pc[u] /\ on'[u] = on[u] /\ answer'[u] = answer[u]
    BY DEF Moves, OthersWait
  <1>5. \A i \in DOMAIN was : ~is[i].awaited /\ was[i].task \in Tasks
    <2>1. Holds(t) /\ conn[k].home = Home[t]
      BY DEF Moves
    <2> QED
      BY <1>2, <2>1, AwaitedByHolder, ConnJobs
  <1>6. ConnHeld(k)'
    <2>1. was = <<>> => is = <<>>
      BY <1>2
    <2> QED
      BY <1>1, <1>3, <2>1 DEF ConnOK, ConnHeld
  <1>7. JobsAwaited(k)'
    <2> SUFFICES ASSUME NEW i \in DOMAIN was
                 PROVE  /\ is[i].name \in Migrating => pc'[is[i].task] = "done"
                        /\ is[i].name = "COMMIT" =>
                             /\ pc'[is[i].task] \in {"discard", "done"}
                             /\ answer'[is[i].task] = "inDoubt"
      BY <1>2, <1>5 DEF JobsAwaited
    <2>1. CASE was[i].task = t
      BY <1>2, <2>1
    <2>2. CASE was[i].task # t
      <3>1. ~was[i].awaited
        BY <1>2, <1>5, <2>2
      <3> QED
        BY <1>1, <1>2, <1>4, <1>5, <2>2, <3>1 DEF ConnOK, JobsAwaited
    <2> QED
      BY <2>1, <2>2
  <1>8. JobsPlaced(k)'
    BY <1>1, <1>2, <1>3 DEF ConnOK, JobsPlaced
  <1>9. JobsMigrate(k)'
    BY <1>1, <1>2, <1>3 DEF ConnOK, JobsMigrate
  <1>10. ConnWrites(k)'
    <2> SUFFICES ASSUME NEW u \in Tasks, Carries(k, u)'
                 PROVE  /\ \A i \in DOMAIN is :
                             /\ is[i].task = u
                             /\ is[i].name \in {"WRITE", "COMMIT", "ROLLBACK", "CLOSE"}
                        /\ \/ pc'[u] \in {"body", "commit", "rollback"} /\ on'[u] = k
                           \/ pc'[u] \in {"discard", "done"} /\ ~Written(k)'
      BY DEF ConnWrites
    <2>1. Carries(k, u)
      BY <1>2, <1>3 DEF Carries
    <2>2. /\ \A i \in DOMAIN was :
                /\ was[i].task = u
                /\ was[i].name \in {"WRITE", "COMMIT", "ROLLBACK", "CLOSE"}
          /\ \/ pc[u] \in {"body", "commit", "rollback"} /\ on[u] = k
             \/ pc[u] \in {"discard", "done"} /\ ~Written(k)
      BY <1>1, <2>1 DEF ConnOK, ConnWrites
    <2> HIDE DEF was, is
    <2> QED
      BY <1>2, <1>3, <1>4, <2>1, <2>2
  <1>11. ConnMentions(k)'
    BY MentionedByOne
  <1> QED
    BY <1>6, <1>7, <1>8, <1>9, <1>10, <1>11 DEF ConnOK

(* t queues another statement, and waits for it.                           *)
LEMMA AwaitConn ==
  ASSUME QInv, NEW t \in Tasks, NEW k \in Conns, Moves(t, k),
         writer[Home[t]] = k,
         NEW name \in Names \ {"INSERT"}, NEW at \in Busy, name \in Expected(at),
         pc'[t] = at, on'[t] = k, reply'[t] = "none",
         conn'[k].jobs = Append(OrphansOf(conn[k].jobs, t), Job(t, name)),
         \A i \in DOMAIN conn[k].jobs : conn[k].jobs[i].task = t =>
           /\ conn[k].jobs[i].name \notin Migrating
           /\ conn[k].jobs[i].name = "COMMIT" => at = "discard" /\ answer'[t] = "inDoubt",
         name = "CLOSE" => ~Written(k)',
         name \in {"WRITE", "COMMIT"} => /\ conn[k].jobs = <<>> /\ conn[k].tx
                                         /\ call[t] = "write",
         name = "WRITE" => ~Carries(k, t),
         name = "COMMIT" => t \in conn[k].writes,
         name = "SCRIPT" => seen[t] < LastVersion,
         Carries(k, t) => /\ name \in {"COMMIT", "ROLLBACK", "CLOSE"}
                          /\ at \in {"commit", "rollback"} \/ (at = "discard" /\ ~Written(k)')
  PROVE  ConnOK(k)' /\ TaskWaits(t)'
  <1> DEFINE was == conn[k].jobs
             is == conn'[k].jobs
             n == Len(was)
  <1>1. ConnOK(k)
    BY DEF QInv
  <1>2. /\ n \in Nat /\ DOMAIN was = 1..n /\ DOMAIN is = 1..(n + 1) /\ Len(is) = n + 1
        /\ is # <<>>
        /\ \A i \in 1..n :
             /\ is[i].task = was[i].task
             /\ is[i].name = was[i].name
             /\ is[i].awaited <=> was[i].awaited /\ was[i].task # t
        /\ is[n + 1] = Job(t, name)
    <2>1. Job(t, name) \in Jobs
      BY DEF Job, Jobs
    <2>2. OrphansOf(was, t) \in Seq(Jobs)
      BY ConnJobs, OrphansFacts
    <2>3. /\ is \in Seq(Jobs) /\ is # <<>> /\ Len(is) = Len(OrphansOf(was, t)) + 1
          /\ \A i \in 1..Len(OrphansOf(was, t)) : is[i] = OrphansOf(was, t)[i]
          /\ is[Len(OrphansOf(was, t)) + 1] = Job(t, name)
      BY <2>1, <2>2, AppendProperties
    <2> HIDE DEF was, is
    <2>4. DOMAIN is = 1..Len(is)
      BY <2>3
    <2>5. was \in Seq(Jobs) /\ Len(was) \in Nat /\ DOMAIN was = 1..Len(was)
      BY ConnJobs DEF was
    <2>6. /\ Len(OrphansOf(was, t)) = Len(was)
          /\ \A i \in 1..Len(was) :
              /\ OrphansOf(was, t)[i].task = was[i].task
              /\ OrphansOf(was, t)[i].name = was[i].name
              /\ OrphansOf(was, t)[i].awaited <=> was[i].awaited /\ was[i].task # t
      BY <2>5, OrphansFacts
    <2> QED
      BY <2>3, <2>4, <2>5, <2>6
  <1>3. /\ conn'[k].home = conn[k].home /\ conn'[k].state = conn[k].state
        /\ conn'[k].tx = conn[k].tx /\ conn'[k].writes = conn[k].writes
        /\ file' = file /\ lock' = lock /\ call' = call /\ seen' = seen
        /\ Written(k)' => Written(k)
        /\ \A p \in Processes : writer'[p] = k => writer[p] = k
    BY ConnStays
  <1>4. \A u \in Tasks \ {t} : pc'[u] = pc[u] /\ on'[u] = on[u] /\ answer'[u] = answer[u]
    BY DEF Moves, OthersWait
  <1>5. Holds(t) /\ conn[k].home = Home[t] /\ Home[t] \in Processes
    BY SqliteAssumption DEF Moves
  <1>6. \A i \in 1..n : ~is[i].awaited /\ was[i].task \in Tasks
    BY <1>2, <1>5, AwaitedByHolder, ConnJobs
  <1>7. Written(k) /\ conn[k].state = "open"
    BY <1>1, <1>5 DEF Written, ConnOK, ConnHeld
  <1>8. is[n + 1].task = t /\ is[n + 1].name = name /\ is[n + 1].awaited
    BY <1>2 DEF Job
  <1>9. \A u \in Tasks : Carries(k, u) => u = t
    <2> TAKE u \in Tasks
    <2>1. Carries(k, u) => pc[u] \in {"body", "commit", "rollback"} /\ on[u] = k
      BY <1>1, <1>7 DEF ConnOK, ConnWrites
    <2> QED
      BY <1>5, <2>1, OneBusy DEF Busy
  <1>10. ConnHeld(k)'
    BY <1>1, <1>3, <1>7 DEF ConnOK, ConnHeld
  <1>11. JobsAwaited(k)'
    <2>1. ASSUME NEW i \in 1..n
          PROVE  /\ ~is[i].awaited
                 /\ is[i].name \in Migrating => pc'[is[i].task] = "done"
                 /\ is[i].name = "COMMIT" =>
                      /\ pc'[is[i].task] \in {"discard", "done"}
                      /\ answer'[is[i].task] = "inDoubt"
      <3>1. CASE was[i].task = t
        <4>1. /\ was[i].name \notin Migrating
              /\ was[i].name = "COMMIT" => at = "discard" /\ answer'[t] = "inDoubt"
          BY <1>2, <3>1
        <4> HIDE DEF was, is, n
        <4> QED
          BY <1>2, <1>6, <3>1, <4>1
      <3>2. CASE was[i].task # t
        <4>1. ~was[i].awaited
          BY <1>2, <1>6, <3>2
        <4>2. /\ was[i].name \in Migrating => pc[was[i].task] = "done"
              /\ was[i].name = "COMMIT" =>
                   /\ pc[was[i].task] \in {"discard", "done"}
                   /\ answer[was[i].task] = "inDoubt"
          <5>1. JobsAwaited(k) /\ i \in DOMAIN was
            BY <1>1, <1>2 DEF ConnOK
          <5> QED
            BY ONLY <4>1, <5>1 DEF JobsAwaited
        <4>3. was[i].task \in Tasks \ {t} /\ is[i].task = was[i].task /\ is[i].name = was[i].name
          BY <1>2, <1>6, <3>2
        <4> HIDE DEF was, is, n
        <4> QED
          BY <1>4, <1>6, <4>2, <4>3
      <3> QED
        BY <3>1, <3>2
    <2>2. ASSUME NEW i \in 1..(n + 1)
          PROVE  i \in 1..n \/ i = n + 1
      BY <1>2
    <2> HIDE DEF was, is, n
    <2>3. \A i \in DOMAIN is :
            /\ is[i].awaited =>
                 /\ i = Len(is)
                 /\ pc'[is[i].task] \in Busy /\ on'[is[i].task] = k /\ reply'[is[i].task] = "none"
                 /\ is[i].name \in Expected(pc'[is[i].task])
            /\ ~is[i].awaited =>
                 /\ is[i].name \in Migrating => pc'[is[i].task] = "done"
                 /\ is[i].name = "COMMIT" => pc'[is[i].task] \in {"discard", "done"}
                                             /\ answer'[is[i].task] = "inDoubt"
      BY <1>2, <1>8, <2>1, <2>2
    <2> QED
      BY <2>3 DEF JobsAwaited, is
  <1>12. JobsPlaced(k)'
    <2>1. ASSUME NEW i \in 1..n
          PROVE  /\ is[i].name # "CLOSE"
                 /\ is[i].name = "WRITE" => i = 1 /\ conn[k].tx /\ conn[k].writes = {}
                 /\ is[i].name = "COMMIT" => /\ i = 1 /\ conn[k].tx
                                             /\ conn[k].writes = {is[i].task}
                                             /\ call[is[i].task] = "write"
      <3>1. /\ was[i].name # "CLOSE"
            /\ was[i].name = "WRITE" => i = 1 /\ conn[k].tx /\ conn[k].writes = {}
            /\ was[i].name = "COMMIT" => /\ i = 1 /\ conn[k].tx
                                         /\ conn[k].writes = {was[i].task}
                                         /\ call[was[i].task] = "write"
        <4>1. JobsPlaced(k) /\ Written(k) /\ i \in DOMAIN was
          BY <1>1, <1>2, <1>7 DEF ConnOK
        <4> HIDE DEF Written
        <4> QED
          BY ONLY <4>1 DEF JobsPlaced
      <3> HIDE DEF was, is, n
      <3> QED
        BY <1>2, <3>1
    <2>2. /\ name = "WRITE" => n = 0 /\ conn[k].tx /\ conn[k].writes = {}
          /\ name = "COMMIT" => n = 0 /\ conn[k].tx /\ conn[k].writes = {t}
      <3>1. conn[k].writes \subseteq Tasks
        BY ConnJobs DEF Connection
      <3>2. conn[k].writes \subseteq {t}
        BY <1>9, <3>1 DEF Carries
      <3> QED
        BY <3>2 DEF Carries
    <2>3. ASSUME NEW i \in 1..(n + 1)
          PROVE  i \in 1..n \/ i = n + 1
      BY <1>2
    <2> HIDE DEF was, is, n
    <2>4. \A i \in DOMAIN is :
            /\ is[i].name = "CLOSE" => i = Len(is) /\ ~Written(k)'
            /\ is[i].name = "WRITE" => i = 1 /\ conn'[k].tx /\ conn'[k].writes = {}
            /\ is[i].name = "COMMIT" => /\ i = 1 /\ conn'[k].tx
                                        /\ conn'[k].writes = {is[i].task}
                                        /\ call'[is[i].task] = "write"
      <3> HIDE DEF Written
      <3> QED
        BY <1>2, <1>3, <1>8, <2>1, <2>2, <2>3
    <2> QED
      BY <2>4 DEF JobsPlaced, is
  <1>13. JobsMigrate(k)'
    <2>1. ASSUME NEW i \in 1..n
          PROVE  /\ is[i].name \in {"SCRIPT", "INSERT"} => seen[is[i].task] < LastVersion
                 /\ is[i].name = "INSERT" => i = 1 /\ file.half /\ file.version = 0
                 /\ is[i].name \in Migrating =>
                      /\ is[i].task # t
                      /\ \A j \in 1..n :
                           is[j].task = is[i].task /\ is[j].name \in Migrating => j = i
      <3>1. /\ was[i].name \in {"SCRIPT", "INSERT"} => seen[was[i].task] < LastVersion
            /\ was[i].name = "INSERT" => i = 1 /\ file.half /\ file.version = 0
            /\ was[i].name \in Migrating =>
                 /\ was[i].task # t
                 /\ \A j \in DOMAIN was :
                      was[j].task = was[i].task /\ was[j].name \in Migrating => j = i
        <4>1. JobsMigrate(k) /\ i \in DOMAIN was
          BY <1>1, <1>2 DEF ConnOK
        <4>2. was[i].task = t => was[i].name \notin Migrating
          BY <4>1
        <4> QED
          BY ONLY <4>1, <4>2 DEF JobsMigrate
      <3> HIDE DEF was, is, n
      <3> QED
        BY <1>2, <3>1
    <2>2. ASSUME NEW i \in 1..(n + 1)
          PROVE  i \in 1..n \/ i = n + 1
      BY <1>2
    <2> HIDE DEF was, is, n
    <2>3. \A i \in DOMAIN is :
            /\ is[i].name \in {"SCRIPT", "INSERT"} => seen'[is[i].task] < LastVersion
            /\ is[i].name = "INSERT" => i = 1 /\ file'.half /\ file'.version = 0
            /\ is[i].name \in Migrating =>
                 \A j \in DOMAIN is :
                   is[j].task = is[i].task /\ is[j].name \in Migrating => j = i
      <3> TAKE i \in DOMAIN is
      <3>1. CASE i \in 1..n
        BY <1>2, <1>3, <1>8, <2>1, <2>2, <3>1
      <3>2. CASE i = n + 1
        BY <1>2, <1>3, <1>8, <2>1, <2>2, <3>2
      <3> QED
        BY <1>2, <2>2, <3>1, <3>2
    <2> QED
      BY <2>3 DEF JobsMigrate, is
  <1>14. ConnWrites(k)'
    <2> SUFFICES ASSUME NEW u \in Tasks, Carries(k, u)'
                 PROVE  /\ \A i \in DOMAIN is :
                             /\ is[i].task = u
                             /\ is[i].name \in {"WRITE", "COMMIT", "ROLLBACK", "CLOSE"}
                        /\ \/ pc'[u] \in {"body", "commit", "rollback"} /\ on'[u] = k
                           \/ pc'[u] \in {"discard", "done"} /\ ~Written(k)'
      BY DEF ConnWrites
    <2>1. Carries(k, u) \/ (u = t /\ name = "WRITE")
      <3>1. CASE u \in conn'[k].writes
        BY <1>3, <3>1 DEF Carries
      <3>2. ASSUME NEW i \in DOMAIN is, is[i].task = u, is[i].name = "WRITE"
            PROVE  Carries(k, u) \/ (u = t /\ name = "WRITE")
        <4>1. i \in 1..n \/ i = n + 1
          BY <1>2
        <4>2. i \in 1..n => was[i].task = u /\ was[i].name = "WRITE" /\ i \in DOMAIN was
          BY <1>2, <3>2
        <4> QED
          BY <1>8, <3>2, <4>1, <4>2 DEF Carries
      <3> QED
        BY <3>1, <3>2 DEF Carries
    <2>2. CASE Carries(k, u)
      <3>1. u = t
        BY <1>9, <2>2
      <3>2. \A i \in 1..n :
                /\ was[i].task = t
                /\ was[i].name \in {"WRITE", "COMMIT", "ROLLBACK", "CLOSE"}
        BY <1>1, <1>2, <2>2, <3>1 DEF ConnOK, ConnWrites
      <3>3. \A i \in 1..(n + 1) : i \in 1..n \/ i = n + 1
        BY <1>2
      <3> HIDE DEF was, is, n
      <3> QED
        BY <1>2, <1>8, <2>2, <3>1, <3>2, <3>3
    <2>3. CASE u = t /\ name = "WRITE"
      <3>1. n = 0
        BY <2>3
      <3>2. at = "body"
        BY <2>3 DEF Expected, Busy, Migrating
      <3>3. \A i \in 1..(n + 1) : i = n + 1
        BY <3>1
      <3> HIDE DEF was, is, n
      <3> QED
        BY <1>2, <1>8, <2>3, <3>2, <3>3
    <2> QED
      BY <2>1, <2>2, <2>3
  <1>15. ConnMentions(k)'
    BY MentionedByOne
  <1>16. TaskWaits(t)'
    <2> HIDE DEF was, is, n
    <2>1. /\ is # <<>> /\ is[Len(is)].task = t /\ is[Len(is)].awaited
          /\ is[Len(is)].name \in Expected(at)
      BY <1>2, <1>8
    <2> QED
      BY <1>3, <1>5, <2>1 DEF TaskWaits, is
  <1> QED
    BY <1>10, <1>11, <1>12, <1>13, <1>14, <1>15, <1>16 DEF ConnOK

--------------------------------------------------------------------------------
(* The parts of a task's step.                                             *)

LEMMA TaskStep ==
  ASSUME QInv, NEW t \in Tasks, NEW k, Moves(t, k), Typed', TaskOK(t)',
         k \in Conns => ConnOK(k)'
  PROVE  QInv'
  <1>1. \A u \in Tasks : TaskOK(u)'
    BY OtherTasksStay
  <1>2. \A l \in Conns : ConnOK(l)'
    BY OtherConnsStay
  <1>3. OneInsert'
    BY InsertsStay
  <1> QED
    BY <1>1, <1>2, <1>3 DEF QInv

LEMMA JobsReplaced ==
  ASSUME NEW c \in Connection, NEW jobs \in Seq(Jobs)
  PROVE  /\ [c EXCEPT !.jobs = jobs] \in Connection
         /\ [c EXCEPT !.jobs = jobs].jobs = jobs
         /\ jobs = c.jobs => [c EXCEPT !.jobs = jobs] = c
  <1> DEFINE S == Seq(Jobs)
  <1>1. c \in [home : Processes \cup {None}, state : {"new", "open", "closed"}, jobs : S,
               tx : BOOLEAN, writes : SUBSET Tasks, half : BOOLEAN] /\ jobs \in S
    BY DEF Connection
  <1> HIDE DEF S
  <1>2. [c EXCEPT !.jobs = jobs] \in
              [home : Processes \cup {None}, state : {"new", "open", "closed"}, jobs : S,
               tx : BOOLEAN, writes : SUBSET Tasks, half : BOOLEAN]
    BY <1>1
  <1>3. jobs = c.jobs => [c EXCEPT !.jobs = jobs] = c
    BY <1>1
  <1> QED
    BY <1>1, <1>2, <1>3 DEF Connection, S

LEMMA OrphanedFacts ==
  ASSUME QInv, NEW t \in Tasks
  PROVE  /\ Orphaned(t) \in [Conns -> Connection]
         /\ \A l \in Conns :
              /\ Orphaned(t)[l] = [conn[l] EXCEPT !.jobs = OrphansOf(@, t)]
              /\ (\A i \in DOMAIN conn[l].jobs : conn[l].jobs[i].task # t) =>
                   Orphaned(t)[l] = conn[l]
  <1>1. \A l \in Conns : Orphaned(t)[l] = [conn[l] EXCEPT !.jobs = OrphansOf(@, t)]
    BY DEF Orphaned, OrphansOf
  <1>2. \A l \in Conns : conn[l] \in Connection /\ OrphansOf(conn[l].jobs, t) \in Seq(Jobs)
    BY ConnJobs, OrphansFacts
  <1>3. \A l \in Conns : Orphaned(t)[l] \in Connection
    BY <1>1, <1>2 DEF Connection
  <1>4. Orphaned(t) = [l \in Conns |-> Orphaned(t)[l]]
    BY DEF Orphaned
  <1>5. ASSUME NEW l \in Conns, \A i \in DOMAIN conn[l].jobs : conn[l].jobs[i].task # t
        PROVE  Orphaned(t)[l] = conn[l]
    <2> DEFINE os == OrphansOf(conn[l].jobs, t)
    <2>1. os = conn[l].jobs /\ os \in Seq(Jobs) /\ conn[l] \in Connection
      BY <1>5, ConnJobs, OrphansFacts
    <2>2. Orphaned(t)[l] = [conn[l] EXCEPT !.jobs = os]
      BY <1>1
    <2> HIDE DEF os
    <2>3. [conn[l] EXCEPT !.jobs = os] = conn[l]
      BY <2>1, JobsReplaced
    <2> QED
      BY <2>2, <2>3
  <1> QED
    BY <1>1, <1>3, <1>4, <1>5

(* Only the connection that t uses has statements of t.                    *)
LEMMA OrphanedElsewhere ==
  ASSUME QInv, NEW t \in Tasks, pc[t] # "done", NEW l \in Conns,
         pc[t] \in Busy => on[t] # l
  PROVE  Orphaned(t)[l] = conn[l] /\ ~Mentions(l, t)
  <1>1. ~Mentions(l, t)
    BY DEF QInv, ConnOK, ConnMentions
  <1>2. \A i \in DOMAIN conn[l].jobs : conn[l].jobs[i].task # t
    BY <1>1 DEF Mentions
  <1> QED
    BY <1>1, <1>2, OrphanedFacts

(* A task that waits for no statement of its own has none.                 *)
LEMMA NothingToOrphan ==
  ASSUME QInv, NEW t \in Tasks, pc[t] # "done",
         pc[t] \in Busy => conn[on[t]].jobs = <<>>
  PROVE  Orphaned(t) = conn
  <1>1. ASSUME NEW l \in Conns
        PROVE  Orphaned(t)[l] = conn[l]
    <2>1. CASE pc[t] \in Busy /\ on[t] = l
      <3>1. conn[l].jobs = <<>>
        BY <2>1
      <3>2. \A i \in DOMAIN conn[l].jobs : conn[l].jobs[i].task # t
        BY <3>1
      <3> QED
        BY <3>2, OrphanedFacts
    <2>2. CASE ~(pc[t] \in Busy /\ on[t] = l)
      BY <2>2, OrphanedElsewhere
    <2> QED
      BY <2>1, <2>2
  <1>2. conn \in [Conns -> Connection]
    BY DEF QInv, Typed, ConnsTyped
  <1> HIDE DEF Orphaned
  <1> QED
    BY <1>1, <1>2, OrphanedFacts

LEMMA OrphanedMoves ==
  ASSUME QInv, NEW t \in Tasks, NEW k, pc[t] # "done", pc[t] \in Busy => on[t] = k,
         conn' = Orphaned(t)
  PROVE  /\ ConnMoves(t, k) /\ ConnsTyped'
         /\ k \in Conns => conn'[k].jobs = OrphansOf(conn[k].jobs, t)
  <1>1. ASSUME NEW l \in Conns
        PROVE  /\ Kept(l) /\ conn'[l].jobs = OrphansOf(conn[l].jobs, t)
               /\ l # k => conn'[l] = conn[l]
    <2>1. conn'[l] = [conn[l] EXCEPT !.jobs = OrphansOf(@, t)]
      BY OrphanedFacts
    <2>2. conn[l] \in Connection
      BY ConnJobs
    <2>3. l # k => conn'[l] = conn[l]
      BY OrphanedElsewhere
    <2> HIDE DEF Orphaned
    <2> QED
      BY <2>1, <2>2, <2>3 DEF Kept, Connection
  <1>2. ASSUME k \in Conns
        PROVE  /\ \A u \in Tasks : Mentions(k, u)' => Mentions(k, u)
               /\ Inserts(k)' => Inserts(k)
    <2>1. /\ conn'[k].writes = conn[k].writes
          /\ conn'[k].jobs = OrphansOf(conn[k].jobs, t)
      BY <1>1, <1>2 DEF Kept
    <2>2. /\ DOMAIN conn'[k].jobs = DOMAIN conn[k].jobs
          /\ \A i \in DOMAIN conn[k].jobs :
               /\ conn'[k].jobs[i].task = conn[k].jobs[i].task
               /\ conn'[k].jobs[i].name = conn[k].jobs[i].name
      BY <1>2, <2>1, ConnJobs, OrphansFacts DEF OrphansOf
    <2> QED
      BY <2>1, <2>2 DEF Mentions, Inserts
  <1>3. ConnsTyped'
    BY OrphanedFacts DEF ConnsTyped
  <1> QED
    BY <1>1, <1>2, <1>3 DEF ConnMoves

LEMMA AppendedMoves ==
  ASSUME QInv, NEW t \in Tasks, NEW k \in Conns, pc[t] # "done", pc[t] \in Busy => on[t] = k,
         NEW name \in Names \ {"INSERT"},
         conn' = [Orphaned(t) EXCEPT ![k].jobs = Append(@, Job(t, name))]
  PROVE  /\ ConnMoves(t, k) /\ ConnsTyped'
         /\ conn'[k].jobs = Append(OrphansOf(conn[k].jobs, t), Job(t, name))
  <1> DEFINE os == OrphansOf(conn[k].jobs, t)
  <1>1. Job(t, name) \in Jobs
    BY DEF Job, Jobs
  <1>2. conn[k] \in Connection
    BY ConnJobs
  <1>3. /\ conn' \in [Conns -> Connection]
        /\ conn'[k] = [conn[k] EXCEPT !.jobs = Append(os, Job(t, name))]
    <2>1. /\ Orphaned(t) \in [Conns -> Connection]
          /\ Orphaned(t)[k] = [conn[k] EXCEPT !.jobs = os]
      BY OrphanedFacts
    <2>2. os \in Seq(Jobs)
      BY ConnJobs, OrphansFacts
    <2> HIDE DEF Orphaned, os
    <2>3. Orphaned(t)[k].jobs = os
      BY <1>2, <2>1 DEF Connection
    <2>4. Append(os, Job(t, name)) \in Seq(Jobs)
      BY <1>1, <2>2
    <2> HIDE DEF Job
    <2>5. conn'[k] = [Orphaned(t)[k] EXCEPT !.jobs = Append(os, Job(t, name))]
      BY <2>1, <2>3
    <2>6. conn'[k] = [conn[k] EXCEPT !.jobs = Append(os, Job(t, name))]
      BY <1>2, <2>1, <2>5 DEF Connection
    <2>7. conn'[k] \in Connection
      <3> DEFINE js == Append(os, Job(t, name))
      <3>1. js \in Seq(Jobs) /\ conn'[k] = [conn[k] EXCEPT !.jobs = js]
        BY <2>4, <2>6
      <3> HIDE DEF js
      <3>2. [conn[k] EXCEPT !.jobs = js] \in Connection
        BY <1>2, <3>1, JobsReplaced
      <3> QED
        BY <3>1, <3>2
    <2>8. \A l \in Conns : conn'[l] \in Connection
      BY <2>1, <2>7
    <2>9. conn' = [l \in Conns |-> conn'[l]]
      BY <2>1
    <2> QED
      BY <2>6, <2>8, <2>9
  <1>4. conn'[k].jobs = Append(os, Job(t, name)) /\ Kept(k)
    <2> HIDE DEF os, Job
    <2> QED
      BY <1>2, <1>3 DEF Connection, Kept
  <1>5. ASSUME NEW l \in Conns, l # k
        PROVE  conn'[l] = conn[l]
    <2>1. conn'[l] = Orphaned(t)[l]
      BY <1>5, OrphanedFacts
    <2> QED
      BY <1>5, <2>1, OrphanedElsewhere
  <1>6. /\ \A u \in Tasks \ {t} : Mentions(k, u)' => Mentions(k, u)
        /\ Inserts(k)' => Inserts(k)
    <2> DEFINE is == conn'[k].jobs
               was == conn[k].jobs
    <2>1. /\ os \in Seq(Jobs) /\ Len(os) = Len(was)
          /\ DOMAIN was = 1..Len(was) /\ Len(was) \in Nat
          /\ \A i \in 1..Len(was) : os[i].task = was[i].task /\ os[i].name = was[i].name
      BY ConnJobs, OrphansFacts
    <2>2. /\ is \in Seq(Jobs) /\ Len(is) = Len(os) + 1
          /\ \A i \in 1..Len(os) : is[i] = os[i]
          /\ is[Len(os) + 1] = Job(t, name)
      <3> HIDE DEF os, Job
      <3>1. is = Append(os, Job(t, name))
        BY <1>4
      <3> HIDE DEF is
      <3> QED
        BY <1>1, <2>1, <3>1, AppendProperties
    <2>3. Job(t, name).task = t /\ Job(t, name).name = name
      BY DEF Job
    <2> HIDE DEF is, was, os, Job
    <2>4. ASSUME NEW i \in DOMAIN is
          PROVE  \/ i \in DOMAIN was /\ is[i].task = was[i].task /\ is[i].name = was[i].name
                 \/ is[i].task = t /\ is[i].name = name
      BY <2>1, <2>2, <2>3
    <2>5. conn'[k].writes = conn[k].writes
      BY <1>4 DEF Kept
    <2>6. ASSUME NEW u \in Tasks \ {t}, Mentions(k, u)'
          PROVE  Mentions(k, u)
      <3>1. CASE u \in conn'[k].writes
        BY <2>5, <3>1 DEF Mentions
      <3>2. ASSUME NEW i \in DOMAIN is, is[i].task = u
            PROVE  Mentions(k, u)
        BY <2>4, <3>2 DEF Mentions, was
      <3> QED
        BY <2>6, <3>1, <3>2 DEF Mentions, is
    <2>7. ASSUME Inserts(k)'
          PROVE  Inserts(k)
      <3>1. ASSUME NEW i \in DOMAIN is, is[i].name = "INSERT"
            PROVE  Inserts(k)
        BY <2>4, <3>1 DEF Inserts, was
      <3> QED
        BY <2>7, <3>1 DEF Inserts, is
    <2> QED
      BY <2>6, <2>7
  <1>7. \A l \in Conns : Kept(l) /\ (l # k => conn'[l].jobs = conn[l].jobs)
    BY <1>4, <1>5 DEF Kept
  <1>8. ConnsTyped'
    BY <1>3 DEF ConnsTyped
  <1> QED
    BY <1>4, <1>6, <1>7, <1>8 DEF ConnMoves

(* Leaving the queue.                                                      *)
LEMMA LeaveMoves ==
  ASSUME QInv, NEW t \in Tasks, Queued(t), NEW how \in Answers, Leave(t, how), UNCHANGED call
  PROVE  /\ OthersWait(t) /\ TasksTyped'
         /\ pc'[t] = "done" /\ on'[t] = None /\ reply'[t] = "none" /\ answer'[t] = how
  <1> USE SqliteAssumption
  <1>1. TasksTyped
    BY DEF QInv, Typed
  <1>2. Home[t] \in Processes /\ queue[Home[t]] \in Seq(Tasks)
    BY <1>1 DEF TasksTyped
  <1>3. /\ Without(queue[Home[t]], t) \in Seq(Tasks)
        /\ \A u \in Tasks \ {t} :
             /\ (\E i \in DOMAIN queue[Home[t]] : queue[Home[t]][i] = u) =>
                  \E i \in DOMAIN Without(queue[Home[t]], t) : Without(queue[Home[t]], t)[i] = u
             /\ queue[Home[t]] # <<>> /\ Head(queue[Home[t]]) = u =>
                  Without(queue[Home[t]], t) # <<>> /\ Head(Without(queue[Home[t]], t)) = u
    BY <1>2, WithoutFacts DEF Queued
  <1>4. queue' \in [Processes -> Seq(Tasks)]
        /\ queue'[Home[t]] = Without(queue[Home[t]], t)
        /\ \A p \in Processes \ {Home[t]} : queue'[p] = queue[p]
    BY <1>1, <1>2, <1>3 DEF TasksTyped, Leave
  <1>5. \A u \in Tasks \ {t} : (Queued(u) => Queued(u)') /\ (Holds(u) => Holds(u)')
    <2> TAKE u \in Tasks \ {t}
    <2>1. CASE Home[u] = Home[t]
      BY <1>3, <1>4, <2>1 DEF Queued, Holds
    <2>2. CASE Home[u] # Home[t]
      <3>1. queue'[Home[u]] = queue[Home[u]]
        BY <1>4, <2>2
      <3> QED
        BY <3>1 DEF Queued, Holds
    <2> QED
      BY <2>1, <2>2
  <1>6. /\ pc' \in [Tasks -> {"idle", "queued", "done"} \cup Busy]
        /\ on' \in [Tasks -> Conns \cup {None}]
        /\ reply' \in [Tasks -> {"none", "ok", "error"}]
        /\ answer' \in [Tasks -> Answers]
        /\ pc'[t] = "done" /\ on'[t] = None /\ reply'[t] = "none" /\ answer'[t] = how
        /\ \A u \in Tasks \ {t} : pc'[u] = pc[u] /\ on'[u] = on[u] /\ reply'[u] = reply[u]
                                  /\ answer'[u] = answer[u]
    BY <1>1 DEF TasksTyped, Leave
  <1> QED
    BY <1>1, <1>4, <1>5, <1>6 DEF TasksTyped, OthersWait

(* Waiting at another place.                                               *)
LEMMA StayMoves ==
  ASSUME QInv, NEW t \in Tasks, NEW at \in Busy, NEW k \in Conns, NEW how \in Answers,
         UNCHANGED <<queue, call>>, pc' = [pc EXCEPT ![t] = at],
         reply' = [reply EXCEPT ![t] = "none"],
         on' = [on EXCEPT ![t] = k] \/ (on' = on /\ on[t] = k),
         answer' = [answer EXCEPT ![t] = how] \/ (answer' = answer /\ answer[t] = how)
  PROVE  /\ OthersWait(t) /\ TasksTyped'
         /\ pc'[t] = at /\ on'[t] = k /\ reply'[t] = "none" /\ answer'[t] = how
         /\ Queued(t) => Queued(t)'
         /\ Holds(t) => Holds(t)'
  <1>1. TasksTyped
    BY DEF QInv, Typed
  <1>2. /\ pc' \in [Tasks -> {"idle", "queued", "done"} \cup Busy]
        /\ on' \in [Tasks -> Conns \cup {None}]
        /\ reply' \in [Tasks -> {"none", "ok", "error"}]
        /\ answer' \in [Tasks -> Answers]
        /\ pc'[t] = at /\ on'[t] = k /\ reply'[t] = "none" /\ answer'[t] = how
        /\ \A u \in Tasks \ {t} : pc'[u] = pc[u] /\ on'[u] = on[u] /\ reply'[u] = reply[u]
                                  /\ answer'[u] = answer[u]
    BY <1>1 DEF TasksTyped
  <1>3. \A u \in Tasks : (Queued(u) => Queued(u)') /\ (Holds(u) => Holds(u)')
    BY DEF Queued, Holds
  <1> QED
    BY <1>1, <1>2, <1>3 DEF TasksTyped, OthersWait

LEMMA WriterTyped ==
  ASSUME QInv, UNCHANGED <<file, lock, seen>>,
         writer' = writer \/ (\E p \in Processes : writer' = [writer EXCEPT ![p] = None])
  PROVE  FileTyped'
  BY DEF QInv, Typed, FileTyped

--------------------------------------------------------------------------------
(* The two kinds of step of a task that uses a connection.                 *)

LEMMA BusyFacts ==
  ASSUME QInv, NEW t \in Tasks, pc[t] \in Busy
  PROVE  /\ Queued(t) /\ Holds(t) /\ pc[t] \notin {"idle", "queued", "done"}
         /\ on[t] \in Conns /\ conn[on[t]].home = Home[t]
         /\ pc[t] # "discard" => writer[Home[t]] = on[t]
         /\ reply[t] # "none" => conn[on[t]].jobs = <<>>
  <1> USE DEF QInv, TaskOK
  <1>1. Queued(t) /\ Holds(t) /\ pc[t] \notin {"idle", "queued", "done"}
    BY DEF TaskQueued, Queued, Busy
  <1>2. pc[t] # "discard" => writer[Home[t]] = on[t]
    BY DEF TaskQueued
  <1>3. /\ on[t] \in Conns /\ conn[on[t]].home = Home[t]
        /\ reply[t] # "none" => conn[on[t]].jobs = <<>>
    BY DEF TaskWaits
  <1> QED
    BY <1>1, <1>2, <1>3

(* The statements of t that its connection has not run yet.                *)
LEMMA OwnJobs ==
  ASSUME QInv, NEW t \in Tasks, pc[t] \in Busy,
         NEW i \in DOMAIN conn[on[t]].jobs, conn[on[t]].jobs[i].task = t
  PROVE  /\ conn[on[t]].jobs[i].name \in Migrating => pc[t] = "migrate"
         /\ conn[on[t]].jobs[i].name = "COMMIT" =>
              pc[t] = "commit" \/ (pc[t] = "discard" /\ answer[t] = "inDoubt")
  <1>1. on[t] \in Conns /\ pc[t] # "done"
    BY BusyFacts
  <1>2. JobsAwaited(on[t])
    BY <1>1 DEF QInv, ConnOK
  <1>3. CASE conn[on[t]].jobs[i].awaited
    <2>1. conn[on[t]].jobs[i].name \in Expected(pc[t])
      BY <1>2, <1>3 DEF JobsAwaited
    <2> QED
      BY <2>1 DEF Expected, Migrating, Busy
  <1>4. CASE ~conn[on[t]].jobs[i].awaited
    <2>1. /\ conn[on[t]].jobs[i].name \in Migrating => pc[t] = "done"
          /\ conn[on[t]].jobs[i].name = "COMMIT" =>
               pc[t] \in {"discard", "done"} /\ answer[t] = "inDoubt"
      BY <1>2, <1>4 DEF JobsAwaited
    <2> QED
      BY <1>1, <2>1
  <1> QED
    BY <1>3, <1>4

LEMMA OwnWrites ==
  ASSUME QInv, NEW t \in Tasks, pc[t] \in Busy, Carries(on[t], t)
  PROVE  /\ pc[t] \in {"body", "commit", "rollback", "discard"}
         /\ pc[t] = "discard" => ~Written(on[t])
         /\ conn[on[t]].tx
  <1>1. on[t] \in Conns /\ pc[t] # "done"
    BY BusyFacts
  <1>2. /\ \/ pc[t] \in {"body", "commit", "rollback"} /\ on[t] = on[t]
           \/ pc[t] \in {"discard", "done"} /\ ~Written(on[t])
    BY <1>1 DEF QInv, ConnOK, ConnWrites
  <1>3. conn[on[t]].tx
    BY <1>1 DEF QInv, ConnOK, ConnHeld, JobsPlaced, Carries
  <1> QED
    BY <1>1, <1>2, <1>3

LEMMA LeaveBusy ==
  ASSUME QInv, NEW t \in Tasks, pc[t] \in Busy, conn' = Orphaned(t),
         NEW how \in Answers, Leave(t, how), UNCHANGED <<file, lock, writer, call, seen>>,
         \A i \in DOMAIN conn[on[t]].jobs :
           conn[on[t]].jobs[i].task = t /\ conn[on[t]].jobs[i].name = "COMMIT" => how = "inDoubt",
         Carries(on[t], t) => ~Written(on[t]),
         t \in file.landed => how \in {"ok", "inDoubt"},
         call[t] = "write" /\ how = "ok" => t \in file.landed,
         call[t] = "migrate" /\ how = "ok" => file.version = LastVersion
  PROVE  QInv'
  <1>1. PICK k \in Conns : on[t] = k
    BY BusyFacts
  <1>2. /\ Queued(t) /\ Holds(t) /\ pc[t] # "done"
        /\ k \in Conns /\ conn[k].home = Home[t]
    BY <1>1, BusyFacts
  <1>3. ConnMoves(t, k) /\ ConnsTyped' /\ conn'[k].jobs = OrphansOf(conn[k].jobs, t)
    BY <1>1, <1>2, OrphanedMoves
  <1>4. /\ OthersWait(t) /\ TasksTyped'
        /\ pc'[t] = "done" /\ on'[t] = None /\ reply'[t] = "none" /\ answer'[t] = how
    BY <1>2, LeaveMoves
  <1>5. Moves(t, k)
    BY <1>1, <1>2, <1>3, <1>4 DEF Moves
  <1>6. ConnOK(k)'
    <2>1. Written(k)' => Written(k)
      BY DEF Written
    <2> QED
      BY <1>1, <1>2, <1>3, <1>4, <1>5, <2>1, LeaveConn
  <1>7. Typed'
    BY <1>3, <1>4, WriterTyped DEF Typed
  <1>8. TaskOK(t)'
    <2>1. TaskQueued(t)' /\ TaskCalls(t)' /\ TaskWaits(t)'
      BY <1>4 DEF TaskQueued, TaskCalls, TaskWaits, Busy
    <2>2. TaskLands(t)
      BY DEF QInv, TaskOK
    <2>3. TaskLands(t)'
      BY <1>4, <2>2 DEF TaskLands
    <2> QED
      BY <2>1, <2>3 DEF TaskOK
  <1> QED
    BY <1>2, <1>5, <1>6, <1>7, <1>8, TaskStep

(* t has "name" queued on connection k and waits for it at "at"; "how" is  *)
(* how its call will end, if that is known.                                *)
AwaitsNext(t, k, name, at, how) ==
  /\ UNCHANGED <<file, lock, call, seen, queue>>
  /\ conn' = [Orphaned(t) EXCEPT ![k].jobs = Append(@, Job(t, name))]
  /\ pc' = [pc EXCEPT ![t] = at]
  /\ reply' = [reply EXCEPT ![t] = "none"]
  /\ (on' = [on EXCEPT ![t] = k]) \/ (on' = on /\ on[t] = k)
  /\ (answer' = [answer EXCEPT ![t] = how]) \/ (answer' = answer /\ answer[t] = how)
  /\ \/ at # "discard" /\ writer' = writer
     \/ at = "discard" /\ writer' = [writer EXCEPT ![Home[t]] = None]

(* It may do so.                                                           *)
MayAwait(t, k, name, at, how) ==
  /\ pc[t] # "done" /\ (pc[t] \in Busy => on[t] = k)
  /\ Queued(t) /\ Holds(t) /\ writer[Home[t]] = k
  /\ at \in {"begin", "body", "commit", "rollback"} => call[t] = "write"
  /\ at = "migrate" => call[t] = "migrate"
  /\ at = "rollback" => how \in {"failed", "cancelled"}
  /\ at \notin {"discard", "rollback"} => how = "none"
  /\ at = "discard" => \/ (call[t] = "write" /\ how \in Failures)
                       \/ (call[t] = "close" /\ how = "ok")

(* What stands on k already goes with it.                                  *)
FitsAfter(t, k, name, at, how) ==
  /\ \A i \in DOMAIN conn[k].jobs : conn[k].jobs[i].task = t =>
       /\ conn[k].jobs[i].name \notin Migrating
       /\ conn[k].jobs[i].name = "COMMIT" => at = "discard" /\ how = "inDoubt"
  /\ name \in {"WRITE", "COMMIT"} => conn[k].jobs = <<>> /\ conn[k].tx
  /\ name = "WRITE" => ~Carries(k, t)
  /\ name = "COMMIT" => t \in conn[k].writes
  /\ name = "SCRIPT" => seen[t] < LastVersion
  /\ Carries(k, t) => at \in {"commit", "rollback", "discard"}
  /\ t \in file.landed => at = "discard" /\ how = "inDoubt"

LEMMA AwaitStep ==
  ASSUME QInv, NEW t \in Tasks, NEW k \in Conns, NEW name \in Names \ {"INSERT"},
         NEW at \in Busy, name \in Expected(at), NEW how \in Answers,
         AwaitsNext(t, k, name, at, how), MayAwait(t, k, name, at, how),
         FitsAfter(t, k, name, at, how)
  PROVE  QInv'
  <1> USE SqliteAssumption
  <1> USE DEF AwaitsNext, MayAwait, FitsAfter
  <1>1. /\ ConnMoves(t, k) /\ ConnsTyped'
        /\ conn'[k].jobs = Append(OrphansOf(conn[k].jobs, t), Job(t, name))
    <2>1. /\ QInv /\ pc[t] # "done" /\ (pc[t] \in Busy => on[t] = k)
          /\ conn' = [Orphaned(t) EXCEPT ![k].jobs = Append(@, Job(t, name))]
      OBVIOUS
    <2> QED
      BY ONLY <2>1, AppendedMoves
  <1>2. /\ OthersWait(t) /\ TasksTyped'
        /\ pc'[t] = at /\ on'[t] = k /\ reply'[t] = "none" /\ answer'[t] = how
        /\ Queued(t)' /\ Holds(t)'
    <2>1. /\ QInv /\ UNCHANGED <<queue, call>> /\ pc' = [pc EXCEPT ![t] = at]
          /\ reply' = [reply EXCEPT ![t] = "none"]
          /\ (on' = [on EXCEPT ![t] = k]) \/ (on' = on /\ on[t] = k)
          /\ (answer' = [answer EXCEPT ![t] = how]) \/ (answer' = answer /\ answer[t] = how)
          /\ Queued(t) /\ Holds(t)
      OBVIOUS
    <2> QED
      BY ONLY <2>1, StayMoves
  <1>3. Home[t] \in Processes /\ conn[k].home = Home[t]
        /\ \A p \in Processes : writer[p] = k => p = Home[t]
    BY DEF QInv, ConnOK, ConnHeld
  <1>4. writer \in [Processes -> Conns \cup {None}]
    BY DEF QInv, Typed, FileTyped
  <1>5. /\ at # "discard" => writer'[Home[t]] = k
        /\ at = "discard" => writer'[Home[t]] = None /\ ~Written(k)'
        /\ \A p \in Processes : writer'[p] = writer[p] \/ (p = Home[t] /\ writer'[p] = None)
    BY <1>3, <1>4 DEF Written
  <1>6. Moves(t, k)
    BY <1>1, <1>2, <1>3, <1>5 DEF Moves
  <1>7. /\ name = "CLOSE" => at = "discard"
        /\ at = "commit" => name = "COMMIT"
        /\ at = "rollback" => name = "ROLLBACK"
        /\ at = "discard" => name = "CLOSE"
        /\ name \in {"WRITE", "COMMIT"} => at \in {"body", "commit"}
    BY DEF Expected, Busy, Migrating
  <1>8. ConnOK(k)' /\ TaskWaits(t)'
    <2>1. Carries(k, t) => /\ name \in {"COMMIT", "ROLLBACK", "CLOSE"}
                           /\ at \in {"commit", "rollback"} \/ (at = "discard" /\ ~Written(k)')
      BY <1>5, <1>7
    <2>2. \A i \in DOMAIN conn[k].jobs : conn[k].jobs[i].task = t =>
            /\ conn[k].jobs[i].name \notin Migrating
            /\ conn[k].jobs[i].name = "COMMIT" => at = "discard" /\ answer'[t] = "inDoubt"
      BY <1>2
    <2>3. name \in {"WRITE", "COMMIT"} => /\ conn[k].jobs = <<>> /\ conn[k].tx
                                          /\ call[t] = "write"
      BY <1>7
    <2>4. name = "CLOSE" => ~Written(k)'
      BY <1>5, <1>7
    <2> QED
      BY <1>1, <1>2, <1>6, <2>1, <2>2, <2>3, <2>4, AwaitConn
  <1>9. Typed'
    <2>1. FileTyped'
      BY <1>3, WriterTyped
    <2> QED
      BY <1>1, <1>2, <2>1 DEF Typed
  <1>10. TaskQueued(t)'
    BY <1>2, <1>5 DEF TaskQueued, Queued
  <1>11. TaskCalls(t)'
    BY <1>2 DEF TaskCalls, Busy
  <1>12. TaskLands(t)'
    <2>1. TaskLands(t)
      BY DEF QInv, TaskOK
    <2>2. at \notin {"done", "queued", "idle"}
      BY DEF Busy
    <2>3. ~(call[t] = "migrate" /\ how = "ok")
      BY DEF Failures, Busy
    <2> QED
      BY <1>2, <2>1, <2>2, <2>3 DEF TaskLands
  <1> QED
    BY <1>6, <1>8, <1>9, <1>10, <1>11, <1>12, TaskStep DEF TaskOK

--------------------------------------------------------------------------------
(* The steps of the tasks.                                                 *)

LEMMA EnqueueStep ==
  ASSUME QInv, NEW t \in Tasks, Enqueue(t)
  PROVE  QInv'
  <1> USE SqliteAssumption
  <1>1. /\ pc[t] = "idle" /\ pc' = [pc EXCEPT ![t] = "queued"]
        /\ queue' = [queue EXCEPT ![Home[t]] = Append(@, t)]
        /\ UNCHANGED <<file, lock, conn, writer, call, on, reply, answer, seen>>
    BY DEF Enqueue
  <1>2. Typed /\ TaskOK(t)
    BY DEF QInv
  <1>3. Home[t] \in Processes /\ queue[Home[t]] \in Seq(Tasks)
    BY <1>2 DEF Typed, TasksTyped
  <1>4. /\ Append(queue[Home[t]], t) \in Seq(Tasks)
        /\ Len(Append(queue[Home[t]], t)) = Len(queue[Home[t]]) + 1
        /\ \A i \in 1..Len(queue[Home[t]]) : Append(queue[Home[t]], t)[i] = queue[Home[t]][i]
        /\ Append(queue[Home[t]], t)[Len(queue[Home[t]]) + 1] = t
        /\ queue[Home[t]] # <<>> => /\ Head(Append(queue[Home[t]], t)) = Head(queue[Home[t]])
                                    /\ Append(queue[Home[t]], t) # <<>>
    BY <1>3, AppendProperties, HeadTailAppend
  <1>5. /\ queue' \in [Processes -> Seq(Tasks)]
        /\ queue'[Home[t]] = Append(queue[Home[t]], t)
        /\ \A p \in Processes \ {Home[t]} : queue'[p] = queue[p]
    BY <1>1, <1>2, <1>3, <1>4 DEF Typed, TasksTyped
  <1>6. /\ pc' \in [Tasks -> {"idle", "queued", "done"} \cup Busy]
        /\ pc'[t] = "queued"
        /\ \A u \in Tasks \ {t} : pc'[u] = pc[u]
    BY <1>1, <1>2 DEF Typed, TasksTyped
  <1>7. ASSUME NEW u \in Tasks \ {t}
        PROVE  (Queued(u) => Queued(u)') /\ (Holds(u) => Holds(u)')
    <2>1. CASE Home[u] = Home[t]
      <3>1. Holds(u) => Holds(u)'
        BY <1>4, <1>5, <2>1 DEF Holds
      <3>2. ASSUME NEW i \in DOMAIN queue[Home[t]], queue[Home[t]][i] = u
            PROVE  Queued(u)'
        <4>1. /\ i \in 1..Len(queue[Home[t]])
              /\ i \in DOMAIN Append(queue[Home[t]], t)
          BY <1>3, <1>4, <3>2
        <4> QED
          BY <1>4, <1>5, <2>1, <3>2, <4>1 DEF Queued
      <3> QED
        BY <2>1, <3>1, <3>2 DEF Queued
    <2>2. CASE Home[u] # Home[t]
      <3>1. queue'[Home[u]] = queue[Home[u]]
        BY <1>5, <2>2
      <3> QED
        BY <3>1 DEF Queued, Holds
    <2> QED
      BY <2>1, <2>2
  <1>8. Queued(t)'
    <2>1. Len(queue[Home[t]]) + 1 \in DOMAIN Append(queue[Home[t]], t)
      BY <1>3, <1>4
    <2> QED
      BY <1>4, <1>5, <2>1 DEF Queued
  <1>9. Moves(t, None)
    <2>1. OthersWait(t)
      BY <1>1, <1>6, <1>7 DEF OthersWait
    <2>2. ConnMoves(t, None)
      BY <1>1 DEF ConnMoves, Kept
    <2> QED
      BY <1>1, <2>1, <2>2 DEF Moves, Busy
  <1>10. Typed'
    BY <1>1, <1>2, <1>5, <1>6 DEF Typed, TasksTyped, FileTyped, ConnsTyped
  <1>11. TaskOK(t)'
    <2>1. TaskQueued(t)'
      BY <1>1, <1>2, <1>6, <1>8 DEF TaskOK, TaskQueued, Queued, Busy
    <2>2. TaskCalls(t)' /\ TaskWaits(t)' /\ TaskLands(t)'
      BY <1>1, <1>2, <1>6 DEF TaskOK, TaskCalls, TaskWaits, TaskLands, Busy
    <2> QED
      BY <2>1, <2>2 DEF TaskOK
  <1> QED
    BY <1>9, <1>10, <1>11, TaskStep

(* Leaving the queue before a connection is used.                          *)
LEMMA LeaveQueued ==
  ASSUME QInv, NEW t \in Tasks, pc[t] = "queued", NEW how \in Answers, Leave(t, how),
         UNCHANGED <<file, lock, conn, writer, call, seen>>,
         how = "ok" => call[t] = "close"
  PROVE  QInv'
  <1> USE SqliteAssumption
  <1>1. TaskOK(t) /\ Typed
    BY DEF QInv
  <1>2. Queued(t)
    BY <1>1 DEF TaskOK, TaskQueued, Queued
  <1>3. /\ OthersWait(t) /\ TasksTyped'
        /\ pc'[t] = "done" /\ on'[t] = None /\ reply'[t] = "none" /\ answer'[t] = how
    BY <1>2, LeaveMoves
  <1>4. Moves(t, None)
    <2>1. ConnMoves(t, None)
      BY DEF ConnMoves, Kept
    <2> QED
      BY <1>3, <2>1 DEF Moves, Busy
  <1>5. Typed'
    BY <1>1, <1>3, WriterTyped DEF Typed, ConnsTyped
  <1>6. TaskOK(t)'
    <2>1. TaskQueued(t)' /\ TaskCalls(t)' /\ TaskWaits(t)'
      BY <1>3 DEF TaskQueued, TaskCalls, TaskWaits, Busy
    <2>2. TaskLands(t)'
      BY <1>1, <1>3 DEF TaskOK, TaskLands
    <2> QED
      BY <2>1, <2>2 DEF TaskOK
  <1> QED
    BY <1>4, <1>5, <1>6, TaskStep

(* How an exception ends a call.                                           *)
LEMMA RaisedFacts ==
  ASSUME QInv, NEW t \in Tasks, NEW at \in Busy, NEW how, Raised(t, at, how)
  PROVE  /\ pc[t] = at /\ how \in Failures /\ how \in Answers
         /\ how = "inDoubt" => at = "commit"
         /\ at = "commit" => how = "inDoubt" \/ (how = "failed" /\ reply[t] = "error")
  BY DEF Raised, Fails, Cancelled, Failures, Answers

LEMMA StartStep ==
  ASSUME QInv, NEW t \in Tasks, Start(t)
  PROVE  QInv'
  <1> USE SqliteAssumption
  <1>1. /\ pc[t] = "queued" /\ Holds(t) /\ writer[Home[t]] # None
        /\ UNCHANGED <<file, lock, queue, writer, call, answer, seen>>
    BY DEF Start
  <1>2. TaskOK(t) /\ Typed
    BY DEF QInv
  <1>3. Home[t] \in Processes
    OBVIOUS
  <1>4. PICK k \in Conns : writer[Home[t]] = k
    BY <1>1, <1>2, <1>3 DEF Typed, FileTyped
  <1>5. Queued(t) /\ answer[t] = "none" /\ t \notin file.landed
    BY <1>1, <1>2 DEF TaskOK, TaskQueued, TaskCalls, TaskLands, Queued
  <1>6. pc[t] # "done" /\ pc[t] \notin Busy
    BY <1>1 DEF Busy
  <1>7. ~Mentions(k, t) /\ Orphaned(t) = conn
    BY <1>6, OrphanedElsewhere, NothingToOrphan
  <1>8. /\ \A i \in DOMAIN conn[k].jobs : conn[k].jobs[i].task # t
        /\ ~Carries(k, t)
    BY <1>7 DEF Mentions, Carries
  <1>9. ASSUME NEW name \in {"BEGIN", "VERSION"}, NEW at \in {"begin", "migrate"},
               Await(t, k, name, at), name = "BEGIN" <=> at = "begin",
               at = "begin" => call[t] = "write", at = "migrate" => call[t] = "migrate"
        PROVE  QInv'
    <2>1. /\ name \in Names \ {"INSERT"} /\ at \in Busy /\ name \in Expected(at)
          /\ at \notin {"discard", "rollback", "body", "commit"}
          /\ name \notin {"WRITE", "COMMIT", "SCRIPT"}
      BY <1>9 DEF Names, Busy, Expected, Migrating
    <2>2. /\ conn' = [Orphaned(t) EXCEPT ![k].jobs = Append(@, Job(t, name))]
          /\ pc' = [pc EXCEPT ![t] = at]
          /\ reply' = [reply EXCEPT ![t] = "none"]
          /\ on' = [on EXCEPT ![t] = k]
      BY <1>7, <1>9 DEF Await
    <2>3. "none" \in Answers
      BY DEF Answers
    <2>4. /\ AwaitsNext(t, k, name, at, "none")
          /\ MayAwait(t, k, name, at, "none")
          /\ FitsAfter(t, k, name, at, "none")
      BY <1>1, <1>4, <1>5, <1>6, <1>8, <1>9, <2>1, <2>2, <2>3
         DEF AwaitsNext, MayAwait, FitsAfter
    <2> QED
      BY <2>1, <2>3, <2>4, AwaitStep
  <1> QED
    BY <1>4, <1>9 DEF Start

LEMMA BodyStep ==
  ASSUME QInv, NEW t \in Tasks, Body(t)
  PROVE  QInv'
  <1>1. /\ UNCHANGED <<file, lock, queue, writer, call, answer, seen>>
        /\ pc[t] \in {"begin", "body"} /\ reply[t] = "ok"
    BY DEF Body, Waits
  <1>2. TaskOK(t)
    BY DEF QInv
  <1>3. pc[t] \in Busy /\ pc[t] # "discard" /\ pc[t] # "done"
    BY <1>1 DEF Busy
  <1>4. PICK k \in Conns : on[t] = k
    BY <1>3, BusyFacts
  <1>5. Queued(t) /\ Holds(t) /\ writer[Home[t]] = k /\ conn[k].jobs = <<>>
    BY <1>1, <1>3, <1>4, BusyFacts
  <1>6. /\ call[t] = "write" /\ answer[t] = "none" /\ t \notin file.landed
        /\ conn[k].tx
        /\ pc[t] = "body" => t \in conn[k].writes
    BY <1>1, <1>2, <1>4 DEF TaskOK, TaskCalls, TaskLands, TaskWaits, Busy
  <1>7. Orphaned(t) = conn
    BY <1>3, <1>4, <1>5, NothingToOrphan
  <1>8. \A i \in DOMAIN conn[k].jobs : FALSE
    BY <1>5
  <1>9. "none" \in Answers
    BY DEF Answers
  <1>10. CASE Waits(t, "begin") /\ Await(t, on[t], "WRITE", "body")
    <2>1. /\ conn' = [Orphaned(t) EXCEPT ![k].jobs = Append(@, Job(t, "WRITE"))]
          /\ pc' = [pc EXCEPT ![t] = "body"]
          /\ reply' = [reply EXCEPT ![t] = "none"]
          /\ on' = [on EXCEPT ![t] = k]
      BY <1>4, <1>7, <1>10 DEF Await
    <2>2. ~Carries(k, t)
      BY <1>3, <1>4, <1>10, OwnWrites DEF Waits
    <2>3. "WRITE" \in Names \ {"INSERT"} /\ "body" \in Busy /\ "WRITE" \in Expected("body")
      BY DEF Names, Busy, Expected
    <2>4. /\ AwaitsNext(t, k, "WRITE", "body", "none")
          /\ MayAwait(t, k, "WRITE", "body", "none")
          /\ FitsAfter(t, k, "WRITE", "body", "none")
      BY <1>1, <1>3, <1>4, <1>5, <1>6, <1>8, <1>9, <2>1, <2>2, <2>3
         DEF AwaitsNext, MayAwait, FitsAfter
    <2> QED
      BY <1>9, <2>3, <2>4, AwaitStep
  <1>11. CASE Waits(t, "body") /\ Await(t, on[t], "COMMIT", "commit")
    <2>1. /\ conn' = [Orphaned(t) EXCEPT ![k].jobs = Append(@, Job(t, "COMMIT"))]
          /\ pc' = [pc EXCEPT ![t] = "commit"]
          /\ reply' = [reply EXCEPT ![t] = "none"]
          /\ on' = [on EXCEPT ![t] = k]
      BY <1>4, <1>7, <1>11 DEF Await
    <2>2. "COMMIT" \in Names \ {"INSERT"} /\ "commit" \in Busy /\ "COMMIT" \in Expected("commit")
      BY DEF Names, Busy, Expected
    <2>3. /\ AwaitsNext(t, k, "COMMIT", "commit", "none")
          /\ MayAwait(t, k, "COMMIT", "commit", "none")
          /\ FitsAfter(t, k, "COMMIT", "commit", "none")
      BY <1>1, <1>3, <1>4, <1>5, <1>6, <1>8, <1>9, <1>11, <2>1, <2>2
         DEF AwaitsNext, MayAwait, FitsAfter, Waits
    <2> QED
      BY <1>9, <2>2, <2>3, AwaitStep
  <1> QED
    BY <1>10, <1>11 DEF Body

LEMMA BodyRaisedStep ==
  ASSUME QInv, NEW t \in Tasks, BodyRaised(t)
  PROVE  QInv'
  <1>1. PICK how \in {"failed", "cancelled"} :
          Raised(t, "body", how) /\ answer' = [answer EXCEPT ![t] = how]
    BY DEF BodyRaised
  <1>2. pc[t] = "body" /\ pc[t] \in Busy /\ pc[t] # "discard" /\ pc[t] # "done"
    BY <1>1, RaisedFacts DEF Busy
  <1>3. TaskOK(t)
    BY DEF QInv
  <1>4. PICK k \in Conns : on[t] = k
    BY <1>2, BusyFacts
  <1>5. Queued(t) /\ Holds(t) /\ writer[Home[t]] = k
    BY <1>2, <1>4, BusyFacts
  <1>6. call[t] = "write" /\ t \notin file.landed
    BY <1>2, <1>3 DEF TaskOK, TaskCalls, TaskLands
  <1>7. /\ conn' = [Orphaned(t) EXCEPT ![k].jobs = Append(@, Job(t, "ROLLBACK"))]
        /\ pc' = [pc EXCEPT ![t] = "rollback"]
        /\ reply' = [reply EXCEPT ![t] = "none"]
        /\ UNCHANGED <<file, lock, queue, writer, call, on, seen>>
    BY <1>4 DEF BodyRaised
  <1>8. /\ "ROLLBACK" \in Names \ {"INSERT"} /\ "rollback" \in Busy
        /\ "ROLLBACK" \in Expected("rollback") /\ how \in Answers
    BY DEF Names, Busy, Expected, Answers
  <1>9. \A i \in DOMAIN conn[k].jobs : conn[k].jobs[i].task = t =>
           conn[k].jobs[i].name \notin Migrating /\ conn[k].jobs[i].name # "COMMIT"
    BY <1>2, <1>4, OwnJobs
  <1>10. /\ AwaitsNext(t, k, "ROLLBACK", "rollback", how)
         /\ MayAwait(t, k, "ROLLBACK", "rollback", how)
         /\ FitsAfter(t, k, "ROLLBACK", "rollback", how)
    BY <1>1, <1>2, <1>4, <1>5, <1>6, <1>7, <1>8, <1>9 DEF AwaitsNext, MayAwait, FitsAfter
  <1> QED
    BY <1>8, <1>10, AwaitStep

LEMMA CommittedStep ==
  ASSUME QInv, NEW t \in Tasks, Committed(t)
  PROVE  QInv'
  <1>1. /\ pc[t] = "commit" /\ reply[t] = "ok" /\ Leave(t, "ok")
        /\ UNCHANGED <<file, lock, conn, writer, call, seen>>
    BY DEF Committed, Waits
  <1>2. pc[t] \in Busy /\ pc[t] # "done" /\ "ok" \in Answers
    BY <1>1 DEF Busy, Answers
  <1>3. TaskOK(t)
    BY DEF QInv
  <1>4. on[t] \in Conns /\ conn[on[t]].jobs = <<>>
    BY <1>1, <1>2, BusyFacts
  <1>5. ~conn[on[t]].tx /\ call[t] = "write" /\ t \in file.landed
    BY <1>1, <1>2, <1>3 DEF TaskOK, TaskWaits, TaskCalls, TaskLands
  <1>6. Orphaned(t) = conn
    BY <1>2, <1>4, NothingToOrphan
  <1>7. ~Carries(on[t], t)
    BY <1>2, <1>5, OwnWrites
  <1>8. \A i \in DOMAIN conn[on[t]].jobs : FALSE
    BY <1>4
  <1> QED
    BY <1>1, <1>2, <1>5, <1>6, <1>7, <1>8, LeaveBusy

LEMMA UnwindStep ==
  ASSUME QInv, NEW t \in Tasks, Unwind(t)
  PROVE  QInv'
  <1>1. PICK at \in {"begin", "commit", "rollback"}, how \in Failures :
          /\ \/ Raised(t, at, how)
             \/ at = "rollback" /\ Waits(t, at) /\ how = answer[t] /\ UNCHANGED cancels
          /\ IF conn[on[t]].tx
             THEN /\ writer' = [writer EXCEPT ![Home[t]] = None]
                  /\ conn' = [Orphaned(t) EXCEPT ![on[t]].jobs = Append(@, Job(t, "CLOSE"))]
                  /\ pc' = [pc EXCEPT ![t] = "discard"]
                  /\ answer' = [answer EXCEPT ![t] = how]
                  /\ reply' = [reply EXCEPT ![t] = "none"]
                  /\ UNCHANGED <<queue, on>>
             ELSE /\ conn' = Orphaned(t)
                  /\ Leave(t, how)
                  /\ UNCHANGED writer
          /\ UNCHANGED <<file, lock, call, seen, faults>>
    BY DEF Unwind
  <1>2. pc[t] = at /\ at \in Busy /\ pc[t] # "discard" /\ pc[t] # "done" /\ how \in Answers
        /\ how # "ok"
    BY <1>1, RaisedFacts DEF Busy, Waits, Failures, Answers
  <1>3. at = "commit" => how = "inDoubt" \/ (how = "failed" /\ reply[t] = "error")
    BY <1>1, <1>2, RaisedFacts
  <1>4. TaskOK(t)
    BY DEF QInv
  <1>5. PICK k \in Conns : on[t] = k
    BY <1>2, BusyFacts
  <1>6. /\ Queued(t) /\ Holds(t) /\ writer[Home[t]] = k
        /\ reply[t] # "none" => conn[k].jobs = <<>>
    BY <1>2, <1>5, BusyFacts
  <1>7. call[t] = "write" /\ (t \in file.landed => at = "commit" /\ reply[t] = "ok")
    BY <1>2, <1>4 DEF TaskOK, TaskCalls, TaskLands
  <1>8. t \in file.landed => how = "inDoubt"
    BY <1>3, <1>7
  <1>9. \A i \in DOMAIN conn[k].jobs : conn[k].jobs[i].task = t =>
           /\ conn[k].jobs[i].name \notin Migrating
           /\ conn[k].jobs[i].name = "COMMIT" => how = "inDoubt"
    <2> SUFFICES ASSUME NEW i \in DOMAIN conn[k].jobs, conn[k].jobs[i].task = t
                 PROVE  /\ conn[k].jobs[i].name \notin Migrating
                        /\ conn[k].jobs[i].name = "COMMIT" => how = "inDoubt"
      OBVIOUS
    <2>1. /\ conn[k].jobs[i].name \in Migrating => pc[t] = "migrate"
          /\ conn[k].jobs[i].name = "COMMIT" => pc[t] \in {"commit", "discard"}
      BY <1>2, <1>5, OwnJobs
    <2>2. conn[k].jobs # <<>>
      OBVIOUS
    <2> QED
      BY <1>1, <1>2, <1>3, <1>6, <2>1, <2>2
  <1>10. CASE conn[k].tx
    <2>1. /\ writer' = [writer EXCEPT ![Home[t]] = None]
          /\ conn' = [Orphaned(t) EXCEPT ![k].jobs = Append(@, Job(t, "CLOSE"))]
          /\ pc' = [pc EXCEPT ![t] = "discard"]
          /\ answer' = [answer EXCEPT ![t] = how]
          /\ reply' = [reply EXCEPT ![t] = "none"]
          /\ UNCHANGED <<queue, on, file, lock, call, seen>>
      BY <1>1, <1>5, <1>10
    <2>2. "CLOSE" \in Names \ {"INSERT"} /\ "discard" \in Busy /\ "CLOSE" \in Expected("discard")
      BY DEF Names, Busy, Expected
    <2>3. AwaitsNext(t, k, "CLOSE", "discard", how)
      BY <1>5, <2>1 DEF AwaitsNext
    <2>4. MayAwait(t, k, "CLOSE", "discard", how)
      BY <1>2, <1>5, <1>6, <1>7 DEF MayAwait
    <2>5. FitsAfter(t, k, "CLOSE", "discard", how)
      BY <1>8, <1>9 DEF FitsAfter
    <2> QED
      BY <1>2, <2>2, <2>3, <2>4, <2>5, AwaitStep
  <1>11. CASE ~conn[k].tx
    <2>1. conn' = Orphaned(t) /\ Leave(t, how) /\ UNCHANGED <<writer, file, lock, call, seen>>
      BY <1>1, <1>5, <1>11
    <2>2. ~Carries(on[t], t)
      BY <1>2, <1>5, <1>11, OwnWrites
    <2> QED
      BY <1>2, <1>5, <1>7, <1>8, <1>9, <2>1, <2>2, LeaveBusy
  <1> QED
    BY <1>10, <1>11

LEMMA CloseWriterStep ==
  ASSUME QInv, NEW t \in Tasks, CloseWriter(t)
  PROVE  QInv'
  <1> USE SqliteAssumption
  <1>1. /\ pc[t] = "queued" /\ Holds(t) /\ call[t] = "close"
        /\ UNCHANGED <<file, lock, call, seen>>
    BY DEF CloseWriter
  <1>2. TaskOK(t) /\ Typed /\ Home[t] \in Processes
    BY DEF QInv
  <1>3. CASE writer[Home[t]] = None
    <2>1. Leave(t, "ok") /\ UNCHANGED <<conn, writer>> /\ "ok" \in Answers
      BY <1>3 DEF CloseWriter, Answers
    <2> QED
      BY <1>1, <2>1, LeaveQueued
  <1>4. CASE writer[Home[t]] # None
    <2>1. PICK k \in Conns : writer[Home[t]] = k
      BY <1>2, <1>4 DEF Typed, FileTyped
    <2>2. Queued(t) /\ t \notin file.landed
      BY <1>1, <1>2 DEF TaskOK, TaskQueued, TaskLands, Queued
    <2>3. pc[t] # "done" /\ pc[t] \notin Busy
      BY <1>1 DEF Busy
    <2>4. ~Mentions(k, t) /\ Orphaned(t) = conn
      BY <2>3, OrphanedElsewhere, NothingToOrphan
    <2>5. /\ \A i \in DOMAIN conn[k].jobs : conn[k].jobs[i].task # t
          /\ ~Carries(k, t)
      BY <2>4 DEF Mentions, Carries
    <2>6. /\ writer' = [writer EXCEPT ![Home[t]] = None]
          /\ conn' = [Orphaned(t) EXCEPT ![k].jobs = Append(@, Job(t, "CLOSE"))]
          /\ pc' = [pc EXCEPT ![t] = "discard"]
          /\ answer' = [answer EXCEPT ![t] = "ok"]
          /\ reply' = [reply EXCEPT ![t] = "none"]
          /\ on' = [on EXCEPT ![t] = k]
          /\ UNCHANGED queue
      BY <1>4, <2>1, <2>4 DEF CloseWriter, Await
    <2>7. /\ "CLOSE" \in Names \ {"INSERT"} /\ "discard" \in Busy /\ "CLOSE" \in Expected("discard")
          /\ "ok" \in Answers
      BY DEF Names, Busy, Expected, Answers
    <2>8. /\ AwaitsNext(t, k, "CLOSE", "discard", "ok")
          /\ MayAwait(t, k, "CLOSE", "discard", "ok")
          /\ FitsAfter(t, k, "CLOSE", "discard", "ok")
      BY <1>1, <2>1, <2>2, <2>3, <2>5, <2>6, <2>7 DEF AwaitsNext, MayAwait, FitsAfter
    <2> QED
      BY <2>7, <2>8, AwaitStep
  <1> QED
    BY <1>3, <1>4

LEMMA DiscardedStep ==
  ASSUME QInv, NEW t \in Tasks, Discarded(t)
  PROVE  QInv'
  <1>1. /\ conn' = Orphaned(t) /\ UNCHANGED <<file, lock, writer, call, seen>>
        /\ pc[t] = "discard"
    BY DEF Discarded, Waits, Cancelled
  <1>2. PICK how : /\ Leave(t, how)
                   /\ \/ reply[t] = "ok" /\ how = answer[t]
                      \/ how = IF answer[t] = "inDoubt" THEN "inDoubt" ELSE "cancelled"
    BY DEF Discarded, Waits
  <1>3. TaskOK(t) /\ pc[t] \in Busy
    BY <1>1 DEF QInv, Busy
  <1>4. /\ \/ call[t] = "write" /\ answer[t] \in Failures
           \/ call[t] = "close" /\ answer[t] = "ok"
        /\ t \in file.landed => answer[t] = "inDoubt"
    BY <1>1, <1>3 DEF TaskOK, TaskCalls, TaskLands
  <1>5. /\ how \in Answers
        /\ t \in file.landed => how \in {"ok", "inDoubt"}
        /\ call[t] = "write" => how # "ok"
        /\ call[t] # "migrate"
        /\ answer[t] = "inDoubt" => how = "inDoubt"
    BY <1>2, <1>4 DEF Failures, Answers
  <1>6. Carries(on[t], t) => ~Written(on[t])
    BY <1>1, <1>3, OwnWrites
  <1>7. \A i \in DOMAIN conn[on[t]].jobs :
          conn[on[t]].jobs[i].task = t /\ conn[on[t]].jobs[i].name = "COMMIT" => how = "inDoubt"
    BY <1>1, <1>3, <1>5, OwnJobs
  <1> QED
    BY <1>1, <1>2, <1>3, <1>5, <1>6, <1>7, LeaveBusy

LEMMA NextScriptStep ==
  ASSUME QInv, NEW t \in Tasks, NextScript(t)
  PROVE  QInv'
  <1>1. /\ pc[t] = "migrate" /\ reply[t] = "ok"
        /\ UNCHANGED <<file, lock, writer, call, seen>>
    BY DEF NextScript, Waits
  <1>2. pc[t] \in Busy /\ pc[t] # "discard" /\ pc[t] # "done" /\ "ok" \in Answers
        /\ "none" \in Answers
    BY <1>1 DEF Busy, Answers
  <1>3. TaskOK(t) /\ Typed
    BY DEF QInv
  <1>4. PICK k \in Conns : on[t] = k
    BY <1>2, BusyFacts
  <1>5. Queued(t) /\ Holds(t) /\ writer[Home[t]] = k /\ conn[k].jobs = <<>>
    BY <1>1, <1>2, <1>4, BusyFacts
  <1>6. call[t] = "migrate" /\ answer[t] = "none" /\ t \notin file.landed
        /\ seen[t] <= file.version
    BY <1>1, <1>3 DEF TaskOK, TaskCalls, TaskLands
  <1>7. Orphaned(t) = conn
    BY <1>2, <1>4, <1>5, NothingToOrphan
  <1>8. ~Carries(k, t)
    BY <1>1, <1>2, <1>4, OwnWrites
  <1>9. \A i \in DOMAIN conn[k].jobs : FALSE
    BY <1>5
  <1>10. seen[t] \in 0..LastVersion /\ file.version \in 0..LastVersion
    BY <1>3 DEF Typed, FileTyped
  <1>11. CASE seen[t] = LastVersion
    <2>1. Leave(t, "ok") /\ conn' = Orphaned(t)
      BY <1>7, <1>11 DEF NextScript
    <2>2. file.version = LastVersion
      BY <1>6, <1>10, <1>11 DEF LastVersion
    <2> QED
      BY <1>1, <1>2, <1>4, <1>6, <1>8, <1>9, <2>1, <2>2, LeaveBusy
  <1>12. CASE seen[t] # LastVersion
    <2>1. /\ conn' = [Orphaned(t) EXCEPT ![k].jobs = Append(@, Job(t, "SCRIPT"))]
          /\ pc' = [pc EXCEPT ![t] = "migrate"]
          /\ reply' = [reply EXCEPT ![t] = "none"]
          /\ on' = [on EXCEPT ![t] = k]
          /\ UNCHANGED <<queue, answer>>
      BY <1>4, <1>7, <1>12 DEF NextScript, Await
    <2>2. "SCRIPT" \in Names \ {"INSERT"} /\ "migrate" \in Busy /\ "SCRIPT" \in Expected("migrate")
      BY DEF Names, Busy, Expected, Migrating
    <2>3. seen[t] < LastVersion
      BY <1>10, <1>12 DEF LastVersion
    <2>4. /\ AwaitsNext(t, k, "SCRIPT", "migrate", "none")
          /\ MayAwait(t, k, "SCRIPT", "migrate", "none")
          /\ FitsAfter(t, k, "SCRIPT", "migrate", "none")
      BY <1>1, <1>2, <1>4, <1>5, <1>6, <1>8, <1>9, <2>1, <2>2, <2>3
         DEF AwaitsNext, MayAwait, FitsAfter
    <2> QED
      BY <1>2, <2>2, <2>4, AwaitStep
  <1> QED
    BY <1>11, <1>12

LEMMA MigrateRaisedStep ==
  ASSUME QInv, NEW t \in Tasks, MigrateRaised(t)
  PROVE  QInv'
  <1>1. PICK how \in Failures : Raised(t, "migrate", how) /\ Leave(t, how)
    BY DEF MigrateRaised
  <1>2. /\ pc[t] = "migrate" /\ pc[t] \in Busy /\ how \in Answers /\ how # "ok"
        /\ conn' = Orphaned(t) /\ UNCHANGED <<file, lock, writer, call, seen>>
    BY <1>1, RaisedFacts DEF MigrateRaised, Busy, Failures, Answers
  <1>3. t \notin file.landed
    BY <1>2 DEF QInv, TaskOK, TaskLands
  <1>4. ~Carries(on[t], t)
    BY <1>2, OwnWrites
  <1>5. \A i \in DOMAIN conn[on[t]].jobs :
          conn[on[t]].jobs[i].task = t => conn[on[t]].jobs[i].name # "COMMIT"
    BY <1>2, OwnJobs
  <1> QED
    BY <1>1, <1>2, <1>3, <1>4, <1>5, LeaveBusy

(* Of the connections that are not open yet one has the least number.      *)
LEMMA LeastNew ==
  ASSUME NEW T \in SUBSET Nat, T # {}
  PROVE  \E k \in T : \A j \in T : k <= j
  <1>1. IsWellFoundedOn(OpToRel(<, Nat), Nat)
    BY NatLessThanWellFounded
  <1>2. PICK k \in T : \A j \in T : <<j, k>> \notin OpToRel(<, Nat)
    BY <1>1, WFMin
  <1>3. \A j \in T : ~(j < k)
    BY <1>2 DEF OpToRel
  <1> QED
    BY <1>3

LEMMA OpenWriterStep ==
  ASSUME QInv, NEW t \in Tasks, OpenWriter(t)
  PROVE  QInv'
  <1> USE SqliteAssumption
  <1> DEFINE p == Home[t]
  <1>1. PICK k \in Conns :
          /\ conn[k].state = "new"
          /\ conn' = [conn EXCEPT ![k].home = p, ![k].state = "open"]
          /\ writer' = [writer EXCEPT ![p] = k]
    <2> DEFINE new == {j \in Conns : conn[j].state = "new"}
               first == CHOOSE j \in Conns : conn[j].state = "new" /\
                          \A l \in Conns : conn[l].state = "new" => j <= l
    <2>1. new \in SUBSET Nat /\ new # {}
      BY DEF OpenWriter
    <2>2. \E j \in new : \A l \in new : j <= l
      BY <2>1, LeastNew
    <2>3. first \in Conns /\ conn[first].state = "new"
      BY <2>2
    <2> HIDE DEF new
    <2> QED
      BY <2>3 DEF OpenWriter
  <1>2. /\ pc[t] = "queued" /\ Holds(t) /\ writer[p] = None /\ p \in Processes
        /\ UNCHANGED <<file, lock, queue, pc, call, on, reply, answer, seen>>
    BY DEF OpenWriter
  <1>3. Typed /\ conn[k] \in Connection /\ ConnOK(k)
    BY ConnJobs DEF QInv
  <1>4. conn[k].jobs = <<>> /\ ~conn[k].tx /\ conn[k].writes = {} /\ lock # k
        /\ conn[k].home = None
    BY <1>1, <1>3 DEF ConnOK, ConnHeld
  <1>5. /\ conn'[k] = [conn[k] EXCEPT !.home = p, !.state = "open"]
        /\ \A l \in Conns \ {k} : conn'[l] = conn[l]
    BY <1>1, <1>3 DEF Typed, ConnsTyped
  <1>6. /\ conn'[k] \in Connection
        /\ conn'[k].home = p /\ conn'[k].state = "open" /\ conn'[k].jobs = <<>>
        /\ ~conn'[k].tx /\ conn'[k].writes = {}
    BY <1>2, <1>3, <1>4, <1>5 DEF Connection
  <1>7. /\ writer'[p] = k /\ \A q \in Processes \ {p} : writer'[q] = writer[q]
        /\ \A q \in Processes : writer[q] # k
    BY <1>1, <1>2, <1>3 DEF Typed, FileTyped, ConnOK, ConnHeld
  <1>8. Typed'
    <2>1. conn' \in [Conns -> Connection]
      BY <1>1, <1>3, <1>5, <1>6 DEF Typed, ConnsTyped
    <2> QED
      BY <1>1, <1>2, <1>3, <2>1 DEF Typed, TasksTyped, FileTyped, ConnsTyped
  <1>9. ASSUME NEW u \in Tasks
        PROVE  TaskOK(u)'
    <2>1. TaskOK(u)
      BY DEF QInv
    <2>2. pc[u] \in Busy => Home[u] # p
      BY <1>2, <2>1 DEF TaskOK, TaskQueued, Holds, Busy
    <2>3. pc[u] \in Busy => writer'[Home[u]] = writer[Home[u]]
      BY <1>7, <2>2
    <2>4. pc[u] \in Busy => on[u] \in Conns /\ on[u] # k
      <3>1. pc[u] \in Busy => on[u] \in Conns /\ conn[on[u]].home = Home[u]
        BY <2>1 DEF TaskOK, TaskWaits
      <3>2. Home[u] # None
        OBVIOUS
      <3> QED
        BY <1>4, <3>1, <3>2
    <2>5. TaskQueued(u)'
      BY <1>2, <2>1, <2>3 DEF TaskOK, TaskQueued, Holds, Busy
    <2>6. TaskCalls(u)' /\ TaskLands(u)'
      BY <1>2, <2>1 DEF TaskOK, TaskCalls, TaskLands
    <2>7. TaskWaits(u)'
      BY <1>2, <1>5, <2>1, <2>4 DEF TaskOK, TaskWaits
    <2> QED
      BY <2>5, <2>6, <2>7 DEF TaskOK
  <1>10. \A l \in Conns, u \in Tasks : Mentions(l, u)' => Mentions(l, u) /\ l # k
    <2>1. \A u \in Tasks : ~Mentions(k, u)'
      BY <1>6 DEF Mentions
    <2> QED
      BY <1>5, <2>1 DEF Mentions
  <1>11. ASSUME NEW l \in Conns \ {k}
         PROVE  ConnOK(l)'
    <2>1. ConnOK(l) /\ conn'[l] = conn[l]
      BY <1>5 DEF QInv
    <2>2. /\ \A q \in Processes : writer'[q] = l => writer[q] = l
          /\ Written(l)' => Written(l)
      BY <1>7 DEF Written
    <2>3. ConnHeld(l)'
      BY <1>2, <2>1, <2>2 DEF ConnOK, ConnHeld
    <2>4. JobsAwaited(l)' /\ JobsMigrate(l)'
      BY <1>2, <2>1 DEF ConnOK, JobsAwaited, JobsMigrate
    <2>5. JobsPlaced(l)'
      BY <1>2, <2>1, <2>2 DEF ConnOK, JobsPlaced
    <2>6. ConnWrites(l)'
      BY <1>2, <2>1, <2>2 DEF ConnOK, ConnWrites, Carries
    <2>7. ConnMentions(l)'
      BY <1>2, <1>10, <2>1 DEF ConnOK, ConnMentions
    <2> QED
      BY <2>3, <2>4, <2>5, <2>6, <2>7 DEF ConnOK
  <1>12. ConnOK(k)'
    <2>1. \A i \in DOMAIN conn'[k].jobs : FALSE
      BY <1>6
    <2>2. ConnHeld(k)'
      BY <1>2, <1>4, <1>6, <1>7 DEF ConnHeld
    <2>3. JobsAwaited(k)' /\ JobsPlaced(k)' /\ JobsMigrate(k)'
      BY <2>1 DEF JobsAwaited, JobsPlaced, JobsMigrate
    <2>4. ConnWrites(k)' /\ ConnMentions(k)'
      BY <1>6, <2>1 DEF ConnWrites, ConnMentions, Carries, Mentions
    <2> QED
      BY <2>2, <2>3, <2>4 DEF ConnOK
  <1>13. OneInsert'
    <2>1. \A l \in Conns : Inserts(l)' => Inserts(l)
      <3>1. ~Inserts(k)'
        BY <1>6 DEF Inserts
      <3> QED
        BY <1>5, <3>1 DEF Inserts
    <2> QED
      BY <2>1 DEF QInv, OneInsert
  <1> QED
    BY <1>8, <1>9, <1>11, <1>12, <1>13 DEF QInv

(* Whatever a task does preserves the invariant.                           *)
LEMMA TaskInvariant ==
  ASSUME QInv, NEW t \in Tasks, Enqueue(t) \/ Resume(t) \/ OpenFails(t) \/ CancelQueued(t)
  PROVE  QInv'
  <1>1. CASE OpenFails(t)
    BY <1>1, LeaveQueued DEF OpenFails, Answers
  <1>2. CASE CancelQueued(t)
    BY <1>2, LeaveQueued DEF CancelQueued, Cancelled, Answers
  <1> QED
    BY <1>1, <1>2, EnqueueStep, OpenWriterStep, StartStep, BodyStep, CommittedStep,
       BodyRaisedStep, UnwindStep, CloseWriterStep, DiscardedStep, NextScriptStep,
       MigrateRaisedStep
       DEF Resume

--------------------------------------------------------------------------------
(* A connection runs its first statement.                                  *)

First(k) == Head(conn[k].jobs)
Rest(k) == Tail(conn[k].jobs)

LEMMA HeadFacts ==
  ASSUME QInv, NEW k \in Conns, conn[k].jobs # <<>>
  PROVE  /\ 1 \in DOMAIN conn[k].jobs /\ First(k) = conn[k].jobs[1]
         /\ First(k) \in Jobs /\ First(k).task \in Tasks
         /\ conn[k].state = "open"
         /\ First(k).awaited =>
              /\ Rest(k) = <<>> /\ pc[First(k).task] \in Busy /\ on[First(k).task] = k
              /\ reply[First(k).task] = "none"
              /\ First(k).name \in Expected(pc[First(k).task])
         /\ Rest(k) \in Seq(Jobs)
         /\ \A i \in DOMAIN Rest(k) : /\ i \in Nat \ {0}
                                      /\ i + 1 \in DOMAIN conn[k].jobs
                                      /\ Rest(k)[i] = conn[k].jobs[i + 1]
                                      /\ i + 1 = Len(conn[k].jobs) => i = Len(Rest(k))
         /\ Rest(k) # <<>> => /\ Len(Rest(k)) \in DOMAIN Rest(k)
                              /\ Rest(k)[Len(Rest(k))] = conn[k].jobs[Len(conn[k].jobs)]
         /\ Rest(k) = <<>> <=> Len(conn[k].jobs) = 1
  <1> DEFINE jobs == conn[k].jobs
  <1>1. jobs \in Seq(Jobs) /\ jobs # <<>> /\ DOMAIN jobs = 1..Len(jobs) /\ Len(jobs) \in Nat
        /\ \A i \in DOMAIN jobs : jobs[i] \in Jobs /\ jobs[i].task \in Tasks
    BY ConnJobs
  <1>2. ConnHeld(k) /\ JobsAwaited(k)
    BY DEF QInv, ConnOK
  <1>3. conn[k].state = "open"
    BY <1>2 DEF ConnHeld
  <1>4. /\ Rest(k) \in Seq(Jobs) /\ Len(Rest(k)) = Len(jobs) - 1
        /\ \A i \in 1..Len(Rest(k)) : Rest(k)[i] = jobs[i + 1]
    <2>1. jobs \in Seq(Jobs) /\ jobs # <<>> /\ Rest(k) = Tail(jobs)
      BY <1>1 DEF Rest
    <2> HIDE DEF jobs
    <2> QED
      BY <2>1, HeadTailProperties
  <1>5. First(k) = jobs[1] /\ 1 \in DOMAIN jobs
    <2>1. First(k) = Head(jobs)
      BY DEF First
    <2> HIDE DEF jobs
    <2>2. Head(jobs) = jobs[1] /\ 1 \in 1..Len(jobs)
      BY <1>1
    <2> QED
      BY <1>1, <2>1, <2>2
  <1>6. First(k) \in Jobs /\ First(k).task \in Tasks
    BY <1>1, <1>5
  <1>7. First(k).awaited =>
          /\ 1 = Len(jobs) /\ pc[First(k).task] \in Busy /\ on[First(k).task] = k
          /\ reply[First(k).task] = "none"
          /\ First(k).name \in Expected(pc[First(k).task])
    BY <1>2, <1>5 DEF JobsAwaited
  <1> HIDE DEF jobs
  <1>8. DOMAIN Rest(k) = 1..Len(Rest(k)) /\ Len(Rest(k)) \in Nat
    BY <1>4
  <1>9. Len(jobs) = 1 <=> Rest(k) = <<>>
    BY <1>1, <1>4
  <1>10. \A i \in DOMAIN Rest(k) : /\ i \in Nat \ {0} /\ i + 1 \in DOMAIN jobs
                                   /\ Rest(k)[i] = jobs[i + 1]
                                   /\ i + 1 = Len(jobs) => i = Len(Rest(k))
    BY <1>1, <1>4, <1>8
  <1>11. ASSUME Rest(k) # <<>>
         PROVE  /\ Len(Rest(k)) \in DOMAIN Rest(k)
                /\ Rest(k)[Len(Rest(k))] = jobs[Len(jobs)]
    <2>1. Len(Rest(k)) # 0
      BY <1>4, <1>11
    <2>2. Len(Rest(k)) \in 1..Len(Rest(k)) /\ Len(Rest(k)) + 1 = Len(jobs)
      BY <1>1, <1>4, <1>8, <2>1
    <2> QED
      BY <1>4, <1>8, <2>2
  <1> QED
    BY <1>3, <1>4, <1>5, <1>6, <1>7, <1>9, <1>10, <1>11 DEF jobs

(* Connection k has run its first statement, and its task, if it waits,    *)
(* gets the result.                                                        *)
Runs(k, result) ==
  LET job == First(k)
  IN  /\ UNCHANGED <<queue, writer, pc, call, on, answer>>
      /\ result \in {"ok", "error"}
      /\ \A u \in Tasks :
           reply'[u] = IF job.awaited /\ u = job.task THEN result ELSE reply[u]
      /\ \A l \in Conns \ {k} : conn'[l] = conn[l]
      /\ conn'[k].home = conn[k].home /\ conn'[k].jobs = Rest(k)
      /\ \/ conn'[k].state = conn[k].state
         \/ job.name = "CLOSE" /\ conn'[k].state = "closed" /\ ~conn'[k].tx
      /\ lock' \in {lock, k, None}
      /\ ~conn'[k].tx => conn'[k].writes = {} /\ lock' # k
      /\ \A u \in conn'[k].writes : Carries(k, u)
      /\ result = "ok" =>
           /\ job.name \in {"BEGIN", "WRITE"} => conn'[k].tx
           /\ job.name = "WRITE" => job.task \in conn'[k].writes
           /\ job.name \in {"COMMIT", "ROLLBACK"} => ~conn'[k].tx
      /\ \A u \in Tasks : seen'[u] = seen[u] \/ (u = job.task /\ job.name \in Migrating)
      /\ \A l \in Conns \ {k} :
           Inserts(l) => file'.half = file.half /\ file'.version = file.version

LEMMA RunsTasks ==
  ASSUME QInv, NEW k \in Conns, conn[k].jobs # <<>>, NEW result, Runs(k, result),
         NEW u \in Tasks
  PROVE  TaskQueued(u)' /\ TaskCalls(u)' /\ TaskWaits(u)'
  <1> DEFINE jobs == conn[k].jobs
  <1>1. PICK job : job = First(k)
    OBVIOUS
  <1>2. PICK rest : rest = Rest(k)
    OBVIOUS
  <1>3. TaskOK(u)
    BY DEF QInv
  <1>4. /\ job.awaited => /\ rest = <<>> /\ pc[job.task] \in Busy /\ on[job.task] = k
                          /\ reply[job.task] = "none" /\ job.name \in Expected(pc[job.task])
        /\ rest # <<>> => /\ Len(rest) \in DOMAIN rest
                          /\ rest[Len(rest)] = jobs[Len(jobs)]
        /\ 1 \in DOMAIN jobs /\ job = jobs[1]
    BY <1>1, <1>2, HeadFacts
  <1>5. /\ UNCHANGED <<queue, writer, pc, call, on, answer>>
        /\ result \in {"ok", "error"}
        /\ reply'[u] = IF job.awaited /\ u = job.task THEN result ELSE reply[u]
        /\ \A l \in Conns \ {k} : conn'[l] = conn[l]
        /\ conn'[k].home = conn[k].home /\ conn'[k].jobs = rest
        /\ result = "ok" =>
             /\ job.name \in {"BEGIN", "WRITE"} => conn'[k].tx
             /\ job.name = "WRITE" => job.task \in conn'[k].writes
             /\ job.name \in {"COMMIT", "ROLLBACK"} => ~conn'[k].tx
    BY <1>1, <1>2 DEF Runs
  <1>6. reply'[u] = reply[u] \/ (pc[u] \in Busy /\ on[u] = k)
    BY <1>4, <1>5
  <1>7. TaskQueued(u)'
    BY <1>3, <1>5, <1>6 DEF TaskOK, TaskQueued, Holds
  <1>8. TaskCalls(u)'
    BY <1>3, <1>5 DEF TaskOK, TaskCalls
  <1>9. TaskWaits(u)'
    <2>1. TaskWaits(u)
      BY <1>3 DEF TaskOK
    <2>2. CASE on[u] # k \/ pc[u] \notin Busy
      <3>1. reply'[u] = reply[u]
        BY <1>6, <2>2
      <3> QED
        BY <1>5, <2>1, <2>2, <3>1 DEF TaskWaits
    <2>3. CASE on[u] = k /\ pc[u] \in Busy
      <3>1. /\ conn[k].home = Home[u] /\ reply[u] = "none"
            /\ jobs[Len(jobs)].task = u /\ jobs[Len(jobs)].awaited
            /\ jobs[Len(jobs)].name \in Expected(pc[u])
        <4>1. reply[u] = "none"
          <5>1. reply[u] # "none" => jobs = <<>>
            BY <2>1, <2>3 DEF TaskWaits
          <5> QED
            BY <5>1
        <4> QED
          BY <2>1, <2>3, <4>1 DEF TaskWaits
      <3>2. CASE job.awaited
        <4>1. Len(jobs) = 1
          <5>1. JobsAwaited(k)
            BY DEF QInv, ConnOK
          <5> QED
            BY <1>4, <3>2, <5>1 DEF JobsAwaited
        <4>2. job.task = u /\ job.name \in Expected(pc[u])
          BY <1>4, <3>1, <4>1
        <4>3. reply'[u] = result /\ rest = <<>>
          BY <1>4, <1>5, <3>2, <4>2
        <4>4. /\ pc[u] = "begin" => job.name = "BEGIN"
              /\ pc[u] = "body" => job.name = "WRITE"
              /\ pc[u] = "commit" => job.name = "COMMIT"
              /\ pc[u] = "rollback" => job.name = "ROLLBACK"
          BY <4>2 DEF Expected
        <4> HIDE DEF jobs
        <4> QED
          BY <1>5, <2>3, <3>1, <4>2, <4>3, <4>4 DEF TaskWaits
      <3>3. CASE ~job.awaited
        <4>1. rest # <<>>
          <5> SUFFICES ASSUME rest = <<>> PROVE FALSE
            OBVIOUS
          <5>1. Len(jobs) = 1
            BY <1>2, HeadFacts
          <5> QED
            BY <1>4, <3>1, <3>3, <5>1
        <4>2. reply'[u] = "none"
          BY <1>5, <3>1, <3>3
        <4> HIDE DEF jobs
        <4> QED
          BY <1>4, <1>5, <2>3, <3>1, <4>1, <4>2 DEF TaskWaits
      <3> QED
        BY <3>2, <3>3
    <2> QED
      BY <2>2, <2>3
  <1> QED
    BY <1>7, <1>8, <1>9

LEMMA RunsOthers ==
  ASSUME QInv, NEW k \in Conns, conn[k].jobs # <<>>, NEW result, Runs(k, result),
         NEW l \in Conns, l # k
  PROVE  ConnOK(l)'
  <1>1. PICK job : job = First(k)
    OBVIOUS
  <1>2. /\ 1 \in DOMAIN conn[k].jobs /\ job = conn[k].jobs[1] /\ job.task \in Tasks
        /\ job.awaited => on[job.task] = k
    BY <1>1, HeadFacts
  <1>3. /\ ConnOK(l) /\ conn'[l] = conn[l] /\ UNCHANGED <<writer, pc, call, on, answer>>
        /\ lock' \in {lock, k, None}
        /\ Inserts(l) => file'.half = file.half /\ file'.version = file.version
    BY DEF QInv, Runs
  <1>4. Mentions(k, job.task)
    BY <1>2 DEF Mentions
  <1>5. \A u \in Tasks : Mentions(l, u) => u # job.task
    BY <1>2, <1>3, <1>4 DEF ConnOK, ConnMentions
  <1>6. \A u \in Tasks : u # job.task => reply'[u] = reply[u] /\ seen'[u] = seen[u]
    BY <1>1 DEF Runs
  <1>7. \A i \in DOMAIN conn[l].jobs :
          /\ conn[l].jobs[i].task \in Tasks
          /\ reply'[conn[l].jobs[i].task] = reply[conn[l].jobs[i].task]
          /\ seen'[conn[l].jobs[i].task] = seen[conn[l].jobs[i].task]
    <2> TAKE i \in DOMAIN conn[l].jobs
    <2>1. conn[l].jobs[i].task \in Tasks /\ Mentions(l, conn[l].jobs[i].task)
      BY ConnJobs DEF Mentions
    <2> QED
      BY <1>5, <1>6, <2>1
  <1>8. ConnHeld(l)'
    BY SqliteAssumption, <1>3 DEF ConnOK, ConnHeld
  <1>9. JobsAwaited(l)'
    BY <1>3, <1>7 DEF ConnOK, JobsAwaited
  <1>10. JobsPlaced(l)'
    BY <1>3 DEF ConnOK, JobsPlaced, Written
  <1>11. JobsMigrate(l)'
    BY <1>3, <1>7 DEF ConnOK, JobsMigrate, Inserts
  <1>12. ConnWrites(l)'
    BY <1>3 DEF ConnOK, ConnWrites, Carries, Written
  <1>13. ConnMentions(l)'
    <2>1. \A u \in Tasks : Mentions(k, u)' => Mentions(k, u)
      <3> TAKE u \in Tasks
      <3>1. \A i \in DOMAIN conn'[k].jobs :
              /\ i + 1 \in DOMAIN conn[k].jobs
              /\ conn'[k].jobs[i] = conn[k].jobs[i + 1]
        <4>1. PICK rest : rest = Rest(k)
          OBVIOUS
        <4>2. conn'[k].jobs = rest
          BY <4>1 DEF Runs
        <4> QED
          BY <1>1, <4>1, <4>2, HeadFacts
      <3>2. u \in conn'[k].writes => Carries(k, u)
        BY DEF Runs
      <3>3. Carries(k, u) => Mentions(k, u)
        BY DEF Carries, Mentions
      <3> QED
        BY <3>1, <3>2, <3>3 DEF Mentions
    <2>2. \A m \in Conns \ {k}, u \in Tasks : Mentions(m, u)' => Mentions(m, u)
      BY DEF Mentions, Runs
    <2> QED
      BY <1>3, <2>1, <2>2 DEF ConnOK, ConnMentions
  <1> QED
    BY <1>8, <1>9, <1>10, <1>11, <1>12, <1>13 DEF ConnOK

LEMMA RunsConn ==
  ASSUME QInv, NEW k \in Conns, conn[k].jobs # <<>>, NEW result, Runs(k, result)
  PROVE  ConnOK(k)' /\ OneInsert'
  <1> DEFINE was == conn[k].jobs
  <1>1. PICK job : job = First(k)
    OBVIOUS
  <1>2. PICK rest : rest = Rest(k)
    OBVIOUS
  <1>3. ConnOK(k)
    BY DEF QInv
  <1>4. /\ 1 \in DOMAIN was /\ job = was[1] /\ job.task \in Tasks
        /\ conn[k].state = "open"
        /\ job.awaited => rest = <<>>
        /\ \A i \in DOMAIN rest : /\ i \in Nat \ {0}
                                  /\ i + 1 \in DOMAIN was
                                  /\ rest[i] = was[i + 1]
                                  /\ i + 1 = Len(was) => i = Len(rest)
    BY <1>1, <1>2, HeadFacts
  <1>5. /\ UNCHANGED <<writer, pc, call, on, answer>>
        /\ conn'[k].home = conn[k].home /\ conn'[k].jobs = rest
        /\ \/ conn'[k].state = conn[k].state
           \/ job.name = "CLOSE" /\ conn'[k].state = "closed" /\ ~conn'[k].tx
        /\ ~conn'[k].tx => conn'[k].writes = {} /\ lock' # k
        /\ \A u \in conn'[k].writes : Carries(k, u)
        /\ \A u \in Tasks : seen'[u] = seen[u] \/ (u = job.task /\ job.name \in Migrating)
        /\ \A u \in Tasks : job.awaited \/ reply'[u] = reply[u]
    BY <1>1, <1>2 DEF Runs
  <1>6. \A i \in DOMAIN rest : rest[i].task \in Tasks /\ reply'[rest[i].task] = reply[rest[i].task]
    <2> TAKE i \in DOMAIN rest
    <2>1. rest[i].task \in Tasks
      BY <1>4, ConnJobs
    <2>2. ~job.awaited
      BY <1>4
    <2> QED
      BY <1>5, <2>1, <2>2
  <1>7. \A i \in DOMAIN rest : rest[i].name \notin {"WRITE", "COMMIT", "INSERT"}
    <2> TAKE i \in DOMAIN rest
    <2>1. i + 1 \in DOMAIN was /\ i + 1 # 1 /\ rest[i] = was[i + 1]
      BY <1>4
    <2> QED
      BY <1>3, <2>1 DEF ConnOK, JobsPlaced, JobsMigrate
  <1>8. ConnHeld(k)'
    <2>1. CASE conn'[k].state = conn[k].state
      BY <1>3, <1>4, <1>5, <2>1 DEF ConnOK, ConnHeld
    <2>2. CASE job.name = "CLOSE" /\ conn'[k].state = "closed" /\ ~conn'[k].tx
      <3>1. 1 = Len(was) /\ ~Written(k)
        BY <1>3, <1>4, <2>2 DEF ConnOK, JobsPlaced
      <3>2. rest = <<>>
        BY <1>2, <3>1, HeadFacts
      <3>3. \A p \in Processes : writer'[p] # k
        BY <1>5, <3>1 DEF Written
      <3> QED
        BY <1>5, <2>2, <3>2, <3>3 DEF ConnHeld
    <2> QED
      BY <1>5, <2>1, <2>2
  <1>9. JobsAwaited(k)'
    <2>1. JobsAwaited(k)
      BY <1>3 DEF ConnOK
    <2>2. ASSUME NEW i \in DOMAIN rest
          PROVE  /\ rest[i].awaited =>
                      /\ i = Len(rest)
                      /\ pc[rest[i].task] \in Busy /\ on[rest[i].task] = k
                      /\ reply[rest[i].task] = "none"
                      /\ rest[i].name \in Expected(pc[rest[i].task])
                 /\ ~rest[i].awaited =>
                      /\ rest[i].name \in Migrating => pc[rest[i].task] = "done"
      <3>1. i + 1 \in DOMAIN was /\ rest[i] = was[i + 1] /\ (i + 1 = Len(was) => i = Len(rest))
        BY <1>4
      <3> QED
        BY <2>1, <3>1 DEF JobsAwaited
    <2> HIDE DEF was
    <2>3. \A i \in DOMAIN rest :
            /\ rest[i].awaited =>
                 /\ i = Len(rest)
                 /\ pc'[rest[i].task] \in Busy /\ on'[rest[i].task] = k
                 /\ reply'[rest[i].task] = "none"
                 /\ rest[i].name \in Expected(pc'[rest[i].task])
            /\ ~rest[i].awaited =>
                 /\ rest[i].name \in Migrating => pc'[rest[i].task] = "done"
                 /\ rest[i].name # "COMMIT"
      BY <1>5, <1>6, <1>7, <2>2
    <2> QED
      BY <1>5, <2>3 DEF JobsAwaited
  <1>10. JobsPlaced(k)'
    <2>1. \A i \in DOMAIN rest : rest[i].name = "CLOSE" => i = Len(rest) /\ ~Written(k)
      BY <1>3, <1>4 DEF ConnOK, JobsPlaced
    <2>2. Written(k)' <=> Written(k)
      BY <1>5 DEF Written
    <2> HIDE DEF was
    <2> QED
      BY <1>5, <1>7, <2>1, <2>2 DEF JobsPlaced
  <1>11. JobsMigrate(k)'
    <2>1. ASSUME NEW i \in DOMAIN rest
          PROVE  /\ rest[i].name \in {"SCRIPT", "INSERT"} => seen'[rest[i].task] < LastVersion
                 /\ rest[i].name \in Migrating =>
                      \A j \in DOMAIN rest :
                        rest[j].task = rest[i].task /\ rest[j].name \in Migrating => j = i
      <3>1. JobsMigrate(k)
        BY <1>3 DEF ConnOK
      <3>2. i \in Nat \ {0} /\ i + 1 \in DOMAIN was /\ rest[i] = was[i + 1] /\ i + 1 # 1
        BY <1>4
      <3>3. /\ rest[i].name \in {"SCRIPT", "INSERT"} => seen[rest[i].task] < LastVersion
            /\ rest[i].name \in Migrating =>
                 \A j \in DOMAIN was :
                   was[j].task = rest[i].task /\ was[j].name \in Migrating => j = i + 1
        BY <3>1, <3>2 DEF JobsMigrate
      <3>4. rest[i].name \in Migrating => seen'[rest[i].task] = seen[rest[i].task]
        BY <1>4, <1>5, <1>6, <3>2, <3>3
      <3>5. rest[i].name \in {"SCRIPT", "INSERT"} => rest[i].name \in Migrating
        BY DEF Migrating
      <3>6. ASSUME rest[i].name \in Migrating, NEW j \in DOMAIN rest,
                   rest[j].task = rest[i].task, rest[j].name \in Migrating
            PROVE  j = i
        <4>1. j \in Nat /\ j + 1 \in DOMAIN was /\ rest[j] = was[j + 1]
          BY <1>4
        <4>2. j + 1 = i + 1
          BY <3>3, <3>6, <4>1
        <4> QED
          BY <3>2, <4>1, <4>2
      <3> QED
        BY <3>3, <3>4, <3>5, <3>6
    <2> HIDE DEF was
    <2> QED
      BY <1>5, <1>7, <2>1 DEF JobsMigrate
  <1>12. ASSUME NEW u \in Tasks, Carries(k, u)'
         PROVE  Carries(k, u)
    <2>1. u \in conn'[k].writes
      BY <1>5, <1>7, <1>12 DEF Carries
    <2> QED
      BY <1>5, <2>1
  <1>13. ConnWrites(k)'
    <2> SUFFICES ASSUME NEW u \in Tasks, Carries(k, u)'
                 PROVE  /\ \A i \in DOMAIN rest :
                             /\ rest[i].task = u
                             /\ rest[i].name \in {"WRITE", "COMMIT", "ROLLBACK", "CLOSE"}
                        /\ \/ pc'[u] \in {"body", "commit", "rollback"} /\ on'[u] = k
                           \/ pc'[u] \in {"discard", "done"} /\ ~Written(k)'
      BY <1>5 DEF ConnWrites
    <2>1. /\ \A i \in DOMAIN was :
               /\ was[i].task = u
               /\ was[i].name \in {"WRITE", "COMMIT", "ROLLBACK", "CLOSE"}
          /\ \/ pc[u] \in {"body", "commit", "rollback"} /\ on[u] = k
             \/ pc[u] \in {"discard", "done"} /\ ~Written(k)
      BY <1>3, <1>12 DEF ConnOK, ConnWrites
    <2>2. Written(k)' <=> Written(k)
      BY <1>5 DEF Written
    <2> HIDE DEF was
    <2> QED
      BY <1>4, <1>5, <2>1, <2>2
  <1>14. \A u \in Tasks : Mentions(k, u)' => Mentions(k, u)
    <2> TAKE u \in Tasks
    <2>1. u \in conn'[k].writes => Mentions(k, u)
      BY <1>5 DEF Carries, Mentions
    <2>2. (\E i \in DOMAIN rest : rest[i].task = u) => Mentions(k, u)
      BY <1>4 DEF Mentions
    <2> QED
      BY <1>5, <2>1, <2>2 DEF Mentions
  <1>15. \A m \in Conns \ {k}, u \in Tasks : Mentions(m, u)' => Mentions(m, u)
    BY DEF Mentions, Runs
  <1>16. ConnMentions(k)'
    BY <1>3, <1>5, <1>14, <1>15 DEF ConnOK, ConnMentions
  <1>17. OneInsert'
    <2>1. ~Inserts(k)'
      BY <1>5, <1>7 DEF Inserts
    <2>2. \A m \in Conns \ {k} : Inserts(m)' => Inserts(m)
      BY DEF Inserts, Runs
    <2> QED
      BY <2>1, <2>2 DEF QInv, OneInsert
  <1> QED
    BY <1>8, <1>9, <1>10, <1>11, <1>13, <1>16, <1>17 DEF ConnOK

LEMMA RunStep ==
  ASSUME QInv, NEW k \in Conns, conn[k].jobs # <<>>, NEW result, Runs(k, result),
         Typed', \A u \in Tasks : TaskLands(u)'
  PROVE  QInv'
  <1>1. \A u \in Tasks : TaskOK(u)'
    BY RunsTasks DEF TaskOK
  <1>2. ConnOK(k)' /\ OneInsert'
    BY RunsConn
  <1>3. \A l \in Conns : ConnOK(l)'
    BY <1>2, RunsOthers
  <1> QED
    BY <1>1, <1>2, <1>3 DEF QInv

(* A statement other than a COMMIT that succeeds lands nothing.            *)
LEMMA LandsStay ==
  ASSUME QInv, NEW k \in Conns, conn[k].jobs # <<>>, NEW result, Runs(k, result),
         First(k).name = "COMMIT" => result = "error",
         file'.landed = file.landed, file.version <= file'.version,
         file.version \in 0..LastVersion, file'.version \in 0..LastVersion,
         \A u \in Tasks : seen'[u] <= file'.version
  PROVE  \A u \in Tasks : TaskLands(u)'
  <1> SUFFICES ASSUME NEW u \in Tasks
               PROVE  TaskLands(u)'
    OBVIOUS
  <1>1. PICK job : job = First(k)
    OBVIOUS
  <1>2. TaskLands(u)
    BY DEF QInv, TaskOK
  <1>3. /\ UNCHANGED <<pc, call, answer>> /\ result \in {"ok", "error"}
        /\ reply'[u] = IF job.awaited /\ u = job.task THEN result ELSE reply[u]
    BY <1>1 DEF Runs
  <1>4. job.awaited => /\ reply[job.task] = "none" /\ pc[job.task] \in Busy
                       /\ job.name \in Expected(pc[job.task])
    BY <1>1, HeadFacts
  <1>5. pc[u] = "commit" /\ reply'[u] = "ok" => reply[u] = "ok"
    BY <1>1, <1>3, <1>4 DEF Expected
  <1>6. u \in file.landed =>
          \/ pc[u] = "commit" /\ reply'[u] = "ok"
          \/ pc[u] = "discard" /\ answer[u] = "inDoubt"
          \/ pc[u] = "done" /\ answer[u] \in {"ok", "inDoubt", "dead"}
    BY <1>2, <1>3, <1>4 DEF TaskLands
  <1>7. file.version = LastVersion => file'.version = LastVersion
    BY DEF LastVersion
  <1> QED
    BY <1>2, <1>3, <1>5, <1>6, <1>7 DEF TaskLands

Wrote(k, t) == [conn[k] EXCEPT !.writes = @ \cup {t}]
Shut(k) == [Ended(k) EXCEPT !.state = "closed"]

(* What a statement can leave of its connection.                           *)
LEMMA AfterFacts ==
  ASSUME QInv, NEW k \in Conns, NEW t \in Tasks
  PROVE  /\ \A c \in {conn[k], Open(k), Altered(k), Ended(k), Wrote(k, t), Shut(k)} :
              c \in Connection /\ c.home = conn[k].home /\ c.jobs = conn[k].jobs
         /\ \A c \in {conn[k], Open(k), Altered(k), Ended(k), Wrote(k, t)} :
              c.state = conn[k].state
         /\ \A c \in {Open(k), Altered(k)} : c.tx /\ c.writes = conn[k].writes
         /\ ~Ended(k).tx /\ Ended(k).writes = {}
         /\ Wrote(k, t).tx = conn[k].tx /\ Wrote(k, t).writes = conn[k].writes \cup {t}
         /\ ~Shut(k).tx /\ Shut(k).writes = {} /\ Shut(k).state = "closed"
  <1> DEFINE S == Seq(Jobs)
  <1> DEFINE C == [home : Processes \cup {None}, state : {"new", "open", "closed"},
                   jobs : S, tx : BOOLEAN, writes : SUBSET Tasks, half : BOOLEAN]
  <1>1. Connection = C
    BY DEF Connection
  <1>2. conn[k] \in C
    BY <1>1, ConnJobs
  <1> HIDE DEF S
  <1>3. ASSUME NEW c \in C
        PROVE  /\ [c EXCEPT !.tx = TRUE] \in C
               /\ [c EXCEPT !.tx = FALSE, !.writes = {}, !.half = FALSE] \in C
               /\ [c EXCEPT !.half = TRUE] \in C
               /\ [c EXCEPT !.writes = @ \cup {t}] \in C
               /\ [c EXCEPT !.state = "closed"] \in C
    OBVIOUS
  <1>4. /\ Open(k) \in C /\ Open(k).home = conn[k].home /\ Open(k).jobs = conn[k].jobs
        /\ Open(k).state = conn[k].state /\ Open(k).tx /\ Open(k).writes = conn[k].writes
    BY <1>2, <1>3 DEF Open
  <1>5. /\ Ended(k) \in C /\ Ended(k).home = conn[k].home /\ Ended(k).jobs = conn[k].jobs
        /\ Ended(k).state = conn[k].state /\ ~Ended(k).tx /\ Ended(k).writes = {}
    BY <1>2, <1>3 DEF Ended
  <1>6. /\ Wrote(k, t) \in C /\ Wrote(k, t).home = conn[k].home
        /\ Wrote(k, t).jobs = conn[k].jobs /\ Wrote(k, t).state = conn[k].state
        /\ Wrote(k, t).tx = conn[k].tx /\ Wrote(k, t).writes = conn[k].writes \cup {t}
    BY <1>2, <1>3 DEF Wrote
  <1>7. /\ Shut(k) \in C /\ Shut(k).home = conn[k].home /\ Shut(k).jobs = conn[k].jobs
        /\ Shut(k).state = "closed" /\ ~Shut(k).tx /\ Shut(k).writes = {}
    <2> DEFINE c == Ended(k)
    <2>1. c \in C /\ c = Ended(k)
      BY <1>5
    <2> HIDE DEF c
    <2> QED
      BY <1>3, <1>5, <2>1 DEF Shut
  <1>8. /\ Altered(k) \in C /\ Altered(k).home = conn[k].home
        /\ Altered(k).jobs = conn[k].jobs /\ Altered(k).state = conn[k].state
        /\ Altered(k).tx /\ Altered(k).writes = conn[k].writes
    <2> DEFINE c == Open(k)
    <2>1. c \in C /\ c = Open(k)
      BY <1>4
    <2> HIDE DEF c
    <2> QED
      BY <1>3, <1>4, <2>1 DEF Altered
  <1> HIDE DEF C
  <1> QED
    BY <1>1, <1>2, <1>4, <1>5, <1>6, <1>7, <1>8

(* The first statement of k was "name" and is done; k is "after" without   *)
(* it, and its task, if it waits, has the result.                          *)
Done(k, name, after, result) ==
  /\ conn[k].jobs # <<>> /\ First(k).name = name
  /\ conn' \in [Conns -> Connection]
  /\ \A l \in Conns \ {k} : conn'[l] = conn[l]
  /\ conn'[k].home = after.home /\ conn'[k].state = after.state
  /\ conn'[k].tx = after.tx /\ conn'[k].writes = after.writes
  /\ conn'[k].jobs = Rest(k)
  /\ reply' \in [Tasks -> {"none", "ok", "error"}]
  /\ \A u \in Tasks :
       reply'[u] = IF First(k).awaited /\ u = First(k).task THEN result ELSE reply[u]

LEMMA DoFacts ==
  ASSUME QInv, NEW k \in Conns, NEW name, NEW result \in {"ok", "error"},
         NEW after \in Connection, after.jobs = conn[k].jobs, Do(k, name, after, result)
  PROVE  Done(k, name, after, result)
  <1> DEFINE rest == Rest(k)
  <1>1. conn[k].jobs # <<>> /\ First(k).name = name
    BY DEF Do, First
  <1>2. rest \in Seq(Jobs) /\ First(k).task \in Tasks
    BY <1>1, HeadFacts
  <1>3. conn' = [conn EXCEPT ![k] = [after EXCEPT !.jobs = rest]]
    BY DEF Do, Rest
  <1>4. conn \in [Conns -> Connection] /\ reply \in [Tasks -> {"none", "ok", "error"}]
    BY DEF QInv, Typed, ConnsTyped, TasksTyped
  <1>5. reply' = IF First(k).awaited THEN [reply EXCEPT ![First(k).task] = result] ELSE reply
    BY DEF Do, First
  <1> HIDE DEF rest
  <1>6. [after EXCEPT !.jobs = rest] \in Connection
    BY <1>2, JobsReplaced
  <1>7. conn' \in [Conns -> Connection] /\ conn'[k] = [after EXCEPT !.jobs = rest]
    BY <1>3, <1>4, <1>6
  <1>8. /\ conn'[k].home = after.home /\ conn'[k].state = after.state
        /\ conn'[k].tx = after.tx /\ conn'[k].writes = after.writes
        /\ conn'[k].jobs = rest
    BY <1>7 DEF Connection
  <1>9. \A l \in Conns \ {k} : conn'[l] = conn[l]
    BY <1>3, <1>4
  <1>10. reply' \in [Tasks -> {"none", "ok", "error"}]
         /\ \A u \in Tasks :
              reply'[u] = IF First(k).awaited /\ u = First(k).task THEN result ELSE reply[u]
    BY <1>2, <1>4, <1>5
  <1> QED
    BY <1>1, <1>7, <1>8, <1>9, <1>10 DEF Done, rest

(* Statement "name" ran and left its connection as "after".                *)
Fits(k, name, after, result) ==
  /\ after \in Connection
  /\ after.home = conn[k].home /\ after.jobs = conn[k].jobs
  /\ Do(k, name, after, result)
  /\ UNCHANGED <<queue, writer, pc, call, on, answer>>
  /\ \/ after.state = conn[k].state
     \/ name = "CLOSE" /\ after.state = "closed" /\ ~after.tx
  /\ lock' \in {lock, k, None}
  /\ ~after.tx => after.writes = {} /\ lock' # k
  /\ \A u \in after.writes : Carries(k, u)
  /\ result = "ok" =>
       /\ name \in {"BEGIN", "WRITE"} => after.tx
       /\ name = "WRITE" => First(k).task \in after.writes
       /\ name \in {"COMMIT", "ROLLBACK"} => ~after.tx

(* ... and changed this of the file and of what its task knows of it.      *)
Learns(k, name) ==
  /\ file' \in [landed : SUBSET Tasks, version : 0..LastVersion, half : BOOLEAN]
  /\ seen' \in [Tasks -> 0..LastVersion]
  /\ \A u \in Tasks : seen'[u] = seen[u] \/ (u = First(k).task /\ name \in Migrating)
  /\ \A l \in Conns \ {k} :
       Inserts(l) => file'.half = file.half /\ file'.version = file.version

LEMMA FitsRuns ==
  ASSUME QInv, NEW k \in Conns, NEW name, NEW result \in {"ok", "error"}, NEW after,
         Fits(k, name, after, result), Learns(k, name)
  PROVE  conn[k].jobs # <<>> /\ First(k).name = name /\ Runs(k, result) /\ Typed'
  <1>1. after \in Connection /\ after.jobs = conn[k].jobs /\ Do(k, name, after, result)
    BY DEF Fits
  <1>2. Done(k, name, after, result)
    BY <1>1, DoFacts
  <1>3. Runs(k, result)
    <2>1. /\ UNCHANGED <<queue, writer, pc, call, on, answer>>
          /\ after.home = conn[k].home
          /\ \/ after.state = conn[k].state
             \/ name = "CLOSE" /\ after.state = "closed" /\ ~after.tx
          /\ lock' \in {lock, k, None}
          /\ ~after.tx => after.writes = {} /\ lock' # k
          /\ \A u \in after.writes : Carries(k, u)
          /\ result = "ok" =>
               /\ name \in {"BEGIN", "WRITE"} => after.tx
               /\ name = "WRITE" => First(k).task \in after.writes
               /\ name \in {"COMMIT", "ROLLBACK"} => ~after.tx
      BY DEF Fits
    <2>2. /\ \A u \in Tasks : seen'[u] = seen[u] \/ (u = First(k).task /\ name \in Migrating)
          /\ \A l \in Conns \ {k} :
               Inserts(l) => file'.half = file.half /\ file'.version = file.version
      BY DEF Learns
    <2>3. result \in {"ok", "error"}
      OBVIOUS
    <2> QED
      BY ONLY <1>2, <2>1, <2>2, <2>3 DEF Runs, Done
  <1>4. Typed'
    BY <1>2 DEF QInv, Typed, TasksTyped, FileTyped, ConnsTyped, Fits, Learns, Done
  <1> QED
    BY <1>2, <1>3, <1>4 DEF Done

(* No statement but a COMMIT that succeeds lands anything.                 *)
LEMMA QuietStep ==
  ASSUME QInv, NEW k \in Conns, NEW name, NEW result \in {"ok", "error"}, NEW after,
         Fits(k, name, after, result), Learns(k, name),
         name = "COMMIT" => result = "error",
         file'.landed = file.landed, file.version <= file'.version,
         \A u \in Tasks : seen'[u] <= file'.version
  PROVE  QInv'
  <1>1. conn[k].jobs # <<>> /\ First(k).name = name /\ Runs(k, result) /\ Typed'
    BY FitsRuns
  <1>2. file.version \in 0..LastVersion /\ file'.version \in 0..LastVersion
    BY DEF QInv, Typed, FileTyped, Learns
  <1>3. \A u \in Tasks : TaskLands(u)'
    BY <1>1, <1>2, LandsStay
  <1> QED
    BY <1>1, <1>3, RunStep

(* Most statements leave the committed file alone.                         *)
LEMMA PlainStep ==
  ASSUME QInv, NEW k \in Conns, NEW name, NEW result \in {"ok", "error"}, NEW after,
         Fits(k, name, after, result), UNCHANGED <<file, seen>>,
         name = "COMMIT" => result = "error"
  PROVE  QInv'
  <1>1. Learns(k, name)
    BY DEF Learns, QInv, Typed, FileTyped
  <1>2. file'.landed = file.landed /\ file.version <= file'.version
    BY DEF QInv, Typed, FileTyped, LastVersion
  <1>3. \A u \in Tasks : seen'[u] <= file'.version
    BY DEF QInv, TaskOK, TaskLands
  <1> QED
    BY <1>1, <1>2, <1>3, QuietStep

Threads == UNCHANGED <<queue, writer, pc, call, on, answer>>

(* What the invariant says of the statement that is to run.                *)
LEMMA FirstFacts ==
  ASSUME QInv, NEW k \in Conns, conn[k].jobs # <<>>
  PROVE  /\ First(k).task \in Tasks
         /\ ~conn[k].tx => conn[k].writes = {} /\ lock # k
         /\ \A u \in conn[k].writes : Carries(k, u)
         /\ First(k).name = "WRITE" => conn[k].tx /\ Carries(k, First(k).task)
         /\ First(k).name = "COMMIT" => /\ conn[k].writes = {First(k).task}
                                        /\ call[First(k).task] = "write"
         /\ First(k).name \in {"SCRIPT", "INSERT"} => seen[First(k).task] < LastVersion
         /\ First(k).name = "INSERT" => file.half /\ file.version = 0
         /\ ~First(k).awaited /\ First(k).name = "COMMIT" =>
              /\ pc[First(k).task] \in {"discard", "done"}
              /\ answer[First(k).task] = "inDoubt"
  <1>1. /\ 1 \in DOMAIN conn[k].jobs /\ First(k) = conn[k].jobs[1]
        /\ First(k).task \in Tasks
    BY HeadFacts
  <1>2. /\ ConnHeld(k) /\ JobsPlaced(k) /\ JobsMigrate(k) /\ JobsAwaited(k)
    BY DEF QInv, ConnOK
  <1>3. First(k).name = "WRITE" => Carries(k, First(k).task)
    BY <1>1 DEF Carries
  <1>4. ~conn[k].tx => conn[k].writes = {} /\ lock # k
    BY <1>2 DEF ConnHeld
  <1>5. \A u \in conn[k].writes : Carries(k, u)
    BY DEF Carries
  <1>6. /\ First(k).name = "WRITE" => conn[k].tx
        /\ First(k).name = "COMMIT" => /\ conn[k].writes = {First(k).task}
                                       /\ call[First(k).task] = "write"
    BY <1>1, <1>2 DEF JobsPlaced
  <1>7. /\ First(k).name \in {"SCRIPT", "INSERT"} => seen[First(k).task] < LastVersion
        /\ First(k).name = "INSERT" => file.half /\ file.version = 0
    BY <1>1, <1>2 DEF JobsMigrate
  <1>8. ~First(k).awaited /\ First(k).name = "COMMIT" =>
          /\ pc[First(k).task] \in {"discard", "done"}
          /\ answer[First(k).task] = "inDoubt"
    BY <1>1, <1>2 DEF JobsAwaited
  <1> QED
    BY <1>1, <1>3, <1>4, <1>5, <1>6, <1>7, <1>8

LEMMA UnlockedFacts ==
  ASSUME NEW k \in Conns, Unlocked(k)
  PROVE  lock' \in {lock, k, None} /\ lock' # k
  BY SqliteAssumption DEF Unlocked

LEMMA SameFits ==
  ASSUME QInv, NEW k \in Conns, NEW name, NEW result \in {"ok", "error"},
         Do(k, name, conn[k], result), Threads, UNCHANGED lock,
         result = "error" \/ name \notin {"BEGIN", "WRITE", "COMMIT", "ROLLBACK"}
  PROVE  Fits(k, name, conn[k], result)
  <1>1. conn[k].jobs # <<>>
    BY DEF Do
  <1>2. conn[k] \in Connection
    BY ConnJobs
  <1>3. /\ ~conn[k].tx => conn[k].writes = {} /\ lock # k
        /\ \A u \in conn[k].writes : Carries(k, u)
    BY <1>1, FirstFacts
  <1> QED
    BY <1>2, <1>3 DEF Fits, Threads

LEMMA OpenFits ==
  ASSUME QInv, NEW k \in Conns, NEW name, NEW result \in {"ok", "error"},
         NEW after \in {Open(k), Altered(k)},
         Do(k, name, after, result), Threads, lock' \in {lock, k},
         result = "error" \/ name \notin {"WRITE", "COMMIT", "ROLLBACK"}
  PROVE  Fits(k, name, after, result)
  <1>1. conn[k].jobs # <<>>
    BY DEF Do
  <1>2. First(k).task \in Tasks /\ \A u \in conn[k].writes : Carries(k, u)
    BY <1>1, FirstFacts
  <1>3. /\ after \in Connection /\ after.home = conn[k].home
        /\ after.jobs = conn[k].jobs /\ after.state = conn[k].state
        /\ after.tx /\ after.writes = conn[k].writes
    BY <1>2, AfterFacts
  <1> QED
    BY <1>2, <1>3 DEF Fits, Threads

LEMMA EndedFits ==
  ASSUME QInv, NEW k \in Conns, NEW name, NEW result \in {"ok", "error"},
         Do(k, name, Ended(k), result), Threads, Unlocked(k),
         result = "error" \/ name \notin {"BEGIN", "WRITE"}
  PROVE  Fits(k, name, Ended(k), result)
  <1>1. conn[k].jobs # <<>>
    BY DEF Do
  <1>2. First(k).task \in Tasks /\ lock' \in {lock, k, None} /\ lock' # k
    BY <1>1, FirstFacts, UnlockedFacts
  <1>3. /\ Ended(k) \in Connection /\ Ended(k).home = conn[k].home
        /\ Ended(k).jobs = conn[k].jobs /\ Ended(k).state = conn[k].state
        /\ ~Ended(k).tx /\ Ended(k).writes = {}
    BY <1>2, AfterFacts
  <1> QED
    BY <1>2, <1>3 DEF Fits, Threads

LEMMA BeginStep ==
  ASSUME QInv, NEW k \in Conns, Begin(k), Threads
  PROVE  QInv'
  <1>1. CASE lock' = k /\ Do(k, "BEGIN", Open(k), "ok")
    <2>1. Fits(k, "BEGIN", Open(k), "ok")
      BY <1>1, OpenFits
    <2> QED
      BY <2>1, PlainStep DEF Begin
  <1>2. CASE Do(k, "BEGIN", conn[k], "error") /\ UNCHANGED lock
    <2>1. Fits(k, "BEGIN", conn[k], "error")
      BY <1>2, SameFits
    <2> QED
      BY <2>1, PlainStep DEF Begin
  <1> QED
    BY <1>1, <1>2 DEF Begin

LEMMA WriteStep ==
  ASSUME QInv, NEW k \in Conns, Write(k), Threads
  PROVE  QInv'
  <1> DEFINE t == First(k).task
  <1>1. CASE Do(k, "WRITE", [conn[k] EXCEPT !.writes = @ \cup {t}], "ok") /\ UNCHANGED lock
    <2>1. Do(k, "WRITE", Wrote(k, t), "ok")
      BY <1>1 DEF Wrote
    <2>2. conn[k].jobs # <<>> /\ First(k).name = "WRITE"
      BY <2>1 DEF Do, First
    <2>3. /\ t \in Tasks /\ conn[k].tx /\ Carries(k, t)
          /\ \A u \in conn[k].writes : Carries(k, u)
      BY <2>2, FirstFacts
    <2>4. /\ Wrote(k, t) \in Connection /\ Wrote(k, t).home = conn[k].home
          /\ Wrote(k, t).jobs = conn[k].jobs /\ Wrote(k, t).state = conn[k].state
          /\ Wrote(k, t).tx = conn[k].tx /\ Wrote(k, t).writes = conn[k].writes \cup {t}
      BY <2>3, AfterFacts
    <2>5. Fits(k, "WRITE", Wrote(k, t), "ok")
      BY <1>1, <2>1, <2>3, <2>4 DEF Fits, Threads
    <2> QED
      BY <2>5, PlainStep DEF Write
  <1>2. CASE Do(k, "WRITE", conn[k], "error") /\ UNCHANGED lock
    <2>1. Fits(k, "WRITE", conn[k], "error")
      BY <1>2, SameFits
    <2> QED
      BY <2>1, PlainStep DEF Write
  <1>3. CASE Do(k, "WRITE", Ended(k), "error") /\ Unlocked(k)
    <2>1. Fits(k, "WRITE", Ended(k), "error")
      BY <1>3, EndedFits
    <2> QED
      BY <2>1, PlainStep DEF Write
  <1> QED
    BY <1>1, <1>2, <1>3 DEF Write, First

(* The COMMIT that succeeds lands the writes of the task it is of, which   *)
(* hears of it or was told that it cannot know.                            *)
LEMMA CommitLands ==
  ASSUME QInv, NEW k \in Conns, Do(k, "COMMIT", Ended(k), "ok"), Threads, Unlocked(k),
         UNCHANGED seen, file' = [file EXCEPT !.landed = @ \cup conn[k].writes]
  PROVE  QInv'
  <1> DEFINE t == First(k).task
  <1>1. Fits(k, "COMMIT", Ended(k), "ok")
    BY EndedFits
  <1>2. conn[k].jobs # <<>> /\ First(k).name = "COMMIT"
    BY DEF Do, First
  <1>3. /\ t \in Tasks /\ conn[k].writes = {t} /\ call[t] = "write"
        /\ ~First(k).awaited => pc[t] \in {"discard", "done"} /\ answer[t] = "inDoubt"
    BY <1>2, FirstFacts
  <1>4. First(k).awaited => pc[t] = "commit"
    <2>1. First(k).awaited => pc[t] \in Busy /\ "COMMIT" \in Expected(pc[t])
      BY <1>2, HeadFacts
    <2> QED
      BY <2>1 DEF Expected, Busy, Migrating
  <1>5. /\ file \in [landed : SUBSET Tasks, version : 0..LastVersion, half : BOOLEAN]
        /\ seen \in [Tasks -> 0..LastVersion]
    BY DEF QInv, Typed, FileTyped
  <1>6. /\ file'.landed = file.landed \cup {t} /\ file'.version = file.version
        /\ file'.half = file.half
        /\ file' \in [landed : SUBSET Tasks, version : 0..LastVersion, half : BOOLEAN]
    BY <1>3, <1>5
  <1>7. Learns(k, "COMMIT")
    BY <1>5, <1>6 DEF Learns
  <1>8. Runs(k, "ok") /\ Typed'
    BY <1>1, <1>7, FitsRuns
  <1>9. ASSUME NEW u \in Tasks
        PROVE  TaskLands(u)'
    <2>1. TaskLands(u)
      BY DEF QInv, TaskOK
    <2>2. /\ UNCHANGED <<pc, call, answer, seen>>
          /\ reply'[u] = IF First(k).awaited /\ u = t THEN "ok" ELSE reply[u]
      BY <1>8 DEF Runs
    <2>3. CASE u # t
      BY <1>6, <2>1, <2>2, <2>3 DEF TaskLands
    <2>4. CASE u = t
      <3>1. \/ pc'[u] = "commit" /\ reply'[u] = "ok"
            \/ pc'[u] = "discard" /\ answer'[u] = "inDoubt"
            \/ pc'[u] = "done" /\ answer'[u] \in {"ok", "inDoubt", "dead"}
        BY <1>3, <1>4, <2>2, <2>4
      <3>2. u \in file'.landed /\ call'[u] = "write"
        BY <1>3, <1>6, <2>2, <2>4
      <3>3. seen'[u] <= file'.version
        BY <1>6, <2>1, <2>2 DEF TaskLands
      <3> QED
        BY <3>1, <3>2, <3>3 DEF TaskLands
    <2> QED
      BY <2>3, <2>4
  <1> QED
    BY <1>2, <1>8, <1>9, RunStep

LEMMA CommitStep ==
  ASSUME QInv, NEW k \in Conns, Commit(k), Threads
  PROVE  QInv'
  <1>1. CASE /\ Do(k, "COMMIT", Ended(k), "ok") /\ Unlocked(k)
             /\ file' = [file EXCEPT !.landed = @ \cup conn[k].writes]
    BY <1>1, CommitLands DEF Commit
  <1>2. CASE Do(k, "COMMIT", conn[k], "error") /\ UNCHANGED <<file, lock>>
    <2>1. Fits(k, "COMMIT", conn[k], "error")
      BY <1>2, SameFits
    <2> QED
      BY <1>2, <2>1, PlainStep DEF Commit
  <1>3. CASE Do(k, "COMMIT", Ended(k), "error") /\ Unlocked(k) /\ UNCHANGED file
    <2>1. Fits(k, "COMMIT", Ended(k), "error")
      BY <1>3, EndedFits
    <2> QED
      BY <1>3, <2>1, PlainStep DEF Commit
  <1> QED
    BY <1>1, <1>2, <1>3 DEF Commit

LEMMA RollbackStep ==
  ASSUME QInv, NEW k \in Conns, Rollback(k), Threads
  PROVE  QInv'
  <1>1. CASE Do(k, "ROLLBACK", Ended(k), "ok") /\ Unlocked(k)
    <2>1. Fits(k, "ROLLBACK", Ended(k), "ok")
      BY <1>1, EndedFits
    <2> QED
      BY <2>1, PlainStep DEF Rollback
  <1>2. CASE Do(k, "ROLLBACK", conn[k], "error") /\ UNCHANGED lock
    <2>1. Fits(k, "ROLLBACK", conn[k], "error")
      BY <1>2, SameFits
    <2> QED
      BY <2>1, PlainStep DEF Rollback
  <1> QED
    BY <1>1, <1>2 DEF Rollback

LEMMA CloseStep ==
  ASSUME QInv, NEW k \in Conns, Close(k), Threads
  PROVE  QInv'
  <1>1. Do(k, "CLOSE", Shut(k), "ok") /\ Unlocked(k) /\ UNCHANGED <<file, seen>>
    BY DEF Close, Shut
  <1>2. conn[k].jobs # <<>>
    BY <1>1 DEF Do
  <1>3. First(k).task \in Tasks /\ lock' \in {lock, k, None} /\ lock' # k
    BY <1>1, <1>2, FirstFacts, UnlockedFacts
  <1>4. /\ Shut(k) \in Connection /\ Shut(k).home = conn[k].home
        /\ Shut(k).jobs = conn[k].jobs /\ Shut(k).state = "closed"
        /\ ~Shut(k).tx /\ Shut(k).writes = {}
    BY <1>3, AfterFacts
  <1>5. Fits(k, "CLOSE", Shut(k), "ok")
    BY <1>1, <1>3, <1>4 DEF Fits, Threads
  <1> QED
    BY <1>1, <1>5, PlainStep

LEMMA ReadVersionStep ==
  ASSUME QInv, NEW k \in Conns, ReadVersion(k), Threads
  PROVE  QInv'
  <1> DEFINE t == First(k).task
  <1>1. /\ Do(k, "VERSION", conn[k], "ok") /\ UNCHANGED <<file, lock>>
        /\ seen' = [seen EXCEPT ![t] = file.version]
    BY DEF ReadVersion, First
  <1>2. conn[k].jobs # <<>>
    BY <1>1 DEF Do
  <1>3. t \in Tasks
    BY <1>2, FirstFacts
  <1>4. Fits(k, "VERSION", conn[k], "ok")
    BY <1>1, SameFits
  <1>5. /\ file \in [landed : SUBSET Tasks, version : 0..LastVersion, half : BOOLEAN]
        /\ seen \in [Tasks -> 0..LastVersion]
    BY DEF QInv, Typed, FileTyped
  <1>6. Learns(k, "VERSION")
    BY <1>1, <1>3, <1>5 DEF Learns, Migrating
  <1>7. \A u \in Tasks : seen'[u] <= file'.version
    <2>1. \A u \in Tasks : seen[u] <= file.version
      BY DEF QInv, TaskOK, TaskLands
    <2> QED
      BY <1>1, <1>3, <1>5, <2>1 DEF LastVersion
  <1>8. file.version <= file'.version /\ file'.landed = file.landed
    BY <1>1, <1>5 DEF LastVersion
  <1> QED
    BY <1>4, <1>6, <1>7, <1>8, QuietStep

--------------------------------------------------------------------------------
(* Scripts.                                                                *)

LEMMA LaterScriptStep ==
  ASSUME QInv, NEW k \in Conns, LaterScript(k), Threads
  PROVE  QInv'
  <1> DEFINE t == First(k).task
  <1>1. CASE /\ file.version = seen[t]
             /\ Do(k, "SCRIPT", conn[k], "ok")
             /\ file' = [file EXCEPT !.version = @ + 1]
             /\ seen' = [seen EXCEPT ![t] = @ + 1]
             /\ UNCHANGED lock
    <2>1. conn[k].jobs # <<>> /\ First(k).name = "SCRIPT"
      BY <1>1 DEF Do, First
    <2>2. t \in Tasks /\ seen[t] < LastVersion /\ seen[t] > 0
      BY <2>1, FirstFacts DEF LaterScript, First
    <2>3. /\ file \in [landed : SUBSET Tasks, version : 0..LastVersion, half : BOOLEAN]
          /\ seen \in [Tasks -> 0..LastVersion]
          /\ \A u \in Tasks : seen[u] <= file.version
      BY DEF QInv, Typed, FileTyped, TaskOK, TaskLands
    <2>4. /\ file'.landed = file.landed /\ file'.half = file.half
          /\ file'.version = file.version + 1 /\ file'.version \in 0..LastVersion
          /\ file' \in [landed : SUBSET Tasks, version : 0..LastVersion, half : BOOLEAN]
      <3>1. file.version + 1 \in 0..LastVersion
        BY <1>1, <2>2, <2>3 DEF LastVersion
      <3> QED
        BY <1>1, <2>3, <3>1
    <2>5. /\ seen' \in [Tasks -> 0..LastVersion]
          /\ \A u \in Tasks : u # t => seen'[u] = seen[u]
          /\ seen'[t] = file'.version
      BY <1>1, <2>2, <2>3, <2>4
    <2>6. \A l \in Conns : ~Inserts(l)
      <3>1. \A l \in Conns : JobsMigrate(l)
        BY DEF QInv, ConnOK
      <3>2. file.version # 0
        BY <1>1, <2>2
      <3> QED
        BY <3>1, <3>2 DEF JobsMigrate, Inserts
    <2>7. Learns(k, "SCRIPT")
      BY <2>4, <2>5, <2>6 DEF Learns, Migrating
    <2>8. \A u \in Tasks : seen'[u] <= file'.version
      BY <2>2, <2>3, <2>4, <2>5 DEF LastVersion
    <2>9. file.version <= file'.version
      BY <2>3, <2>4 DEF LastVersion
    <2>10. Fits(k, "SCRIPT", conn[k], "ok")
      BY <1>1, SameFits
    <2> QED
      BY <2>4, <2>7, <2>8, <2>9, <2>10, QuietStep
  <1>2. CASE Do(k, "SCRIPT", Open(k), "error") /\ UNCHANGED <<file, seen, lock>>
    <2>1. Fits(k, "SCRIPT", Open(k), "error")
      BY <1>2, OpenFits
    <2> QED
      BY <1>2, <2>1, PlainStep
  <1>3. CASE Do(k, "SCRIPT", Altered(k), "error") /\ lock' = k /\ UNCHANGED <<file, seen>>
    <2>1. Fits(k, "SCRIPT", Altered(k), "error")
      BY <1>3, OpenFits
    <2> QED
      BY <1>3, <2>1, PlainStep
  <1>4. CASE Do(k, "SCRIPT", conn[k], "error") /\ UNCHANGED <<file, seen, lock>>
    <2>1. Fits(k, "SCRIPT", conn[k], "error")
      BY <1>4, SameFits
    <2> QED
      BY <1>4, <2>1, PlainStep
  <1> QED
    BY <1>1, <1>2, <1>3, <1>4 DEF LaterScript, First

(* The version of the first script is written.                             *)
LEMMA InsertStep ==
  ASSUME QInv, NEW k \in Conns, Threads, UNCHANGED lock, Do(k, "INSERT", conn[k], "ok"),
         file' = [file EXCEPT !.half = FALSE, !.version = 1],
         seen' = [seen EXCEPT ![First(k).task] = 1]
  PROVE  QInv'
  <1> DEFINE t == First(k).task
  <1>1. conn[k].jobs # <<>> /\ First(k).name = "INSERT"
    BY DEF Do, First
  <1>2. t \in Tasks /\ file.version = 0
    BY <1>1, FirstFacts
  <1>3. /\ file \in [landed : SUBSET Tasks, version : 0..LastVersion, half : BOOLEAN]
        /\ seen \in [Tasks -> 0..LastVersion]
        /\ \A u \in Tasks : seen[u] <= file.version
    BY DEF QInv, Typed, FileTyped, TaskOK, TaskLands
  <1>4. 1 \in 0..LastVersion
    BY DEF LastVersion
  <1>5. /\ file'.landed = file.landed /\ file'.version = 1
        /\ file' \in [landed : SUBSET Tasks, version : 0..LastVersion, half : BOOLEAN]
    BY <1>3, <1>4
  <1>6. /\ seen' \in [Tasks -> 0..LastVersion]
        /\ \A u \in Tasks : u # t => seen'[u] = seen[u]
        /\ seen'[t] = 1
    BY <1>2, <1>3, <1>4
  <1>7. \A l \in Conns \ {k} : ~Inserts(l)
    <2>1. Inserts(k)
      BY <1>1, HeadFacts DEF Inserts
    <2> QED
      BY <2>1 DEF QInv, OneInsert
  <1>8. Learns(k, "INSERT")
    BY <1>5, <1>6, <1>7 DEF Learns, Migrating
  <1>9. \A u \in Tasks : seen'[u] <= file'.version
    BY <1>2, <1>3, <1>5, <1>6 DEF LastVersion
  <1>10. Fits(k, "INSERT", conn[k], "ok")
    BY SameFits
  <1>11. file.version <= file'.version
    BY <1>2, <1>5
  <1> QED
    BY <1>5, <1>8, <1>9, <1>10, <1>11, QuietStep

(* The tables of the first script are made.                                *)
Halved(k) ==
  /\ ~conn[k].tx
  /\ file.version = 0 /\ ~file.half
  /\ conn[k].jobs # <<>> /\ First(k).name = "SCRIPT"
  /\ conn' = [conn EXCEPT ![k].jobs = <<[Head(@) EXCEPT !.name = "INSERT"]>> \o Tail(@)]
  /\ file' = [file EXCEPT !.half = TRUE]
  /\ UNCHANGED <<reply, seen, lock>>

LEMMA HalvedJobs ==
  ASSUME QInv, NEW k \in Conns, Halved(k)
  PROVE  /\ conn' \in [Conns -> Connection]
         /\ \A l \in Conns \ {k} : conn'[l] = conn[l]
         /\ Kept(k)
         /\ Len(conn'[k].jobs) = Len(conn[k].jobs)
         /\ DOMAIN conn'[k].jobs = DOMAIN conn[k].jobs
         /\ \A i \in DOMAIN conn[k].jobs :
              /\ conn'[k].jobs[i].task = conn[k].jobs[i].task
              /\ conn'[k].jobs[i].awaited = conn[k].jobs[i].awaited
              /\ IF i = 1 THEN /\ conn[k].jobs[i].name = "SCRIPT"
                               /\ conn'[k].jobs[i].name = "INSERT"
                 ELSE conn'[k].jobs[i].name = conn[k].jobs[i].name
  <1> DEFINE was == conn[k].jobs
             insert == [First(k) EXCEPT !.name = "INSERT"]
             is == <<insert>> \o Tail(was)
  <1>1. was \in Seq(Jobs) /\ was # <<>> /\ DOMAIN was = 1..Len(was) /\ Len(was) \in Nat
    BY ConnJobs DEF Halved
  <1>2. First(k) \in Jobs /\ First(k).name = "SCRIPT" /\ First(k) = was[1] /\ 1 \in DOMAIN was
    BY <1>1, HeadFacts DEF Halved
  <1>3. /\ insert \in Jobs /\ insert.task = was[1].task /\ insert.name = "INSERT"
        /\ insert.awaited = was[1].awaited
    BY <1>2 DEF Jobs, Names
  <1>4. conn' = [conn EXCEPT ![k].jobs = is]
    BY DEF Halved, First
  <1> HIDE DEF was, insert
  <1>5. /\ Tail(was) \in Seq(Jobs) /\ Len(Tail(was)) = Len(was) - 1
        /\ \A i \in 1..Len(Tail(was)) : Tail(was)[i] = was[i + 1]
    BY <1>1, HeadTailProperties
  <1>6. <<insert>> \in Seq(Jobs) /\ Len(<<insert>>) = 1 /\ <<insert>>[1] = insert
    BY <1>3
  <1>7. /\ is \in Seq(Jobs)
        /\ Len(is) = 1 + Len(Tail(was))
        /\ \A i \in 1..(1 + Len(Tail(was))) :
             is[i] = IF i <= 1 THEN <<insert>>[i] ELSE Tail(was)[i - 1]
    BY <1>5, <1>6, ConcatProperties
  <1> HIDE DEF is
  <1>8. Len(is) = Len(was) /\ DOMAIN is = 1..Len(was)
    BY <1>1, <1>5, <1>7
  <1>9. \A i \in 1..Len(was) : is[i] = IF i = 1 THEN insert ELSE was[i]
    <2> TAKE i \in 1..Len(was)
    <2>1. CASE i = 1
      BY <1>1, <1>5, <1>6, <1>7, <2>1
    <2>2. CASE i # 1
      <3>1. i - 1 \in 1..Len(Tail(was)) /\ (i - 1) + 1 = i /\ ~(i <= 1)
        BY <1>1, <1>5, <2>2
      <3> QED
        BY <1>1, <1>5, <1>7, <2>2, <3>1
    <2> QED
      BY <2>1, <2>2
  <1>10. conn \in [Conns -> Connection]
    BY DEF QInv, Typed, ConnsTyped
  <1>11. [conn[k] EXCEPT !.jobs = is] \in Connection
    BY <1>7, <1>10, JobsReplaced
  <1>12. /\ conn' \in [Conns -> Connection] /\ conn'[k] = [conn[k] EXCEPT !.jobs = is]
         /\ \A l \in Conns \ {k} : conn'[l] = conn[l]
    BY <1>4, <1>10, <1>11
  <1>13. conn'[k].jobs = is /\ Kept(k)
    BY <1>10, <1>12 DEF Connection, Kept
  <1>14. \A i \in DOMAIN was :
           /\ is[i].task = was[i].task
           /\ is[i].awaited = was[i].awaited
           /\ IF i = 1 THEN was[i].name = "SCRIPT" /\ is[i].name = "INSERT"
              ELSE is[i].name = was[i].name
    BY <1>1, <1>2, <1>3, <1>9
  <1> QED
    BY <1>1, <1>8, <1>12, <1>13, <1>14 DEF was

(* While a script runs its connection carries no writes.                   *)
LEMMA ScriptCarriesNothing ==
  ASSUME QInv, NEW k \in Conns, conn[k].jobs # <<>>, First(k).name = "SCRIPT"
  PROVE  /\ \A u \in Tasks : ~Carries(k, u)
         /\ conn[k].writes = {}
  <1>1. 1 \in DOMAIN conn[k].jobs /\ conn[k].jobs[1].name = "SCRIPT"
    BY HeadFacts
  <1>2. ConnWrites(k)
    BY DEF QInv, ConnOK
  <1>3. \A u \in Tasks : ~Carries(k, u)
    BY <1>1, <1>2 DEF ConnWrites
  <1>4. conn[k].writes \subseteq Tasks
    BY ConnJobs DEF Connection
  <1> QED
    BY <1>3, <1>4 DEF Carries

LEMMA HalvedTasks ==
  ASSUME QInv, NEW k \in Conns, Halved(k), Threads, NEW u \in Tasks
  PROVE  TaskOK(u)'
  <1> DEFINE was == conn[k].jobs
             is == conn'[k].jobs
  <1>1. TaskOK(u)
    BY DEF QInv
  <1>2. /\ UNCHANGED <<queue, writer, pc, call, on, answer, reply, seen>>
        /\ file'.landed = file.landed /\ file'.version = file.version
    BY DEF Halved, Threads, QInv, Typed, FileTyped
  <1>3. /\ \A l \in Conns \ {k} : conn'[l] = conn[l]
        /\ Kept(k) /\ Len(is) = Len(was) /\ DOMAIN is = DOMAIN was
        /\ \A i \in DOMAIN was :
             /\ is[i].task = was[i].task /\ is[i].awaited = was[i].awaited
             /\ IF i = 1 THEN was[i].name = "SCRIPT" /\ is[i].name = "INSERT"
                ELSE is[i].name = was[i].name
    BY HalvedJobs
  <1>4. was # <<>> /\ Len(was) \in DOMAIN was /\ 1 \in DOMAIN was
    <2>1. was \in Seq(Jobs) /\ was # <<>> /\ DOMAIN was = 1..Len(was) /\ Len(was) \in Nat
      BY ConnJobs DEF Halved
    <2> HIDE DEF was
    <2> QED
      BY <2>1
  <1>5. is # <<>>
    BY <1>3, <1>4
  <1>6. TaskQueued(u)' /\ TaskCalls(u)' /\ TaskLands(u)'
    BY <1>1, <1>2 DEF TaskOK, TaskQueued, TaskCalls, TaskLands, Holds
  <1>7. TaskWaits(u)'
    <2>1. TaskWaits(u)
      BY <1>1 DEF TaskOK
    <2>2. CASE on[u] # k \/ pc[u] \notin Busy
      BY <1>2, <1>3, <2>1, <2>2 DEF TaskWaits
    <2>3. CASE on[u] = k /\ pc[u] \in Busy
      <3>1. /\ conn[k].home = Home[u]
            /\ reply[u] # "none" => was = <<>>
            /\ reply[u] = "none" => /\ was[Len(was)].task = u /\ was[Len(was)].awaited
                                    /\ was[Len(was)].name \in Expected(pc[u])
        BY <2>1, <2>3 DEF TaskWaits
      <3>2. "SCRIPT" \in Expected(pc[u]) => "INSERT" \in Expected(pc[u])
        BY <2>3 DEF Expected, Migrating, Busy
      <3> HIDE DEF was, is
      <3>3. /\ is[Len(is)].task = u /\ is[Len(is)].awaited
            /\ is[Len(is)].name \in Expected(pc[u]) /\ reply[u] = "none"
        BY <1>3, <1>4, <3>1, <3>2
      <3> QED
        BY <1>2, <1>3, <1>5, <2>3, <3>1, <3>3 DEF TaskWaits, Kept, is
    <2> QED
      BY <2>2, <2>3
  <1> QED
    BY <1>6, <1>7 DEF TaskOK

LEMMA HalvedConns ==
  ASSUME QInv, NEW k \in Conns, Halved(k), Threads
  PROVE  (\A l \in Conns : ConnOK(l)') /\ OneInsert'
  <1> DEFINE was == conn[k].jobs
             is == conn'[k].jobs
  <1>1. ConnOK(k)
    BY DEF QInv
  <1>2. /\ UNCHANGED <<queue, writer, pc, call, on, answer, reply, seen, lock>>
        /\ file'.version = 0 /\ file'.half /\ ~file.half
    BY DEF Halved, Threads, QInv, Typed, FileTyped
  <1>3. /\ \A l \in Conns \ {k} : conn'[l] = conn[l]
        /\ Kept(k) /\ Len(is) = Len(was) /\ DOMAIN is = DOMAIN was
        /\ \A i \in DOMAIN was :
             /\ is[i].task = was[i].task /\ is[i].awaited = was[i].awaited
             /\ IF i = 1 THEN was[i].name = "SCRIPT" /\ is[i].name = "INSERT"
                ELSE is[i].name = was[i].name
    BY HalvedJobs
  <1>4. \A l \in Conns : ~Inserts(l)
    <2>1. \A l \in Conns : JobsMigrate(l)
      BY DEF QInv, ConnOK
    <2> QED
      BY <1>2, <2>1 DEF JobsMigrate, Inserts
  <1>5. \A l \in Conns, u \in Tasks : Mentions(l, u)' => Mentions(l, u)
    <2> TAKE l \in Conns, u \in Tasks
    <2>1. CASE l # k
      BY <1>3, <2>1 DEF Mentions
    <2>2. CASE l = k
      <3>1. conn'[k].writes = conn[k].writes
        BY <1>3 DEF Kept
      <3> QED
        BY <1>3, <2>2, <3>1 DEF Mentions
    <2> QED
      BY <2>1, <2>2
  <1>6. ASSUME NEW l \in Conns \ {k}
        PROVE  ConnOK(l)'
    <2>1. ConnOK(l) /\ conn'[l] = conn[l] /\ ~Inserts(l)
      BY <1>3, <1>4 DEF QInv
    <2>2. ConnHeld(l)' /\ JobsAwaited(l)' /\ JobsPlaced(l)'
      BY <1>2, <2>1 DEF ConnOK, ConnHeld, JobsAwaited, JobsPlaced, Written
    <2>3. JobsMigrate(l)'
      BY <1>2, <2>1 DEF ConnOK, JobsMigrate, Inserts
    <2>4. ConnWrites(l)'
      BY <1>2, <2>1 DEF ConnOK, ConnWrites, Carries, Written
    <2>5. ConnMentions(l)'
      BY <1>2, <1>5, <2>1 DEF ConnOK, ConnMentions
    <2> QED
      BY <2>2, <2>3, <2>4, <2>5 DEF ConnOK
  <1>7. ConnOK(k)'
    <2>1. conn[k].jobs # <<>> /\ First(k).name = "SCRIPT" /\ 1 \in DOMAIN was
      BY HeadFacts DEF Halved
    <2>2. conn[k].state = "open" /\ conn[k].writes = {} /\ \A u \in Tasks : ~Carries(k, u)
      BY <2>1, HeadFacts, ScriptCarriesNothing
    <2>3. ConnHeld(k)'
      BY <1>1, <1>2, <1>3, <2>2 DEF ConnOK, ConnHeld, Kept
    <2>4. JobsAwaited(k)'
      <3>1. JobsAwaited(k)
        BY <1>1 DEF ConnOK
      <3>2. \A at : "SCRIPT" \in Expected(at) => "INSERT" \in Expected(at)
        BY DEF Expected, Migrating
      <3>3. "SCRIPT" \in Migrating /\ "INSERT" \in Migrating
        BY DEF Migrating
      <3>4. \A i \in DOMAIN was :
              /\ was[i].awaited =>
                   /\ i = Len(was)
                   /\ pc[was[i].task] \in Busy /\ on[was[i].task] = k
                   /\ reply[was[i].task] = "none"
                   /\ was[i].name \in Expected(pc[was[i].task])
              /\ ~was[i].awaited =>
                   /\ was[i].name \in Migrating => pc[was[i].task] = "done"
                   /\ was[i].name = "COMMIT" => /\ pc[was[i].task] \in {"discard", "done"}
                                                /\ answer[was[i].task] = "inDoubt"
        BY <3>1 DEF JobsAwaited
      <3> HIDE DEF was, is
      <3>5. ASSUME NEW i \in DOMAIN is
            PROVE  /\ is[i].awaited =>
                        /\ i = Len(is)
                        /\ pc'[is[i].task] \in Busy /\ on'[is[i].task] = k
                        /\ reply'[is[i].task] = "none"
                        /\ is[i].name \in Expected(pc'[is[i].task])
                   /\ ~is[i].awaited =>
                        /\ is[i].name \in Migrating => pc'[is[i].task] = "done"
                        /\ is[i].name = "COMMIT" => /\ pc'[is[i].task] \in {"discard", "done"}
                                                    /\ answer'[is[i].task] = "inDoubt"
        <4>1. i \in DOMAIN was
          BY <1>3
        <4>2. CASE i = 1
          BY <1>2, <1>3, <3>2, <3>3, <3>4, <4>1, <4>2
        <4>3. CASE i # 1
          BY <1>2, <1>3, <3>4, <4>1, <4>3
        <4> QED
          BY <4>2, <4>3
      <3> QED
        BY ONLY <3>5 DEF JobsAwaited, is
    <2>5. JobsPlaced(k)'
      <3>1. JobsPlaced(k)
        BY <1>1 DEF ConnOK
      <3>2. conn'[k].tx = conn[k].tx /\ conn'[k].writes = conn[k].writes
        BY <1>3 DEF Kept
      <3>3. \A i \in DOMAIN was :
              /\ is[i].task = was[i].task
              /\ is[i].name = was[i].name \/ is[i].name = "INSERT"
        BY <1>3
      <3>4. Written(k)' <=> Written(k)
        BY <1>2 DEF Written
      <3> QED
        BY <1>2, <1>3, <3>1, <3>2, <3>3, <3>4 DEF JobsPlaced
    <2>6. JobsMigrate(k)'
      <3>1. JobsMigrate(k)
        BY <1>1 DEF ConnOK
      <3>2. \A i \in DOMAIN was :
              /\ was[i].name \in {"SCRIPT", "INSERT"} => seen[was[i].task] < LastVersion
              /\ was[i].name # "INSERT"
              /\ was[i].name \in Migrating =>
                   \A j \in DOMAIN was :
                     was[j].task = was[i].task /\ was[j].name \in Migrating => j = i
        BY <1>4, <3>1 DEF JobsMigrate, Inserts
      <3>3. "SCRIPT" \in Migrating /\ "INSERT" \in Migrating
        BY DEF Migrating
      <3> HIDE DEF was, is
      <3>4. \A i \in DOMAIN is :
              /\ is[i].task = was[i].task
              /\ is[i].name \in {"SCRIPT", "INSERT"} <=> was[i].name \in {"SCRIPT", "INSERT"}
              /\ is[i].name = "INSERT" <=> i = 1
              /\ is[i].name \in Migrating <=> was[i].name \in Migrating
        BY <1>3, <2>1, <3>2, <3>3
      <3>5. \A i \in DOMAIN is :
              /\ is[i].name \in {"SCRIPT", "INSERT"} => seen'[is[i].task] < LastVersion
              /\ is[i].name = "INSERT" => i = 1 /\ file'.half /\ file'.version = 0
              /\ is[i].name \in Migrating =>
                   \A j \in DOMAIN is :
                     is[j].task = is[i].task /\ is[j].name \in Migrating => j = i
        BY <1>2, <1>3, <3>2, <3>4
      <3> QED
        BY ONLY <3>5 DEF JobsMigrate, is
    <2>7. ConnWrites(k)'
      <3>1. \A u \in Tasks : Carries(k, u)' => Carries(k, u)
        <4>1. conn'[k].writes = conn[k].writes
          BY <1>3 DEF Kept
        <4> QED
          BY <1>3, <4>1 DEF Carries
      <3> QED
        BY <2>2, <3>1 DEF ConnWrites
    <2>8. ConnMentions(k)'
      BY <1>1, <1>2, <1>5 DEF ConnOK, ConnMentions
    <2> QED
      BY <2>3, <2>4, <2>5, <2>6, <2>7, <2>8 DEF ConnOK
  <1>8. OneInsert'
    <2>1. \A l \in Conns \ {k} : ~Inserts(l)'
      BY <1>3, <1>4 DEF Inserts
    <2> QED
      BY <2>1 DEF OneInsert
  <1> QED
    BY <1>6, <1>7, <1>8

LEMMA FirstScriptStep ==
  ASSUME QInv, NEW k \in Conns, FirstScript(k), Threads
  PROVE  QInv'
  <1>1. CASE Halved(k)
    <2>1. Typed'
      <3>1. conn' \in [Conns -> Connection]
        BY <1>1, HalvedJobs
      <3>2. file' \in [landed : SUBSET Tasks, version : 0..LastVersion, half : BOOLEAN]
        BY <1>1 DEF Halved, QInv, Typed, FileTyped
      <3> QED
        BY <1>1, <3>1, <3>2
           DEF Halved, Threads, QInv, Typed, TasksTyped, FileTyped, ConnsTyped
    <2> QED
      BY <1>1, <2>1, HalvedTasks, HalvedConns DEF QInv
  <1>2. CASE /\ Do(k, "INSERT", conn[k], "ok") /\ UNCHANGED lock
             /\ file' = [file EXCEPT !.half = FALSE, !.version = 1]
             /\ seen' = [seen EXCEPT ![First(k).task] = 1]
    BY <1>2, InsertStep
  <1>3. CASE Do(k, "SCRIPT", conn[k], "error") /\ UNCHANGED <<file, seen, lock>>
    <2>1. Fits(k, "SCRIPT", conn[k], "error")
      BY <1>3, SameFits
    <2> QED
      BY <1>3, <2>1, PlainStep
  <1>4. CASE Do(k, "INSERT", conn[k], "error") /\ UNCHANGED <<file, seen, lock>>
    <2>1. Fits(k, "INSERT", conn[k], "error")
      BY <1>4, SameFits
    <2> QED
      BY <1>4, <2>1, PlainStep
  <1> QED
    BY <1>1, <1>2, <1>3, <1>4 DEF FirstScript, Halved, First

(* The COMMIT in front of a script commits no write; what it may commit is *)
(* what a script that failed has made.                                     *)
LEMMA ImplicitCommitStep ==
  ASSUME QInv, NEW k \in Conns, ImplicitCommit(k), Threads
  PROVE  QInv'
  <1>1. conn[k].jobs # <<>> /\ First(k).name = "SCRIPT"
    BY DEF ImplicitCommit, First
  <1>2. conn[k].writes = {} /\ conn[k].state = "open" /\ First(k).task \in Tasks
        /\ \A u \in Tasks : ~Carries(k, u)
    BY <1>1, HeadFacts, ScriptCarriesNothing
  <1>3. UNCHANGED <<queue, writer, pc, call, on, answer, reply, seen>>
    BY DEF ImplicitCommit, Threads
  <1>4. lock' \in {lock, None} /\ lock' # k
    BY SqliteAssumption DEF ImplicitCommit, Unlocked
  <1>5. /\ Ended(k) \in Connection /\ Ended(k).home = conn[k].home
        /\ Ended(k).jobs = conn[k].jobs /\ Ended(k).state = conn[k].state
        /\ ~Ended(k).tx /\ Ended(k).writes = {}
    BY <1>2, AfterFacts
  <1>6. conn' = [conn EXCEPT ![k] = Ended(k)] /\ conn \in [Conns -> Connection]
    BY DEF ImplicitCommit, QInv, Typed, ConnsTyped
  <1>7. conn[k].half \in BOOLEAN
    BY <1>6 DEF Connection
  <1>8. file' \in [landed : SUBSET Tasks, version : 0..LastVersion, half : BOOLEAN]
    BY <1>2, <1>7 DEF ImplicitCommit, QInv, Typed, FileTyped
  <1>9. file.half => file'.half
    BY <1>2, <1>7 DEF ImplicitCommit, QInv, Typed, FileTyped
  <1>10. file'.landed = file.landed /\ file'.version = file.version
    BY <1>2, <1>7 DEF ImplicitCommit, QInv, Typed, FileTyped
  <1>11. /\ conn' \in [Conns -> Connection] /\ conn'[k] = Ended(k)
        /\ \A l \in Conns \ {k} : conn'[l] = conn[l]
    BY <1>5, <1>6
  <1>12. Typed'
    <2>1. TasksTyped' /\ ConnsTyped'
      BY <1>3, <1>11 DEF QInv, Typed, TasksTyped, ConnsTyped
    <2>2. FileTyped'
      BY <1>3, <1>4, <1>8 DEF QInv, Typed, FileTyped
    <2> QED
      BY <2>1, <2>2 DEF Typed
  <1>13. ASSUME NEW u \in Tasks
        PROVE  TaskOK(u)'
    <2>1. TaskOK(u)
      BY DEF QInv
    <2>2. TaskQueued(u)' /\ TaskCalls(u)' /\ TaskLands(u)'
      BY <1>3, <1>10, <2>1 DEF TaskOK, TaskQueued, TaskCalls, TaskLands, Holds
    <2>3. TaskWaits(u)'
      <3>1. CASE on[u] # k \/ pc[u] \notin Busy
        BY <1>3, <1>11, <2>1, <3>1 DEF TaskOK, TaskWaits
      <3>2. CASE on[u] = k /\ pc[u] \in Busy
        <4>1. reply[u] = "none"
          BY <1>1, <2>1, <3>2 DEF TaskOK, TaskWaits
        <4> QED
          BY <1>3, <1>5, <1>11, <2>1, <3>2, <4>1 DEF TaskOK, TaskWaits
      <3> QED
        BY <3>1, <3>2
    <2> QED
      BY <2>2, <2>3 DEF TaskOK
  <1>14. \A l \in Conns, u \in Tasks : Mentions(l, u)' => Mentions(l, u)
    BY <1>5, <1>11 DEF Mentions
  <1>15. ASSUME NEW l \in Conns
         PROVE  ConnOK(l)'
    <2>1. ConnOK(l)
      BY DEF QInv
    <2>2. /\ conn'[l].jobs = conn[l].jobs /\ conn'[l].home = conn[l].home
          /\ conn'[l].state = conn[l].state
          /\ \/ conn'[l] = conn[l] /\ l # k
             \/ ~conn'[l].tx /\ conn'[l].writes = {} /\ l = k
      BY <1>5, <1>11
    <2>3. ConnHeld(l)'
      BY SqliteAssumption, <1>2, <1>3, <1>4, <2>1, <2>2 DEF ConnOK, ConnHeld
    <2>4. JobsAwaited(l)' /\ JobsMigrate(l)'
      BY <1>3, <1>10, <1>9, <2>1, <2>2 DEF ConnOK, JobsAwaited, JobsMigrate
    <2>5. JobsPlaced(l)'
      <3>1. Written(l)' <=> Written(l)
        BY <1>3 DEF Written
      <3>2. CASE l # k
        BY <1>3, <2>1, <2>2, <3>1, <3>2 DEF ConnOK, JobsPlaced
      <3>3. CASE l = k
        <4>1. \A i \in DOMAIN conn[k].jobs : conn[k].jobs[i].name \notin {"WRITE", "COMMIT"}
          <5>1. conn[k].jobs[1].name = "SCRIPT" /\ 1 \in DOMAIN conn[k].jobs
            BY <1>1, HeadFacts
          <5> QED
            BY <2>1, <3>3, <5>1 DEF ConnOK, JobsPlaced
        <4> QED
          BY <2>1, <2>2, <3>1, <3>3, <4>1 DEF ConnOK, JobsPlaced
      <3> QED
        BY <3>2, <3>3
    <2>6. ConnWrites(l)'
      <3>1. Written(l)' <=> Written(l)
        BY <1>3 DEF Written
      <3>2. \A u \in Tasks : Carries(l, u)' => Carries(l, u)
        BY <2>2 DEF Carries
      <3> QED
        BY <1>3, <2>1, <2>2, <3>1, <3>2 DEF ConnOK, ConnWrites
    <2>7. ConnMentions(l)'
      BY <1>3, <1>14, <2>1 DEF ConnOK, ConnMentions
    <2> QED
      BY <2>3, <2>4, <2>5, <2>6, <2>7 DEF ConnOK
  <1>16. OneInsert'
    <2>1. \A l \in Conns : Inserts(l)' => Inserts(l)
      BY <1>5, <1>11 DEF Inserts
    <2> QED
      BY <2>1 DEF QInv, OneInsert
  <1> QED
    BY <1>12, <1>13, <1>15, <1>16 DEF QInv

(* Whatever a connection runs preserves the invariant.                     *)
LEMMA ExecuteInvariant ==
  ASSUME QInv, NEW k \in Conns, Execute(k)
  PROVE  QInv'
  <1>1. Threads
    BY DEF Execute, Threads
  <1> QED
    BY <1>1, BeginStep, WriteStep, CommitStep, RollbackStep, CloseStep, ReadVersionStep,
       ImplicitCommitStep, FirstScriptStep, LaterScriptStep
       DEF Execute

--------------------------------------------------------------------------------
(* A process dies.                                                         *)

Dying(p) == {t \in Tasks : Home[t] = p /\ pc[t] \notin {"idle", "done"}}
Mine(p) == {k \in Conns : conn[k].home = p}

LEMMA CrashFacts ==
  ASSUME QInv, NEW p \in Processes, Crash(p)
  PROVE  /\ UNCHANGED <<file, call, seen>>
         /\ \A t \in Dying(p) : /\ pc'[t] = "done" /\ answer'[t] = "dead"
                                /\ on'[t] = None /\ reply'[t] = "none"
         /\ \A t \in Tasks \ Dying(p) : /\ pc'[t] = pc[t] /\ answer'[t] = answer[t]
                                        /\ on'[t] = on[t] /\ reply'[t] = reply[t]
         /\ \A q \in Processes \ {p} : queue'[q] = queue[q] /\ writer'[q] = writer[q]
         /\ writer'[p] = None
         /\ \A k \in Mine(p) : /\ conn'[k].state = "closed" /\ conn'[k].jobs = <<>>
                               /\ ~conn'[k].tx /\ conn'[k].writes = {}
         /\ \A k \in Conns \ Mine(p) : conn'[k] = conn[k]
         /\ lock' \in {lock, None} /\ lock' \notin Mine(p)
         /\ Typed'
  <1> DEFINE S == Seq(Jobs)
             C == [home : Processes \cup {None}, state : {"new", "open", "closed"},
                   jobs : S, tx : BOOLEAN, writes : SUBSET Tasks, half : BOOLEAN]
             Dead(k) == [conn[k] EXCEPT !.state = "closed", !.jobs = <<>>,
                                        !.tx = FALSE, !.writes = {}, !.half = FALSE]
  <1>1. <<>> \in S
    OBVIOUS
  <1>2. Connection = C
    BY DEF Connection
  <1>3. \A k \in Conns : conn[k] \in C
    BY <1>2, ConnJobs
  <1> HIDE DEF S
  <1>4. \A k \in Conns : /\ Dead(k) \in C
                         /\ Dead(k).state = "closed" /\ Dead(k).jobs = <<>>
                         /\ ~Dead(k).tx /\ Dead(k).writes = {}
    BY <1>1, <1>3
  <1>5. conn' = [k \in Conns |-> IF k \in Mine(p) THEN Dead(k) ELSE conn[k]]
    BY DEF Crash, Mine
  <1> HIDE DEF C, Dead
  <1>6. /\ conn' \in [Conns -> C]
        /\ \A k \in Mine(p) : /\ conn'[k].state = "closed" /\ conn'[k].jobs = <<>>
                              /\ ~conn'[k].tx /\ conn'[k].writes = {}
        /\ \A k \in Conns \ Mine(p) : conn'[k] = conn[k]
    <2>1. \A k \in Conns : conn'[k] = IF k \in Mine(p) THEN Dead(k) ELSE conn[k]
      BY <1>5
    <2>2. \A k \in Mine(p) : k \in Conns
      BY DEF Mine
    <2> QED
      BY <1>3, <1>4, <1>5, <2>1, <2>2
  <1>7. lock' \in {lock, None} /\ lock' \notin Mine(p)
    BY SqliteAssumption DEF Crash, Mine
  <1>8. TasksTyped /\ FileTyped
    BY DEF QInv, Typed
  <1>9. /\ UNCHANGED <<file, call, seen>>
        /\ pc' = [t \in Tasks |-> IF t \in Dying(p) THEN "done" ELSE pc[t]]
        /\ answer' = [t \in Tasks |-> IF t \in Dying(p) THEN "dead" ELSE answer[t]]
        /\ on' = [t \in Tasks |-> IF t \in Dying(p) THEN None ELSE on[t]]
        /\ reply' = [t \in Tasks |-> IF t \in Dying(p) THEN "none" ELSE reply[t]]
        /\ queue' = [queue EXCEPT ![p] = <<>>]
        /\ writer' = [writer EXCEPT ![p] = None]
    BY DEF Crash, Dying
  <1>10. \A t \in Dying(p) : t \in Tasks
    BY DEF Dying
  <1>11. /\ queue' \in [Processes -> Seq(Tasks)]
         /\ \A q \in Processes \ {p} : queue'[q] = queue[q] /\ writer'[q] = writer[q]
         /\ writer'[p] = None
    BY <1>8, <1>9 DEF TasksTyped, FileTyped
  <1>12. FileTyped'
    BY <1>7, <1>8, <1>9 DEF FileTyped
  <1>13. TasksTyped'
    BY <1>8, <1>9, <1>11 DEF TasksTyped, Answers
  <1> QED
    BY <1>2, <1>6, <1>7, <1>9, <1>10, <1>11, <1>12, <1>13 DEF Typed, ConnsTyped

LEMMA CrashInvariant ==
  ASSUME QInv, NEW p \in Processes, Crash(p)
  PROVE  QInv'
  <1> USE SqliteAssumption
  <1>1. /\ UNCHANGED <<file, call, seen>>
        /\ \A t \in Dying(p) : /\ pc'[t] = "done" /\ answer'[t] = "dead"
                               /\ on'[t] = None /\ reply'[t] = "none"
        /\ \A t \in Tasks \ Dying(p) : /\ pc'[t] = pc[t] /\ answer'[t] = answer[t]
                                       /\ on'[t] = on[t] /\ reply'[t] = reply[t]
        /\ \A q \in Processes \ {p} : queue'[q] = queue[q] /\ writer'[q] = writer[q]
        /\ writer'[p] = None
        /\ \A k \in Mine(p) : /\ conn'[k].state = "closed" /\ conn'[k].jobs = <<>>
                              /\ ~conn'[k].tx /\ conn'[k].writes = {}
        /\ \A k \in Conns \ Mine(p) : conn'[k] = conn[k]
        /\ lock' \in {lock, None} /\ lock' \notin Mine(p)
    BY CrashFacts
  <1>2. Typed'
    BY CrashFacts
  <1>3. \A l \in Conns : writer'[p] # l /\ \A q \in Processes : writer'[q] = l => writer[q] = l
    BY <1>1
  <1>4. \A l \in Conns : Written(l)' => Written(l)
    BY <1>3 DEF Written
  <1>5. ASSUME NEW t \in Tasks
        PROVE  TaskOK(t)'
    <2>1. TaskOK(t)
      BY DEF QInv
    <2>2. CASE t \in Dying(p)
      <3>1. pc'[t] = "done" /\ answer'[t] = "dead" /\ on'[t] = None /\ reply'[t] = "none"
        BY <1>1, <2>2
      <3>2. TaskQueued(t)' /\ TaskCalls(t)' /\ TaskWaits(t)'
        BY <3>1 DEF TaskQueued, TaskCalls, TaskWaits, Busy
      <3>3. TaskLands(t)'
        BY <1>1, <2>1, <3>1 DEF TaskOK, TaskLands
      <3> QED
        BY <3>2, <3>3 DEF TaskOK
    <2>3. CASE t \notin Dying(p)
      <3>1. pc'[t] = pc[t] /\ answer'[t] = answer[t] /\ on'[t] = on[t] /\ reply'[t] = reply[t]
        BY <1>1, <2>3
      <3>2. pc[t] \notin {"idle", "done"} =>
              /\ Home[t] # p
              /\ queue'[Home[t]] = queue[Home[t]] /\ writer'[Home[t]] = writer[Home[t]]
        <4>1. pc[t] \notin {"idle", "done"} => Home[t] # p /\ Home[t] \in Processes
          BY <2>3 DEF Dying
        <4> QED
          BY <1>1, <4>1
      <3>3. pc[t] \in Busy => on[t] \in Conns /\ conn'[on[t]] = conn[on[t]]
        <4>1. pc[t] \in Busy => on[t] \in Conns /\ conn[on[t]].home = Home[t] /\ Home[t] # p
          BY <2>1, <3>2 DEF TaskOK, TaskWaits, Busy
        <4> QED
          BY <1>1, <4>1 DEF Mine
      <3>4. TaskQueued(t)'
        BY <2>1, <3>1, <3>2 DEF TaskOK, TaskQueued, Holds, Busy
      <3>5. TaskCalls(t)' /\ TaskLands(t)'
        BY <1>1, <2>1, <3>1 DEF TaskOK, TaskCalls, TaskLands
      <3>6. TaskWaits(t)'
        BY <2>1, <3>1, <3>3 DEF TaskOK, TaskWaits
      <3> QED
        BY <3>4, <3>5, <3>6 DEF TaskOK
    <2> QED
      BY <2>2, <2>3
  <1>6. \A l \in Conns, t \in Tasks : Mentions(l, t)' => Mentions(l, t) /\ l \notin Mine(p)
    <2> TAKE l \in Conns, t \in Tasks
    <2>1. CASE l \in Mine(p)
      <3>1. conn'[l].writes = {} /\ conn'[l].jobs = <<>>
        BY <1>1, <2>1
      <3>2. ~Mentions(l, t)'
        BY <3>1 DEF Mentions
      <3> QED
        BY <3>2
    <2>2. CASE l \notin Mine(p)
      BY <1>1, <2>2 DEF Mentions
    <2> QED
      BY <2>1, <2>2
  <1>7. ASSUME NEW l \in Conns \ Mine(p)
        PROVE  ConnOK(l)'
    <2>1. ConnOK(l) /\ conn'[l] = conn[l]
      BY <1>1 DEF QInv
    <2>2. ASSUME NEW t \in Tasks, Mentions(l, t)
          PROVE  pc'[t] = pc[t] /\ answer'[t] = answer[t] /\ on'[t] = on[t] /\ reply'[t] = reply[t]
      <3>1. (pc[t] \in Busy /\ on[t] = l) \/ pc[t] = "done"
        BY <2>1, <2>2 DEF ConnOK, ConnMentions
      <3>2. pc[t] \in Busy => conn[on[t]].home = Home[t]
        BY DEF QInv, TaskOK, TaskWaits
      <3>3. t \notin Dying(p)
        BY <3>1, <3>2 DEF Dying, Mine
      <3> QED
        BY <1>1, <3>3
    <2>3. \A i \in DOMAIN conn[l].jobs :
            conn[l].jobs[i].task \in Tasks /\ Mentions(l, conn[l].jobs[i].task)
      BY ConnJobs DEF Mentions
    <2>4. ConnHeld(l)'
      BY <1>1, <1>3, <2>1 DEF ConnOK, ConnHeld
    <2>5. JobsAwaited(l)'
      BY <2>1, <2>2, <2>3 DEF ConnOK, JobsAwaited
    <2>6. JobsPlaced(l)' /\ JobsMigrate(l)'
      BY <1>1, <1>4, <2>1 DEF ConnOK, JobsPlaced, JobsMigrate
    <2>7. ConnWrites(l)'
      <3> SUFFICES ASSUME NEW t \in Tasks, Carries(l, t)'
                   PROVE  /\ \A i \in DOMAIN conn'[l].jobs :
                               /\ conn'[l].jobs[i].task = t
                               /\ conn'[l].jobs[i].name \in {"WRITE", "COMMIT", "ROLLBACK", "CLOSE"}
                          /\ \/ pc'[t] \in {"body", "commit", "rollback"} /\ on'[t] = l
                             \/ pc'[t] \in {"discard", "done"} /\ ~Written(l)'
        BY DEF ConnWrites
      <3>1. Carries(l, t)
        BY <2>1 DEF Carries
      <3>2. Mentions(l, t)
        BY <3>1 DEF Carries, Mentions
      <3>3. /\ \A i \in DOMAIN conn[l].jobs :
                 /\ conn[l].jobs[i].task = t
                 /\ conn[l].jobs[i].name \in {"WRITE", "COMMIT", "ROLLBACK", "CLOSE"}
            /\ \/ pc[t] \in {"body", "commit", "rollback"} /\ on[t] = l
               \/ pc[t] \in {"discard", "done"} /\ ~Written(l)
        BY <2>1, <3>1 DEF ConnOK, ConnWrites
      <3>4. Written(l)' => Written(l)
        BY <1>4
      <3>5. pc'[t] = pc[t] /\ on'[t] = on[t]
        BY <2>2, <3>2
      <3> QED
        BY ONLY <2>1, <3>3, <3>4, <3>5
    <2>8. ConnMentions(l)'
      <3> SUFFICES ASSUME NEW t \in Tasks, Mentions(l, t)'
                   PROVE  /\ (pc'[t] \in Busy /\ on'[t] = l) \/ pc'[t] = "done"
                          /\ \A m \in Conns : Mentions(m, t)' => m = l
        BY DEF ConnMentions
      <3>1. Mentions(l, t)
        BY <1>6
      <3> QED
        BY <1>6, <2>1, <2>2, <3>1 DEF ConnOK, ConnMentions
    <2> QED
      BY <2>4, <2>5, <2>6, <2>7, <2>8 DEF ConnOK
  <1>8. ASSUME NEW l \in Conns, l \in Mine(p)
        PROVE  ConnOK(l)'
    <2>1. /\ conn'[l].state = "closed" /\ conn'[l].jobs = <<>>
          /\ ~conn'[l].tx /\ conn'[l].writes = {}
      BY <1>1, <1>8
    <2>2. \A i \in DOMAIN conn'[l].jobs : FALSE
      BY <2>1
    <2>3. \A q \in Processes : writer'[q] # l
      <3> SUFFICES ASSUME NEW q \in Processes, writer'[q] = l PROVE FALSE
        OBVIOUS
      <3>1. writer[q] = l /\ q # p
        BY <1>3
      <3>2. conn[l].home = q
        BY <3>1 DEF QInv, ConnOK, ConnHeld
      <3> QED
        BY <1>8, <3>1, <3>2 DEF Mine
    <2>4. ConnHeld(l)'
      BY <1>1, <1>8, <2>1, <2>3 DEF ConnHeld
    <2>5. JobsAwaited(l)' /\ JobsPlaced(l)' /\ JobsMigrate(l)'
      BY <2>2 DEF JobsAwaited, JobsPlaced, JobsMigrate
    <2>6. ConnWrites(l)' /\ ConnMentions(l)'
      BY <2>1, <2>2 DEF ConnWrites, ConnMentions, Carries, Mentions
    <2> QED
      BY <2>4, <2>5, <2>6 DEF ConnOK
  <1>9. OneInsert'
    <2>1. ASSUME NEW l \in Conns, Inserts(l)'
          PROVE  Inserts(l)
      <3>1. CASE l \in Mine(p)
        <4>1. conn'[l].jobs = <<>>
          BY <1>1, <3>1
        <4>2. ~Inserts(l)'
          BY <4>1 DEF Inserts
        <4> QED
          BY <2>1, <4>2
      <3>2. CASE l \notin Mine(p)
        BY <1>1, <2>1, <3>2 DEF Inserts
      <3> QED
        BY <3>1, <3>2
    <2> QED
      BY <2>1 DEF QInv, OneInsert
  <1> QED
    BY <1>2, <1>5, <1>7, <1>8, <1>9 DEF QInv

--------------------------------------------------------------------------------
(* The theorems.                                                           *)

LEMMA QInit == Init => QInv
  <1> SUFFICES ASSUME Init PROVE QInv
    OBVIOUS
  <1> USE SqliteAssumption
  <1> DEFINE S == Seq(Jobs)
  <1>1. Fresh \in Connection
    <2>1. <<>> \in S
      OBVIOUS
    <2>2. Connection = [home : Processes \cup {None}, state : {"new", "open", "closed"},
                        jobs : S, tx : BOOLEAN, writes : SUBSET Tasks, half : BOOLEAN]
      BY DEF Connection
    <2> HIDE DEF S
    <2> QED
      BY <2>1, <2>2 DEF Fresh
  <1>2. PICK s \in Scenarios :
          call = s.call /\ file = [landed |-> {}, version |-> s.version, half |-> FALSE]
    BY DEF Init
  <1>3. /\ call \in [Tasks -> {"write", "migrate", "close"}]
        /\ file.version \in 0..LastVersion /\ file.landed = {}
        /\ file \in [landed : SUBSET Tasks, version : 0..LastVersion, half : BOOLEAN]
    BY <1>2
  <1>4. \A k \in Conns : /\ conn[k] = Fresh /\ conn[k].home = None /\ conn[k].state = "new"
                         /\ conn[k].jobs = <<>> /\ ~conn[k].tx /\ conn[k].writes = {}
    BY DEF Init, Fresh
  <1>5. Typed
    <2>1. conn \in [Conns -> Connection]
      BY <1>1 DEF Init
    <2>2. <<>> \in Seq(Tasks)
      OBVIOUS
    <2>3. 0 \in 0..LastVersion
      BY DEF LastVersion
    <2>4. TasksTyped
      BY <1>3, <2>2 DEF Init, TasksTyped, Answers
    <2>5. FileTyped
      BY <1>3, <2>3 DEF Init, FileTyped
    <2> QED
      BY <2>1, <2>4, <2>5 DEF Typed, ConnsTyped
  <1>6. ASSUME NEW t \in Tasks
        PROVE  TaskOK(t)
    <2>1. TaskQueued(t) /\ TaskCalls(t) /\ TaskWaits(t)
      BY DEF Init, TaskQueued, TaskCalls, TaskWaits, Busy
    <2>2. TaskLands(t)
      <3>1. seen[t] = 0 /\ seen[t] <= file.version
        BY <1>3 DEF Init, LastVersion
      <3> QED
        BY <1>3, <3>1 DEF Init, TaskLands
    <2> QED
      BY <2>1, <2>2 DEF TaskOK
  <1>7. ASSUME NEW k \in Conns
        PROVE  ConnOK(k) /\ ~Inserts(k)
    <2>1. \A i \in DOMAIN conn[k].jobs : FALSE
      BY <1>4
    <2>2. ConnHeld(k)
      BY <1>4 DEF Init, ConnHeld
    <2>3. JobsAwaited(k) /\ JobsPlaced(k) /\ JobsMigrate(k)
      BY <2>1 DEF JobsAwaited, JobsPlaced, JobsMigrate
    <2>4. ConnWrites(k) /\ ConnMentions(k) /\ ~Inserts(k)
      BY <1>4, <2>1 DEF ConnWrites, ConnMentions, Carries, Mentions, Inserts
    <2> QED
      BY <2>2, <2>3, <2>4 DEF ConnOK
  <1> QED
    BY <1>5, <1>6, <1>7 DEF QInv, OneInsert

LEMMA QStutter == QInv /\ UNCHANGED vars => QInv'
  <1> SUFFICES ASSUME QInv, UNCHANGED vars PROVE QInv'
    OBVIOUS
  <1>1. UNCHANGED <<file, lock, conn, queue, writer, pc, call, on, reply, answer, seen>>
    BY DEF vars
  <1>2. Typed'
    BY <1>1 DEF QInv, Typed, TasksTyped, FileTyped, ConnsTyped
  <1>3. \A t \in Tasks : TaskOK(t)'
    BY <1>1 DEF QInv, TaskOK, TaskQueued, TaskCalls, TaskWaits, TaskLands, Holds
  <1>4. \A k \in Conns : Written(k)' <=> Written(k)
    BY <1>1 DEF Written
  <1>5. \A k \in Conns : ConnOK(k)'
    <2> TAKE k \in Conns
    <2>1. ConnOK(k)
      BY DEF QInv
    <2>2. ConnHeld(k)' /\ JobsAwaited(k)' /\ JobsPlaced(k)' /\ JobsMigrate(k)'
      BY <1>1, <1>4, <2>1 DEF ConnOK, ConnHeld, JobsAwaited, JobsPlaced, JobsMigrate
    <2>3. ConnWrites(k)' /\ ConnMentions(k)'
      BY <1>1, <1>4, <2>1 DEF ConnOK, ConnWrites, ConnMentions, Carries, Mentions
    <2> QED
      BY <2>1, <2>2, <2>3 DEF ConnOK
  <1>6. OneInsert'
    BY <1>1 DEF QInv, OneInsert, Inserts
  <1> QED
    BY <1>2, <1>3, <1>5, <1>6 DEF QInv

(* What the tasks, the threads and the crashes rely on holds throughout.   *)
THEOREM SqliteSpecInvariant == Spec => []QInv
  <1>1. ASSUME QInv, [Next]_vars
        PROVE  QInv'
    <2>1. CASE \E t \in Tasks : Enqueue(t) \/ Resume(t) \/ OpenFails(t) \/ CancelQueued(t)
      BY <1>1, <2>1, TaskInvariant
    <2>2. CASE \E k \in Conns : Execute(k)
      BY <1>1, <2>2, ExecuteInvariant
    <2>3. CASE \E p \in Processes : Crash(p)
      BY <1>1, <2>3, CrashInvariant
    <2>4. CASE UNCHANGED vars
      BY <1>1, <2>4, QStutter
    <2> QED
      BY <1>1, <2>1, <2>2, <2>3, <2>4 DEF Next
  <1> QED
    BY <1>1, QInit, PTL DEF Spec

(* The writer connection that the next holder of the queue is given has no *)
(* writes of an earlier one to commit (SqliteBackend.transaction).         *)
THEOREM WritersInheritNothing == Spec => []NoInheritedWrites
  <1>1. ASSUME QInv
        PROVE  NoInheritedWrites
    <2> USE SqliteAssumption
    <2> SUFFICES ASSUME NEW p \in Processes, writer[p] # None, NEW t \in conn[writer[p]].writes
                 PROVE  queue[p] # <<>> /\ Head(queue[p]) = t
      BY DEF NoInheritedWrites
    <2>1. PICK k \in Conns : writer[p] = k
      BY <1>1 DEF QInv, Typed, FileTyped
    <2>2. t \in Tasks /\ Carries(k, t) /\ Written(k) /\ conn[k].home = p
      <3>1. t \in Tasks
        BY <1>1, <2>1, ConnJobs DEF Connection
      <3>2. conn[k].home = p
        BY <1>1, <2>1 DEF QInv, ConnOK, ConnHeld
      <3> QED
        BY <2>1, <3>1, <3>2 DEF Carries, Written
    <2>3. pc[t] \in {"body", "commit", "rollback"} /\ on[t] = k
      BY <1>1, <2>2 DEF QInv, ConnOK, ConnWrites
    <2>4. Holds(t) /\ Home[t] = p
      BY <1>1, <2>2, <2>3 DEF QInv, TaskOK, TaskQueued, TaskWaits, Busy
    <2> QED
      BY <2>4 DEF Holds
  <1> QED
    BY <1>1, SqliteSpecInvariant, PTL

(* What a call says of its transaction is what the file has, whatever      *)
(* fails, dies or is cancelled (SqliteBackend.transaction).                *)
THEOREM AnswersAreTrue == Spec => []AnswersMatchFile
  <1>1. QInv => AnswersMatchFile
    BY DEF QInv, TaskOK, TaskLands, AnswersMatchFile
  <1> QED
    BY <1>1, SqliteSpecInvariant, PTL

(* A migration that returns leaves the last version in the file, for any   *)
(* number of processes that migrate at once (SqliteBackend.migrate).       *)
THEOREM MigrationsComplete == Spec => []MigrateCompletes
  <1>1. QInv => MigrateCompletes
    BY DEF QInv, TaskOK, TaskLands, MigrateCompletes
  <1> QED
    BY <1>1, SqliteSpecInvariant, PTL

(* The file, its lock, the connections and the answers have their types;   *)
(* a connection that is not open is in no transaction and is no writer.    *)
THEOREM SqliteTypesAreCorrect == Spec => []SqliteTypeOK
  <1>1. ASSUME QInv
        PROVE  SqliteTypeOK
    <2> USE SqliteAssumption
    <2>1. Typed /\ \A k \in Conns : conn[k] \in Connection /\ ConnHeld(k)
      BY <1>1, ConnJobs DEF QInv, ConnOK
    <2>2. \A k \in Conns : /\ conn[k].writes \subseteq Tasks
                           /\ conn[k].state # "open" => ~conn[k].tx /\ lock # k
      BY <2>1 DEF ConnHeld, Connection
    <2>3. \A p \in Processes : writer[p] # None => conn[writer[p]].state = "open"
      <3> TAKE p \in Processes
      <3> HAVE writer[p] # None
      <3>1. PICK k \in Conns : writer[p] = k
        BY <2>1 DEF Typed, FileTyped
      <3>2. ConnHeld(k)
        BY <2>1
      <3> QED
        BY <3>1, <3>2 DEF ConnHeld
    <2> QED
      BY <2>1, <2>2, <2>3 DEF Typed, TasksTyped, FileTyped, SqliteTypeOK
  <1> QED
    BY <1>1, SqliteSpecInvariant, PTL
================================================================================
