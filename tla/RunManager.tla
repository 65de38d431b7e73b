----------------------------- MODULE RunManager -----------------------------
(***************************************************************************)
(* The RunManager of src/horse_fish/orchestrator/run_manager.py: runs are  *)
(* submitted as rows of the SQLite table runs, the event loop of start()   *)
(* turns the oldest queued rows into asyncio tasks, and cancel() is called *)
(* on the manager that owns the tasks or, by `hf cancel`, on another       *)
(* manager in another process that shares only the database.               *)
(*                                                                         *)
(* One iteration of the loop has no suspension point, so nothing else      *)
(* happens in its process between two sleeps; but every statement on the   *)
(* database is a step of its own, between which other processes may act.   *)
(***************************************************************************)
EXTENDS Naturals, FiniteSets

CONSTANTS
  Run,            \* the ids submit() may hand out
  MaxConcurrent,  \* max_concurrent_runs
  Outcome,        \* states in which Orchestrator.run may return
  MaxCrashes      \* bound on how often the manager's process dies

ASSUME ManagerAssumption ==
  /\ IsFiniteSet(Run)
  /\ MaxConcurrent \in Nat \ {0} /\ MaxCrashes \in Nat
  /\ Outcome \subseteq {"completed", "failed", "partial_success"}

VARIABLES
  row, at,       \* the runs table: state (or "none") and created_at
  loop,          \* where start() is; "down" when no process runs it
  picked,        \* rows fetched by _dispatch_queued_runs, not yet launched
  task, outcome, \* the asyncio task of a run, and how it ends
  active,        \* keys of _active_tasks
  cancelling,    \* tasks on which task.cancel() has been called
  awaiting,      \* runs whose cancel() waits for the task in this process
  remote,        \* runs an `hf cancel` found worth cancelling, not yet written
  asked,         \* history: runs somebody asked to cancel
  crashes

rows  == <<row, at>>
tasks == <<task, outcome, active, cancelling, awaiting>>
vars  == <<rows, loop, picked, tasks, remote, asked, crashes>>

RowState == {"none", "queued", "planning", "completed", "partial_success",
             "failed", "cancelled"}
Terminal == {"completed", "failed", "cancelled"}     \* as cancel() tests it
Loop     == {"down", "idle", "check", "fetch", "launch", "stopping"}
TaskState == {"none", "running", "cleaning", "done", "gone"}
Ending    == {"none", "raised", "cancelled", "completed", "failed", "partial_success"}

\* A mutant of Queued: whatever was submitted and has no task is waiting.
Unserved == {r \in Run : row[r] # "none" /\ task[r] = "none"}

Queued == {r \in Run : row[r] = "queued"}
Alive  == {r \in Run : task[r] \in {"running", "cleaning"}}

\* A mutant of Done: a task is taken for finished without asking it.
AllActive == active

Done == {r \in active : task[r] = "done"}

TypeOK ==
  /\ row \in [Run -> RowState] /\ at \in [Run -> Nat]
  /\ loop \in Loop /\ picked \subseteq Run
  /\ task \in [Run -> TaskState] /\ outcome \in [Run -> Ending]
  /\ active \subseteq Run /\ cancelling \subseteq Run /\ awaiting \subseteq Run
  /\ remote \subseteq Run /\ asked \subseteq Run /\ crashes \in 0 .. MaxCrashes

Init ==
  /\ row = [r \in Run |-> "none"] /\ at = [r \in Run |-> 0]
  /\ loop = "down" /\ picked = {}
  /\ task = [r \in Run |-> "none"] /\ outcome = [r \in Run |-> "none"]
  /\ active = {} /\ cancelling = {} /\ awaiting = {}
  /\ remote = {} /\ asked = {} /\ crashes = 0

Write(r, state) == row' = [row EXCEPT ![r] = state] /\ UNCHANGED at

-----------------------------------------------------------------------------
(* submit(), in any process *)

Submit(r) ==
  /\ row[r] = "none"
  /\ row' = [row EXCEPT ![r] = "queued"]
  /\ at' = [at EXCEPT ![r] = Cardinality({q \in Run : row[q] # "none"}) + 1]
  /\ UNCHANGED <<loop, picked, tasks, remote, asked, crashes>>

-----------------------------------------------------------------------------
(* start(): one iteration is _check_completed_tasks, then, if a slot is free,
   _dispatch_queued_runs, then the wait *)

Goto(from, to) ==
  /\ loop = from /\ loop' = to
  /\ UNCHANGED <<tasks, remote, asked, crashes>>

\* A process starts the manager, with an empty _active_tasks.
Start == Goto("down", "check") /\ UNCHANGED <<rows, picked>>

\* The wait for the shutdown event times out.
Wake == Goto("idle", "check") /\ UNCHANGED <<rows, picked>>

\* Mutants of Reap: an exception reported as such, a run that keeps its slot, a
\* run that is not reported.
ReapRaw(r) ==
  /\ loop = "check" /\ r \in Done
  /\ Write(r, outcome[r])
  /\ active' = active \ {r}
  /\ UNCHANGED <<loop, picked, task, outcome, cancelling, awaiting, remote, asked, crashes>>

ReapKeeps(r) ==
  /\ loop = "check" /\ r \in Done
  /\ Write(r, IF outcome[r] = "raised" THEN "failed" ELSE outcome[r])
  /\ UNCHANGED <<loop, picked, tasks, remote, asked, crashes>>

ReapSilent(r) ==
  /\ loop = "check" /\ r \in Done
  /\ active' = active \ {r}
  /\ UNCHANGED <<rows, loop, picked, task, outcome, cancelling, awaiting, remote, asked, crashes>>

\* A finished task is reported with its result, "cancelled" or "failed".
Reap(r) ==
  /\ loop = "check" /\ r \in Done
  /\ Write(r, IF outcome[r] = "raised" THEN "failed" ELSE outcome[r])
  /\ active' = active \ {r}
  /\ UNCHANGED <<loop, picked, task, outcome, cancelling, awaiting, remote, asked, crashes>>

EndCheck ==
  /\ Done = {}
  /\ Goto("check", IF Cardinality(active) < MaxConcurrent THEN "fetch" ELSE "idle")
  /\ UNCHANGED <<rows, picked>>

\* A mutant of Oldest: the limit is applied to the fetch alone.
OldestRegardless(S) ==
  /\ S \subseteq Queued
  /\ Cardinality(S) <= MaxConcurrent
  /\ \A q \in Queued \ S : Cardinality(S) = MaxConcurrent /\ \A r \in S : at[r] < at[q]

\* The oldest queued rows, as many as there are free slots.
Oldest(S) ==
  /\ S \subseteq Queued
  /\ Cardinality(S) + Cardinality(active) <= MaxConcurrent
  /\ \A q \in Queued \ S :
       /\ Cardinality(S) + Cardinality(active) = MaxConcurrent
       /\ \A r \in S : at[r] < at[q]

Fetch ==
  /\ Goto("fetch", "launch")
  /\ \E S \in SUBSET Queued : Oldest(S) /\ picked' = S
  /\ UNCHANGED rows

\* A mutant of Launch: the row is not marked.
LaunchUnmarked(r) ==
  /\ loop = "launch" /\ r \in picked /\ \A q \in picked : at[r] <= at[q]
  /\ picked' = picked \ {r}
  /\ task' = [task EXCEPT ![r] = "running"]
  /\ active' = active \cup {r}
  /\ UNCHANGED <<rows, loop, outcome, cancelling, awaiting, remote, asked, crashes>>

\* The next fetched run, whatever has become of its row since, is marked as
\* planning and gets a task.
Launch(r) ==
  /\ loop = "launch" /\ r \in picked /\ \A q \in picked : at[r] <= at[q]
  /\ picked' = picked \ {r}
  /\ Write(r, "planning")
  /\ task' = [task EXCEPT ![r] = "running"]
  /\ active' = active \cup {r}
  /\ UNCHANGED <<loop, outcome, cancelling, awaiting, remote, asked, crashes>>

EndLaunch == picked = {} /\ Goto("launch", "idle") /\ UNCHANGED <<rows, picked>>

-----------------------------------------------------------------------------
(* _run_orchestrator: the task of a run, while the loop waits *)

Waiting == loop \in {"idle", "stopping"}

TaskStep(r, from, to) ==
  /\ Waiting /\ task[r] = from /\ task' = [task EXCEPT ![r] = to]
  /\ UNCHANGED <<rows, loop, picked, active, cancelling, awaiting, remote, asked, crashes>>

\* Orchestrator.run returns or raises, or CancelledError interrupts it; either
\* way the finally block cleans the pool up.
RunEnds(r) ==
  /\ TaskStep(r, "running", "cleaning")
  /\ \E e \in IF r \in cancelling THEN {"cancelled"} ELSE Outcome \cup {"raised"} :
       outcome' = [outcome EXCEPT ![r] = e]

\* A cancellation that arrives during the cleanup cuts it short and replaces
\* the result.
CleanupEnds(r) ==
  /\ TaskStep(r, "cleaning", "done")
  /\ outcome' = IF r \in cancelling THEN [outcome EXCEPT ![r] = "cancelled"] ELSE outcome

-----------------------------------------------------------------------------
(* cancel() on the manager that runs the loop *)

Ask(r) == asked' = asked \cup {r} /\ UNCHANGED <<loop, picked, remote, crashes>>

\* Not active here: a queued row, or one a previous process left behind.
CancelRow(r) ==
  /\ Waiting /\ row[r] \notin Terminal \cup {"none"}
  /\ row[r] = "queued" \/ r \notin active
  /\ Ask(r)
  /\ Write(r, "cancelled")
  /\ UNCHANGED tasks

\* Active: cancel the task and wait for it.  (A second cancel() that waits too
\* changes nothing more.)
CancelTask(r) ==
  /\ Waiting /\ row[r] \notin Terminal \cup {"queued"}
  /\ r \in active \ (awaiting \cup Done)
  /\ Ask(r)
  /\ cancelling' = cancelling \cup {r} /\ awaiting' = awaiting \cup {r}
  /\ UNCHANGED <<rows, task, outcome, active>>

\* The awaited task is done: it is forgotten and its row is written.  An exception
\* of it propagates out of cancel(), and so does the KeyError if the loop has
\* reported and removed it already.
Conclude(r) ==
  /\ IF r \in active /\ outcome[r] # "raised"
     THEN Write(r, "cancelled") /\ active' = active \ {r}
     ELSE UNCHANGED <<rows, active>>
  /\ UNCHANGED <<loop, picked, task, outcome, cancelling, remote, crashes>>

\* Active, but over and not yet reported: nothing is left to wait for.
CancelDone(r) ==
  /\ Waiting /\ row[r] \notin Terminal \cup {"queued"}
  /\ r \in Done \ awaiting
  /\ Conclude(r)
  /\ asked' = asked \cup {r} /\ UNCHANGED awaiting

\* A mutant of CancelResumes: the task is not awaited.
CancelAtOnce(r) ==
  /\ Waiting /\ r \in awaiting
  /\ Conclude(r)
  /\ awaiting' = awaiting \ {r} /\ UNCHANGED asked

CancelResumes(r) ==
  /\ Waiting /\ r \in awaiting /\ task[r] = "done"
  /\ Conclude(r)
  /\ awaiting' = awaiting \ {r} /\ UNCHANGED asked

-----------------------------------------------------------------------------
(* cancel() on a manager of another process: nothing is active there, and no
   agent carries the id of the row, so it only reads and then writes the row *)

RemoteRead(r) ==
  /\ row[r] \notin Terminal \cup {"none"} /\ r \notin remote
  /\ remote' = remote \cup {r} /\ asked' = asked \cup {r}
  /\ UNCHANGED <<rows, loop, picked, tasks, crashes>>

RemoteWrite(r) ==
  /\ r \in remote /\ remote' = remote \ {r}
  /\ Write(r, "cancelled")
  /\ UNCHANGED <<loop, picked, tasks, asked, crashes>>

-----------------------------------------------------------------------------
(* stop(), and the process going away *)

Stop == Goto("idle", "stopping") /\ UNCHANGED <<rows, picked>>

\* The tasks that are not done are cancelled, each once the one before is done.
StopCancel(r) ==
  /\ loop = "stopping" /\ r \in active \ (cancelling \cup Done)
  /\ (active \cap cancelling) \ awaiting \subseteq Done
  /\ cancelling' = cancelling \cup {r}
  /\ UNCHANGED <<rows, loop, picked, task, outcome, active, awaiting, remote, asked, crashes>>

\* The process is gone, with the tasks it had; the rows stay as they are.
Exit ==
  /\ loop' = "down" /\ picked' = {}
  /\ active' = {} /\ cancelling' = {} /\ awaiting' = {}
  /\ task' = [r \in Run |-> IF r \in Alive THEN "gone" ELSE task[r]]
  /\ UNCHANGED <<rows, outcome, remote, asked>>

\* All tasks are done, or the exception of one of them propagates out of stop().
StopEnd ==
  /\ loop = "stopping"
  /\ active = Done \/ \E r \in Done : outcome[r] = "raised"
  /\ Exit
  /\ UNCHANGED crashes

Crash ==
  /\ loop # "down" /\ crashes < MaxCrashes
  /\ Exit
  /\ crashes' = crashes + 1

-----------------------------------------------------------------------------

EventLoop ==
  \/ Start \/ Wake \/ EndCheck \/ Fetch \/ EndLaunch \/ StopEnd
  \/ \E r \in Run : Reap(r) \/ Launch(r) \/ StopCancel(r)

Tasks == \E r \in Run : RunEnds(r) \/ CleanupEnds(r) \/ CancelResumes(r)

Clients ==
  \E r \in Run : Submit(r) \/ CancelRow(r) \/ CancelTask(r) \/ CancelDone(r)
                \/ RemoteRead(r) \/ RemoteWrite(r)

Next == EventLoop \/ Tasks \/ Clients \/ Stop \/ Crash

Spec == Init /\ [][Next]_vars

\* The event loop keeps turning, a process runs it again after it went down, and
\* every orchestrator run ends; nobody has to submit, cancel or stop anything.
\* Strong fairness, because a task moves only while the loop waits, and asyncio
\* serves every ready task each time it does.
FairSpec ==
  /\ Spec
  /\ WF_vars(EventLoop)
  /\ \A r \in Run : SF_vars(RunEnds(r)) /\ SF_vars(CleanupEnds(r))
=============================================================================
