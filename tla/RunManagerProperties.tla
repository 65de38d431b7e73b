------------------------ MODULE RunManagerProperties ------------------------
(***************************************************************************)
(* The correctness properties of the RunManager.                           *)
(***************************************************************************)
EXTENDS RunManager

Finished == {"completed", "partial_success", "failed"}

-----------------------------------------------------------------------------
(* Safety *)

\* Only max_concurrent_runs orchestrators are at work at once, although the limit
\* is computed from the keys of _active_tasks, which cancel(), the loop and
\* stop() remove on their own.
RunLimit == Cardinality(Alive) <= MaxConcurrent

\* An orchestrator at work is known to the manager: whatever removes a run from
\* _active_tasks, it does so only once its task is over, so no orchestrator runs
\* that could no longer be cancelled or reported.
NoStrayTask == Alive \subseteq active

\* A row says completed or failed only when the run is over, pool cleanup
\* included, and with the result its own orchestrator returned; it says
\* cancelled only when somebody asked for that.
ReportedOutcome ==
  \A r \in Run :
    /\ row[r] \in Finished => task[r] = "done" /\
         row[r] = IF outcome[r] = "raised" THEN "failed" ELSE outcome[r]
    /\ row[r] = "cancelled" => r \in asked

\* A submitted task is executed at most once, whatever is cancelled, stopped,
\* killed and started again.
AtMostOnce ==
  [][\A r \in Run : task[r] # "none" => task'[r] = task[r] \/ task'[r] # "running"]_vars

\* A cancelled run stays cancelled, for good, unless the loop had fetched its row
\* before the cancellation or still holds its task (hf cancel of another process):
\* only those two write over the word of a cancel().
CancelFinal ==
  [][\A r \in Run :
       row[r] = "cancelled" /\ r \notin picked \cup active
         => row'[r] = "cancelled" /\ r \notin picked' \cup active']_vars

-----------------------------------------------------------------------------
(* The inductive invariant behind them *)

\* Rows that were never taken up have no task, and a task that got to its
\* cleanup has a result.
RowInv ==
  \A r \in Run :
    /\ row[r] \in {"none", "queued"} => task[r] = "none"
    /\ task[r] = "none" => outcome[r] = "none" /\ r \notin active \cup cancelling
    /\ task[r] \in {"cleaning", "done"} => outcome[r] # "none"

\* What was fetched has no task yet and fits into the free slots.
SlotInv ==
  /\ loop # "launch" => picked = {}
  /\ loop = "down" => active = {}
  /\ \A r \in picked : task[r] = "none"
  /\ Cardinality(active) + Cardinality(picked) <= MaxConcurrent

\* Outside stop(), only tasks somebody asked to cancel are or get cancelled.
AskedInv ==
  /\ remote \subseteq asked /\ awaiting \subseteq asked
  /\ loop # "stopping" =>
       \A r \in active : r \in cancelling \/ outcome[r] = "cancelled" => r \in asked

\* The inductive invariant of the manager.
MInv == TypeOK /\ NoStrayTask /\ RowInv /\ SlotInv /\ AskedInv /\ ReportedOutcome

-----------------------------------------------------------------------------
(* Progress *)

\* Every queued run is eventually taken up or cancelled, also when the process
\* is stopped or dies in between: slots held by lost runs do not stay taken.
QueueDrains == \A r \in Run : row[r] = "queued" ~> row[r] # "queued"

\* A run that was started is eventually reported with a terminal state, unless
\* the process that runs it goes away.
RunsEnd ==
  \A r \in Run : task[r] = "running" ~> row[r] \in Terminal \cup Finished \/ loop = "down"
=============================================================================
