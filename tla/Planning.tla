------------------------------- MODULE Planning -------------------------------
(***************************************************************************)
(* The first two phases of a run: Orchestrator._scout (a scout agent, then *)
(* the programmatic fallback) and Orchestrator._plan with the SmartPlanner *)
(* of src/horse_fish/planner/smart.py: classify the task, decompose it,    *)
(* strip the ceremony, cap the number of subtasks and turn dependencies    *)
(* between descriptions into dependencies between subtasks.                *)
(*                                                                         *)
(* Descriptions are names; the runtimes answer as they like.  Lessons and  *)
(* past work only enter the text of a prompt and are left out.             *)
(***************************************************************************)
EXTENDS Naturals, Sequences, FiniteSets

CONSTANTS
  Name,      \* descriptions
  Task,      \* the description of the whole task
  Ceremony,  \* descriptions that match _CEREMONY_PATTERNS
  Answers,   \* the subtask lists the runtime may answer with
  MaxPolls   \* scout_timeout / poll_interval

Item == [desc : Name, deps : SUBSET Name]

ASSUME PlanningAssumption ==
  /\ Task \in Name /\ Ceremony \subseteq Name
  /\ Answers \subseteq Seq(Item)
  /\ MaxPolls \in Nat \ {0}

VARIABLES
  pc, smart,            \* smart: the Orchestrator has a SmartPlanner
  scout, polls, brief,  \* the scout agent, its polls, the context brief
  complexity, answer,   \* of the classification and the decomposition
  subtasks, deps        \* run.subtasks, and their dependencies once resolved

scoutVars == <<scout, polls, brief>>
planVars  == <<complexity, answer, subtasks, deps>>
vars == <<pc, smart, scoutVars, planVars>>

Complexity == {"SOLO", "TRIO", "SQUAD"}
Cap(c) == IF c = "SOLO" THEN 1 ELSE IF c = "TRIO" THEN 3 ELSE 8

\* A brief may come without acceptance criteria; the programmatic one has some.
Brief == {"none", "bare", "criteria"}
Phase == {"scout", "ready", "prompt", "poll", "release", "fallback", "plan", "decompose", "resolve",
          "planned", "failed", "cancelled"}

\* The scout's session is there without a row in the agents table, has its row, was
\* killed, could not be killed, or was left without its row by a spawn that broke off.
ScoutState == {"none", "starting", "live", "released", "left behind", "stray"}
Subtask == [desc : Name, deps : SUBSET Name, criteria : BOOLEAN]

TypeOK ==
  /\ pc \in Phase /\ smart \in BOOLEAN
  /\ scout \in ScoutState
  /\ polls \in 0 .. MaxPolls /\ brief \in Brief
  /\ complexity \in Complexity \cup {"none"} /\ answer \in Seq(Item)
  /\ subtasks \in Seq(Subtask)
  /\ deps \in Seq(SUBSET (0 .. Len(subtasks)))
  /\ pc = "planned" => subtasks # <<>> /\ DOMAIN deps = DOMAIN subtasks

Init ==
  /\ pc = "scout" /\ smart \in BOOLEAN
  /\ scout = "none" /\ polls = 0 /\ brief = "none"
  /\ complexity = "none" /\ answer = <<>> /\ subtasks = <<>> /\ deps = <<>>

-----------------------------------------------------------------------------
(* _scout *)

\* spawn_scout up to new-session.  No runtime is installed, or tmux refuses.
SpawnScout ==
  /\ pc = "scout"
  /\ \/ pc' = "fallback" /\ UNCHANGED scout
     \/ pc' = "ready" /\ scout' = "starting"
  /\ UNCHANGED <<smart, polls, brief, planVars>>

\* The pane shows that the runtime is ready; the row is inserted, and the slot is
\* known to _run_agent_scout.
ScoutReady ==
  /\ pc = "ready" /\ pc' = "prompt" /\ scout' = "live"
  /\ UNCHANGED <<smart, polls, brief, planVars>>

\* The scout does not get ready in time and its session is killed, if tmux does; or
\* a tmux call or the INSERT raises, and nobody knows of the session.
ScoutNotReady ==
  /\ pc = "ready" /\ pc' = "fallback"
  /\ scout' \in {"released", "left behind", "stray"}
  /\ UNCHANGED <<smart, polls, brief, planVars>>

\* send_task, which may raise.
PromptScout ==
  /\ pc = "prompt" /\ pc' \in {"poll", "release"}
  /\ UNCHANGED <<smart, scoutVars, planVars>>

\* A mutant of PollScout: the scout is polled again after its time is over.
PollAgain ==
  /\ pc = "poll"
  /\ polls' = IF polls < MaxPolls THEN polls + 1 ELSE 0
  /\ \/ pc' = "poll" /\ UNCHANGED brief
     \/ pc' = "release" /\ brief' \in Brief
  /\ UNCHANGED <<smart, scout, planVars>>

\* parse_scout_output: a JSON object of the right fields, anywhere in the pane, or
\* nothing.
Parsed == Brief

\* The scout's output holds a brief, or not: at a poll, or at the last look after
\* it died or its time was over.  check_status may raise.
PollScout ==
  /\ pc = "poll"
  /\ polls' = IF polls < MaxPolls THEN polls + 1 ELSE polls
  /\ \/ pc' = "poll" /\ polls < MaxPolls /\ UNCHANGED brief
     \/ pc' = "release" /\ brief' \in Parsed
  /\ UNCHANGED <<smart, scout, planVars>>

\* A mutant of ReleaseScout: the scout is released only when it was of use.
ReleaseUseful ==
  /\ pc = "release"
  /\ scout' \in IF brief = "none" THEN {scout} ELSE {"released", "left behind"}
  /\ pc' = IF brief = "none" THEN "fallback" ELSE "plan"
  /\ UNCHANGED <<smart, polls, brief, planVars>>

\* The finally block; a failing release is ignored.
ReleaseScout ==
  /\ pc = "release"
  /\ scout' \in {"released", "left behind"}
  /\ pc' = IF brief = "none" THEN "fallback" ELSE "plan"
  /\ UNCHANGED <<smart, polls, brief, planVars>>

\* programmatic_scout scans the files; when it raises there is no brief.
FallbackScout ==
  /\ pc = "fallback"
  /\ brief' \in {"criteria", "none"}
  /\ pc' = "plan"
  /\ UNCHANGED <<smart, scout, polls, planVars>>

-----------------------------------------------------------------------------
(* _plan *)

Whole(criteria) == <<[desc |-> Task, deps |-> {}, criteria |-> criteria]>>
HasCriteria == brief = "criteria"

\* Lessons and similar tasks are looked up (at most 15 s), then the runtime is
\* asked; a failing call and an answer that names no tier both mean SOLO.
Classify ==
  /\ pc = "plan" /\ smart
  /\ complexity' \in Complexity
  /\ IF complexity' = "SOLO"
     THEN subtasks' = Whole(HasCriteria) /\ pc' = "resolve"
     ELSE pc' = "decompose" /\ UNCHANGED subtasks
  /\ UNCHANGED <<smart, scoutVars, answer, deps>>

\* The items that are not ceremony, in their order: the k-th is the one that has
\* k of them up to and including itself.
WorkAt(a)   == {i \in DOMAIN a : a[i].desc \notin Ceremony}
Place(P, i) == Cardinality({j \in P : j <= i})
Work(a) == [k \in 1 .. Cardinality(WorkAt(a)) |-> a[CHOOSE i \in WorkAt(a) : Place(WorkAt(a), i) = k]]

Capped(a, n) == SubSeq(a, 1, IF Len(a) < n THEN Len(a) ELSE n)

\* A mutant of Kept: the list is capped before the ceremony is stripped.
KeptThenStripped(a) == Work(Capped(a, Cap(complexity)))

Kept(a) == Capped(Work(a), Cap(complexity))

\* A mutant of Decompose: nothing takes the place of an empty list.
DecomposeBare ==
  /\ pc = "decompose"
  /\ answer' \in Answers
  /\ subtasks' = [i \in DOMAIN Kept(answer') |->
                    [desc |-> Kept(answer')[i].desc, deps |-> Kept(answer')[i].deps,
                     criteria |-> HasCriteria]]
  /\ pc' = "resolve"
  /\ UNCHANGED <<smart, scoutVars, complexity, deps>>

\* Strip, cap, hand on the acceptance criteria; with nothing left, the whole task
\* is the only subtask, in the tier it was classified into.
Decompose ==
  /\ pc = "decompose"
  /\ answer' \in Answers
  /\ subtasks' = IF Kept(answer') = <<>> THEN Whole(FALSE)
                 ELSE [i \in DOMAIN Kept(answer') |->
                         [desc |-> Kept(answer')[i].desc, deps |-> Kept(answer')[i].deps,
                          criteria |-> HasCriteria]]
  /\ pc' = "resolve"
  /\ UNCHANGED <<smart, scoutVars, complexity, deps>>

\* The runtime fails or times out, or its answer is no list of subtasks.
DecomposeFails ==
  /\ pc = "decompose"
  /\ complexity' = "SOLO" /\ subtasks' = Whole(FALSE)
  /\ pc' = "resolve"
  /\ UNCHANGED <<smart, scoutVars, answer, deps>>

\* Without a SmartPlanner the answer is taken as it is.
PlainDecompose ==
  /\ pc = "plan" /\ ~smart
  /\ \/ /\ answer' \in Answers \ {<<>>}
        /\ subtasks' = [i \in DOMAIN answer' |->
                          [desc |-> answer'[i].desc, deps |-> answer'[i].deps,
                           criteria |-> FALSE]]
        /\ pc' = "resolve"
     \/ pc' = "failed" /\ UNCHANGED <<answer, subtasks>>
  /\ UNCHANGED <<smart, scoutVars, complexity, deps>>

Named(d) == {j \in DOMAIN subtasks : subtasks[j].desc = d}

\* A mutant of IdOf: a description that is not in the list is passed over.
IdOfFirst(d) == IF Named(d) = {} THEN 1
                ELSE CHOOSE j \in Named(d) : \A k \in Named(d) : k <= j

\* Of several subtasks of one description the last counts; 0 is a description
\* that no subtask has.
IdOf(d) == IF Named(d) = {} THEN 0
           ELSE CHOOSE j \in Named(d) : \A k \in Named(d) : k <= j

\* _resolve_deps
Resolve ==
  /\ pc = "resolve"
  /\ deps' = [i \in DOMAIN subtasks |-> {IdOf(d) : d \in subtasks[i].deps}]
  /\ pc' = "planned"
  /\ UNCHANGED <<smart, scoutVars, complexity, answer, subtasks>>

\* What is left of a scout by a cancellation: the finally block tries to release the
\* one it knows, and does not know of one that is not ready yet.
AfterCancel ==
  IF scout = "live" THEN {"released", "left behind"}
  ELSE IF scout = "starting" THEN {"stray"} ELSE {scout}

\* The run is cancelled at an await.
Cancel ==
  /\ pc \in {"scout", "ready", "prompt", "poll", "release", "plan", "decompose"}
  /\ pc' = "cancelled"
  /\ scout' \in AfterCancel
  /\ UNCHANGED <<smart, polls, brief, planVars>>

-----------------------------------------------------------------------------

Scout == SpawnScout \/ ScoutReady \/ ScoutNotReady \/ PromptScout \/ PollScout \/ ReleaseScout \/ FallbackScout
Plan  == Classify \/ Decompose \/ DecomposeFails \/ PlainDecompose \/ Resolve

Over  == pc \in {"planned", "failed", "cancelled"} /\ UNCHANGED vars

Next == Scout \/ Plan \/ Cancel \/ Over

Spec == Init /\ [][Next]_vars

\* The loops of the two phases and their calls of a runtime have a timeout; that a
\* tmux command returns is assumed (_run_tmux waits for it without one).
FairSpec == Spec /\ WF_vars(Scout \/ Plan)
=============================================================================
