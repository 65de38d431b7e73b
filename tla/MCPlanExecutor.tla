---------------------------- MODULE MCPlanExecutor ----------------------------
(***************************************************************************)
(* A finite instance of PlanExecutor.                                      *)
(***************************************************************************)
EXTENDS PlanExecutorProperties

T(desc, deps) == [desc |-> desc, deps |-> deps]

\* A chain listed backwards; a cycle beside a free task; a description nobody
\* provides, with a task behind it; two items of one description, one of them on a
\* cycle through the other; a task that needs one of another batch.
Answers ==
  { <<T("c", {"b"}), T("b", {"a"}), T("a", {})>>,
    <<T("a", {"b"}), T("b", {"a"}), T("c", {})>>,
    <<T("a", {"goal"}), T("b", {"a"}), T("c", {})>>,
    <<T("a", {"b"}), T("a", {}), T("b", {"a"})>>,
    <<T("b", {"c"})>> }
=============================================================================
