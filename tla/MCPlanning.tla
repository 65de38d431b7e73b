------------------------------ MODULE MCPlanning ------------------------------
(***************************************************************************)
(* A finite instance of Planning.                                          *)
(***************************************************************************)
EXTENDS PlanningProperties

T(d, needed) == [desc |-> d, deps |-> needed]

\* Every list of one or two items over two pieces of work and a ceremony, each
\* with at most one dependency, and lists around the caps: chains longer than the
\* cap of a TRIO and of a SQUAD, ceremony in the middle of one, a description twice.
Small == {T(d, e) : d \in {"a", "b", "commit"}, e \in {{}, {"a"}, {"b"}, {"commit"}}}
Long ==
  { <<T("a", {}), T("b", {"a"}), T("c", {"b"}), T("d", {"c"})>>,
    <<T("d", {"c"}), T("c", {"b"}), T("b", {"a"}), T("a", {})>>,
    <<T("a", {}), T("commit", {"a"}), T("b", {"commit"}), T("c", {"a"}), T("d", {"b"})>>,
    <<T("commit", {}), T("a", {}), T("b", {"a"}), T("c", {"b", "a"})>>,
    <<T("a", {"b"}), T("b", {}), T("b", {"a"}), T("c", {"b"})>> }

Letter == <<"a", "b", "c", "d", "e", "f", "g", "h", "i">>
Chain  == [k \in DOMAIN Letter |-> T(Letter[k], IF k = 1 THEN {} ELSE {Letter[k - 1]})]

SomeAnswers ==
  {<<>>} \cup {<<x>> : x \in Small} \cup {<<x, y>> : x \in Small, y \in Small} \cup Long \cup {Chain}

\* Work is the selection it stands for, written so that it can be reasoned about.
ASSUME WorkSelects ==
  \A a \in SomeAnswers : Work(a) = SelectSeq(a, LAMBDA item : item.desc \notin Ceremony)
=============================================================================
