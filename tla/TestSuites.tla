----------------------------- MODULE TestSuites -----------------------------
(***************************************************************************)
(* Composable test suites: suites name tests, run targets and other        *)
(* suites.  They are validated once, after the whole project was           *)
(* evaluated, and a request [suites, tags, exclude] of qstar test selects  *)
(* what to run by walking them.                                            *)
(***************************************************************************)
EXTENDS GraphTables, Relation

CONSTANT SuiteOrder \* the labels of the suites in the order strcmp gives them

IsSuite(graph, l) == l \in Keys(graph, "suite")
Tests(graph, l) == Field(Find(graph, "suite", l), "tests")
Tags(graph, l) == Field(Find(graph, "suite", l), "tags")
Manual(graph, l) == Field(Find(graph, "suite", l), "manual") = <<"true">>
Suites(graph) == [k \in 1..Len(Of(graph, "suite")) |-> Of(graph, "suite")[k].key]

Runnable(graph, l) ==
  l \in Keys(graph, "target") /\ Find(graph, "target", l).kind \in {"test", "run_target"}

\* the part of qstar_graph_validate_test_suites that looks at one suite
WellFormed(graph, l) ==
  /\ ~Clashes(graph, l, Labelled)
  /\ Tests(graph, l) # <<>>
  /\ "" \notin ToSet(Tags(graph, l)) /\ IsInjective(Tags(graph, l))
  /\ IsInjective(Tests(graph, l))
  /\ \A m \in ToSet(Tests(graph, l)) : IsSuite(graph, m) \/ Runnable(graph, m)

\* validate_suite_cycle: a suite that is met again while its own members are
\* looked at is on a cycle
Entered == 1
Left == 2
RECURSIVE Walk(_, _, _)
Walk(graph, l, before) ==
  With(before, LAMBDA state :
    IF state.cycle \/ state.of[l] = Left THEN state
    ELSE IF state.of[l] = Entered THEN [state EXCEPT !.cycle = TRUE]
    ELSE With(FoldLeft(LAMBDA s, m : IF IsSuite(graph, m) THEN Walk(graph, m, s) ELSE s,
                       [state EXCEPT !.of[l] = Entered], Tests(graph, l)), LAMBDA after :
           IF after.cycle THEN after ELSE [after EXCEPT !.of[l] = Left]))

HasSuiteCycle(graph) ==
  FoldLeft(LAMBDA s, l : Walk(graph, l, s),
           [cycle |-> FALSE, of |-> [l \in Keys(graph, "suite") |-> 0]], Suites(graph)).cycle

ValidSuites(graph) ==
  /\ \A l \in Keys(graph, "suite") : WellFormed(graph, l)
  /\ ~HasSuiteCycle(graph)

Tagged(graph, l, tags) == ToSet(Tags(graph, l)) \cap tags # {}

PushLabel(labels, l) == IF l \in ToSet(labels) THEN labels ELSE Append(labels, l)

\* resolve_suite_recursive: a suite with an excluded tag is cut with all it has
\* Mutation: what the nested suites have is not looked at
ResolveDirect(graph, l, exclude, acc) ==
  IF Tagged(graph, l, exclude) THEN acc
  ELSE [acc EXCEPT !.labels = @ \o SelectSeq(Tests(graph, l), LAMBDA m : ~IsSuite(graph, m) /\ m \notin ToSet(acc.labels))]

RECURSIVE Resolve(_, _, _, _)
Resolve(graph, l, exclude, acc) ==
  IF ~acc.ok \/ Tagged(graph, l, exclude) THEN acc
  ELSE IF l \in acc.open THEN [acc EXCEPT !.ok = FALSE]
  ELSE LET member(a, m) == IF IsSuite(graph, m) THEN Resolve(graph, m, exclude, a)
                           ELSE [a EXCEPT !.labels = PushLabel(@, m)]
           after == FoldLeft(member, [acc EXCEPT !.open = @ \cup {l}], Tests(graph, l))
       IN [after EXCEPT !.open = @ \ {l}]

\* the suites tags pick: none but those named when no tag is given at all
ByTag(graph, o) ==
  IF o.tags \cup o.exclude = {} THEN <<>>
  ELSE SelectSeq(SuiteOrder, LAMBDA l : /\ IsSuite(graph, l) /\ ~Manual(graph, l)
                                        /\ ~Tagged(graph, l, o.exclude)
                                        /\ o.tags # {} => Tagged(graph, l, o.tags))

\* qstar_graph_resolve_test_selection, and the refusal of an empty selection
Selection(graph, o) ==
  IF "" \in o.tags \cup o.exclude \/ ~(ToSet(o.suites) \subseteq Keys(graph, "suite"))
  THEN [ok |-> FALSE, open |-> {}, labels |-> <<>>]
  ELSE LET all == FoldLeft(LAMBDA acc, l : Resolve(graph, l, o.exclude, acc),
                           [ok |-> TRUE, open |-> {}, labels |-> <<>>], o.suites \o ByTag(graph, o))
       IN [all EXCEPT !.ok = @ /\ all.labels # <<>>]

\* qstar_graph_collect_test_suite_memberships: the suites that reach a target
Memberships(graph, target) ==
  {l \in Keys(graph, "suite") :
     target \in ToSet(Resolve(graph, l, {}, [ok |-> TRUE, open |-> {}, labels |-> <<>>]).labels)}

(***************************************************************************)
(* What a selection is, without walking: the members of the suites that    *)
(* can be reached from a named or a picked one through suites that are not *)
(* excluded.                                                               *)
(***************************************************************************)
Reached(graph, roots, exclude) ==
  LET open == {l \in Keys(graph, "suite") : ~Tagged(graph, l, exclude)}
      nests == [p \in open \X open |-> p[2] \in ToSet(Tests(graph, p[1]))]
      reach == ReflexiveTransitiveClosure(nests, open)
  IN {l \in open : \E r \in roots \cap open : reach[r, l]}

MembersOf(graph, suites) == UNION {ToSet(Tests(graph, l)) : l \in suites} \ Keys(graph, "suite")
=============================================================================
