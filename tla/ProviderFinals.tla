--------------------------- MODULE ProviderFinals ---------------------------
(***************************************************************************)
(* Final actions of language providers: after the project was evaluated,   *)
(* the executable or library of a target whose sources are units of a      *)
(* provider is made by an action the provider's implementation describes,  *)
(* instead of the native archiver or linker.  The targets are lowered in   *)
(* the order they were declared.                                           *)
(*                                                                         *)
(* done maps the targets lowered so far to their action [owner, inputs,    *)
(* artifacts]; a path is a tuple.                                          *)
(***************************************************************************)
EXTENDS Declarations, Relation

CONSTANT AsksFor \* the input classes each lowering function of an implementation asks for, "outputs" if it names them

FinalKind(kind) ==
  CASE kind \in {"exe", "test"} -> "executable"
    [] kind \in {"staticlib", "sharedlib"} -> kind
    [] OTHER -> "none"

Target(graph, l) == Find(graph, "target", l)
IsTarget(graph, l) == l \in Keys(graph, "target")
Provider(graph, ns) == Find(graph, "provider", ns)
FinalsFor(graph, ns, kind) == SelectSeq(Field(Provider(graph, ns), "finals"), LAMBDA f : f.kind = kind)

\* the units of providers that are in the table: the built-in ones are not
UnitOwners(graph, t) ==
  {s.ns : s \in ToSet(Field(t, "sources"))} \cap Keys(graph, "provider")
OwnersOf(graph, t, api) ==
  {ns \in UnitOwners(graph, t) : Provider(graph, ns).kind = api /\ FinalsFor(graph, ns, FinalKind(t.kind)) # <<>>}

NativeInputs == {"deps", "private_deps", "libs", "lib_dirs", "link_options", "link_inputs", "objects"}

\* what a source is to a final: handed over as it is, an object, or nothing
Owned(f, ns, s) == s.ns = ns /\ "sources" \in ToSet(f.inputs)
Compiles(s) == s.ns # "" \/ s.suffix = "c"
IsObject(s) == s.ns = "" /\ s.suffix = "o"

\* validate_v2_final_composition
Composes(t, f, ns) ==
  LET takes(class) == class \in ToSet(f.inputs)
      given(fields) == \E g \in fields : Field(t, g) # <<>>
      loose == \E s \in ToSet(Field(t, "sources")) : ~Owned(f, ns, s) /\ (Compiles(s) \/ IsObject(s))
  IN /\ ~given({"libs", "lib_dirs"})
     /\ loose \/ given({"objects"}) => takes("objects")
     /\ given({"deps", "private_deps"}) => takes("link_interfaces")
     /\ given({"link_inputs"}) => takes("link_inputs")
     /\ given({"link_options"}) => takes("link_options")

\* target_provider_final_schema: who makes the target, if a provider does
NoOwner == "native"
Clash == "refused"
OwnerOf(graph, t) ==
  LET two == OwnersOf(graph, t, "2")
      one == OwnersOf(graph, t, "1")
      sources == Field(t, "sources")
      f(ns) == FinalsFor(graph, ns, FinalKind(t.kind))[1]
  IN CASE Cardinality(two) > 1 -> Clash
       [] Cardinality(two) = 1 -> LET ns == CHOOSE x \in two : TRUE IN IF Composes(t, f(ns), ns) THEN ns ELSE Clash
       [] /\ two = {} /\ \A g \in NativeInputs : Field(t, g) = <<>>
          /\ \E ns \in one : \A s \in ToSet(sources) : s.ns = ns -> CHOOSE x \in one : TRUE
       [] OTHER -> NoOwner

-----------------------------------------------------------------------------
Primary(l) == <<"primary", l>>
ObjectPath(l, k) == <<"object", l, k>>
ConsumerObjectPath(l, lib, k) == <<"object of", l, lib, k>>

\* the artifacts of a final: outputs are [suffix, role], "" is the primary's
ArtifactPath(l, o) == IF o.suffix = "" THEN Primary(l) ELSE <<"beside", l, o.suffix>>
Collide(f) == \E i, j \in DOMAIN f.outputs : i # j /\ f.outputs[i].suffix = f.outputs[j].suffix

\* qstar_graph_target_artifact_map: the artifacts a target has got so far; a
\* target that is lowered later still has those of its kind
Without == {"group", "run_target", "objectlib", "interface"}
ArtifactsOf(graph, done, l) ==
  IF Target(graph, l).kind \in Without THEN {}
  ELSE IF l \in DOMAIN done /\ done[l].artifacts # {} THEN done[l].artifacts
  ELSE {[path |-> Primary(l), role |-> "primary"]}

\* qstar_graph_target_link_artifact_path
LinkArtifact(graph, done, l) ==
  LET all == ArtifactsOf(graph, done, l)
      linked == {a \in all : a.role = "link-interface"}
  IN IF linked # {} THEN (CHOOSE a \in linked : TRUE).path ELSE Primary(l)

-----------------------------------------------------------------------------
(***************************************************************************)
(* Collecting the inputs: lists without repetition, or a refusal.          *)
(***************************************************************************)
PushPath(before, p) ==
  With(before, LAMBDA c : IF p \in ToSet(c.paths) THEN c ELSE [c EXCEPT !.paths = Append(@, p)])
Nothing == [ok |-> TRUE, paths |-> <<>>]

OwnSources(t, f, ns) ==
  FoldLeft(LAMBDA c, s : IF Owned(f, ns, s) THEN PushPath(c, <<"source", s.path>>) ELSE c, Nothing, Field(t, "sources"))

OwnObjects(t, f, ns) ==
  FoldLeft(LAMBDA c, k :
             LET s == Field(t, "sources")[k] IN
             CASE Owned(f, ns, s) -> c
               [] ~Owned(f, ns, s) /\ Compiles(s) -> PushPath(c, ObjectPath(t.key, k))
               [] ~Owned(f, ns, s) /\ IsObject(s) -> PushPath(c, <<"source", s.path>>)
               [] OTHER -> c,
           Nothing, [k \in DOMAIN Field(t, "sources") |-> k])

\* the objects of the object libraries a target names
LibObject(t, lib, k) ==
  LET s == Field(lib, "sources")[k] IN
  CASE IsObject(s) -> <<"source", s.path>>
    [] ~IsObject(s) /\ Field(lib, "compile_context") = <<"consumer">> -> ConsumerObjectPath(t.key, lib.key, k)
    [] OTHER -> ObjectPath(lib.key, k)

\* a source of an object library that no rule knows is refused
Objects(graph, t, f, ns) ==
  FoldLeft(LAMBDA c, l :
             IF ~c.ok \/ ~IsTarget(graph, l) \/ Target(graph, l).kind # "objectlib" THEN [c EXCEPT !.ok = FALSE]
             ELSE LET lib == Target(graph, l) IN
                  FoldLeft(LAMBDA d, k : IF Compiles(Field(lib, "sources")[k]) \/ IsObject(Field(lib, "sources")[k])
                                         THEN PushPath(d, LibObject(t, lib, k)) ELSE [d EXCEPT !.ok = FALSE],
                           c, [k \in DOMAIN Field(lib, "sources") |-> k]),
           OwnObjects(t, f, ns), Field(t, "objects"))

\* Mutation: a target without an artifact is not looked through
LinkInterfaceDirect(graph, done, l, c) ==
  IF ~c.ok \/ ~IsTarget(graph, l) THEN [c EXCEPT !.ok = FALSE]
  ELSE IF ArtifactsOf(graph, done, l) = {} THEN c
  ELSE PushPath(c, LinkArtifact(graph, done, l))

\* collect_provider_link_interfaces_rec: an artifact stands for all that is
\* behind it, a target without one is looked through
RECURSIVE LinkInterface(_, _, _, _)
LinkInterface(graph, done, l, before) ==
  With(before, LAMBDA c :
    IF ~c.ok \/ l \in c.seen THEN c
    ELSE IF ~IsTarget(graph, l) THEN [c EXCEPT !.ok = FALSE]
    ELSE LET now == [c EXCEPT !.seen = @ \cup {l}]
             t == Target(graph, l)
         IN CASE t.kind \in {"group", "run_target", "objectlib", "tool"} -> now
              [] t.kind = "interface" ->
                   FoldLeft(LAMBDA a, m : LinkInterface(graph, done, m, a), now, Field(t, "deps") \o Field(t, "private_deps"))
              [] OTHER -> PushPath(now, LinkArtifact(graph, done, l)))

LinkInterfaces(graph, done, t) ==
  FoldLeft(LAMBDA c, l : LinkInterface(graph, done, l, c), [ok |-> TRUE, paths |-> <<>>, seen |-> {}],
           Field(t, "deps") \o Field(t, "private_deps"))

\* a link input is a path, or a label that stands for an artifact
LinkInput(graph, done, l) ==
  CASE l[1] = "path" -> [ok |-> TRUE, path |-> l]
    [] l[1] = "target_file" /\ IsTarget(graph, l[2]) ->
         [ok |-> ArtifactsOf(graph, done, l[2]) # {}, path |-> Primary(l[2])]
    [] OTHER -> [ok |-> l[2] \in Keys(graph, "rule"), path |-> <<"output", l[2]>>]

LinkInputs(graph, done, t) ==
  FoldLeft(LAMBDA c, l : LET p == LinkInput(graph, done, l) IN
                         IF c.ok /\ p.ok THEN PushPath(c, p.path) ELSE [c EXCEPT !.ok = FALSE],
           Nothing, Field(t, "link_inputs"))

-----------------------------------------------------------------------------
(***************************************************************************)
(* Lowering one target.                                                    *)
(***************************************************************************)
Classes(graph, done, t, f, ns) ==
  [sources |-> OwnSources(t, f, ns), objects |-> Objects(graph, t, f, ns),
   link_interfaces |-> LinkInterfaces(graph, done, t), link_inputs |-> LinkInputs(graph, done, t)]

\* what an implementation's function may ask for, and what it must name
Collected(c) == UNION {ToSet(c[k].paths) : k \in DOMAIN c}
Described(c, asked) == UNION {ToSet(c[k].paths) : k \in asked \cap DOMAIN c}

LowerV2(graph, done, t, f, ns) ==
  With(Classes(graph, done, t, f, ns), LAMBDA c :
    LET asked == AsksFor[f.lower]
        inputs == Described(c, asked)
    IN [ok |-> /\ ~Collide(f)
               /\ \A k \in DOMAIN c : c[k].ok
               /\ asked \ {"outputs"} \subseteq ToSet(f.inputs)
               /\ Collected(c) \subseteq inputs
               /\ "outputs" \in asked,
        action |-> [owner |-> ns, inputs |-> inputs,
                    artifacts |-> {[path |-> ArtifactPath(t.key, o), role |-> o.role] : o \in ToSet(f.outputs)}]])

\* an older provider is given the sources and describes one output
LowerV1(t, ns) ==
  [ok |-> TRUE,
   action |-> [owner |-> ns, inputs |-> {<<"source", s.path>> : s \in ToSet(Field(t, "sources"))}, artifacts |-> {}]]

\* lower_provider_final_action: whatever was written to the graph's error,
\* by this target or before, fails a target that has an owner
LowerFinal(graph, impl, stale, done, l) ==
  LET t == Target(graph, l) IN
  With(OwnerOf(graph, t), LAMBDA ns :
    IF ns \in {NoOwner, Clash} THEN [ok |-> ns = NoOwner, done |-> done]
    ELSE LET f == FinalsFor(graph, ns, FinalKind(t.kind))[1] IN
         With(IF Provider(graph, ns).kind = "2" THEN LowerV2(graph, done, t, f, ns) ELSE LowerV1(t, ns), LAMBDA made :
           IF made.ok /\ ns \in DOMAIN impl /\ f.lower \in impl[ns] /\ ~stale
           THEN [ok |-> TRUE, done |-> (l :> made.action) @@ done]
           ELSE [ok |-> FALSE, done |-> done]))

-----------------------------------------------------------------------------
(***************************************************************************)
(* What a final must be given, without collecting it: every source or what *)
(* is compiled from it, the objects of the object libraries, the link      *)
(* artifact of whatever is linked, where targets without an artifact pass  *)
(* on what they depend on, and the link inputs.                            *)
(***************************************************************************)
SourceInputs(t, f, ns) ==
  {LET s == Field(t, "sources")[k] IN
     IF (s.ns = "" /\ s.suffix = "o") \/ (s.ns = ns /\ "sources" \in ToSet(f.inputs))
     THEN <<"source", s.path>> ELSE ObjectPath(t.key, k) :
   k \in {k \in DOMAIN Field(t, "sources") : Field(t, "sources")[k].ns # "" \/ Field(t, "sources")[k].suffix \in {"c", "o"}}}

DepsOf(t) == ToSet(Field(t, "deps") \o Field(t, "private_deps"))

Linked(graph, t) ==
  LET all == Keys(graph, "target")
      through == [p \in all \X all |-> Target(graph, p[1]).kind = "interface" /\ p[2] \in DepsOf(Target(graph, p[1]))]
      reach == ReflexiveTransitiveClosure(through, all)
  IN {l \in all : /\ Target(graph, l).kind \notin {"interface", "group", "run_target", "objectlib", "tool"}
                  /\ \E d \in DepsOf(t) : reach[d, l]}

LibInputs(graph, t) ==
  UNION {{LibObject(t, Target(graph, l), k) : k \in DOMAIN Field(Target(graph, l), "sources")} : l \in ToSet(Field(t, "objects"))}

\* dependencies that are declared, and so lowered, after the target itself
Place(graph, l) == CHOOSE k \in DOMAIN Of(graph, "target") : Of(graph, "target")[k].key = l
LinkedLater(graph, t) == {l \in Linked(graph, t) : Place(graph, l) > Place(graph, t.key)}

PathsOf(graph, done, l) == {a.path : a \in ArtifactsOf(graph, done, l)}

NeededInputs(graph, done, t, f, ns) ==
  SourceInputs(t, f, ns) \cup LibInputs(graph, t)
    \cup {LinkArtifact(graph, done, l) : l \in Linked(graph, t)}
    \cup {LinkInput(graph, done, l).path : l \in ToSet(Field(t, "link_inputs"))}
=============================================================================
