----------------------------- MODULE MCBackends -----------------------------
(***************************************************************************)
(* Instances of Backends: a run target that runs x, x of an object library *)
(* o and a library l, which has an interface i for dependency; a group u,  *)
(* two rules and a stage; and what else the authoring files may say.       *)
(***************************************************************************)
EXTENDS Backends

MCKind == [r |-> "run_target", x |-> "exe", l |-> "staticlib", o |-> "objectlib",
           i |-> "interface", u |-> "group"]

MCBase == {Ref("r", "run_command", Token("x")), Ref("x", "objects", Label("o")),
           Ref("x", "deps", Label("l")), Ref("l", "deps", Label("i")),
           Ref("u", "deps", Label("x")), Ref("s", "files", Plain)}

MCExtra ==
  LET G == Path("g", "c")  H == Path("g", "h")  O == Path("g", "o") IN
  {Ref("o", "consumer", Plain),
   Ref("u", "deps", Label("r")), Ref("r", "deps", Label("l")), Ref("r", "deps", Label("h")),
   Ref("r", "run_inputs", StageDir("s")), Ref("r", "run_inputs", Token("h")), Ref("r", "run_inputs", G),
   Ref("s", "files", Token("x")), Ref("s", "files", G),
   Ref("x", "sources", G), Ref("x", "sources", O), Ref("x", "headers", H), Ref("x", "pch", H),
   Ref("x", "link_inputs", G), Ref("x", "link_inputs", Token("l")), Ref("x", "deps", Label("g")), Ref("x", "private_deps", Label("r")),
   Ref("x", "headers", Path("h", "h")), Ref("x", "compile_usage", Token("g")), Ref("x", "link_usage", Token("g")), Ref("u", "deps", Label("g")),
   Ref("o", "deps", Label("h")), Ref("r", "run_command", StageDir("s")), Ref("r", "run_command", G), 
   Ref("o", "sources", G), Ref("o", "sources", O), Ref("o", "headers", H), Ref("o", "pch", H),
   Ref("o", "deps", Label("l")), Ref("o", "private_deps", Label("i")),
   Ref("l", "sources", G), Ref("l", "headers", H), Ref("l", "private_deps", Label("x")),
   Ref("l", "compile_usage", Token("g")), Ref("l", "link_usage", Token("h")),
   Ref("i", "compile_usage", Token("g")), Ref("i", "compile_usage", Token("x")), Ref("i", "link_usage", Token("l")), Ref("i", "headers", H),
   Ref("i", "deps", Label("l")),  Ref("i", "deps", Label("g")),
   Ref("g", "tool", Token("x")), Ref("g", "tool", Path("h", "c")), Ref("g", "tool", Path("g", "c")),
   Ref("g", "inputs", Token("l")), Ref("g", "inputs", Path("h", "c")),
   Ref("g", "args", Token("h")), Ref("g", "args", Path("h", "c")), Ref("g", "args", Token("g")),
   Ref("h", "inputs", G), Ref("h", "tool", Token("x")), Ref("h", "args", Token("x")), Ref("h", "args", G)}

\* what the C++ strategies add, with up to three implementations and two
\* interfaces in x, and two sources in o
MCCxx ==
  LET M == Ref("x", "sources", Path("g", "m"))
      C == Ref("o", "sources", Path("g", "c"))
      X == {Ref("o", "consumer", Plain), Ref("x", "unity", Plain), Ref("x", "modules", Plain), M}
  IN {MCBase \cup S : S \in SUBSET (X \cup {C, Ref("x", "sources", Path("g", "c")),
        Ref("x", "sources", Path("h", "c")), Ref("x", "sources", Path("h", "m"))})}
     \cup {MCBase \cup {Ref("o", "sources", Path("g", "m"))} \cup S : S \in SUBSET {
        Ref("o", "consumer", Plain), Ref("o", "modules", Plain), Ref("x", "modules", Plain),
        Ref("x", "sources", Path("h", "c")), Ref("x", "sources", Path("h", "m"))}}
     \cup {MCBase \cup {C} \cup S : S \in SUBSET (X \cup {Ref("o", "unity", Plain), Ref("x", "pch", Path("g", "h"))})}

MCListed ==
  <<Path("h", "c"), Path("g", "m"), Plain, Path("g", "o"), Path("h", "m"), Path("g", "c")>>

\* usage that only an object library gets, and what it may close a circle with
MCContext ==
  {(MCBase \ {Ref("l", "deps", Label("i"))}) \cup S : S \in SUBSET {
     Ref("o", "consumer", Plain), Ref("o", "private_deps", Label("i")),
     Ref("i", "compile_usage", Token("g")), Ref("i", "link_usage", Token("g")),
     Ref("g", "inputs", Token("x")), Ref("g", "inputs", Token("l"))}}

\* a header that only a precompiled header or a borrowed source reads
MCHeaders ==
  {MCBase \cup {Ref("x", "headers", Path("g", "h"))} \cup S :
     S \in SUBSET {Ref("o", "consumer", Plain), Ref("x", "pch", Path("g", "h"))}}

\* one or two more references, and a third with a few that combine with all
MCMixing == {Ref("o", "consumer", Plain), Ref("g", "inputs", Token("l"))}
MCAuthored ==
  {MCBase \cup {a, b} : a, b \in MCExtra}
    \cup {MCBase \cup {a, b, c} : a \in MCMixing, b, c \in MCExtra}
    \cup MCCxx \cup MCContext
=============================================================================
