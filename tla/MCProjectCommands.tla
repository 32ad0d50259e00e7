------------------------- MODULE MCProjectCommands -------------------------
(***************************************************************************)
(* Instances of ProjectCommands: three commands, main (also called m), sub *)
(* and leaf; a target t, a test u, a rule g, and two stages, the first of  *)
(* a built and an authored file.                                           *)
(***************************************************************************)
EXTENDS ProjectCommands

MCFiles == [s |-> <<[src |-> "t", dst |-> "bin"], [src |-> "readme", dst |-> "doc"]>>,
            z |-> <<[src |-> "g", dst |-> "gen"]>>]
MCRoot == [s |-> "root", z |-> "rootz"]

Flag(d) == Option("bool", FALSE, d)
MainOptions == [on |-> Flag("true"), off |-> Flag("false"), out |-> Option("path", FALSE, "d")]
Tool == Word("tool")

\* the steps of the main command that copy nothing, and those that do
LightSteps ==
  {LabelStep("build", "t", Always), LabelStep("test", Everything, Always), LabelStep("check", "g", Always),
   LabelStep("lint", "t", "off"), StageStep("z", "none", TRUE, Always),
   CallStep("sub", Always), CallStep("leaf", "on")}
LastSteps ==
  {LabelStep("build", "t", Always), CallStep("sub", Always),
   ExportStep("s", Word("d"), FALSE, Always),
   RunStep(<<File("t"), StageDir("s")>>, <<Tool, Input(2)>> \o ArgsIf("on", <<"-a">>), Always)}
CopySteps ==
  {StageStep("s", "none", FALSE, Always), StageStep("s", "v", FALSE, "on"),
   ExportStep("s", Word("d"), FALSE, Always), ExportStep("z", Param("out"), FALSE, Always),
   RunStep(<<File("t"), StageDir("s")>>, <<Tool, Input(2)>> \o ArgsIf("on", <<"-a">>), Always),
   RunStep(<<>>, <<StageDir("z"), File("g"), Param("out"), ArgIf("off", "-b")>>, Always)}
MainPairs == (LightSteps \X (LightSteps \cup CopySteps)) \cup (CopySteps \X LastSteps)

\* what the reader or the validation refuses, or what can only fail later
OddSteps ==
  {LabelStep("build", "nowhere", Always), LabelStep("build", "z", Always), LabelStep("test", "t", Always),
   LabelStep("lint", "g", Always), LabelStep("check", "t", "out"), StageStep("s", "/tmp", FALSE, Always),
   ExportStep("s", Param("off"), FALSE, Always), CallStep("m", Always), CallStep("other", Always),
   RunStep(<<>>, <<Param("none")>>, Always), RunStep(<<>>, <<ArgIf("off", "-b")>>, Always),
   ExportStep("z", Word("rootz"), FALSE, Always), RunStep(<<>>, <<File("nothing")>>, Always),
   RunStep(<<StageDir("other")>>, <<Input(1)>>, Always), RunStep(<<>>, <<Input(1)>>, Always)}

SubSteps ==
  {LabelStep("build", "g", "on"), ExportStep("s", Param("out"), FALSE, Always),
   RunStep(<<>>, <<File("t"), Param("list"), Param("on")>>, Always), CallStep("leaf", Always), CallStep("m", "on")}

LeafSteps == {LabelStep("build", "t", Always), CallStep("sub", Always)}

Cmd(name, aliases, default, options, steps) ==
  [name |-> name, aliases |-> aliases, default |-> default, options |-> options, steps |-> steps]

SubOptions(required, on) ==
  [on |-> Flag(on), list |-> Option("list", required, NoDefault), out |-> Option("path", FALSE, "v")]

Project(main, required, on, sub, leaf, alias) ==
  <<Cmd("main", <<"m">>, TRUE, MainOptions, main),
    Cmd("sub", <<>>, FALSE, SubOptions(required, on), sub),
    Cmd("leaf", <<alias>>, FALSE, [n |-> Option("int", FALSE, "7")], leaf)>>

Plain1 == <<LabelStep("build", "g", Always)>>
MCProjects ==
  {Project(steps, FALSE, "false", Plain1, Plain1, "l") : steps \in MainPairs}
    \cup {Project(<<a>>, r, on, <<b, c>>, <<d>>, "l") :
            a \in {CallStep("sub", Always), CallStep("leaf", "on")}, r \in BOOLEAN, on \in {"true", "false"},
            b \in SubSteps, c \in {CallStep("leaf", Always), LabelStep("build", "g", "on")}, d \in LeafSteps}
    \cup {Project(<<a>>, FALSE, "false", Plain1, Plain1, l) : a \in OddSteps \cup {Plain1[1]}, l \in {"l", "m"}}
    \cup {Project(<<a>>, FALSE, "false", <<b>>, <<c>>, "l") :
            a \in {CallStep("sub", Always), CallStep("leaf", "on")}, b \in SubSteps, c \in LeafSteps \cup {CallStep("m", Always)}}

\* the commands that export to a place an option of the command names
MCDefaulted ==
  {Project(<<a>>, FALSE, "false", <<b>>, Plain1, "l") :
     a \in {ExportStep("z", Param("out"), FALSE, Always), CallStep("sub", Always)}, b \in SubSteps}

\* a command that builds a stage, and commands that copy
MCLabels == {Project(<<LabelStep("build", "z", Always)>>, FALSE, "false", Plain1, Plain1, "l")}
MCCopies ==
  {Project(<<a>>, FALSE, "false", Plain1, Plain1, "l") :
     a \in {StageStep("s", "none", FALSE, Always), ExportStep("s", Word("d"), FALSE, Always)}}

Call(name, argv) == [name |-> name, argv |-> argv]
MCInvocations ==
  {Call("", <<>>), Call("m", <<Set("off", ""), No("on"), Set("out", ""), Value("v")>>),
   Call("sub", <<Set("list", ""), Value("x"), Set("list", "y")>>)}

MCArguments ==
  MCInvocations \cup
    {Call("l", <<Set("n", "7")>>), Call("leaf", <<Set("n", "x")>>), Call("none", <<>>), Call("main", <<Set("out", ""), Help>>)}
=============================================================================
