---------------------------- MODULE MCAuthoring -----------------------------
(***************************************************************************)
(* Instances of Authoring: projects whose files name each other (Nested),  *)
(* whose declarations follow each other in one file (Listed), that use     *)
(* language providers (Provided) and that declare test suites (Suited).    *)
(***************************************************************************)
EXTENDS Authoring

NoManifest == [ns |-> "z", api |-> "1", impl |-> "impl", units |-> <<>>, finals |-> <<>>, exports |-> {}]
Written(form, body) == [form |-> form, body |-> body, helper |-> <<>>, manifest |-> NoManifest, functions |-> {}]
Source(path, suffix, ns, unit) == [path |-> path, suffix |-> suffix, ns |-> ns, unit |-> unit]

T(kind, name, fields) == Declaration(Decl("target", kind, name, fields, "none"))
Exe(name) == T("exe", name, [sources |-> <<Source("main", "c", "", "")>>])
NoOptions == {}
Project(files, entry, overrides) == [files |-> files, entry |-> entry, overrides |-> overrides]
Only(body) == Project(Entry0 :> Written("ok", body), Entry0, NoOptions)

-----------------------------------------------------------------------------
A == <<"a">>
AB == <<"a", "b">>
M == <<"m">>
Here == <<"t">>

ImportA == ImportFileOf(A, "a", FALSE)
RootFirst == {SubdirOf(A), Pcall(SubdirOf(A)), Pcall(ImportA), ImportModuleOf(M, FALSE), Pcall(UseLanguageOf(M))}
RootSecond == {Exe(Here), Pcall(SubdirOf(A)), Pcall(ImportModuleOf(M, FALSE)), CallOf(M), Pcall(CallOf(M)), UseLanguageOf(M)}
InA == {<<SubdirOf(<<"b">>)>>, <<Pcall(SubdirOf(<<"b">>)), Exe(Here)>>, <<ImportFileOf(<<"b">>, "b", TRUE), RaiseError>>,
        <<Pcall(ImportModuleOf(M, FALSE)), CallOf(M), Exe(Here)>>, <<ImportA>>, <<Pcall(SubdirOf(<<"c">>)), Exe(Here)>>}
InB == {Written("ok", <<Exe(Here), Pcall(ImportA)>>), Written("ok", <<Exe(Here), RaiseError>>), Written("broken", <<>>)}
Module(form, body, helper) == [Written(form, body) EXCEPT !.helper = helper]
InM == {Module("ok", <<>>, <<Exe(<<"h">>), SubdirOf(<<"b">>)>>),
        Module("ok", <<Pcall(Exe(Here)), Pcall(SubdirOf(A)), Pcall(UseLanguageOf(A))>>, <<Pcall(ImportFileOf(<<"b">>, "b", TRUE)), RaiseError>>),
        Module("ok", <<Pcall(ImportModuleOf(M, FALSE)), RaiseError>>, <<>>),
        Module("table", <<Pcall(ImportModuleOf(<<"n">>, FALSE))>>, <<>>)}

Nested ==
  {Project((Entry0 :> Written("ok", <<x, y>>)) @@ (Fragment(A) :> Written("ok", a)) @@ (Fragment(AB) :> b)
             @@ (ModuleFile(M) :> m), Entry0, NoOptions) :
     x \in RootFirst, y \in RootSecond, a \in InA, b \in InB, m \in InM}
  \cup {Project((Entry0 :> Written("ok", <<SubdirOf(A)>>)) @@ (Fragment(A) :> Written("ok", a)), e, NoOptions) :
          a \in InA, e \in {Fragment(A), File(A, "other", "lua"), File(<<>>, "other", "qst"), File(A, "a", Removed)}}

-----------------------------------------------------------------------------
D(is, kind, name, fields, bad) == Pcall(Declaration(Decl(is, kind, name, fields, bad)))
Opt(type, value, bad) == D("option", "option", <<"o">>, [type |-> <<type>>, value |-> <<value>>, choices |-> IF type = "combo" THEN <<"1">> ELSE <<>>], bad)
Uses == [configs |-> <<<<"c">>>>, sources |-> <<Source("x", "c", "", "")>>, deps |-> <<Here>>]

Declared1 ==
  {D("target", "exe", Here, Uses, "none"), D("target", "exe", Here, Uses, "deps"), D("target", "run_target", Here, [libs |-> <<"l">>], "none"),
   D("config", "config", <<"c">>, [libs |-> <<"l">>, toolset |-> <<<<"k">>>>], "none"), D("config", "config", <<"c">>, [libs |-> <<"l">>], "toolset"),
   D("toolset", "toolset", <<"k">>, [tools |-> <<[ns |-> "c", role |-> "cc"], [ns |-> "z", role |-> "zc"]>>], "none"),
   D("rule", "custom", Here, [tool |-> <<"sh">>, outputs |-> <<"out">>], "schema"), D("rule", "transform", <<"r">>, [input |-> <<"in">>], "none"),
   D("stage", "stage", Here, [root |-> <<"dist">>], "root")}
Declared2 ==
  Declared1 \cup
  {D("toolset", "toolset", <<"k">>, [tools |-> <<[ns |-> "c", role |-> "cc"]>>], "none"),
   D("target", "exe", <<"//", "u">>, [toolset |-> <<<<"k">>>>], "none"), D("rule", "configure", <<"//", "t">>, [output |-> <<"h">>], "none"),
   D("target", "tool", <<"u">>, [path |-> <<"p">>], "path"), D("target", "imported", <<"u">>, [artifacts |-> <<"p">>], "none"), D("target", "exe", <<"u">>, Uses, "name"),
   D("target", "test", <<"u">>, [resources |-> <<"r">>], "retry"), D("resource", "resource", <<"r">>, [capacity |-> <<"1">>], "none"), D("resource", "resource", <<"r">>, [description |-> <<"d">>], "none"),
   D("family", "family", <<"f">>, [variants |-> <<"v">>, targets |-> <<Here>>], "none"), D("family", "family", <<"f">>, [allow_shared_sources |-> <<"true">>], "none"),
   D("variant", "variant", <<"v">>, [values |-> <<"1">>], "none"), D("variant", "variant", <<"v">>, [values |-> <<"1">>], "nested"), D("variant", "variant", <<"v">>, [tags |-> <<"t">>], "none"),
   D("project", "project", <<>>, [root |-> <<".">>], "none"), D("project", "project", <<>>, [root |-> <<"a">>], "none"),
   Opt("integer", "1", "none"), Opt("combo", "1", "none"), Opt("boolean", "2", "none"), Opt("integer", "1", "type")}

Listed ==
  {Project(Entry0 :> Written("ok", <<x, y>>), Entry0, o) :
     x \in Declared1, y \in Declared2, o \in {NoOptions, {[name |-> <<"o">>, value |-> "2"]}}}
  \cup {Only(<<x, x, y>>) : x \in Declared2, y \in {Exe(Here), RaiseError}}

-----------------------------------------------------------------------------
Z == <<"qstar", "languages", "z">>
W == <<"lang", "w">>
Unit(lower) == [name |-> "src", suffix |-> "z", lower |-> lower]
Output(suffix, role) == [suffix |-> suffix, role |-> role]
Final(kind, lower, inputs, outputs) == [kind |-> kind, lower |-> lower, inputs |-> inputs, outputs |-> outputs]
AllInputs == <<"sources", "objects", "link_interfaces", "link_inputs">>
LinkExe(lower, inputs) == Final("executable", lower, inputs, <<Output("", "primary"), Output(".map", "secondary")>>)
LinkLib == Final("sharedlib", "whole", AllInputs, <<Output("", "primary"), Output(".lib", "link-interface")>>)

Manifest2(ns, api, units, fs) == [ns |-> ns, api |-> api, impl |-> "impl", units |-> units, finals |-> fs, exports |-> {"lower"}]
ProviderFile(body, m) == [Written("provider", body) EXCEPT !.manifest = m]
ImplementationFile(body, functions) == [Written("ok", body) EXCEPT !.functions = functions]
MCAsksFor == [whole |-> {"sources", "objects", "link_interfaces", "link_inputs", "outputs"},
              linker |-> {"objects", "link_interfaces", "outputs"}, forgetful |-> {"sources", "outputs"}]
AllFunctions == {"lower", "whole", "linker", "forgetful"}

ManifestsZ ==
  {Manifest2("z", "2", <<Unit("lower")>>, <<LinkLib, LinkExe("whole", AllInputs)>>), Manifest2("z", "2", <<Unit("lower")>>, <<LinkLib, LinkExe("linker", <<"objects", "link_interfaces">>)>>),
   Manifest2("z", "2", <<Unit("lower")>>, <<LinkLib, LinkExe("forgetful", <<"sources">>)>>), Manifest2("z", "1", <<Unit("lower")>>, <<LinkExe("whole", <<>>)>>),
   Manifest2("z", "2", <<Unit("absent")>>, <<LinkExe("whole", AllInputs)>>), Manifest2("z", "2", <<Unit("lower")>>, <<LinkExe("whole", <<"objects", "objects">>)>>),
   Manifest2("z", "2", <<>>, <<LinkExe("whole", <<"metal">>)>>), Manifest2("c", "2", <<>>, <<>>)}
ManifestsW ==
  {Manifest2("w", "2", <<Unit("lower")>>, <<>>), Manifest2("w", "2", <<[Unit("lower") EXCEPT !.suffix = "w"]>>, <<LinkExe("whole", AllInputs)>>),
   Manifest2("z", "2", <<>>, <<>>)}

Zs == Source("one", "z", "", "")
ZUnit == Source("two", "z", "z", "src")
Ws == Source("three", "w", "", "")
Lib == T("sharedlib", <<"lib">>, [sources |-> <<ZUnit>>])
Through == T("interface", <<"via">>, [deps |-> <<<<"lib">>, <<"arch">>>>])
Archive == T("staticlib", <<"arch">>, [sources |-> <<Source("ar", "c", "", "")>>])
ObjLib(context) == T("objectlib", <<"objs">>, [sources |-> <<Source("ob", "c", "", ""), Source("raw", "o", "", "")>>, compile_context |-> <<context>>])
Main(sources, deps, objects, inputs) ==
  T("exe", <<"main">>, [sources |-> sources, deps |-> deps, objects |-> objects, link_inputs |-> inputs])
Mains ==
  {Main(<<Zs>>, <<>>, <<>>, <<>>), Main(<<ZUnit, Source("m", "c", "", "")>>, <<<<"via">>>>, <<>>, <<>>), Main(<<ZUnit, Ws>>, <<<<"lib">>>>, <<>>, <<>>),
   Main(<<ZUnit, Source("m", "o", "", "")>>, <<>>, <<<<"objs">>>>, <<<<"target_file", <<"arch">>>>, <<"path", "script">>>>),
   Main(<<ZUnit>>, <<<<"arch">>, <<"gone">>>>, <<>>, <<>>), Main(<<ZUnit>>, <<>>, <<<<"arch">>>>, <<>>)}

WithProviders(z, bodyZ, w, functions, body) ==
  Project((Entry0 :> Written("ok", body)) @@ (ModuleFile(Z) :> ProviderFile(bodyZ, z)) @@ (ModuleFile(W) :> ProviderFile(<<>>, w))
            @@ (File(Z, "impl", "lua") :> ImplementationFile(<<>>, functions)) @@ (File(W, "impl", "lua") :> ImplementationFile(<<>>, AllFunctions)),
          Entry0, NoOptions)

UseZ == UseLanguageId("z")
UseW == UseLanguageOf(W)
Provided ==
  {WithProviders(z, <<>>, w, AllFunctions, uses \o targets) :
     z \in ManifestsZ, w \in ManifestsW, uses \in {<<UseZ>>, <<UseZ, Pcall(UseW)>>, <<Pcall(UseZ), Pcall(UseZ), Pcall(UseW)>>},
     targets \in {<<Archive, Lib, Through, ObjLib("own"), main>> : main \in Mains}
                   \cup {<<main, Lib, Through, Archive, ObjLib("consumer")>> : main \in Mains}}
  \cup {WithProviders(z, bodyZ, Manifest2("w", "2", <<>>, <<>>), functions, <<use, Pcall(UseW), Lib>>) :
          z \in ManifestsZ, bodyZ \in {<<UseW>>, <<Pcall(UseZ)>>, <<UseZ>>, <<Pcall(Lib), RaiseError>>},
          functions \in {AllFunctions, {"whole"}}, use \in {UseZ, Pcall(UseZ), ImportModuleOf(Z, FALSE)}}
  \cup {Only(<<Pcall(UseZ), Exe(Here)>>)}

-----------------------------------------------------------------------------
S1 == <<"s1">>
S2 == <<"s2">>
S3 == <<"s3">>
Suite(name, tests, tags, manual) ==
  Declaration(Decl("suite", "suite", name, [tests |-> tests, tags |-> tags, manual |-> manual], "none"))
Members1 == {<<<<"u">>, S2>>, <<S2, S3>>, <<S3, <<"v">>>>, <<<<"u">>, <<"u">>>>}
Members2 == {<<<<"u">>>>, <<<<"v">>, S3>>, <<S3>>, <<<<"g">>, S1>>, <<<<"exe">>>>}
Members3 == {<<<<"g">>>>, <<<<"u">>, <<"v">>>>, <<S1>>, <<S3>>, <<>>}
TestTargets == <<T("test", <<"u">>, [timeout |-> <<"1">>]), T("test", <<"v">>, [timeout |-> <<"1">>]),
                 T("run_target", <<"g">>, [command |-> <<"run">>]), Exe(<<"exe">>)>>

Suited ==
  {Only(TestTargets \o <<Suite(S1, a, <<"slow">>, <<>>), Suite(S2, b, t, m), Suite(S3, c, <<"fast">>, <<>>)>>) :
     a \in Members1, b \in Members2, c \in Members3, t \in {<<>>, <<"slow">>, <<"fast", "net">>}, m \in {<<>>, <<"true">>}}
  \cup {Only(TestTargets \o <<Suite(n, <<<<"u">>>>, t, <<>>)>>) : n \in {S1, <<"u">>}, t \in {<<>>, <<"slow", "slow">>, <<"">>}}

Request(suites, tags, exclude) == [suites |-> suites, tags |-> tags, exclude |-> exclude]
MCRequests ==
  {Request(s, t, e) : s \in {<<>>, <<S1>>, <<S3, S2>>}, t \in {{}, {"slow"}, {"net", "fast"}}, e \in {{}, {"fast"}}}
    \cup {Request(<<<<"s9">>>>, {}, {}), Request(<<S1>>, {}, {"slow"})}

MCSuiteOrder == <<S1, S2, S3>>
\* a target that is declared before what it links, and three suites, each with a
\* test of its own
MCLater ==
  {WithProviders(z, <<>>, w, AllFunctions, <<UseZ>> \o <<main, Lib, Through, Archive, ObjLib("own")>>) :
     z \in ManifestsZ, w \in ManifestsW, main \in Mains}
MCSuites ==
  {Only(TestTargets \o <<Suite(S1, <<<<"u">>, S2>>, <<"slow">>, <<>>), Suite(S2, <<b>>, t, <<>>),
                        Suite(S3, <<<<"g">>>>, <<"host">>, <<>>)>>) :
     b \in {<<"u">>, <<"v">>}, t \in {<<>>, <<"fast">>}}
MCProjectChoices == Nested \cup Listed \cup Provided \cup Suited
=============================================================================
