---------------------------- MODULE MCBuildState ----------------------------
(***************************************************************************)
(* Instances of BuildState: a program of one or two sources.               *)
(***************************************************************************)
EXTENDS BuildState

CONSTANTS s1, s2, h1, h2, c1, c2, exe, debug, release

\* Two sources, linked.  s1 includes h1 in its editions of an even number only,
\* s2 always.
MCSourceOf == [a \in Compile |-> IF a = c1 THEN s1 ELSE s2]
MCStatic ==
    [a \in Action |-> IF a \in Compile THEN <<MCSourceOf[a]>>
                      ELSE SetToSeq(Compile)]
MCIncludes ==
    [f \in {s1, s2} |-> [e \in 0..MaxEdits |->
        IF f = s1 THEN IF e % 2 = 0 THEN <<h1>> ELSE <<>> ELSE <<h1>>]]

\* One source whose target lists a header the source does not include.
MCStaticListed == [a \in Action |-> <<s1, h2>>]
MCIncludesOne == [f \in {s1} |-> [e \in 0..MaxEdits |-> <<h1>>]]

AllMoves == Option \X Option
NoMoves == {}
=============================================================================
