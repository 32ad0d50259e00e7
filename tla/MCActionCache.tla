---------------------------- MODULE MCActionCache ----------------------------
(***************************************************************************)
(* Instances of ActionCache: a source, a header, and a header the header   *)
(* may include.                                                            *)
(***************************************************************************)
EXTENDS ActionCache

CONSTANTS src, hdr, sub, x, y

\* src always includes hdr; hdr includes sub when it contains x.
MCDepsOf ==
    [c \in Contents |-> IF c[hdr] = x THEN <<src, hdr, sub>> ELSE <<src, hdr>>]
MCStatic == <<src>>
MCStarts == {[f \in File |-> x]}
=============================================================================
