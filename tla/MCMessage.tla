------------------------------ MODULE MCMessage ------------------------------
(***************************************************************************)
(* Instances of the message hook: a chat message and a message some plugin  *)
(* filters, each hooked at some time; chat lines with a long or short text. *)
(***************************************************************************)
EXTENDS MatchMessage

CONSTANTS Say, Menu, p1, everyone, format, long, junk, zero

MCTypes == {Say, Menu}
MCTargets == {p1, everyone}
MCValues == {format, long, junk, zero}
MCFits == {format, zero}
MCReads == [v \in Values |-> IF v \in Fits THEN {v} ELSE {long, junk}]
MCFunction == [t \in MCTypes |-> IF t = Say THEN "SayText" ELSE "Filter"]

\* The parameters of a chat line: who speaks, the format, a name and the text.
Bytes(values) == [Type : {"BYTE"}, Value : values]
Strings(values) == [Type : {"STRING"}, Value : values]
MCWritten ==
    <<Bytes({zero}), Strings({format, zero}), Strings({zero}), Strings({zero, long})>>
=============================================================================
