--------------------------- MODULE MCContextPacket ---------------------------
(* Two chapters, one inside the other; knowledge that must not leave the       *)
(* machine, a style sample that may.                                           *)
EXTENDS ContextPacket, TLC

MCParent == 1 :> NoChapter @@ 2 :> 1
MCBudget == [polish |-> 20, critique |-> 21]

LengthsOf(selection, around, docs, summaries, items) ==
    [ target |-> selection, prefix |-> around, suffix |-> around, structure |-> docs,
      knowledge |-> items, style |-> items, chapter |-> summaries, whole |-> summaries ]

\* Shares of tiers exceeded; an exact fit after borrowing; a target beyond the
\* whole budget of one type.
MCLengths ==
    { LengthsOf(6, 3, 2, 4, 3), LengthsOf(9, 3, 1, 2, 5), LengthsOf(21, 1, 1, 1, 1) }

Ask(type, remote, around) == [type |-> type, remote |-> remote, around |-> around]

MCAsks == {Ask("polish", TRUE, {"prefix", "suffix"}), Ask("critique", FALSE, {"suffix"})}
=============================================================================
