----------------------------- MODULE PatchHunks -----------------------------
(***************************************************************************)
(* The hunks of a patch proposal: how decisions on them are made, replayed *)
(* and turned into text (patch-engine/src/review.ts on the page,           *)
(* workspace_commands_review.rs in the host).                              *)
(*                                                                         *)
(* A text is a sequence of characters.  The page addresses it in UTF-16    *)
(* code units and the host in bytes, so a character of Wide, which takes   *)
(* two code units, makes offsets that fall inside a character.             *)
(***************************************************************************)
EXTENDS Integers, SequencesExt

CONSTANTS
    Characters,   \* what texts are made of
    Wide          \* the characters outside the basic plane

NoGroup == "none"

Decided == {"accepted", "rejected"}

-----------------------------------------------------------------------------
(* Offsets *)

Width(char) == IF char \in Wide THEN 2 ELSE 1

\* Code units of the first n characters.
Units(text, n) ==
    LET sum[k \in 0 .. Len(text)] == IF k = 0 THEN 0 ELSE sum[k - 1] + Width(text[k])
    IN  sum[n]

IsBoundary(text, offset) == \E n \in 0 .. Len(text) : Units(text, n) = offset

\* utf16_to_byte: the characters that end at or before an offset.  The code errs
\* on an offset inside a character, and asks for none that ValidHunks refused.
Chars(text, offset) == Cardinality({n \in 1 .. Len(text) : Units(text, n) <= offset})

-----------------------------------------------------------------------------
(* Hunks *)

\* original is what the text has between the two offsets.
HunkRecord(ids) ==
    [ id : ids, from : Nat, to : Nat, original : Seq(Characters),
      replacement : Seq(Characters), group : STRING ]

IsInsertion(h) == h.from = h.to

\* validate_proposal_hunks: in order and apart within the target, on boundaries,
\* and about this text.
ValidHunks(text, target, hunks) ==
    /\ hunks # << >>
    /\ IsBoundary(text, target.from) /\ IsBoundary(text, target.to)
    /\ \A i, j \in DOMAIN hunks : i # j => hunks[i].id # hunks[j].id
    /\ \A i \in DOMAIN hunks :
          LET h == hunks[i] IN
          /\ target.from <= h.from /\ h.from <= h.to /\ h.to <= target.to
          /\ IsBoundary(text, h.from) /\ IsBoundary(text, h.to)
          /\ SubSeq(text, Chars(text, h.from) + 1, Chars(text, h.to)) = h.original
          /\ i > 1 => /\ h.from >= hunks[i - 1].to
                      /\ ~(IsInsertion(h) /\ IsInsertion(hunks[i - 1])
                             /\ h.from = hunks[i - 1].from)

Replace(text, h) ==
    SubSeq(text, 1, Chars(text, h.from)) \o h.replacement
        \o SubSeq(text, Chars(text, h.to) + 1, Len(text))

\* The text after some hunks, one after the other.
Carried(text, hunks) ==
    LET after[n \in 0 .. Len(hunks)] ==
            IF n = 0 THEN text ELSE Replace(after[n - 1], hunks[n])
    IN  after[Len(hunks)]

Before(left, right) ==
    left.from > right.from \/ (left.from = right.from /\ left.to > right.to)

\* sort_unstable_by: whatever order has no hunk behind one it goes before.
Descending(hunks) ==
    LET sorts(order) == \A i, j \in DOMAIN hunks : i < j =>
            /\ order[i] # order[j]
            /\ ~Before(hunks[order[j]], hunks[order[i]])
        order == CHOOSE o \in [DOMAIN hunks -> DOMAIN hunks] : sorts(o)
    IN  [i \in DOMAIN hunks |-> hunks[order[i]]]

\* Mutant of Apply: in the order of the text, so that offsets shift.
ApplyAscending(text, hunks) == Carried(text, hunks)

\* apply_proposal_hunks: from the last hunk to the first.
Apply(text, hunks) == Carried(text, Descending(hunks))

\* The hunks decided on with a hunk: the whole of its atomic group.
Together(hunks, id) ==
    LET group(i) == hunks[CHOOSE j \in DOMAIN hunks : hunks[j].id = i].group
        ids == {hunks[i].id : i \in DOMAIN hunks}
    IN  {i \in ids : i = id \/ (group(i) = group(id) /\ group(id) # NoGroup)}

DecideHunk(hunks, decisions, id, decision) ==
    [i \in DOMAIN decisions |-> IF i \in Together(hunks, id) THEN decision ELSE decisions[i]]

Undecided(hunks) == [id \in {hunks[i].id : i \in DOMAIN hunks} |-> "pending"]

AllDecided(decisions) == \A id \in DOMAIN decisions : decisions[id] # "pending"

AfterEvent(hunks, decisions, event) ==
    IF event.kind = "decision"
    THEN DecideHunk(hunks, decisions, event.hunk, event.decision)
    ELSE decisions

\* replay_review_decisions: what the decision events of a log leave decided.
Replay(hunks, log) ==
    LET after[n \in 0 .. Len(log)] ==
            IF n = 0 THEN Undecided(hunks) ELSE AfterEvent(hunks, after[n - 1], log[n])
    IN  after[Len(log)]

\* The hunks with a decision, as the apply event lists them.
IdsWith(decisions, decision) == {id \in DOMAIN decisions : decisions[id] = decision}

\* The hunks with these ids, in their order.
Those(hunks, ids) ==
    LET kept[n \in 0 .. Len(hunks)] ==
            IF n = 0 THEN << >>
            ELSE IF hunks[n].id \in ids THEN Append(kept[n - 1], hunks[n]) ELSE kept[n - 1]
    IN  kept[Len(hunks)]

Chosen(hunks, decisions, decision) == Those(hunks, IdsWith(decisions, decision))

\* complete_review_decisions and validate_atomic_decisions.
Complete(hunks, decisions) ==
    /\ AllDecided(decisions)
    /\ \A i, j \in DOMAIN hunks :
          hunks[i].group = hunks[j].group /\ hunks[i].group # NoGroup
            => decisions[hunks[i].id] = decisions[hunks[j].id]

-----------------------------------------------------------------------------
(* What the code must agree with *)

\* The text with some hunks carried out, said without an order: the parts of
\* the text between those hunks, each followed by the replacement.
Spliced(text, hunks) ==
    LET stop(n) == IF n = 0 THEN 0 ELSE Chars(text, hunks[n].to)
        spliced[n \in 0 .. Len(hunks)] ==
            IF n = 0 THEN << >>
            ELSE spliced[n - 1] \o SubSeq(text, stop(n - 1) + 1, Chars(text, hunks[n].from))
                   \o hunks[n].replacement
    IN  spliced[Len(hunks)] \o SubSeq(text, stop(Len(hunks)) + 1, Len(text))

=============================================================================
