-------------------------- MODULE MCReviewSession --------------------------
(* Texts, proposals and bounds for model-checking ReviewSession. *)
EXTENDS ReviewSession

Hunk(id, from, to, original, replacement, group) ==
    [ id |-> id, from |-> from, to |-> to, original |-> original,
      replacement |-> replacement, group |-> group ]

\* A character of two code units in the middle, so that units are not characters.
MCTexts == { <<"a", "W", "b">>, <<"b">> }

\* An atomic group around an insertion that touches both its neighbours; an
\* insertion before a deletion at the same place.
MCProposals ==
    { [ from |-> 0, to |-> 4,
        hunks |-> << Hunk("h1", 1, 3, <<"W">>, <<"c">>, "g"),
                     Hunk("h2", 3, 3, << >>, <<"W", "d">>, NoGroup),
                     Hunk("h3", 3, 4, <<"b">>, << >>, "g") >> ],
      [ from |-> 0, to |-> 1,
        hunks |-> << Hunk("h1", 0, 0, << >>, <<"W">>, NoGroup),
                     Hunk("h2", 0, 1, <<"a">>, << >>, NoGroup) >> ] }

MCCommits == 1 .. MaxCommits

Symmetry == Permutations(Pages)
=============================================================================
