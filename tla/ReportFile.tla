----------------------------- MODULE ReportFile -----------------------------
(***************************************************************************)
(* What a reader of summary-gen-accounts.json may count on: the file is    *)
(* missing or one whole round, of which the sum is the sum of its parts,   *)
(* and later reads show later rounds.                                      *)
(***************************************************************************)
EXTENDS Integers, Functions

CONSTANTS Nodes, NoReport

VARIABLE shown

Total(items) == FoldFunctionOnSet(+, 0, items, Nodes)

Init == shown = NoReport

Publish ==
    /\ shown' # NoReport
    /\ shown'.total = Total(shown'.items)
    /\ shown # NoReport => shown'.round > shown.round

Spec == Init /\ [][Publish]_shown
=============================================================================
