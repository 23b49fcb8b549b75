------------------------------- MODULE ReadLog -------------------------------
(* What mark_file_read promises about one file: the abstract specification *)
(* that LineRanges implements.                                             *)
EXTENDS LineCover

CONSTANT Window
VARIABLES cover, count

Init == cover = {} /\ count = 0

MarkLines(win) == cover' = Recorded(cover, count, win) /\ count' = count + 1
MarkSymbol == count' = count + 1 /\ UNCHANGED cover

Next == MarkSymbol \/ \E win \in Window : MarkLines(win)
Spec == Init /\ [][Next]_<<cover, count>>
=============================================================================
