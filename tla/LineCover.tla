------------------------------ MODULE LineCover ------------------------------
(***************************************************************************)
(* The lines of one file that a session has read, as sets: what            *)
(* FileEntry.line_ranges means.  LineRanges shows that the lists of        *)
(* session.ts and hooks_read.ts mean this; ReadGuard builds on it.         *)
(***************************************************************************)
EXTENDS Naturals, FiniteSets

CONSTANTS
  Beyond,      \* the line after the last; it stands for "and so on to the end"
  FullAt,      \* _READ_COUNT_FULL_FILE_THRESHOLD
  MaxRanges    \* _MAX_LINE_RANGES_PER_FILE

Whole == 1..Beyond    \* a Read without offset and limit

\* The number of maximal runs: what _merge_ranges leaves.
Runs(cover) == Cardinality({l \in cover : l = 1 \/ l - 1 \notin cover})
Span(cover) == {l \in Whole : \E a, b \in cover : a <= l /\ l <= b}

\* The lines recorded once a window has been read, after `count` reads.
Recorded(cover, count, win) ==
  LET both == cover \cup win
  IN  IF count + 1 >= FullAt THEN Whole
      ELSE IF Runs(both) > MaxRanges THEN Span(both) ELSE both

WindowIsCovered(cover, win) == win \subseteq cover
=============================================================================
