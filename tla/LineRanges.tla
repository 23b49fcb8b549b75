----------------------------- MODULE LineRanges -----------------------------
(***************************************************************************)
(* The line ranges of one FileEntry as the code keeps them: a list of      *)
(* [first, last] pairs, an open end written as first + UnknownEnd, the     *)
(* whole file as [[0, 0]].  mark_file_read adds to the list; a hook before *)
(* the next Read asks whether a window is in it and which parts are not.   *)
(***************************************************************************)
EXTENDS Integers, Sequences, Functions

CONSTANTS
  Top,         \* the last line a request names
  UnknownEnd,  \* _UNKNOWN_END_SENTINEL
  FullAt, MaxRanges,   \* as in LineCover
  MaxCount     \* bound: calls of mark_file_read

\* Files have at most 99,999 lines.  The code does not look: in a longer file an
\* open end may be inside the file, and joined ranges may pass for an open one.
ASSUME Bounds ==
  /\ Top \in Nat \ {0} /\ UnknownEnd \in Nat /\ UnknownEnd >= Top
  /\ FullAt \in Nat /\ MaxRanges \in Nat \ {0} /\ MaxCount \in Nat

VARIABLES
  ranges,   \* FileEntry.line_ranges
  count     \* FileEntry.read_count
vars == <<ranges, count>>

Line == 1..Top
FullFile == << <<0, 0>> >>
IsFullFile(rs) == \E i \in DOMAIN rs : rs[i] = <<0, 0>>
Least(a, b) == IF a < b THEN a ELSE b
Greatest(a, b) == IF a > b THEN a ELSE b

-----------------------------------------------------------------------------
(* mark_file_read                                                          *)

Before(r, s) == r[1] < s[1] \/ (r[1] = s[1] /\ r[2] < s[2])
\* The ranges of the list in ascending order: a permutation of them.
IsSorted(s) == \A i, j \in DOMAIN s : i < j => ~Before(s[j], s[i])
Sorted(rs) ==
  CHOOSE s \in {[i \in DOMAIN rs |-> rs[p[i]]] : p \in Bijection(DOMAIN rs, DOMAIN rs)} :
    IsSorted(s)

\* Mutant: only ranges that overlap are joined.
JoinOverlapping(out, r) ==
  LET last == out[Len(out)]
  IN  IF r[1] <= last[2]
      THEN [out EXCEPT ![Len(out)][2] = Greatest(last[2], r[2])]
      ELSE Append(out, r)

\* Mutant: the later range decides where the joined one ends.
JoinLater(out, r) ==
  IF r[1] <= out[Len(out)][2] + 1 THEN [out EXCEPT ![Len(out)][2] = r[2]]
  ELSE Append(out, r)

\* The loop of _merge_ranges: r touches the last range or starts a new one.
Join(out, r) ==
  LET last == out[Len(out)]
  IN  IF r[1] <= last[2] + 1
      THEN [out EXCEPT ![Len(out)][2] = Greatest(last[2], r[2])]
      ELSE Append(out, r)

Joined(s) ==
  LET out[n \in 1..Len(s)] == IF n = 1 THEN <<s[1]>> ELSE Join(out[n - 1], s[n])
  IN  out[Len(s)]
MergeRanges(rs) == Joined(Sorted(rs))

\* The list after a read of r, the n-th of the file.
Marked(rs, n, r) ==
  LET merged == MergeRanges(Append(rs, r))
  IN  IF n >= FullAt THEN FullFile
      ELSE IF Len(merged) > MaxRanges
           THEN << <<merged[1][1], merged[Len(merged)][2]>> >>
           ELSE merged

Init == ranges = << >> /\ count = 0

Mark(first, last) ==
  /\ count < MaxCount
  /\ count' = count + 1
  /\ ranges' = Marked(ranges, count', <<first, last>>)

MarkLines == \E a \in Line : \E b \in a..Top : Mark(a, b)
MarkToEnd == \E a \in Line : Mark(a, a + UnknownEnd)

\* A symbol read counts, and names no lines.
MarkSymbol == count < MaxCount /\ count' = count + 1 /\ UNCHANGED ranges

Next == MarkLines \/ MarkToEnd \/ MarkSymbol
Spec == Init /\ [][Next]_vars

-----------------------------------------------------------------------------
(* What a hook asks of the list.                                           *)

\* Mutant: any open end serves a request to the end.
CoveredToEndLax(rs, first) == \E i \in DOMAIN rs : rs[i][2] - rs[i][1] >= UnknownEnd

\* _window_is_covered without a last line, and with one.
CoveredToEnd(rs, first) ==
  \E i \in DOMAIN rs : rs[i][1] <= first /\ rs[i][2] - rs[i][1] >= UnknownEnd
CoveredTo(rs, first, last) ==
  \E i \in DOMAIN rs : rs[i][1] <= first /\ rs[i][2] >= last

\* Mutant: the piece after a range starts on the range's last line.
PiecesShifted(u, r) ==
  IF r[2] < u[1] \/ r[1] > u[2] THEN <<u>>
  ELSE (IF r[1] > u[1] THEN << <<u[1], r[1] - 1>> >> ELSE << >>)
       \o (IF r[2] < u[2] THEN << <<r[2], u[2]>> >> ELSE << >>)

\* What r leaves of the piece u.
Pieces(u, r) ==
  IF r[2] < u[1] \/ r[1] > u[2] THEN <<u>>
  ELSE (IF r[1] > u[1] THEN << <<u[1], r[1] - 1>> >> ELSE << >>)
       \o (IF r[2] < u[2] THEN << <<r[2] + 1, u[2]>> >> ELSE << >>)

\* What r leaves of all of them, the inner loop, ...
Cut(pending, r) ==
  LET nxt[n \in 0..Len(pending)] ==
        IF n = 0 THEN << >> ELSE nxt[n - 1] \o Pieces(pending[n], r)
  IN  nxt[Len(pending)]

\* ... and what all ranges leave of a window.
CutAll(window, s) ==
  LET pending[n \in 0..Len(s)] ==
        IF n = 0 THEN <<window>> ELSE Cut(pending[n - 1], s[n])
  IN  pending[Len(s)]

UncoveredSubranges(rs, first, last) ==
  IF IsFullFile(rs) THEN << >>
  ELSE CutAll(<<first, last>>, Sorted(rs))

Overlaps(rs, first, last) ==
  IsFullFile(rs) \/ \E i \in DOMAIN rs : rs[i][1] <= last /\ rs[i][2] >= first

\* _handle_partial_overlap_hint: the reads it proposes instead of the window;
\* none when it says nothing.
Advice(rs, first, last) ==
  IF Overlaps(rs, first, last) THEN UncoveredSubranges(rs, first, last) ELSE << >>

\* The list after the proposed reads, before the file counts as read in full.
Followed(rs, advice) ==
  LET after[n \in 0..Len(advice)] ==
        IF n = 0 THEN rs ELSE Marked(after[n - 1], 0, advice[n])
  IN  after[Len(advice)]

-----------------------------------------------------------------------------
\* The lines a list stands for.
LinesOf(r) == {l \in Line : r[1] <= l /\ l <= r[2]}
              \cup {l \in {Top + 1} : r[2] - r[1] >= UnknownEnd}
Cover(rs) ==
  IF IsFullFile(rs) THEN 1..(Top + 1)
  ELSE UNION {LinesOf(rs[i]) : i \in DOMAIN rs}

Log == INSTANCE ReadLog
         WITH cover <- Cover(ranges), Beyond <- Top + 1,
              Window <- {a..b : a \in Line, b \in 1..(Top + 1)} \ {{}}

\* The list is the whole file, or sorted with a gap after every range and no
\* longer than the cap, so that one range answers for a window.
Normal ==
  \/ ranges = FullFile
  \/ /\ Len(ranges) <= MaxRanges
     /\ \A i \in DOMAIN ranges :
          /\ ranges[i][1] \in Line
          /\ ranges[i][2] \in ranges[i][1]..(Top + UnknownEnd)
          /\ i > 1 => ranges[i][1] > ranges[i - 1][2] + 1

\* mark_file_read on the list is mark_file_read on the set of lines.
MarksAreRecorded == Log!Spec

\* The answer of _window_is_covered is that of the set, for every request:
\* neither a line too many (the Read is denied) nor one too few (it is wasted).
AnswersAgree ==
  IsFullFile(ranges) \/
    \A a \in Line :
      /\ CoveredToEnd(ranges, a) <=> a..(Top + 1) \subseteq Cover(ranges)
      /\ \A b \in a..Top : CoveredTo(ranges, a, b) <=> a..b \subseteq Cover(ranges)

\* An agent that makes the reads the hint proposes, in any order that the hint
\* lists them, ends with the window covered and has read no line twice.
AdviceCompletes ==
  \A a \in Line : \A b \in a..Top :
    LET advice == Advice(ranges, a, b)
        Lines(u) == u[1]..u[2]
        after == Followed(ranges, advice)
    IN  advice # << >> =>
          /\ IsFullFile(after) \/ CoveredTo(after, a, b)
          /\ \A i, j \in DOMAIN advice :
               i # j => Lines(advice[i]) \cap Lines(advice[j]) = {}
          /\ \A i \in DOMAIN advice :
               Lines(advice[i]) # {} /\ Lines(advice[i]) \cap Cover(ranges) = {}
=============================================================================
