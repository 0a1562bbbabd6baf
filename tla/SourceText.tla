----------------------------- MODULE SourceText -----------------------------
(***************************************************************************)
(* A source file, positions in it, and the excerpt a diagnostic shows.     *)
(* A text is a sequence of characters; offsets count from 0, as in the     *)
(* code, so that Char(t, i) is t[i + 1].                                   *)
(***************************************************************************)
EXTENDS Integers, Sequences

CONSTANT MaxErrors     \* Diags.max_errors: errors kept; 0 keeps all

ASSUME MaxErrorsAssumption == MaxErrors \in Nat

NUL == "nul"
NL  == "nl"
CR  == "cr"
TAB == "tab"

\* The text is followed by a terminator, which reads as NUL.
Char(t, i) == IF i < Len(t) THEN t[i + 1] ELSE NUL

\* Offsets of the first characters of the lines, in order.
LineStarts(t) ==
  LET start[i \in 0 .. Len(t)] ==
        IF i = 0 THEN <<0>>
        ELSE start[i - 1] \o (IF t[i] = NL THEN <<i>> ELSE <<>>)
  IN  start[Len(t)]

\* source_position: the last line start at or before the offset, by bisection.
Position(t, offset) ==
  LET starts == LineStarts(t)
      off == IF offset > Len(t) THEN Len(t) ELSE offset
      bisect[r \in (0 .. Len(starts)) \X (0 .. Len(starts))] ==
        LET lo  == r[1]
            hi  == r[2]
            mid == lo + (hi - lo) \div 2
        IN  IF hi - lo <= 1 THEN lo
            ELSE IF starts[mid + 1] <= off THEN bisect[<<mid, hi>>] ELSE bisect[<<lo, mid>>]
      index == bisect[<<0, Len(starts)>>]
  IN  [line |-> index + 1, col |-> off - starts[index + 1] + 1]

\* source_line: a line without its line end.
Line(t, line) ==
  LET starts == LineStarts(t)
      start == starts[line]
      end == IF line < Len(starts) THEN starts[line + 1] ELSE Len(t)
      last == CHOOSE e \in start .. end :
                /\ \A i \in e + 1 .. end : t[i] \in {NL, CR}
                /\ e > start => t[e] \notin {NL, CR}
  IN  SubSeq(t, start + 1, last)

\* display_width: columns taken by the first `upto` characters of a line.
DisplayWidth(line, upto) ==
  LET width[i \in 0 .. Len(line)] ==
        IF i = 0 THEN 0
        ELSE width[i - 1] + IF line[i] = TAB THEN 4 - (width[i - 1] % 4) ELSE 1
  IN  width[IF upto < Len(line) THEN upto ELSE Len(line)]

\* The columns the line takes as print_excerpt writes it: four for each tab.
PrintedWidth(line, upto) ==
  LET width[i \in 0 .. Len(line)] ==
        IF i = 0 THEN 0 ELSE width[i - 1] + IF line[i] = TAB THEN 4 ELSE 1
  IN  width[IF upto < Len(line) THEN upto ELSE Len(line)]

\* Fault: an error of no width, at the end of the text, gets no marker.
ExcerptUnmarked(t, lo, hi) ==
  LET from  == Position(t, lo)
      to    == Position(t, hi)
      line  == Line(t, from.line)
  IN  [line |-> from.line, start |-> DisplayWidth(line, from.col - 1),
       end |-> IF to.line = from.line THEN DisplayWidth(line, to.col - 1) ELSE Len(line)]

\* print_excerpt: the line shown, and the columns that its marker covers.
Excerpt(t, lo, hi) ==
  LET from  == Position(t, lo)
      to    == Position(t, hi)
      line  == Line(t, from.line)
      start == DisplayWidth(line, from.col - 1)
      end   == IF to.line = from.line THEN DisplayWidth(line, to.col - 1) ELSE Len(line)
  IN  [line |-> from.line, start |-> start, end |-> IF end <= start THEN start + 1 ELSE end]

NoDiags == [items |-> <<>>, errors |-> 0]

\* diag_add for an error: all are counted, the first MaxErrors are kept.
AddError(d, lo, hi) ==
  [items  |-> IF MaxErrors # 0 /\ d.errors + 1 > MaxErrors THEN d.items
              ELSE Append(d.items, [lo |-> lo, hi |-> hi]),
   errors |-> d.errors + 1]
=============================================================================
