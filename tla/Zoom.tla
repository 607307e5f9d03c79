-------------------------------- MODULE Zoom --------------------------------
(***************************************************************************)
(* What becomes of a text on its way into the channel: sroiaaa-notify      *)
(* reads it, cut at MaxInput, and puts a title over it, and split of       *)
(* zoom/client.go makes messages of it.  A text is a sequence of lines, a  *)
(* line a sequence of characters of a byte each, none of them white space; *)
(* the last line of a text does not end in a newline.                      *)
(***************************************************************************)
EXTENDS Naturals, Sequences, SequencesExt

CONSTANTS
  MaxInput,        \* bytes sroiaaa-notify reads
  maxMessageBytes  \* bytes of one message

ASSUME SizesAssumption == MaxInput \in Nat /\ maxMessageBytes \in Nat \ {0}

\* Bytes of the lines with a newline after each.
Size(lines) == Len(FlattenSeq(lines)) + Len(lines)

-----------------------------------------------------------------------------
\* White space is newlines here.
Inked(lines) == {i \in DOMAIN lines : lines[i] # <<>>}

TrimRight(lines) ==
  IF Inked(lines) = {} THEN <<>> ELSE SubSeq(lines, 1, Max(Inked(lines)))

TrimSpace(lines) ==
  IF Inked(lines) = {} THEN <<>>
  ELSE SubSeq(lines, Min(Inked(lines)), Max(Inked(lines)))

\* io.LimitReader: the lines that begin within MaxInput, the last one cut.
ReadInput(lines) ==
  LET Before(i) == Size(SubSeq(lines, 1, i - 1))
      begun == Cardinality({i \in DOMAIN lines : Before(i) < MaxInput})
  IN  [i \in 1..begun |->
         SubSeq(lines[i], 1, Min({Len(lines[i]), MaxInput - Before(i)}))]

\* A text of nothing is not posted: it has no line, not even the title.
Message(title, input) ==
  LET text == TrimSpace(ReadInput(input))
  IN  IF text = <<>> THEN <<>> ELSE <<title>> \o text

-----------------------------------------------------------------------------
(* split: lines are collected while they fit.  A line that does not fit by  *)
(* itself is cut, its last piece collected like a line.                     *)

Flush(s) ==
  IF s.current = <<>> THEN s
  ELSE [parts |-> Append(s.parts, TrimRight(s.current)), current |-> <<>>]

Cuts(line) == IF line = <<>> THEN 0 ELSE (Len(line) - 1) \div maxMessageBytes

Piece(line, i) ==
  SubSeq(line, (i - 1) * maxMessageBytes + 1, Min({i * maxMessageBytes, Len(line)}))

AddLine(s, line) ==
  LET cuts == Cuts(line)
      rest == Piece(line, cuts + 1)
      cut == IF cuts = 0 THEN s
             ELSE [Flush(s) EXCEPT !.parts = @ \o [i \in 1..cuts |-> <<Piece(line, i)>>]]
      fits == Size(cut.current) + Len(rest) + 1 <= maxMessageBytes
      room == IF fits THEN cut ELSE Flush(cut)
  IN  [room EXCEPT !.current = Append(@, rest)]

split(lines) ==
  LET text == TrimSpace(lines)
  IN  CASE text = <<>> -> <<>>
        [] text # <<>> /\ Size(text) - 1 <= maxMessageBytes -> <<text>>
        [] OTHER -> Flush(FoldLeft(AddLine, [parts |-> <<>>, current |-> <<>>], text)).parts
=============================================================================
