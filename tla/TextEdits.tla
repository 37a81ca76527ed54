------------------------------ MODULE TextEdits ------------------------------
(***************************************************************************)
(* What "rename" does with the edits of one file                           *)
(* (domain/services/rename_service.py): the text each of them replaces,    *)
(* which the preview and the manifest show, and the file's text once all   *)
(* are applied, one at a time and from the bottom up.                      *)
(*                                                                         *)
(* A text is a sequence of characters, each line end one of them whatever  *)
(* its bytes.  An edit replaces what lies between two positions            *)
(* <<line, character>>, both counted from 0, the second exclusive, by the  *)
(* text new.                                                               *)
(***************************************************************************)
EXTENDS Integers, Sequences, SequencesExt

CONSTANTS
    Texts,          \* bound: the texts a file may hold
    NewTexts        \* bound: the texts an edit may put in

NL == "newline"
LineEnds == {NL, "carriage return and newline", "carriage return"}

(* read_text(): universal newlines; write_text() writes NL as it is.       *)
ReadText(text) == [n \in 1 .. Len(text) |-> IF text[n] \in LineEnds THEN NL ELSE text[n]]

Breaks(text) == {n \in 1 .. Len(text) : text[n] = NL}

Split(text) ==
    LET cuts == SetToSortSeq({0, Len(text) + 1} \cup Breaks(text), <)
    IN [k \in 1 .. Len(cuts) - 1 |-> SubSeq(text, cuts[k] + 1, cuts[k + 1] - 1)]

Joined(lines) ==
    FlattenSeq([k \in 1 .. Len(lines) |->
                  IF k < Len(lines) THEN Append(lines[k], NL) ELSE lines[k]])

(* Slices and indices as the source's: counted from 0, and a slice that    *)
(* starts or ends past the end of the sequence ends there.                 *)
Line(lines, n) == lines[n + 1]
Upto(seq, n) == SubSeq(seq, 1, IF n < Len(seq) THEN n ELSE Len(seq))
From(seq, n) == SubSeq(seq, n + 1, Len(seq))

-----------------------------------------------------------------------------
ExtractTextAtRange(text, e) ==
    LET lines == Split(ReadText(text))
        last == IF e.end[1] < Len(lines) THEN e.end[1] ELSE Len(lines) - 1
        part(n) ==
            LET line == IF n = e.end[1] THEN Upto(Line(lines, n), e.end[2]) ELSE Line(lines, n)
            IN IF n = e.start[1] THEN From(line, e.start[2]) ELSE line
    IN IF e.start[1] > last THEN << >>
       ELSE Joined([k \in 1 .. last - e.start[1] + 1 |-> part(e.start[1] + k - 1)])

Before(p, q) == p[1] < q[1] \/ (p[1] = q[1] /\ p[2] < q[2])

(* Faulty variant: the edits are applied in the order of the file. *)
TopDown(edits) == SortSeq(edits, LAMBDA e, f : Before(e.start, f.start))

BottomUp(edits) == SortSeq(edits, LAMBDA e, f : Before(f.start, e.start))

(* An edit within a line leaves one line, whatever its new text holds. *)
EditLine(lines, e) ==
    [lines EXCEPT ![e.start[1] + 1] =
        Upto(@, e.start[2]) \o e.new \o From(@, e.end[2])]

EditLines(lines, e) ==
    LET prefix == Upto(Line(lines, e.start[1]), e.start[2])
        suffix == IF e.end[1] < Len(lines) THEN From(Line(lines, e.end[1]), e.end[2]) ELSE << >>
        new == Split(e.new)
    IN Upto(lines, e.start[1])
         \o [new EXCEPT ![1] = prefix \o @, ![Len(new)] = @ \o suffix]
         \o From(lines, e.end[1] + 1)

(* An edit that starts past the last line is left out. *)
ApplyEdit(lines, e) ==
    IF e.start[1] >= Len(lines) THEN lines
    ELSE IF e.start[1] = e.end[1] THEN EditLine(lines, e) ELSE EditLines(lines, e)

ApplyEdits(text, edits) == Joined(FoldLeft(ApplyEdit, Split(ReadText(text)), BottomUp(edits)))

-----------------------------------------------------------------------------
(* The protocol's meaning of edits: all of them are about the text as it   *)
(* was, and what none of them covers stays.                                *)

Offset(text, p) ==
    LET lines == Split(ReadText(text))
    IN IF p[1] >= Len(lines) THEN Len(text)
       ELSE Len(Joined(Upto(lines, p[1] + 1))) - Len(Line(lines, p[1])) + p[2]

Replaced(text, edits) ==
    LET range == [n \in 1 .. Len(edits) |->
                    <<Offset(text, edits[n].start), Offset(text, edits[n].end)>>]
        at(o) == {n \in 1 .. Len(edits) : range[n][1] = o}
        kept(o) == \A n \in 1 .. Len(edits) : ~ (range[n][1] <= o /\ o < range[n][2])
        piece(o) == (IF at(o) = {} THEN << >> ELSE edits[CHOOSE n \in at(o) : TRUE].new)
                      \o (IF o < Len(text) /\ kept(o) THEN <<text[o + 1]>> ELSE << >>)
    IN FlattenSeq([k \in 1 .. Len(text) + 1 |-> piece(k - 1)])

(* The positions of a text, and the start of the line after its last.      *)
Places(text) ==
    LET lines == Split(ReadText(text))
    IN UNION {{<<n, c>> : c \in 0 .. Len(Line(lines, n))} : n \in 0 .. Len(lines) - 1}

Ranges(text) ==
    {r \in Places(text) \X (Places(text) \cup {<<Len(Split(ReadText(text))), 0>>}) : ~ Before(r[2], r[1])}

Edit(r, new) == [start |-> r[1], end |-> r[2], new |-> new]

Apart(r, s) == r[1] # s[1] /\ (~ Before(s[1], r[2]) \/ ~ Before(r[1], s[2]))

(* Whatever the order a server lists its edits in, and whichever of them   *)
(* join, break or end lines, applying them from the bottom up gives the    *)
(* text the protocol asks for, and what the preview says an edit replaces  *)
(* is what lies in its range (_apply_edits, _extract_text_at_range) - but  *)
(* for the line ends: whatever they were, in the whole file, they come out *)
(* as newlines.  Two edits that start at the same place are left out: the  *)
(* source takes them in the order they came, and the second goes in before *)
(* the first.                                                              *)
EditsAsAsked ==
    \A text \in Texts : \A r \in Ranges(text) :
        /\ ExtractTextAtRange(text, Edit(r, << >>))
             = ReadText(SubSeq(text, Offset(text, r[1]) + 1, Offset(text, r[2])))
        /\ \A s \in {x \in Ranges(text) : Apart(r, x)} : \A new, other \in NewTexts :
             LET edits == <<Edit(r, new), Edit(s, other)>>
             IN ApplyEdits(text, edits) = ReadText(Replaced(text, edits))
=============================================================================
