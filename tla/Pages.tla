-------------------------------- MODULE Pages --------------------------------
(***************************************************************************)
(* How lines become pages: the loop of render_pdf in generator/pdf.py.     *)
(***************************************************************************)
EXTENDS Sheet, Sequences

CONSTANT Symbols    \* what lines consist of

Text == Seq(Symbols)

VARIABLES
    lines,      \* text.split("\n")
    page, y,    \* the page, and the height of the next line on it
    drawn       \* every line drawn, with its page and its height

pageVars == <<lines, page, y, drawn>>

Mark == [text : Text, page : Nat, y : Int]

\* In front of the loop.
Begin ==
    /\ page = 1
    /\ y = Top
    /\ drawn = <<>>

\* Mutant: the room for the line after this one.
NextOutOfRoom == y - Pitch < Margin

OutOfRoom == y < Margin

\* Mutant: the first line of a page is above the margin.
DrawFrom(n, height) ==
    /\ drawn' = Append(drawn, [text |-> lines[Len(drawn) + 1], page |-> n,
                               y |-> IF n > page THEN height + Pitch ELSE height])
    /\ page' = n
    /\ y' = height - Pitch

Draw(n, height) ==
    /\ drawn' = Append(drawn, [text |-> lines[Len(drawn) + 1], page |-> n, y |-> height])
    /\ page' = n
    /\ y' = height - Pitch

\* One turn: showPage if there is no room, drawString, and a step down.
DrawLine ==
    /\ Len(drawn) < Len(lines)
    /\ \/ ~ OutOfRoom /\ Draw(page, y)
       \/ OutOfRoom /\ Draw(page + 1, Top)
    /\ UNCHANGED lines

PagesInit == lines \in Seq(Text) /\ Begin

PagesSpec == PagesInit /\ [][DrawLine]_pageVars

-----------------------------------------------------------------------------
(* Properties *)

PagesTypeOK ==
    /\ lines \in Seq(Text)
    /\ page \in Nat /\ y \in Int
    /\ drawn \in Seq(Mark)

\* Every line is inside the margins, and no two lines overlap.
OnThePaper ==
    \A i \in DOMAIN drawn :
        /\ Margin <= drawn[i].y /\ drawn[i].y <= Top
        /\ \A j \in 1 .. i - 1 :
              drawn[j].page = drawn[i].page => drawn[j].y - drawn[i].y >= Pitch

\* The pages follow each other from the first, none is blank, and none is left
\* while there is room on it.
PagesFilled ==
    /\ drawn # <<>> => drawn[1].page = 1
    /\ \A i \in 2 .. Len(drawn) :
          \/ drawn[i].page = drawn[i - 1].page
          \/ /\ drawn[i].page = drawn[i - 1].page + 1
             /\ drawn[i - 1].y - Pitch < Margin

\* The lines are drawn in their order, and none twice.
LinesInOrder ==
    /\ Len(drawn) <= Len(lines)
    /\ \A i \in DOMAIN drawn : drawn[i].text = lines[i]

-----------------------------------------------------------------------------
(* The inductive invariant *)

\* The cursor is on the page of the last line, a pitch below it, and lower than
\* everything on its page.
CursorOK ==
    /\ y <= Top
    /\ drawn = <<>> => page = 1 /\ y = Top
    /\ drawn # <<>> => LET last == drawn[Len(drawn)]
                       IN  page = last.page /\ y = last.y - Pitch
    /\ \A i \in DOMAIN drawn :
          \/ drawn[i].page < page
          \/ drawn[i].page = page /\ drawn[i].y - y >= Pitch

PagesInv == PagesTypeOK /\ CursorOK /\ OnThePaper /\ PagesFilled /\ LinesInOrder

==============================================================================
