----------------------------- MODULE PagesProofs -----------------------------
(* Pages: nothing of a document is lost or off the paper, for a text of any
   length and a sheet of any size. *)
EXTENDS Pages, TLAPS

\* A turn of the loop draws one line: on the page of the last one, or at the
\* top of a new page.
LEMMA Turn ==
    ASSUME PagesInv, DrawLine
    PROVE  \E n \in Nat, height \in Int :
              /\ drawn' = Append(drawn, [text |-> lines[Len(drawn) + 1],
                                         page |-> n, y |-> height])
              /\ page' = n /\ y' = height - Pitch
              /\ lines' = lines /\ Len(drawn) < Len(lines)
              /\ Margin <= height /\ height <= Top
              /\ \/ n = page /\ height = y
                 \/ n = page + 1 /\ height = Top /\ y < Margin
  <1>1. page \in Nat /\ y \in Int /\ y <= Top /\ Top \in Int /\ Margin \in Int /\ Margin <= Top
    BY SheetAssumption DEF PagesInv, PagesTypeOK, CursorOK, Top
  <1>2. CASE ~ OutOfRoom /\ Draw(page, y)
    <2>1. Margin <= y  BY <1>1, <1>2 DEF OutOfRoom
    <2> QED BY <1>1, <1>2, <2>1 DEF DrawLine, Draw
  <1>3. CASE OutOfRoom /\ Draw(page + 1, Top)
    BY <1>1, <1>3 DEF DrawLine, Draw, OutOfRoom
  <1> QED BY <1>2, <1>3 DEF DrawLine

THEOREM Begins == PagesInit => PagesInv
  BY SheetAssumption
  DEF PagesInit, Begin, PagesInv, PagesTypeOK, CursorOK, OnThePaper, PagesFilled,
      LinesInOrder, Top, Mark

LEMMA Draws == ASSUME PagesInv, DrawLine PROVE PagesInv'
  <1> PICK n \in Nat, height \in Int :
              /\ drawn' = Append(drawn, [text |-> lines[Len(drawn) + 1],
                                         page |-> n, y |-> height])
              /\ page' = n /\ y' = height - Pitch
              /\ lines' = lines /\ Len(drawn) < Len(lines)
              /\ Margin <= height /\ height <= Top
              /\ \/ n = page /\ height = y
                 \/ n = page + 1 /\ height = Top /\ y < Margin
    BY Turn
  <1> DEFINE mark == [text |-> lines[Len(drawn) + 1], page |-> n, y |-> height]
  <1>1. /\ lines \in Seq(Text) /\ page \in Nat /\ y \in Int /\ drawn \in Seq(Mark)
        /\ Top \in Int /\ Margin \in Int /\ Pitch \in Nat \ {0}
    BY SheetAssumption DEF PagesInv, PagesTypeOK, Top
  <1>2. mark \in Mark
    <2>1. Len(drawn) + 1 \in 1 .. Len(lines)  BY <1>1
    <2> QED BY <1>1, <2>1 DEF Mark
  <1>3. /\ Len(drawn') = Len(drawn) + 1
        /\ \A i \in 1 .. Len(drawn) : drawn'[i] = drawn[i]
        /\ drawn'[Len(drawn) + 1] = mark
        /\ drawn' \in Seq(Mark)
        /\ drawn' # <<>>
    BY <1>1, <1>2, SMTT(30)
  <1>4. PagesTypeOK'
    BY <1>1, <1>3 DEF PagesTypeOK
  <1>5. \A i \in 1 .. Len(drawn) : drawn[i].page \in Nat /\ drawn[i].y \in Int
    <2>1. ASSUME NEW i \in 1 .. Len(drawn) PROVE drawn[i] \in Mark  BY <1>1
    <2> QED BY <2>1 DEF Mark
  <1>6. \A i \in 1 .. Len(drawn) : drawn[i].page = n => drawn[i].y - height >= Pitch
    BY <1>1, <1>5 DEF PagesInv, CursorOK
  <1>7. CursorOK'
    <2>1. height - Pitch <= Top /\ height - (height - Pitch) >= Pitch  BY <1>1
    <2>2. ASSUME NEW i \in 1 .. Len(drawn)
          PROVE  \/ drawn[i].page < n
                 \/ drawn[i].page = n /\ drawn[i].y - (height - Pitch) >= Pitch
      BY <1>1, <1>5, <1>6 DEF PagesInv, CursorOK
    <2>3. \A i \in DOMAIN drawn' :
             \/ drawn'[i].page < n
             \/ drawn'[i].page = n /\ drawn'[i].y - (height - Pitch) >= Pitch
      BY <1>1, <1>3, <2>1, <2>2
    <2>4. (Top' = Top) /\ (Pitch' = Pitch)  BY DEF Top
    <2> QED BY <1>1, <1>3, <2>1, <2>3, <2>4 DEF CursorOK
  <1>8. OnThePaper'
    <2>1. ASSUME NEW i \in DOMAIN drawn'
          PROVE  /\ Margin <= drawn'[i].y /\ drawn'[i].y <= Top
                 /\ \A j \in 1 .. i - 1 :
                       drawn'[j].page = drawn'[i].page => drawn'[j].y - drawn'[i].y >= Pitch
      <3>0. Len(drawn) \in Nat /\ DOMAIN drawn = 1 .. Len(drawn)
            /\ DOMAIN drawn' = 1 .. Len(drawn) + 1
        BY <1>1, <1>3
      <3>1. CASE i \in 1 .. Len(drawn)
        <4>1. \A j \in 1 .. i : j \in 1 .. Len(drawn) /\ drawn'[j] = drawn[j]
          BY <1>3, <3>0, <3>1
        <4>2. /\ Margin <= drawn[i].y /\ drawn[i].y <= Top
              /\ \A j \in 1 .. i - 1 :
                    drawn[j].page = drawn[i].page => drawn[j].y - drawn[i].y >= Pitch
          BY <3>0, <3>1 DEF PagesInv, OnThePaper
        <4>3. \A j \in 1 .. i - 1 : j \in 1 .. i  BY <3>1
        <4>4. drawn'[i] = drawn[i]  BY <1>3, <3>1
        <4> QED BY <4>1, <4>2, <4>3, <4>4
      <3>2. CASE i = Len(drawn) + 1
        <4>1. drawn'[i] = mark /\ \A j \in 1 .. i - 1 : j \in 1 .. Len(drawn)
          BY <1>3, <3>0, <3>2
        <4> QED BY <1>3, <1>6, <4>1
      <3> QED BY <3>0, <3>1, <3>2
    <2>2. (Top' = Top) /\ (Margin' = Margin) /\ (Pitch' = Pitch)  BY DEF Top
    <2> QED BY <2>1, <2>2 DEF OnThePaper
  <1>9. PagesFilled'
    <2>1. drawn'[1].page = 1
      <3>1. CASE drawn = <<>>
        <4>1. page = 1 /\ y = Top /\ Margin <= Top
          BY <3>1, SheetAssumption DEF PagesInv, CursorOK, Top
        <4>2. n = 1  BY <4>1, <1>1
        <4> QED BY <1>3, <3>1, <4>2
      <3>2. CASE drawn # <<>>
        <4>1. 1 \in 1 .. Len(drawn)  BY <1>1, <3>2
        <4> QED BY <1>3, <3>2, <4>1 DEF PagesInv, PagesFilled
      <3> QED BY <3>1, <3>2
    <2>2. ASSUME NEW i \in 2 .. Len(drawn')
          PROVE  \/ drawn'[i].page = drawn'[i - 1].page
                 \/ /\ drawn'[i].page = drawn'[i - 1].page + 1
                    /\ drawn'[i - 1].y - Pitch < Margin
      <3>1. CASE i \in 2 .. Len(drawn)
        BY <1>1, <1>3, <3>1 DEF PagesInv, PagesFilled
      <3>2. CASE i = Len(drawn) + 1
        <4>1. drawn # <<>> /\ Len(drawn) \in 1 .. Len(drawn)  BY <1>1, <3>2
        <4>2. page = drawn[Len(drawn)].page /\ y = drawn[Len(drawn)].y - Pitch
          BY <4>1 DEF PagesInv, CursorOK
        <4> QED BY <1>1, <1>3, <3>2, <4>1, <4>2
      <3> QED BY <1>1, <1>3, <3>1, <3>2
    <2> QED BY <2>1, <2>2 DEF PagesFilled
  <1>10. LinesInOrder'
    <2>1. ASSUME NEW i \in DOMAIN drawn' PROVE drawn'[i].text = lines[i]
      <3>1. CASE i \in 1 .. Len(drawn)
        BY <1>1, <1>3, <3>1 DEF PagesInv, LinesInOrder
      <3>2. CASE i = Len(drawn) + 1
        BY <1>3, <3>2
      <3> QED BY <1>1, <1>3, <3>1, <3>2
    <2> QED BY <1>1, <1>3, <2>1 DEF LinesInOrder
  <1> QED BY <1>4, <1>7, <1>8, <1>9, <1>10 DEF PagesInv

LEMMA Stutters == ASSUME PagesInv, UNCHANGED pageVars PROVE PagesInv'
  BY DEF pageVars, PagesInv, PagesTypeOK, CursorOK, OnThePaper, PagesFilled, LinesInOrder,
         Mark, Top

\* The invariant of the pages: the cursor, which the loop keeps, stands for all
\* that has been drawn.
THEOREM Filling == PagesSpec => []PagesInv
  <1>1. PagesInv /\ [DrawLine]_pageVars => PagesInv'
    BY Draws, Stutters
  <1> QED BY Begins, <1>1, PTL DEF PagesSpec

\* No line of a document is below the lower margin, above the upper one or on
\* top of another.
THEOREM Inside == PagesSpec => []OnThePaper
  <1>1. PagesInv => OnThePaper  BY DEF PagesInv
  <1> QED BY Filling, <1>1, PTL

\* No page of a document is blank, and none is left while there is room on it.
THEOREM Filled == PagesSpec => []PagesFilled
  <1>1. PagesInv => PagesFilled  BY DEF PagesInv
  <1> QED BY Filling, <1>1, PTL

\* The lines of the text are drawn in their order and none twice.
THEOREM InOrder == PagesSpec => []LinesInOrder
  <1>1. PagesInv => LinesInOrder  BY DEF PagesInv
  <1> QED BY Filling, <1>1, PTL
==============================================================================
