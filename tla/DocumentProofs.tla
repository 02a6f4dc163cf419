--------------------------- MODULE DocumentProofs ----------------------------
(* Document: what is printed are the lines of the substituted text, for texts
   of any length, forms of any size and sheets of any geometry. *)
EXTENDS Document, SubstitutionProofs, PagesProofs

-----------------------------------------------------------------------------
(* Lines is defined by recursion, too. *)

IsFed(f, text, n) ==
    f = [i \in 0 .. n |-> IF i = 0 THEN << <<>> >> ELSE Feed(f[i - 1], text[i])]

LEMMA FedExists ==
    ASSUME NEW text, NEW n \in Nat
    PROVE  \E f : IsFed(f, text, n)
  <1> DEFINE T == {m \in Nat : \E f : IsFed(f, text, m)}
  <1>1. 0 \in T
    <2>1. IsFed([i \in 0 .. 0 |-> << <<>> >>], text, 0)
      BY DEF IsFed
    <2> QED BY <2>1
  <1>2. ASSUME NEW m \in Nat, m \in T PROVE m + 1 \in T
    <2> PICK f : IsFed(f, text, m)
      BY <1>2
    <2> DEFINE g == [i \in 0 .. m + 1 |-> IF i = m + 1 THEN Feed(f[m], text[i]) ELSE f[i]]
    <2>1. ASSUME NEW i \in 0 .. m + 1
          PROVE  g[i] = IF i = 0 THEN << <<>> >> ELSE Feed(g[i - 1], text[i])
      <3>1. CASE i = 0
        BY <3>1 DEF IsFed
      <3>2. CASE i # 0
        <4>1. i - 1 \in 0 .. m /\ i - 1 # m + 1  BY <3>2
        <4>2. g[i - 1] = f[i - 1]  BY <4>1
        <4>3. g[i] = Feed(f[i - 1], text[i])
          <5>1. CASE i = m + 1  BY <5>1
          <5>2. CASE i # m + 1  BY <3>2, <5>2 DEF IsFed
          <5> QED BY <5>1, <5>2
        <4> QED BY <3>2, <4>2, <4>3
      <3> QED BY <3>1, <3>2
    <2>2. IsFed(g, text, m + 1)
      BY <2>1 DEF IsFed
    <2> QED BY <2>2
  <1>3. Nat \subseteq T
    <2> HIDE DEF T
    <2> QED BY <1>1, <1>2, NatInduct
  <1> QED BY <1>3

LEMMA LinesIs ==
    ASSUME NEW S, NEW text \in Seq(S)
    PROVE  \E f : IsFed(f, text, Len(text)) /\ Lines(text) = f[Len(text)]
  <1> DEFINE f == CHOOSE f : IsFed(f, text, Len(text))
  <1>1. \E g : IsFed(g, text, Len(text))
    BY FedExists
  <1>2. IsFed(f, text, Len(text))
    BY <1>1
  <1>3. Lines(text) = f[Len(text)]
    BY DEF Lines, IsFed
  <1> QED BY <1>2, <1>3

LEMMA FeedType ==
    ASSUME NEW above \in Seq(Text), above # <<>>, NEW tok \in Tokens
    PROVE  Feed(above, tok) \in Seq(Text) /\ Feed(above, tok) # <<>>
  <1>1. CASE tok = Break
    <2>1. <<>> \in Text  BY EmptySeq DEF Text
    <2> QED BY <1>1, <2>1, AppendProperties DEF Feed
  <1>2. CASE tok # Break
    <2> DEFINE n == Len(above)  line == Append(above[n], tok)
    <2>1. n \in 1 .. Len(above)
      OBVIOUS
    <2>2. line \in Text
      BY <1>2, <2>1, DocumentAssumption, AppendProperties DEF Text
    <2>3. Feed(above, tok) = [above EXCEPT ![n] = line]
      BY <1>2 DEF Feed
    <2> HIDE DEF line, n
    <2>4. /\ [above EXCEPT ![n] = line] \in Seq(Text)
          /\ Len([above EXCEPT ![n] = line]) = Len(above)
      BY <2>1, <2>2, ExceptSeq
    <2> QED BY <2>1, <2>3, <2>4
  <1> QED BY <1>1, <1>2

\* A text consists of lines, and of one at least.
LEMMA LinesType ==
    ASSUME NEW text \in Seq(Tokens)
    PROVE  Lines(text) \in Seq(Text) /\ Lines(text) # <<>>
  <1> PICK f : IsFed(f, text, Len(text)) /\ Lines(text) = f[Len(text)]
    BY LinesIs
  <1> DEFINE T == {k \in Nat : k <= Len(text) => f[k] \in Seq(Text) /\ f[k] # <<>>}
  <1>1. 0 \in T
    <2>1. f[0] = << <<>> >>  BY DEF IsFed
    <2>2. \A line \in Text : <<line>> \in Seq(Text) /\ <<line>> # <<>>
      OBVIOUS
    <2>3. <<>> \in Text  BY EmptySeq DEF Text
    <2>4. << <<>> >> \in Seq(Text) /\ << <<>> >> # <<>>  BY <2>2, <2>3
    <2> QED BY <2>1, <2>4
  <1>2. ASSUME NEW k \in Nat, k \in T PROVE k + 1 \in T
    <2> SUFFICES ASSUME k + 1 <= Len(text) PROVE f[k + 1] \in Seq(Text) /\ f[k + 1] # <<>>
      OBVIOUS
    <2>1. f[k] \in Seq(Text) /\ f[k] # <<>>
      BY <1>2
    <2>2. k + 1 \in 0 .. Len(text) /\ (k + 1) - 1 = k /\ k + 1 # 0 /\ text[k + 1] \in Tokens
      OBVIOUS
    <2>3. f[k + 1] = Feed(f[k], text[k + 1])
      <3>1. f[k + 1] = IF k + 1 = 0 THEN << <<>> >> ELSE Feed(f[(k + 1) - 1], text[k + 1])
        BY <2>2 DEF IsFed
      <3> QED BY <2>2, <3>1
    <2> QED BY <2>1, <2>2, <2>3, FeedType
  <1>3. Nat \subseteq T
    <2> HIDE DEF T
    <2> QED BY <1>1, <1>2, NatInduct
  <1> QED BY <1>3

-----------------------------------------------------------------------------
(* Nothing is lost when a text is split. *)

Letters == Symbols \cup {Break}

BreakBefore == [line \in Text |-> <<Break>> \o line]

LEMMA BreakBeforeType ==
    /\ BreakBefore \in Puts(Text, Letters)
    /\ \A line \in Text : line \in Seq(Letters) /\ BreakBefore[line] = <<Break>> \o line
  <1>1. \A line \in Text : line \in Seq(Letters)
    BY DEF Text, Letters
  <1>2. <<Break>> \in Seq(Letters)
    BY DEF Letters
  <1> QED BY <1>1, <1>2, ConcatProperties DEF BreakBefore, Puts

LEMMA UnsplitIsExpand ==
    ASSUME NEW ls \in Seq(Text)
    PROVE  Unsplit(ls) = Expand(ls, BreakBefore)
  <1>1. \A k \in DOMAIN ls : BreakBefore[ls[k]] = <<Break>> \o ls[k]
    BY DEF BreakBefore
  <1> QED BY <1>1 DEF Unsplit, Expand

LEMMA UnsplitAppend ==
    ASSUME NEW ls \in Seq(Text), NEW line \in Text
    PROVE  /\ Unsplit(Append(ls, line)) = Unsplit(ls) \o (<<Break>> \o line)
           /\ Unsplit(ls) \in Seq(Letters)
  <1>1. Append(ls, line) \in Seq(Text)
    BY AppendProperties
  <1>2. Expand(Append(ls, line), BreakBefore) = Expand(ls, BreakBefore) \o BreakBefore[line]
    BY BreakBeforeType, ExpandAppend
  <1>3. Expand(ls, BreakBefore) \in Seq(Letters)
    BY BreakBeforeType, ExpandType
  <1> QED BY <1>1, <1>2, <1>3, UnsplitIsExpand, BreakBeforeType

LEMMA FeedKeeps ==
    ASSUME NEW above \in Seq(Text), above # <<>>, NEW tok \in Tokens
    PROVE  Unsplit(Feed(above, tok)) = Append(Unsplit(above), tok)
  <1>1. CASE tok = Break
    <2>1. <<>> \in Text /\ <<Break>> \o <<>> = <<Break>>
      BY DEF Text
    <2>2. Unsplit(Append(above, <<>>)) = Unsplit(above) \o <<Break>>
      BY <2>1, UnsplitAppend
    <2>3. Unsplit(above) \in Seq(Letters) /\ Break \in Letters
      BY <2>1, UnsplitAppend DEF Letters
    <2> QED BY <1>1, <2>2, <2>3, AppendIsConcat DEF Feed
  <1>2. CASE tok # Break
    <2>1. PICK front \in Seq(Text), last \in Text : above = Append(front, last)
      BY SequenceEmptyOrAppend
    <2> DEFINE line == Append(last, tok)  n == Len(above)
    <2>2. line \in Text /\ tok \in Letters
      BY <1>2, DocumentAssumption, AppendProperties DEF Text, Letters
    <2>3. n = Len(front) + 1 /\ above[n] = last /\ n \in 1 .. Len(above)
      BY <2>1, AppendProperties
    <2>4. Feed(above, tok) = [above EXCEPT ![n] = line]
      BY <1>2, <2>3 DEF Feed
    <2>5. [above EXCEPT ![n] = line] = Append(front, line)
      <3> DEFINE a == [above EXCEPT ![n] = line]  b == Append(front, line)
      <3> HIDE DEF line, n
      <3>1. /\ a \in Seq(Text) /\ Len(a) = Len(above)
            /\ \A j \in 1 .. Len(above) : a[j] = IF j = n THEN line ELSE above[j]
        BY <2>2, <2>3, ExceptSeq
      <3>2. /\ b \in Seq(Text) /\ Len(b) = Len(front) + 1 /\ b[Len(front) + 1] = line
            /\ \A j \in 1 .. Len(front) : b[j] = front[j]
        BY <2>2, AppendProperties
      <3>3. Len(above) = Len(front) + 1 /\ \A j \in 1 .. Len(front) : above[j] = front[j]
        BY <2>1, AppendProperties
      <3> HIDE DEF a, b
      <3>4. \A j \in 1 .. Len(a) : a[j] = b[j]
        BY <2>3, <3>1, <3>2, <3>3
      <3> QED BY <3>1, <3>2, <3>3, <3>4, SeqEqual DEF a, b
    <2>6. Unsplit(Feed(above, tok)) = Unsplit(front) \o (<<Break>> \o line)
      BY <2>2, <2>4, <2>5, UnsplitAppend
    <2>7. Unsplit(above) = Unsplit(front) \o (<<Break>> \o last)
      BY <2>1, UnsplitAppend
    <2>8. Unsplit(front) \o (<<Break>> \o line) = Append(Unsplit(front) \o (<<Break>> \o last), tok)
      <3>1. Unsplit(front) \in Seq(Letters) /\ last \in Seq(Letters)
        BY UnsplitAppend, BreakBeforeType
      <3>2. <<Break>> \in Seq(Letters)
        BY DEF Letters
      <3>3. \A s \in Seq(Letters), t \in Seq(Letters), e \in Letters :
               s \o Append(t, e) = Append(s \o t, e) /\ s \o t \in Seq(Letters)
        OBVIOUS
      <3> QED BY <2>2, <3>1, <3>2, <3>3
    <2> QED BY <2>6, <2>7, <2>8
  <1> QED BY <1>1, <1>2

\* With a break in front of each, the lines of a text are the text again.
LEMMA LinesKeep ==
    ASSUME NEW text \in Seq(Tokens)
    PROVE  Unsplit(Lines(text)) = <<Break>> \o text
  <1> PICK f : IsFed(f, text, Len(text)) /\ Lines(text) = f[Len(text)]
    BY LinesIs
  <1> DEFINE upTo(k) == SubSeq(text, 1, k)
             T == {k \in Nat : k <= Len(text) => /\ f[k] \in Seq(Text) /\ f[k] # <<>>
                                                /\ Unsplit(f[k]) = <<Break>> \o upTo(k)}
  <1>1. 0 \in T
    <2>1. f[0] = << <<>> >>  BY DEF IsFed
    <2>2. <<>> \in Seq(Text) /\ <<>> \in Text /\ Append(<<>>, <<>>) = << <<>> >>
      BY DEF Text
    <2>3. f[0] \in Seq(Text) /\ f[0] # <<>>
      <3>1. \A line \in Text : <<line>> \in Seq(Text) /\ <<line>> # <<>>  OBVIOUS
      <3>2. << <<>> >> \in Seq(Text) /\ << <<>> >> # <<>>  BY <2>2, <3>1
      <3> QED BY <2>1, <3>2
    <2>4. Unsplit(<<>>) = <<>>
      BY <2>2, UnsplitIsExpand, ExpandEmpty
    <2>5. Unsplit(Append(<<>>, <<>>)) = Unsplit(<<>>) \o (<<Break>> \o <<>>)
      BY <2>2, UnsplitAppend
    <2>6. <<>> \o (<<Break>> \o <<>>) = <<Break>> \o <<>>
      OBVIOUS
    <2>7. upTo(0) = <<>>
      BY SubSeqEmpty
    <2>8. Unsplit(f[0]) = <<Break>> \o upTo(0)
      BY <2>1, <2>2, <2>4, <2>5, <2>6, <2>7, Zenon
    <2> QED BY <2>3, <2>8
  <1>2. ASSUME NEW k \in Nat, k \in T PROVE k + 1 \in T
    <2> SUFFICES ASSUME k + 1 <= Len(text)
                 PROVE  /\ f[k + 1] \in Seq(Text) /\ f[k + 1] # <<>>
                        /\ Unsplit(f[k + 1]) = <<Break>> \o upTo(k + 1)
      OBVIOUS
    <2>1. f[k] \in Seq(Text) /\ f[k] # <<>> /\ Unsplit(f[k]) = <<Break>> \o upTo(k)
      BY <1>2
    <2>2. k + 1 \in 0 .. Len(text) /\ (k + 1) - 1 = k /\ k + 1 # 0 /\ text[k + 1] \in Tokens
      OBVIOUS
    <2>3. f[k + 1] = Feed(f[k], text[k + 1])
      <3>1. f[k + 1] = IF k + 1 = 0 THEN << <<>> >> ELSE Feed(f[(k + 1) - 1], text[k + 1])
        BY <2>2 DEF IsFed
      <3> QED BY <2>2, <3>1
    <2>4. f[k + 1] \in Seq(Text) /\ f[k + 1] # <<>>
      BY <2>1, <2>2, <2>3, FeedType
    <2>5. Unsplit(f[k + 1]) = Append(<<Break>> \o upTo(k), text[k + 1])
      BY <2>1, <2>2, <2>3, FeedKeeps
    <2>6. upTo(k) \in Seq(Tokens) /\ upTo(k + 1) = Append(upTo(k), text[k + 1])
      BY <2>2
    <2>7. Append(<<Break>> \o upTo(k), text[k + 1]) = <<Break>> \o Append(upTo(k), text[k + 1])
      <3>1. <<Break>> \in Seq(Tokens)
        BY DocumentAssumption DEF Tokens
      <3>2. \A s \in Seq(Tokens), t \in Seq(Tokens), e \in Tokens :
               s \o Append(t, e) = Append(s \o t, e)
        OBVIOUS
      <3> QED BY <2>2, <2>6, <3>1, <3>2
    <2> QED BY <2>4, <2>5, <2>6, <2>7
  <1>3. Nat \subseteq T
    <2> HIDE DEF T
    <2> QED BY <1>1, <1>2, NatInduct
  <1>4. Len(text) \in T /\ upTo(Len(text)) = text
    BY <1>3, SubSeqFull
  <1> QED BY <1>4

-----------------------------------------------------------------------------
(* The two loops *)

LEMMA FileBegun == DocumentInit => DocumentInv
  <1> SUFFICES ASSUME DocumentInit PROVE DocumentInv
    OBVIOUS
  <1>1. SubstitutionInv
    BY Begun DEF DocumentInit
  <1>2. PagesInv
    <2>1. lines \in Seq(Text)
      BY DEF DocumentInit
    <2> QED BY <2>1, Begins DEF DocumentInit, PagesInit
  <1> QED BY <1>1, <1>2 DEF DocumentInit, DocumentInv

LEMMA SplitIsPages ==
    ASSUME DocumentInv, Split
    PROVE  PagesInv' /\ lines' # <<>>
  <1>1. /\ lines = <<>> /\ lines' = Lines(result)
        /\ page' = page /\ y' = y /\ drawn' = drawn
    BY DEF Split
  <1>2. PagesInv /\ result \in Seq(Tokens)
    BY DEF DocumentInv, SubstitutionInv, TypeOK
  <1>3. lines' \in Seq(Text) /\ lines' # <<>>
    BY <1>1, <1>2, LinesType
  <1>4. drawn = <<>>
    BY <1>1, <1>2 DEF PagesInv, PagesTypeOK, LinesInOrder
  <1>5. PagesTypeOK'
    BY <1>1, <1>2, <1>3 DEF PagesInv, PagesTypeOK
  <1>6. CursorOK' /\ OnThePaper' /\ PagesFilled'
    BY <1>1, <1>2 DEF PagesInv, CursorOK, OnThePaper, PagesFilled, Top
  <1>7. LinesInOrder'
    BY <1>1, <1>3, <1>4 DEF LinesInOrder
  <1> QED BY <1>3, <1>5, <1>6, <1>7 DEF PagesInv

LEMMA FileGrows == ASSUME DocumentInv, DocumentNext PROVE DocumentInv'
  <1>1. CASE Substitute
    <2>1. Iterate /\ UNCHANGED pageVars /\ lines' = lines
      BY <1>1 DEF Substitute, pageVars
    <2>2. SubstitutionInv' /\ PagesInv'
      BY <2>1, Iterates, Stutters DEF DocumentInv
    <2>3. lines = <<>>
      BY <2>1, FormIsTyped DEF DocumentInv, SubstitutionInv, Iterate
    <2> QED BY <2>1, <2>2, <2>3 DEF DocumentInv
  <1>2. CASE Split
    <2>1. UNCHANGED vars /\ done = Len(values) /\ lines' = Lines(result)
      BY <1>2 DEF Split
    <2>2. SubstitutionInv'
      BY <2>1, Rests DEF DocumentInv
    <2>3. done' = done /\ values' = values /\ result' = result
      BY <2>1 DEF vars
    <2>4. Unsplit(lines') = <<Break>> \o result
      BY <2>1, LinesKeep DEF DocumentInv, SubstitutionInv, TypeOK
    <2> QED BY <1>2, <2>1, <2>2, <2>3, <2>4, SplitIsPages DEF DocumentInv, Unsplit
  <1>3. CASE Render
    <2>1. DrawLine /\ UNCHANGED vars /\ lines' = lines
      BY <1>3 DEF Render, DrawLine
    <2>2. SubstitutionInv' /\ PagesInv'
      BY <2>1, Rests, Draws DEF DocumentInv
    <2>3. done' = done /\ values' = values /\ result' = result
      BY <2>1 DEF vars
    <2> QED BY <2>1, <2>2, <2>3 DEF DocumentInv
  <1> QED BY <1>1, <1>2, <1>3 DEF DocumentNext

LEMMA FileRests ==
    ASSUME DocumentInv, UNCHANGED <<vars, pageVars>>
    PROVE  DocumentInv'
  <1>1. SubstitutionInv' /\ PagesInv'
    BY Rests, Stutters DEF DocumentInv
  <1>2. lines' = lines /\ done' = done /\ values' = values /\ result' = result
    BY DEF vars, pageVars
  <1> QED BY <1>1, <1>2 DEF DocumentInv

-----------------------------------------------------------------------------
\* The invariant of confirm_generate's two loops: nothing is printed before the
\* last value is in, and what is printed then are the lines of the text.
THEOREM Making == DocumentSpec => []DocumentInv
  <1>1. DocumentInv /\ [DocumentNext]_<<vars, pageVars>> => DocumentInv'
    BY FileGrows, FileRests
  <1> QED BY FileBegun, <1>1, PTL DEF DocumentSpec

\* The text, its lines and what is drawn of them are texts, lines and marks,
\* whatever the template and the values are.
THEOREM Typed == DocumentSpec => []DocumentTypeOK
  <1>1. DocumentInv => DocumentTypeOK
    BY DEF DocumentInv, SubstitutionInv, PagesInv, DocumentTypeOK
  <1> QED BY Making, <1>1, PTL

\* A placeholder in a file has no value in the form, or came in with one when
\* it was too late.
THEOREM LeftInFile == DocumentSpec => []LeftoversExplained
  <1>1. DocumentInv => LeftoversExplained
    BY DEF DocumentInv, SubstitutionInv
  <1> QED BY Making, <1>1, PTL

\* The file has every plain value in its place, line by line, whatever the
\* order in which the fields were entered.
THEOREM Printed == DocumentSpec => []PrintedIsSimultaneous
  <1>1. DocumentInv => PrintedIsSimultaneous
    <2> SUFFICES ASSUME DocumentInv, Plain
                 PROVE  /\ lines \in {<<>>, Lines(Simultaneous)}
                        /\ Len(drawn) <= Len(Lines(Simultaneous))
                        /\ \A i \in DOMAIN drawn : drawn[i].text = Lines(Simultaneous)[i]
      BY DEF PrintedIsSimultaneous
    <2>1. /\ Len(drawn) <= Len(lines) /\ \A i \in DOMAIN drawn : drawn[i].text = lines[i]
          /\ drawn \in Seq(Mark) /\ body \in Seq(Tokens)
      BY FormIsTyped DEF DocumentInv, SubstitutionInv, PagesInv, PagesTypeOK, LinesInOrder
    <2>2. CASE lines # <<>>
      <3>1. result = Simultaneous
        BY <2>2 DEF DocumentInv, SubstitutionInv, Simultaneous
      <3> QED BY <2>1, <2>2, <3>1 DEF DocumentInv
    <2>3. CASE lines = <<>>
      <3>1. Simultaneous \in Seq(Tokens)
        BY <2>1, FormIsTyped, GivenIsTyped, ExpandType DEF Simultaneous, DocumentInv, SubstitutionInv
      <3>2. Len(Lines(Simultaneous)) \in Nat
        BY <3>1, LinesType
      <3>3. drawn = <<>>
        BY <2>1, <2>3
      <3> QED BY <2>3, <3>2, <3>3
    <2> QED BY <2>2, <2>3
  <1> QED BY Making, <1>1, PTL

\* Its lines are inside the margins, and no two of them overlap.
THEOREM FileOnThePaper == DocumentSpec => []OnThePaper
  <1>1. DocumentInv => OnThePaper  BY DEF DocumentInv, PagesInv
  <1> QED BY Making, <1>1, PTL

\* None of its pages is blank, and none is left while there is room on it.
THEOREM FilePagesFilled == DocumentSpec => []PagesFilled
  <1>1. DocumentInv => PagesFilled  BY DEF DocumentInv, PagesInv
  <1> QED BY Making, <1>1, PTL

\* A file that is finished says what the text says: its lines, from the first
\* page to the last and with a break in front of each, are the text.
THEOREM FileIsText ==
    DocumentSpec => [](lines # <<>> /\ Len(drawn) = Len(lines)
                       => Unsplit([i \in DOMAIN drawn |-> drawn[i].text]) = <<Break>> \o result)
  <1>1. ASSUME DocumentInv, lines # <<>>, Len(drawn) = Len(lines)
        PROVE  Unsplit([i \in DOMAIN drawn |-> drawn[i].text]) = <<Break>> \o result
    <2> DEFINE read == [i \in DOMAIN drawn |-> drawn[i].text]
    <2>1. /\ lines \in Seq(Text) /\ drawn \in Seq(Mark)
          /\ \A i \in DOMAIN drawn : drawn[i].text = lines[i]
      BY <1>1 DEF DocumentInv, PagesInv, PagesTypeOK, LinesInOrder
    <2>2. DOMAIN drawn = DOMAIN lines
      BY <1>1, <2>1
    <2>3. read = lines
      BY <2>1, <2>2
    <2>4. Unsplit(lines) = <<Break>> \o result
      BY <1>1 DEF DocumentInv
    <2> QED BY <2>3, <2>4
  <1> QED BY Making, <1>1, PTL
==============================================================================
