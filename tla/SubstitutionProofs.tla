------------------------- MODULE SubstitutionProofs --------------------------
(* Substitution: what replacing the placeholders one after the other does to
   a text of any length, for forms of any size. *)
EXTENDS Substitution, SequenceTheorems, WellFoundedInduction, TLAPS

-----------------------------------------------------------------------------
(* Induction.  A claim about all numbers or all sequences is the set of those
   it holds for, so that no operator has to be instantiated. *)

LEMMA Least ==
    ASSUME NEW T, T \subseteq Nat, T # {}
    PROVE  \E n \in T : \A m \in T : n <= m
  <1>1. PICK n \in T : \A m \in T : ~ (<<m, n>> \in OpToRel(<, Nat))
    BY NatLessThanWellFounded, WFMin
  <1>2. \A m \in T : ~ (m < n)
    BY <1>1 DEF OpToRel
  <1> QED BY <1>2

LEMMA NatInduct ==
    ASSUME NEW T, 0 \in T, \A n \in Nat : n \in T => n + 1 \in T
    PROVE  Nat \subseteq T
  <1> SUFFICES ASSUME Nat \ T # {} PROVE FALSE
    OBVIOUS
  <1>1. PICK n \in Nat \ T : \A m \in Nat \ T : n <= m
    BY Least
  <1>2. n - 1 \in Nat /\ ~ (n <= n - 1)
    BY <1>1
  <1>3. n - 1 \in T /\ (n - 1) + 1 = n
    BY <1>1, <1>2
  <1> QED BY <1>1, <1>2, <1>3

LEMMA SeqInduct ==
    ASSUME NEW S, NEW T, <<>> \in T,
           \A s \in Seq(S), e \in S : s \in T => Append(s, e) \in T
    PROVE  Seq(S) \subseteq T
  <1> DEFINE N == {n \in Nat : \A s \in Seq(S) : Len(s) = n => s \in T}
  <1>1. 0 \in N
    BY EmptySeq
  <1>2. ASSUME NEW n \in Nat, n \in N PROVE n + 1 \in N
    <2> SUFFICES ASSUME NEW s \in Seq(S), Len(s) = n + 1 PROVE s \in T
      OBVIOUS
    <2> DEFINE front == SubSeq(s, 1, n)
    <2>1. front \in Seq(S) /\ Len(front) = n /\ s[n + 1] \in S
      OBVIOUS
    <2>2. s = Append(front, s[n + 1])
      <3>1. Append(front, s[n + 1]) \in Seq(S) /\ Len(Append(front, s[n + 1])) = n + 1
        BY <2>1
      <3>2. \A i \in 1 .. n + 1 : Append(front, s[n + 1])[i] = s[i]
        BY <2>1
      <3> HIDE DEF front
      <3> QED BY <3>1, <3>2, SeqEqual
    <2>3. front \in T
      BY <1>2, <2>1
    <2> QED BY <2>1, <2>2, <2>3
  <1>3. Nat \subseteq N
    <2> HIDE DEF N
    <2> QED BY <1>1, <1>2, NatInduct
  <1> QED BY <1>3

-----------------------------------------------------------------------------
(* FlattenSeq is defined by recursion: its function exists, and it is that of
   a longer sequence up to where the shorter one ends. *)

Join(s, t) == s \o t

IsFlat(f, seqs, n) ==
    f = [i \in 1 .. n |-> IF i = 1 THEN seqs[i] ELSE Join(f[i - 1], seqs[i])]

LEMMA FlatExists ==
    ASSUME NEW seqs, NEW n \in Nat
    PROVE  \E f : IsFlat(f, seqs, n)
  <1> DEFINE T == {m \in Nat : \E f : IsFlat(f, seqs, m)}
  <1>1. 0 \in T
    <2>1. IsFlat([i \in 1 .. 0 |-> seqs[i]], seqs, 0)
      BY DEF IsFlat
    <2> QED BY <2>1
  <1>2. ASSUME NEW m \in Nat, m \in T PROVE m + 1 \in T
    <2> PICK f : IsFlat(f, seqs, m)
      BY <1>2
    <2> DEFINE g == [i \in 1 .. m + 1 |->
                        IF i = m + 1 /\ i # 1 THEN Join(f[m], seqs[i])
                        ELSE IF i = 1 THEN seqs[i] ELSE f[i]]
    <2>1. ASSUME NEW i \in 1 .. m + 1
          PROVE  g[i] = IF i = 1 THEN seqs[i] ELSE Join(g[i - 1], seqs[i])
      <3>1. CASE i = 1  BY <3>1
      <3>2. CASE i # 1
        <4>1. i - 1 \in 1 .. m /\ i - 1 # m + 1  BY <3>2
        <4>2. f[i - 1] = IF i - 1 = 1 THEN seqs[i - 1] ELSE Join(f[(i - 1) - 1], seqs[i - 1])
          BY <4>1 DEF IsFlat
        <4>3. g[i - 1] = f[i - 1]  BY <4>1, <4>2
        <4>4. g[i] = Join(f[i - 1], seqs[i])
          <5>1. CASE i = m + 1  BY <3>2, <5>1
          <5>2. CASE i # m + 1  BY <3>2, <5>2 DEF IsFlat
          <5> QED BY <5>1, <5>2
        <4> QED BY <3>2, <4>3, <4>4
      <3> QED BY <3>1, <3>2
    <2>2. IsFlat(g, seqs, m + 1)
      BY <2>1 DEF IsFlat
    <2> QED BY <2>2
  <1>3. Nat \subseteq T
    <2> HIDE DEF T
    <2> QED BY <1>1, <1>2, NatInduct
  <1> QED BY <1>3

LEMMA FlatUnique ==
    ASSUME NEW f, NEW g, NEW s, NEW t, NEW m \in Nat, NEW n \in Nat, m <= n,
           IsFlat(f, s, m), IsFlat(g, t, n), \A i \in 1 .. m : s[i] = t[i]
    PROVE  \A i \in 1 .. m : f[i] = g[i]
  <1> DEFINE T == {k \in Nat : k \in 1 .. m => f[k] = g[k]}
  <1>1. 0 \in T
    OBVIOUS
  <1>2. ASSUME NEW k \in Nat, k \in T PROVE k + 1 \in T
    <2> SUFFICES ASSUME k + 1 \in 1 .. m PROVE f[k + 1] = g[k + 1]
      OBVIOUS
    <2>1. f[k + 1] = IF k + 1 = 1 THEN s[k + 1] ELSE Join(f[k], s[k + 1])
      BY DEF IsFlat
    <2>2. g[k + 1] = IF k + 1 = 1 THEN t[k + 1] ELSE Join(g[k], t[k + 1])
      BY DEF IsFlat
    <2>3. CASE k = 0  BY <2>1, <2>2, <2>3
    <2>4. CASE k # 0
      <3>1. f[k] = g[k]  BY <1>2, <2>4
      <3> QED BY <2>1, <2>2, <2>4, <3>1
    <2> QED BY <2>3, <2>4
  <1>3. Nat \subseteq T
    <2> HIDE DEF T
    <2> QED BY <1>1, <1>2, NatInduct
  <1> QED BY <1>3

LEMMA FlattenIs ==
    ASSUME NEW S, NEW seqs \in Seq(S), seqs # <<>>
    PROVE  \E f : IsFlat(f, seqs, Len(seqs)) /\ FlattenSeq(seqs) = f[Len(seqs)]
  <1> DEFINE f == CHOOSE f : IsFlat(f, seqs, Len(seqs))
  <1>1. Len(seqs) \in Nat /\ Len(seqs) # 0
    OBVIOUS
  <1>2. IsFlat(f, seqs, Len(seqs))
    <2>1. \E g : IsFlat(g, seqs, Len(seqs))
      BY <1>1, FlatExists
    <2> QED BY <2>1
  <1>3. FlattenSeq(seqs) = f[Len(seqs)]
    BY <1>1 DEF FlattenSeq, IsFlat, Join
  <1> QED BY <1>2, <1>3

LEMMA FlattenEmpty == FlattenSeq(<<>>) = <<>>
  BY DEF FlattenSeq

LEMMA FlattenAppend ==
    ASSUME NEW R, NEW seqs \in Seq(R), NEW s \in R
    PROVE  FlattenSeq(Append(seqs, s)) = IF seqs = <<>> THEN s ELSE FlattenSeq(seqs) \o s
  <1> DEFINE more == Append(seqs, s)  n == Len(seqs)
  <1>1. /\ more \in Seq(R) /\ more # <<>> /\ Len(more) = n + 1
        /\ more[n + 1] = s /\ \A i \in 1 .. n : more[i] = seqs[i]
    BY AppendProperties
  <1>2. n \in Nat /\ (n = 0 <=> seqs = <<>>)
    OBVIOUS
  <1> HIDE DEF more, n
  <1>3. PICK g : IsFlat(g, more, n + 1) /\ FlattenSeq(more) = g[n + 1]
    BY <1>1, FlattenIs
  <1>4. g[n + 1] = IF n + 1 = 1 THEN more[n + 1] ELSE Join(g[(n + 1) - 1], more[n + 1])
    <2>1. n + 1 \in 1 .. n + 1  BY <1>2
    <2> QED BY <1>3, <2>1 DEF IsFlat
  <1>5. g[n + 1] = IF n = 0 THEN s ELSE Join(g[n], s)
    <2>1. (n + 1 = 1 <=> n = 0) /\ (n + 1) - 1 = n  BY <1>2
    <2>2. more[n + 1] = s  BY <1>1
    <2> QED BY <1>4, <2>1, <2>2
  <1>6. CASE seqs = <<>>
    <2>1. FlattenSeq(more) = s  BY <1>2, <1>3, <1>5, <1>6
    <2> QED BY <1>6, <2>1 DEF more
  <1>7. CASE seqs # <<>>
    <2>1. PICK f : IsFlat(f, seqs, n) /\ FlattenSeq(seqs) = f[n]
      BY <1>7, FlattenIs DEF n
    <2>2. n \in 1 .. n /\ n <= n + 1 /\ n + 1 \in Nat
      BY <1>2, <1>7
    <2>3. \A i \in 1 .. n : seqs[i] = more[i]
      BY <1>1
    <2>4. f[n] = g[n]
      BY <1>2, <1>3, <2>1, <2>2, <2>3, FlatUnique
    <2>5. FlattenSeq(more) = FlattenSeq(seqs) \o s
      BY <1>2, <1>3, <1>5, <1>7, <2>1, <2>4 DEF Join
    <2> QED BY <1>7, <2>5 DEF more
  <1> QED BY <1>6, <1>7

LEMMA FlattenType ==
    ASSUME NEW S, NEW seqs \in Seq(Seq(S))
    PROVE  FlattenSeq(seqs) \in Seq(S)
  <1> DEFINE R == Seq(S)
             T == {t \in Seq(R) : FlattenSeq(t) \in R}
  <1>1. <<>> \in T
    <2>1. <<>> \in Seq(R) /\ <<>> \in R  BY EmptySeq
    <2> QED BY <2>1, FlattenEmpty
  <1>2. ASSUME NEW t \in Seq(R), NEW s \in R, t \in T PROVE Append(t, s) \in T
    <2>1. Append(t, s) \in Seq(R)
      BY AppendProperties
    <2>2. CASE t = <<>>
      <3>1. FlattenSeq(Append(t, s)) = s  BY <2>2, FlattenAppend
      <3> QED BY <2>1, <3>1
    <2>3. CASE t # <<>>
      <3>1. FlattenSeq(Append(t, s)) = FlattenSeq(t) \o s  BY <2>3, FlattenAppend
      <3>2. FlattenSeq(t) \o s \in R  BY <1>2, ConcatProperties
      <3> QED BY <2>1, <3>1, <3>2
    <2> QED BY <2>2, <2>3
  <1>3. Seq(R) \subseteq T
    <2> HIDE DEF T, R
    <2> QED BY <1>1, <1>2, SeqInduct
  <1> QED BY <1>3

-----------------------------------------------------------------------------
(* Expand *)

Puts(S, U) == [S -> Seq(U)]

LEMMA ExpandEmpty == ASSUME NEW put PROVE Expand(<<>>, put) = <<>>
  <1>1. [i \in DOMAIN <<>> |-> put[<<>>[i]]] = <<>>
    OBVIOUS
  <1> QED BY <1>1, FlattenEmpty DEF Expand

LEMMA ExpandAppend ==
    ASSUME NEW S, NEW U, NEW put \in Puts(S, U), NEW text \in Seq(S), NEW tok \in S
    PROVE  Expand(Append(text, tok), put) = Expand(text, put) \o put[tok]
  <1> DEFINE R == Seq(U)
             pieces == [i \in DOMAIN text |-> put[text[i]]]
             more == Append(text, tok)
             pieces2 == [i \in DOMAIN more |-> put[more[i]]]
  <1>1. put[tok] \in R /\ \A x \in S : put[x] \in R
    BY DEF Puts
  <1>2. /\ more \in Seq(S) /\ Len(more) = Len(text) + 1
        /\ more[Len(text) + 1] = tok /\ \A i \in 1 .. Len(text) : more[i] = text[i]
    BY AppendProperties
  <1> HIDE DEF more, R
  <1>3. pieces \in Seq(R) /\ Len(pieces) = Len(text)
    BY <1>1
  <1>4. pieces2 \in Seq(R) /\ Len(pieces2) = Len(text) + 1
    BY <1>1, <1>2
  <1>5. Len(text) \in Nat
    OBVIOUS
  <1>6. \A i \in 1 .. Len(text) : pieces2[i] = pieces[i]
    BY <1>2, <1>5
  <1>7. pieces2[Len(text) + 1] = put[tok]
    BY <1>2, <1>5
  <1> DEFINE longer == Append(pieces, put[tok])
  <1>8. pieces2 = longer
    <2>0. pieces = <<>> \/ pieces # <<>>  OBVIOUS
    <2> HIDE DEF pieces, pieces2
    <2>1. longer \in Seq(R) /\ Len(longer) = Len(text) + 1 /\ longer[Len(text) + 1] = put[tok]
          /\ \A i \in 1 .. Len(text) : longer[i] = pieces[i]
      BY <1>1, <1>3, AppendProperties
    <2> HIDE DEF longer
    <2>2. \A i \in 1 .. Len(pieces2) : pieces2[i] = longer[i]
      BY <1>4, <1>5, <1>6, <1>7, <2>1
    <2> QED BY <1>4, <2>1, <2>2, SeqEqual
  <1>9. FlattenSeq(longer) = IF pieces = <<>> THEN put[tok] ELSE FlattenSeq(pieces) \o put[tok]
    <2> HIDE DEF pieces
    <2> QED BY <1>1, <1>3, FlattenAppend
  <1>10. FlattenSeq(longer) = FlattenSeq(pieces) \o put[tok]
    <2> HIDE DEF pieces, longer
    <2>1. CASE pieces = <<>>
      <3>1. FlattenSeq(pieces) \o put[tok] = put[tok]
        BY <1>1, <2>1, FlattenEmpty, ConcatEmptySeq DEF R
      <3> QED BY <1>9, <2>1, <3>1
    <2> QED BY <1>9, <2>1
  <1> QED BY <1>8, <1>10 DEF Expand, more

LEMMA ExpandType ==
    ASSUME NEW S, NEW U, NEW put \in Puts(S, U), NEW text \in Seq(S)
    PROVE  Expand(text, put) \in Seq(U)
  <1> DEFINE R == Seq(U)
             pieces == [i \in DOMAIN text |-> put[text[i]]]
  <1>1. \A x \in S : put[x] \in R
    BY DEF Puts
  <1> HIDE DEF R
  <1>2. pieces \in Seq(R)
    BY <1>1
  <1> HIDE DEF pieces
  <1> QED BY <1>2, FlattenType DEF Expand, pieces, R

LEMMA ExpandOne ==
    ASSUME NEW S, NEW put \in Puts(S, S), NEW tok \in S
    PROVE  Expand(<<tok>>, put) = put[tok]
  <1>1. <<>> \in Seq(S) /\ <<tok>> = Append(<<>>, tok) /\ put[tok] \in Seq(S)
    BY DEF Puts
  <1>2. Expand(<<tok>>, put) = Expand(<<>>, put) \o put[tok]
    BY <1>1, ExpandAppend
  <1> QED BY <1>1, <1>2, ExpandEmpty

\* Two texts in a row are expanded each on its own.
LEMMA ExpandConcat ==
    ASSUME NEW S, NEW put \in Puts(S, S), NEW s \in Seq(S), NEW t \in Seq(S)
    PROVE  Expand(s \o t, put) = Expand(s, put) \o Expand(t, put)
  <1> DEFINE T == {u \in Seq(S) : Expand(s \o u, put) = Expand(s, put) \o Expand(u, put)}
  <1>1. <<>> \in T
    <2>1. Expand(s, put) \in Seq(S)
      BY ExpandType
    <2>2. \A a \in Seq(S) : a \o <<>> = a
      BY ConcatEmptySeq
    <2> QED BY <2>1, <2>2, ExpandEmpty, EmptySeq
  <1>2. ASSUME NEW u \in Seq(S), NEW tok \in S, u \in T PROVE Append(u, tok) \in T
    <2>1. Expand(s, put) \in Seq(S) /\ Expand(u, put) \in Seq(S) /\ put[tok] \in Seq(S)
      BY ExpandType DEF Puts
    <2>2. s \o Append(u, tok) = Append(s \o u, tok) /\ s \o u \in Seq(S)
      OBVIOUS
    <2>3. Expand(s \o Append(u, tok), put) = (Expand(s, put) \o Expand(u, put)) \o put[tok]
      BY <1>2, <2>2, ExpandAppend
    <2>4. Expand(Append(u, tok), put) = Expand(u, put) \o put[tok]
      BY ExpandAppend
    <2>5. \A a, b, c \in Seq(S) : (a \o b) \o c = a \o (b \o c)
      BY ConcatAssociative, SMTT(30)
    <2>6. Append(u, tok) \in Seq(S)
      BY AppendProperties
    <2>7. Expand(s \o Append(u, tok), put) = Expand(s, put) \o (Expand(u, put) \o put[tok])
      <3> DEFINE a == Expand(s, put)  b == Expand(u, put)  c == put[tok]
      <3>1. (a \o b) \o c = a \o (b \o c)
        <4>1. a \in Seq(S) /\ b \in Seq(S) /\ c \in Seq(S)
          BY <2>1
        <4> HIDE DEF a, b, c
        <4> QED BY <2>5, <4>1, SMTT(30)
      <3> QED BY <2>3, <3>1
    <2>8. Expand(s \o Append(u, tok), put) = Expand(s, put) \o Expand(Append(u, tok), put)
      BY <2>4, <2>7, Zenon
    <2> QED BY <2>6, <2>8
  <1>3. Seq(S) \subseteq T
    <2> HIDE DEF T
    <2> QED BY <1>1, <1>2, SeqInduct
  <1> QED BY <1>3

\* Expanding what was expanded is to put in what is expanded.
LEMMA ExpandTwice ==
    ASSUME NEW S, NEW put \in Puts(S, S), NEW then \in Puts(S, S), NEW both \in Puts(S, S),
           \A tok \in S : both[tok] = Expand(put[tok], then),
           NEW text \in Seq(S)
    PROVE  Expand(Expand(text, put), then) = Expand(text, both)
  <1> DEFINE T == {t \in Seq(S) : Expand(Expand(t, put), then) = Expand(t, both)}
  <1>1. <<>> \in T
    BY ExpandEmpty, EmptySeq
  <1>2. ASSUME NEW t \in Seq(S), NEW tok \in S, t \in T PROVE Append(t, tok) \in T
    <2>1. Expand(t, put) \in Seq(S) /\ put[tok] \in Seq(S) /\ Append(t, tok) \in Seq(S)
      BY ExpandType, AppendProperties DEF Puts
    <2>2. Expand(Append(t, tok), put) = Expand(t, put) \o put[tok]
      BY ExpandAppend
    <2>3. Expand(Expand(t, put) \o put[tok], then)
            = Expand(Expand(t, put), then) \o Expand(put[tok], then)
      BY <2>1, ExpandConcat
    <2>4. Expand(Append(t, tok), both) = Expand(t, both) \o both[tok]
      BY ExpandAppend
    <2>5. Expand(Expand(t, put), then) = Expand(t, both) /\ both[tok] = Expand(put[tok], then)
      BY <1>2
    <2>6. Expand(Expand(Append(t, tok), put), then) = Expand(Append(t, tok), both)
      BY <2>2, <2>3, <2>4, <2>5, Zenon
    <2> QED BY <2>1, <2>6
  <1>3. Seq(S) \subseteq T
    <2> HIDE DEF T
    <2> QED BY <1>1, <1>2, SeqInduct
  <1> QED BY <1>3

\* A text in which nothing is replaced stays what it is.
One(tok) == <<tok>>

LEMMA ExpandNothing ==
    ASSUME NEW S, NEW put \in Puts(S, S), NEW text \in Seq(S),
           \A i \in 1 .. Len(text) : put[text[i]] = One(text[i])
    PROVE  Expand(text, put) = text
  <1> DEFINE T == {t \in Seq(S) : (\A i \in 1 .. Len(t) : put[t[i]] = One(t[i]))
                                  => Expand(t, put) = t}
  <1>1. <<>> \in T
    BY ExpandEmpty, EmptySeq
  <1>2. ASSUME NEW t \in Seq(S), NEW tok \in S, t \in T PROVE Append(t, tok) \in T
    <2>1. /\ Append(t, tok) \in Seq(S) /\ Len(Append(t, tok)) = Len(t) + 1
          /\ Append(t, tok)[Len(t) + 1] = tok
          /\ \A i \in 1 .. Len(t) : Append(t, tok)[i] = t[i]
      BY AppendProperties
    <2> SUFFICES ASSUME \A i \in 1 .. Len(t) + 1 : put[Append(t, tok)[i]] = One(Append(t, tok)[i])
                 PROVE  Expand(Append(t, tok), put) = Append(t, tok)
      BY <2>1
    <2>2. Len(t) \in Nat
      OBVIOUS
    <2>3. put[tok] = One(tok)
      BY <2>1, <2>2
    <2>4. \A i \in 1 .. Len(t) : put[t[i]] = One(t[i])
      BY <2>1, <2>2
    <2>5. Expand(t, put) = t
      BY <1>2, <2>4
    <2>6. Expand(Append(t, tok), put) = t \o One(tok)
      <3>1. Expand(Append(t, tok), put) = Expand(t, put) \o put[tok]
        BY ExpandAppend
      <3> QED BY <2>3, <2>5, <3>1, Zenon
    <2> QED BY <2>6, AppendIsConcat DEF One
  <1>3. Seq(S) \subseteq T
    <2> HIDE DEF T
    <2> QED BY <1>1, <1>2, SeqInduct
  <1> QED BY <1>3

\* What is in the expanded text was put in for a token of the text.
LEMMA ExpandOrigin ==
    ASSUME NEW S, NEW put \in Puts(S, S), NEW text \in Seq(S), NEW x,
           Contains(Expand(text, put), x)
    PROVE  \E i \in 1 .. Len(text) : Contains(put[text[i]], x)
  <1> DEFINE T == {t \in Seq(S) : Contains(Expand(t, put), x)
                                  => \E i \in 1 .. Len(t) : Contains(put[t[i]], x)}
  <1>1. <<>> \in T
    BY ExpandEmpty, EmptySeq DEF Contains
  <1>2. ASSUME NEW t \in Seq(S), NEW tok \in S, t \in T PROVE Append(t, tok) \in T
    <2>1. /\ Append(t, tok) \in Seq(S) /\ Len(Append(t, tok)) = Len(t) + 1
          /\ Append(t, tok)[Len(t) + 1] = tok
          /\ \A i \in 1 .. Len(t) : Append(t, tok)[i] = t[i]
      BY AppendProperties
    <2>2. Len(t) \in Nat
      OBVIOUS
    <2> SUFFICES ASSUME Contains(Expand(Append(t, tok), put), x)
                 PROVE  \E i \in 1 .. Len(t) + 1 : Contains(put[Append(t, tok)[i]], x)
      BY <2>1
    <2> DEFINE a == Expand(t, put)  b == put[tok]
    <2>3. a \in Seq(S) /\ b \in Seq(S) /\ Expand(Append(t, tok), put) = a \o b
      BY ExpandType, ExpandAppend DEF Puts
    <2>4. Contains(a, x) \/ Contains(b, x)
      <3> HIDE DEF a, b
      <3>1. PICK k \in 1 .. Len(a \o b) : (a \o b)[k] = x
        BY <2>3 DEF Contains
      <3>2. CASE k <= Len(a)
        BY <2>3, <3>1, <3>2, ConcatProperties DEF Contains
      <3>3. CASE ~ (k <= Len(a))
        <4>1. k - Len(a) \in 1 .. Len(b) /\ (a \o b)[k] = b[k - Len(a)]
          BY <2>3, <3>1, <3>3, ConcatProperties
        <4> QED BY <3>1, <4>1 DEF Contains
      <3> QED BY <3>2, <3>3
    <2>5. CASE Contains(a, x)
      BY <1>2, <2>1, <2>2, <2>5
    <2>6. CASE Contains(b, x)
      BY <2>1, <2>2, <2>6
    <2> QED BY <2>4, <2>5, <2>6
  <1>3. Seq(S) \subseteq T
    <2> HIDE DEF T
    <2> QED BY <1>1, <1>2, SeqInduct
  <1> QED BY <1>3

-----------------------------------------------------------------------------
(* The loop *)

LEMMA SeqOfIsSeq ==
    ASSUME NEW S, NEW n \in Nat, NEW s \in SeqOf(S, n)
    PROVE  s \in Seq(S)
  BY DEF SeqOf

LEMMA FormIsTyped ==
    ASSUME TypeOK
    PROVE  /\ Len(values) \in Nat /\ DOMAIN values = 1 .. Len(values)
           /\ \A i \in 1 .. Len(values) :
                 values[i].name \in Names /\ values[i].text \in Seq(Tokens)
           /\ \A i, j \in 1 .. Len(values) : values[i].name = values[j].name => i = j
           /\ body \in Seq(Tokens)
  <1>1. values \in SeqOf(Entries, MaxFields) /\ body \in SeqOf(Tokens, MaxBody)
    BY DEF TypeOK, Dicts, Bodies
  <1>2. values \in Seq(Entries) /\ body \in Seq(Tokens)
    BY <1>1, SeqOfIsSeq, SubstitutionAssumption
  <1>3. \A e \in Entries : e.name \in Names /\ e.text \in Seq(Tokens)
    BY SeqOfIsSeq, SubstitutionAssumption DEF Entries
  <1>4. \A i \in 1 .. Len(values) : values[i] \in Entries
    BY <1>2
  <1>5. \A i, j \in 1 .. Len(values) : values[i].name = values[j].name => i = j
    BY <1>2 DEF TypeOK, Dicts
  <1> QED BY <1>2, <1>3, <1>4, <1>5

LEMMA HoleIsToken == \A n \in Names : Hole(n) \in Tokens
  BY DEF Tokens

LEMMA HolesDiffer == \A m, n \in Names : Hole(m) = Hole(n) => m = n
  BY DEF Hole

\* What str.replace does to a token.
Put(n, v) == [tok \in Tokens |-> IF tok = Hole(n) THEN v ELSE <<tok>>]

LEMMA PutIsTyped ==
    ASSUME NEW n \in Names, NEW v \in Seq(Tokens)
    PROVE  Put(n, v) \in Puts(Tokens, Tokens)
  <1>1. \A tok \in Tokens : <<tok>> \in Seq(Tokens)
    OBVIOUS
  <1> QED BY <1>1 DEF Put, Puts

LEMMA ReplaceType ==
    ASSUME NEW text \in Seq(Tokens), NEW n \in Names, NEW v \in Seq(Tokens)
    PROVE  Replace(text, n, v) \in Seq(Tokens)
  BY PutIsTyped, ExpandType DEF Replace, Put

\* The placeholders of a text in which one was replaced: the others it had, and
\* those of the value, if it had the one.
LEMMA ReplaceHoles ==
    ASSUME NEW text \in Seq(Tokens), NEW n \in Names, NEW v \in Seq(Tokens),
           NEW m \in HolesOf(Replace(text, n, v))
    PROVE  \/ m \in HolesOf(text) /\ m # n
           \/ m \in HolesOf(v) /\ n \in HolesOf(text)
  <1>1. m \in Names /\ Contains(Expand(text, Put(n, v)), Hole(m))
    BY DEF HolesOf, Replace, Put
  <1>2. PICK i \in 1 .. Len(text) : Contains(Put(n, v)[text[i]], Hole(m))
    BY <1>1, PutIsTyped, ExpandOrigin
  <1>3. text[i] \in Tokens
    OBVIOUS
  <1>4. CASE text[i] = Hole(n)
    <2>1. Put(n, v)[text[i]] = v  BY <1>3, <1>4 DEF Put
    <2> QED BY <1>1, <1>2, <1>4, <2>1 DEF HolesOf, Contains
  <1>5. CASE text[i] # Hole(n)
    <2>1. Put(n, v)[text[i]] = <<text[i]>>  BY <1>3, <1>5 DEF Put
    <2>2. text[i] = Hole(m)
      <3>1. PICK k \in 1 .. Len(<<text[i]>>) : <<text[i]>>[k] = Hole(m)
        BY <1>2, <2>1 DEF Contains
      <3> QED BY <3>1
    <2> QED BY <1>1, <1>5, <2>2 DEF HolesOf, Contains
  <1> QED BY <1>4, <1>5

LEMMA GivenIsTyped ==
    ASSUME TypeOK, NEW k \in 0 .. Len(values)
    PROVE  Given(k) \in Puts(Tokens, Tokens)
  <1> SUFFICES ASSUME NEW tok \in Tokens PROVE Given(k)[tok] \in Seq(Tokens)
    BY DEF Given, Puts
  <1>1. CASE \E i \in 1 .. k : tok = Hole(values[i].name)
    <2> DEFINE c == CHOOSE i \in 1 .. k : tok = Hole(values[i].name)
    <2>1. c \in 1 .. Len(values)
      BY <1>1, FormIsTyped
    <2>2. Given(k)[tok] = values[c].text
      BY <1>1 DEF Given
    <2> QED BY <2>1, <2>2, FormIsTyped
  <1>2. CASE ~ \E i \in 1 .. k : tok = Hole(values[i].name)
    BY <1>2 DEF Given
  <1> QED BY <1>1, <1>2

\* Replacing the next placeholder is to give one value more, if no value that
\* was given before has it.
LEMMA GivesOneMore ==
    ASSUME TypeOK, Plain, NEW k \in 0 .. Len(values) - 1, NEW tok \in Tokens
    PROVE  Given(k + 1)[tok] = Expand(Given(k)[tok], Put(values[k + 1].name, values[k + 1].text))
  <1> DEFINE n == values[k + 1].name  v == values[k + 1].text
  <1>1. /\ k \in Nat /\ k + 1 \in 1 .. Len(values) /\ \A i \in 1 .. k : i \in 1 .. Len(values)
        /\ n \in Names /\ v \in Seq(Tokens) /\ Put(n, v) \in Puts(Tokens, Tokens)
    BY FormIsTyped, PutIsTyped
  <1>2. CASE \E i \in 1 .. k : tok = Hole(values[i].name)
    <2> PICK i \in 1 .. k : tok = Hole(values[i].name)
      BY <1>2
    <2>1. ASSUME NEW j \in 1 .. k + 1, tok = Hole(values[j].name) PROVE j = i
      <3>1. i \in 1 .. Len(values) /\ j \in 1 .. Len(values)
        BY <1>1
      <3>2. values[i].name \in Names /\ values[j].name \in Names
        BY <3>1, FormIsTyped
      <3>3. values[i].name = values[j].name
        BY <2>1, <3>2, HolesDiffer
      <3> QED BY <3>1, <3>3, FormIsTyped
    <2>2. Given(k)[tok] = values[i].text /\ Given(k + 1)[tok] = values[i].text
      BY <1>1, <2>1 DEF Given
    <2>3. values[i].text \in Seq(Tokens) /\ HolesOf(values[i].text) = {}
      BY <1>1, FormIsTyped DEF Plain
    <2>4. ASSUME NEW j \in 1 .. Len(values[i].text)
          PROVE  Put(n, v)[values[i].text[j]] = One(values[i].text[j])
      <3>1. values[i].text[j] \in Tokens /\ values[i].text[j] # Hole(n)
        BY <1>1, <2>3 DEF HolesOf, Contains
      <3> QED BY <3>1 DEF Put, One
    <2>5. Expand(values[i].text, Put(n, v)) = values[i].text
      BY <1>1, <2>3, <2>4, ExpandNothing
    <2> QED BY <2>2, <2>5
  <1>3. CASE ~ \E i \in 1 .. k : tok = Hole(values[i].name)
    <2>1. Given(k)[tok] = <<tok>>
      BY <1>3 DEF Given
    <2>2. Expand(<<tok>>, Put(n, v)) = Put(n, v)[tok]
      BY <1>1, ExpandOne
    <2>3. CASE tok = Hole(n)
      <3>1. \A j \in 1 .. k + 1 : tok = Hole(values[j].name) <=> j = k + 1
        BY <1>1, <1>3, <2>3
      <3>2. Given(k + 1)[tok] = v
        BY <1>1, <3>1 DEF Given
      <3>3. Put(n, v)[tok] = v
        BY <2>3 DEF Put
      <3> QED BY <2>1, <2>2, <3>2, <3>3
    <2>4. CASE tok # Hole(n)
      <3>1. ~ \E j \in 1 .. k + 1 : tok = Hole(values[j].name)
        BY <1>1, <1>3, <2>4
      <3>2. Given(k + 1)[tok] = <<tok>>
        BY <3>1 DEF Given
      <3>3. Put(n, v)[tok] = <<tok>>
        BY <2>4 DEF Put
      <3> QED BY <2>1, <2>2, <3>2, <3>3
    <2> QED BY <2>3, <2>4
  <1> QED BY <1>2, <1>3

-----------------------------------------------------------------------------
LEMMA Begun == Init => SubstitutionInv
  <1> SUFFICES ASSUME Init PROVE SubstitutionInv
    OBVIOUS
  <1>1. body \in Seq(Tokens)
    BY SeqOfIsSeq, SubstitutionAssumption DEF Init, Bodies
  <1>2. TypeOK
    <2>1. values \in Seq(Entries)
      BY SeqOfIsSeq, SubstitutionAssumption DEF Init, Dicts
    <2> QED BY <1>1, <2>1 DEF Init, TypeOK
  <1>3. LeftoversExplained
    BY DEF Init, LeftoversExplained
  <1>4. Expand(body, Given(0)) = body
    <2>1. Given(0) \in Puts(Tokens, Tokens)
      BY <1>2, GivenIsTyped, FormIsTyped
    <2>2. \A i \in 1 .. Len(body) : Given(0)[body[i]] = One(body[i])
      <3>1. \A tok \in Tokens : Given(0)[tok] = <<tok>>  BY DEF Given
      <3> QED BY <1>1, <3>1 DEF One
    <2> QED BY <1>1, <2>1, <2>2, ExpandNothing
  <1> QED BY <1>2, <1>3, <1>4 DEF Init, SubstitutionInv

LEMMA Iterates == ASSUME SubstitutionInv, Iterate PROVE SubstitutionInv'
  <1> DEFINE n == values[done + 1].name  v == values[done + 1].text
  <1>1. /\ body' = body /\ values' = values /\ done' = done + 1
        /\ result' = Replace(result, n, v)
        /\ done \in 0 .. Len(values) - 1 /\ done + 1 \in 1 .. Len(values)
    BY FormIsTyped DEF SubstitutionInv, TypeOK, Iterate
  <1>2. n \in Names /\ v \in Seq(Tokens) /\ result \in Seq(Tokens) /\ body \in Seq(Tokens)
    BY <1>1, FormIsTyped DEF SubstitutionInv, TypeOK
  <1>3. TypeOK'
    <2>1. result' \in Seq(Tokens)
      BY <1>1, <1>2, ReplaceType
    <2> QED BY <1>1, <2>1, FormIsTyped DEF SubstitutionInv, TypeOK
  <1>4. LeftoversExplained'
    <2> SUFFICES ASSUME NEW m \in HolesOf(result')
                 PROVE  \/ m \in HolesOf(body) /\ \A i \in 1 .. done + 1 : values[i].name # m
                        \/ \E i \in 1 .. done + 1 :
                              /\ m \in HolesOf(values[i].text)
                              /\ \A j \in i + 1 .. done + 1 : values[j].name # m
      BY <1>1 DEF LeftoversExplained, HolesOf
    <2>1. \/ m \in HolesOf(result) /\ m # n
          \/ m \in HolesOf(v)
      BY <1>1, <1>2, ReplaceHoles
    <2>2. CASE m \in HolesOf(result) /\ m # n
      BY <1>1, <2>2 DEF SubstitutionInv, LeftoversExplained
    <2>3. CASE m \in HolesOf(v)
      BY <1>1, <2>3
    <2> QED BY <2>1, <2>2, <2>3
  <1>5. ASSUME Plain PROVE Replace(Expand(body, Given(done)), n, v) = Expand(body, Given(done + 1))
    <2>1. /\ Given(done) \in Puts(Tokens, Tokens) /\ Given(done + 1) \in Puts(Tokens, Tokens)
          /\ Put(n, v) \in Puts(Tokens, Tokens)
      BY <1>1, <1>2, GivenIsTyped, PutIsTyped, FormIsTyped DEF SubstitutionInv
    <2>2. \A tok \in Tokens : Given(done + 1)[tok] = Expand(Given(done)[tok], Put(n, v))
      BY <1>1, <1>5, GivesOneMore DEF SubstitutionInv
    <2>3. Expand(Expand(body, Given(done)), Put(n, v)) = Expand(body, Given(done + 1))
      BY <1>2, <2>1, <2>2, ExpandTwice
    <2> QED BY <2>3 DEF Replace, Put
  <1>6. (Plain => result = Expand(body, Given(done)))'
    <2>1. Plain' <=> Plain  BY <1>1 DEF Plain
    <2>2. Expand(body, Given(done))' = Expand(body, Given(done + 1))
      BY <1>1 DEF Given
    <2> QED BY <1>1, <1>5, <2>1, <2>2 DEF SubstitutionInv
  <1> QED BY <1>3, <1>4, <1>6 DEF SubstitutionInv

LEMMA Rests == ASSUME SubstitutionInv, UNCHANGED vars PROVE SubstitutionInv'
  BY DEF vars, SubstitutionInv, TypeOK, LeftoversExplained, Plain, Given, HolesOf

\* The invariant of the loop: as long as no value brings a placeholder along, it
\* has done to the body what the values so far do to it all at once.
THEOREM Substituting == Spec => []SubstitutionInv
  <1>1. SubstitutionInv /\ [Next]_vars => SubstitutionInv'
    BY Iterates, Rests DEF Next
  <1> QED BY Begun, <1>1, PTL DEF Spec

\* Whatever the order of the fields and whatever users type, a placeholder that
\* is left has no value, or came in with one when it was too late.
THEOREM Explained == Spec => []LeftoversExplained
  <1>1. SubstitutionInv => LeftoversExplained  BY DEF SubstitutionInv
  <1> QED BY Substituting, <1>1, PTL

\* When the loop is done, plain values stand where their placeholders were, as
\* if all had been replaced at once: the order of the dict is irrelevant.
THEOREM OrderIsIrrelevant ==
    Spec => [](Plain /\ done = Len(values) => result = Simultaneous)
  <1>1. SubstitutionInv => (Plain /\ done = Len(values) => result = Simultaneous)
    BY DEF SubstitutionInv, Simultaneous
  <1> QED BY Substituting, <1>1, PTL
==============================================================================
