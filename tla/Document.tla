------------------------------ MODULE Document -------------------------------
(***************************************************************************)
(* The file confirm_generate makes: substitute_template on the body of the *)
(* template and the values of the form, then render_pdf on the result.     *)
(* Neither awaits anything, so that nothing comes in between.              *)
(***************************************************************************)
EXTENDS Substitution, Pages

CONSTANT Break  \* the line break, one of Words

ASSUME DocumentAssumption == Break \in Words /\ Tokens \ {Break} \subseteq Symbols

\* Mutant: empty lines are lost, as with a split at blanks.
FeedOnce(above, tok) ==
    IF tok # Break THEN [above EXCEPT ![Len(above)] = Append(@, tok)]
    ELSE IF above[Len(above)] = <<>> THEN above
    ELSE Append(above, <<>>)

\* One token more: a break starts a line, anything else goes to the last one.
Feed(above, tok) ==
    IF tok = Break THEN Append(above, <<>>)
                   ELSE [above EXCEPT ![Len(above)] = Append(@, tok)]

\* text.split("\n"): one line more than there are breaks.
Lines(text) ==
    LET upTo[i \in 0 .. Len(text)] ==
          IF i = 0 THEN << <<>> >> ELSE Feed(upTo[i - 1], text[i])
    IN  upTo[Len(text)]

DocumentInit == Init /\ Begin /\ lines = <<>>

Substitute == Iterate /\ UNCHANGED pageVars

\* Mutant: the text is handed on before the last value is in.
SplitEarly ==
    /\ lines = <<>>
    /\ lines' = Lines(result)
    /\ UNCHANGED <<vars, page, y, drawn>>

\* The result is handed to render_pdf, which splits it into lines.
Split ==
    /\ done = Len(values)
    /\ lines = <<>>
    /\ lines' = Lines(result)
    /\ UNCHANGED <<vars, page, y, drawn>>

Render == DrawLine /\ UNCHANGED vars

DocumentNext == Substitute \/ Split \/ Render

DocumentSpec == DocumentInit /\ [][DocumentNext]_<<vars, pageVars>>

-----------------------------------------------------------------------------
(* Reference *)

\* The lines one after the other, with a break in front of each.
Unsplit(ls) == FlattenSeq([k \in DOMAIN ls |-> <<Break>> \o ls[k]])

-----------------------------------------------------------------------------
(* Properties.  Those of Pages are properties of the file, too.            *)

\* The variables have their types.
DocumentTypeOK == TypeOK /\ PagesTypeOK

\* As long as no user types a placeholder, the order of the fields is
\* irrelevant: what is printed are the lines of the simultaneous substitution,
\* every value in its place, and each line in its turn.
PrintedIsSimultaneous ==
    Plain => LET expected == Lines(Simultaneous)
             IN  /\ lines \in {<<>>, expected}
                 /\ Len(drawn) <= Len(expected)
                 /\ \A i \in DOMAIN drawn : drawn[i].text = expected[i]

\* The inductive invariant: those of the two loops, and what connects them. The
\* lines are those of the finished text, and nothing of it is lost in them.
DocumentInv ==
    /\ SubstitutionInv /\ PagesInv
    /\ lines # <<>> => /\ done = Len(values) /\ lines = Lines(result)
                    /\ Unsplit(lines) = <<Break>> \o result
==============================================================================
