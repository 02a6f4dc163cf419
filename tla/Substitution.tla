---------------------------- MODULE Substitution -----------------------------
(***************************************************************************)
(* How the text of a document is made: substitute_template of              *)
(* generator/parser.py, called by confirm_generate with the body of the    *)
(* template and the values of the form, in the order they were entered.    *)
(*                                                                         *)
(* A text is a sequence of words and placeholders.  A user may type what   *)
(* looks like a placeholder, so that values are texts too; placeholders    *)
(* that only come about where two texts meet are left out.                 *)
(***************************************************************************)
EXTENDS Naturals, SequencesExt

CONSTANTS
    Names,      \* names of template fields
    Words,      \* text that is no placeholder
    MaxBody,    \* bound: length of a template's body
    MaxValue,   \* bound: length of a value
    MaxFields   \* bound: number of values in a form

Hole(n) == [hole |-> n]
Tokens == Words \cup {Hole(n) : n \in Names}

ASSUME SubstitutionAssumption ==
    /\ \A n \in Names : Hole(n) \notin Words
    /\ MaxBody \in Nat /\ MaxValue \in Nat /\ MaxFields \in Nat

Bodies == SeqOf(Tokens, MaxBody)
Entries == {[name |-> n, text |-> v] : n \in Names, v \in SeqOf(Tokens, MaxValue) \ {<<>>}}

\* A dict holds a name once; skipped optional fields have no entry.
Dicts == {d \in SeqOf(Entries, MaxFields) :
             \A i, j \in DOMAIN d : d[i].name = d[j].name => i = j}

VARIABLES
    body,       \* the template
    values,     \* the dict of values, in the order of its keys
    done,       \* how many keys the loop has replaced
    result

vars == <<body, values, done, result>>

-----------------------------------------------------------------------------
\* The text with put[tok] in the place of every token tok.
Expand(text, put) == FlattenSeq([i \in DOMAIN text |-> put[text[i]]])

\* Mutants: the value goes in without str; str.replace with a count of one.
ReplaceByValue(text, n, v) == [i \in DOMAIN text |->
    IF text[i] = Hole(n) THEN [value |-> v] ELSE text[i]]

ReplaceFirst(text, n, v) ==
    FlattenSeq([i \in DOMAIN text |->
        IF text[i] = Hole(n) /\ \A j \in 1 .. i - 1 : text[j] # Hole(n) THEN v ELSE <<text[i]>>])

\* result.replace("{{" + key + "}}", value): all of them, from left to right,
\* and what the value brings along is not looked at again.
Replace(text, n, v) ==
    Expand(text, [tok \in Tokens |-> IF tok = Hole(n) THEN v ELSE <<tok>>])

\* A template is any text, and a form gives some of its fields a value.
Init ==
    /\ body \in Bodies
    /\ values \in Dicts
    /\ done = 0
    /\ result = body

\* The loop over values.items().
Iterate ==
    /\ done < Len(values)
    /\ done' = done + 1
    /\ result' = Replace(result, values[done'].name, values[done'].text)
    /\ UNCHANGED <<body, values>>

Next == Iterate

Spec == Init /\ [][Next]_vars

-----------------------------------------------------------------------------
(* Reference *)

HolesOf(text) == {n \in Names : Contains(text, Hole(n))}
Plain == \A i \in DOMAIN values : HolesOf(values[i].text) = {}

\* What the first k values put in the place of a token.
Given(k) ==
    [tok \in Tokens |->
        IF \E i \in 1 .. k : tok = Hole(values[i].name)
          THEN values[CHOOSE i \in 1 .. k : tok = Hole(values[i].name)].text
          ELSE <<tok>>]

\* Every placeholder of the body that has a value is replaced by it, once.
Simultaneous == Expand(body, Given(Len(values)))

-----------------------------------------------------------------------------
(* Properties *)

\* The variables have their types.
TypeOK ==
    /\ body \in Bodies
    /\ values \in Dicts
    /\ done \in 0 .. Len(values)
    /\ result \in Seq(Tokens)

\* A placeholder that is left belongs to a field without a value, or came in
\* with a value that was put in when its own turn was over or was its own.
LeftoversExplained ==
    \A n \in HolesOf(result) :
        \/ n \in HolesOf(body) /\ \A i \in 1 .. done : values[i].name # n
        \/ \E i \in 1 .. done :
              /\ n \in HolesOf(values[i].text)
              /\ \A j \in i + 1 .. done : values[j].name # n

\* The inductive invariant: as long as values are plain, the loop has done to
\* the body what the values it has had do to it all at once.
SubstitutionInv ==
    /\ TypeOK /\ LeftoversExplained
    /\ Plain => result = Expand(body, Given(done))
==============================================================================
