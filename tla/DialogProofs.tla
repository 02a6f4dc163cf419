---------------------------- MODULE DialogProofs -----------------------------
(***************************************************************************)
(* Proofs about Dialog for any users, tasks, templates, messages and       *)
(* bounds: its typing and safety properties, and that it implements        *)
(* Delivery.                                                               *)
(***************************************************************************)
EXTENDS Dialog, WellFoundedInduction, TLAPS

-----------------------------------------------------------------------------
(* Forms *)

\* A nonempty set of positions has a last one.
LEMMA LastPosition ==
    ASSUME NEW n \in Nat, NEW S, S \subseteq 1 .. n, S # {}
    PROVE  \E j \in S : \A l \in S : l <= j
<1> DEFINE R == {ss \in Nat \X Nat : ss[1] < ss[2]}
           T == {m \in Nat : \E j \in S : m = n - j}
<1>1. IsWellFoundedOn(R, Nat)
    BY NatLessThanWellFounded DEF OpToRel
<1>2. T \subseteq Nat /\ T # {}
    <2>1. PICK j \in S : TRUE
        OBVIOUS
    <2>2. n - j \in T
        BY <2>1
    <2> QED BY <2>2
<1>3. \E x \in T : \A y \in T : ~ (<<y, x>> \in R)
    <2> HIDE DEF T, R
    <2> QED BY <1>1, <1>2, WFMin
<1>4. PICK x \in T : \A y \in T : ~ (<<y, x>> \in R)
    BY <1>3
<1>5. PICK j \in S : x = n - j
    BY <1>4
<1>6. ASSUME NEW l \in S PROVE l <= j
    <2>1. n - l \in T
        BY <1>6
    <2>2. ~ (n - l < n - j)
        BY <2>1, <1>4, <1>5
    <2> QED BY <2>2, <1>5, <1>6
<1> QED BY <1>5, <1>6

\* ByName keeps the number and the names of the fields, and gives fields of one
\* name the same attributes.
LEMMA ByNameProperties ==
    ASSUME NEW fields \in Seq(Field)
    PROVE  /\ ByName(fields) \in Seq(Field)
           /\ Len(ByName(fields)) = Len(fields)
           /\ \A i, j \in DOMAIN ByName(fields) :
                 ByName(fields)[i].name = ByName(fields)[j].name
                 => ByName(fields)[i] = ByName(fields)[j]
<1> DEFINE last(i) == LastNamed(fields, fields[i].name)
<1>1. ASSUME NEW i \in DOMAIN fields
      PROVE  /\ last(i) \in DOMAIN fields
             /\ fields[last(i)].name = fields[i].name
    <2> DEFINE S == {j \in DOMAIN fields : fields[j].name = fields[i].name}
    <2>1. S \subseteq 1 .. Len(fields) /\ S # {}
        BY <1>1
    <2>2. PICK j \in S : \A l \in S : l <= j
        <3> HIDE DEF S
        <3> QED BY <2>1, LastPosition, Len(fields) \in Nat
    <2> QED BY <2>2 DEF LastNamed
<1>2. \A i \in 1 .. Len(fields) : fields[last(i)] \in Field
    BY <1>1
<1> HIDE DEF last
<1>3. ByName(fields) = [i \in 1 .. Len(fields) |-> fields[last(i)]]
    BY DEF ByName, last
<1>4. ByName(fields) \in Seq(Field) /\ Len(ByName(fields)) = Len(fields)
    BY <1>2, <1>3
<1>5. ASSUME NEW i \in DOMAIN fields, NEW j \in DOMAIN fields,
             fields[last(i)].name = fields[last(j)].name
      PROVE  fields[last(i)] = fields[last(j)]
    <2>1. fields[i].name = fields[j].name
        BY <1>1, <1>5
    <2> QED BY <2>1 DEF last
<1> QED BY <1>3, <1>4, <1>5

-----------------------------------------------------------------------------
(* Dialogs *)

LEMMA NoDialogOK == NoDialog \in Dialogs /\ DialogOK(NoDialog)
<1>1. NoForm \in Forms
    BY DEF NoForm, NoValues, Forms, Values
<1> QED BY <1>1 DEF NoDialog, NoForm, NoValues, Dialogs, DialogStates, DialogOK, FilledTo

\* A dialog that waits for the confirmation has a complete form.
LEMMA ConfirmingIsComplete ==
    ASSUME NEW d \in Dialogs, DialogOK(d), d.state = "confirming"
    PROVE  d.form \in CompleteForms
<1>1. FilledTo(d.form, Len(d.form.fields))
    BY DEF DialogOK
<1>2. Stray(d.form) = {}
    <2>1. ASSUME NEW n \in Names, d.form.values[n] # NoText
          PROVE  \E i \in DOMAIN d.form.fields : d.form.fields[i].name = n
        BY <2>1 DEF DialogOK, Dialogs, Forms
    <2> QED BY <2>1 DEF Stray
<1> QED BY <1>1, <1>2 DEF DialogOK, Dialogs, CompleteForms

\* The value enter_field accepts for the next field fills the form one field
\* further, whether it is blank, and whether the name had a value before.
LEMMA StoredFillsNext ==
    ASSUME NEW d \in Dialogs, DialogOK(d), d.idx < Len(d.form.fields),
           NEW text \in Texts \cup {NoText},
           Accepts(d.form.fields[d.idx + 1], text)
    PROVE  LET form == Stored(d.form, d.form.fields[d.idx + 1].name, text)
           IN  /\ form \in Forms
               /\ form.fields = d.form.fields /\ form.tpl = d.form.tpl
               /\ FilledTo(form, d.idx + 1)
               /\ \A n \in Names : form.values[n] # NoText =>
                     \E i \in 1 .. d.idx + 1 : form.fields[i].name = n
<1> DEFINE f == d.form.fields[d.idx + 1]
           form == Stored(d.form, f.name, text)
<1>1. /\ d.form \in Forms /\ d.idx \in Nat
      /\ d.form.fields \in Seq(Field)
      /\ d.form.values \in [Names -> Texts \cup {NoText}]
      /\ d.idx + 1 \in 1 .. Len(d.form.fields)
    BY DEF Dialogs, Forms, Values
<1>2. f \in Field /\ f.name \in Names /\ f.required \in BOOLEAN
    <2>1. f \in Field
        BY <1>1
    <2> QED BY <2>1 DEF Field
<1>3. /\ form \in Forms
      /\ form.fields = d.form.fields /\ form.tpl = d.form.tpl
      /\ form.values = IF text = NoText THEN d.form.values
                                        ELSE [d.form.values EXCEPT ![f.name] = text]
    BY <1>1, <1>2 DEF Stored, Forms, Values
<1>4. ASSUME NEW i \in 1 .. d.idx + 1
      PROVE  LET g == d.form.fields[i]  v == form.values[g.name]
             IN  /\ g.required => v # NoText
                 /\ v # NoText => validate_field_value(g.type, v)
    <2> DEFINE g == d.form.fields[i]
    <2>1. i \in DOMAIN d.form.fields /\ g \in Field /\ g.name \in Names
        <3>1. i \in 1 .. Len(d.form.fields)
            BY <1>1
        <3>2. g \in Field
            BY <3>1, <1>1
        <3> QED BY <3>1, <3>2, <1>1 DEF Field
    <2>2. CASE g.name = f.name
        <3>1. g = f
            BY <2>1, <2>2, <1>1 DEF DialogOK
        <3>2. CASE text = NoText
            <4>1. ~ f.required
                BY <3>2 DEF Accepts
            <4>2. d.form.values[f.name] # NoText =>
                      validate_field_value(f.type, d.form.values[f.name])
                <5>1. ASSUME d.form.values[f.name] # NoText
                      PROVE  validate_field_value(f.type, d.form.values[f.name])
                    <6>1. PICK j \in 1 .. d.idx : d.form.fields[j].name = f.name
                        BY <5>1, <1>2 DEF DialogOK
                    <6>2. d.form.fields[j] = f
                        BY <6>1, <1>1, SMTT(30) DEF DialogOK
                    <6> QED BY <6>1, <6>2, <5>1 DEF DialogOK, FilledTo
                <5> QED BY <5>1
            <4> QED BY <3>1, <3>2, <4>1, <4>2, <1>3
        <3>3. CASE text # NoText
            <4>1. form.values[f.name] = text
                BY <3>3, <1>1, <1>2, <1>3
            <4>2. validate_field_value(f.type, text)
                BY <3>3 DEF Accepts
            <4> QED BY <3>1, <3>3, <4>1, <4>2
        <3> QED BY <3>2, <3>3
    <2>3. CASE g.name # f.name
        <3>1. i \in 1 .. d.idx
            BY <2>3, <1>1
        <3>2. form.values[g.name] = d.form.values[g.name]
            BY <2>1, <2>3, <1>1, <1>3
        <3> QED BY <3>1, <3>2 DEF DialogOK, FilledTo
    <2> QED BY <2>2, <2>3
<1>5. FilledTo(form, d.idx + 1)
    BY <1>3, <1>4 DEF FilledTo
<1>6. ASSUME NEW n \in Names, form.values[n] # NoText
      PROVE  \E i \in 1 .. d.idx + 1 : d.form.fields[i].name = n
    <2>1. CASE n = f.name
        BY <2>1, <1>1
    <2>2. CASE n # f.name
        <3>1. d.form.values[n] # NoText
            BY <2>2, <1>6, <1>1, <1>3
        <3>2. PICK i \in 1 .. d.idx : d.form.fields[i].name = n
            BY <3>1 DEF DialogOK
        <3> QED BY <3>2, <1>1
    <2> QED BY <2>1, <2>2
<1> HIDE DEF form
<1> QED BY <1>3, <1>5, <1>6 DEF form

\* The dialog enter_field goes on with after a value.
LEMMA NextDialogOK ==
    ASSUME NEW d \in Dialogs, DialogOK(d), d.idx < Len(d.form.fields),
           NEW form \in Forms,
           form.fields = d.form.fields, form.tpl = d.form.tpl,
           FilledTo(form, d.idx + 1),
           \A n \in Names : form.values[n] # NoText =>
              \E i \in 1 .. d.idx + 1 : form.fields[i].name = n,
           NEW state \in DialogStates,
           state = "confirming" =>
              d.idx + 1 = Len(d.form.fields) \/ d.state = "confirming",
           NEW e, e = [state |-> state, idx |-> d.idx + 1, form |-> form]
    PROVE  e \in Dialogs /\ DialogOK(e)
<1>1. d.idx \in Nat /\ d.form.fields \in Seq(Field) /\ Len(d.form.fields) \in Nat
    BY DEF Dialogs, Forms
<1>2. e.state = state /\ e.idx = d.idx + 1 /\ e.form = form
    OBVIOUS
<1>3. e \in Dialogs
    BY <1>1 DEF Dialogs
<1>4. e.idx <= Len(e.form.fields)
    BY <1>1, <1>2
<1>5. \A i, j \in DOMAIN e.form.fields :
          e.form.fields[i].name = e.form.fields[j].name => e.form.fields[i] = e.form.fields[j]
    BY <1>2 DEF DialogOK
<1>6. e.form.fields # <<>> /\ e.form.tpl \in Templates
    BY <1>1, <1>2 DEF DialogOK
<1>7. d.state # "confirming"
    <2>1. d.state = "confirming" => d.idx = Len(d.form.fields)
        BY DEF DialogOK
    <2> QED BY <2>1, <1>1
<1>8. e.state = "confirming" => e.idx = Len(e.form.fields)
    BY <1>2, <1>7
<1> QED BY <1>2, <1>3, <1>4, <1>5, <1>6, <1>8 DEF DialogOK

LEMMA SetDialogOK ==
    ASSUME fsm \in [Users -> Dialogs], DialogsOK, NEW u \in Users,
           NEW d \in Dialogs, DialogOK(d), SetDialog(u, d)
    PROVE  fsm' \in [Users -> Dialogs] /\ DialogsOK'
BY DEF SetDialog, DialogsOK

LEMMA SameDialogsOK ==
    ASSUME fsm \in [Users -> Dialogs], DialogsOK, UNCHANGED fsm
    PROVE  fsm' \in [Users -> Dialogs] /\ DialogsOK'
BY DEF DialogsOK

\* What running the body of a message handler, for the first time or again,
\* leaves: good dialogs, and a task at an await of a message handler.
MessagePCs == {"register", "answer", "summary", "run"}

LEMMA BodyStep ==
    ASSUME fsm \in [Users -> Dialogs], DialogsOK,
           NEW t \in Tasks, NEW k \in TaskRecords, Body(t, k)
    PROVE  /\ fsm' \in [Users -> Dialogs] /\ DialogsOK'
           /\ \E n : /\ tasks' = [tasks EXCEPT ![t] = n]
                     /\ \/ n = Idle
                        \/ n \in TaskRecords /\ n.pc \in MessagePCs /\ n.upd = k.upd
<1> DEFINE Awaits(n) == n \in TaskRecords /\ n.pc \in MessagePCs /\ n.upd = k.upd
<1>1. /\ k.user \in Users /\ k.text \in Texts \cup {NoText}
      /\ fsm[k.user] \in Dialogs /\ DialogOK(fsm[k.user])
    BY DEF TaskRecords, DialogsOK
<1>2. \A pc \in MessagePCs : Awaits([k EXCEPT !.pc = pc])
    BY DEF TaskRecords, PCs, MessagePCs
<1>3. CASE CmdStart(t, k)
    BY <1>1, <1>2, <1>3, NoDialogOK, SetDialogOK DEF CmdStart, At, MessagePCs
<1>4. CASE CheckPassword(t, k)
    BY <1>1, <1>2, <1>4, NoDialogOK, SetDialogOK DEF CheckPassword, At, MessagePCs
<1>5. CASE CmdAdmin(t, k)
    <2> DEFINE d == [fsm[k.user] EXCEPT !.state = "waiting_password"]
    <2>1. d \in Dialogs /\ DialogOK(d)
        BY <1>1 DEF Dialogs, DialogStates, DialogOK
    <2>2. fsm' \in [Users -> Dialogs] /\ DialogsOK'
        <3> HIDE DEF d
        <3> QED BY <2>1, <1>1, <1>5, SetDialogOK DEF CmdAdmin, d
    <2> QED BY <2>2, <1>2, <1>5 DEF CmdAdmin, At, MessagePCs
<1>6. CASE EnterFieldIgnored(t, k)
    BY <1>6, SameDialogsOK DEF EnterFieldIgnored, Finish
<1>7. CASE EnterFieldRejected(t, k)
    BY <1>2, <1>7, SameDialogsOK DEF EnterFieldRejected, At, MessagePCs
<1>8. CASE EnterFieldStored(t, k)
    <2> DEFINE d == fsm[k.user]
               form == Stored(d.form, d.form.fields[d.idx + 1].name, k.text)
               last == d.idx + 1 = Len(d.form.fields)
               e == [state |-> IF last THEN "confirming" ELSE d.state,
                     idx |-> d.idx + 1, form |-> form]
               n == [k EXCEPT !.pc = IF last THEN "summary" ELSE "answer",
                              !.form = IF last THEN form ELSE NoForm]
    <2>1. /\ d.idx < Len(d.form.fields)
          /\ Accepts(d.form.fields[d.idx + 1], k.text)
          /\ SetDialog(k.user, e)
          /\ Start(t, n)
        BY <1>8 DEF EnterFieldStored
    <2>2. /\ form \in Forms
          /\ form.fields = d.form.fields /\ form.tpl = d.form.tpl
          /\ FilledTo(form, d.idx + 1)
          /\ \A nm \in Names : form.values[nm] # NoText =>
                \E i \in 1 .. d.idx + 1 : form.fields[i].name = nm
        BY <1>1, <2>1, StoredFillsNext
    <2> HIDE DEF form
    <2>3. d.state \in DialogStates /\ (IF last THEN "confirming" ELSE d.state) \in DialogStates
        BY <1>1 DEF Dialogs, DialogStates
    <2>4. e \in Dialogs /\ DialogOK(e)
        <3> HIDE DEF d
        <3> QED BY <1>1, <2>1, <2>2, <2>3, NextDialogOK DEF d
    <2>6. NoForm \in Forms
        BY NoDialogOK DEF NoDialog, Dialogs
    <2>7. Awaits(n)
        BY <2>2, <2>6 DEF TaskRecords, PCs, MessagePCs
    <2>8. fsm' \in [Users -> Dialogs] /\ DialogsOK'
        <3> HIDE DEF e
        <3> QED BY <1>1, <2>1, <2>4, SetDialogOK
    <2> HIDE DEF n
    <2> QED BY <2>1, <2>7, <2>8 DEF Start
<1> QED BY <1>3, <1>4, <1>5, <1>6, <1>7, <1>8 DEF Body, EnterField

-----------------------------------------------------------------------------
(* Tasks *)

TasksTyped == tasks \in [Tasks -> TaskRecords \cup {Idle}]

\* What a step that records and sends nothing may make of a task: it ends, or
\* goes on with the same update, or starts with a new one, and it comes to
\* save_document only with a complete form.
LEMMA TaskStep ==
    ASSUME TypeOK, TasksOK, UpdatesOK, Safety, NEW t \in Tasks, NEW n,
           tasks' = [tasks EXCEPT ![t] = n],
           UNCHANGED <<documents, delivered>>,
           \/ n = Idle /\ updates' \in {updates, updates + 1}
           \/ /\ n \in TaskRecords /\ TaskOK(n) /\ tasks[t] # Idle
              /\ n.upd = tasks[t].upd /\ updates' = updates
              /\ n.pc \in BeforeSave => tasks[t].pc \in BeforeSave
           \/ /\ n \in TaskRecords /\ TaskOK(n)
              /\ n.upd = updates + 1 /\ updates' = updates + 1
    PROVE  TasksTyped' /\ TasksOK' /\ UpdatesOK' /\ Safety'
<1>1. /\ updates \in Nat /\ updates' \in Nat /\ updates <= updates'
      /\ tasks \in [Tasks -> TaskRecords \cup {Idle}]
      /\ documents \in Seq(Rows)
    BY DialogAssumption DEF TypeOK
<1>2. /\ n \in TaskRecords \cup {Idle}
      /\ tasks'[t] = n /\ \A o \in Tasks : o # t => tasks'[o] = tasks[o]
    BY <1>1
<1>3. TasksTyped'
    BY <1>1, <1>2 DEF TasksTyped
<1>4. Safety'
    BY DEF Safety, RecordedIsComplete, DeliveredIsRecorded, OneDocumentPerPress
<1>5. TaskOK(Idle)
    BY DEF TaskOK, Idle, BeforeSave, AfterSave
<1>6. \A k : TaskOK(k) => TaskOK(k)'
    BY DEF TaskOK
<1>7. TasksOK'
    BY <1>1, <1>2, <1>5, <1>6 DEF TasksOK
<1>8. \A o \in Tasks : tasks[o] # Idle => tasks[o] \in TaskRecords /\ tasks[o].upd \in Nat
    BY <1>1 DEF TaskRecords
<1>9. ASSUME NEW i \in DOMAIN documents PROVE documents[i].upd \in Nat
    <2>1. documents[i] \in Rows
        BY <1>1
    <2> QED BY <2>1 DEF Rows
<1>10. Idle.pc \notin BeforeSave
    BY DEF Idle, BeforeSave
<1>11. UpdatesOK'
    <2>1. (\A o \in Tasks : tasks[o] # Idle => tasks[o].upd <= updates)'
        BY <1>1, <1>2, <1>8 DEF UpdatesOK
    <2>2. (\A i \in DOMAIN documents : documents[i].upd <= updates)'
        BY <1>1, <1>9 DEF UpdatesOK
    <2>3. ASSUME NEW o \in Tasks, NEW p \in Tasks,
                 tasks'[o] # Idle, tasks'[p] # Idle, tasks'[o].upd = tasks'[p].upd
          PROVE  o = p
        <3>1. CASE o # t /\ p # t
            BY <3>1, <2>3, <1>2 DEF UpdatesOK
        <3>2. ASSUME NEW q \in Tasks, q # t, tasks[q] # Idle, n # Idle
              PROVE  tasks[q].upd # n.upd
            <4>1. tasks[q].upd <= updates
                BY <3>2 DEF UpdatesOK
            <4>2. tasks[t] # Idle => tasks[q].upd # tasks[t].upd
                BY <3>2 DEF UpdatesOK
            <4> QED BY <4>1, <4>2, <3>2, <1>1, <1>8
        <3> QED BY <3>1, <3>2, <2>3, <1>2
    <2>4. ASSUME NEW o \in Tasks, NEW i \in DOMAIN documents, tasks'[o].pc \in BeforeSave
          PROVE  documents[i].upd # tasks'[o].upd
        <3>1. CASE o # t
            BY <3>1, <2>4, <1>2 DEF UpdatesOK
        <3>2. CASE o = t
            <4>1. n # Idle /\ n.pc \in BeforeSave
                BY <3>2, <2>4, <1>2, <1>10
            <4>2. CASE n.upd = updates + 1
                BY <4>2, <3>2, <1>1, <1>2, <1>9 DEF UpdatesOK
            <4>3. CASE tasks[t].pc \in BeforeSave /\ n.upd = tasks[t].upd
                BY <4>3, <3>2, <1>2 DEF UpdatesOK
            <4> QED BY <4>1, <4>2, <4>3
        <3> QED BY <3>1, <3>2
    <2> QED BY <2>1, <2>2, <2>3, <2>4 DEF UpdatesOK
<1> QED BY <1>3, <1>4, <1>7, <1>11

\* The rest of the state after such a step.
LEMMA QuietStep ==
    ASSUME IndInv, NEW t \in Tasks, NEW n,
           tasks' = [tasks EXCEPT ![t] = n],
           \/ n = Idle /\ updates' \in {updates, updates + 1}
           \/ /\ n \in TaskRecords /\ TaskOK(n) /\ tasks[t] # Idle
              /\ n.upd = tasks[t].upd /\ updates' = updates
              /\ n.pc \in BeforeSave => tasks[t].pc \in BeforeSave
           \/ /\ n \in TaskRecords /\ TaskOK(n)
              /\ n.upd = updates + 1 /\ updates' = updates + 1,
           updates' \in 0 .. MaxUpdates,
           UNCHANGED <<rows, fieldsOf, documents, delivered, crashes>>,
           registered' \subseteq Users,
           shown' \in [Users -> SUBSET Forms],
           fsm' \in [Users -> Dialogs] /\ DialogsOK'
    PROVE  IndInv'
<1>1. TasksTyped' /\ TasksOK' /\ UpdatesOK' /\ Safety'
    BY TaskStep DEF IndInv
<1>2. TypeOK'
    BY <1>1 DEF IndInv, TypeOK, TasksTyped
<1> QED BY <1>1, <1>2 DEF IndInv

LEMMA MessageTaskOK == \A k : k.pc \in MessagePCs \cup {"edit", "ack", "edit_missing",
                                                    "ack_missing", "menu"} => TaskOK(k)
BY DEF MessagePCs, TaskOK, BeforeSave, AfterSave

LEMMA FirstCounts == TypeOK => 0 \in 0 .. MaxRetries - 1 /\ updates + 1 \in Nat
BY DialogAssumption DEF TypeOK

LEMMA FirstAwaits == /\ "run" \in PCs /\ "load_fields" \in PCs /\ "load_template" \in PCs
                     /\ "edit" \in PCs /\ "ack" \in PCs
<1>1. DOMAIN AfterCall = {"edit", "edit_missing", "edit_done", "ack_done"}
    BY DEF AfterCall
<1> QED BY <1>1 DEF PCs, CallbackPCs

LEMMA ButtonHandlers == /\ "choose_template" \in Handlers
                        /\ "confirm_generate" \in Handlers /\ "edit_fields" \in Handlers
BY DEF Handlers

LEMMA NoFormTyped ==
    /\ NoForm \in Forms
    /\ \A tpl \in Templates : [NoForm EXCEPT !.tpl = tpl] \in Forms
<1>1. NoForm \in Forms
    BY NoDialogOK DEF NoDialog, Dialogs
<1> QED BY <1>1 DEF Forms

LEMMA DispatchTyped ==
    ASSUME TypeOK, NEW t \in Tasks, Dispatch(t)
    PROVE  /\ updates' = updates + 1 /\ updates' \in 0 .. MaxUpdates
           /\ UNCHANGED <<rows, fieldsOf, documents, delivered, crashes>>
           /\ registered' \subseteq Users /\ shown' \in [Users -> SUBSET Forms]
BY DialogAssumption DEF Dispatch, TypeOK, tables, chat

LEMMA OnMessageStep ==
    ASSUME IndInv, NEW t \in Tasks, OnMessage(t)
    PROVE  IndInv'
<1>1. TypeOK /\ fsm \in [Users -> Dialogs] /\ DialogsOK /\ Dispatch(t)
    BY DEF IndInv, TypeOK, OnMessage
<1>2. PICK user \in Users, text \in Texts \cup {NoText}, handler \in DialogHandlers :
          Body(t, NewTask(handler, "run", user, text, NoForm))
    BY DEF OnMessage
<1> DEFINE k == NewTask(handler, "run", user, text, NoForm)
<1>3. k \in TaskRecords /\ k.upd = updates + 1
    <2>1. handler \in Handlers
        BY DEF Handlers
    <2> QED BY <2>1, <1>1, FirstCounts, NoFormTyped, FirstAwaits, ButtonHandlers
           DEF NewTask, TaskRecords
<1> HIDE DEF k
<1>4. /\ fsm' \in [Users -> Dialogs] /\ DialogsOK'
      /\ \E n : /\ tasks' = [tasks EXCEPT ![t] = n]
                /\ \/ n = Idle
                   \/ n \in TaskRecords /\ n.pc \in MessagePCs /\ n.upd = k.upd
    BY <1>1, <1>2, <1>3, BodyStep DEF k
<1>5. PICK n : /\ tasks' = [tasks EXCEPT ![t] = n]
               /\ \/ n = Idle
                  \/ n \in TaskRecords /\ n.pc \in MessagePCs /\ n.upd = k.upd
    BY <1>4
<1>6. n = Idle \/ (n \in TaskRecords /\ TaskOK(n) /\ n.upd = updates + 1)
    BY <1>3, <1>5, MessageTaskOK
<1> QED BY <1>1, <1>4, <1>5, <1>6, DispatchTyped, QuietStep

LEMMA OnTemplateStep ==
    ASSUME IndInv, NEW t \in Tasks, OnTemplate(t)
    PROVE  IndInv'
<1>1. TypeOK /\ fsm' \in [Users -> Dialogs] /\ DialogsOK' /\ Dispatch(t)
    BY SameDialogsOK DEF IndInv, TypeOK, OnTemplate
<1>2. PICK n \in TaskRecords : Start(t, n) /\ TaskOK(n) /\ n.upd = updates + 1
    <2>1. PICK user \in Users :
             \/ \E tpl \in Templates :
                   Start(t, NewTask("choose_template", "load_fields", user, NoText,
                                    [NoForm EXCEPT !.tpl = tpl]))
             \/ Start(t, NewTask("choose_template", "ack", user, NoText, NoForm))
        BY DEF OnTemplate
    <2>2. ASSUME NEW tpl \in Templates
          PROVE  LET n == NewTask("choose_template", "load_fields", user, NoText,
                                  [NoForm EXCEPT !.tpl = tpl])
                 IN  n \in TaskRecords /\ TaskOK(n) /\ n.upd = updates + 1
        <3> DEFINE form == [NoForm EXCEPT !.tpl = tpl]
                   n == NewTask("choose_template", "load_fields", user, NoText, form)
        <3>1. form \in Forms
            BY NoFormTyped
        <3> HIDE DEF form
        <3>2. /\ n \in TaskRecords /\ n.upd = updates + 1
              /\ n.pc = "load_fields" /\ n.form = form
            BY <1>1, <3>1, FirstCounts, FirstAwaits, ButtonHandlers DEF NewTask, TaskRecords
        <3> HIDE DEF n
        <3>3. TaskOK(n)
            BY <3>2 DEF form, TaskOK, BeforeSave, AfterSave
        <3> QED BY <3>2, <3>3 DEF n, form
    <2>3. LET n == NewTask("choose_template", "ack", user, NoText, NoForm)
          IN  n \in TaskRecords /\ TaskOK(n) /\ n.upd = updates + 1
        BY <1>1, FirstCounts, NoFormTyped, MessageTaskOK, FirstAwaits, ButtonHandlers
           DEF NewTask, TaskRecords
    <2> QED BY <2>1, <2>2, <2>3
<1> QED BY <1>1, <1>2, DispatchTyped, QuietStep DEF Start

LEMMA OnConfirmStep ==
    ASSUME IndInv, NEW t \in Tasks, OnConfirm(t)
    PROVE  IndInv'
<1>1. /\ TypeOK /\ fsm \in [Users -> Dialogs] /\ DialogsOK /\ Dispatch(t)
      /\ fsm' \in [Users -> Dialogs] /\ DialogsOK'
    BY SameDialogsOK DEF IndInv, TypeOK, OnConfirm
<1>2. PICK user \in Users :
          /\ fsm[user].state = "confirming"
          /\ Start(t, NewTask("confirm_generate", "load_template", user, NoText, fsm[user].form))
    BY DEF OnConfirm
<1> DEFINE n == NewTask("confirm_generate", "load_template", user, NoText, fsm[user].form)
<1>3. fsm[user].form \in Forms /\ fsm[user].form \in CompleteForms
    BY <1>1, <1>2, ConfirmingIsComplete DEF DialogsOK, Dialogs
<1>4. n \in TaskRecords /\ TaskOK(n) /\ n.upd = updates + 1
    <2>1. /\ n \in TaskRecords /\ n.upd = updates + 1
          /\ n.pc = "load_template" /\ n.form = fsm[user].form
        BY <1>1, <1>3, FirstCounts, FirstAwaits, ButtonHandlers DEF NewTask, TaskRecords
    <2> HIDE DEF n
    <2> QED BY <2>1, <1>3 DEF TaskOK, BeforeSave, AfterSave
<1> QED BY <1>1, <1>2, <1>4, DispatchTyped, QuietStep DEF Start

LEMMA OnEditStep ==
    ASSUME IndInv, NEW t \in Tasks, OnEdit(t)
    PROVE  IndInv'
<1>1. TypeOK /\ fsm \in [Users -> Dialogs] /\ DialogsOK /\ Dispatch(t)
    BY DEF IndInv, TypeOK, OnEdit
<1>2. PICK user \in Users :
          /\ SetDialog(user, [state |-> "entering_fields", idx |-> 0,
                              form |-> [fsm[user].form EXCEPT !.values = NoValues]])
          /\ Start(t, NewTask("edit_fields", "edit", user, NoText, NoForm))
    BY DEF OnEdit
<1> DEFINE d == [state |-> "entering_fields", idx |-> 0,
                 form |-> [fsm[user].form EXCEPT !.values = NoValues]]
           n == NewTask("edit_fields", "edit", user, NoText, NoForm)
<1>3. d \in Dialogs /\ DialogOK(d)
    <2>1. fsm[user] \in Dialogs /\ DialogOK(fsm[user]) /\ fsm[user].form \in Forms
        BY <1>1 DEF DialogsOK, Dialogs
    <2>2. NoValues \in Values
        BY DEF NoValues, Values
    <2>3. [fsm[user].form EXCEPT !.values = NoValues] \in Forms
        BY <2>1, <2>2 DEF Forms
    <2>4. d \in Dialogs /\ Len(d.form.fields) \in Nat
        BY <2>1, <2>3 DEF Dialogs, DialogStates, Forms
    <2> QED BY <2>1, <2>4, SMTT(30) DEF DialogOK, FilledTo, Forms, NoValues
<1>4. n \in TaskRecords /\ TaskOK(n) /\ n.upd = updates + 1
    <2>1. n \in TaskRecords /\ n.pc = "edit" /\ n.upd = updates + 1
        BY <1>1, FirstCounts, NoFormTyped, FirstAwaits, ButtonHandlers
           DEF NewTask, TaskRecords
    <2> HIDE DEF n
    <2> QED BY <2>1, MessageTaskOK
<1> HIDE DEF d, n
<1>5. fsm' \in [Users -> Dialogs] /\ DialogsOK'
    BY <1>1, <1>2, <1>3, SetDialogOK DEF d
<1> QED BY <1>1, <1>2, <1>4, <1>5, DispatchTyped, QuietStep DEF Start, n

\* A task that is not idle is a record of its type, and stays one elsewhere.
LEMMA ActiveTask ==
    ASSUME TypeOK, NEW t \in Tasks, tasks[t].pc # "idle"
    PROVE  /\ tasks[t] \in TaskRecords /\ tasks[t] # Idle
           /\ tasks[t].user \in Users
           /\ \A pc \in PCs : /\ [tasks[t] EXCEPT !.pc = pc] \in TaskRecords
                              /\ [tasks[t] EXCEPT !.pc = pc].pc = pc
                              /\ [tasks[t] EXCEPT !.pc = pc].upd = tasks[t].upd
<1>1. tasks[t] \in TaskRecords
    BY DEF TypeOK, Idle
<1> QED BY <1>1 DEF TaskRecords, Idle

\* A state whose variables other than the tasks did not change.
LEMMA Unchanged ==
    ASSUME IndInv, UNCHANGED <<tables, fsm, chat, updates, crashes>>
    PROVE  /\ updates' = updates /\ updates' \in 0 .. MaxUpdates
           /\ UNCHANGED <<rows, fieldsOf, documents, delivered, crashes>>
           /\ registered' \subseteq Users /\ shown' \in [Users -> SUBSET Forms]
           /\ fsm' \in [Users -> Dialogs] /\ DialogsOK'
BY SameDialogsOK DEF IndInv, TypeOK, tables, chat

\* A task whose only effect is to end.
LEMMA FinishStep ==
    ASSUME IndInv, NEW t \in Tasks, Finish(t),
           UNCHANGED <<tables, fsm, chat, updates, crashes>>
    PROVE  IndInv'
BY Unchanged, QuietStep DEF Finish

LEMMA RegisterStep ==
    ASSUME IndInv, NEW t \in Tasks, Register(t)
    PROVE  IndInv'
<1> DEFINE n == [tasks[t] EXCEPT !.pc = "answer"]
<1>1. /\ TypeOK /\ tasks[t].pc = "register" /\ tasks' = [tasks EXCEPT ![t] = n]
      /\ UNCHANGED <<rows, fieldsOf, documents, delivered, crashes>> /\ updates' = updates
    BY DEF IndInv, Register, At, chat
<1>2. /\ n \in TaskRecords /\ TaskOK(n) /\ tasks[t] # Idle
      /\ n.upd = tasks[t].upd /\ n.pc \notin BeforeSave
    <2>1. "answer" \in PCs
        BY DEF PCs
    <2> QED BY <1>1, <2>1, ActiveTask, MessageTaskOK DEF MessagePCs, BeforeSave
<1>3. /\ registered' \subseteq Users /\ shown' \in [Users -> SUBSET Forms]
      /\ fsm' \in [Users -> Dialogs] /\ DialogsOK' /\ updates' \in 0 .. MaxUpdates
    BY <1>1, ActiveTask, SameDialogsOK DEF IndInv, TypeOK, Register, chat
<1> HIDE DEF n
<1> QED BY <1>1, <1>2, <1>3, QuietStep

LEMMA LoadFieldsStep ==
    ASSUME IndInv, NEW t \in Tasks, LoadFields(t)
    PROVE  IndInv'
<1> DEFINE k == tasks[t]
           fields == ByName(fieldsOf[k.form.tpl])
           d == [state |-> "entering_fields", idx |-> 0, form |-> [k.form EXCEPT !.fields = fields]]
           n == [tasks[t] EXCEPT !.pc = "edit"]
<1>1. /\ TypeOK /\ tasks[t].pc = "load_fields" /\ tasks' = [tasks EXCEPT ![t] = n]
      /\ UNCHANGED <<rows, fieldsOf, documents, delivered, crashes>> /\ updates' = updates
      /\ registered' = registered /\ shown' = shown
    BY DEF IndInv, LoadFields, At, chat, tables
<1>2. /\ n \in TaskRecords /\ TaskOK(n) /\ tasks[t] # Idle
      /\ n.upd = tasks[t].upd /\ n.pc \notin BeforeSave
    BY <1>1, FirstAwaits, ActiveTask, MessageTaskOK DEF BeforeSave
<1>3. PICK tpl \in Templates : k.form = [NoForm EXCEPT !.tpl = tpl]
    BY <1>1 DEF IndInv, TasksOK, TaskOK
<1>4. /\ fields \in Seq(Field)
      /\ \A i, j \in DOMAIN fields : fields[i].name = fields[j].name => fields[i] = fields[j]
    <2>1. k.form.tpl = tpl
        BY <1>3, NoFormTyped DEF Forms
    <2>2. fieldsOf[k.form.tpl] \in Seq(Field)
        BY <2>1, <1>1 DEF TypeOK
    <2> QED BY <2>2, ByNameProperties
<1> HIDE DEF fields
<1>5. DialogOK(d) /\ d \in Dialogs
    <2>1. /\ d.form \in Forms /\ d.form.tpl = tpl /\ d.form.fields = fields
          /\ d.form.values = NoValues
        BY <1>3, <1>4, NoFormTyped DEF Forms, NoForm
    <2>2. d.idx = 0 /\ d.state = "entering_fields" /\ Len(fields) \in Nat
        BY <1>4
    <2>3. d \in Dialogs
        BY <2>1 DEF Dialogs, DialogStates
    <2> QED BY <2>1, <2>2, <2>3, <1>4 DEF DialogOK, FilledTo, NoValues
<1>6. fsm' \in [Users -> Dialogs] /\ DialogsOK'
    <2>1. UNCHANGED fsm \/ SetDialog(k.user, d)
        BY DEF LoadFields, fields
    <2> HIDE DEF d
    <2>2. k.user \in Users
        BY <1>1, ActiveTask
    <2> QED BY <2>1, <2>2, <1>5, SetDialogOK, SameDialogsOK DEF IndInv, TypeOK
<1>7. /\ registered' \subseteq Users /\ shown' \in [Users -> SUBSET Forms]
      /\ updates' \in 0 .. MaxUpdates
    BY <1>1 DEF TypeOK
<1> HIDE DEF n
<1> QED BY <1>1, <1>2, <1>6, <1>7, QuietStep

\* A task that goes on with its form to an await that is not save_document, or
\* to save_document from before it.
LEMMA AtStep ==
    ASSUME IndInv, NEW t \in Tasks, NEW pc \in PCs,
           tasks[t].pc # "idle", At(t, tasks[t], pc),
           TaskOK([tasks[t] EXCEPT !.pc = pc]),
           pc \in BeforeSave => tasks[t].pc \in BeforeSave,
           UNCHANGED <<tables, fsm, chat, updates, crashes>>
    PROVE  IndInv'
<1> DEFINE n == [tasks[t] EXCEPT !.pc = pc]
<1>1. /\ n \in TaskRecords /\ n.pc = pc /\ n.upd = tasks[t].upd /\ tasks[t] # Idle
    BY ActiveTask DEF IndInv
<1>2. tasks' = [tasks EXCEPT ![t] = n]
    BY DEF At
<1> HIDE DEF n
<1>3. TaskOK(n)
    BY DEF n
<1> QED BY <1>1, <1>2, <1>3, Unchanged, QuietStep

LEMMA LoadTemplateStep ==
    ASSUME IndInv, NEW t \in Tasks, LoadTemplate(t)
    PROVE  IndInv'
<1> DEFINE pc == IF tasks[t].form.tpl \in rows THEN "save" ELSE "edit_missing"
           n == [tasks[t] EXCEPT !.pc = pc]
<1>1. /\ tasks[t].pc = "load_template" /\ tasks[t] \in TaskRecords
      /\ At(t, tasks[t], pc)
      /\ UNCHANGED <<tables, fsm, chat, updates, crashes>>
    BY ActiveTask DEF IndInv, LoadTemplate
<1>2. pc \in PCs
    <2>1. DOMAIN AfterCall = {"edit", "edit_missing", "edit_done", "ack_done"}
        BY DEF AfterCall
    <2> QED BY <2>1 DEF PCs, CallbackPCs
<1>3. n.pc = pc /\ n.form = tasks[t].form
    BY <1>1 DEF TaskRecords
<1>4. tasks[t].form \in CompleteForms
    BY <1>1 DEF IndInv, TasksOK, TaskOK, BeforeSave
<1>5. TaskOK(n)
    <2> HIDE DEF n
    <2> QED BY <1>3, <1>4 DEF TaskOK, BeforeSave, AfterSave
<1> QED BY <1>1, <1>2, <1>5, AtStep DEF BeforeSave

LEMMA CallDoneStep ==
    ASSUME IndInv, NEW t \in Tasks, CallDone(t)
    PROVE  IndInv'
<1> DEFINE pc == AfterCall[tasks[t].pc]
           n == [tasks[t] EXCEPT !.pc = pc]
<1>1. DOMAIN AfterCall = {"edit", "edit_missing", "edit_done", "ack_done"}
    BY DEF AfterCall
<1>2. /\ tasks[t].pc \in {"edit", "edit_missing", "edit_done", "ack_done"}
      /\ At(t, tasks[t], pc)
      /\ UNCHANGED <<tables, fsm, chat, updates, crashes>>
    BY <1>1 DEF CallDone
<1>3. /\ pc \in {"ack", "ack_missing", "ack_done", "deliver"} /\ pc \in PCs
      /\ pc \in AfterSave => tasks[t].pc \in AfterSave
    BY <1>1, <1>2 DEF AfterCall, PCs, CallbackPCs, AfterSave
<1>4. /\ tasks[t] \in TaskRecords /\ tasks[t].pc # "idle"
      /\ TaskOK(tasks[t])
    BY <1>2, ActiveTask DEF IndInv, TasksOK
<1>5. /\ n.pc = pc /\ n.form = tasks[t].form /\ n.doc = tasks[t].doc
      /\ n.user = tasks[t].user /\ n.upd = tasks[t].upd
    BY <1>4 DEF TaskRecords
<1>6. TaskOK(n) /\ pc \notin BeforeSave
    <2> HIDE DEF n, pc
    <2>1. pc \notin BeforeSave /\ pc # "load_fields"
        BY <1>3 DEF BeforeSave
    <2> QED BY <1>3, <1>4, <1>5, <2>1 DEF TaskOK
<1> HIDE DEF pc
<1> QED BY <1>2, <1>3, <1>4, <1>6, AtStep

LEMMA ClosedStep ==
    ASSUME IndInv, NEW t \in Tasks, Closed(t)
    PROVE  IndInv'
<1>1. /\ TypeOK /\ tasks[t].user \in Users
      /\ SetDialog(tasks[t].user, NoDialog)
      /\ tasks' = [tasks EXCEPT ![t] = Idle]
      /\ UNCHANGED <<tables, chat, updates, crashes>>
    BY ActiveTask DEF IndInv, Closed, Finish
<1>2. fsm' \in [Users -> Dialogs] /\ DialogsOK'
    BY <1>1, NoDialogOK, SetDialogOK DEF IndInv, TypeOK
<1>3. /\ updates' = updates /\ updates' \in 0 .. MaxUpdates
      /\ UNCHANGED <<rows, fieldsOf, documents, delivered, crashes>>
      /\ registered' \subseteq Users /\ shown' \in [Users -> SUBSET Forms]
    BY <1>1 DEF TypeOK, tables, chat
<1> QED BY <1>1, <1>2, <1>3, QuietStep

\* A summary that arrives is of a form.
LEMMA ShowTyped ==
    ASSUME TypeOK, NEW t \in Tasks, tasks[t].pc # "idle",
           Show(tasks[t]) \/ UNCHANGED chat,
           UNCHANGED <<tables, fsm, updates, crashes>>, DialogsOK
    PROVE  /\ updates' = updates /\ updates' \in 0 .. MaxUpdates
           /\ UNCHANGED <<rows, fieldsOf, documents, delivered, crashes>>
           /\ registered' \subseteq Users /\ shown' \in [Users -> SUBSET Forms]
           /\ fsm' \in [Users -> Dialogs] /\ DialogsOK'
<1>1. tasks[t].user \in Users /\ tasks[t].form \in Forms
    BY ActiveTask DEF TaskRecords
<1>2. shown' \in [Users -> SUBSET Forms] /\ delivered' = delivered
    BY <1>1 DEF TypeOK, Show, chat
<1> QED BY <1>2, SameDialogsOK DEF TypeOK, tables

LEMMA AnswerSentStep ==
    ASSUME IndInv, NEW t \in Tasks, AnswerSent(t)
    PROVE  IndInv'
<1>1. /\ TypeOK /\ DialogsOK /\ tasks[t].pc # "idle"
      /\ Show(tasks[t]) \/ UNCHANGED chat
      /\ UNCHANGED <<tables, fsm, updates, crashes>>
      /\ tasks' = [tasks EXCEPT ![t] = Idle]
    BY DEF IndInv, AnswerSent, Finish
<1> QED BY <1>1, ShowTyped, QuietStep

LEMMA AnswerFailsStep ==
    ASSUME IndInv, NEW t \in Tasks, AnswerFails(t)
    PROVE  IndInv'
<1> DEFINE k == tasks[t]
           n == [k EXCEPT !.pc = "run", !.tries = Attempts(k)]
<1>1. /\ TypeOK /\ DialogsOK /\ tasks[t].pc # "idle"
      /\ Show(tasks[t]) \/ UNCHANGED chat
      /\ UNCHANGED <<tables, fsm, updates, crashes>>
    BY DEF IndInv, AnswerFails
<1>2. CASE GivesUp(k)
    BY <1>1, <1>2, ShowTyped, QuietStep DEF AnswerFails, Finish
<1>3. CASE ~ GivesUp(k)
    <2>1. tasks' = [tasks EXCEPT ![t] = n]
        BY <1>3 DEF AnswerFails, Start
    <2>2. k \in TaskRecords /\ k # Idle
        BY <1>1, ActiveTask
    <2>3. Attempts(k) \in 0 .. MaxRetries - 1
        BY <1>3, <2>2, DialogAssumption DEF GivesUp, Attempts, TaskRecords
    <2>4. n \in TaskRecords /\ n.pc = "run" /\ n.upd = k.upd
        BY <2>2, <2>3, FirstAwaits DEF TaskRecords
    <2> HIDE DEF n
    <2>5. TaskOK(n) /\ n.pc \notin BeforeSave
        BY <2>4, MessageTaskOK DEF MessagePCs, BeforeSave
    <2> QED BY <1>1, <2>1, <2>2, <2>4, <2>5, ShowTyped, QuietStep
<1> QED BY <1>2, <1>3

LEMMA RetryStep ==
    ASSUME IndInv, NEW t \in Tasks, Retry(t)
    PROVE  IndInv'
<1>1. /\ TypeOK /\ fsm \in [Users -> Dialogs] /\ DialogsOK
      /\ tasks[t] \in TaskRecords /\ tasks[t] # Idle
      /\ Body(t, tasks[t])
      /\ UNCHANGED <<tables, chat, updates, crashes>>
    BY ActiveTask DEF IndInv, TypeOK, Retry
<1>2. /\ updates' = updates /\ updates' \in 0 .. MaxUpdates
      /\ UNCHANGED <<rows, fieldsOf, documents, delivered, crashes>>
      /\ registered' \subseteq Users /\ shown' \in [Users -> SUBSET Forms]
    BY <1>1 DEF TypeOK, tables, chat
<1>3. /\ fsm' \in [Users -> Dialogs] /\ DialogsOK'
      /\ \E n : /\ tasks' = [tasks EXCEPT ![t] = n]
                /\ \/ n = Idle
                   \/ n \in TaskRecords /\ n.pc \in MessagePCs /\ n.upd = tasks[t].upd
    BY <1>1, BodyStep
<1>4. PICK n : /\ tasks' = [tasks EXCEPT ![t] = n]
               /\ \/ n = Idle
                  \/ n \in TaskRecords /\ n.pc \in MessagePCs /\ n.upd = tasks[t].upd
    BY <1>3
<1>5. n = Idle \/ (n \in TaskRecords /\ TaskOK(n) /\ n.pc \notin BeforeSave)
    BY <1>4, MessageTaskOK DEF MessagePCs, BeforeSave
<1> QED BY <1>1, <1>2, <1>3, <1>4, <1>5, QuietStep

\* A step that starts no task and keeps every task's update.
LEMMA UpdatesKept ==
    ASSUME UpdatesOK, updates' = updates,
           \A o \in Tasks :
              tasks'[o] # Idle => tasks[o] # Idle /\ tasks'[o].upd = tasks[o].upd
    PROVE  /\ \A o \in Tasks : tasks'[o] # Idle => tasks'[o].upd <= updates'
           /\ \A o, p \in Tasks :
                tasks'[o] # Idle /\ tasks'[p] # Idle /\ tasks'[o].upd = tasks'[p].upd => o = p
<1> USE DEF UpdatesOK
<1>1. ASSUME NEW o \in Tasks, tasks'[o] # Idle PROVE tasks'[o].upd <= updates'
    <2>1. tasks[o] # Idle /\ tasks'[o].upd = tasks[o].upd
        BY <1>1
    <2>2. tasks[o].upd <= updates
        BY <2>1
    <2> QED BY <2>1, <2>2
<1>2. ASSUME NEW o \in Tasks, NEW p \in Tasks,
             tasks'[o] # Idle, tasks'[p] # Idle, tasks'[o].upd = tasks'[p].upd
      PROVE  o = p
    <2>1. tasks[o] # Idle /\ tasks[p] # Idle /\ tasks[o].upd = tasks[p].upd
        BY <1>2
    <2> QED BY <2>1
<1> QED BY <1>1, <1>2

\* Recording: the new row is the task's alone.
LEMMA SaveDocumentStep ==
    ASSUME IndInv, NEW t \in Tasks, SaveDocument(t)
    PROVE  IndInv'
<1> DEFINE k == tasks[t]
           row == [user |-> k.user, form |-> k.form, upd |-> k.upd]
           doc == Len(documents) + 1
           n == [k EXCEPT !.pc = "edit_done", !.doc = doc]
<1>1. /\ TypeOK /\ DialogsOK /\ TasksOK /\ UpdatesOK /\ Safety
      /\ k.pc = "save" /\ k \in TaskRecords /\ k # Idle
      /\ documents' = Append(documents, row)
      /\ tasks' = [tasks EXCEPT ![t] = n]
      /\ UNCHANGED <<rows, fieldsOf, registered, fsm, shown, delivered, updates, crashes>>
    BY ActiveTask DEF IndInv, SaveDocument, Start, chat
<1>2. /\ documents \in Seq(Rows) /\ row \in Rows /\ doc \in Nat /\ Len(documents) \in Nat
      /\ k.upd \in Nat /\ k.form \in CompleteForms
    BY <1>1 DEF TypeOK, Rows, TaskRecords, TasksOK, TaskOK, BeforeSave
<1> HIDE DEF row
<1>3. /\ documents' \in Seq(Rows) /\ DOMAIN documents' = 1 .. doc
      /\ DOMAIN documents = 1 .. Len(documents)
      /\ documents'[doc] = row
      /\ \A i \in DOMAIN documents : documents'[i] = documents[i]
    BY <1>1, <1>2
<1>4. /\ row.user = k.user /\ row.form = k.form /\ row.upd = k.upd
    BY DEF row
<1>5. /\ n \in TaskRecords /\ n.pc = "edit_done" /\ n.doc = doc /\ n.upd = k.upd
      /\ n.user = k.user /\ n.form = k.form
    <2>1. "edit_done" \in DOMAIN AfterCall
        BY DEF AfterCall
    <2>2. "edit_done" \in PCs
        BY <2>1 DEF PCs, CallbackPCs
    <2> QED BY <1>1, <1>2, <2>2 DEF TaskRecords
<1> HIDE DEF n, doc
<1>6. /\ tasks \in [Tasks -> TaskRecords \cup {Idle}]
      /\ tasks'[t] = n /\ \A o \in Tasks : o # t => tasks'[o] = tasks[o]
      /\ tasks' \in [Tasks -> TaskRecords \cup {Idle}]
    BY <1>1, <1>5 DEF TypeOK
<1>7. TypeOK'
    BY <1>1, <1>3, <1>6 DEF TypeOK
<1>8. DialogsOK'
    BY <1>1 DEF DialogsOK
<1>9. TasksOK'
    <2>1. TaskOK(tasks[t])'
        <3>1. \A i \in DOMAIN delivered : delivered[i].doc # doc
            BY <1>1, <1>3 DEF doc, Safety, DeliveredIsRecorded
        <3>2. documents'[n.doc] = [user |-> n.user, form |-> n.form, upd |-> n.upd]
            BY <1>3, <1>5 DEF row
        <3>3. n.doc \in DOMAIN documents' /\ delivered' = delivered
            BY <1>1, <1>2, <1>3, <1>5 DEF doc
        <3> QED BY <1>5, <1>6, <3>1, <3>2, <3>3 DEF TaskOK, BeforeSave, AfterSave
    <2>2. ASSUME NEW o \in Tasks, o # t PROVE TaskOK(tasks[o])'
        <3>1. TaskOK(tasks[o])
            BY <1>1 DEF TasksOK
        <3>2. tasks[o].doc \in DOMAIN documents =>
                 /\ tasks[o].doc \in DOMAIN documents'
                 /\ documents'[tasks[o].doc] = documents[tasks[o].doc]
            BY <1>2, <1>3 DEF doc
        <3>3. tasks'[o] = tasks[o] /\ delivered' = delivered
            BY <2>2, <1>1, <1>6
        <3> QED BY <3>1, <3>2, <3>3 DEF TaskOK
    <2> QED BY <2>1, <2>2, <1>6 DEF TasksOK
<1>10. UpdatesOK'
    <2>1. \A o \in Tasks :
             /\ tasks'[o] # Idle => tasks[o] # Idle /\ tasks'[o].upd = tasks[o].upd
             /\ tasks'[o].pc \in BeforeSave => o # t /\ tasks[o].pc \in BeforeSave
        BY <1>1, <1>5, <1>6 DEF BeforeSave
    <2>2. k.upd <= updates /\ updates' = updates
        BY <1>1 DEF UpdatesOK
    <2>3. ASSUME NEW o \in Tasks, NEW i \in DOMAIN documents', tasks'[o].pc \in BeforeSave
          PROVE  documents'[i].upd # tasks'[o].upd
        <3>1. o # t /\ tasks[o].pc \in BeforeSave /\ tasks'[o] = tasks[o]
            BY <2>1, <2>3, <1>6
        <3>4. tasks[o] # Idle
            BY <3>1 DEF Idle, BeforeSave
        <3>2. CASE i \in DOMAIN documents
            BY <3>1, <3>2, <1>1, <1>3 DEF UpdatesOK
        <3>3. CASE i = doc
            BY <3>1, <3>4, <3>3, <1>1, <1>3, <1>4 DEF UpdatesOK
        <3> QED BY <3>2, <3>3, <1>2, <1>3 DEF doc
    <2>4. \A i \in DOMAIN documents' : documents'[i].upd <= updates'
        BY <2>2, <1>1, <1>2, <1>3, <1>4 DEF UpdatesOK, doc
    <2> QED BY <2>1, <2>2, <2>3, <2>4, <1>1, UpdatesKept DEF UpdatesOK
<1>11. Safety'
    <2>1. \A i \in DOMAIN documents : documents[i].upd # k.upd
        BY <1>1 DEF UpdatesOK, BeforeSave
    <2>2. RecordedIsComplete'
        BY <1>1, <1>2, <1>3, <1>4 DEF Safety, RecordedIsComplete, doc
    <2>3. DeliveredIsRecorded'
        BY <1>1, <1>2, <1>3 DEF Safety, DeliveredIsRecorded, doc
    <2>4. OneDocumentPerPress'
        <3>1. ASSUME NEW i \in DOMAIN documents', NEW j \in DOMAIN documents',
                     documents'[i].upd = documents'[j].upd
              PROVE  i = j
            <4>1. CASE i \in DOMAIN documents /\ j \in DOMAIN documents
                BY <4>1, <3>1, <1>1, <1>3 DEF Safety, OneDocumentPerPress
            <4>2. CASE i \in DOMAIN documents /\ j = doc
                BY <4>2, <3>1, <2>1, <1>3, <1>4
            <4>3. CASE i = doc /\ j \in DOMAIN documents
                BY <4>3, <3>1, <2>1, <1>3, <1>4
            <4> QED BY <4>1, <4>2, <4>3, <1>2, <1>3 DEF doc
        <3> QED BY <3>1, <1>1 DEF Safety, OneDocumentPerPress
    <2> QED BY <2>2, <2>3, <2>4 DEF Safety
<1> QED BY <1>7, <1>8, <1>9, <1>10, <1>11 DEF IndInv

\* Sending: no other task is about to send the same row.
LEMMA DeliverStep ==
    ASSUME IndInv, NEW t \in Tasks, Deliver(t)
    PROVE  IndInv'
<1> DEFINE k == tasks[t]
           file == [doc |-> k.doc, user |-> k.user, form |-> k.form]
           menu == [k EXCEPT !.pc = "menu"]
           last == Len(delivered) + 1
<1>1. /\ TypeOK /\ DialogsOK /\ TasksOK /\ UpdatesOK /\ Safety
      /\ k.pc = "deliver" /\ k \in TaskRecords /\ k # Idle
      /\ delivered' = Append(delivered, file)
      /\ UNCHANGED <<rows, fieldsOf, registered, documents, fsm, shown, updates, crashes>>
    BY ActiveTask DEF IndInv, Deliver, Receive, tables
<1>2. PICK n : /\ tasks' = [tasks EXCEPT ![t] = n]
               /\ n = Idle \/ n = menu
    BY DEF Deliver, At, Finish
<1>3. menu \in TaskRecords /\ menu.pc = "menu" /\ menu.upd = k.upd
    BY <1>1, ActiveTask DEF PCs, CallbackPCs
<1> HIDE DEF menu
<1>4. /\ k.doc \in DOMAIN documents
      /\ documents[k.doc] = [user |-> k.user, form |-> k.form, upd |-> k.upd]
      /\ \A i \in DOMAIN delivered : delivered[i].doc # k.doc
    BY <1>1 DEF TasksOK, TaskOK, AfterSave
<1>5. /\ delivered \in Seq(Files) /\ file \in Files /\ Len(delivered) \in Nat
    BY <1>1 DEF TypeOK, Files, TaskRecords
<1> HIDE DEF file
<1>6. /\ delivered' \in Seq(Files) /\ DOMAIN delivered' = 1 .. last
      /\ DOMAIN delivered = 1 .. Len(delivered)
      /\ delivered'[last] = file
      /\ \A i \in DOMAIN delivered : delivered'[i] = delivered[i]
    BY <1>1, <1>5
<1>7. file.doc = k.doc /\ file.user = k.user /\ file.form = k.form
    BY DEF file
<1>8. \A i \in DOMAIN delivered' : i \in DOMAIN delivered \/ i = last
    BY <1>5, <1>6
<1> HIDE DEF last
<1>9. /\ tasks \in [Tasks -> TaskRecords \cup {Idle}]
      /\ tasks'[t] = n /\ \A o \in Tasks : o # t => tasks'[o] = tasks[o]
      /\ tasks' \in [Tasks -> TaskRecords \cup {Idle}]
    BY <1>1, <1>2, <1>3 DEF TypeOK
<1>10. TypeOK'
    BY <1>1, <1>6, <1>9 DEF TypeOK
<1>11. DialogsOK'
    BY <1>1 DEF DialogsOK
<1>12. TasksOK'
    <2>1. TaskOK(n)'
        BY <1>2, <1>3 DEF TaskOK, Idle, BeforeSave, AfterSave
    <2>2. ASSUME NEW o \in Tasks, o # t PROVE TaskOK(tasks[o])'
        <3>1. TaskOK(tasks[o])
            BY <1>1 DEF TasksOK
        <3>2. CASE tasks[o].pc \notin AfterSave
            BY <3>1, <3>2, <2>2, <1>9 DEF TaskOK
        <3>3. CASE tasks[o].pc \in AfterSave
            <4>1. tasks[o] # Idle
                BY <3>3 DEF Idle, AfterSave
            <4>2. tasks[o].doc \in DOMAIN documents /\ documents[tasks[o].doc].upd = tasks[o].upd
                BY <3>1, <3>3 DEF TaskOK
            <4>3. tasks[o].doc # k.doc
                BY <4>1, <4>2, <2>2, <1>1, <1>4 DEF UpdatesOK
            <4>4. \A i \in DOMAIN delivered' : delivered'[i].doc # tasks[o].doc
                BY <4>3, <3>1, <3>3, <1>6, <1>7, <1>8 DEF TaskOK
            <4>5. tasks'[o] = tasks[o] /\ documents' = documents
                BY <2>2, <1>1, <1>9
            <4> QED BY <3>1, <3>3, <4>4, <4>5 DEF TaskOK
        <3> QED BY <3>2, <3>3
    <2> QED BY <2>1, <2>2, <1>9 DEF TasksOK
<1>13. UpdatesOK'
    <2>1. \A o \in Tasks :
             /\ tasks'[o] # Idle => tasks[o] # Idle /\ tasks'[o].upd = tasks[o].upd
             /\ tasks'[o].pc \in BeforeSave => tasks'[o] = tasks[o]
        BY <1>1, <1>2, <1>3, <1>9 DEF Idle, BeforeSave
    <2>2. \A o \in Tasks, i \in DOMAIN documents :
             tasks'[o].pc \in BeforeSave => documents[i].upd # tasks'[o].upd
        BY <2>1, <1>1 DEF UpdatesOK
    <2> QED BY <2>1, <2>2, <1>1, UpdatesKept DEF UpdatesOK
<1>14. Safety'
    <2>1. RecordedIsComplete'
        BY <1>1 DEF Safety, RecordedIsComplete
    <2>2. DeliveredIsRecorded'
        BY <1>1, <1>4, <1>6, <1>7, <1>8 DEF Safety, DeliveredIsRecorded
    <2>3. OneDocumentPerPress'
        BY <1>1, <1>4, <1>6, <1>7, <1>8 DEF Safety, OneDocumentPerPress
    <2> QED BY <2>1, <2>2, <2>3 DEF Safety
<1> QED BY <1>10, <1>11, <1>12, <1>13, <1>14 DEF IndInv

-----------------------------------------------------------------------------
(* The operator, the process, and the whole system *)

LEMMA ProvisionStep ==
    ASSUME IndInv, NEW tpl \in Templates,
           CreateTemplate(tpl) \/ \E field \in Field : AddTemplateField(tpl, field)
    PROVE  IndInv'
<1>1. /\ TypeOK
      /\ UNCHANGED <<registered, documents, fsm, chat, tasks, updates, crashes>>
    BY DEF IndInv, CreateTemplate, AddTemplateField
<1>2. rows' \subseteq Templates
    BY <1>1 DEF TypeOK, CreateTemplate, AddTemplateField
<1>3. fieldsOf' \in [Templates -> Seq(Field)]
    <2>1. CASE CreateTemplate(tpl)
        BY <2>1, <1>1 DEF CreateTemplate, TypeOK
    <2>2. CASE \E field \in Field : AddTemplateField(tpl, field)
        <3> DEFINE fields == fieldsOf[tpl]
        <3>1. PICK field \in Field, order \in 0 .. Len(fields) :
                 fieldsOf' = [fieldsOf EXCEPT
                     ![tpl] = SubSeq(fields, 1, order) \o <<field>>
                                \o SubSeq(fields, order + 1, Len(fields))]
            BY <2>2 DEF AddTemplateField
        <3>2. fields \in Seq(Field) /\ Len(fields) \in Nat
            BY <1>1 DEF TypeOK
        <3>3. /\ SubSeq(fields, 1, order) \in Seq(Field)
              /\ SubSeq(fields, order + 1, Len(fields)) \in Seq(Field)
            BY <3>2
        <3>4. SubSeq(fields, 1, order) \o <<field>>
                 \o SubSeq(fields, order + 1, Len(fields)) \in Seq(Field)
            BY <3>3
        <3> HIDE DEF fields
        <3> QED BY <3>1, <3>4, <1>1 DEF TypeOK
    <2> QED BY <2>1, <2>2
<1>4. TypeOK'
    BY <1>1, <1>2, <1>3 DEF TypeOK, chat
<1>5. DialogsOK' /\ TasksOK' /\ UpdatesOK' /\ Safety'
    BY <1>1 DEF IndInv, DialogsOK, TasksOK, TaskOK, UpdatesOK, Safety, chat,
                RecordedIsComplete, DeliveredIsRecorded, OneDocumentPerPress
<1> QED BY <1>4, <1>5 DEF IndInv

LEMMA CrashStep ==
    ASSUME IndInv, Crash
    PROVE  IndInv'
<1>1. /\ TypeOK
      /\ fsm' = [u \in Users |-> NoDialog] /\ tasks' = [t \in Tasks |-> Idle]
      /\ UNCHANGED <<rows, fieldsOf, registered, documents, shown, delivered, updates>>
      /\ crashes' \in 0 .. MaxCrashes
    BY DialogAssumption DEF IndInv, TypeOK, Crash, tables, chat
<1>2. TypeOK'
    BY <1>1, NoDialogOK DEF TypeOK
<1>3. DialogsOK'
    BY <1>1, NoDialogOK DEF DialogsOK
<1>4. TasksOK' /\ UpdatesOK'
    BY <1>1 DEF IndInv, TasksOK, TaskOK, UpdatesOK, Idle, BeforeSave, AfterSave
<1>5. Safety'
    BY <1>1 DEF IndInv, Safety, RecordedIsComplete, DeliveredIsRecorded, OneDocumentPerPress
<1> QED BY <1>2, <1>3, <1>4, <1>5 DEF IndInv

LEMMA StutterStep ==
    ASSUME IndInv, UNCHANGED vars
    PROVE  IndInv'
<1>1. UNCHANGED <<rows, fieldsOf, registered, documents, fsm, shown, delivered,
                  tasks, updates, crashes>>
    BY DEF vars, tables, chat
<1>2. TypeOK'
    BY <1>1 DEF IndInv, TypeOK
<1>3. DialogsOK'
    BY <1>1 DEF IndInv, DialogsOK
<1>4. TasksOK'
    BY <1>1 DEF IndInv, TasksOK, TaskOK
<1>5. UpdatesOK'
    BY <1>1 DEF IndInv, UpdatesOK
<1>6. Safety'
    BY <1>1 DEF IndInv, Safety, RecordedIsComplete, DeliveredIsRecorded, OneDocumentPerPress
<1> QED BY <1>2, <1>3, <1>4, <1>5, <1>6 DEF IndInv

LEMMA InitOK == Init => IndInv
<1> SUFFICES ASSUME Init PROVE IndInv
    OBVIOUS
<1>1. TypeOK
    BY DialogAssumption, NoDialogOK DEF Init, TypeOK
<1>2. DialogsOK
    BY NoDialogOK DEF Init, DialogsOK
<1>3. TasksOK /\ UpdatesOK
    BY DEF Init, TasksOK, TaskOK, UpdatesOK, Idle, BeforeSave, AfterSave
<1>4. Safety
    BY DEF Init, Safety, RecordedIsComplete, DeliveredIsRecorded, OneDocumentPerPress
<1> QED BY <1>1, <1>2, <1>3, <1>4 DEF IndInv

LEMMA NextOK == IndInv /\ [Next]_vars => IndInv'
<1> SUFFICES ASSUME IndInv, [Next]_vars PROVE IndInv'
    OBVIOUS
<1>1. ASSUME NEW t \in Tasks, NewUpdate(t) PROVE IndInv'
    BY <1>1, OnMessageStep, OnTemplateStep, OnConfirmStep, OnEditStep DEF NewUpdate
<1>2. ASSUME NEW t \in Tasks, Step(t) PROVE IndInv'
    <2>1. CASE Register(t)
        BY <2>1, RegisterStep
    <2>2. CASE LoadFields(t)
        BY <2>2, LoadFieldsStep
    <2>3. CASE LoadTemplate(t)
        BY <2>3, LoadTemplateStep
    <2>4. CASE SaveDocument(t)
        BY <2>4, SaveDocumentStep
    <2>5. CASE DbFails(t) \/ Acknowledged(t) \/ CallFails(t) \/ AnswerRefused(t)
        BY <2>5, FinishStep DEF DbFails, Acknowledged, CallFails, AnswerRefused
    <2>6. CASE CallDone(t)
        BY <2>6, CallDoneStep
    <2>7. CASE Closed(t)
        BY <2>7, ClosedStep
    <2>8. CASE Deliver(t)
        BY <2>8, DeliverStep
    <2>9. CASE AnswerSent(t)
        BY <2>9, AnswerSentStep
    <2>10. CASE AnswerFails(t)
        BY <2>10, AnswerFailsStep
    <2>11. CASE Retry(t)
        BY <2>11, RetryStep
    <2> QED BY <1>2, <2>1, <2>2, <2>3, <2>4, <2>5, <2>6, <2>7, <2>8, <2>9, <2>10, <2>11
            DEF Step
<1>3. CASE Provision
    BY <1>3, ProvisionStep DEF Provision
<1>4. CASE Crash
    BY <1>4, CrashStep
<1>5. CASE UNCHANGED vars
    BY <1>5, StutterStep
<1> QED BY <1>1, <1>2, <1>3, <1>4, <1>5 DEF Next


-----------------------------------------------------------------------------
(* The theorems *)

\* IndInv is an invariant: dialogs, tasks, tables and chats agree in every
\* reachable state, for any number of users, tasks, templates and retries.
THEOREM Invariance == Spec => []IndInv
<1>1. Init => IndInv
    BY InitOK
<1>2. IndInv /\ [Next]_vars => IndInv'
    BY NextOK
<1> QED BY <1>1, <1>2, PTL DEF Spec

\* Every variable keeps its type; in particular no retry goes past max_retries.
THEOREM TypeCorrect == Spec => []TypeOK
<1>1. IndInv => TypeOK
    BY DEF IndInv
<1> QED BY <1>1, Invariance, PTL

\* Index, fields and values of every dialog agree at every moment, with any
\* number of handlers of one user under way (docuflow/handlers.py).
THEOREM DialogsAgree == Spec => []DialogsOK
<1>1. IndInv => DialogsOK
    BY DEF IndInv
<1> QED BY <1>1, Invariance, PTL

\* save_document only ever gets a form that was filled in to its end.
THEOREM Complete == Spec => []RecordedIsComplete
<1>1. IndInv => RecordedIsComplete
    BY DEF IndInv, Safety
<1> QED BY <1>1, Invariance, PTL

\* A file that reached a chat is the row of its number, user and form.
THEOREM Recorded == Spec => []DeliveredIsRecorded
<1>1. IndInv => DeliveredIsRecorded
    BY DEF IndInv, Safety
<1> QED BY <1>1, Invariance, PTL

\* A press on the generate button makes at most one row and one file.
THEOREM OncePerPress == Spec => []OneDocumentPerPress
<1>1. IndInv => OneDocumentPerPress
    BY DEF IndInv, Safety
<1> QED BY <1>1, Invariance, PTL

-----------------------------------------------------------------------------
(* The refinement *)

\* save_document records a complete form of a user.
LEMMA SaveRecords ==
    ASSUME IndInv, NEW t \in Tasks, SaveDocument(t)
    PROVE  Promise!Record
<1> DEFINE k == tasks[t]
           new == [user |-> k.user, form |-> k.form, upd |-> k.upd]
<1>1. /\ k.pc = "save"
      /\ documents' = Append(documents, new)
      /\ UNCHANGED delivered
    BY DEF SaveDocument, chat
<1>2. k \in TaskRecords
    BY <1>1 DEF IndInv, TypeOK, Idle
<1>3. new \in Rows /\ documents \in Seq(Rows)
    BY <1>2 DEF IndInv, TypeOK, Rows, TaskRecords
<1>4. new.user \in Users /\ new.form \in CompleteForms
    BY <1>1, <1>3 DEF IndInv, TasksOK, TaskOK, BeforeSave, Rows
<1> HIDE DEF k, new
<1>5. documents' # <<>> /\ documents'[Len(documents')] = new
    BY <1>1, <1>3
<1> QED BY <1>1, <1>4, <1>5 DEF Promise!Record

\* answer_document hands out a row, unchanged, that nobody has received.
LEMMA DeliverHandsOut ==
    ASSUME IndInv, NEW t \in Tasks, Deliver(t)
    PROVE  \E doc \in DOMAIN documents : Promise!HandOut(doc)
<1> DEFINE k == tasks[t]
<1>1. /\ k.pc = "deliver"
      /\ delivered' = Append(delivered, [doc |-> k.doc, user |-> k.user, form |-> k.form])
      /\ UNCHANGED documents
    BY DEF Deliver, Receive, tables
<1>2. /\ k.doc \in DOMAIN documents
      /\ documents[k.doc] = [user |-> k.user, form |-> k.form, upd |-> k.upd]
      /\ \A i \in DOMAIN delivered : delivered[i].doc # k.doc
    BY <1>1 DEF IndInv, TasksOK, TaskOK, AfterSave
<1>3. documents[k.doc].user = k.user /\ documents[k.doc].form = k.form
    BY <1>2
<1> HIDE DEF k
<1>4. Promise!HandOut(k.doc)
    BY <1>1, <1>2, <1>3 DEF Promise!HandOut
<1> QED BY <1>2, <1>4

\* No other step of a handler changes a row or hands anything out.
LEMMA OthersAreSilent ==
    ASSUME [Next]_vars,
           ~ \E t \in Tasks : SaveDocument(t) \/ Deliver(t)
    PROVE  UNCHANGED <<documents, delivered>>
<1>1. CASE UNCHANGED vars
    BY <1>1 DEF vars, tables, chat
<1>2. CASE Provision \/ Crash
    BY <1>2 DEF Provision, CreateTemplate, AddTemplateField, Crash, tables, chat
<1>3. ASSUME NEW t \in Tasks, NewUpdate(t)
      PROVE  UNCHANGED <<documents, delivered>>
    BY <1>3 DEF NewUpdate, OnMessage, OnTemplate, OnConfirm, OnEdit, Dispatch, tables, chat
<1>4. ASSUME NEW t \in Tasks, Step(t)
      PROVE  UNCHANGED <<documents, delivered>>
    <2>1. CASE Register(t) \/ LoadFields(t) \/ LoadTemplate(t) \/ DbFails(t)
        BY <2>1 DEF Register, LoadFields, LoadTemplate, DbFails, tables, chat
    <2>2. CASE CallDone(t) \/ Acknowledged(t) \/ Closed(t) \/ CallFails(t)
        BY <2>2 DEF CallDone, Acknowledged, Closed, CallFails, tables, chat
    <2>3. CASE AnswerSent(t) \/ AnswerFails(t) \/ AnswerRefused(t) \/ Retry(t)
        BY <2>3 DEF AnswerSent, AnswerFails, AnswerRefused, Retry, Show, tables, chat
    <2> QED BY <1>4, <2>1, <2>2, <2>3 DEF Step
<1> QED BY <1>1, <1>2, <1>3, <1>4 DEF Next

\* The handlers implement Delivery: every step of theirs puts a complete
\* document on the shelf, hands out one that is there to its owner for the first
\* time, or is none of Delivery's, whatever fails and however tasks overlap.
THEOREM Implements == Spec => DeliveryPromise
<1>1. Init => Promise!Init
    BY DEF Init, Promise!Init
<1>2. IndInv /\ [Next]_vars => [Promise!Next]_(Promise!vars)
    <2> SUFFICES ASSUME IndInv, [Next]_vars
                 PROVE  Promise!Next \/ UNCHANGED <<documents, delivered>>
        BY DEF Promise!vars
    <2>1. CASE \E t \in Tasks : SaveDocument(t)
        BY <2>1, SaveRecords DEF Promise!Next
    <2>2. CASE \E t \in Tasks : Deliver(t)
        BY <2>2, DeliverHandsOut DEF Promise!Next
    <2> QED BY <2>1, <2>2, OthersAreSilent
<1> QED BY <1>1, <1>2, Invariance, PTL DEF Spec, DeliveryPromise, Promise!Spec

==============================================================================
