------------------------------- MODULE Dialog --------------------------------
(***************************************************************************)
(* The document dialog: docuflow/handlers.py and the calls it makes to     *)
(* docuflow/service.py, run by aiogram as concurrent tasks, under          *)
(* RetryMiddleware for messages and without it for button presses.         *)
(*                                                                         *)
(* A handler gives up control only where it awaits the database, Telegram  *)
(* or a sleep: the FSM storage is MemoryStorage, whose coroutines never    *)
(* suspend.  So the code between two such awaits is one action, and a task *)
(* is the event being handled, the await it is at (pc) and the locals it   *)
(* will still use.                                                         *)
(***************************************************************************)
EXTENDS Naturals, Sequences, Routing

CONSTANTS
    Users,          \* Telegram users, each in a private chat with the bot
    Tasks,          \* asyncio tasks: how many updates are handled at once
    Templates,      \* template ids
    NoTemplate,     \* the template of a dialog without one
    Names,          \* names of template fields
    Texts,          \* what users type, without the blank texts
    NoText,         \* a blank message, and a value that was not given
    KindsOf,        \* the kinds a message of this text, or of none, can have
    ShapesOf,       \* the field types other than text that the text is valid for
    InitialRows,    \* the templates provisioned before the bot starts
    InitialFields,  \* the fields of every template before the bot starts
    MaxRetries,     \* RetryMiddleware: max_retries
    MaxUpdates,     \* bound: updates users send
    MaxFields,      \* bound: fields the operator gives a template
    MaxCrashes      \* bound: restarts of the process

FieldTypes == {"text", "number", "date", "phone"}
Field == [name : Names, type : FieldTypes, required : BOOLEAN]
Values == [Names -> Texts \cup {NoText}]
Forms == [tpl : Templates \cup {NoTemplate}, fields : Seq(Field), values : Values]

ASSUME DialogAssumption ==
    /\ NoText \notin Texts
    /\ NoTemplate \notin Templates
    /\ KindsOf \in [Texts \cup {NoText} -> SUBSET MessageKinds]
    /\ ShapesOf \in [Texts -> SUBSET FieldTypes]
    /\ InitialRows \subseteq Templates
    /\ InitialFields \in [Templates -> Seq(Field)]
    /\ MaxRetries \in Nat \ {0}
    /\ MaxUpdates \in Nat /\ MaxFields \in Nat /\ MaxCrashes \in Nat

VARIABLES
    rows,        \* table templates: the ids it has
    fieldsOf,    \* table template_fields, by template, in field_order
    registered,  \* table users
    documents,   \* table documents, in the order of ids; upd: the update behind it
    fsm,         \* MemoryStorage: the dialog of every user
    shown,       \* the summaries, with their buttons, in every user's chat
    delivered,   \* the files sent to users, in that order: [doc, user, form]
    tasks,       \* what every asyncio task is doing
    updates,     \* how many updates have been dispatched
    crashes      \* how often the process was killed

tables == <<rows, fieldsOf, registered, documents>>
chat == <<shown, delivered>>
vars == <<tables, fsm, chat, tasks, updates, crashes>>

-----------------------------------------------------------------------------
(* Forms *)

NoValues == [n \in Names |-> NoText]
NoForm == [tpl |-> NoTemplate, fields |-> <<>>, values |-> NoValues]

\* state.clear(): no state, no data.  The handlers read missing data as no
\* fields, index 0 and no values.
NoDialog == [state |-> "none", idx |-> 0, form |-> NoForm]

\* Mutant: every field keeps attributes of its own.
ByPosition(fields) == fields

\* field_types and field_required are dicts keyed by the field's name, so that
\* of several fields with one name the last gives all of them its attributes.
LastNamed(fields, name) ==
    CHOOSE j \in DOMAIN fields :
        /\ fields[j].name = name
        /\ \A l \in DOMAIN fields : fields[l].name = name => l <= j

ByName(fields) == [i \in DOMAIN fields |-> fields[LastNamed(fields, fields[i].name)]]

validate_field_value(type, text) == type = "text" \/ type \in ShapesOf[text]

\* The fields of the form up to the n-th hold what they must.
FilledTo(form, n) ==
    \A i \in 1 .. n :
        LET f == form.fields[i]
            v == form.values[f.name]
        IN  /\ f.required => v # NoText
            /\ v # NoText => validate_field_value(f.type, v)

\* A value that no field of the form asked for.
Stray(form) ==
    {n \in Names : /\ form.values[n] # NoText
                   /\ \A i \in DOMAIN form.fields : form.fields[i].name # n}

CompleteForms ==
    {form \in Forms : /\ form.tpl \in Templates
                      /\ form.fields # <<>>
                      /\ FilledTo(form, Len(form.fields))
                      /\ Stray(form) = {}}

-----------------------------------------------------------------------------
(* Tasks *)

Idle == [pc |-> "idle"]

\* A task that starts to handle an update, at its first await.  The body of a
\* message handler that RetryMiddleware is about to call is at "run".
NewTask(handler, pc, user, text, form) ==
    [handler |-> handler, pc |-> pc, user |-> user, text |-> text, form |-> form,
     tries |-> 0, doc |-> 0, upd |-> updates + 1]

Start(t, k) == tasks' = [tasks EXCEPT ![t] = k]
At(t, k, pc) == tasks' = [tasks EXCEPT ![t] = [k EXCEPT !.pc = pc]]
Finish(t) == tasks' = [tasks EXCEPT ![t] = Idle]

SetDialog(user, dialog) == fsm' = [fsm EXCEPT ![user] = dialog]

\* An update arrives and a task that is free takes it.
Dispatch(t) == /\ tasks[t] = Idle
               /\ updates < MaxUpdates
               /\ updates' = updates + 1
               /\ UNCHANGED <<tables, chat, crashes>>

-----------------------------------------------------------------------------
(* Message handlers, from the start of the body to the first suspension.   *)
(* RetryMiddleware runs the body again, with the event of the first run.   *)

CmdStart(t, k) ==
    /\ k.handler = "cmd_start"
    /\ SetDialog(k.user, NoDialog)
    /\ At(t, k, "register")

\* Past the last field, or without a form: no answer.
EnterFieldIgnored(t, k) ==
    /\ fsm[k.user].idx >= Len(fsm[k.user].form.fields)
    /\ Finish(t)
    /\ UNCHANGED fsm

\* Mutant: a blank message passes for an answer to any field.
AcceptsBlank(f, text) == IF text = NoText THEN TRUE
                         ELSE validate_field_value(f.type, text)

\* The field the dialog is at is f, and the message has an acceptable value.
Accepts(f, text) == IF text = NoText THEN ~ f.required
                    ELSE validate_field_value(f.type, text)

\* FIELD_REQUIRED or field_invalid.
EnterFieldRejected(t, k) ==
    LET d == fsm[k.user] IN
    /\ d.idx < Len(d.form.fields)
    /\ ~ Accepts(d.form.fields[d.idx + 1], k.text)
    /\ At(t, k, "answer")
    /\ UNCHANGED fsm

Stored(form, name, text) ==
    IF text = NoText THEN form ELSE [form EXCEPT !.values[name] = text]

\* The value is kept and the next field asked for, or the summary sent.
EnterFieldStored(t, k) ==
    LET d == fsm[k.user]
        f == d.form.fields[d.idx + 1]
        form == Stored(d.form, f.name, k.text)
        last == d.idx + 1 = Len(d.form.fields)
    IN  /\ d.idx < Len(d.form.fields)
        /\ Accepts(f, k.text)
        /\ SetDialog(k.user, [state |-> IF last THEN "confirming" ELSE d.state,
                              idx |-> d.idx + 1, form |-> form])
        /\ Start(t, [k EXCEPT !.pc = IF last THEN "summary" ELSE "answer",
                              !.form = IF last THEN form ELSE NoForm])

EnterField(t, k) ==
    /\ k.handler = "enter_field"
    /\ \/ EnterFieldIgnored(t, k)
       \/ EnterFieldRejected(t, k)
       \/ EnterFieldStored(t, k)

\* The password is asked for; the data of the dialog stays.
CmdAdmin(t, k) ==
    /\ k.handler = "cmd_admin"
    /\ SetDialog(k.user, [fsm[k.user] EXCEPT !.state = "waiting_password"])
    /\ At(t, k, "answer")

\* Whatever the gate says of the password, the dialog is cleared.
CheckPassword(t, k) ==
    /\ k.handler = "check_password"
    /\ SetDialog(k.user, NoDialog)
    /\ At(t, k, "answer")

Body(t, k) == \/ CmdStart(t, k)
              \/ EnterField(t, k)
              \/ CmdAdmin(t, k)
              \/ CheckPassword(t, k)

\* The other message handlers leave the dialog alone.
DialogHandlers == {"cmd_start", "enter_field", "cmd_admin", "check_password"}

OnMessage(t) ==
    /\ Dispatch(t)
    /\ \E user \in Users, text \in Texts \cup {NoText}, handler \in DialogHandlers :
          /\ \E kind \in KindsOf[text] : Routes(handler, kind, fsm[user].state)
          /\ Body(t, NewTask(handler, "run", user, text, NoForm))

-----------------------------------------------------------------------------
(* Button presses.  Lists of templates stay in the chat, so that any       *)
(* template can be chosen at any time, one that is gone or never was       *)
(* included; a press on a summary may arrive long after it was made.       *)

OnTemplate(t) ==
    /\ Dispatch(t)
    /\ \E user \in Users :
          \/ \E tpl \in Templates :
                Start(t, NewTask("choose_template", "load_fields", user, NoText,
                                 [NoForm EXCEPT !.tpl = tpl]))
          \/ Start(t, NewTask("choose_template", "ack", user, NoText, NoForm))
    /\ UNCHANGED fsm

OnConfirm(t) ==
    /\ Dispatch(t)
    /\ \E user \in Users :
          /\ shown[user] # {}
          /\ fsm[user].state = "confirming"
          /\ Start(t, NewTask("confirm_generate", "load_template", user, NoText,
                              fsm[user].form))
    /\ UNCHANGED fsm

\* Mutant: the edit goes back to the first field and keeps the values.
OnEditKeepsValues(t) ==
    /\ Dispatch(t)
    /\ \E user \in Users :
          /\ shown[user] # {}
          /\ SetDialog(user, [fsm[user] EXCEPT !.state = "entering_fields", !.idx = 0])
          /\ Start(t, NewTask("edit_fields", "edit", user, NoText, NoForm))

OnEdit(t) ==
    /\ Dispatch(t)
    /\ \E user \in Users :
          /\ shown[user] # {}
          /\ SetDialog(user, [state |-> "entering_fields", idx |-> 0,
                              form |-> [fsm[user].form EXCEPT !.values = NoValues]])
          /\ Start(t, NewTask("edit_fields", "edit", user, NoText, NoForm))

-----------------------------------------------------------------------------
(* The database answers *)

Register(t) ==
    /\ tasks[t].pc = "register"
    /\ registered' = registered \cup {tasks[t].user}
    /\ At(t, tasks[t], "answer")
    /\ UNCHANGED <<rows, fieldsOf, documents, fsm, chat, updates, crashes>>

\* get_template_fields: an empty form is refused, any other replaces the dialog.
LoadFields(t) ==
    LET k == tasks[t]
        fields == ByName(fieldsOf[k.form.tpl])
    IN  /\ k.pc = "load_fields"
        /\ IF fields = <<>>
             THEN UNCHANGED fsm
             ELSE SetDialog(k.user, [state |-> "entering_fields", idx |-> 0,
                                     form |-> [k.form EXCEPT !.fields = fields]])
        /\ At(t, k, "edit")
        /\ UNCHANGED <<tables, chat, updates, crashes>>

\* get_template: without a row there is nothing to render.
LoadTemplate(t) ==
    /\ tasks[t].pc = "load_template"
    /\ At(t, tasks[t], IF tasks[t].form.tpl \in rows THEN "save" ELSE "edit_missing")
    /\ UNCHANGED <<tables, fsm, chat, updates, crashes>>

\* Mutant: the row gets the values the dialog has after the await.
SaveDialogOfNow(t) ==
    LET k == tasks[t] IN
    /\ k.pc = "save"
    /\ documents' = Append(documents, [user |-> k.user, form |-> fsm[k.user].form, upd |-> k.upd])
    /\ Start(t, [k EXCEPT !.pc = "edit_done", !.doc = Len(documents) + 1])
    /\ UNCHANGED <<rows, fieldsOf, registered, fsm, chat, updates, crashes>>

\* save_document, after the rendering, which never suspends.
SaveDocument(t) ==
    LET k == tasks[t] IN
    /\ k.pc = "save"
    /\ documents' = Append(documents, [user |-> k.user, form |-> k.form, upd |-> k.upd])
    /\ Start(t, [k EXCEPT !.pc = "edit_done", !.doc = Len(documents) + 1])
    /\ UNCHANGED <<rows, fieldsOf, registered, fsm, chat, updates, crashes>>

\* A database error is nothing RetryMiddleware repeats: the task ends.
DbFails(t) ==
    /\ tasks[t].pc \in {"register", "load_fields", "load_template", "save"}
    /\ Finish(t)
    /\ UNCHANGED <<tables, fsm, chat, updates, crashes>>

-----------------------------------------------------------------------------
(* Telegram answers a button handler: edit_text, callback.answer,          *)
(* answer_document, the menu.  An error ends the task, and a network error *)
(* leaves open whether the call took effect.                               *)

AfterCall == [edit |-> "ack", edit_missing |-> "ack_missing",
              edit_done |-> "ack_done", ack_done |-> "deliver"]

CallDone(t) ==
    /\ tasks[t].pc \in DOMAIN AfterCall
    /\ At(t, tasks[t], AfterCall[tasks[t].pc])
    /\ UNCHANGED <<tables, fsm, chat, updates, crashes>>

Acknowledged(t) ==
    /\ tasks[t].pc = "ack"
    /\ Finish(t)
    /\ UNCHANGED <<tables, fsm, chat, updates, crashes>>

\* The last call of confirm_generate: what it clears is the dialog of now.
Closed(t) ==
    /\ tasks[t].pc \in {"ack_missing", "menu"}
    /\ SetDialog(tasks[t].user, NoDialog)
    /\ Finish(t)
    /\ UNCHANGED <<tables, chat, updates, crashes>>

Receive(k) == /\ delivered' = Append(delivered,
                      [doc |-> k.doc, user |-> k.user, form |-> k.form])
              /\ UNCHANGED shown

\* Mutant: a file whose fate is unknown is sent again.
DeliverAgain(t) ==
    /\ tasks[t].pc = "deliver"
    /\ Receive(tasks[t])
    /\ At(t, tasks[t], "menu") \/ UNCHANGED tasks
    /\ UNCHANGED <<tables, fsm, updates, crashes>>

\* answer_document: the file arrives, and the task learns of it or not.
Deliver(t) ==
    /\ tasks[t].pc = "deliver"
    /\ Receive(tasks[t])
    /\ At(t, tasks[t], "menu") \/ Finish(t)
    /\ UNCHANGED <<tables, fsm, updates, crashes>>

CallbackPCs == DOMAIN AfterCall \cup {"ack", "ack_missing", "deliver", "menu"}

\* Mutant: a failed call has the whole generation run again.
CallRepeated(t) ==
    /\ tasks[t].pc \in CallbackPCs
    /\ IF tasks[t].handler = "confirm_generate"
         THEN At(t, tasks[t], "load_template")
         ELSE Finish(t)
    /\ UNCHANGED <<tables, fsm, chat, updates, crashes>>

CallFails(t) ==
    /\ tasks[t].pc \in CallbackPCs
    /\ Finish(t)
    /\ UNCHANGED <<tables, fsm, chat, updates, crashes>>

-----------------------------------------------------------------------------
(* Telegram answers a message handler *)

\* A summary that arrives brings its buttons.
Show(k) == /\ shown' = IF k.pc = "summary"
                         THEN [shown EXCEPT ![k.user] = @ \cup {k.form}]
                         ELSE shown
           /\ UNCHANGED delivered

AnswerSent(t) ==
    /\ tasks[t].pc \in {"answer", "summary"}
    /\ Show(tasks[t])
    /\ Finish(t)
    /\ UNCHANGED <<tables, fsm, updates, crashes>>

\* Mutants: the retries are not counted; there is one retry too many.
UncountedAttempt(k) == k.tries
GivesUpLate(k) == k.tries >= MaxRetries

Attempts(k) == k.tries + 1
GivesUp(k) == Attempts(k) >= MaxRetries

\* TelegramNetworkError or TelegramRetryAfter: wait and run the body again, or
\* give up at the last attempt.  The message may have arrived all the same.
AnswerFails(t) ==
    LET k == tasks[t] IN
    /\ k.pc \in {"answer", "summary"}
    /\ Show(k) \/ UNCHANGED chat
    /\ IF GivesUp(k)
         THEN Finish(t)
         ELSE Start(t, [k EXCEPT !.pc = "run", !.tries = Attempts(k)])
    /\ UNCHANGED <<tables, fsm, updates, crashes>>

\* Any other error of Telegram's is not repeated.
AnswerRefused(t) ==
    /\ tasks[t].pc \in {"answer", "summary"}
    /\ Finish(t)
    /\ UNCHANGED <<tables, fsm, chat, updates, crashes>>

\* The sleep is over: the whole body again, whatever the dialog is now.
Retry(t) ==
    /\ tasks[t].pc = "run"
    /\ Body(t, tasks[t])
    /\ UNCHANGED <<tables, chat, updates, crashes>>

-----------------------------------------------------------------------------
(* The operator and the process *)

CreateTemplate(tpl) ==
    /\ tpl \notin rows
    /\ rows' = rows \cup {tpl}
    /\ UNCHANGED <<fieldsOf, registered, documents, fsm, chat, tasks, updates, crashes>>

\* Foreign keys are not enforced: the template may have no row.
AddTemplateField(tpl, field) ==
    LET fields == fieldsOf[tpl] IN
    /\ Len(fields) < MaxFields
    /\ \E order \in 0 .. Len(fields) :
          fieldsOf' = [fieldsOf EXCEPT
              ![tpl] = SubSeq(fields, 1, order) \o <<field>>
                         \o SubSeq(fields, order + 1, Len(fields))]
    /\ UNCHANGED <<rows, registered, documents, fsm, chat, tasks, updates, crashes>>

\* The process is killed and started again: tables and chats stay, the
\* dialogs and the tasks were in memory.
Crash ==
    /\ crashes < MaxCrashes
    /\ crashes' = crashes + 1
    /\ fsm' = [u \in Users |-> NoDialog]
    /\ tasks' = [t \in Tasks |-> Idle]
    /\ UNCHANGED <<tables, chat, updates>>

-----------------------------------------------------------------------------
Init ==
    /\ rows = InitialRows
    /\ fieldsOf = InitialFields
    /\ registered = {}
    /\ documents = <<>>
    /\ fsm = [u \in Users |-> NoDialog]
    /\ shown = [u \in Users |-> {}]
    /\ delivered = <<>>
    /\ tasks = [t \in Tasks |-> Idle]
    /\ updates = 0
    /\ crashes = 0

NewUpdate(t) == OnMessage(t) \/ OnTemplate(t) \/ OnConfirm(t) \/ OnEdit(t)

\* What a task does once its update has been dispatched.
Step(t) == \/ Register(t) \/ LoadFields(t) \/ LoadTemplate(t) \/ SaveDocument(t)
           \/ DbFails(t)
           \/ CallDone(t) \/ Acknowledged(t) \/ Closed(t) \/ Deliver(t)
           \/ CallFails(t)
           \/ AnswerSent(t) \/ AnswerFails(t) \/ AnswerRefused(t) \/ Retry(t)

Provision == \E tpl \in Templates :
                 \/ CreateTemplate(tpl)
                 \/ \E field \in Field : AddTemplateField(tpl, field)

Next == \/ \E t \in Tasks : NewUpdate(t) \/ Step(t)
        \/ Provision
        \/ Crash

Spec == Init /\ [][Next]_vars

\* The event loop runs every ready task, and every database or Telegram call
\* returns or fails: aiogram and aiosqlite bound their waits.
FairSpec == Spec /\ \A t \in Tasks : WF_vars(Step(t))

-----------------------------------------------------------------------------
(* Types *)

PCs == {"register", "load_fields", "load_template", "save", "answer", "summary",
        "run"} \cup CallbackPCs

Handlers == DialogHandlers \cup {"choose_template", "confirm_generate", "edit_fields"}

TaskRecords ==
    [handler : Handlers,
     pc : PCs, user : Users, text : Texts \cup {NoText}, form : Forms,
     tries : 0 .. MaxRetries - 1, doc : Nat, upd : Nat]

Dialogs == [state : DialogStates, idx : Nat, form : Forms]
Rows == [user : Users, form : Forms, upd : Nat]
Files == [doc : Nat, user : Users, form : Forms]

\* The variables have their types.
TypeOK ==
    /\ rows \subseteq Templates
    /\ fieldsOf \in [Templates -> Seq(Field)]
    /\ registered \subseteq Users
    /\ documents \in Seq(Rows)
    /\ fsm \in [Users -> Dialogs]
    /\ shown \in [Users -> SUBSET Forms]
    /\ delivered \in Seq(Files)
    /\ tasks \in [Tasks -> TaskRecords \cup {Idle}]
    /\ updates \in 0 .. MaxUpdates
    /\ crashes \in 0 .. MaxCrashes

-----------------------------------------------------------------------------
(* Safety *)

\* Whatever restarts, retries and overlapping handlers did to the dialog on
\* the way, a document is only ever recorded from a complete form: fields[] was
\* walked to its end, every required field has a value, every value passed
\* validate_field_value for the type the form gives that field, and no value
\* of an earlier form came along (enter_field, choose_template, edit_fields).
RecordedIsComplete == \A i \in DOMAIN documents : documents[i].form \in CompleteForms

\* "A delivered document is never unrecorded" (README): what arrives in a chat
\* is the row of that number, of that user and of that form, even when the
\* task that sends it runs next to others (confirm_generate).
DeliveredIsRecorded ==
    \A i \in DOMAIN delivered :
        LET d == delivered[i]
        IN  /\ d.doc \in DOMAIN documents
            /\ documents[d.doc].user = d.user
            /\ documents[d.doc].form = d.form

\* One press on the generate button makes at most one document, and a document
\* is sent at most once: nothing repeats confirm_generate after a failure.
OneDocumentPerPress ==
    /\ \A i, j \in DOMAIN documents : documents[i].upd = documents[j].upd => i = j
    /\ \A i, j \in DOMAIN delivered : delivered[i].doc = delivered[j].doc => i = j

\* The dialog a user is in, at any moment: index, fields and values agree.  Of
\* this every handler relies on a part it does not check: enter_field that the
\* values before the index are good, confirm_generate that all are.
DialogOK(d) ==
    /\ d.idx <= Len(d.form.fields)
    /\ \A i, j \in DOMAIN d.form.fields :
          d.form.fields[i].name = d.form.fields[j].name => d.form.fields[i] = d.form.fields[j]
    /\ FilledTo(d.form, d.idx)
    /\ \A n \in Names :
          d.form.values[n] # NoText => \E i \in 1 .. d.idx : d.form.fields[i].name = n
    /\ d.form.fields # <<>> => d.form.tpl \in Templates
    /\ d.state = "confirming" => d.form.fields # <<>> /\ d.idx = Len(d.form.fields)

DialogsOK == \A u \in Users : DialogOK(fsm[u])

-----------------------------------------------------------------------------
(* The strengthening that makes the safety properties inductive *)

\* The await a generation is at, before and after save_document.
BeforeSave == {"load_template", "save"}
AfterSave == {"edit_done", "ack_done", "deliver"}

\* A generation holds a complete form from its first await to its last, and
\* once it has recorded it, its own row, which nobody has received yet.
TaskOK(k) ==
    /\ k.pc = "load_fields" => \E tpl \in Templates : k.form = [NoForm EXCEPT !.tpl = tpl]
    /\ k.pc \in BeforeSave => k.form \in CompleteForms
    /\ k.pc \in AfterSave =>
          /\ k.doc \in DOMAIN documents
          /\ documents[k.doc] = [user |-> k.user, form |-> k.form, upd |-> k.upd]
          /\ \A i \in DOMAIN delivered : delivered[i].doc # k.doc

TasksOK == \A t \in Tasks : TaskOK(tasks[t])

\* Updates are numbered: no two tasks work on one, and none of those that still
\* have to save is behind a document already.
UpdatesOK ==
    /\ \A t \in Tasks : tasks[t] # Idle => tasks[t].upd <= updates
    /\ \A i \in DOMAIN documents : documents[i].upd <= updates
    /\ \A t, o \in Tasks :
          tasks[t] # Idle /\ tasks[o] # Idle /\ tasks[t].upd = tasks[o].upd => t = o
    /\ \A t \in Tasks, i \in DOMAIN documents :
          tasks[t].pc \in BeforeSave => documents[i].upd # tasks[t].upd

Safety == RecordedIsComplete /\ DeliveredIsRecorded /\ OneDocumentPerPress
IndInv == TypeOK /\ DialogsOK /\ TasksOK /\ UpdatesOK /\ Safety

-----------------------------------------------------------------------------
(* The promise *)

Promise == INSTANCE Delivery WITH shelf <- documents, handedOut <- delivered

\* Every step of the handlers is a step of Delivery or none: nothing is handed
\* out before it is recorded, twice, changed, or to somebody else, and no row
\* is ever changed or lost, crashes included.
DeliveryPromise == Promise!Spec

-----------------------------------------------------------------------------
(* Liveness *)

\* Every handler comes to its end: RetryMiddleware gives up, and nothing waits
\* for another task.
EveryHandlerEnds == \A t \in Tasks : tasks[t] # Idle ~> tasks[t] = Idle
==============================================================================
