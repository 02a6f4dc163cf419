------------------------------- MODULE Catalog -------------------------------
(***************************************************************************)
(* What users are shown of the tables: the lists of categories and of      *)
(* templates, "my documents" and the statistics of docuflow/handlers.py    *)
(* and admin/handlers.py, with the queries of docuflow/service.py behind   *)
(* them, while templates and documents come and templates are retired.     *)
(*                                                                         *)
(* A task is a request being handled: it suspends at every query and every *)
(* call of Telegram's, and lists stay in the chat, to be pressed later.    *)
(***************************************************************************)
EXTENDS Naturals, FiniteSets, Sequences

CONSTANTS
    Users, Tasks,
    Templates,      \* template ids
    Categories,
    NoCategory,     \* the category with an empty name
    LongCategories, \* those whose buttons have more than 64 bytes of data
    NoRow,          \* the category of a template without a row
    InitialCategory,    \* the templates there are when the bot starts
    InitialDocuments,   \* the documents there are when it starts
    InitialUsers,       \* the users there are when it starts
    MaxRetries,     \* RetryMiddleware: max_retries
    QueryMax,       \* LIMIT of get_user_documents
    ListMax,        \* how many of them my_documents sends
    MaxChanges,     \* bound: changes of the tables, and seconds that pass
    MaxUpdates      \* bound: updates users send

Documents == [user : Users, created_at : Nat]

ASSUME CatalogAssumption ==
    /\ NoCategory \in Categories /\ LongCategories \subseteq Categories
    /\ NoRow \notin Categories
    /\ InitialCategory \in [Templates -> Categories \cup {NoRow}]
    /\ IsFiniteSet(Templates)
    /\ InitialDocuments \in Seq(Documents)
    /\ InitialUsers \subseteq Users /\ IsFiniteSet(InitialUsers)
    /\ MaxRetries \in Nat \ {0}
    /\ ListMax \in Nat \ {0} /\ QueryMax \in Nat /\ ListMax <= QueryMax

VARIABLES
    category,   \* table templates: the category of every row
    active,     \* the templates with is_active = 1
    documents,  \* table documents, in the order of ids
    registered, \* table users
    now,        \* the clock of the database, in seconds
    menus,      \* the lists of categories in the chats
    lists,      \* the lists of templates in the chats
    lines,      \* the lines of "my documents", in the order they were sent
    answered,   \* the requests for documents that were answered to the end
    figures,    \* the statistics administrators were shown
    tasks, updates,
    past        \* the counts of the tables, at the start and after every change

tables == <<category, active, documents, registered, now, past>>
chats == <<menus, lists, lines, answered, figures>>
vars == <<tables, chats, tasks, updates>>

Created == {tpl \in Templates : category[tpl] # NoRow}

\* What there is to count, for the history.
Counts == [templates |-> Cardinality(active), documents |-> Len(documents),
           users |-> Cardinality(registered)]

-----------------------------------------------------------------------------
(* Queries.  Each is one statement, and sees the tables of one moment.     *)

\* Mutant: the categories of retired templates are found too.
AllCategories == {category[tpl] : tpl \in Created}

get_categories == {category[tpl] : tpl \in active}

\* Mutants: retired templates are found, and counted, too.
AllTemplates(cat) == {tpl \in Created : cat = NoCategory \/ category[tpl] = cat}
CountAll == Cardinality(Created)

\* if category: an empty name asks for the templates of all categories.
get_active_templates(cat) ==
    {tpl \in active : cat = NoCategory \/ category[tpl] = cat}

get_template_count == Cardinality(active)
get_document_count == Len(documents)
get_user_count == Cardinality(registered)

Own(user) == {d \in DOMAIN documents : documents[d].user = user}

NotOlder(d, e) == documents[d].created_at >= documents[e].created_at

\* Mutant: those that are sent are the oldest of those that were found.
OldestOf(n, s) == IF Len(s) <= n THEN s ELSE SubSeq(s, Len(s) - n + 1, Len(s))

First(n, s) == IF Len(s) <= n THEN s ELSE SubSeq(s, 1, n)

\* The latest documents of docs, at most n: rows of one second in any order.
Latest(n, docs) ==
    LET m == IF Cardinality(docs) < n THEN Cardinality(docs) ELSE n
    IN  {s \in [1 .. m -> docs] :
            /\ \A i \in 1 .. m : \A j \in 1 .. i - 1 : s[j] # s[i] /\ NotOlder(s[j], s[i])
            /\ \A d \in docs : (\A i \in 1 .. m : d # s[i])
                             => \A i \in 1 .. m : NotOlder(s[i], d)}

\* ORDER BY created_at DESC LIMIT 20.  The join with templates loses nothing:
\* no row of templates is ever deleted.
get_user_documents(user) == Latest(QueryMax, Own(user))

-----------------------------------------------------------------------------
(* Tasks *)

Idle == [pc |-> "idle"]

\* A request, and what the tables were when it came: which templates were
\* active, which had been retired, how many documents there were, and how much
\* of the history there was.
Request(pc, user, cat) ==
    [pc |-> pc, user |-> user, category |-> cat, upd |-> updates + 1,
     active |-> active, retired |-> Created \ active, had |-> Len(documents),
     since |-> Len(past), found |-> {}, listing |-> <<>>, sent |-> 0,
     tpl_count |-> 0, doc_count |-> 0, user_count |-> 0, tries |-> 0]

Set(t, k) == tasks' = [tasks EXCEPT ![t] = k]
Finish(t) == Set(t, Idle)

Dispatch(t) == /\ tasks[t] = Idle
               /\ updates < MaxUpdates
               /\ updates' = updates + 1
               /\ UNCHANGED <<tables, chats>>

MessagePCs == {"categories", "documents", "count_templates"}

\* start_create, my_documents or admin_stats, up to the first query.
OnMessage(t) ==
    /\ Dispatch(t)
    /\ \E user \in Users, pc \in MessagePCs : Set(t, Request(pc, user, NoCategory))

\* A press on a category, in a list that may be long out of date: the data is
\* cut at the first colon, and the rest is the category as it was.
OnCategory(t) ==
    /\ Dispatch(t)
    /\ \E m \in menus : \E cat \in m.choices : Set(t, Request("templates", m.user, cat))

\* The database answers.
Categorise(t) ==
    /\ tasks[t].pc = "categories"
    /\ Set(t, [tasks[t] EXCEPT !.pc = "menu", !.found = get_categories])
    /\ UNCHANGED <<tables, chats, updates>>

FindTemplates(t) ==
    /\ tasks[t].pc = "templates"
    /\ Set(t, [tasks[t] EXCEPT !.pc = "edit",
                               !.found = get_active_templates(tasks[t].category)])
    /\ UNCHANGED <<tables, chats, updates>>

FindDocuments(t) ==
    /\ tasks[t].pc = "documents"
    /\ \E docs \in get_user_documents(tasks[t].user) :
          Set(t, [tasks[t] EXCEPT !.pc = "lines", !.sent = 0,
                                  !.listing = First(ListMax, docs)])
    /\ UNCHANGED <<tables, chats, updates>>

CountTemplates(t) ==
    /\ tasks[t].pc = "count_templates"
    /\ Set(t, [tasks[t] EXCEPT !.pc = "count_documents", !.tpl_count = get_template_count])
    /\ UNCHANGED <<tables, chats, updates>>

CountDocuments(t) ==
    /\ tasks[t].pc = "count_documents"
    /\ Set(t, [tasks[t] EXCEPT !.pc = "count_users", !.doc_count = get_document_count])
    /\ UNCHANGED <<tables, chats, updates>>

CountUsers(t) ==
    /\ tasks[t].pc = "count_users"
    /\ Set(t, [tasks[t] EXCEPT !.pc = "figures", !.user_count = get_user_count])
    /\ UNCHANGED <<tables, chats, updates>>

QueryPCs == MessagePCs \cup {"templates", "count_documents", "count_users"}

\* An error of the database is not repeated.
QueryFails(t) ==
    /\ tasks[t].pc \in QueryPCs
    /\ Finish(t)
    /\ UNCHANGED <<tables, chats, updates>>

-----------------------------------------------------------------------------
(* Telegram *)

\* Telegram takes no button without a text or with more than 64 bytes of data,
\* and no list with such a button.
Sendable(k) == k.pc = "menu" => k.found \cap (LongCategories \cup {NoCategory}) = {}

\* What the call of the task puts into the chat.  An empty list is a message
\* without buttons: NO_TEMPLATES, NO_TEMPLATES_IN_CATEGORY or NO_DOCUMENTS.
Post(k) ==
    /\ Sendable(k)
    /\ menus' = IF k.pc = "menu"
                  THEN menus \cup {[user |-> k.user, choices |-> k.found,
                                    retired |-> k.retired, stayed |-> k.active \cap active]}
                  ELSE menus
    /\ lists' = IF k.pc = "edit"
                  THEN lists \cup {[user |-> k.user, category |-> k.category,
                                    choices |-> k.found,
                                    retired |-> k.retired, stayed |-> k.active \cap active]}
                  ELSE lists
    /\ lines' = IF k.pc = "lines" /\ k.listing # <<>>
                  THEN Append(lines, [upd |-> k.upd, user |-> k.user,
                                      doc |-> k.listing[k.sent + 1]])
                  ELSE lines
    /\ figures' = IF k.pc = "figures"
                    THEN figures \cup {[templates |-> k.tpl_count, documents |-> k.doc_count,
                                        users |-> k.user_count,
                                        since |-> k.since, until |-> Len(past)]}
                    ELSE figures

\* Was that the last call of the handler, but for callback.answer?
IsLast(k) == k.pc = "lines" => k.sent + 1 >= Len(k.listing)

Posted(t) ==
    LET k == tasks[t] IN
    /\ k.pc \in {"menu", "lines", "figures", "edit"}
    /\ Post(k)
    /\ IF ~ IsLast(k) THEN Set(t, [k EXCEPT !.sent = @ + 1])
       ELSE IF k.pc = "edit" THEN Set(t, [k EXCEPT !.pc = "ack"])
       ELSE Finish(t)
    /\ answered' = IF k.pc = "lines" /\ IsLast(k)
                     THEN answered \cup {[upd |-> k.upd, user |-> k.user, had |-> k.had,
                                          until |-> Len(lines')]}
                     ELSE answered
    /\ UNCHANGED <<tables, updates>>

\* Mutants: one attempt too many; the loop goes on behind the line that failed.
GivesUpLate(k) == k.tries >= MaxRetries
SkipsLine(k) == [k EXCEPT !.tries = @ + 1, !.sent = @ + 1,
                          !.pc = IF k.sent + 1 < Len(k.listing) THEN "lines" ELSE "documents"]

GivesUp(k) == k.tries + 1 >= MaxRetries

\* RetryMiddleware runs the body again, from its first query.
Again(k) == [k EXCEPT !.tries = @ + 1,
                      !.pc = CASE k.pc = "menu" -> "categories"
                               [] k.pc = "lines" -> "documents"
                               [] k.pc = "figures" -> "count_templates"]

\* TelegramNetworkError or TelegramRetryAfter in a message handler.  What was
\* sent may have arrived all the same.
PostFails(t) ==
    LET k == tasks[t] IN
    /\ k.pc \in {"menu", "lines", "figures"}
    /\ \/ Post(k) /\ UNCHANGED answered
       \/ UNCHANGED chats
    /\ IF GivesUp(k) THEN Finish(t) ELSE Set(t, Again(k))
    /\ UNCHANGED <<tables, updates>>

\* Telegram refuses the call, or a call of a button handler fails; or the last
\* call of one, callback.answer, is done.
Ended(t) ==
    LET k == tasks[t] IN
    /\ k.pc \in {"menu", "lines", "figures", "edit", "ack"}
    /\ \/ UNCHANGED chats
       \/ k.pc = "edit" /\ Post(k) /\ UNCHANGED answered
    /\ Finish(t)
    /\ UNCHANGED <<tables, updates>>

-----------------------------------------------------------------------------
(* The tables *)

Change == /\ Len(past) <= MaxChanges
          /\ past' = Append(past, Counts')
          /\ UNCHANGED <<chats, tasks, updates>>

\* create_template, with is_active = 1 by default.
CreateTemplate ==
    /\ \E tpl \in Templates \ Created, cat \in Categories :
          /\ category' = [category EXCEPT ![tpl] = cat]
          /\ active' = active \cup {tpl}
    /\ UNCHANGED <<documents, registered, now>>
    /\ Change

\* The operator sets is_active to 0.
Retire ==
    /\ \E tpl \in active : active' = active \ {tpl}
    /\ UNCHANGED <<category, documents, registered, now>>
    /\ Change

\* save_document, for any template that has a row, retired or not.
SaveDocument ==
    /\ Created # {}
    /\ \E user \in Users :
          documents' = Append(documents, [user |-> user, created_at |-> now])
    /\ UNCHANGED <<category, active, registered, now>>
    /\ Change

\* ensure_user, of a user who is new.
Register ==
    /\ \E user \in Users \ registered : registered' = registered \cup {user}
    /\ UNCHANGED <<category, active, documents, now>>
    /\ Change

Tick ==
    /\ now' = now + 1
    /\ UNCHANGED <<category, active, documents, registered>>
    /\ Change

-----------------------------------------------------------------------------
Init ==
    /\ category = InitialCategory
    /\ active = Created
    /\ documents = InitialDocuments
    /\ registered = InitialUsers
    /\ now = IF documents = <<>> THEN 0 ELSE documents[Len(documents)].created_at
    /\ past = <<Counts>>
    /\ menus = {} /\ lists = {} /\ lines = <<>> /\ answered = {} /\ figures = {}
    /\ tasks = [t \in Tasks |-> Idle]
    /\ updates = 0

Step(t) == \/ Categorise(t) \/ FindTemplates(t) \/ FindDocuments(t)
           \/ CountTemplates(t) \/ CountDocuments(t) \/ CountUsers(t) \/ QueryFails(t)
           \/ Posted(t) \/ PostFails(t) \/ Ended(t)

Next == \/ \E t \in Tasks : OnMessage(t) \/ OnCategory(t) \/ Step(t)
        \/ CreateTemplate \/ Retire \/ SaveDocument \/ Register \/ Tick

Spec == Init /\ [][Next]_vars

-----------------------------------------------------------------------------
(* Types *)

PCs == QueryPCs \cup {"menu", "lines", "figures", "edit", "ack"}

TaskRecords ==
    [pc : PCs, user : Users, category : Categories, upd : Nat,
     active : SUBSET Templates, retired : SUBSET Templates, had : Nat, since : Nat \ {0},
     found : SUBSET (Categories \cup Templates),
     listing : Seq(Nat \ {0}), sent : Nat,
     tpl_count : Nat, doc_count : Nat, user_count : Nat, tries : Nat]

Figures == [templates : Nat, documents : Nat, users : Nat, since : Nat \ {0}, until : Nat]

\* The variables have their types, and only templates with a row are active.
TypeOK ==
    /\ category \in [Templates -> Categories \cup {NoRow}]
    /\ active \subseteq Created
    /\ documents \in Seq(Documents) /\ now \in Nat
    /\ registered \subseteq Users /\ IsFiniteSet(registered)
    /\ past \in Seq([templates : Nat, documents : Nat, users : Nat])
    /\ \A m \in menus : m.user \in Users /\ m.choices \subseteq Categories
    /\ \A l \in lists : l.user \in Users /\ l.choices \subseteq Templates
    /\ lines \in Seq([upd : Nat, user : Users, doc : Nat \ {0}])
    /\ figures \subseteq Figures
    /\ tasks \in [Tasks -> TaskRecords \cup {Idle}]
    /\ updates \in Nat

-----------------------------------------------------------------------------
(* Properties *)

\* What a list of categories may be: stayed are the templates that were active
\* all the time from the request on, retired those that were not when it came.
CategoriesOf(found, stayed, retired) ==
    /\ \A tpl \in stayed : category[tpl] \in found
    /\ \A cat \in found : \E tpl \in Created \ retired : category[tpl] = cat

TemplatesOf(found, cat, stayed, retired) ==
    /\ \A tpl \in stayed : category[tpl] = cat => tpl \in found
    /\ \A tpl \in found : tpl \in Created \ retired /\ category[tpl] = cat

\* A list of categories leads to every template that was active from the
\* request to the answer, and to none that was retired before the request.
MenusAreCurrent == \A m \in menus : CategoriesOf(m.choices, m.stayed, m.retired)

\* A list of templates has every template of the category pressed, and of no
\* other, that was active from the press to the answer, and none that was
\* retired before the press.
ListsAreCurrent ==
    \A l \in lists : TemplatesOf(l.choices, l.category, l.stayed, l.retired)

\* Lines of one request, by their positions.
LinesOf(upd, from, until) == {i \in from .. until : lines[i].upd = upd}
Shown(these) == {lines[i].doc : i \in these}

LatestFirst(these) ==
    \A i, j \in these : i < j => /\ lines[i].doc # lines[j].doc
                                /\ NotOlder(lines[i].doc, lines[j].doc)

\* Of the documents the user had, docs, which are n, leave none out that is newer
\* than one of them, and none at all unless they are ListMax.
NoneMissing(docs, n, user, had) ==
    \A d \in Own(user) \ docs :
        d <= had => n = ListMax /\ \A e \in docs : NotOlder(e, d)

\* The lines of an answered request for documents end in a listing: at most
\* ListMax documents, the latest first, and of those the user had when the
\* request came none is missing that is newer than one that is there.
ListingsAreWhole ==
    \A r \in answered : \E from \in 1 .. r.until + 1 :
        LET these == LinesOf(r.upd, from, r.until)
        IN  /\ Cardinality(these) <= ListMax /\ LatestFirst(these)
            /\ NoneMissing(Shown(these), Cardinality(these), r.user, r.had)

Repeats(upd, doc) == {j \in DOMAIN lines : lines[j].upd = upd /\ lines[j].doc = doc}

\* Users see documents of their own only, and a request repeats a line no more
\* often than its body is run.
LinesBounded ==
    \A i \in DOMAIN lines :
        /\ lines[i].doc \in Own(lines[i].user)
        /\ Cardinality(Repeats(lines[i].upd, lines[i].doc)) <= MaxRetries

\* The three figures of the statistics, active templates, documents and users,
\* were each the true count at a moment between the request and the answer, the
\* first no later than the second and that no later than the third, though not
\* all of them at the same (admin_stats makes three queries).
FiguresWereTrue ==
    \A f \in figures :
        \E i \in f.since .. f.until : \E j \in i .. f.until : \E l \in j .. f.until :
            /\ past[i].templates = f.templates
            /\ past[j].documents = f.documents
            /\ past[l].users = f.users

-----------------------------------------------------------------------------
(* The inductive invariant *)

\* The figures a task has read were true in their turn, since its request.
FiguresCurrent(k) ==
    /\ k.since <= Len(past)
    /\ k.pc = "count_documents" =>
          \E i \in k.since .. Len(past) : past[i].templates = k.tpl_count
    /\ k.pc = "count_users" =>
          \E i \in k.since .. Len(past) : \E j \in i .. Len(past) :
              past[i].templates = k.tpl_count /\ past[j].documents = k.doc_count
    /\ k.pc = "figures" =>
          \E i \in k.since .. Len(past) : \E j \in i .. Len(past) : \E l \in j .. Len(past) :
              /\ past[i].templates = k.tpl_count /\ past[j].documents = k.doc_count
              /\ past[l].users = k.user_count

\* What a task knows of the tables is still within what they were and are.
TaskCurrent(k) ==
    /\ k.active \subseteq Created /\ k.retired \subseteq Created
    /\ k.retired \cap active = {} /\ k.had <= Len(documents)
    /\ k.pc = "menu" => CategoriesOf(k.found, k.active \cap active, k.retired)
    /\ k.pc \in {"templates", "edit"} => k.category # NoCategory
    /\ k.pc = "edit" => TemplatesOf(k.found, k.category, k.active \cap active, k.retired)
    /\ FiguresCurrent(k)

\* A request sends a line once in every run of its body.
TaskBounded(k) ==
    /\ k.tries < MaxRetries
    /\ k.pc = "lines" =>
          /\ k.sent < Len(k.listing) \/ k.listing = <<>>
          /\ \A i \in DOMAIN k.listing :
                /\ k.listing[i] \in Own(k.user)
                /\ \A j \in 1 .. i - 1 : k.listing[j] # k.listing[i]
    /\ \A doc \in DOMAIN documents :
          \/ Cardinality(Repeats(k.upd, doc)) <= k.tries
          \/ /\ Cardinality(Repeats(k.upd, doc)) <= k.tries + 1
             /\ k.pc = "lines" /\ \E i \in 1 .. k.sent : k.listing[i] = doc

RequestsDiffer ==
    /\ \A t \in Tasks : tasks[t] # Idle =>
          /\ tasks[t].upd \in 1 .. updates
          /\ \A s \in Tasks \ {t} : tasks[s] # Idle => tasks[s].upd # tasks[t].upd
    /\ \A i \in DOMAIN lines : lines[i].upd \in 1 .. updates

OffersOK ==
    /\ \A m \in menus : m.stayed \subseteq Created /\ NoCategory \notin m.choices
    /\ \A l \in lists : l.stayed \subseteq Created
    /\ \A f \in figures : f.until <= Len(past)

\* The history ends with the present.
PastOK == past # <<>> /\ past[Len(past)] = Counts

IndInv ==
    /\ TypeOK /\ PastOK /\ OffersOK /\ RequestsDiffer
    /\ \A t \in Tasks : tasks[t] # Idle => TaskCurrent(tasks[t]) /\ TaskBounded(tasks[t])
    /\ MenusAreCurrent /\ ListsAreCurrent /\ LinesBounded /\ FiguresWereTrue

\* A listing that is being sent is whole, and its first lines are the latest of
\* the request's: the run before may have sent some of them, and others.
TaskWhole(k) ==
    k.pc = "lines" =>
        /\ k.sent <= Len(k.listing) /\ Len(k.listing) <= ListMax
        /\ \A i \in DOMAIN k.listing : \A j \in 1 .. i - 1 : NotOlder(k.listing[j], k.listing[i])
        /\ NoneMissing({k.listing[i] : i \in DOMAIN k.listing}, Len(k.listing), k.user, k.had)
        /\ \E from \in 1 .. Len(lines) + 1 :
              LET these == LinesOf(k.upd, from, Len(lines))
              IN  /\ Cardinality(these) = k.sent /\ LatestFirst(these)
                  /\ Shown(these) = {k.listing[i] : i \in 1 .. k.sent}

WholeInv ==
    /\ IndInv
    /\ \A t \in Tasks : tasks[t] # Idle => TaskWhole(tasks[t])
    /\ \A r \in answered : r.until \in 0 .. Len(lines) /\ r.had \in 0 .. Len(documents)
    /\ ListingsAreWhole
==============================================================================
