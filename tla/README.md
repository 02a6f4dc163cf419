# A formal model of botkit-docuflow

DocuFlow is a Telegram bot (Python, asyncio, aiogram 3) that walks a user through the
fields of a template, renders a PDF, records it and sends it; it sells packs of documents
for Telegram stars. This directory models its behaviour in TLA+, checks the models with
TLC, and proves with TLAPS every safety property the checks have and the two refinements. Paths without a
directory are under `src/src/`; `PROJECT.json` maps every definition to its lines.

## Inventory

| Component | State it keeps | Operations |
|---|---|---|
| Document dialog (`docuflow/handlers.py`, `docuflow/service.py`, `core/fsm.py`) | per user: FSM state and data (`fields`, `field_*` dicts, `values`, `current_field_idx`) in memory; tables `templates`, `template_fields`, `users`, `documents` | `cmd_start`, `start_create`, `choose_category`, `choose_template`, `enter_field`, `confirm_generate`, `edit_fields`, `my_documents`; for the operator `create_template`, `add_template_field` |
| Payments (same files) | tables `subscriptions`, `payments`; Telegram's queries and charges | `buy_docs`, `pre_checkout`, `on_paid`, `add_quota`, `record_payment` |
| Process and transports (`bot.py`, `core/migrations.py`, `core/metrics.py`) | what `main` awaits, the HTTP server, `shutdown_event`; at Telegram the webhook and the pending updates | `main`, `migrate`, `_run_webhook`, `_run_polling`, the signal handler |
| Template text (`generator/parser.py`) | none | `substitute_template`, `validate_field_value`, `parse_template_fields` (no caller) |
| `RetryMiddleware`, error handler (`core/errors.py`) | attempts of a task | repeat a message handler, give up, swallow |
| Throttling (`core/throttling.py`) | time of every user's last admitted message | admit or drop a message |
| Routers (`app.py`) | order of handlers | first match wins |
| Admin panel (`admin/handlers.py`, `AdminGate` of botkit-core) | wrong attempts, granted users, configured administrators | `cmd_admin`, `check_password`, `admin_stats`, `admin_limits`, `admin_access` |
| Catalogue and listings (`docuflow/handlers.py`, `docuflow/service.py`) | tables `templates`, `documents` and `users`; the lists, lines and figures in the chats, which stay there | `start_create`, `choose_category`, `my_documents`, `admin_stats`, their queries and counts |
| PDF (`generator/pdf.py`) | page and cursor | `render_pdf` |
| Callback data, configuration, settings table, middlewares for auth, metrics and logging, shims, texts, keyboards | see `PROJECT.json` | |

How they interact. aiogram dispatches every update as an asyncio task of its own, so
handlers of one user overlap. A message goes through the outer middlewares, the filters
(evaluated against the FSM state *of that moment*), then Auth, Throttling, Retry, and the
handler; a button press goes through Auth only. A handler gives up control where it awaits
the database, Telegram or a sleep, and nowhere else: `AppState` builds a `RedisStorage`,
but `Dispatcher()` is created without it, so the FSM storage is `MemoryStorage`, whose
coroutines never suspend. Handlers share the FSM data of a user, the tables and the chat
(old messages keep their buttons). `RetryMiddleware` runs the *whole* body of a message
handler again after a network error, up to `max_retries` times.

What is hard to test: handlers that read the dialog before an await and act on it after;
retries of a body that has already changed state; calls to Telegram that fail and took
effect all the same; kills between two transactions; buttons of messages older than the
dialog or the process; updates that the throttle, an open form or `drop_pending_updates`
throws away; a webhook that outlives its process. `PROJECT.json` lists each with its line
under `hazards`.

What makes the components correct:

- Dialog: index, fields and values of a dialog agree; a document is recorded only from a
  complete form; what is delivered is what was recorded, to its owner, once; every handler ends.
- Payments: only the pack at its price is charged; quota and payments table agree about every
  charge; a charge counts a bounded number of times.
- Process: no handler before the schema is complete; the webhook has a server; polling meets
  no webhook and no old update; a signal `main` is ready for ends the process; no update is stuck.
- Admission: nobody reaches the panel without the configuration or the password; the gate
  counts no guess too many and no user out for another's; the throttle lets no flood through
  and shuts nobody out for longer than the clock was set back.
- Catalogue: a list that reaches a chat misses nothing that stayed there from the request to the
  answer, a listing leaves out no newer document than it shows, every figure was the true count at
  a moment in between; users see their own documents.
- Text and pages: substitution does not depend on the order of the fields; every line is
  printed once, in order, inside the margins, and no page is blank.

## Modules

| Module | What it is |
|---|---|
| `Routing` | The message handlers in order of registration and what their filters let through; `Routes` says which handler gets a message. Used by `Dialog`, `Payments` and `Admission`. |
| `Dialog` | The dialog as concurrent tasks. |
| `Delivery` | The abstract promise: a document is recorded complete, then handed out unchanged, to its owner, at most once. `Dialog` refines it with `shelf <- documents, handedOut <- delivered`. |
| `Payments` | Purchases from the query to the last await of `on_paid`. |
| `Sale` | The abstract promise about one pack: charged only as sold; then quota and book in turns, the quota first and at most so often; the buyer told when they are even; nothing after the end. `Payments` refines it with `sales <- SalesOf`. |
| `Lifecycle` | The process, its transports and what Telegram holds for it. |
| `Admission` | The throttle with a clock that may be set, and the password gate in front of the admin panel under retries. |
| `Catalog` | What users are shown of the tables, while the tables change. |
| `Substitution` | `substitute_template`, with the simultaneous substitution as reference. |
| `Sheet`, `Pages` | The sheet, and the loop of `render_pdf` that fills it. |
| `Document` | `Substitution` and `Pages` composed (`Split` hands the text over): the file `confirm_generate` makes. |
| `DialogClaims`, `PaymentsClaims` | What the repository's documents say and the code does not do. |
| `DialogProofs`, `PaymentsProofs`, `LifecycleProofs`, `AdmissionProofs`, `CatalogProofs`, `PagesProofs`, `SubstitutionProofs`, `DocumentProofs` | Theorems and proofs; the last extends the two before it, as `Document` extends `Substitution` and `Pages`. |
| `MC...` | Instances for TLC. |

### Dialog

A task is a record: the handler, the await it is at (`pc`), the user, the text of the
message, the locals used after the await (`form`, `doc`) and the attempts made. The code
between two awaits is one action:

| Code | Actions |
|---|---|
| `cmd_start`, `enter_field`, `cmd_admin`, `check_password` up to the first await | `CmdStart`, `EnterField` (`Ignored`, `Rejected`, `Stored`), `CmdAdmin`, `CheckPassword`, reached by `OnMessage` and, again, by `Retry` |
| `choose_template` | `OnTemplate`, `LoadFields`, then `CallDone`, `Acknowledged` |
| `confirm_generate` | `OnConfirm`, `LoadTemplate`, `SaveDocument`, `CallDone` (edit, answer), `Deliver`, `Closed` |
| `edit_fields` | `OnEdit`, `CallDone`, `Acknowledged` |
| `ensure_user` | `Register` |
| failing calls | `DbFails`; `AnswerFails` (repeated) and `AnswerRefused` (not) for messages; `CallFails` for presses, which nothing repeats |
| `create_template`, `add_template_field` | `CreateTemplate`, `AddTemplateField` at any position of `field_order` |
| a kill and a restart | `Crash`: dialogs and tasks go, tables and chats stay |

`fsm` is the dialog of each user. Its form is the template, the fields and the values; the
dicts `field_types` and `field_required` are keyed by name, so `ByName` gives fields of one
name the attributes of the last. `values` is one dict that the FSM data and a generation
share by reference; nothing changes it after the index has reached the end (an edit makes a
new one), so the model copies it. Values are members of a small set, each with the field
types it is valid for (`ShapesOf`) and the kinds of message it can be (`KindsOf`); the regular
expressions of `validate_field_value` are abstracted to that relation. `documents` is the
table in the order of ids, each row with the number of the update behind it (`upd`, a history
value). `shown` is which summaries, with their buttons, a chat holds: a press needs one.

### Payments

A purchase is a record with its stage: where its update is, or the await its handler is at.
`credits` and `rows` are what the purchase did to `subscriptions.docs_limit` and `payments`.
`Arrive` is where the throttle (`recent`) drops the payment's message and where `Routes`
lets an open form or the password prompt take it. `AddQuota` on a user without a row in
`subscriptions` (no code inserts one) changes nothing and skips the record, as `on_paid`
does. Other messages of a user are `Converse`, which may leave the dialog in any state:
the dialog itself is modelled in `Dialog`. A restart (`Crash`) drops what was on its way, except
the updates in `kept`: with a webhook left behind, the server listens (`bot.py:33`) before
`delete_webhook` drops (`bot.py:36`), and they may be pushed in between.

`Sale` sees of a purchase whether it was for the pack (`genuine`), what was written, and a phase
instead of the stage (`PhaseOf`): open until Telegram charges, charged while the update travels or
a handler works on it, over after that. A restart may end several sales at once.

### Lifecycle

`phase` is the await `main` is at, in the order of `_run_webhook` or `_run_polling`.
`committed` is how many statements of `SCHEMA` the database has: whether the driver commits
DDL at once or with the transaction is left open. `hook` and `pending` are Telegram's. A
process may die at every await (`Dies`), and a call to Telegram may raise having taken effect
(`DiesAfterCall`). `floor` and `late` are history values: which updates are older than the
drop of this run. `Renew` is certbot; the comment in `_run_webhook` about the certificate
incident is the reason it is there.

`shutdown_event` and its signal handlers exist only after `migrate`. A signal before that is
`SignalEarly`: it ends the process, or is lost where python is the first process of a container
without an init, as in the `Dockerfile`. From then on it is `Signal`, which sets `shutdown` at
whatever await `main` is.

### Admission

| Code | Actions |
|---|---|
| `from_env`, `validate` | `AdminIds` and `Init`: items of `ADMIN_IDS` that are blank or no number are skipped, an empty list is refused |
| `ThrottlingMiddleware.__call__` | `Admit` in `OnMessage` and `OtherMessage`; `Drop` changes nothing |
| `check_password` | `CheckPassword`: refused, authorized or counted |
| `cmd_admin`, the panel | `CmdAdmin`, `PanelHandler`, `Counted` |
| `RetryMiddleware` | `AnswerFails`, `Retry` (the whole body, for the state of then), `Ends` |
| forms and buttons of the user | `Converse`, which only moves the dialog |

`AdminGate` belongs to botkit-core. The model takes of it what the router and
`tests/test_admin_gate_wiring.py` use: `is_throttled` from a number of wrong attempts on,
`authorize` that grants or counts, and a window after which attempts are forgotten, at any
moment (`WindowPasses`). Each attempt is kept with the message and the pass of the body that
made it, so that the properties can tell a repeated guess from another one. `clock` is the time
since the start and how far `time.time()` was set forward and back in all; `log` is a history
of what was admitted. Nothing of this survives a restart, so a behaviour is one process.

### Catalog

A task is a request with what it has read. Every query is an action (`Categorise`,
`FindTemplates`, `FindDocuments`, `CountTemplates`, `CountDocuments`, `CountUsers`), every call of
Telegram's is `Posted`, `PostFails` (and the body runs `Again`, from its first query) or
`Ended`; a press of a button has no retry. `menus`, `lists` and `lines` are the chats: nothing is
removed from them, and `OnCategory` presses any button of any list. A request remembers which
templates were active and which retired when it came, and a message in the chat which of them
stayed active until it was sent; these are the history values the properties compare with.
`CreateTemplate`, `Retire` (the operator's SQL: no code writes `is_active`), `SaveDocument`,
`Register` (`ensure_user` of somebody new) and `Tick` change the tables at any moment. `past` is the
history of the three counts, one entry for the start and one for every change; a message with figures
remembers which part of it lies between request and answer. `created_at` is in seconds, so `Latest` is a set: every
order SQLite may give rows of one second. `Sendable` is Telegram's refusal of a keyboard with
an empty button or more than 64 bytes of data. An answer that nothing was found is recorded like
any other, as an empty list.

### Substitution, Pages, Document

A text is a sequence of words, line breaks and placeholders; a value is a text too, and not an
empty one (`enter_field` stores none). `values` is the dict in the order of its keys. The loop over
`values.items()` is one action per key: `Replace` puts the value in the place of every `Hole` of
that name and does not look again at what it put there. The loop over the lines of `render_pdf` is one
action per line. `Pages` knows nothing of where its lines come from, and its lengths are in
millimetres, all multiples of the code's half centimetre. `Document` runs one loop after the other:
`Split` is the call of `render_pdf`, and `Lines` its `split("\n")`, a recursive function over the
text. The references the loops are compared with are `Simultaneous` (what the dict does to
the body all at once) and `Unsplit` (the lines with a break in front of each). `MaxBody`, `MaxValue` and
`MaxFields` bound the inputs for TLC and may be any numbers in the proofs.

## Runs

All runs say `CHECK_DEADLOCK FALSE`: users may stop sending, and the bounds on updates,
purchases, crashes and faults end every behaviour.

| Run | Instance | Shows |
|---|---|---|
| `handlers` | 1 user, 2 tasks, 5 updates, 2 templates of 1 and 2 fields (one number, required; one optional text), 3 attempts, 1 restart | types, `DialogsOK`, `RecordedIsComplete`, `DeliveredIsRecorded`, `OneDocumentPerPress` |
| `users` | 2 users, 2 tasks, 6 updates, 1 field, 3 attempts | the inductive invariant; refinement of `Delivery`; `EveryHandlerEnds` |
| `provisioning` | 1 task, 4 updates, up to 2 fields of one name, any type, added at any moment | `RecordedIsComplete` while the template changes under the form |
| `charges` | a subscriber and a guest, 2 purchases, right and wrong offer, 3 attempts, 1 restart | `OnlyThePackIsCharged`, `BooksAgree`, `ToldIsBooked`, `CreditsBounded`, the inductive invariant; refinement of `Sale` |
| `transports` | 2 statements, 2 updates, 2 faults, 2 signals, 1 renewal | `HookHasServer`, `ServesWithSchema`, `PollsWithoutHook`, `PollsNothingLate`, the inductive invariant, `StopsWhenTold`, `NoUpdateIsStuck` |
| `admission` | 1 user, 2 tasks, 3 lists of administrators, interval 2, 2 passes, limit of 3 attempts, 6 seconds, the clock set forward by 1 and back by 2 | `PanelIsEarned`, `GuessesBounded`, `LockoutIsEarned`, `FloodBounded`, `ShutOutBounded`, the inductive invariant |
| `catalog` | 2 users, 2 requests, 2 templates (one there at the start), 2 named categories and the empty one, 3 documents of both users, 1 registered user, `LIMIT` 3 and 2 lines, 2 changes of the tables, 2 attempts | `MenusAreCurrent`, `ListsAreCurrent`, `ListingsAreWhole`, `LinesBounded`, `FiguresWereTrue`, the inductive invariant with what `ListingsAreWhole` needs (`WholeInv`) |
| `document` | bodies of up to 3 tokens, 2 fields, values of up to 2 tokens, line breaks in both, 2 lines to the page | types, `LeftoversExplained`, `PrintedIsSimultaneous`, `OnThePaper`, `PagesFilled`, the inductive invariant of both loops (`DocumentInv`) |

Why the bounds are enough. Five updates complete a form of two fields (choose, two answers,
press) and leave one to interfere; six give two users a complete generation each (choose,
answer, press), which two tasks overlap. Two tasks give every pair of handlers; no handler
looks at more than its own task and the dialog, so a third adds no new kind of pair. Three
attempts are the code's own `max_retries`. One restart separates a before from an after; a
second meets the same kinds of state. `MaxUpdates` counts what users send, never what the bot
does. Two statements of `SCHEMA` have a middle to be killed in, two faults a failed call after
a kill.

In `admission` two passes and a limit of three stand for the code's three and the gate's five:
as there, one message repeated to its end does not reach the limit and two do. The throttle and
the gate keep everything per user, and no action looks at two users; two tasks of one user race. Six
seconds are three intervals. In `catalog` a request shares with others only the tables and
chats that nothing is removed from, and one task lets the tables change between any two of its
steps, so a second task would add no kind of step; two requests let a stale list be pressed.
`LIMIT` 3 and 2 lines stand for 20 and 5; with two documents of one user, one of the other and up to
two more, the first cuts between seconds and the second inside one. Two changes make three entries of `past`, enough for figures of three
moments, and for a count that was never the one shown. Of the two
categories that can be sent, one has a template from the start and the other may get one. In `document`, three tokens with two values of two tokens make
up to seven lines, which on pages of two fill three and start a fourth.

The proofs remove the bounds from the safety properties.

Where a run checks an inductive invariant, the types are part of it.

Symmetry is used in `handlers` and `admission` (tasks), where tasks have no order anywhere in the module
and no liveness is checked.

Every property of these runs is backed by a mutant: a definition of the model changed the
way a bug would change the code, on which TLC finds the property violated (`PROJECT.json`,
`mutants`). The mutated operators stand next to the definitions they replace and are
used by nothing else.

### Fairness

- `Dialog`: weak fairness of `Step(t)` for each task. The event loop runs every ready
  task, and every database or Telegram call returns or fails (aiogram's session and
  aiosqlite bound their waits). Nothing is assumed of users, the operator or crashes.
  `Payments` has no liveness property: what ends `on_paid` is what ends any message handler.
- `Lifecycle`: weak fairness of `Main` (calls return or raise; the container's restart
  policy or the operator starts the process again) and of `Deliver` (Telegram repeats an
  update until it succeeds). The bounds on faults matter here: a process
  that is killed for ever serves nobody.

`StopsWhenTold` and `NoUpdateIsStuck` speak of the webhook transport only. With polling,
`asyncio.wait` waits for both of its tasks: if `start_polling` fails, the process stays alive
without polling, and if a signal ends only the polling the process does not end. Both are
in the model (`PollingFails`, `Signal`) and in the hazards.

### Disagreements found

Each is a run that TLC refutes; the property states what a text of the repository says.

| Run | The text | The code |
|---|---|---|
| `FreeAllowance` | `README.md:36`: the limit bounds what a user can generate | nothing counts or compares |
| `RecordedIsDelivered` | `README.md:37`: delivery and accounting happen together | an error after `save_document` leaves a row without a delivery |
| `PaidIsCredited` | `docuflow/service.py:206`: add after a successful payment | the payment's message can be dropped or taken |
| `OnePackPerCharge` | `docuflow/handlers.py:230`: a pack of 10 | a retry adds it again |

Behaviours of the model a reader of the code should know of, for which no run is kept:

- when the prompt for the next field does not arrive, the repeated `enter_field` finds the index
  moved on and stores the same message under the next field too (`texts.py:82` speaks of the
  prompt of each field);
- a user without a row in `subscriptions` pays, is told that the limit went up (`texts.py:74`), and
  nothing is written: `ToldIsBooked` holds of subscribers only;
- one template with an empty category, or with one too long for a button, keeps the list of
  categories from everybody (`Sendable`);
- one wrong password counts as up to `max_retries` attempts (`LockoutIsEarned` has the factor);
- a template retired after its list was sent can still be chosen: nothing after the list asks
  for `is_active`;
- a summary that did not arrive is not sent again, because the repeated `enter_field`
  finds the form full and returns;
- the button of an older summary generates the values of now, which may never have been shown;
- after a restart or `/start` the edit button opens a dialog without fields, in which every
  message is ignored;
- a document can be generated for a user without a row in `users` (the foreign key of
  `documents` is not enforced);
- a skipped optional field has no key in `values`, and its `{{name}}` is printed
  (`LeftoversExplained` names this as one of the two causes);
- a `SIGTERM` during `migrate` is lost when python is the first process of the container, and the bot goes
  on to serve until it is killed (`SignalEarly`; `StopsWhenTold` is about signals that meet the handlers);
- on webhook transport, updates from before a restart can be pushed between `site.start` and
  `delete_webhook`, when a killed run left its webhook behind.

## Proofs

All theorems hold for every value of the constants that satisfies the module's named
assumption (`DialogAssumption`, `PaymentsAssumption`, `LifecycleAssumption`,
`AdmissionAssumption`, `CatalogAssumption`, `SheetAssumption`, `SubstitutionAssumption`,
`DocumentAssumption`: membership and disjointness, positive `MaxRetries`, a clock that never shows
the first seconds of 1970, room for a line, placeholders that are no words and a break that is one;
`Users` and `Tasks` need not even be finite), bounds
included (`Templates` of `Catalog` is finite). Each file proves `Spec => []IndInv` from `Init => IndInv` and
`IndInv /\ [Next]_vars => IndInv'`, with one step per action, and reads the properties off.

**`DialogProofs`** (`Invariance`, `TypeCorrect`, `DialogsAgree`, `Complete`, `Recorded`,
`OncePerPress`, `Implements`). `RecordedIsComplete` is not inductive: `SaveDocument` records the
form the *task* holds. So `TasksOK` says that a generation holds a complete form from its first
await and, once recorded, its own row, which nobody has received; for the first await to
find one, `DialogsOK` says that index, fields and values of every dialog agree at every moment,
which each handler must restore whatever ran before it. `UpdatesOK` numbers the updates so that
two tasks never stand for one press. `Implements` shows that `SaveDocument` is `Record`,
`Deliver` is `HandOut`, and every other step stutters.

**`PaymentsProofs`** (`Invariance`, `TypeCorrect`, `PackOnly`, `Books`, `ToldTheTruth`,
`Bounded`, `Implements`). The
properties say nothing of the stages before the charge; `PurchaseOK` adds that an approved
query is the pack, that nothing was done before the charge, that a task about to record has
just credited, that one about to answer a subscriber has both written, and that credits never
exceed the passes made. All of it is per purchase, so
one lemma lifts it: when only purchase `i` changes and stays good, all are good. `Implements` takes each
step to a step of `Sale` or to none: `Ask` is `Open`, `Charge` is `Charge`, `AddQuota` of a subscriber
is `Raise`, `RecordPayment` is `Book`, an answer that arrives is `Tell`, whether or not the bot learns of it, and what
declines, drops, takes or gives up is `End`; a restart ends all that is not over. It needs the invariant at
three points: an approved query is the pack; a task that comes to `AddQuota`, for the first time or again,
finds quota and book even and an attempt left; one that answers a subscriber has written both.

**`LifecycleProofs`** (`Invariance`, `TypeCorrect`, `HookThenServer`, `SchemaFirst`,
`NoHookWhilePolling`, `NothingLate`). `ServerOK`, `HookOK` and `PollingOK` say which awaits the
server, the schema, and the webhook of this run belong to. `SchemaFirst` holds for a schema
of any length and any number of runs cut off in the middle.

**`AdmissionProofs`** (`Invariance`, `TypeCorrect`, `PanelEarned`, `Guesses`, `Earned`, `Flood`,
`ShutOut`). Two halves that share nothing but the state. For the gate, `GateOK` says that every
attempt remembered is a wrong guess of that user and a pass of its body, and `TasksOK` what a
task may still repeat; with at most `MaxRetries` passes to a guess, the attempts are a subset of
a product, whose cardinality gives `LockoutIsEarned`. For the throttle, `StampOK` ties `last` to
the clock at the last admission and to the number of admissions; both bounds follow by arithmetic.

**`CatalogProofs`** (`Standing`, `TypeCorrect`, `CurrentMenus`, `CurrentLists`, `BoundedLines`,
`TrueFigures`, `Whole`, `WholeListings`). The properties speak of messages sent, so `TaskCurrent` says of a request under
way that what it has read lies between the tables of its beginning and those of now. One lemma
shows that a change of the tables keeps that, for it only adds rows or retires templates; another
that a step of one task leaves the others alone. For `TrueFigures` the history is what counts: `past` only grows
and ends with the present (`PastOK`), so a count that is read is its last entry, and
`FiguresCurrent` keeps one moment per figure read, in the order of the queries. `TaskBounded` counts the repetitions of a line
against the attempts made, which is what makes `LinesBounded` inductive.

`ListingsAreWhole` speaks of the last lines of an answered request, and a request may have sent
others before, from a run of its body that failed. `WholeInv` adds to `IndInv` that a request about
to send a line holds the latest documents of its user, latest first, none missing of those there when it came
(`TaskWhole`), and that the last of its lines in the chat are the part of them it has sent. Three facts carry
it: `documents` and `lines` only grow, so what was whole stays whole (`NoneMissingStays`,
`LinesOfStay`); what the query returns is whole when it returns (`LatestAreWhole`, over every order the table
allows for rows of one second); and a line sent is the next of the listing (`NextIsSent`). A run that
starts again starts with no line of its own, which the existential over `from` in `TaskWhole` allows.

**`PagesProofs`** (`Filling`, `Inside`, `Filled`, `InOrder`), for every text and every sheet with room
for a line. The cursor is two numbers, the properties speak of everything drawn: `CursorOK` says
that the cursor is a pitch below the last line and below every line of its page. The theorems are about `PagesSpec`, which starts with any text;
the run `document` checks the same formulas where the text is the result of the substitution.

**`SubstitutionProofs`** (`Substituting`, `Explained`, `OrderIsIrrelevant`). The properties compare
the result of a loop over the dict with one substitution of everything. `SubstitutionInv` says it of
every prefix of the dict: after `k` values the text is `Expand(body, Given(k))`, as long as no value
brings a placeholder along. The step is that substituting twice is substituting once (`ExpandTwice`) and
that plain text is left alone (`ExpandNothing`); `LeftoversExplained` follows where each token of an
expansion came from (`ExpandOrigin`), and needs no plain values.

**`DocumentProofs`** (`Making`, `Typed`, `LeftInFile`, `Printed`, `FileOnThePaper`,
`FilePagesFilled`, `FileIsText`). `DocumentInv` joins the invariants of the two loops with what is handed
over: the lines are `Lines(result)` of the finished text, and with a break in front of each they are a break
and the text (`LinesKeep`). So the properties of `PagesProofs` are those of the file, and what is printed
is the simultaneous substitution, line by line. `FileIsText` says that nothing is lost, doubled or moved where the text is split.

These two prove what `FlattenSeq` and `Lines`, functions defined by recursion, compute for texts of any
length. The library's induction theorems take an operator as a parameter and
cannot be instantiated here. A claim about all numbers is stated instead as the *set* of the
numbers it holds for, and induction over them (`NatInduct`, and `SeqInduct` for sequences, at the
top of `SubstitutionProofs`) follows from `WFMin` and `NatLessThanWellFounded`, which take sets. That the
recursive functions exist at all is proved the same way (`FlatExists`, `FedExists`).

Only model-checked: the liveness properties `EveryHandlerEnds`, `StopsWhenTold` and
`NoUpdateIsStuck`, which rest on fairness and so on ENABLED, beyond these provers. The four
claims of the repository that do not hold are refuted by TLC.

## Not modelled

- `parse_callback_int` and `callback_is_wellformed`: guards on the characters of one string, without
  state; a press whose data does not parse is a case of `OnTemplate`.
- The width of a line and the file of `render_pdf`: a long line runs off the sheet (`drawString`
  does not wrap), and files are never unlinked (hazards).
- `get_document`, `get_user_subscription` and `increment_docs_used`, which have no caller.
- The inside of `AdminGate` and the growth of the throttle's dict.
- Duplicated updates: Telegram delivers an update again when a webhook call is not
  acknowledged. `Dialog` treats a second delivery as a second update of the user's, so
  that `OneDocumentPerPress` speaks of updates, not of fingers.
- A database error after the commit: a failed transaction is one that had no effect.
- SQLite's locking, the HTTP stack, Sentry, tracing, log formatting, shims over botkit-core.
- The build's scripts and the deployment files, of which only the restart policy matters here.

## Plan

Order of the modules, the most important behaviour first. 1 to 8 are done.

1. `Routing`, `Dialog`, `Delivery`: the core, with refinement and proofs.
2. `Payments` over `Routing`, with proofs.
3. `Lifecycle`, with proofs.
4. `Substitution`.
5. `Admission`, with proofs; it took in the list of administrators of the configuration.
6. `Pages`, with proofs, and `Document`, which composes it with `Substitution`.
7. `Catalog`, with proofs.
8. `Sale`, which `Payments` refines, with the proof; proofs for `Substitution`, `Document` and the
   listings of `Catalog`. Done.
9. Composition: purchases and dialog in one module, so that `Converse` of `Payments` becomes the
   dialog itself.
10. Telegram's redelivery of a webhook call that was not acknowledged. aiogram answers the call
   before it handles the update, and both transports drop what is pending at a start, so that a
   redelivered update is one more update to `Dialog` and `Payments`; `Lifecycle` has the rest.
