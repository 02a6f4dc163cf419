------------------------------ MODULE Lifecycle ------------------------------
(***************************************************************************)
(* The life of the process: main, _run_webhook and _run_polling of bot.py, *)
(* migrate of core/migrations.py, start_metrics_server of core/metrics.py, *)
(* and what Telegram holds for the bot meanwhile: the webhook and the      *)
(* updates that wait.  The process may be killed, told to stop or fail at  *)
(* any await, and is started again, perhaps with another WEBHOOK_URL; the  *)
(* certificate of the endpoint is renewed while it runs.                   *)
(***************************************************************************)
EXTENDS Naturals

CONSTANTS
    Statements,     \* how many statements SCHEMA has
    MaxUpdates,     \* bound: updates sent to the bot
    MaxFaults,      \* bound: kills and failed calls
    MaxStops,       \* bound: SIGTERM and SIGINT
    MaxRenewals     \* bound: renewals of the certificate

ASSUME LifecycleAssumption ==
    /\ Statements \in Nat
    /\ MaxUpdates \in Nat /\ MaxFaults \in Nat /\ MaxStops \in Nat /\ MaxRenewals \in Nat

VARIABLES
    mode,       \* webhook or polling: whether WEBHOOK_URL is set
    phase,      \* what main is awaiting
    run,        \* how often the process was started
    step,       \* statements this run of migrate has executed
    committed,  \* statements of SCHEMA the database has the effect of
    server,     \* the HTTP server listens
    shutdown,   \* shutdown_event is set
    stopped,    \* polling: the task of start_polling is over
    hook,       \* the webhook Telegram has: set or not, pinned certificate, run
    cert,       \* serial number of the endpoint's certificate
    pending,    \* updates Telegram holds back
    handled,    \* updates handlers were called for, with the run and its mode
    floor,      \* updates sent before this run dropped the pending ones
    sent, faults, stops     \* counters, for the bounds

process == <<phase, run, step, server, shutdown, stopped, floor>>
telegram == <<hook, pending, handled, sent>>
world == <<mode, cert, committed>>
vars == <<process, telegram, world, faults, stops>>

NoHook == [url |-> FALSE, pin |-> 0, run |-> 0]

\* The awaits of both transports, each in the order of its function.
Phases == {"off", "migrate", "bind", "drop", "register", "serving", "unregister", "cleanup"}

Webhook == mode = "webhook"
Polling == mode = "polling"

Go(next) == phase' = next

\* The process is gone, and its server with it.
Exit == Go("off") /\ server' = FALSE /\ UNCHANGED <<run, step, shutdown, stopped, floor>>

-----------------------------------------------------------------------------
(* Start-up *)

\* restart: always, or the operator; main reads the configuration anew.
Start ==
    /\ phase = "off"
    /\ Go("migrate") /\ run' = run + 1 /\ step' = 0
    /\ shutdown' = FALSE /\ stopped' = FALSE
    /\ UNCHANGED <<server, floor, telegram, world, faults, stops>>

\* CREATE ... IF NOT EXISTS.  Whether the driver commits a statement at once or
\* with the transaction is left open.
Create ==
    /\ phase = "migrate" /\ step < Statements
    /\ step' = step + 1
    /\ \/ UNCHANGED committed
       \/ committed <= step /\ committed' = step + 1
    /\ UNCHANGED <<phase, run, server, shutdown, stopped, floor>>
    /\ UNCHANGED <<telegram, mode, cert, faults, stops>>

\* The transaction is over; the webhook starts with its server, polling with
\* the removal of a webhook.
Migrated ==
    /\ phase = "migrate" /\ step = Statements
    /\ committed' = Statements
    /\ Go(IF Webhook THEN "bind" ELSE "drop")
    /\ UNCHANGED <<run, step, server, shutdown, stopped, floor>>
    /\ UNCHANGED <<telegram, mode, cert, faults, stops>>

\* Mutant: the server starts next to migrate.
BindEarly ==
    /\ phase \in {"migrate", "bind"} /\ ~ server
    /\ server' = TRUE
    /\ Go(IF phase = "migrate" THEN "migrate" ELSE IF Webhook THEN "drop" ELSE "serving")
    /\ UNCHANGED <<run, step, shutdown, stopped, floor, telegram, world, faults, stops>>

\* TCPSite.start, of the webhook application or of start_metrics_server.
Bind ==
    /\ phase = "bind"
    /\ server' = TRUE
    /\ Go(IF Webhook THEN "drop" ELSE "serving")
    /\ UNCHANGED <<run, step, shutdown, stopped, floor, telegram, world, faults, stops>>

\* Mutants: the webhook goes and the updates stay; the updates go and the
\* webhook stays.
DropNothing == hook' = NoHook /\ UNCHANGED pending
DropUpdates == pending' = {} /\ UNCHANGED hook

\* delete_webhook(drop_pending_updates=True), at Telegram.
DropPending == hook' = NoHook /\ pending' = {}

Drop ==
    /\ phase = "drop"
    /\ DropPending
    /\ floor' = sent
    /\ Go(IF Webhook THEN "register" ELSE "bind")
    /\ UNCHANGED <<run, step, server, shutdown, stopped, handled, sent, world, faults, stops>>

\* Mutant: setWebhook with the certificate of the day.
PinnedHook == [url |-> TRUE, pin |-> cert, run |-> run]

\* set_webhook names no certificate, so that Telegram verifies through the CAs.
RegisteredHook == [url |-> TRUE, pin |-> 0, run |-> run]

\* Mutant: the event is created when the bot starts to serve.
RegisterAnew ==
    /\ phase = "register"
    /\ hook' = RegisteredHook
    /\ shutdown' = FALSE
    /\ Go("serving")
    /\ UNCHANGED <<run, step, server, stopped, floor>>
    /\ UNCHANGED <<pending, handled, sent, world, faults, stops>>

Register ==
    /\ phase = "register"
    /\ hook' = RegisteredHook
    /\ Go("serving")
    /\ UNCHANGED <<run, step, server, shutdown, stopped, floor>>
    /\ UNCHANGED <<pending, handled, sent, world, faults, stops>>

-----------------------------------------------------------------------------
(* Shutdown *)

\* main has not installed its handlers yet: as the first process of a container
\* python never learns of a SIGTERM, and elsewhere, or of a SIGINT, it dies.
SignalEarly ==
    /\ phase = "migrate"
    /\ stops < MaxStops /\ stops' = stops + 1
    /\ UNCHANGED process \/ Exit
    /\ UNCHANGED <<telegram, world, faults>>

\* _signal_handler sets the event.  start_polling may have put a handler of its
\* own in that place, which ends the polling and not the wait.
Signal ==
    /\ phase \notin {"off", "migrate"}
    /\ stops < MaxStops /\ stops' = stops + 1
    /\ \/ shutdown' = TRUE /\ UNCHANGED stopped
       \/ Polling /\ phase = "serving" /\ stopped' = TRUE /\ UNCHANGED shutdown
    /\ UNCHANGED <<phase, run, step, server, floor, telegram, world, faults>>

\* start_polling ends with an exception, which asyncio.wait does not raise.
PollingFails ==
    /\ phase = "serving" /\ Polling /\ ~ stopped
    /\ faults < MaxFaults /\ faults' = faults + 1
    /\ stopped' = TRUE
    /\ UNCHANGED <<phase, run, step, server, shutdown, floor, telegram, world, stops>>

\* The wait ends: for the event; with polling, for both tasks.
Wake ==
    /\ phase = "serving" /\ shutdown
    /\ \/ Webhook /\ Go("unregister")
       \/ Polling /\ stopped /\ Go("cleanup")
    /\ UNCHANGED <<run, step, server, shutdown, stopped, floor>>
    /\ UNCHANGED <<telegram, world, faults, stops>>

\* Mutant: the server goes first, the webhook after it.
UnregisterLast ==
    /\ phase = "unregister"
    /\ IF server THEN server' = FALSE /\ UNCHANGED <<hook, phase>>
       ELSE hook' = NoHook /\ Go("cleanup") /\ UNCHANGED server
    /\ UNCHANGED <<run, step, shutdown, stopped, floor>>
    /\ UNCHANGED <<pending, handled, sent, world, faults, stops>>

\* delete_webhook, which keeps the updates.
Unregister ==
    /\ phase = "unregister"
    /\ hook' = NoHook
    /\ Go("cleanup")
    /\ UNCHANGED <<run, step, server, shutdown, stopped, floor>>
    /\ UNCHANGED <<pending, handled, sent, world, faults, stops>>

\* stop_polling, session.close and runner.cleanup end the process, even by
\* raising.
Cleanup ==
    /\ phase = "cleanup"
    /\ Exit
    /\ UNCHANGED <<telegram, world, faults, stops>>

-----------------------------------------------------------------------------
(* Faults *)

\* The process is killed, or the call it awaits raises: nothing catches it.
Dies ==
    /\ phase # "off"
    /\ faults < MaxFaults /\ faults' = faults + 1
    /\ Exit
    /\ UNCHANGED <<telegram, world, stops>>

\* A call to Telegram raises and has taken effect all the same.
DiesAfterCall ==
    /\ faults < MaxFaults /\ faults' = faults + 1
    /\ \/ phase = "drop" /\ DropPending
       \/ phase = "register" /\ hook' = RegisteredHook /\ UNCHANGED pending
       \/ phase = "unregister" /\ hook' = NoHook /\ UNCHANGED pending
    /\ Exit
    /\ UNCHANGED <<handled, sent, world, stops>>

-----------------------------------------------------------------------------
(* The world *)

SendUpdate ==
    /\ sent < MaxUpdates /\ sent' = sent + 1
    /\ pending' = pending \cup {sent + 1}
    /\ UNCHANGED <<process, hook, handled, world, faults, stops>>

Verifies == hook.pin \in {0, cert}

\* Telegram calls the webhook whenever something listens at the address.
Push == Webhook /\ hook.url /\ server /\ Verifies

\* getUpdates is refused while there is a webhook.
Pull == Polling /\ phase = "serving" /\ ~ stopped /\ ~ hook.url

Deliver ==
    /\ Push \/ Pull
    /\ \E u \in pending :
          /\ pending' = pending \ {u}
          /\ handled' = handled \cup {[upd |-> u, run |-> run, mode |-> mode,
                                       late |-> u <= floor]}
    /\ UNCHANGED <<process, hook, sent, world, faults, stops>>

\* certbot renews the certificate that nginx shows.
Renew ==
    /\ cert <= MaxRenewals
    /\ cert' = cert + 1
    /\ UNCHANGED <<process, telegram, mode, committed, faults, stops>>

Reconfigure ==
    /\ phase = "off"
    /\ mode' \in {"webhook", "polling"}
    /\ UNCHANGED <<process, telegram, cert, committed, faults, stops>>

-----------------------------------------------------------------------------
Init ==
    /\ mode \in {"webhook", "polling"}
    /\ phase = "off" /\ run = 0 /\ step = 0 /\ committed = 0
    /\ server = FALSE /\ shutdown = FALSE /\ stopped = FALSE
    /\ hook = NoHook /\ cert = 1
    /\ pending = {} /\ handled = {} /\ floor = 0
    /\ sent = 0 /\ faults = 0 /\ stops = 0

\* What main does when nothing goes wrong.
Main == \/ Start \/ Create \/ Migrated \/ Bind \/ Drop \/ Register
        \/ Wake \/ Unregister \/ Cleanup

Next == \/ Main \/ SignalEarly \/ Signal \/ PollingFails \/ Dies \/ DiesAfterCall
        \/ SendUpdate \/ Deliver \/ Renew \/ Reconfigure

Spec == Init /\ [][Next]_vars

\* Every call returns or raises, the container is restarted, and Telegram
\* repeats the delivery of an update until it succeeds.
FairSpec == Spec /\ WF_vars(Main) /\ WF_vars(Deliver)

-----------------------------------------------------------------------------
(* Properties *)

\* The variables have their types.
TypeOK ==
    /\ mode \in {"webhook", "polling"} /\ phase \in Phases
    /\ run \in Nat /\ step \in 0 .. Statements /\ committed \in 0 .. Statements
    /\ server \in BOOLEAN /\ shutdown \in BOOLEAN /\ stopped \in BOOLEAN
    /\ hook \in [url : BOOLEAN, pin : Nat, run : Nat] /\ cert \in Nat
    /\ pending \subseteq 1 .. sent
    /\ handled \subseteq [upd : 1 .. sent, run : Nat, mode : {"webhook", "polling"}, late : BOOLEAN]
    /\ floor \in 0 .. sent
    /\ sent \in 0 .. MaxUpdates /\ faults \in 0 .. MaxFaults /\ stops \in 0 .. MaxStops

\* While a run lives, Telegram has the webhook of that run only if the server
\* behind it listens (_run_webhook registers after TCPSite.start and removes
\* before runner.cleanup).
HookHasServer == phase # "off" /\ hook.url /\ hook.run = run => server

\* No update can reach a handler before the schema is complete, whatever was
\* cut off in earlier runs of migrate (main migrates before it serves).
ServesWithSchema == server \/ Pull => committed = Statements

\* getUpdates is never asked for while a webhook is set, though an earlier run
\* may have left one behind (_run_polling deletes it first).
PollsWithoutHook == Polling /\ phase = "serving" => ~ hook.url

\* With polling, what was sent before the start is never handled: the updates
\* of users whose dialogs the restart has lost are gone (drop_pending_updates).
PollsNothingLate == \A h \in handled : h.mode = "polling" => ~ h.late

\* What makes the safety properties inductive: which awaits the server, the
\* schema and the webhook of this run belong to, and that a polling run has
\* neither webhook nor old updates once it has dropped them.
ServerOK ==
    /\ server => phase \notin {"off", "migrate", "bind"}
    /\ Webhook /\ phase \in {"drop", "register", "serving", "unregister"} => server
    /\ Polling => phase \notin {"register", "unregister"}
    /\ Polling /\ phase = "drop" => ~ server
    /\ phase \notin {"off", "migrate"} => committed = Statements

HookOK ==
    /\ hook.url => hook.run <= run
    /\ phase # "off" /\ hook.url /\ hook.run = run =>
          Webhook /\ phase \in {"serving", "unregister"}

PollingOK ==
    Polling /\ phase \in {"bind", "serving", "cleanup"} =>
        ~ hook.url /\ \A u \in pending : u > floor

IndInv == TypeOK /\ ServerOK /\ HookOK /\ PollingOK /\ PollsNothingLate

\* Told to stop, a bot on webhook transport ends, at whatever await the signal
\* found it once main has installed its handlers, which is after migrate
\* (_signal_handler, shutdown_event); see SignalEarly for the time before.
StopsWhenTold == (shutdown /\ Webhook) ~> phase = "off"

\* On webhook transport no update is stuck for ever: it is handled or dropped,
\* across kills in the middle of migrate, failed calls, and renewals of the
\* certificate while the bot runs (the incident the comment in _run_webhook
\* describes).
NoUpdateIsStuck ==
    \A u \in 1 .. MaxUpdates : u \in pending ~> u \notin pending \/ Polling
==============================================================================
