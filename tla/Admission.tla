------------------------------ MODULE Admission -------------------------------
(***************************************************************************)
(* Who gets a message through, and who gets into the admin panel:          *)
(* core/throttling.py, core/errors.py and admin/handlers.py, from the      *)
(* start of the process to its end.  Nothing here survives a restart, so   *)
(* that a restart is another behaviour of this module.                     *)
(*                                                                         *)
(* The middlewares are nested Throttling(Retry(handler)), and the filters  *)
(* have been evaluated before them: a repeated body is neither throttled   *)
(* nor routed again.  Up to its first await a handler is one step.         *)
(*                                                                         *)
(* Time is counted in seconds since the start.  time.time() is a clock     *)
(* that somebody may set: it shows Boot + elapsed + forward - back.        *)
(***************************************************************************)
EXTENDS Integers, FiniteSets, Routing

CONSTANTS
    Users, Tasks,
    Blank, Junk,    \* items of ADMIN_IDS: white space, what int() refuses
    Envs,           \* values of ADMIN_IDS: sequences of items
    Interval,       \* min_interval of ThrottlingMiddleware
    MaxRetries,     \* max_retries of RetryMiddleware
    MaxAttempts,    \* wrong attempts after which AdminGate throttles
    Boot,           \* what time.time() shows at the start
    MaxTime,        \* bound: seconds
    MaxForward,     \* bound: seconds the clock is set forward, in all
    MaxBack         \* bound: seconds the clock is set back, in all

ASSUME AdmissionAssumption ==
    /\ Interval \in Nat \ {0}
    /\ MaxRetries \in Nat \ {0}
    /\ MaxAttempts \in Nat \ {0}
    /\ {Boot, MaxTime, MaxForward, MaxBack} \subseteq Nat
    /\ Boot >= Interval + MaxBack    \* no clock shows the first seconds of 1970

VARIABLES
    admins,         \* config.admin_ids, as a set
    last,           \* ThrottlingMiddleware._last_message
    fsm,            \* the dialog state of every user
    granted,        \* AdminGate: users who gave the password
    fails,          \* AdminGate: wrong attempts it remembers, each with the
                    \* message that made it and the pass of the body
    guesses,        \* history: the messages that reached check_password
    tasks,
    elapsed, forward, back,
    log             \* history: how many messages of a user were admitted, and
                    \* the time and the value of back at the last of them

clock == <<elapsed, forward, back>>
gate == <<granted, fails>>
vars == <<admins, last, fsm, granted, fails, guesses, tasks, elapsed, forward, back, log>>

Panel == {"admin_stats", "admin_limits", "admin_access"}
Handlers == Panel \cup {"cmd_admin", "check_password"}

Guess == [user : Users, right : BOOLEAN]

\* A task runs a handler for a user; a guess is known by its position.
Idle == [pc |-> "idle"]
Task == [pc : {"count", "answer", "sleep"}, handler : Handlers, user : Users,
         guess : Nat, pass : Nat]

-----------------------------------------------------------------------------
(* Configuration *)

\* from_env: blank items are skipped, and what is no number is only logged.
AdminIds(env) == {env[i] : i \in DOMAIN env} \ {Blank, Junk}

-----------------------------------------------------------------------------
(* Throttling *)

Now == Boot + elapsed + forward - back

\* Mutant: the distance of the two times, whatever their order.
AdmitsDistance(u) == IF Now >= last[u] THEN Now - last[u] >= Interval
                                       ELSE last[u] - Now >= Interval

\* now - last >= min_interval; last is 0.0 for a user not seen before.
Admits(u) == Now - last[u] >= Interval

\* The stamp of an admitted message.
Admit(u) ==
    /\ Admits(u)
    /\ last' = [last EXCEPT ![u] = Now]
    /\ log' = [log EXCEPT ![u] = [count |-> @.count + 1, at |-> elapsed, back |-> back]]

\* Mutant: every message starts the interval anew.
DropAndStamp(u) ==
    /\ ~ Admits(u)
    /\ last' = [last EXCEPT ![u] = Now]
    /\ UNCHANGED <<admins, fsm, gate, guesses, tasks, clock, log>>

\* return None: a message that came too early leaves no trace.
Drop(u) ==
    /\ ~ Admits(u)
    /\ UNCHANGED vars

-----------------------------------------------------------------------------
(* AdminGate of botkit-core, as the router and its tests use it *)

is_throttled(u) == Cardinality(fails[u]) >= MaxAttempts
is_admin(u) == u \in admins \cup granted

-----------------------------------------------------------------------------
(* Handlers up to their first await, for the task as it is then *)

CmdAdmin(t, task) ==
    /\ fsm' = [fsm EXCEPT ![task.user] = "waiting_password"]
    /\ tasks' = [tasks EXCEPT ![t] = task]
    /\ UNCHANGED gate

Authorize(u) ==
    /\ granted' = granted \cup {u}
    /\ fails' = [fails EXCEPT ![u] = {}]

\* Mutant: the grant comes before the comparison.
CountFailureEager(u, task) ==
    /\ fails' = [fails EXCEPT ![u] = @ \cup {<<task.guess, task.pass>>}]
    /\ granted' = granted \cup {u}

CountFailure(u, task) ==
    /\ fails' = [fails EXCEPT ![u] = @ \cup {<<task.guess, task.pass>>}]
    /\ UNCHANGED granted

\* Mutant: authorize decides alone, as before is_throttled was asked.
CheckUnthrottled(t, task) ==
    LET u == task.user
        right == guesses'[task.guess].right
    IN  /\ fsm' = [fsm EXCEPT ![u] = "none"]
        /\ tasks' = [tasks EXCEPT ![t] = task]
        /\ \/ right /\ Authorize(u)
           \/ ~ right /\ CountFailure(u, task)

\* Refused, authorized or counted; the state is cleared and the user answered.
CheckPassword(t, task) ==
    LET u == task.user
        right == guesses'[task.guess].right
    IN  /\ fsm' = [fsm EXCEPT ![u] = "none"]
        /\ tasks' = [tasks EXCEPT ![t] = task]
        /\ \/ is_throttled(u) /\ UNCHANGED gate
           \/ ~ is_throttled(u) /\ right /\ Authorize(u)
           \/ ~ is_throttled(u) /\ ~ right /\ CountFailure(u, task)

\* Nobody else is answered; admin_stats counts three tables first.
PanelHandler(t, task) ==
    /\ \/ ~ is_admin(task.user) /\ tasks' = [tasks EXCEPT ![t] = Idle]
       \/ /\ is_admin(task.user)
          /\ tasks' = [tasks EXCEPT ![t] =
                 IF task.handler = "admin_stats" THEN [task EXCEPT !.pc = "count"] ELSE task]
    /\ UNCHANGED <<fsm, gate>>

Body(t, task) ==
    \/ task.handler = "cmd_admin" /\ CmdAdmin(t, task)
    \/ task.handler = "check_password" /\ CheckPassword(t, task)
    \/ task.handler \in Panel /\ PanelHandler(t, task)

-----------------------------------------------------------------------------
(* Steps *)

\* A message for the admin router.  Only a text can be the password: the
\* buttons and commands that reach check_password are wrong guesses.
OnMessage(t, u, kind, right) ==
    /\ tasks[t] = Idle
    /\ right => kind = "text"
    /\ Admit(u)
    /\ \E name \in Handlers :
          /\ Routes(name, kind, fsm[u])
          /\ guesses' = IF name = "check_password"
                          THEN Append(guesses, [user |-> u, right |-> right]) ELSE guesses
          /\ Body(t, [pc |-> "answer", handler |-> name, user |-> u,
                      guess |-> IF name = "check_password" THEN Len(guesses') ELSE 0,
                      pass |-> 1])
    /\ UNCHANGED <<admins, clock>>

\* A message for the document router.
OtherMessage(u) ==
    /\ Admit(u)
    /\ UNCHANGED <<admins, fsm, gate, guesses, tasks, clock>>

\* The dialog opens a form or leaves one, by messages and by presses.  To the
\* filters of the admin router "confirming" is like no dialog.
Converse(u) ==
    /\ \E state \in {"none", "entering_fields"} : fsm' = [fsm EXCEPT ![u] = state]
    /\ UNCHANGED <<admins, last, gate, guesses, tasks, clock, log>>

Counted(t) ==
    /\ tasks[t].pc = "count"
    /\ tasks' = [tasks EXCEPT ![t].pc = "answer"]
    /\ UNCHANGED <<admins, last, fsm, gate, guesses, clock, log>>

\* The answer arrived, or an error came that nothing repeats.
Ends(t) ==
    /\ tasks[t].pc \in {"count", "answer"}
    /\ tasks' = [tasks EXCEPT ![t] = Idle]
    /\ UNCHANGED <<admins, last, fsm, gate, guesses, clock, log>>

\* Mutant: one repetition too many.
GivesUpLate(t) == tasks[t].pass > MaxRetries

GivesUp(t) == tasks[t].pass >= MaxRetries

\* A network error: sleep and repeat, or raise.
AnswerFails(t) ==
    /\ tasks[t].pc = "answer"
    /\ tasks' = [tasks EXCEPT ![t] = IF GivesUp(t) THEN Idle
                                                   ELSE [tasks[t] EXCEPT !.pc = "sleep"]]
    /\ UNCHANGED <<admins, last, fsm, gate, guesses, clock, log>>

Retry(t) ==
    /\ tasks[t].pc = "sleep"
    /\ UNCHANGED <<admins, last, guesses, clock, log>>
    /\ Body(t, [tasks[t] EXCEPT !.pc = "answer", !.pass = @ + 1])

\* The window of AdminGate: attempts grow old and are forgotten.
WindowPasses(u) ==
    /\ \E kept \in SUBSET fails[u] : fails' = [fails EXCEPT ![u] = kept]
    /\ UNCHANGED <<admins, last, fsm, granted, guesses, tasks, clock, log>>

Tick ==
    /\ elapsed < MaxTime
    /\ elapsed' = elapsed + 1
    /\ UNCHANGED <<admins, last, fsm, gate, guesses, tasks, forward, back, log>>

SetForward ==
    /\ \E d \in 1 .. MaxForward - forward : forward' = forward + d
    /\ UNCHANGED <<admins, last, fsm, gate, guesses, tasks, elapsed, back, log>>

SetBack ==
    /\ \E d \in 1 .. MaxBack - back : back' = back + d
    /\ UNCHANGED <<admins, last, fsm, gate, guesses, tasks, elapsed, forward, log>>

-----------------------------------------------------------------------------
\* validate refuses a configuration without admins.
Init ==
    /\ \E env \in Envs : admins = AdminIds(env)
    /\ admins # {}
    /\ last = [u \in Users |-> 0]
    /\ fsm = [u \in Users |-> "none"]
    /\ granted = {}
    /\ fails = [u \in Users |-> {}]
    /\ guesses = <<>>
    /\ tasks = [t \in Tasks |-> Idle]
    /\ elapsed = 0 /\ forward = 0 /\ back = 0
    /\ log = [u \in Users |-> [count |-> 0, at |-> 0, back |-> 0]]

Step(t) == Counted(t) \/ Ends(t) \/ AnswerFails(t) \/ Retry(t)

Clock == Tick \/ SetForward \/ SetBack

Next ==
    \/ \E t \in Tasks, u \in Users, kind \in MessageKinds, right \in BOOLEAN :
          OnMessage(t, u, kind, right)
    \/ \E u \in Users : OtherMessage(u) \/ Drop(u) \/ Converse(u) \/ WindowPasses(u)
    \/ \E t \in Tasks : Step(t)
    \/ Clock

Spec == Init /\ [][Next]_vars

-----------------------------------------------------------------------------
(* Properties *)

\* The variables have their types.
TypeOK ==
    /\ admins \subseteq (UNION {{env[i] : i \in DOMAIN env} : env \in Envs}) \ {Blank, Junk}
    /\ last \in [Users -> Int]
    /\ fsm \in [Users -> DialogStates]
    /\ granted \subseteq Users
    /\ fails \in [Users -> SUBSET (Nat \X Nat)]
    /\ guesses \in Seq(Guess)
    /\ tasks \in [Tasks -> {Idle} \cup Task]
    /\ {elapsed, forward, back} \subseteq Nat
    /\ log \in [Users -> [count : Nat, at : Nat, back : Nat]]

\* Users who have sent the password since the process started.
Proved == {guesses[i].user : i \in {j \in DOMAIN guesses : guesses[j].right}}

\* A panel handler gets to its first await for nobody but those the configuration
\* lists and those who have sent the password, whatever was retried or raced.
PanelIsEarned ==
    \A t \in Tasks :
        tasks[t] # Idle /\ tasks[t].handler \in Panel
        => tasks[t].user \in admins \cup Proved

\* The attempts in AdminGate's window never exceed its limit: guesses are refused
\* for the whole window, and neither retries nor parallel tasks get past that.
GuessesBounded == \A u \in Users : Cardinality(fails[u]) <= MaxAttempts

\* A retry counts a wrong password again, but max_retries times at most: who is
\* throttled has sent enough wrong passwords of their own to deserve it.
WrongGuesses(u) == {f[1] : f \in fails[u]}
LockoutIsEarned ==
    \A u \in Users :
        /\ \A i \in WrongGuesses(u) :
              i \in DOMAIN guesses /\ guesses[i] = [user |-> u, right |-> FALSE]
        /\ is_throttled(u) => Cardinality(WrongGuesses(u)) * MaxRetries >= MaxAttempts

\* However the clock is set, a user gets through no more than one message for
\* every interval that has passed or been skipped, and one.
FloodBounded ==
    \A u \in Users : log[u].count * Interval <= elapsed + forward + Interval

\* A user who has kept still for the interval, and for as long as the clock has
\* been set back since, is admitted; dropped messages do not count.
ShutOutBounded ==
    \A u \in Users :
        elapsed - log[u].at >= Interval + (back - log[u].back) => Admits(u)

-----------------------------------------------------------------------------
(* The inductive invariant *)

\* A task stands for a guess of its user, may do what it does, and has a pass left
\* when it sleeps.
TaskOK(task) ==
    /\ task.handler = "check_password" => /\ task.guess \in DOMAIN guesses
                                          /\ guesses[task.guess].user = task.user
    /\ task.handler \in Panel => task.user \in admins \cup Proved
    /\ task.pass \in 1 .. MaxRetries
    /\ task.pc = "sleep" => task.pass < MaxRetries

TasksOK == \A t \in Tasks : tasks[t] # Idle => TaskOK(tasks[t])

\* What the gate remembers was sent.
WrongOf(u) == {i \in DOMAIN guesses : guesses[i] = [user |-> u, right |-> FALSE]}
GateOK ==
    /\ granted \subseteq Proved
    /\ \A u \in Users : fails[u] \subseteq WrongOf(u) \X (1 .. MaxRetries)

\* last is the time the clock showed at the last admission, and the admissions
\* before it took their intervals.
StampOK(u) ==
    /\ log[u].at <= elapsed /\ log[u].back <= back
    /\ log[u].count = 0 => last[u] = 0 /\ log[u].at = 0 /\ log[u].back = 0
    /\ log[u].count > 0 =>
          LET shown == last[u] - Boot + log[u].back
          IN  /\ (log[u].count - 1) * Interval <= shown
              /\ shown <= log[u].at + forward

ClockOK == back <= MaxBack /\ \A u \in Users : StampOK(u)

IndInv == TypeOK /\ TasksOK /\ GateOK /\ GuessesBounded /\ ClockOK

==============================================================================
