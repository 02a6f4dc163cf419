-------------------------- MODULE AdmissionProofs ----------------------------
(***************************************************************************)
(* The safety properties of Admission, for any users, clocks, limits and   *)
(* numbers of retries.  IndInv falls into two halves that no step mixes:   *)
(* the stamps of the throttle, and the gate with the tasks before it.      *)
(***************************************************************************)
EXTENDS Admission, FiniteSetTheorems, TLAPS

Configured == (UNION {{env[i] : i \in DOMAIN env} : env \in Envs}) \ {Blank, Junk}

\* The throttle's half of the inductive invariant.
ClockInv ==
    /\ last \in [Users -> Int]
    /\ {elapsed, forward, back} \subseteq Nat
    /\ log \in [Users -> [count : Nat, at : Nat, back : Nat]]
    /\ ClockOK

\* The other half.
GateInv ==
    /\ admins \subseteq Configured
    /\ fsm \in [Users -> DialogStates]
    /\ granted \subseteq Users
    /\ fails \in [Users -> SUBSET (Nat \X Nat)]
    /\ guesses \in Seq(Guess)
    /\ tasks \in [Tasks -> {Idle} \cup Task]
    /\ TasksOK /\ GateOK /\ GuessesBounded

LEMMA Halves == IndInv <=> ClockInv /\ GateInv
BY DEF IndInv, TypeOK, ClockInv, GateInv, Configured

-----------------------------------------------------------------------------
(* The throttle *)

\* n - 1 intervals and one more are n.
LEMMA OneMore == \A n \in Int, k \in Int : n * k = (n - 1) * k + k
OBVIOUS

\* An admitted message keeps the stamps: it is an interval after the last one,
\* and the clock shows what has passed since the start.
LEMMA AdmitStep ==
    ASSUME ClockInv, NEW u \in Users, Admit(u), UNCHANGED clock
    PROVE  ClockInv'
<1> USE AdmissionAssumption
<1>1. /\ last' \in [Users -> Int] /\ log' \in [Users -> [count : Nat, at : Nat, back : Nat]]
      /\ elapsed' = elapsed /\ forward' = forward /\ back' = back
      /\ log'[u] = [count |-> log[u].count + 1, at |-> elapsed, back |-> back]
      /\ last'[u] = Now
      /\ \A v \in Users : v # u => last'[v] = last[v] /\ log'[v] = log[v]
    BY DEF Admit, ClockInv, Now, clock
<1>2. StampOK(u)'
    <2>1. CASE log[u].count = 0
        <3>1. log'[u].count - 1 = 0 /\ 0 * Interval = 0
            BY <1>1, <2>1
        <3> QED BY <1>1, <2>1, <3>1 DEF StampOK, ClockInv, ClockOK, Now
    <2>2. CASE log[u].count > 0
        <3> DEFINE c == log[u].count
        <3>1. c \in Nat /\ log[u].at \in Nat /\ log[u].back \in Nat /\ last[u] \in Int
            BY DEF ClockInv
        <3>2. (c - 1) * Interval <= last[u] - Boot + log[u].back /\ log[u].back <= back
            BY <2>2 DEF ClockInv, ClockOK, StampOK
        <3>3. Now - last[u] >= Interval
            BY DEF Admit, Admits
        <3>4. c * Interval = (c - 1) * Interval + Interval
            BY <3>1, OneMore
        <3>5. (c - 1) * Interval \in Int
            BY <3>1
        <3>6. c * Interval <= Now - Boot + back
            BY <3>1, <3>2, <3>3, <3>4, <3>5 DEF ClockInv, Now
        <3>7. log'[u].count - 1 = c
            BY <1>1, <3>1
        <3> QED BY <1>1, <3>1, <3>6, <3>7 DEF StampOK, ClockInv, Now
    <2> QED BY <2>1, <2>2 DEF ClockInv
<1>3. ASSUME NEW v \in Users, v # u PROVE StampOK(v)'
    BY <1>1, <1>3 DEF StampOK, ClockInv, ClockOK
<1> QED BY <1>1, <1>2, <1>3 DEF ClockInv, ClockOK

\* Time that passes, and a clock that is set either way, leave the stamps right.
LEMMA ClockStep ==
    ASSUME ClockInv, Clock
    PROVE  ClockInv'
<1>1. /\ last' = last /\ log' = log
      /\ elapsed' \in Nat /\ forward' \in Nat /\ back' \in Nat
      /\ elapsed <= elapsed' /\ forward <= forward' /\ back <= back' /\ back' <= MaxBack
    <2> USE AdmissionAssumption
    <2>1. CASE Tick BY <2>1 DEF Tick, ClockInv, ClockOK
    <2>2. CASE SetForward BY <2>2 DEF SetForward, ClockInv, ClockOK
    <2>3. CASE SetBack BY <2>3 DEF SetBack, ClockInv, ClockOK
    <2> QED BY <2>1, <2>2, <2>3 DEF Clock
<1>2. ASSUME NEW u \in Users PROVE StampOK(u)'
    <2>1. /\ log[u].count \in Nat /\ log[u].at \in Nat /\ log[u].back \in Nat /\ last[u] \in Int
          /\ elapsed \in Nat /\ forward \in Nat /\ back \in Nat
        BY DEF ClockInv
    <2>2. StampOK(u)
        BY DEF ClockInv, ClockOK
    <2> QED BY <1>1, <2>1, <2>2, AdmissionAssumption DEF StampOK
<1> QED BY <1>1, <1>2 DEF ClockInv, ClockOK

-----------------------------------------------------------------------------
(* The gate *)

\* guesses only grows at its end.
Grows == /\ guesses' \in Seq(Guess)
         /\ \A i \in DOMAIN guesses : i \in DOMAIN guesses' /\ guesses'[i] = guesses[i]

\* What was sent stays sent.
LEMMA Monotone ==
    ASSUME GateInv, Grows, UNCHANGED admins
    PROVE  /\ Proved \subseteq Proved'
           /\ \A u \in Users : WrongOf(u) \subseteq WrongOf(u)'
           /\ \A task \in Task : TaskOK(task) => TaskOK(task)'
<1>1. Proved \subseteq Proved'
    BY DEF Grows, Proved
<1>2. \A u \in Users : WrongOf(u) \subseteq WrongOf(u)'
    BY DEF Grows, WrongOf
<1>3. ASSUME NEW task \in Task, TaskOK(task) PROVE TaskOK(task)'
    BY <1>1, <1>3 DEF Grows, TaskOK
<1> QED BY <1>1, <1>2, <1>3

\* The attempts of a user are finitely many.
LEMMA FailsFinite ==
    ASSUME GateInv, NEW u \in Users
    PROVE  IsFiniteSet(fails[u]) /\ Cardinality(fails[u]) \in Nat
<1>1. guesses \in Seq(Guess) /\ MaxRetries \in Nat
    BY AdmissionAssumption DEF GateInv
<1>2. IsFiniteSet(1 .. Len(guesses)) /\ IsFiniteSet(1 .. MaxRetries)
    BY <1>1, FS_Interval
<1>3. IsFiniteSet((1 .. Len(guesses)) \X (1 .. MaxRetries))
    BY <1>2, FS_Product
<1>4. WrongOf(u) \subseteq 1 .. Len(guesses)
    BY <1>1 DEF WrongOf
<1>5. fails[u] \subseteq WrongOf(u) \X (1 .. MaxRetries)
    BY DEF GateInv, GateOK
<1>6. fails[u] \subseteq (1 .. Len(guesses)) \X (1 .. MaxRetries)
    BY <1>4, <1>5
<1> QED BY <1>3, <1>6, FS_Subset, FS_CardinalityType

\* A body on its first pass or a later one.
LEMMA BodyStep ==
    ASSUME GateInv, Grows, UNCHANGED admins, NEW t \in Tasks, NEW task \in Task,
           task.pc = "answer", task.pass \in 1 .. MaxRetries,
           task.handler = "check_password" => /\ task.guess \in DOMAIN guesses'
                                              /\ guesses'[task.guess].user = task.user,
           Body(t, task)
    PROVE  GateInv'
<1> DEFINE u == task.user
<1>1. /\ u \in Users /\ task.guess \in Nat /\ task.pass \in Nat
      /\ guesses' \in Seq(Guess) /\ admins' = admins
    BY DEF Task, Grows
<1>2. /\ Proved \subseteq Proved'
      /\ \A v \in Users : WrongOf(v) \subseteq WrongOf(v)'
      /\ \A k \in Task : TaskOK(k) => TaskOK(k)'
    BY Monotone
<1>3. CASE task.handler = "cmd_admin" /\ CmdAdmin(t, task)
    <2>1. UNCHANGED <<granted, fails>> /\ fsm' \in [Users -> DialogStates]
        BY <1>1, <1>3 DEF CmdAdmin, gate, GateInv, DialogStates
    <2>2. tasks' = [tasks EXCEPT ![t] = task]
        BY <1>3 DEF CmdAdmin
    <2>3. TaskOK(task)'
        BY <1>1, <1>3 DEF TaskOK, Panel
    <2>4. TasksOK' /\ tasks' \in [Tasks -> {Idle} \cup Task]
        BY <1>2, <2>2, <2>3 DEF TasksOK, GateInv
    <2>5. GateOK' /\ GuessesBounded'
        BY <1>2, <2>1 DEF GateOK, GuessesBounded, GateInv
    <2> QED BY <1>1, <2>1, <2>4, <2>5 DEF GateInv
<1>4. CASE task.handler = "check_password" /\ CheckPassword(t, task)
    <2> DEFINE i == task.guess
    <2>1. /\ i \in DOMAIN guesses' /\ guesses'[i].user = u /\ guesses'[i] \in Guess
        BY <1>1, <1>4
    <2>2. tasks' = [tasks EXCEPT ![t] = task] /\ fsm' \in [Users -> DialogStates]
        BY <1>1, <1>4 DEF CheckPassword, GateInv, DialogStates
    <2>3. TaskOK(task)'
        BY <1>1, <1>4, <2>1 DEF TaskOK, Panel
    <2>4. TasksOK' /\ tasks' \in [Tasks -> {Idle} \cup Task]
        BY <1>2, <2>2, <2>3 DEF TasksOK, GateInv
    <2>5. /\ granted' \subseteq Users /\ fails' \in [Users -> SUBSET (Nat \X Nat)]
          /\ GateOK' /\ GuessesBounded'
        <3>1. CASE is_throttled(u) /\ UNCHANGED gate
            BY <1>2, <3>1 DEF gate, GateOK, GuessesBounded, GateInv
        <3>2. CASE ~ is_throttled(u) /\ guesses'[i].right /\ Authorize(u)
            <4>1. u \in Proved'
                BY <2>1, <3>2 DEF Proved
            <4>2. granted' = granted \cup {u} /\ fails' = [fails EXCEPT ![u] = {}]
                BY <3>2 DEF Authorize
            <4>3. GateOK'
                BY <1>1, <1>2, <4>1, <4>2 DEF GateOK, GateInv
            <4>4. GuessesBounded'
                <5>1. Cardinality({}) = 0 /\ 0 <= MaxAttempts
                    BY FS_EmptySet, AdmissionAssumption
                <5> QED BY <1>1, <4>2, <5>1 DEF GuessesBounded, GateInv
            <4> QED BY <1>1, <4>2, <4>3, <4>4 DEF GateInv
        <3>3. CASE ~ is_throttled(u) /\ ~ guesses'[i].right /\ CountFailure(u, task)
            <4>1. granted' = granted /\ fails' = [fails EXCEPT ![u] = @ \cup {<<i, task.pass>>}]
                BY <3>3 DEF CountFailure
            <4>2. i \in WrongOf(u)'
                BY <1>1, <2>1, <3>3 DEF WrongOf, Guess
            <4>3. fails' \in [Users -> SUBSET (Nat \X Nat)]
                BY <1>1, <4>1 DEF GateInv
            <4>4. GateOK'
                <5>1. ASSUME NEW v \in Users
                      PROVE  fails'[v] \subseteq WrongOf(v)' \X (1 .. MaxRetries)
                    <6>1. fails[v] \subseteq WrongOf(v)' \X (1 .. MaxRetries)
                        BY <1>2 DEF GateOK, GateInv
                    <6> QED BY <1>1, <4>1, <4>2, <6>1 DEF GateInv
                <5> QED BY <1>2, <4>1, <5>1 DEF GateOK, GateInv
            <4>5. GuessesBounded'
                <5>1. IsFiniteSet(fails[u]) /\ Cardinality(fails[u]) \in Nat
                    BY <1>1, FailsFinite
                <5>2. /\ IsFiniteSet(fails[u] \cup {<<i, task.pass>>})
                      /\ Cardinality(fails[u] \cup {<<i, task.pass>>}) =
                            IF <<i, task.pass>> \in fails[u] THEN Cardinality(fails[u])
                                                           ELSE Cardinality(fails[u]) + 1
                    BY <5>1, FS_AddElement
                <5>3. fails'[u] = fails[u] \cup {<<i, task.pass>>}
                    BY <1>1, <4>1 DEF GateInv
                <5>4. Cardinality(fails[u]) < MaxAttempts
                    BY <3>3, <5>1, AdmissionAssumption DEF is_throttled
                <5>5. Cardinality(fails'[u]) <= MaxAttempts
                    BY <5>1, <5>2, <5>3, <5>4, AdmissionAssumption
                <5> QED BY <1>1, <4>1, <5>5 DEF GuessesBounded, GateInv
            <4> QED BY <4>1, <4>3, <4>4, <4>5 DEF GateInv
        <3> QED BY <1>4, <3>1, <3>2, <3>3 DEF CheckPassword
    <2> QED BY <1>1, <2>2, <2>4, <2>5 DEF GateInv
<1>5. CASE task.handler \in Panel /\ PanelHandler(t, task)
    <2>1. UNCHANGED <<fsm, granted, fails>>
        BY <1>5 DEF PanelHandler, gate
    <2>2. GateOK' /\ GuessesBounded'
        BY <1>2, <2>1 DEF GateOK, GuessesBounded, GateInv
    <2>3. TasksOK' /\ tasks' \in [Tasks -> {Idle} \cup Task]
        <3>1. CASE ~ is_admin(u) /\ tasks' = [tasks EXCEPT ![t] = Idle]
            BY <1>2, <3>1 DEF TasksOK, GateInv
        <3>2. ASSUME is_admin(u), NEW pc \in {"count", "answer"},
                     tasks' = [tasks EXCEPT ![t] = [task EXCEPT !.pc = pc]]
              PROVE  TasksOK' /\ tasks' \in [Tasks -> {Idle} \cup Task]
            <4> DEFINE k == [task EXCEPT !.pc = pc]
            <4>1. /\ k \in Task /\ k.pc = pc /\ k.handler = task.handler /\ k.user = u
                  /\ k.pass = task.pass
                BY DEF Task
            <4>2. u \in admins' \cup Proved'
                BY <1>1, <1>2, <3>2 DEF is_admin, GateInv, GateOK
            <4> HIDE DEF k
            <4>3. TaskOK(k)'
                BY <1>5, <4>1, <4>2 DEF TaskOK, Panel
            <4>4. tasks' = [tasks EXCEPT ![t] = k]
                BY <3>2 DEF k
            <4> QED BY <1>2, <4>1, <4>3, <4>4 DEF TasksOK, GateInv
        <3>3. [task EXCEPT !.pc = "answer"] = task
            BY DEF Task
        <3> QED BY <1>5, <3>1, <3>2, <3>3 DEF PanelHandler
    <2> QED BY <1>1, <2>1, <2>2, <2>3 DEF GateInv
<1> QED BY <1>3, <1>4, <1>5 DEF Body

LEMMA OnMessageStep ==
    ASSUME GateInv, NEW t \in Tasks, NEW u \in Users, NEW kind \in MessageKinds,
           NEW right \in BOOLEAN, OnMessage(t, u, kind, right)
    PROVE  GateInv'
<1>1. PICK name \in Handlers :
         /\ guesses' = IF name = "check_password"
                         THEN Append(guesses, [user |-> u, right |-> right]) ELSE guesses
         /\ Body(t, [pc |-> "answer", handler |-> name, user |-> u,
                     guess |-> IF name = "check_password" THEN Len(guesses') ELSE 0,
                     pass |-> 1])
    BY DEF OnMessage
<1> DEFINE task == [pc |-> "answer", handler |-> name, user |-> u,
                    guess |-> IF name = "check_password" THEN Len(guesses') ELSE 0,
                    pass |-> 1]
<1>2. guesses \in Seq(Guess) /\ [user |-> u, right |-> right] \in Guess
    BY DEF GateInv, Guess
<1>3. Grows /\ Len(guesses') \in Nat
    BY <1>1, <1>2 DEF Grows
<1>4. task \in Task
    BY <1>3 DEF Task
<1>5. name = "check_password" => /\ Len(guesses') \in DOMAIN guesses'
                                 /\ guesses'[Len(guesses')].user = u
    BY <1>1, <1>2
<1>6. admins' = admins /\ 1 \in 1 .. MaxRetries
    BY AdmissionAssumption DEF OnMessage
<1>7. /\ task.pc = "answer" /\ task.pass \in 1 .. MaxRetries
      /\ task.handler = "check_password" => /\ task.guess \in DOMAIN guesses'
                                            /\ guesses'[task.guess].user = task.user
    BY <1>5, <1>6
<1>8. Body(t, task)
    BY <1>1
<1> HIDE DEF task
<1> QED BY <1>3, <1>4, <1>6, <1>7, <1>8, BodyStep

LEMMA RetryStep ==
    ASSUME GateInv, NEW t \in Tasks, Retry(t)
    PROVE  GateInv'
<1> DEFINE k == tasks[t]
           task == [k EXCEPT !.pc = "answer", !.pass = @ + 1]
<1>1. k.pc = "sleep" /\ Body(t, task) /\ admins' = admins /\ guesses' = guesses
    BY DEF Retry
<1>2. k \in Task /\ TaskOK(k)
    BY <1>1 DEF GateInv, TasksOK, Idle
<1>3. /\ task \in Task /\ task.pc = "answer" /\ task.pass = k.pass + 1 /\ k.pass \in Nat
      /\ task.handler = k.handler /\ task.guess = k.guess /\ task.user = k.user
    <2>1. k.pass \in Nat /\ k.pass + 1 \in Nat
        BY <1>2 DEF Task
    <2> QED BY <1>2, <2>1 DEF Task
<1>4. task.pass \in 1 .. MaxRetries
    BY <1>1, <1>2, <1>3, AdmissionAssumption DEF TaskOK
<1>5. Grows
    BY <1>1 DEF Grows, GateInv
<1>6. task.handler = "check_password" => /\ task.guess \in DOMAIN guesses'
                                         /\ guesses'[task.guess].user = task.user
    BY <1>1, <1>2, <1>3 DEF TaskOK
<1> HIDE DEF task
<1> QED BY <1>1, <1>3, <1>4, <1>5, <1>6, BodyStep

\* A task that ends, counts or goes to sleep keeps what it is about.
LEMMA TaskStep ==
    ASSUME GateInv, NEW t \in Tasks, Counted(t) \/ Ends(t) \/ AnswerFails(t)
    PROVE  GateInv'
<1>1. UNCHANGED <<admins, fsm, granted, fails, guesses>>
    BY DEF Counted, Ends, AnswerFails, gate
<1>2. Grows
    BY <1>1 DEF Grows, GateInv
<1>3. \A k \in Task : TaskOK(k) => TaskOK(k)'
    BY <1>1, <1>2, Monotone
<1>4. TasksOK' /\ tasks' \in [Tasks -> {Idle} \cup Task]
    <2>1. CASE tasks' = [tasks EXCEPT ![t] = Idle]
        BY <1>3, <2>1 DEF TasksOK, GateInv
    <2>2. ASSUME NEW pc \in {"answer", "sleep"}, tasks[t].pc \in {"count", "answer"},
                 pc = "sleep" => ~ GivesUp(t),
                 tasks' = [tasks EXCEPT ![t] = [tasks[t] EXCEPT !.pc = pc]]
          PROVE  TasksOK' /\ tasks' \in [Tasks -> {Idle} \cup Task]
        <3> DEFINE k == tasks[t]
                   n == [k EXCEPT !.pc = pc]
        <3>1. k \in Task /\ TaskOK(k)
            BY <2>2 DEF GateInv, TasksOK, Idle
        <3>2. /\ n \in Task /\ n.pc = pc /\ n.handler = k.handler /\ n.user = k.user
              /\ n.guess = k.guess /\ n.pass = k.pass /\ k.pass \in Nat
            BY <3>1 DEF Task
        <3> HIDE DEF n
        <3>3. TaskOK(n)
            BY <2>2, <3>1, <3>2, AdmissionAssumption DEF TaskOK, GivesUp
        <3>4. tasks' = [tasks EXCEPT ![t] = n]
            BY <2>2 DEF n
        <3> QED BY <1>3, <3>2, <3>3, <3>4 DEF TasksOK, GateInv
    <2>3. CASE Counted(t)
        BY <2>2, <2>3 DEF Counted
    <2>4. CASE Ends(t)
        BY <2>1, <2>4 DEF Ends
    <2>5. CASE AnswerFails(t)
        BY <2>1, <2>2, <2>5 DEF AnswerFails
    <2> QED BY <2>3, <2>4, <2>5
<1>5. GateOK' /\ GuessesBounded'
    BY <1>1 DEF GateOK, GuessesBounded, GateInv, Proved, WrongOf
<1> QED BY <1>1, <1>4, <1>5 DEF GateInv

LEMMA WindowStep ==
    ASSUME GateInv, NEW u \in Users, WindowPasses(u)
    PROVE  GateInv'
<1>1. PICK kept \in SUBSET fails[u] : fails' = [fails EXCEPT ![u] = kept]
    BY DEF WindowPasses
<1>2. UNCHANGED <<admins, fsm, granted, guesses, tasks>>
    BY DEF WindowPasses
<1>3. fails' \in [Users -> SUBSET (Nat \X Nat)]
    BY <1>1 DEF GateInv
<1>4. \A v \in Users : fails'[v] \subseteq fails[v]
    BY <1>1 DEF GateInv
<1>5. GateOK'
    BY <1>2, <1>4 DEF GateOK, GateInv, Proved, WrongOf
<1>6. ASSUME NEW v \in Users PROVE Cardinality(fails'[v]) <= MaxAttempts
    <2>1. IsFiniteSet(fails[v]) /\ Cardinality(fails[v]) \in Nat
        BY FailsFinite
    <2>2. Cardinality(fails'[v]) <= Cardinality(fails[v]) /\ Cardinality(fails'[v]) \in Nat
        BY <1>4, <2>1, FS_Subset, FS_CardinalityType
    <2>3. Cardinality(fails[v]) <= MaxAttempts
        BY DEF GateInv, GuessesBounded
    <2> QED BY <2>1, <2>2, <2>3, AdmissionAssumption
<1>7. TasksOK'
    BY <1>2 DEF TasksOK, TaskOK, GateInv, Proved
<1> QED BY <1>2, <1>3, <1>5, <1>6, <1>7 DEF GateInv, GuessesBounded

\* Steps that the gate does not see.
LEMMA GateUnchanged ==
    ASSUME GateInv, UNCHANGED <<admins, granted, fails, guesses, tasks>>,
           fsm' \in [Users -> DialogStates]
    PROVE  GateInv'
BY DEF GateInv, TasksOK, TaskOK, GateOK, GuessesBounded, Proved, WrongOf

-----------------------------------------------------------------------------
(* The theorems *)

LEMMA Initially == Init => IndInv
<1> SUFFICES ASSUME Init PROVE IndInv
    OBVIOUS
<1>1. ClockInv
    BY AdmissionAssumption DEF Init, ClockInv, ClockOK, StampOK
<1>2. admins \subseteq Configured
    BY DEF Init, AdminIds, Configured
<1>3. GateOK /\ TasksOK
    BY DEF Init, GateOK, TasksOK, Proved
<1>4. GuessesBounded
    BY FS_EmptySet, AdmissionAssumption DEF Init, GuessesBounded
<1>5. guesses \in Seq(Guess)
    BY DEF Init
<1> QED BY <1>1, <1>2, <1>3, <1>4, <1>5, Halves DEF GateInv, Init, DialogStates

LEMMA Inductive == IndInv /\ [Next]_vars => IndInv'
<1> SUFFICES ASSUME ClockInv, GateInv, [Next]_vars PROVE ClockInv' /\ GateInv'
    BY DEF IndInv, TypeOK, ClockInv, GateInv, Configured
<1>1. ASSUME NEW t \in Tasks, NEW u \in Users, NEW kind \in MessageKinds,
             NEW right \in BOOLEAN, OnMessage(t, u, kind, right)
      PROVE  ClockInv' /\ GateInv'
    BY <1>1, AdmitStep, OnMessageStep DEF OnMessage
<1>2. ASSUME NEW u \in Users, OtherMessage(u) PROVE ClockInv' /\ GateInv'
    <2>1. fsm' \in [Users -> DialogStates]
        BY <1>2 DEF OtherMessage, GateInv
    <2> QED BY <1>2, <2>1, AdmitStep, GateUnchanged DEF OtherMessage, gate
<1>3. ASSUME NEW u \in Users, Converse(u) PROVE ClockInv' /\ GateInv'
    <2>1. fsm' \in [Users -> DialogStates]
        BY <1>3 DEF Converse, GateInv, DialogStates
    <2>2. ClockInv'
        BY <1>3 DEF Converse, clock, ClockInv, ClockOK, StampOK
    <2> QED BY <1>3, <2>1, <2>2, GateUnchanged DEF Converse, gate
<1>4. ASSUME NEW u \in Users, WindowPasses(u) PROVE ClockInv' /\ GateInv'
    BY <1>4, WindowStep DEF WindowPasses, clock, ClockInv, ClockOK, StampOK
<1>5. ASSUME NEW t \in Tasks, Step(t) PROVE ClockInv' /\ GateInv'
    <2>1. GateInv'
        BY <1>5, TaskStep, RetryStep DEF Step
    <2>2. UNCHANGED <<last, clock, log>>
        BY <1>5 DEF Step, Counted, Ends, AnswerFails, Retry
    <2> QED BY <2>1, <2>2 DEF clock, ClockInv, ClockOK, StampOK
<1>6. CASE Clock
    <2>1. /\ UNCHANGED <<admins, granted, fails, guesses, tasks>>
          /\ fsm' \in [Users -> DialogStates]
        BY <1>6 DEF Clock, Tick, SetForward, SetBack, gate, GateInv
    <2> QED BY <1>6, <2>1, ClockStep, GateUnchanged
<1>7. CASE UNCHANGED vars
    <2>1. fsm' \in [Users -> DialogStates]
        BY <1>7 DEF vars, GateInv
    <2> QED BY <1>7, <2>1, GateUnchanged DEF vars, ClockInv, ClockOK, StampOK
<1> QED BY <1>1, <1>2, <1>3, <1>4, <1>5, <1>6, <1>7 DEF Next, Drop

\* IndInv holds in every state, for all constants.
THEOREM Invariance == Spec => []IndInv
<1>1. Init => IndInv BY Initially
<1>2. IndInv /\ [Next]_vars => IndInv' BY Inductive
<1> QED BY <1>1, <1>2, PTL DEF Spec

\* The variables have their types.
THEOREM TypeCorrect == Spec => []TypeOK
<1>1. IndInv => TypeOK BY DEF IndInv
<1> QED BY <1>1, Invariance, PTL

\* The panel of admin/handlers.py works for configured admins and for those who
\* have sent the password.
THEOREM PanelEarned == Spec => []PanelIsEarned
<1>1. IndInv => PanelIsEarned
    BY DEF IndInv, TasksOK, TaskOK, PanelIsEarned
<1> QED BY <1>1, Invariance, PTL

\* The gate never remembers more wrong attempts than its limit.
THEOREM Guesses == Spec => []GuessesBounded
<1>1. IndInv => GuessesBounded BY DEF IndInv
<1> QED BY <1>1, Invariance, PTL

\* A throttled user has sent MaxAttempts / MaxRetries wrong passwords or more.
THEOREM Earned == Spec => []LockoutIsEarned
<1>1. ASSUME IndInv, NEW u \in Users
      PROVE  /\ \A i \in WrongGuesses(u) :
                    i \in DOMAIN guesses /\ guesses[i] = [user |-> u, right |-> FALSE]
             /\ is_throttled(u) => Cardinality(WrongGuesses(u)) * MaxRetries >= MaxAttempts
    <2> DEFINE W == WrongGuesses(u)
               P == 1 .. MaxRetries
    <2>1. GateInv
        BY <1>1, Halves
    <2>2. fails[u] \subseteq WrongOf(u) \X P
        BY <2>1 DEF GateInv, GateOK
    <2>3. W \subseteq WrongOf(u)
        BY <2>2 DEF WrongGuesses
    <2>4. fails[u] \subseteq W \X P
        BY <2>2 DEF WrongGuesses
    <2>5. IsFiniteSet(W)
        <3>1. guesses \in Seq(Guess) /\ IsFiniteSet(1 .. Len(guesses))
            BY <2>1, FS_Interval DEF GateInv
        <3>2. W \subseteq 1 .. Len(guesses)
            BY <2>3, <3>1 DEF WrongOf
        <3> QED BY <3>1, <3>2, FS_Subset
    <2>6. IsFiniteSet(P) /\ Cardinality(P) = MaxRetries /\ MaxRetries \in Nat
        BY FS_Interval, AdmissionAssumption
    <2>7. IsFiniteSet(W \X P) /\ Cardinality(W \X P) = Cardinality(W) * MaxRetries
        BY <2>5, <2>6, FS_Product
    <2>8. Cardinality(fails[u]) <= Cardinality(W) * MaxRetries
        BY <2>4, <2>7, FS_Subset
    <2>9. Cardinality(fails[u]) \in Nat /\ Cardinality(W) * MaxRetries \in Nat
        BY <2>1, <2>7, FailsFinite, FS_CardinalityType
    <2>10. is_throttled(u) => Cardinality(W) * MaxRetries >= MaxAttempts
        BY <2>8, <2>9, AdmissionAssumption DEF is_throttled
    <2> QED BY <2>3, <2>10 DEF WrongOf
<1>2. IndInv => LockoutIsEarned
    BY <1>1 DEF LockoutIsEarned
<1> QED BY <1>2, Invariance, PTL

\* Setting the clock back lets nobody in early.
THEOREM Flood == Spec => []FloodBounded
<1>1. ASSUME IndInv, NEW u \in Users
      PROVE  log[u].count * Interval <= elapsed + forward + Interval
    <2> DEFINE c == log[u].count
    <2>1. /\ c \in Nat /\ log[u].at \in Nat /\ log[u].back \in Nat /\ last[u] \in Int
          /\ elapsed \in Nat /\ forward \in Nat /\ Interval \in Nat /\ Boot \in Nat
        BY <1>1, Halves, AdmissionAssumption DEF ClockInv
    <2>2. StampOK(u)
        BY <1>1 DEF IndInv, ClockOK
    <2>3. c * Interval = (c - 1) * Interval + Interval /\ (c - 1) * Interval \in Int
        BY <2>1, OneMore
    <2>4. CASE c = 0
        <3>1. 0 * Interval = 0
            BY <2>1
        <3> QED BY <2>1, <2>4, <3>1
    <2>5. CASE c > 0
        BY <2>1, <2>2, <2>3, <2>5 DEF StampOK
    <2> QED BY <2>1, <2>4, <2>5
<1>2. IndInv => FloodBounded
    BY <1>1 DEF FloodBounded
<1> QED BY <1>2, Invariance, PTL

\* Setting the clock back shuts nobody out for longer than it was set back.
THEOREM ShutOut == Spec => []ShutOutBounded
<1>1. ASSUME IndInv, NEW u \in Users, elapsed - log[u].at >= Interval + (back - log[u].back)
      PROVE  Admits(u)
    <2>1. /\ log[u].count \in Nat /\ log[u].at \in Nat /\ log[u].back \in Nat /\ last[u] \in Int
          /\ elapsed \in Nat /\ forward \in Nat /\ back \in Nat /\ back <= MaxBack
        BY <1>1, Halves DEF ClockInv, ClockOK
    <2>2. StampOK(u)
        BY <1>1 DEF IndInv, ClockOK
    <2>3. CASE log[u].count = 0
        BY <2>1, <2>2, <2>3, AdmissionAssumption DEF StampOK, Admits, Now
    <2>4. CASE log[u].count > 0
        BY <1>1, <2>1, <2>2, <2>4, AdmissionAssumption DEF StampOK, Admits, Now
    <2> QED BY <2>1, <2>3, <2>4
<1>2. IndInv => ShutOutBounded
    BY <1>1 DEF ShutOutBounded
<1> QED BY <1>2, Invariance, PTL

==============================================================================
