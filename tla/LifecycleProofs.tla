--------------------------- MODULE LifecycleProofs ---------------------------
(***************************************************************************)
(* The safety properties of Lifecycle, for any schema and any number of    *)
(* updates, faults, signals, restarts and renewals.                        *)
(***************************************************************************)
EXTENDS Lifecycle, TLAPS

\* The type invariant in two parts: the deliveries, and all else.
Deliveries == [upd : 1 .. sent, run : Nat, mode : {"webhook", "polling"}, late : BOOLEAN]

Scalars ==
    /\ mode \in {"webhook", "polling"} /\ phase \in Phases
    /\ run \in Nat /\ step \in 0 .. Statements /\ committed \in 0 .. Statements
    /\ server \in BOOLEAN /\ shutdown \in BOOLEAN /\ stopped \in BOOLEAN
    /\ hook \in [url : BOOLEAN, pin : Nat, run : Nat] /\ cert \in Nat
    /\ pending \subseteq 1 .. sent
    /\ floor \in 0 .. sent
    /\ sent \in 0 .. MaxUpdates /\ faults \in 0 .. MaxFaults /\ stops \in 0 .. MaxStops

\* A bounded counter stays within its bound.
LEMMA Counts == ASSUME NEW max \in Nat, NEW n \in 0 .. max, n < max
                PROVE  n + 1 \in 0 .. max
OBVIOUS

LEMMA HooksTyped == /\ NoHook \in [url : BOOLEAN, pin : Nat, run : Nat]
                    /\ run \in Nat => RegisteredHook \in [url : BOOLEAN, pin : Nat, run : Nat]
BY DEF NoHook, RegisteredHook

LEMMA InitOK == Init => IndInv
<1> SUFFICES ASSUME Init PROVE IndInv
    OBVIOUS
<1>1. Scalars
    <2>1. server \in BOOLEAN /\ shutdown \in BOOLEAN /\ stopped \in BOOLEAN
        BY DEF Init
    <2> QED BY <2>1, LifecycleAssumption, HooksTyped DEF Init, Scalars, Phases
<1>2. handled \subseteq Deliveries
    BY DEF Init
<1>3. ServerOK /\ HookOK /\ PollingOK /\ PollsNothingLate
    BY DEF Init, ServerOK, HookOK, PollingOK, PollsNothingLate, NoHook, Webhook, Polling
<1> QED BY <1>1, <1>2, <1>3 DEF IndInv, TypeOK, Scalars, Deliveries

LEMMA ScalarsStep == Scalars /\ [Next]_vars => Scalars'
<1> SUFFICES ASSUME Scalars, [Next]_vars PROVE Scalars'
    OBVIOUS
<1> USE LifecycleAssumption DEF Scalars, Phases, telegram, world, process
<1>1. CASE Start
    <2>1. shutdown' \in BOOLEAN /\ stopped' \in BOOLEAN
        BY <1>1 DEF Start
    <2> QED BY <1>1, <2>1 DEF Start, Go
<1>2. CASE Create
    BY <1>2 DEF Create
<1>3. CASE Migrated
    BY <1>3 DEF Migrated, Go
<1>4. CASE Bind
    BY <1>4 DEF Bind, Go
<1>5. CASE Drop
    BY <1>5, HooksTyped DEF Drop, DropPending, Go
<1>6. CASE Register
    BY <1>6, HooksTyped DEF Register, Go
<1>7. CASE Wake \/ Cleanup
    BY <1>7 DEF Wake, Cleanup, Exit, Go
<1>8. CASE Unregister
    BY <1>8, HooksTyped DEF Unregister, Go
<1>9. CASE Signal
    <2>1. stops' \in 0 .. MaxStops
        BY <1>9, Counts DEF Signal
    <2> QED BY <1>9, <2>1 DEF Signal
<1>18. CASE SignalEarly
    <2>1. stops' \in 0 .. MaxStops
        BY <1>18, Counts DEF SignalEarly
    <2> QED BY <1>18, <2>1 DEF SignalEarly, Exit, Go
<1>10. CASE PollingFails
    <2>1. faults' \in 0 .. MaxFaults
        BY <1>10, Counts DEF PollingFails
    <2> QED BY <1>10, <2>1 DEF PollingFails
<1>11. CASE Dies
    <2>1. faults' \in 0 .. MaxFaults
        BY <1>11, Counts DEF Dies
    <2> QED BY <1>11, <2>1 DEF Dies, Exit, Go
<1>12. CASE DiesAfterCall
    <2>1. faults' \in 0 .. MaxFaults
        BY <1>12, Counts DEF DiesAfterCall
    <2>2. pending' \subseteq 1 .. sent' /\ hook' \in [url : BOOLEAN, pin : Nat, run : Nat]
        BY <1>12, HooksTyped DEF DiesAfterCall, DropPending
    <2> QED BY <1>12, <2>1, <2>2 DEF DiesAfterCall, Exit, Go
<1>13. CASE SendUpdate
    <2>1. sent' \in 0 .. MaxUpdates /\ sent' = sent + 1
        BY <1>13, Counts DEF SendUpdate
    <2>2. pending' \subseteq 1 .. sent' /\ floor' \in 0 .. sent'
        BY <1>13, <2>1 DEF SendUpdate
    <2> QED BY <1>13, <2>1, <2>2 DEF SendUpdate
<1>14. CASE Deliver
    BY <1>14 DEF Deliver
<1>15. CASE Renew
    BY <1>15 DEF Renew
<1>16. CASE Reconfigure
    BY <1>16 DEF Reconfigure
<1>17. CASE UNCHANGED vars
    BY <1>17 DEF vars
<1> QED BY <1>1, <1>2, <1>3, <1>4, <1>5, <1>6, <1>7, <1>8, <1>9, <1>10, <1>11, <1>12,
           <1>13, <1>14, <1>15, <1>16, <1>17, <1>18 DEF Next, Main

LEMMA DeliveriesStep ==
    ASSUME Scalars, handled \subseteq Deliveries, [Next]_vars
    PROVE  (handled \subseteq Deliveries)'
<1>1. CASE Deliver
    <2>1. PICK u \in pending :
             handled' = handled \cup {[upd |-> u, run |-> run, mode |-> mode,
                                       late |-> u <= floor]}
        BY <1>1 DEF Deliver
    <2>2. (u <= floor) \in BOOLEAN
        OBVIOUS
    <2>3. [upd |-> u, run |-> run, mode |-> mode, late |-> u <= floor] \in Deliveries
        BY <2>2 DEF Deliveries, Scalars
    <2> QED BY <1>1, <2>1, <2>3 DEF Deliver, Deliveries
<1>2. CASE UNCHANGED handled /\ sent' \in {sent, sent + 1}
    <2>1. 1 .. sent \subseteq 1 .. sent'
        BY <1>2 DEF Scalars
    <2> QED BY <1>2, <2>1 DEF Deliveries
<1>3. Deliver \/ (UNCHANGED handled /\ sent' \in {sent, sent + 1})
    BY DEF Next, Main, vars, Start, Create, Migrated, Bind, Drop, Register, Wake, Unregister,
           Cleanup, SignalEarly, Signal, PollingFails, Dies, DiesAfterCall, SendUpdate, Renew, Reconfigure,
           telegram
<1> QED BY <1>1, <1>2, <1>3

LEMMA TypeStep == TypeOK /\ [Next]_vars => TypeOK'
<1> SUFFICES ASSUME TypeOK, [Next]_vars PROVE TypeOK'
    OBVIOUS
<1>1. Scalars /\ handled \subseteq Deliveries
    BY DEF TypeOK, Scalars, Deliveries
<1>2. Scalars' /\ (handled \subseteq Deliveries)'
    BY <1>1, ScalarsStep, DeliveriesStep
<1> QED BY <1>2 DEF TypeOK, Scalars, Deliveries

\* The rest of IndInv.
Places == ServerOK /\ HookOK /\ PollingOK /\ PollsNothingLate

LEMMA PlacesStep == IndInv /\ [Next]_vars => Places'
<1> SUFFICES ASSUME TypeOK, Places, TypeOK', [Next]_vars PROVE Places'
    BY TypeStep DEF IndInv, Places
<1> USE LifecycleAssumption DEF Places, ServerOK, HookOK, PollingOK, PollsNothingLate,
        Webhook, Polling, telegram, world, process
<1>1. CASE Start
    BY <1>1 DEF Start, Go, TypeOK
<1>2. CASE Create
    BY <1>2 DEF Create
<1>3. CASE Migrated
    BY <1>3 DEF Migrated, Go, TypeOK
<1>4. CASE Bind
    BY <1>4 DEF Bind, Go
<1>5. CASE Drop
    <2>1. hook' = NoHook /\ pending' = {} /\ UNCHANGED <<run, server, committed, handled, mode>>
        BY <1>5 DEF Drop, DropPending
    <2>2. phase = "drop" /\ phase' = IF Webhook THEN "register" ELSE "bind"
        BY <1>5 DEF Drop, Go
    <2>3. ~ NoHook.url
        BY DEF NoHook
    <2>4. ServerOK'
        <3>1. Webhook \/ Polling
            BY DEF TypeOK
        <3> QED BY <2>1, <2>2, <3>1
    <2>5. HookOK' /\ PollingOK'
        BY <2>1, <2>3
    <2> QED BY <2>1, <2>4, <2>5
<1>6. CASE Register
    BY <1>6 DEF Register, RegisteredHook, Go, TypeOK
<1>7. CASE Wake \/ Cleanup
    BY <1>7 DEF Wake, Cleanup, Exit, Go
<1>8. CASE Unregister
    BY <1>8 DEF Unregister, NoHook, Go, TypeOK
<1>9. CASE Signal \/ PollingFails
    BY <1>9 DEF Signal, PollingFails
<1>17. CASE SignalEarly
    BY <1>17 DEF SignalEarly, Exit, Go
<1>10. CASE Dies
    BY <1>10 DEF Dies, Exit, Go
<1>11. CASE DiesAfterCall
    BY <1>11 DEF DiesAfterCall, DropPending, RegisteredHook, NoHook, Exit, Go, TypeOK
<1>12. CASE SendUpdate
    BY <1>12 DEF SendUpdate, TypeOK
<1>13. CASE Deliver
    <2>1. PICK u \in pending :
             /\ pending' = pending \ {u}
             /\ handled' = handled \cup {[upd |-> u, run |-> run, mode |-> mode,
                                          late |-> u <= floor]}
        BY <1>13 DEF Deliver
    <2>2. Polling => u > floor
        BY <1>13 DEF Deliver, Push, Pull
    <2>3. Polling => ~ (u <= floor)
        BY <2>2 DEF TypeOK
    <2> DEFINE new == [upd |-> u, run |-> run, mode |-> mode, late |-> u <= floor]
    <2>4. new.mode = "polling" => ~ new.late
        BY <2>3
    <2> HIDE DEF new
    <2>5. handled' = handled \cup {new}
        BY <2>1 DEF new
    <2>6. PollsNothingLate'
        BY <2>4, <2>5
    <2> QED BY <1>13, <2>1, <2>6 DEF Deliver
<1>14. CASE Renew
    BY <1>14 DEF Renew
<1>15. CASE Reconfigure
    BY <1>15 DEF Reconfigure
<1>16. CASE UNCHANGED vars
    BY <1>16 DEF vars
<1> QED BY <1>1, <1>2, <1>3, <1>4, <1>5, <1>6, <1>7, <1>8, <1>9, <1>10, <1>11, <1>12,
           <1>13, <1>14, <1>15, <1>16, <1>17 DEF Next, Main

-----------------------------------------------------------------------------
(* The theorems *)

\* IndInv holds in every reachable state, of every run of the process.
THEOREM Invariance == Spec => []IndInv
<1>1. IndInv /\ [Next]_vars => IndInv'
    BY TypeStep, PlacesStep DEF IndInv, Places
<1> QED BY <1>1, InitOK, PTL DEF Spec

\* The variables keep their types.
THEOREM TypeCorrect == Spec => []TypeOK
<1>1. IndInv => TypeOK
    BY DEF IndInv
<1> QED BY <1>1, Invariance, PTL

\* Telegram is told of an address after the server listens there, and the
\* address is withdrawn before the server goes.
THEOREM HookThenServer == Spec => []HookHasServer
<1>1. IndInv => HookHasServer
    BY DEF IndInv, HookHasServer, ServerOK, HookOK
<1> QED BY <1>1, Invariance, PTL

\* Handlers only run on a complete schema.
THEOREM SchemaFirst == Spec => []ServesWithSchema
<1>1. IndInv => ServesWithSchema
    BY DEF IndInv, ServesWithSchema, ServerOK, Pull
<1> QED BY <1>1, Invariance, PTL

\* A polling run has no webhook, whatever an earlier run left.
THEOREM NoHookWhilePolling == Spec => []PollsWithoutHook
<1>1. IndInv => PollsWithoutHook
    BY DEF IndInv, PollsWithoutHook, PollingOK
<1> QED BY <1>1, Invariance, PTL

\* A polling run handles nothing that was sent before it dropped the updates.
THEOREM NothingLate == Spec => []PollsNothingLate
<1>1. IndInv => PollsNothingLate
    BY DEF IndInv
<1> QED BY <1>1, Invariance, PTL

==============================================================================
