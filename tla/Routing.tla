------------------------------- MODULE Routing -------------------------------
(***************************************************************************)
(* Which handler an update reaches.  app.py includes the document router   *)
(* before the admin router, and aiogram runs the first handler, in the     *)
(* order of registration, whose filters all match.  A filter looks at what *)
(* the update carries (its kind) and at the state the user's dialog had    *)
(* when the update was dispatched.                                         *)
(***************************************************************************)
EXTENDS Naturals, Sequences

\* core/fsm.py; "none" is the state of a user no dialog is open with, and of
\* a user the bot has never seen.
DialogStates == {"none", "entering_fields", "confirming", "waiting_password"}

\* What a message can carry, as far as any filter can tell.
MessageKinds == {"start", "create", "my_docs", "buy", "paid", "admin", "stats",
                 "limits", "access", "text"}

AnyState == DialogStates

\* The message handlers of both routers, first registered first.
MessageHandlers ==
    << [name |-> "cmd_start",      kinds |-> {"start"},    states |-> AnyState],
       [name |-> "start_create",   kinds |-> {"create"},   states |-> AnyState],
       [name |-> "enter_field",    kinds |-> MessageKinds, states |-> {"entering_fields"}],
       [name |-> "my_documents",   kinds |-> {"my_docs"},  states |-> AnyState],
       [name |-> "buy_docs",       kinds |-> {"buy"},      states |-> AnyState],
       [name |-> "on_paid",        kinds |-> {"paid"},     states |-> AnyState],
       [name |-> "cmd_admin",      kinds |-> {"admin"},    states |-> AnyState],
       [name |-> "check_password", kinds |-> MessageKinds, states |-> {"waiting_password"}],
       [name |-> "admin_stats",    kinds |-> {"stats"},    states |-> AnyState],
       [name |-> "admin_limits",   kinds |-> {"limits"},   states |-> AnyState],
       [name |-> "admin_access",   kinds |-> {"access"},   states |-> AnyState] >>

Matches(h, kind, state) == kind \in h.kinds /\ state \in h.states

\* h takes a message of this kind, sent in this dialog state: it matches, and
\* no handler registered before it does.
Routes(name, kind, state) ==
    \E i \in DOMAIN MessageHandlers :
        /\ MessageHandlers[i].name = name
        /\ Matches(MessageHandlers[i], kind, state)
        /\ \A j \in 1 .. i - 1 : ~ Matches(MessageHandlers[j], kind, state)

==============================================================================
