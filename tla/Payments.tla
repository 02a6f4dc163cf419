------------------------------ MODULE Payments -------------------------------
(***************************************************************************)
(* Selling a pack of documents: buy_docs, pre_checkout and on_paid of      *)
(* docuflow/handlers.py, add_quota and record_payment of                   *)
(* docuflow/service.py, under ThrottlingMiddleware and RetryMiddleware,    *)
(* next to the other messages of the same user.                            *)
(*                                                                         *)
(* A purchase is followed from the pre-checkout query to its last step; its *)
(* stage is the await of the handler that works on it, or where its update *)
(* is.  The rows of the tables are kept per purchase: credits is how many  *)
(* packs docs_limit of the user's subscription was raised by for it, rows  *)
(* how many rows of payments have its charge as external_id.               *)
(***************************************************************************)
EXTENDS Naturals, Sequences, Routing

CONSTANTS
    Users,
    Subscribers,    \* users with a row in subscriptions: no code inserts one
    Offers,         \* what a pre-checkout query can name: payload and amount
    Pack,           \* the offer of the invoice: "docs_pack_10" for 10 stars
    MaxRetries,     \* RetryMiddleware: max_retries
    MaxPurchases,   \* bound: pre-checkout queries
    MaxCrashes      \* bound: restarts of the process

ASSUME PaymentsAssumption ==
    /\ Subscribers \subseteq Users
    /\ Pack \in Offers
    /\ MaxRetries \in Nat \ {0}
    /\ MaxPurchases \in Nat /\ MaxCrashes \in Nat

VARIABLES
    dialog,      \* the state of every user's dialog
    recent,      \* users a message of whom got through in the last min_interval
    invoiced,    \* users whose chat holds an invoice
    purchases,   \* in the order of their queries
    crashes      \* how often the process was killed

vars == <<dialog, recent, invoiced, purchases, crashes>>

\* Telegram has asked and waits for the answer, or has it, or has gone without.
Uncharged == {"asked", "approved", "declined", "expired"}

\* The update is under way; a handler is at an await, or sleeps before a retry.
Travelling == "paid"
Handled == {"credit", "record", "answer", "again"}

\* The end: answered, given up, thrown away by the throttle or a restart, or
\* taken for the value of a field.
Settled == {"done", "failed", "dropped", "taken"}

Charged == {Travelling} \cup Handled \cup Settled

-----------------------------------------------------------------------------
(* Messages *)

\* ThrottlingMiddleware lets a message of u through.
Admitted(u) == u \notin recent /\ recent' = recent \cup {u}

IntervalPasses(u) ==
    /\ u \in recent
    /\ recent' = recent \ {u}
    /\ UNCHANGED <<dialog, invoiced, purchases, crashes>>

\* Another message or a button press, which is not throttled, moves the dialog.
Converse(u) ==
    /\ Admitted(u) \/ UNCHANGED recent
    /\ \E state \in DialogStates : dialog' = [dialog EXCEPT ![u] = state]
    /\ UNCHANGED <<invoiced, purchases, crashes>>

\* buy_docs: the invoice arrives, perhaps several times, or not at all.
BuyDocs(u) ==
    /\ Routes("buy_docs", "buy", dialog[u])
    /\ Admitted(u)
    /\ invoiced' \in {invoiced, invoiced \cup {u}}
    /\ UNCHANGED <<dialog, purchases, crashes>>

-----------------------------------------------------------------------------
(* Before the charge *)

NewPurchase(u, offer) ==
    [user |-> u, offer |-> offer, stage |-> "asked",
     tries |-> 0, credits |-> 0, rows |-> 0, told |-> FALSE]

Stage(i, stage) == purchases' = [purchases EXCEPT ![i].stage = stage]

\* A user pays an invoice in the chat, as often as they like.  The query is what
\* the client makes of it, which need not be what the bot sells.
Ask(u, offer) ==
    /\ u \in invoiced
    /\ Len(purchases) < MaxPurchases
    /\ purchases' = Append(purchases, NewPurchase(u, offer))
    /\ UNCHANGED <<dialog, recent, invoiced, crashes>>

\* Mutant: every query is answered ok.
ApproveAll(i) ==
    /\ purchases[i].stage = "asked"
    /\ Stage(i, "approved") \/ Stage(i, "expired")
    /\ UNCHANGED <<dialog, recent, invoiced, crashes>>

\* pre_checkout: what is answered ok is the pack at its price.  The answer may
\* be lost or late, and then Telegram does not charge.
PreCheckout(i) ==
    /\ purchases[i].stage = "asked"
    /\ \/ Stage(i, IF purchases[i].offer = Pack THEN "approved" ELSE "declined")
       \/ Stage(i, "expired")
    /\ UNCHANGED <<dialog, recent, invoiced, crashes>>

\* Telegram takes the stars and sends successful_payment.
Charge(i) ==
    /\ purchases[i].stage = "approved"
    /\ Stage(i, Travelling)
    /\ UNCHANGED <<dialog, recent, invoiced, crashes>>

-----------------------------------------------------------------------------
(* After the charge *)

\* The service message of a payment is a message like any other: the throttle
\* drops it, and enter_field takes it when a form is open.
Arrive(i) ==
    LET u == purchases[i].user IN
    /\ purchases[i].stage = Travelling
    /\ \/ u \in recent /\ Stage(i, "dropped") /\ UNCHANGED recent
       \/ /\ Admitted(u)
          /\ Stage(i, IF Routes("on_paid", "paid", dialog[u]) THEN "credit" ELSE "taken")
    /\ UNCHANGED <<dialog, invoiced, crashes>>

\* Mutant: a payment is recorded whether or not there was a quota to raise.
AddQuotaAnyhow(i) ==
    /\ purchases[i].stage = "credit"
    /\ purchases' = [purchases EXCEPT ![i].stage = "record",
           ![i].credits = IF purchases[i].user \in Subscribers THEN @ + 1 ELSE @]
    /\ UNCHANGED <<dialog, recent, invoiced, crashes>>

\* add_quota, in a transaction of its own: without a row it raises nothing, and
\* the payment is not recorded.
AddQuota(i) ==
    /\ purchases[i].stage = "credit"
    /\ purchases' = IF purchases[i].user \in Subscribers
                      THEN [purchases EXCEPT ![i].stage = "record", ![i].credits = @ + 1]
                      ELSE [purchases EXCEPT ![i].stage = "answer"]
    /\ UNCHANGED <<dialog, recent, invoiced, crashes>>

\* record_payment, in the next transaction.
RecordPayment(i) ==
    /\ purchases[i].stage = "record"
    /\ purchases' = [purchases EXCEPT ![i].stage = "answer", ![i].rows = @ + 1]
    /\ UNCHANGED <<dialog, recent, invoiced, crashes>>

\* Mutant: the handler goes on after an error of the database.
DbFailsQuietly(i) ==
    /\ purchases[i].stage \in {"credit", "record"}
    /\ Stage(i, "answer")
    /\ UNCHANGED <<dialog, recent, invoiced, crashes>>

\* A database error is not repeated.
DbFails(i) ==
    /\ purchases[i].stage \in {"credit", "record"}
    /\ Stage(i, "failed")
    /\ UNCHANGED <<dialog, recent, invoiced, crashes>>

\* PAID_LIMIT_UP arrives.
AnswerSent(i) ==
    /\ purchases[i].stage = "answer"
    /\ purchases' = [purchases EXCEPT ![i].stage = "done", ![i].told = TRUE]
    /\ UNCHANGED <<dialog, recent, invoiced, crashes>>

\* Mutant: there is one retry too many.
GivesUpLate(p) == p.tries >= MaxRetries

Attempts(p) == p.tries + 1
GivesUp(p) == Attempts(p) >= MaxRetries

\* TelegramNetworkError or TelegramRetryAfter, though the message may be there.
AnswerFails(i) ==
    LET p == purchases[i] IN
    /\ p.stage = "answer"
    /\ \E told \in {p.told, TRUE} :
          purchases' = [purchases EXCEPT ![i] =
              IF GivesUp(p) THEN [p EXCEPT !.stage = "failed", !.told = told]
              ELSE [p EXCEPT !.stage = "again", !.told = told, !.tries = Attempts(p)]]
    /\ UNCHANGED <<dialog, recent, invoiced, crashes>>

\* Any other error of Telegram's is not repeated.
AnswerRefused(i) ==
    /\ purchases[i].stage = "answer"
    /\ Stage(i, "failed")
    /\ UNCHANGED <<dialog, recent, invoiced, crashes>>

\* Mutant: the retry takes up the body after add_quota.
RetryFromRecord(i) ==
    /\ purchases[i].stage = "again"
    /\ Stage(i, "record")
    /\ UNCHANGED <<dialog, recent, invoiced, crashes>>

\* RetryMiddleware calls the whole of on_paid again, add_quota first.
Retry(i) ==
    /\ purchases[i].stage = "again"
    /\ Stage(i, "credit")
    /\ UNCHANGED <<dialog, recent, invoiced, crashes>>

-----------------------------------------------------------------------------
\* Mutant: the start drops nothing, and what was being handled comes again too.
Redelivered(stage) == IF stage \in {Travelling} \cup Handled THEN Travelling
                      ELSE IF stage = "asked" THEN "expired" ELSE stage

\* A task dies with the process, and what was on its way is dropped at the start.
AfterCrash(stage) == CASE stage = "asked"     -> "expired"
                       [] stage = Travelling  -> "dropped"
                       [] stage \in Handled   -> "failed"
                       [] OTHER               -> stage

\* Dialogs, throttle and tasks were in memory.  With a webhook left behind the
\* server listens before delete_webhook drops the updates, and some of what was
\* on its way (kept) may be pushed in between.
Crash ==
    /\ crashes < MaxCrashes
    /\ crashes' = crashes + 1
    /\ dialog' = [u \in Users |-> "none"]
    /\ recent' = {}
    /\ \E kept \in SUBSET {i \in DOMAIN purchases : purchases[i].stage \in {"asked", Travelling}} :
          purchases' = [i \in DOMAIN purchases |->
              IF i \in kept THEN purchases[i]
              ELSE [purchases[i] EXCEPT !.stage = AfterCrash(@)]]
    /\ UNCHANGED invoiced

Init ==
    /\ dialog = [u \in Users |-> "none"]
    /\ recent = {}
    /\ invoiced = {}
    /\ purchases = <<>>
    /\ crashes = 0

Chat == \E u \in Users : \/ IntervalPasses(u) \/ Converse(u) \/ BuyDocs(u)
                         \/ \E offer \in Offers : Ask(u, offer)

\* What the bot, or Telegram for it, does next with a purchase.
Step(i) == \/ PreCheckout(i) \/ Arrive(i)
           \/ AddQuota(i) \/ RecordPayment(i) \/ DbFails(i)
           \/ AnswerSent(i) \/ AnswerFails(i) \/ AnswerRefused(i) \/ Retry(i)

Next == \/ Chat
        \/ \E i \in DOMAIN purchases : Step(i) \/ Charge(i)
        \/ Crash

Spec == Init /\ [][Next]_vars

-----------------------------------------------------------------------------
(* Properties *)

Purchase == [user : Users, offer : Offers, stage : Uncharged \cup Charged,
             tries : 0 .. MaxRetries - 1, credits : Nat, rows : Nat, told : BOOLEAN]

\* The variables have their types.
TypeOK ==
    /\ dialog \in [Users -> DialogStates]
    /\ recent \subseteq Users
    /\ invoiced \subseteq Users
    /\ purchases \in Seq(Purchase)
    /\ crashes \in 0 .. MaxCrashes

\* The pre-checkout answer is the only gate before the charge (comment in
\* pre_checkout): whatever was asked, nobody is charged for anything but the
\* pack at its price, and only such a charge raises a quota.
OnlyThePackIsCharged ==
    \A i \in DOMAIN purchases :
        LET p == purchases[i]
        IN  /\ p.stage \in Charged => p.offer = Pack
            /\ p.credits > 0 => p.stage \in Charged /\ p.user \in Subscribers

\* The two tables agree about every charge through retries, errors and
\* restarts: a payment is recorded once for every time the quota was raised,
\* and only a task that died between the two transactions, or has yet to make
\* the second, leaves the last one out.
Recorded(p) == \/ p.credits = p.rows
               \/ p.credits = p.rows + 1 /\ p.stage \in {"record", "failed"}

BooksAgree == \A i \in DOMAIN purchases : Recorded(purchases[i])

\* Whoever is told of a higher limit and has a subscription paid for it by the
\* books, whatever failed on the way: the answer comes after both transactions.
Booked(p) == p.user \in Subscribers => p.credits > 0 /\ p.rows > 0

ToldIsBooked ==
    \A i \in DOMAIN purchases : purchases[i].told => Booked(purchases[i])

\* A charge raises the quota at most once an attempt of RetryMiddleware's, and
\* never again after its handler has ended.
Passes(p) == IF p.stage \in {"credit", "again"} THEN p.tries ELSE p.tries + 1

CreditsBounded ==
    \A i \in DOMAIN purchases :
        LET p == purchases[i]
        IN  p.credits <= Passes(p) /\ p.credits <= MaxRetries

\* What makes the safety properties inductive: before the charge nothing has
\* been done, and every retry of a subscriber's stands for a raised quota.
PurchaseOK(p) ==
    /\ p.stage \in Charged => p.offer = Pack
    /\ p.stage = "approved" => p.offer = Pack
    /\ p.stage \in Uncharged \cup {Travelling} => p.tries = 0 /\ p.credits = 0
    /\ p.credits > 0 => p.user \in Subscribers
    /\ p.stage = "record" => p.credits = p.rows + 1
    /\ Recorded(p)
    /\ p.told \/ p.stage = "answer" => Booked(p)
    /\ p.credits <= Passes(p)

IndInv == TypeOK /\ \A i \in DOMAIN purchases : PurchaseOK(purchases[i])

-----------------------------------------------------------------------------
(* The promise *)

PhaseOf(stage) == CASE stage \in {"asked", "approved"}    -> "open"
                    [] stage \in {Travelling} \cup Handled -> "charged"
                    [] OTHER                              -> "over"

SaleOf(p) == [user |-> p.user, genuine |-> p.offer = Pack, phase |-> PhaseOf(p.stage),
              credits |-> p.credits, rows |-> p.rows, told |-> p.told]

SalesOf == [i \in DOMAIN purchases |-> SaleOf(purchases[i])]

Promise == INSTANCE Sale WITH sales <- SalesOf, MaxTimes <- MaxRetries

\* Every step of Telegram's and of the handlers is a step of Sale or none: the
\* order of charge, quota, book and answer is kept through retries, errors and
\* restarts, and what was charged, raised or booked is never taken back or done
\* after the end.
SalePromise == Promise!Spec
==============================================================================
