--------------------------- MODULE PaymentsProofs ----------------------------
(***************************************************************************)
(* The safety properties of Payments, for any users, offers, retries and   *)
(* restarts.  IndInv says of every purchase what its stage allows; a step  *)
(* of the bot changes one purchase, and a restart changes stages only.     *)
(***************************************************************************)
EXTENDS Payments, TLAPS

PurchasesOK == purchases \in Seq(Purchase) /\ \A i \in DOMAIN purchases : PurchaseOK(purchases[i])

\* The rest of the type invariant.
OthersOK == /\ dialog \in [Users -> DialogStates]
            /\ recent \subseteq Users
            /\ invoiced \subseteq Users
            /\ crashes \in 0 .. MaxCrashes

LEMMA Parts == IndInv <=> PurchasesOK /\ OthersOK
BY DEF IndInv, TypeOK, PurchasesOK, OthersOK

\* A step on one purchase needs to be looked at for that purchase only.
LEMMA OneChanges ==
    ASSUME PurchasesOK, NEW i \in DOMAIN purchases, NEW n \in Purchase, PurchaseOK(n),
           purchases' = [purchases EXCEPT ![i] = n]
    PROVE  PurchasesOK'
<1>1. purchases' \in Seq(Purchase) /\ DOMAIN purchases' = DOMAIN purchases
    BY DEF PurchasesOK
<1>2. ASSUME NEW j \in DOMAIN purchases' PROVE PurchaseOK(purchases'[j])
    BY <1>1, <1>2 DEF PurchasesOK
<1> QED BY <1>1, <1>2 DEF PurchasesOK

\* A purchase that only changes its stage.
LEMMA StageChanges ==
    ASSUME PurchasesOK, NEW i \in DOMAIN purchases, NEW stage, Stage(i, stage)
    PROVE  /\ purchases[i] \in Purchase /\ PurchaseOK(purchases[i])
           /\ purchases' = [purchases EXCEPT ![i] = [purchases[i] EXCEPT !.stage = stage]]
BY DEF PurchasesOK, Stage

\* The stages a purchase can go to without anything being charged or written.
LEMMA StageStep ==
    ASSUME PurchasesOK, NEW i \in DOMAIN purchases, NEW stage, Stage(i, stage),
           LET p == purchases[i] IN
              \/ p.stage = "asked" /\ stage \in {"declined", "expired"}
              \/ p.stage = "asked" /\ stage = "approved" /\ p.offer = Pack
              \/ p.stage = "approved" /\ stage = Travelling
              \/ p.stage = Travelling /\ stage \in {"dropped", "credit", "taken"}
              \/ p.stage \in {"credit", "record", "answer"} /\ stage = "failed"
              \/ p.stage = "again" /\ stage = "credit"
    PROVE  PurchasesOK'
<1> DEFINE p == purchases[i]
           n == [p EXCEPT !.stage = stage]
<1>1. p \in Purchase /\ PurchaseOK(p) /\ purchases' = [purchases EXCEPT ![i] = n]
    BY StageChanges
<1>2. n \in Purchase
    BY <1>1 DEF Purchase, Uncharged, Charged, Travelling, Handled, Settled
<1>3. PurchaseOK(n)
    BY <1>1, <1>2 DEF PurchaseOK, Purchase, Recorded, Booked, Passes, Uncharged, Charged,
                      Travelling, Handled, Settled
<1> QED BY <1>1, <1>2, <1>3, OneChanges

LEMMA AskStep ==
    ASSUME PurchasesOK, NEW u \in Users, NEW offer \in Offers, Ask(u, offer)
    PROVE  PurchasesOK'
<1> DEFINE n == NewPurchase(u, offer)
<1>1. n \in Purchase /\ PurchaseOK(n)
    BY PaymentsAssumption DEF NewPurchase, Purchase, PurchaseOK, Recorded, Booked, Passes,
       Uncharged, Charged, Travelling, Handled, Settled
<1> HIDE DEF n
<1>2. purchases' = Append(purchases, n)
    BY DEF Ask, n
<1> QED BY <1>1, <1>2 DEF PurchasesOK

LEMMA AddQuotaStep ==
    ASSUME PurchasesOK, NEW i \in DOMAIN purchases, AddQuota(i)
    PROVE  PurchasesOK'
<1> DEFINE p == purchases[i]
<1>1. p \in Purchase /\ PurchaseOK(p) /\ p.stage = "credit"
    BY DEF PurchasesOK, AddQuota
<1>2. CASE p.user \in Subscribers
    <2> DEFINE n == [p EXCEPT !.stage = "record", !.credits = @ + 1]
    <2>1. n \in Purchase
        <3>1. p.credits + 1 \in Nat
            BY <1>1 DEF Purchase
        <3> QED BY <1>1, <3>1 DEF Purchase, Charged, Handled
    <2>2. PurchaseOK(n)
        BY <1>1, <1>2 DEF PurchaseOK, Purchase, Recorded, Booked, Passes, Uncharged, Charged,
                          Travelling, Handled, Settled
    <2>3. purchases' = [purchases EXCEPT ![i] = n]
        BY <1>2 DEF AddQuota, PurchasesOK
    <2> QED BY <2>1, <2>2, <2>3, OneChanges
<1>3. CASE p.user \notin Subscribers
    <2> DEFINE n == [p EXCEPT !.stage = "answer"]
    <2>1. n \in Purchase
        BY <1>1 DEF Purchase, Charged, Handled
    <2>2. PurchaseOK(n)
        BY <1>1, <1>3 DEF PurchaseOK, Purchase, Recorded, Booked, Passes, Uncharged, Charged,
                          Travelling, Handled, Settled
    <2>3. purchases' = [purchases EXCEPT ![i] = n]
        BY <1>3 DEF AddQuota, PurchasesOK
    <2> QED BY <2>1, <2>2, <2>3, OneChanges
<1> QED BY <1>2, <1>3

LEMMA RecordPaymentStep ==
    ASSUME PurchasesOK, NEW i \in DOMAIN purchases, RecordPayment(i)
    PROVE  PurchasesOK'
<1> DEFINE p == purchases[i]
           n == [p EXCEPT !.stage = "answer", !.rows = @ + 1]
<1>1. p \in Purchase /\ PurchaseOK(p) /\ p.stage = "record"
    BY DEF PurchasesOK, RecordPayment
<1>2. n \in Purchase
    <2>1. p.rows + 1 \in Nat
        BY <1>1 DEF Purchase
    <2> QED BY <1>1, <2>1 DEF Purchase, Charged, Handled
<1>3. PurchaseOK(n)
    BY <1>1 DEF PurchaseOK, Purchase, Recorded, Booked, Passes, Uncharged, Charged,
                Travelling, Handled, Settled
<1>4. purchases' = [purchases EXCEPT ![i] = n]
    BY DEF RecordPayment, PurchasesOK
<1> QED BY <1>2, <1>3, <1>4, OneChanges

LEMMA AnswerSentStep ==
    ASSUME PurchasesOK, NEW i \in DOMAIN purchases, AnswerSent(i)
    PROVE  PurchasesOK'
<1> DEFINE p == purchases[i]
           n == [p EXCEPT !.stage = "done", !.told = TRUE]
<1>1. p \in Purchase /\ PurchaseOK(p) /\ p.stage = "answer"
    BY DEF PurchasesOK, AnswerSent
<1>2. n \in Purchase
    BY <1>1 DEF Purchase, Charged, Settled
<1>3. PurchaseOK(n)
    BY <1>1 DEF PurchaseOK, Purchase, Recorded, Booked, Passes, Uncharged, Charged,
                Travelling, Handled, Settled
<1>4. purchases' = [purchases EXCEPT ![i] = n]
    BY DEF AnswerSent, PurchasesOK
<1> QED BY <1>2, <1>3, <1>4, OneChanges

LEMMA AnswerFailsStep ==
    ASSUME PurchasesOK, NEW i \in DOMAIN purchases, AnswerFails(i)
    PROVE  PurchasesOK'
<1> DEFINE p == purchases[i]
<1>1. p \in Purchase /\ PurchaseOK(p) /\ p.stage = "answer"
    BY DEF PurchasesOK, AnswerFails
<1>2. PICK told \in {p.told, TRUE} :
          purchases' = [purchases EXCEPT ![i] =
              IF GivesUp(p) THEN [p EXCEPT !.stage = "failed", !.told = told]
              ELSE [p EXCEPT !.stage = "again", !.told = told, !.tries = Attempts(p)]]
    BY DEF AnswerFails
<1>3. told \in BOOLEAN
    BY <1>1 DEF Purchase
<1>4. CASE GivesUp(p)
    <2> DEFINE n == [p EXCEPT !.stage = "failed", !.told = told]
    <2>1. n \in Purchase
        BY <1>1, <1>3 DEF Purchase, Charged, Settled
    <2>2. PurchaseOK(n)
        BY <1>1 DEF PurchaseOK, Purchase, Recorded, Booked, Passes, Uncharged, Charged,
                    Travelling, Handled, Settled
    <2> QED BY <1>2, <1>4, <2>1, <2>2, OneChanges
<1>5. CASE ~ GivesUp(p)
    <2> DEFINE n == [p EXCEPT !.stage = "again", !.told = told, !.tries = Attempts(p)]
    <2>1. Attempts(p) \in 0 .. MaxRetries - 1 /\ Attempts(p) = p.tries + 1
        BY <1>1, <1>5, PaymentsAssumption DEF Purchase, GivesUp, Attempts
    <2>2. n \in Purchase
        BY <1>1, <1>3, <2>1 DEF Purchase, Charged, Handled
    <2>3. PurchaseOK(n)
        BY <1>1, <2>1, <2>2 DEF PurchaseOK, Purchase, Recorded, Booked, Passes, Uncharged, Charged,
                          Travelling, Handled, Settled
    <2> QED BY <1>2, <1>5, <2>2, <2>3, OneChanges
<1> QED BY <1>4, <1>5

LEMMA CrashStep ==
    ASSUME PurchasesOK, Crash
    PROVE  PurchasesOK'
<1>0. PICK kept \in SUBSET {i \in DOMAIN purchases : purchases[i].stage \in {"asked", Travelling}} :
         purchases' = [i \in DOMAIN purchases |->
                          IF i \in kept THEN purchases[i]
                          ELSE [purchases[i] EXCEPT !.stage = AfterCrash(@)]]
    BY DEF Crash
<1> DEFINE After(i) == IF i \in kept THEN purchases[i]
                       ELSE [purchases[i] EXCEPT !.stage = AfterCrash(@)]
<1>1. purchases' = [i \in DOMAIN purchases |-> After(i)]
    BY <1>0
<1>2. ASSUME NEW i \in DOMAIN purchases PROVE After(i) \in Purchase /\ PurchaseOK(After(i))
    <2> DEFINE p == purchases[i]
               stage == IF i \in kept THEN p.stage ELSE AfterCrash(p.stage)
    <2>1. p \in Purchase /\ PurchaseOK(p)
        BY DEF PurchasesOK
    <2>2. \/ stage = p.stage /\ p.stage \notin Handled
          \/ stage = "expired" /\ p.stage = "asked"
          \/ stage = "dropped" /\ p.stage = Travelling
          \/ stage = "failed" /\ p.stage \in Handled
        <3>1. i \in kept => p.stage \in {"asked", Travelling}
            OBVIOUS
        <3> QED BY <3>1 DEF AfterCrash, Travelling, Handled
    <2> HIDE DEF stage
    <2>3. After(i) = [p EXCEPT !.stage = stage]
        BY <2>1 DEF stage, Purchase
    <2>4. [p EXCEPT !.stage = stage] \in Purchase
        BY <2>1, <2>2 DEF Purchase, Uncharged, Charged, Travelling, Handled, Settled
    <2>5. PurchaseOK([p EXCEPT !.stage = stage])
        BY <2>1, <2>2, <2>4 DEF PurchaseOK, Purchase, Recorded, Booked, Passes, Uncharged, Charged,
                          Travelling, Handled, Settled
    <2> QED BY <2>3, <2>4, <2>5
<1> HIDE DEF After
<1>3. purchases' \in Seq(Purchase) /\ DOMAIN purchases' = DOMAIN purchases
    BY <1>1, <1>2 DEF PurchasesOK
<1> QED BY <1>1, <1>2, <1>3 DEF PurchasesOK

LEMMA OthersStep == IndInv /\ [Next]_vars => OthersOK'
<1> SUFFICES ASSUME PurchasesOK, OthersOK, [Next]_vars PROVE OthersOK'
    BY Parts
<1>1. CASE UNCHANGED vars
    BY <1>1 DEF vars, OthersOK
<1>2. CASE Chat
    BY <1>2 DEF Chat, IntervalPasses, Converse, BuyDocs, Ask, Admitted, OthersOK
<1>3. CASE Crash
    <2>1. [u \in Users |-> "none"] \in [Users -> DialogStates]
        BY DEF DialogStates
    <2> QED BY <1>3, <2>1, PaymentsAssumption DEF Crash, OthersOK
<1>4. ASSUME NEW i \in DOMAIN purchases, Step(i) \/ Charge(i)
      PROVE  OthersOK'
    <2>1. purchases[i] \in Purchase
        BY DEF PurchasesOK
    <2>2. purchases[i].user \in Users
        BY <2>1 DEF Purchase
    <2> QED
        BY <1>4, <2>2 DEF Step, Charge, PreCheckout, Arrive, AddQuota, RecordPayment, DbFails,
                AnswerSent, AnswerFails, AnswerRefused, Retry, Admitted, OthersOK
<1> QED BY <1>1, <1>2, <1>3, <1>4 DEF Next

LEMMA InitOK == Init => IndInv
<1> SUFFICES ASSUME Init PROVE PurchasesOK /\ OthersOK
    BY Parts
<1>1. PurchasesOK
    BY DEF Init, PurchasesOK
<1>2. OthersOK
    BY PaymentsAssumption DEF Init, OthersOK, DialogStates
<1> QED BY <1>1, <1>2

LEMMA NextOK == IndInv /\ [Next]_vars => IndInv'
<1> SUFFICES ASSUME PurchasesOK, [Next]_vars PROVE PurchasesOK'
    BY OthersStep DEF IndInv, TypeOK, PurchasesOK, OthersOK
<1>1. ASSUME NEW i \in DOMAIN purchases, Step(i)
      PROVE  PurchasesOK'
    <2>1. CASE PreCheckout(i)
        BY <2>1, StageStep DEF PreCheckout
    <2>2. CASE Arrive(i)
        BY <2>2, StageStep DEF Arrive
    <2>3. CASE AddQuota(i)
        BY <2>3, AddQuotaStep
    <2>4. CASE RecordPayment(i)
        BY <2>4, RecordPaymentStep
    <2>5. CASE DbFails(i) \/ AnswerRefused(i)
        BY <2>5, StageStep DEF DbFails, AnswerRefused
    <2>6. CASE AnswerSent(i)
        BY <2>6, AnswerSentStep
    <2>7. CASE AnswerFails(i)
        BY <2>7, AnswerFailsStep
    <2>8. CASE Retry(i)
        BY <2>8, StageStep DEF Retry
    <2> QED BY <1>1, <2>1, <2>2, <2>3, <2>4, <2>5, <2>6, <2>7, <2>8 DEF Step
<1>2. ASSUME NEW i \in DOMAIN purchases, Charge(i)
      PROVE  PurchasesOK'
    BY <1>2, StageStep DEF Charge
<1>3. CASE Chat
    <2>1. CASE \E u \in Users, offer \in Offers : Ask(u, offer)
        BY <2>1, AskStep
    <2>2. CASE purchases' = purchases
        BY <2>2 DEF PurchasesOK
    <2> QED BY <1>3, <2>1, <2>2 DEF Chat, IntervalPasses, Converse, BuyDocs
<1>4. CASE Crash
    BY <1>4, CrashStep
<1>5. CASE UNCHANGED vars
    BY <1>5 DEF vars, PurchasesOK
<1> QED BY <1>1, <1>2, <1>3, <1>4, <1>5 DEF Next

-----------------------------------------------------------------------------
(* The promise *)

LEMMA SalesTyped ==
    ASSUME NEW i \in DOMAIN purchases
    PROVE  i \in DOMAIN SalesOf /\ SalesOf[i] = SaleOf(purchases[i])
BY DEF SalesOf

\* Of an answered purchase a sale shows two fields more or less.
LEMMA SaleSeen ==
    ASSUME NEW p, NEW n, NEW told, n.told = told,
           n.user = p.user, n.offer = p.offer, n.credits = p.credits, n.rows = p.rows
    PROVE  SaleOf(n) = [SaleOf(p) EXCEPT !.told = told, !.phase = PhaseOf(n.stage)]
<1> DEFINE genuine == p.offer = Pack
           phase == PhaseOf(n.stage)
<1>1. SaleOf(n) = [user |-> p.user, genuine |-> genuine, phase |-> phase,
                   credits |-> p.credits, rows |-> p.rows, told |-> told]
    BY Zenon DEF SaleOf
<1>2. SaleOf(p) = [user |-> p.user, genuine |-> genuine, phase |-> PhaseOf(p.stage),
                   credits |-> p.credits, rows |-> p.rows, told |-> p.told]
    BY Zenon DEF SaleOf
<1> DEFINE s == [SaleOf(p) EXCEPT !.told = told]
<1> HIDE DEF genuine, phase
<1>3. s = [user |-> p.user, genuine |-> genuine, phase |-> PhaseOf(p.stage),
           credits |-> p.credits, rows |-> p.rows, told |-> told]
    BY <1>2
<1>4. [SaleOf(p) EXCEPT !.told = told, !.phase = phase] = [s EXCEPT !.phase = phase]
    OBVIOUS
<1> HIDE DEF s
<1>5. [s EXCEPT !.phase = phase]
         = [user |-> p.user, genuine |-> genuine, phase |-> phase,
            credits |-> p.credits, rows |-> p.rows, told |-> told]
    BY <1>3
<1> QED BY <1>1, <1>4, <1>5 DEF phase

\* What becomes of one purchase becomes of one sale.
LEMMA SaleChanges ==
    ASSUME PurchasesOK, NEW i \in DOMAIN purchases, NEW n,
           purchases' = [purchases EXCEPT ![i] = n]
    PROVE  SalesOf' = [SalesOf EXCEPT ![i] = SaleOf(n)]
<1>1. DOMAIN purchases' = DOMAIN purchases
    BY DEF PurchasesOK
<1>2. ASSUME NEW j \in DOMAIN purchases
      PROVE  SaleOf(purchases'[j]) = [SalesOf EXCEPT ![i] = SaleOf(n)][j]
    <2>1. CASE j = i
        BY <2>1, SalesTyped DEF PurchasesOK
    <2>2. CASE j # i
        <3>1. purchases'[j] = purchases[j]
            BY <2>2 DEF PurchasesOK
        <3> QED BY <2>2, <3>1, SalesTyped
    <2> QED BY <2>1, <2>2
<1>3. SalesOf' = [j \in DOMAIN purchases |-> SaleOf(purchases'[j])]
    BY <1>1 DEF SalesOf
<1>4. [SalesOf EXCEPT ![i] = SaleOf(n)]
         = [j \in DOMAIN purchases |-> [SalesOf EXCEPT ![i] = SaleOf(n)][j]]
    BY DEF SalesOf
<1> QED BY <1>2, <1>3, <1>4

LEMMA SaleIsSilent ==
    ASSUME PurchasesOK, NEW i \in DOMAIN purchases, NEW n,
           purchases' = [purchases EXCEPT ![i] = n], SaleOf(n) = SaleOf(purchases[i])
    PROVE  SalesOf' = SalesOf
<1>1. SalesOf' = [SalesOf EXCEPT ![i] = SalesOf[i]]
    BY SaleChanges, SalesTyped
<1> QED BY <1>1 DEF SalesOf

LEMMA SaleEnds ==
    ASSUME PurchasesOK, NEW i \in DOMAIN purchases, NEW n,
           purchases' = [purchases EXCEPT ![i] = n],
           SaleOf(n) = [SaleOf(purchases[i]) EXCEPT !.phase = "over"]
    PROVE  Promise!Next
<1>1. SalesOf' = [SalesOf EXCEPT ![i] = SaleOf(n)]
    BY SaleChanges
<1>2. Promise!End({i})
    BY <1>1, SalesTyped DEF Promise!End, SalesOf
<1> QED BY <1>2, SalesTyped DEF Promise!Next

\* A new stage shows when it is another phase.
LEMMA StageShows ==
    ASSUME PurchasesOK, NEW i \in DOMAIN purchases, NEW stage, Stage(i, stage),
           \/ PhaseOf(stage) = PhaseOf(purchases[i].stage)
           \/ PhaseOf(stage) = "over"
    PROVE  Promise!Next \/ SalesOf' = SalesOf
<1> DEFINE p == purchases[i]
           n == [p EXCEPT !.stage = stage]
<1>1. p \in Purchase /\ purchases' = [purchases EXCEPT ![i] = n]
    BY StageChanges
<1>2. SaleOf(n) = [SaleOf(p) EXCEPT !.phase = PhaseOf(stage)]
    BY <1>1 DEF SaleOf, Purchase
<1>3. CASE PhaseOf(stage) = PhaseOf(p.stage)
    <2>1. SaleOf(n) = SaleOf(p)
        BY <1>2, <1>3 DEF SaleOf
    <2> QED BY <1>1, <2>1, SaleIsSilent
<1>4. CASE PhaseOf(stage) = "over"
    BY <1>1, <1>2, <1>4, SaleEnds
<1> QED BY <1>3, <1>4

\* pre_checkout and Telegram: what is charged is the pack.
LEMMA ChargeCharges ==
    ASSUME PurchasesOK, NEW i \in DOMAIN purchases, Charge(i)
    PROVE  Promise!Next
<1> DEFINE p == purchases[i]
           n == [p EXCEPT !.stage = Travelling]
<1>1. /\ p \in Purchase /\ PurchaseOK(p) /\ p.stage = "approved"
      /\ purchases' = [purchases EXCEPT ![i] = n]
    BY StageChanges DEF Charge
<1>2. SaleOf(p).phase = "open" /\ SaleOf(p).genuine
    <2>1. p.offer = Pack
        BY <1>1 DEF PurchaseOK
    <2>2. PhaseOf(p.stage) = "open"
        BY <1>1 DEF PhaseOf, Travelling, Handled
    <2>3. SaleOf(p).phase = PhaseOf(p.stage) /\ SaleOf(p).genuine = (p.offer = Pack)
        BY Zenon DEF SaleOf
    <2> QED BY <2>1, <2>2, <2>3, Zenon
<1>3. SaleOf(n) = [SaleOf(p) EXCEPT !.phase = "charged"]
    BY <1>1 DEF SaleOf, PhaseOf, Purchase, Travelling, Handled
<1>4. SalesOf' = [SalesOf EXCEPT ![i] = [SalesOf[i] EXCEPT !.phase = "charged"]]
    <2>1. SalesOf' = [SalesOf EXCEPT ![i] = SaleOf(n)]
        BY <1>1, SaleChanges
    <2> QED BY <1>3, <2>1, SalesTyped, Zenon
<1>5. Promise!Charge(i)
    BY <1>2, <1>4, SalesTyped DEF Promise!Charge
<1> QED BY <1>5, SalesTyped DEF Promise!Next

\* add_quota: book and quota are even, and every earlier pass was a retry.
LEMMA AddQuotaRaises ==
    ASSUME PurchasesOK, NEW i \in DOMAIN purchases, AddQuota(i)
    PROVE  Promise!Next \/ SalesOf' = SalesOf
<1> DEFINE p == purchases[i]
<1>1. p \in Purchase /\ PurchaseOK(p) /\ p.stage = "credit"
    BY DEF PurchasesOK, AddQuota
<1>2. CASE p.user \in Subscribers
    <2> DEFINE n == [p EXCEPT !.stage = "record", !.credits = @ + 1]
    <2>1. purchases' = [purchases EXCEPT ![i] = n]
        BY <1>2 DEF AddQuota, PurchasesOK
    <2>2. p.credits = p.rows /\ p.credits < MaxRetries
        BY <1>1, PaymentsAssumption DEF PurchaseOK, Recorded, Passes, Purchase
    <2>3. SaleOf(n) = [SaleOf(p) EXCEPT !.credits = @ + 1]
        BY <1>1 DEF SaleOf, PhaseOf, Purchase, Travelling, Handled
    <2>4. SalesOf' = [SalesOf EXCEPT ![i] = [SalesOf[i] EXCEPT !.credits = @ + 1]]
        <3>1. SalesOf' = [SalesOf EXCEPT ![i] = SaleOf(n)]
            BY <2>1, SaleChanges
        <3> QED BY <2>3, <3>1, SalesTyped, Zenon
    <2>5. /\ SaleOf(p).phase = "charged" /\ SaleOf(p).user \in Subscribers
          /\ SaleOf(p).credits = SaleOf(p).rows /\ SaleOf(p).credits < MaxRetries
        BY <1>1, <1>2, <2>2 DEF SaleOf, PhaseOf, Travelling, Handled
    <2>6. Promise!Raise(i)
        BY <2>4, <2>5, SalesTyped DEF Promise!Raise
    <2> QED BY <2>6, SalesTyped DEF Promise!Next
<1>3. CASE p.user \notin Subscribers
    <2>1. Stage(i, "answer") /\ PhaseOf("answer") = PhaseOf(p.stage)
        BY <1>1, <1>3 DEF AddQuota, Stage, PhaseOf, Travelling, Handled
    <2> QED BY <2>1, StageShows
<1> QED BY <1>2, <1>3

LEMMA RecordPaymentBooks ==
    ASSUME PurchasesOK, NEW i \in DOMAIN purchases, RecordPayment(i)
    PROVE  Promise!Next
<1> DEFINE p == purchases[i]
           n == [p EXCEPT !.stage = "answer", !.rows = @ + 1]
<1>1. p \in Purchase /\ PurchaseOK(p) /\ p.stage = "record"
    BY DEF PurchasesOK, RecordPayment
<1>2. purchases' = [purchases EXCEPT ![i] = n]
    BY DEF RecordPayment, PurchasesOK
<1>3. SaleOf(n) = [SaleOf(p) EXCEPT !.rows = @ + 1]
    BY <1>1 DEF SaleOf, PhaseOf, Purchase, Travelling, Handled
<1>4. SaleOf(p).phase = "charged" /\ SaleOf(p).credits = SaleOf(p).rows + 1
    BY <1>1 DEF SaleOf, PhaseOf, PurchaseOK, Travelling, Handled
<1>5. SalesOf' = [SalesOf EXCEPT ![i] = [SalesOf[i] EXCEPT !.rows = @ + 1]]
    <2>1. SalesOf' = [SalesOf EXCEPT ![i] = SaleOf(n)]
        BY <1>2, SaleChanges
    <2> QED BY <1>3, <2>1, SalesTyped, Zenon
<1>6. Promise!Book(i)
    BY <1>4, <1>5, SalesTyped DEF Promise!Book
<1> QED BY <1>6, SalesTyped DEF Promise!Next

\* An answer that arrives, reported or not, tells of what is in the books.
LEMMA AnswerTells ==
    ASSUME PurchasesOK, NEW i \in DOMAIN purchases, purchases[i].stage = "answer",
           NEW n, purchases' = [purchases EXCEPT ![i] = n],
           NEW phase \in {"charged", "over"},
           SaleOf(n) = [SaleOf(purchases[i]) EXCEPT !.told = TRUE, !.phase = phase]
    PROVE  Promise!Next
<1> DEFINE p == purchases[i]
<1>1. p \in Purchase /\ PurchaseOK(p)
    BY DEF PurchasesOK
<1>2. /\ SaleOf(p).phase = "charged"
      /\ SaleOf(p).user \in Subscribers =>
             SaleOf(p).credits > 0 /\ SaleOf(p).credits = SaleOf(p).rows
    BY <1>1 DEF SaleOf, PhaseOf, PurchaseOK, Booked, Recorded, Travelling, Handled
<1>3. SalesOf' = [SalesOf EXCEPT ![i] = [SalesOf[i] EXCEPT !.told = TRUE, !.phase = phase]]
    <2>1. SalesOf' = [SalesOf EXCEPT ![i] = SaleOf(n)]
        BY SaleChanges
    <2> QED BY <2>1, SalesTyped, Zenon
<1>4. SalesOf' = [SalesOf EXCEPT ![i].told = TRUE, ![i].phase = phase]
    BY <1>3, SalesTyped DEF SalesOf
<1>5. Promise!Tell(i)
    BY <1>2, <1>4, SalesTyped DEF Promise!Tell
<1> QED BY <1>5, SalesTyped DEF Promise!Next

LEMMA AnswerSentTells ==
    ASSUME PurchasesOK, NEW i \in DOMAIN purchases, AnswerSent(i)
    PROVE  Promise!Next
<1> DEFINE p == purchases[i]
           n == [p EXCEPT !.stage = "done", !.told = TRUE]
<1>1. p \in Purchase /\ p.stage = "answer"
    BY DEF PurchasesOK, AnswerSent
<1>2. purchases' = [purchases EXCEPT ![i] = n]
    BY DEF PurchasesOK, AnswerSent
<1>3. SaleOf(n) = [SaleOf(p) EXCEPT !.told = TRUE, !.phase = "over"]
    <2>1. /\ n.user = p.user /\ n.offer = p.offer /\ n.stage = "done"
          /\ n.credits = p.credits /\ n.rows = p.rows /\ n.told = TRUE
        BY <1>1 DEF Purchase
    <2>2. PhaseOf(n.stage) = "over"
        BY <2>1 DEF PhaseOf, Travelling, Handled
    <2> HIDE DEF n, p
    <2>3. SaleOf(n) = [SaleOf(p) EXCEPT !.told = TRUE, !.phase = PhaseOf(n.stage)]
        BY <2>1, SaleSeen
    <2> QED BY <2>2, <2>3
<1> QED BY <1>1, <1>2, <1>3, AnswerTells

LEMMA AnswerFailsShows ==
    ASSUME PurchasesOK, NEW i \in DOMAIN purchases, AnswerFails(i)
    PROVE  Promise!Next \/ SalesOf' = SalesOf
<1> DEFINE p == purchases[i]
           After(told) == IF GivesUp(p) THEN [p EXCEPT !.stage = "failed", !.told = told]
                          ELSE [p EXCEPT !.stage = "again", !.told = told, !.tries = Attempts(p)]
           phase == IF GivesUp(p) THEN "over" ELSE "charged"
<1>1. p \in Purchase /\ p.stage = "answer"
    BY DEF PurchasesOK, AnswerFails
<1>2. PICK told \in {p.told, TRUE} : purchases' = [purchases EXCEPT ![i] = After(told)]
    BY DEF AnswerFails
<1>3. SaleOf(After(told)) = [SaleOf(p) EXCEPT !.told = told, !.phase = phase]
    <2> DEFINE n == After(told)
    <2>1. CASE GivesUp(p)
        <3>1. /\ n.user = p.user /\ n.offer = p.offer /\ n.stage = "failed"
              /\ n.credits = p.credits /\ n.rows = p.rows /\ n.told = told
            BY <1>1, <2>1 DEF Purchase
        <3>2. PhaseOf(n.stage) = phase
            BY <2>1, <3>1 DEF PhaseOf, Travelling, Handled
        <3> HIDE DEF n, p, phase
        <3>3. SaleOf(n) = [SaleOf(p) EXCEPT !.told = told, !.phase = PhaseOf(n.stage)]
            BY <3>1, SaleSeen
        <3> QED BY <3>2, <3>3 DEF n
    <2>2. CASE ~ GivesUp(p)
        <3>1. /\ n.user = p.user /\ n.offer = p.offer /\ n.stage = "again"
              /\ n.credits = p.credits /\ n.rows = p.rows /\ n.told = told
            BY <1>1, <2>2 DEF Purchase
        <3>2. PhaseOf(n.stage) = phase
            BY <2>2, <3>1 DEF PhaseOf, Travelling, Handled
        <3> HIDE DEF n, p, phase
        <3>3. SaleOf(n) = [SaleOf(p) EXCEPT !.told = told, !.phase = PhaseOf(n.stage)]
            BY <3>1, SaleSeen
        <3> QED BY <3>2, <3>3 DEF n
    <2> QED BY <2>1, <2>2
<1>4. SaleOf(p).phase = "charged" /\ SaleOf(p).told = p.told
    BY <1>1 DEF SaleOf, PhaseOf, Travelling, Handled
<1> HIDE DEF After
<1>5. CASE told = TRUE
    BY <1>1, <1>2, <1>3, <1>5, AnswerTells
<1>6. CASE told = p.told
    <2> DEFINE s == SaleOf(p)
    <2>1. [s EXCEPT !.told = told] = s
        BY <1>4, <1>6 DEF SaleOf
    <2> HIDE DEF s, phase
    <2>2. [s EXCEPT !.told = told, !.phase = phase] = [[s EXCEPT !.told = told] EXCEPT !.phase = phase]
        OBVIOUS
    <2>3. SaleOf(After(told)) = [s EXCEPT !.phase = phase]
        BY <1>3, <2>1, <2>2, Zenon DEF s
    <2>4. CASE GivesUp(p)
        <3>1. SaleOf(After(told)) = [SaleOf(p) EXCEPT !.phase = "over"]
            BY <2>3, <2>4, Zenon DEF s, phase
        <3> QED BY <1>2, <3>1, SaleEnds
    <2>5. CASE ~ GivesUp(p)
        <3>1. phase = s.phase
            BY <1>4, <2>5 DEF s, phase
        <3>2. [s EXCEPT !.phase = phase] = s
            BY <3>1 DEF s, SaleOf
        <3>3. SaleOf(After(told)) = SaleOf(p)
            BY <2>3, <3>2 DEF s
        <3> QED BY <1>2, <3>3, SaleIsSilent
    <2> QED BY <2>4, <2>5
<1> QED BY <1>2, <1>5, <1>6

\* A restart ends what was open or charged and leaves the rest as it was.
LEMMA CrashEnds ==
    ASSUME PurchasesOK, Crash
    PROVE  Promise!Next
<1>0. PICK kept \in SUBSET DOMAIN purchases :
         purchases' = [i \in DOMAIN purchases |->
                          IF i \in kept THEN purchases[i]
                          ELSE [purchases[i] EXCEPT !.stage = AfterCrash(@)]]
    BY DEF Crash
<1> DEFINE After(i) == IF i \in kept THEN purchases[i]
                       ELSE [purchases[i] EXCEPT !.stage = AfterCrash(@)]
           some == {i \in DOMAIN purchases : PhaseOf(After(i).stage) # PhaseOf(purchases[i].stage)}
<1>1. /\ purchases' = [i \in DOMAIN purchases |-> After(i)]
      /\ DOMAIN purchases' = DOMAIN purchases
    BY <1>0
<1>2. DOMAIN SalesOf = DOMAIN purchases
    BY DEF SalesOf
<1>3. ASSUME NEW i \in DOMAIN purchases
      PROVE  SaleOf(After(i)) = IF i \in some THEN [SalesOf[i] EXCEPT !.phase = "over"]
                                ELSE SalesOf[i]
    <2> DEFINE p == purchases[i]
    <2>1. p \in Purchase
        BY DEF PurchasesOK
    <2>2. SaleOf(After(i)) = [SaleOf(p) EXCEPT !.phase = PhaseOf(After(i).stage)]
        BY <2>1 DEF SaleOf, Purchase
    <2>3. After(i).stage \in {p.stage, AfterCrash(p.stage)}
        BY <2>1 DEF Purchase
    <2>4. PhaseOf(AfterCrash(p.stage)) \in {PhaseOf(p.stage), "over"}
        BY <2>1 DEF PhaseOf, AfterCrash, Purchase, Uncharged, Charged, Travelling, Handled, Settled
    <2>5. CASE i \in some
        BY <2>2, <2>3, <2>4, <2>5, SalesTyped
    <2>6. CASE i \notin some
        <3>1. SaleOf(After(i)) = [SaleOf(p) EXCEPT !.phase = PhaseOf(p.stage)]
            BY <2>2, <2>6
        <3> QED BY <2>6, <3>1, SalesTyped DEF SaleOf
    <2> QED BY <2>5, <2>6
<1> HIDE DEF some, After
<1>4. SalesOf' = [i \in DOMAIN purchases |-> SaleOf(After(i))]
    BY <1>1 DEF SalesOf
<1>5. Promise!End(some)
    BY <1>2, <1>3, <1>4 DEF Promise!End
<1>6. some \in SUBSET DOMAIN SalesOf
    BY <1>2 DEF some
<1> QED BY <1>5, <1>6 DEF Promise!Next

LEMMA AskOpens ==
    ASSUME PurchasesOK, NEW u \in Users, NEW offer \in Offers, Ask(u, offer)
    PROVE  Promise!Next
<1> DEFINE n == NewPurchase(u, offer)
           genuine == offer = Pack
           k == Len(purchases) + 1
<1>1. SaleOf(n) = Promise!New(u, genuine)
    <2>1. /\ n.user = u /\ n.offer = offer /\ n.stage = "asked"
          /\ n.credits = 0 /\ n.rows = 0 /\ n.told = FALSE
        BY Zenon DEF NewPurchase
    <2> HIDE DEF n
    <2>2. PhaseOf(n.stage) = "open"
        BY <2>1 DEF PhaseOf, Travelling, Handled
    <2> QED BY <2>1, <2>2, Zenon DEF SaleOf, Promise!New
<1>b. genuine \in BOOLEAN
    OBVIOUS
<1> HIDE DEF n, genuine
<1>2. purchases' = Append(purchases, n) /\ purchases \in Seq(Purchase)
    BY DEF Ask, n, PurchasesOK
<1>3. /\ Len(purchases) \in Nat /\ DOMAIN purchases = 1 .. Len(purchases)
      /\ DOMAIN purchases' = 1 .. k
      /\ purchases'[k] = n
      /\ \A j \in DOMAIN purchases : purchases'[j] = purchases[j]
    BY <1>2
<1>4. SalesOf = [j \in 1 .. Len(purchases) |-> SaleOf(purchases[j])]
    BY <1>3 DEF SalesOf
<1>5. SalesOf \in Seq({SaleOf(purchases[j]) : j \in DOMAIN purchases}) /\ Len(SalesOf) = Len(purchases)
    BY <1>3, <1>4
<1>6. SalesOf' = [j \in 1 .. k |-> SaleOf(purchases'[j])]
    BY <1>3 DEF SalesOf
<1>7. Append(SalesOf, SaleOf(n)) = [j \in 1 .. k |-> IF j = k THEN SaleOf(n) ELSE SalesOf[j]]
    <2> DEFINE S == {SaleOf(purchases[j]) : j \in DOMAIN purchases} \cup {SaleOf(n)}
    <2>1. SalesOf \in Seq(S) /\ SaleOf(n) \in S
        BY <1>3, <1>4
    <2> HIDE DEF S
    <2> DEFINE sale == SaleOf(n)
               l == Append(SalesOf, sale)
    <2>2. /\ l \in Seq(S) /\ Len(l) = k /\ l[k] = sale
          /\ \A j \in 1 .. Len(SalesOf) : l[j] = SalesOf[j]
        <3> HIDE DEF sale
        <3> QED BY <1>5, <2>1 DEF sale
    <2> HIDE DEF l, sale
    <2>3. l = [j \in 1 .. k |-> l[j]]
        BY <2>2
    <2>4. \A j \in 1 .. k : l[j] = IF j = k THEN sale ELSE SalesOf[j]
        BY <1>3, <1>5, <2>2
    <2> QED BY <2>3, <2>4 DEF l, sale
<1>8. ASSUME NEW j \in 1 .. k
      PROVE  SaleOf(purchases'[j]) = IF j = k THEN SaleOf(n) ELSE SalesOf[j]
    BY <1>3, <1>4
<1>9. SalesOf' = Append(SalesOf, Promise!New(u, genuine))
    BY <1>1, <1>6, <1>7, <1>8
<1>10. Promise!Open
    BY <1>b, <1>9, Zenon DEF Promise!Open
<1> QED BY <1>10 DEF Promise!Next

LEMMA SaleStep == IndInv /\ [Next]_vars => [Promise!Next]_SalesOf
<1> SUFFICES ASSUME PurchasesOK, [Next]_vars PROVE Promise!Next \/ SalesOf' = SalesOf
    BY Parts
<1>1. ASSUME NEW i \in DOMAIN purchases, Step(i)
      PROVE  Promise!Next \/ SalesOf' = SalesOf
    <2> USE DEF PhaseOf, Travelling, Handled
    <2>1. CASE PreCheckout(i)
        BY <2>1, StageShows DEF PreCheckout
    <2>2. CASE Arrive(i)
        BY <2>2, StageShows DEF Arrive
    <2>3. CASE AddQuota(i)
        BY <2>3, AddQuotaRaises
    <2>4. CASE RecordPayment(i)
        BY <2>4, RecordPaymentBooks
    <2>5. CASE DbFails(i) \/ AnswerRefused(i)
        BY <2>5, StageShows DEF DbFails, AnswerRefused
    <2>6. CASE AnswerSent(i)
        BY <2>6, AnswerSentTells
    <2>7. CASE AnswerFails(i)
        BY <2>7, AnswerFailsShows
    <2>8. CASE Retry(i)
        BY <2>8, StageShows DEF Retry
    <2> QED BY <1>1, <2>1, <2>2, <2>3, <2>4, <2>5, <2>6, <2>7, <2>8 DEF Step
<1>2. ASSUME NEW i \in DOMAIN purchases, Charge(i)
      PROVE  Promise!Next
    BY <1>2, ChargeCharges
<1>3. ASSUME purchases' = purchases
      PROVE  SalesOf' = SalesOf
    BY <1>3 DEF SalesOf
<1>4. CASE Chat
    <2>1. CASE \E u \in Users, offer \in Offers : Ask(u, offer)
        BY <2>1, AskOpens
    <2> QED BY <1>3, <1>4, <2>1 DEF Chat, IntervalPasses, Converse, BuyDocs
<1>5. CASE Crash
    BY <1>5, CrashEnds
<1>6. CASE UNCHANGED vars
    BY <1>3, <1>6 DEF vars
<1> QED BY <1>1, <1>2, <1>4, <1>5, <1>6 DEF Next

-----------------------------------------------------------------------------
(* The theorems *)

\* IndInv holds in every reachable state.
THEOREM Invariance == Spec => []IndInv
<1> QED BY InitOK, NextOK, PTL DEF Spec

\* The variables keep their types; no retry goes past max_retries.
THEOREM TypeCorrect == Spec => []TypeOK
<1>1. IndInv => TypeOK
    BY DEF IndInv
<1> QED BY <1>1, Invariance, PTL

\* pre_checkout lets only the pack at its price be charged, and nothing but a
\* charge of a subscriber's raises a quota.
THEOREM PackOnly == Spec => []OnlyThePackIsCharged
<1>1. IndInv => OnlyThePackIsCharged
    <2> SUFFICES ASSUME IndInv, NEW i \in DOMAIN purchases
                 PROVE  LET p == purchases[i]
                        IN  /\ p.stage \in Charged => p.offer = Pack
                            /\ p.credits > 0 => p.stage \in Charged /\ p.user \in Subscribers
        BY DEF OnlyThePackIsCharged
    <2>1. purchases[i] \in Purchase /\ PurchaseOK(purchases[i])
        BY Parts DEF PurchasesOK
    <2> QED BY <2>1 DEF PurchaseOK, Purchase
<1> QED BY <1>1, Invariance, PTL

\* add_quota and record_payment agree about every charge, whatever was repeated
\* or cut off.
THEOREM Books == Spec => []BooksAgree
<1>1. IndInv => BooksAgree
    BY DEF IndInv, PurchaseOK, BooksAgree
<1> QED BY <1>1, Invariance, PTL

\* A subscriber is told of a higher limit only when the books have it.
THEOREM ToldTheTruth == Spec => []ToldIsBooked
<1>1. IndInv => ToldIsBooked
    BY DEF IndInv, PurchaseOK, ToldIsBooked
<1> QED BY <1>1, Invariance, PTL

\* One charge raises a quota at most max_retries times.
THEOREM Bounded == Spec => []CreditsBounded
<1>1. IndInv => CreditsBounded
    <2> SUFFICES ASSUME IndInv, NEW i \in DOMAIN purchases
                 PROVE  LET p == purchases[i]
                        IN  p.credits <= Passes(p) /\ p.credits <= MaxRetries
        BY DEF CreditsBounded
    <2>1. purchases[i] \in Purchase /\ PurchaseOK(purchases[i])
        BY Parts DEF PurchasesOK
    <2> QED BY <2>1, PaymentsAssumption DEF PurchaseOK, Purchase, Passes
<1> QED BY <1>1, Invariance, PTL

\* The purchases, seen as sales, do only what Sale allows: the charge is for the
\* pack, quota and book move in turns after it, at most max_retries times, the
\* answer follows them, and a sale that is over stays as it is.
THEOREM Implements == Spec => SalePromise
<1>1. Init => Promise!Init
    BY DEF Init, Promise!Init, SalesOf
<1> QED BY <1>1, SaleStep, Invariance, PTL DEF Spec, SalePromise, Promise!Spec

==============================================================================
