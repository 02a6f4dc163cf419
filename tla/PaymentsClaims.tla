--------------------------- MODULE PaymentsClaims ----------------------------
(***************************************************************************)
(* What texts and docstrings of the repository say of a payment, as        *)
(* properties of Payments.  TLC finds each of them violated.               *)
(***************************************************************************)
EXTENDS Payments

\* service.py:206: add_quota adds the documents after a successful payment.  The
\* service message of the payment may be thrown away by ThrottlingMiddleware, by
\* an open form or by a restart, and Telegram sends it once.
PaidIsCredited ==
    \A i \in DOMAIN purchases :
        /\ purchases[i].stage \in Settled
        /\ purchases[i].user \in Subscribers
        => purchases[i].credits > 0

\* handlers.py:230: a pack of 10 documents.  When PAID_LIMIT_UP does not get
\* through, RetryMiddleware runs add_quota again for the same charge.
OnePackPerCharge == \A i \in DOMAIN purchases : purchases[i].credits <= 1

==============================================================================
