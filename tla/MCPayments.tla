----------------------------- MODULE MCPayments ------------------------------
(* Instances of Payments small enough for TLC. *)
EXTENDS Payments

CONSTANTS sub, guest   \* a user with a subscription, and one without

\* The pack, and a query that names one star for it.
ThePack == [payload |-> "docs_pack_10", amount |-> 10]
OneStar == [payload |-> "docs_pack_10", amount |-> 1]
AllOffers == {ThePack, OneStar}
JustThePack == {ThePack}

==============================================================================
