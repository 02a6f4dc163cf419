-------------------------------- MODULE Sale ---------------------------------
(***************************************************************************)
(* What the bot promises about a pack that somebody wants to buy, without  *)
(* messages, handlers or failures: only the pack at its price is charged;  *)
(* after the charge quota and book move in turns, the quota first, a bounded *)
(* number of times; a subscriber is told when they are even; and when the  *)
(* sale is over, for whatever reason, nothing of it changes any more.      *)
(***************************************************************************)
EXTENDS Naturals, Sequences

CONSTANTS Users, Subscribers,
          MaxTimes  \* how often one charge may raise the quota

VARIABLE sales  \* in the order they were opened

New(user, genuine) == [user |-> user, genuine |-> genuine, phase |-> "open",
                       credits |-> 0, rows |-> 0, told |-> FALSE]

Init == sales = <<>>

\* Somebody asks for the pack at its price, or for something else.
Open == \E user \in Users, genuine \in BOOLEAN : sales' = Append(sales, New(user, genuine))

Charge(i) == /\ sales[i].phase = "open" /\ sales[i].genuine
             /\ sales' = [sales EXCEPT ![i].phase = "charged"]

\* The quota goes up, when book and quota are even.
Raise(i) == /\ sales[i].phase = "charged" /\ sales[i].user \in Subscribers
            /\ sales[i].credits = sales[i].rows /\ sales[i].credits < MaxTimes
            /\ sales' = [sales EXCEPT ![i].credits = @ + 1]

\* The book follows.
Book(i) == /\ sales[i].phase = "charged" /\ sales[i].credits = sales[i].rows + 1
           /\ sales' = [sales EXCEPT ![i].rows = @ + 1]

\* The buyer is told, which may end the sale.
Tell(i) == /\ sales[i].phase = "charged"
           /\ sales[i].user \in Subscribers =>
                 sales[i].credits > 0 /\ sales[i].credits = sales[i].rows
           /\ \E phase \in {"charged", "over"} :
                 sales' = [sales EXCEPT ![i].told = TRUE, ![i].phase = phase]

\* Sales come to nothing, or end as far as they got, several at a time.
End(some) == sales' = [i \in DOMAIN sales |->
                          IF i \in some THEN [sales[i] EXCEPT !.phase = "over"] ELSE sales[i]]

Next == \/ \E some \in SUBSET DOMAIN sales : End(some)
        \/ \E i \in DOMAIN sales : Charge(i) \/ Raise(i) \/ Book(i) \/ Tell(i)
        \/ Open

Spec == Init /\ [][Next]_sales

==============================================================================
