----------------------------- MODULE MCCatalog ------------------------------
(* An instance of Catalog small enough for TLC. *)
EXTENDS Catalog

CONSTANTS Alice, Bob, Lease, Invoice, Legal, Sales

OneTemplate == [tpl \in Templates |-> IF tpl = Lease THEN Legal ELSE NoRow]

DocumentOf(user, second) == [user |-> user, created_at |-> second]

\* What Alice saves next, in the second of her later document, ties with it.
SeveralDocuments == <<DocumentOf(Alice, 0), DocumentOf(Bob, 0), DocumentOf(Alice, 1)>>
==============================================================================
