------------------------------ MODULE Delivery -------------------------------
(***************************************************************************)
(* What the bot promises about documents, without dialogs, handlers or     *)
(* failures: a document is put on the shelf, complete, before it is handed *)
(* out; it is handed out unchanged, to its owner, and at most once; and    *)
(* what is on the shelf stays there.                                       *)
(***************************************************************************)
EXTENDS Naturals, Sequences

CONSTANTS Users, CompleteForms

VARIABLES shelf,      \* the recorded documents, in the order of their ids: each
                      \* has a user and a form
          handedOut   \* the documents handed out, in that order: [doc, user, form]

vars == <<shelf, handedOut>>

Init == shelf = <<>> /\ handedOut = <<>>

\* A complete form becomes a document of some user.
Record ==
    /\ shelf' # <<>>
    /\ LET new == shelf'[Len(shelf')]
       IN  /\ new.user \in Users
           /\ new.form \in CompleteForms
           /\ shelf' = Append(shelf, new)
    /\ UNCHANGED handedOut

\* Document number doc reaches its owner, for the first time.
HandOut(doc) ==
    /\ doc \in DOMAIN shelf
    /\ \A i \in DOMAIN handedOut : handedOut[i].doc # doc
    /\ handedOut' = Append(handedOut,
           [doc |-> doc, user |-> shelf[doc].user, form |-> shelf[doc].form])
    /\ UNCHANGED shelf

Next == \/ Record
        \/ \E doc \in DOMAIN shelf : HandOut(doc)

Spec == Init /\ [][Next]_vars

==============================================================================
