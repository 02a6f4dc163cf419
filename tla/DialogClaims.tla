---------------------------- MODULE DialogClaims -----------------------------
(***************************************************************************)
(* What the repository's README says of the dialog, as properties of       *)
(* Dialog.  TLC finds each of them violated.                               *)
(***************************************************************************)
EXTENDS Dialog, FiniteSets

CONSTANT FreeDocsLimit   \* Config.free_docs_limit

Quiet == \A t \in Tasks : tasks[t] = Idle

\* README.md:36: FREE_DOCS_LIMIT bounds what a new user can generate.  The
\* handlers read it for one admin text only, and increment_docs_used is dead.
FreeAllowance ==
    \A u \in Users :
        Cardinality({i \in DOMAIN documents : documents[i].user = u}) <= FreeDocsLimit

\* README.md:37: delivery and accounting happen together.  save_document
\* commits three Telegram calls before answer_document, and nothing resumes
\* the delivery when one of them fails.
RecordedIsDelivered ==
    Quiet => \A i \in DOMAIN documents : \E j \in DOMAIN delivered : delivered[j].doc = i

==============================================================================
