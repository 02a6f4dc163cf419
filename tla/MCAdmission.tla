---------------------------- MODULE MCAdmission ------------------------------
(* An instance of Admission small enough for TLC. *)
EXTENDS Admission, TLC

CONSTANTS Guest, Owner, t1, t2

\* ADMIN_IDS names somebody else, or the user among other items, or nobody.
AdminLists == {<<Owner>>, <<Blank, Guest, Junk, Owner>>, <<Junk, Blank>>}

Symmetric == Permutations(Tasks)

==============================================================================
