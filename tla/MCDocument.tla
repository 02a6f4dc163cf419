----------------------------- MODULE MCDocument ------------------------------
(* An instance of Document small enough for TLC. *)
EXTENDS Document

CONSTANTS FieldA, FieldB, Word

\* Whatever a text consists of but line breaks.
LineSymbols == Tokens \ {Break}

==============================================================================
