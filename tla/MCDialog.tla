------------------------------ MODULE MCDialog -------------------------------
(* Instances of Dialog small enough for TLC. *)
EXTENDS Dialog, TLC

CONSTANTS Contract, Draft,      \* templates
          FieldA, FieldB,       \* field names
          Number, Word,         \* a number, and a text that is no number
          StartCommand, AdminCommand

AllTexts == {Number, Word, StartCommand, AdminCommand}
JustNumber == {Number}
NumberAndWord == {Number, Word}
TextKinds == [x \in Texts \cup {NoText} |->
                 CASE x = StartCommand -> {"start"}
                   [] x = AdminCommand -> {"admin"}
                   [] x = NoText       -> {"text", "paid"}
                   [] OTHER            -> {"text"}]
TextShapes == [x \in Texts |-> IF x = Number THEN {"number"} ELSE {}]

NumberField == [name |-> FieldA, type |-> "number", required |-> TRUE]
OptionalField == [name |-> FieldB, type |-> "text", required |-> FALSE]

\* A template of two fields, and fields without a template.
BothFields == [tpl \in {Contract, Draft} |->
                  IF tpl = Contract THEN <<NumberField, OptionalField>>
                                    ELSE <<OptionalField>>]
TextField == [name |-> FieldB, type |-> "text", required |-> TRUE]
OneTextField == [tpl \in {Contract} |-> <<TextField>>]
OneField == [tpl \in {Contract} |-> <<NumberField>>]
NoFields == [tpl \in {Contract} |-> <<>>]

Symmetric == Permutations(Tasks)

==============================================================================
