-------------------------------- MODULE Sheet --------------------------------
(***************************************************************************)
(* The sheet generator/pdf.py draws on, in millimetres: A4 is 297 high,    *)
(* its margin 20 and the pitch of the lines 5.                             *)
(***************************************************************************)
EXTENDS Integers

CONSTANTS Height, Margin, Pitch

\* There is room for a line between the margins.
ASSUME SheetAssumption ==
    /\ Height \in Nat /\ Margin \in Nat /\ Pitch \in Nat \ {0}
    /\ Margin <= Height - Margin

\* Where the first line of a page stands, counted from the lower edge.
Top == Height - Margin
==============================================================================
