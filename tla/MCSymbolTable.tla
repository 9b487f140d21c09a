--------------------------- MODULE MCSymbolTable ---------------------------
(* SymbolTable for TLC: three names, of which two have the same hash code and
   the third meets them in the smaller tables. *)
EXTENDS SymbolTable

Codes == [n \in Name |-> IF n = "c" THEN 1 ELSE 5]
Sizes == <<1, 2, 3>>
=============================================================================
