---------------------------- MODULE MCProgress ----------------------------
(* Two workers, and three entries: two of two pieces and one that is empty. *)
(* A threshold of 2 is reached by one piece of 2 or by two of 1.            *)
EXTENDS Progress, TLC

CONSTANTS e1, e2, e3

MCEntries == {e1, e2, e3}
MCPieces == e1 :> <<1, 2>> @@ e2 :> <<2, 1>> @@ e3 :> <<>>
===========================================================================
