--------------------------------- MODULE Lists ---------------------------------
(***************************************************************************)
(* The list operations that the modules of this project share.             *)
(***************************************************************************)
EXTENDS Integers, Sequences

(* The list s without the nodes whose data is not in S, the others in their *)
(* order: what deleting nodes one at a time leaves of a list.  This is      *)
(* SelectSeq for membership, as a recursive function.                       *)
Keep(s, S) ==
    LET kept[i \in 0 .. Len(s)] ==
          IF i = 0 THEN <<>>
          ELSE IF s[i] \in S THEN Append(kept[i - 1], s[i]) ELSE kept[i - 1]
    IN  kept[Len(s)]

=============================================================================
