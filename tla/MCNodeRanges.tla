----------------------------- MODULE MCNodeRanges -----------------------------
(* A node with the default range, two ranges of the PD and one of an operator. *)
EXTENDS NodeRanges

(* Range 4 is never assigned; operators give it range 2's group. *)
Groups == <<1, 2, 3, 2>>

OperatorAdds == {<<2, 2>>, <<4, 2>>}
==============================================================================
