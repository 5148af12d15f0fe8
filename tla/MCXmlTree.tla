------------------------------ MODULE MCXmlTree ------------------------------
(***************************************************************************)
(* Two documents and four more cells: a root, its neighbour, and two to    *)
(* make an attribute with its text of, or new nodes, or copies.            *)
(***************************************************************************)
EXTENDS XmlTree, TLC

CONSTANTS d, e, n1, n2, n3, n4

MCDoc == {d, e}
MCNode == {n1, n2, n3, n4}

Symmetry == Permutations(MCDoc) \cup Permutations(MCNode)
=============================================================================
