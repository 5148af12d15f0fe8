----------------------------- MODULE MCXmlXPath -----------------------------
(***************************************************************************)
(* Beside the object of the document there are: for the run objects three  *)
(* nodes and one object more; for the run queries one node, a query, its   *)
(* set, and one object more; for the run attribute_owners a node, two      *)
(* attributes and a second object for the document, so that attr.doc and   *)
(* attr.next and prev may make another owner.                              *)
(***************************************************************************)
EXTENDS XmlXPath, TLC

CONSTANTS d, n1, n2, n3, x, s, other

ObjectsSlot ==
  [class \in Class |->
     CASE class = "document" -> {d, other}
       [] class = "node" -> {n1, n2, n3}
       [] class \in {"attr", "ns"} -> {other}
       [] OTHER -> {}]

QueriesSlot ==
  [class \in Class |->
     CASE class = "document" -> {d}
       [] class = "node" -> {n1, other}
       [] class = "attr" -> {other}
       [] class \in {"xpath", "ns"} -> {x}
       [] class = "set" -> {s}
       [] OTHER -> {}]

AttributeSlot ==
  [class \in Class |->
     CASE class = "document" -> {d, other}
       [] class = "node" -> {n1}
       [] class = "attr" -> {n2, n3}
       [] OTHER -> {}]

\* The program calls attr.doc, next and prev, too.
AttributeSpec == Init /\ [][Next \/ \E a \in Obj : AttrDoc(a) \/ AttrSibling(a)]_vars

CellSymmetry    == Permutations(Elem) \cup Permutations(Prop)
ObjectsSymmetry == CellSymmetry \cup Permutations({n1, n2, n3})
=============================================================================
