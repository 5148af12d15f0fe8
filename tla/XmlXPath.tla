------------------------------ MODULE XmlXPath ------------------------------
(***************************************************************************)
(* Queries: node.find makes an XML::XPath and a Node::Set, which is all    *)
(* the program gets of it.  The set's nodes are stored in the result of    *)
(* the query, which the XML::XPath owns; so the set must keep it           *)
(* (ruby_xml_xpath.c, ruby_xml_node_set.c).  The context of the            *)
(* evaluation, which the XML::XPath keeps to no end, is left out.          *)
(***************************************************************************)
EXTENDS XmlOwnership

CONSTANT MaxFound  \* how many nodes a query finds at most

ASSUME FoundAssumption == MaxFound \in Nat

\* xpath_new, after the evaluation: it owns what was found.
XPathNew(xd, found) ==
  [Plain("xpath", Nil, FALSE, xd) EXCEPT !.nodes = found]

\* node_set_new and node_set_new2
NodeSetNew(xd, xpath) ==
  [Plain("set", Nil, FALSE, xd) EXCEPT !.xpath = xpath]

\* The nodes of a set: it points into the result of its query.
Nodes(s) == obj[obj[s].xpath].nodes

\* What the program finds: it need not be below n.
Results(n) == {S \in SUBSET (Whole(obj[n].ptr) \ Doc) : Cardinality(S) <= MaxFound}

\* node.find(path): a node that names no document is refused.  The result may
\* be no set, or the path invalid: then the program gets nothing of it all, and
\* nothing changes.  It is not asked of a node from xpath.set, which takes a
\* node for its document.
Find(n) ==
  /\ IsElement(n) /\ obj[n].xd # Nil /\ obj[obj[n].xd].class = "document"
  /\ \E x \in NewObj("xpath"), s \in NewObj("set"), found \in Results(n) :
       /\ obj' = [obj EXCEPT ![x] = XPathNew(n, found),
                             ![s] = NodeSetNew(obj[n].xd, x)]
       /\ held' = held \cup {s}
  /\ UNCHANGED <<status, above, twice>>

SetFirstOwns(s) ==  \* mutant of SetFirst: the attribute is owned, not copied
  /\ s \in held /\ obj[s].class = "set"
  /\ \E c \in Nodes(s) :
       IF c \in Prop THEN \E o \in NewObj("attr") : Returns(o, AttrNew(obj[s].xd, c))
       ELSE \E o \in NewObj("node") : Returns(o, NodeNew2(obj[s].xd, c))
  /\ UNCHANGED <<status, above, twice>>

\* set.first, each and node.find_first: an attribute is copied.
SetFirst(s) ==
  /\ s \in held /\ obj[s].class = "set"
  /\ \E c \in Nodes(s) :
       IF c \in Prop THEN \E e \in Parent(c) : AttrCopy(obj[s].xd, e)
       ELSE /\ \E o \in NewObj("node") : Returns(o, NodeNew2(obj[s].xd, c))
            /\ UNCHANGED <<status, above, twice>>

\* set.to_a: an attribute of the tree is handed out as an XML::Node, too.
SetToA(s) ==
  /\ s \in held /\ obj[s].class = "set"
  /\ \E o \in NewObj("node"), c \in Nodes(s) : Returns(o, NodeNew2(obj[s].xd, c))
  /\ UNCHANGED <<status, above, twice>>

\* set.xpath
SetXPath(s) ==
  /\ s \in held /\ obj[s].class = "set"
  /\ held' = held \cup {obj[s].xpath}
  /\ UNCHANGED <<status, above, obj, twice>>

\* xpath.set, each: a set whose xd is that of the xpath, which is the node
XPathSet(x) ==
  /\ x \in held /\ obj[x].class = "xpath"
  /\ \E o \in NewObj("set") : Returns(o, NodeSetNew(obj[x].xd, x))
  /\ UNCHANGED <<status, above, twice>>

QueryNext ==
  \/ Next
  \/ \E o \in Obj : Find(o) \/ SetFirst(o) \/ SetToA(o) \/ SetXPath(o) \/ XPathSet(o)

QuerySpec == Init /\ [][QueryNext]_vars
=============================================================================
