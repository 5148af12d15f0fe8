---------------------------- MODULE XmlOwnership ----------------------------
(***************************************************************************)
(* Who frees what: the Ruby objects of XML::Document, Node, Attr and NS,   *)
(* the C structs they point to, and Ruby's collector, which frees          *)
(* what the program cannot reach any more, in any order and at any time    *)
(* (examples/xml/ext/xml).  XML::XPath and Node::Set are in XmlXPath.      *)
(*                                                                         *)
(* An object owns its struct unless is_ptr is set; its free function then  *)
(* frees the struct and all below it.  Its mark function keeps alive the   *)
(* objects it names, of which xd is the document it was obtained through.  *)
(*                                                                         *)
(* Structs are cells, used again only when no object leads to them, so     *)
(* that an object left behind shows; of a tree it matters here only what   *)
(* is above what.  A method that walks (child, last, next, prev, parent,   *)
(* root) may lead to any element of the tree.  The copy of a node stands   *)
(* for all that was copied with it, an attribute for its text as well.     *)
(*                                                                         *)
(* The program modelled keeps these rules, which the extension leaves to   *)
(* it:                                                                     *)
(*  - it hands over (child=, sibling=, root=) the very object that owns    *)
(*    the node, if any does;                                               *)
(*  - it empties a node (content=, [name]=) only while it holds nothing    *)
(*    of what goes;                                                        *)
(*  - it keeps an owner of a tree while it holds something in the tree     *)
(*    that does not name an owner as its xd;                               *)
(*  - it does not ask an attribute for doc, next or prev, which make an    *)
(*    object that owns what is in a tree (AttrDoc, AttrSibling); and of an *)
(*    attribute, or its text, that it has as an XML::Node it only reads    *)
(*    and walks.                                                           *)
(***************************************************************************)
EXTENDS Naturals, FiniteSets

CONSTANTS
  Doc, Elem, Prop, \* cells for documents, elements, attributes
  Slot,            \* the Ruby objects of each class there can be at a time
  MaxGarbage,      \* how many objects that own something await the collector at most
  Nil

Cell == Doc \cup Elem \cup Prop

Class == {"document", "node", "attr", "ns", "xpath", "set"}

Obj == UNION {Slot[class] : class \in Class}

ASSUME OwnershipAssumption ==
  /\ Doc \cap Elem = {} /\ Doc \cap Prop = {} /\ Elem \cap Prop = {}
  /\ Slot \in [Class -> SUBSET Obj]
  /\ Nil \notin Cell \cup Obj
  /\ MaxGarbage \in Nat

VARIABLES
  status, \* of a cell: "unused", "live" or "freed"
  above,  \* the cells above it in its tree
  obj,    \* the Ruby objects: what they are and point to, or NoObject
  held,   \* those the program refers to
  twice   \* has a free function freed what was free already?

vars == <<status, above, obj, held, twice>>

\* class, the cell pointed to, ~is_ptr, the document named, the xpath that a
\* set comes from, and the cells that an xpath found, or the parent of the
\* attribute that an attr is a copy of
Object == [class : Class, ptr : Cell \cup {Nil}, owns : BOOLEAN,
           xd : Obj \cup {Nil}, xpath : Obj \cup {Nil}, nodes : SUBSET Cell]

NoObject == [class |-> "none", ptr |-> Nil, owns |-> FALSE, xd |-> Nil, xpath |-> Nil,
             nodes |-> {}]

\* Types of the variables.
TypeOK ==
  /\ status \in [Cell -> {"unused", "live", "freed"}]
  /\ above \in [Cell -> SUBSET Cell]
  /\ obj \in [Obj -> Object \cup {NoObject}]
  /\ held \subseteq {o \in Obj : obj[o] # NoObject}
  /\ twice \in BOOLEAN

Present == {o \in Obj : obj[o] # NoObject}

NewCell(S) == {c \in S : status[c] = "unused"}
NewObj(class) == Slot[class] \ Present

\* c and everything below it
Tree(c) == {b \in Cell : b = c \/ c \in above[b]}

\* the attributes of e itself, and the element that p is an attribute of
OwnProps(e) == {p \in Prop : above[p] = above[e] \cup {e}}
Parent(p)   == {e \in Elem : p \in OwnProps(e)}

\* the tree that c is in
Whole(c) == UNION {Tree(t) : t \in {u \in above[c] \cup {c} : above[u] = {}}}

(***************************************************************************)
(* Ruby's collector                                                        *)
(***************************************************************************)
\* The objects that the mark function of o marks; that of a document marks
\* none but its version string.
NodeMarkNothing(o) == {}  \* mutant of NodeMark: the document is not marked
NodeMark(o)  == {obj[o].xd} \ {Nil}
AttrMark(o)  == {obj[o].xd} \ {Nil}
NsMark(o)    == {obj[o].xd} \ {Nil}
XPathMarkNothing(o) == {}  \* mutant of XPathMark: the node is not marked
XPathMark(o) == {obj[o].xd} \ {Nil}
SetMark(o)   == {obj[o].xd, obj[o].xpath} \ {Nil}

Mark(o) ==
  CASE obj[o].class = "document" -> {}
    [] obj[o].class = "node" -> NodeMark(o)
    [] obj[o].class = "attr" -> AttrMark(o)
    [] obj[o].class = "ns" -> NsMark(o)
    [] obj[o].class = "xpath" -> XPathMark(o)
    [] obj[o].class = "set" -> SetMark(o)

\* What can be reached from the objects S: S, and what must join S for all that
\* an object marks to be there with the object.
Reached(S) ==
  S \cup {o \in Present \ S : \A T \in SUBSET (Present \ S) :
            (\A p \in S \cup T : Mark(p) \subseteq S \cup T) => o \in T}

\* What the free functions free: a document or node with all below it.  The
\* others own no cell: ns_new2 is the only constructor of namespaces in use.
\* What they read on the way, the parent of a copied attribute for one, is left
\* out; the same collection may have freed it before.
DocumentFree(o) == IF obj[o].owns THEN Tree(obj[o].ptr) ELSE {}
NodeFreeAlways(o) == IF obj[o].ptr = Nil THEN {} ELSE Tree(obj[o].ptr)  \* mutant: is_ptr ignored
NodeFree(o)     == IF obj[o].owns THEN Tree(obj[o].ptr) ELSE {}
AttrFree(o)     == IF obj[o].owns THEN Tree(obj[o].ptr) ELSE {}

Frees(o) ==
  CASE obj[o].class = "document" -> DocumentFree(o)
    [] obj[o].class = "node" -> NodeFree(o)
    [] obj[o].class = "attr" -> AttrFree(o)
    [] OTHER -> {}

\* The cells an object leads to.
Leads(o) == ({obj[o].ptr} \ {Nil}) \cup obj[o].nodes

\* The cells gone are freed, and free for use again once no object in left
\* leads to them.
Freed(gone, left) ==
  [c \in Cell |->
     IF c \notin gone /\ status[c] # "freed" THEN status[c]
     ELSE IF \E o \in left : c \in Leads(o) THEN "freed" ELSE "unused"]

\* A collection takes all that cannot be reached, in an order of its own:
\* something is freed twice if two of the objects free it, in some order.
Collect ==
  LET garbage == Present \ Reached(held)
      freed == UNION {Frees(o) : o \in garbage}
  IN  /\ garbage # {}
      /\ obj' = [o \in Obj |-> IF o \in garbage THEN NoObject ELSE obj[o]]
      /\ status' = Freed(freed, Present \ garbage)
      /\ above' = [c \in Cell |-> IF c \in freed THEN {} ELSE above[c]]
      /\ twice' = (\/ twice
                   \/ \E c \in freed : status[c] # "live"
                   \/ \E o, p \in garbage : o # p /\ Frees(o) \cap Frees(p) # {})
      /\ UNCHANGED held

\* The objects that own the tree of c.
Owners(c) ==
  {w \in Present : obj[w].owns /\ obj[w].ptr # Nil /\ obj[w].ptr \in above[c] \cup {c}}

\* The program lets go of o, see the third rule.  Objects that nothing leads to
\* any more and that free nothing could as well be collected at once, and are.
Drop(o) ==
  /\ o \in held
  /\ \E left \in {Reached(held \ {o})} : \E garbage \in {{p \in Present \ left : Frees(p) # {}}} :
       /\ \A p \in left : \A c \in Leads(p) :
            Owners(c) # {} => \E w \in Owners(c) : w \in left \/ obj[p].xd = w
       /\ Cardinality(garbage) <= MaxGarbage
       /\ obj' = [p \in Obj |-> IF p \in left \cup garbage THEN obj[p] ELSE NoObject]
  /\ held' = held \ {o}
  /\ UNCHANGED <<status, above, twice>>

(***************************************************************************)
(* Ruby objects                                                            *)
(***************************************************************************)
Plain(class, c, owns, xd) ==
  [class |-> class, ptr |-> c, owns |-> owns, xd |-> xd, xpath |-> Nil,
   nodes |-> {}]

\* document_new, document_new2: the owner of a document, and document_new4
DocumentNew(d)  == Plain("document", d, TRUE, Nil)
DocumentNew4(d) == Plain("document", d, FALSE, Nil)

NodeNew(c)      == Plain("node", c, TRUE, Nil)
NodeNew2(xd, c) == Plain("node", c, FALSE, xd)

\* attr_new owns the attribute; is_ptr is set after it by the one caller that
\* should.  attr_new2 copies the attribute and owns the copy, the parent of which
\* is that of the attribute.
AttrNew(xd, c)    == Plain("attr", c, TRUE, xd)
AttrSetPtr(xd, c) == Plain("attr", c, FALSE, xd)
AttrNew2(xd, copy, parent) == [AttrNew(xd, copy) EXCEPT !.nodes = {parent}]

\* A namespace is stored in the node that declares it.
NsNew2(xd, c)   == Plain("ns", c, FALSE, xd)

\* A method returns the new object o; the program does not ask for what it holds.
Returns(o, object) ==
  /\ \A h \in held : obj[h] # object
  /\ obj' = [obj EXCEPT ![o] = object]
  /\ held' = held \cup {o}

\* n is set to is_ptr (ruby_xml_node_set_ptr).
SetPtr(n) == [obj EXCEPT ![n].owns = FALSE]

IsNode(o)     == o \in held /\ obj[o].class = "node"
IsElement(o)  == IsNode(o) /\ obj[o].ptr \in Elem
IsAttr(o)     == o \in held /\ obj[o].class = "attr"
IsDocument(o) == o \in held /\ obj[o].class = "document"

(***************************************************************************)
(* Making and walking                                                      *)
(***************************************************************************)
\* XML::Document.new, or a parsed document with a root
DocumentInitialize ==
  \E o \in NewObj("document"), d \in NewCell(Doc), r \in NewCell(Elem) \cup {Nil} :
    /\ status' = [c \in Cell |-> IF c \in {d, r} THEN "live" ELSE status[c]]
    /\ above' = [c \in Cell |-> IF c = r THEN {d} ELSE above[c]]
    /\ Returns(o, DocumentNew(d))
    /\ UNCHANGED twice

\* XML::Node.new
NodeInitialize ==
  \E o \in NewObj("node"), c \in NewCell(Elem) :
    /\ status' = [status EXCEPT ![c] = "live"]
    /\ Returns(o, NodeNew(c))
    /\ UNCHANGED <<above, twice>>

\* node.copy; the copy of an attribute is AttrCopy.
NodeCopy(n) ==
  /\ IsElement(n)
  /\ \E o \in NewObj("node"), c \in NewCell(Elem) :
       /\ status' = [status EXCEPT ![c] = "live"]
       /\ Returns(o, NodeNew(c))
  /\ UNCHANGED <<above, twice>>

\* document.root, child, last: the document is the xd.
DocumentWalk(d) ==
  /\ IsDocument(d)
  /\ \E o \in NewObj("node"), c \in Tree(obj[d].ptr) \cap Elem : Returns(o, NodeNew2(d, c))
  /\ UNCHANGED <<status, above, twice>>

\* node.child, last, next, prev, parent: the xd is passed on.  An attribute leads
\* to its text, the text to the attribute, and next and prev to the attributes
\* after it.
NodeWalk(n) ==
  /\ IsNode(n)
  /\ LET ptr == obj[n].ptr
         to  == IF ptr \in Prop THEN {ptr} \cup UNION {OwnProps(e) : e \in Parent(ptr)}
                ELSE Whole(ptr) \cap Elem
     IN  \E o \in NewObj("node"), c \in to : Returns(o, NodeNew2(obj[n].xd, c))
  /\ UNCHANGED <<status, above, twice>>

\* node.ns_def, namespace, namespace_node, search_ns
Namespace(n) ==
  /\ IsElement(n)
  /\ \E o \in NewObj("ns"), c \in (above[obj[n].ptr] \cup {obj[n].ptr}) \cap Elem :
       Returns(o, NsNew2(obj[n].xd, c))
  /\ UNCHANGED <<status, above, twice>>

\* node.doc: another object for the document, which then does not own it and
\* names no object
NodeDoc(n) ==
  /\ IsElement(n)
  /\ \E o \in NewObj("document"), d \in Whole(obj[n].ptr) \cap Doc : Returns(o, DocumentNew4(d))
  /\ UNCHANGED <<status, above, twice>>

(***************************************************************************)
(* Attributes                                                              *)
(***************************************************************************)
\* A copy of an attribute of e
AttrCopy(xd, e) ==
  \E o \in NewObj("attr"), c \in NewCell(Prop) :
    /\ status' = [status EXCEPT ![c] = "live"]
    /\ Returns(o, AttrNew2(xd, c, e))
    /\ UNCHANGED <<above, twice>>

\* node.properties: a copy of the first; without any it crashes.
Properties(n) ==
  /\ IsElement(n)
  /\ OwnProps(obj[n].ptr) # {}
  /\ AttrCopy(obj[n].xd, obj[n].ptr)

\* attr.child, last: the text
AttrChild(a) ==
  /\ IsAttr(a)
  /\ \E o \in NewObj("node") : Returns(o, NodeNew2(obj[a].xd, obj[a].ptr))
  /\ UNCHANGED <<status, above, twice>>

\* The parent of the attribute, or the one its copy points to
AttrParents(a) == obj[a].nodes \cup Parent(obj[a].ptr)

\* attr.parent
AttrParent(a) ==
  /\ IsAttr(a)
  /\ \E o \in NewObj("node"), e \in AttrParents(a) : Returns(o, NodeNew2(obj[a].xd, e))
  /\ UNCHANGED <<status, above, twice>>

\* attr.ns
AttrNs(a) ==
  /\ IsAttr(a)
  /\ \E o \in NewObj("ns"), e \in AttrParents(a) :
       \E c \in (above[e] \cup {e}) \cap Elem : Returns(o, NsNew2(obj[a].xd, c))
  /\ UNCHANGED <<status, above, twice>>

\* attr.doc makes an object that owns the document, too; and attr.next and prev
\* one that owns another attribute of the element.  By the fourth rule the
\* program of Next does not call them.
AttrDoc(a) ==
  /\ IsAttr(a)
  /\ \E o \in NewObj("document"), d \in UNION {Whole(c) : c \in Leads(a)} \cap Doc :
       /\ obj' = [obj EXCEPT ![o] = DocumentNew(d)]
       /\ held' = held \cup {o}
  /\ UNCHANGED <<status, above, twice>>

AttrSibling(a) ==
  /\ IsAttr(a)
  /\ \E o \in NewObj("attr"), e \in Parent(obj[a].ptr) :
       \E c \in OwnProps(e) \ {obj[a].ptr} :
         /\ obj' = [obj EXCEPT ![o] = AttrNew(obj[a].xd, c)]
         /\ held' = held \cup {o}
  /\ UNCHANGED <<status, above, twice>>

(***************************************************************************)
(* Linking and unlinking                                                   *)
(***************************************************************************)
\* May n be handed over: does it own the node, if any object does?  The first
\* rule.
HandedOver(n) ==
  /\ IsElement(n)
  /\ \A w \in Present : obj[w].owns /\ obj[w].ptr = obj[n].ptr => w = n

\* The cells above c when it is put below the cells of up.
Put(c, up) ==
  [b \in Cell |-> CASE b = c -> up
                    [] c \in above[b] -> (above[b] \ above[c]) \cup up
                    [] OTHER -> above[b]]

Links(p, n) ==
  /\ IsElement(p) /\ HandedOver(n)
  /\ above[obj[n].ptr] = {} /\ obj[p].ptr \notin Tree(obj[n].ptr)
  /\ UNCHANGED <<status, twice>>

ChildSetOwned(p, n) ==  \* mutant of ChildSet: without node_set_ptr
  /\ Links(p, n)
  /\ above' = Put(obj[n].ptr, above[obj[p].ptr] \cup {obj[p].ptr})
  /\ UNCHANGED <<obj, held>>

\* p.child = n, the value of which is n, and p << n, which returns an object
\* with the document of p
ChildSet(p, n) ==
  /\ Links(p, n)
  /\ above' = Put(obj[n].ptr, above[obj[p].ptr] \cup {obj[p].ptr})
  /\ \/ /\ obj' = SetPtr(n)
        /\ UNCHANGED held
     \/ \E o \in NewObj("node") :
          /\ obj' = [SetPtr(n) EXCEPT ![o] = NodeNew2(obj[p].xd, obj[n].ptr)]
          /\ \A h \in held : obj'[h] # obj'[o]
          /\ held' = held \cup {o}

\* s.sibling = n: beside a node without a parent, n has none either.
SiblingSet(s, n) ==
  /\ Links(s, n)
  /\ above' = Put(obj[n].ptr, above[obj[s].ptr])
  /\ obj' = SetPtr(n)
  /\ UNCHANGED held

\* d.root = n: n leaves its tree; the old root, one of the elements below the
\* document, leaves it for good, since no object owns it.
RootSet(d, n) ==
  /\ IsDocument(d) /\ HandedOver(n)
  /\ LET c == obj[n].ptr
         roots == {r \in Elem \ {c} : above[r] = {obj[d].ptr}}
         put == Put(c, {obj[d].ptr})
     IN  \/ /\ roots = {} /\ above' = put
         \/ \E r \in roots :
              above' = [b \in Cell |-> IF b \in Tree(r) \ Tree(c)
                                      THEN put[b] \ {obj[d].ptr} ELSE put[b]]
  /\ obj' = SetPtr(n)
  /\ UNCHANGED <<status, held, twice>>

\* node.remove!: it keeps its xd, and no object owns it.
Remove(n) ==
  /\ IsElement(n)
  /\ above' = Put(obj[n].ptr, {})
  /\ UNCHANGED <<status, obj, held, twice>>

\* node.content = string, for all below, and node[name] = nil, for one
\* attribute; the second rule.
Empty(n) ==
  /\ IsElement(n)
  /\ LET below == Tree(obj[n].ptr) \ {obj[n].ptr}
         Inside(b) == b \in Elem \/ above[b] \cap below # {}
     IN  \E gone \in {{b \in below : Inside(b)}} \cup {{p} : p \in below \ Elem} :
       /\ gone # {}
       /\ \A o \in Reached(held) : Leads(o) \cap gone = {}
       /\ status' = Freed(gone, Present)
       /\ above' = [c \in Cell |-> IF c \in gone THEN {} ELSE above[c]]
  /\ UNCHANGED <<obj, held, twice>>

\* node[name] = string returns the attribute itself, a new one or the one there
\* is, the text of which goes; the second rule.
PropertySet(n) ==
  /\ IsElement(n)
  /\ \/ \E o \in NewObj("attr"), c \in NewCell(Prop) :
          /\ status' = [status EXCEPT ![c] = "live"]
          /\ above' = [above EXCEPT ![c] = above[obj[n].ptr] \cup {obj[n].ptr}]
          /\ Returns(o, AttrSetPtr(obj[n].xd, c))
     \/ /\ \E o \in NewObj("attr"), c \in OwnProps(obj[n].ptr) :
             /\ \A h \in Reached(held) : obj[h].class = "node" => obj[h].ptr # c
             /\ Returns(o, AttrSetPtr(obj[n].xd, c))
        /\ UNCHANGED <<status, above>>
  /\ UNCHANGED twice

Init ==
  /\ status = [c \in Cell |-> "unused"]
  /\ above = [c \in Cell |-> {}]
  /\ obj = [o \in Obj |-> NoObject]
  /\ held = {}
  /\ twice = FALSE

Next ==
  \/ DocumentInitialize \/ NodeInitialize \/ Collect
  \/ \E o \in Obj :
       \/ NodeCopy(o) \/ DocumentWalk(o) \/ NodeWalk(o) \/ Namespace(o)
       \/ NodeDoc(o) \/ Properties(o) \/ AttrChild(o) \/ AttrParent(o) \/ AttrNs(o)
       \/ Remove(o) \/ Empty(o) \/ PropertySet(o) \/ Drop(o)
  \/ \E p, n \in Obj : ChildSet(p, n) \/ SiblingSet(p, n) \/ RootSet(p, n)

Spec == Init /\ [][Next]_vars

(***************************************************************************)
(* Properties                                                              *)
(***************************************************************************)
\* A cell has at most one owner, and an owner's cell is the top of a tree
\* which is there: no free function takes a node out of somebody's tree, and
\* no two free the same.  Each linking method must see to it (set_ptr), and
\* each method that hands out a part of a tree (new2).
OneOwner ==
  /\ \A o \in Present :
       obj[o].owns /\ obj[o].ptr # Nil =>
         status[obj[o].ptr] = "live" /\ above[obj[o].ptr] = {}
  /\ \A c \in Cell : Cardinality(Owners(c)) <= 1

\* Nothing is freed twice, in whatever order the collector takes the objects.
FreedOnce == ~twice

\* What the program can reach leads to what is there: the cell of a node, an
\* attribute or a namespace, the element that a copied attribute takes for its
\* parent, the nodes a query found, the query that a set points into; although
\* the collector may run at any time.
HeldAlive ==
  \A o \in Reached(held) :
    /\ \A c \in Leads(o) : status[c] = "live"
    /\ {obj[o].xd, obj[o].xpath} \subseteq Present \cup {Nil}
=============================================================================
