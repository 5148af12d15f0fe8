------------------------------- MODULE XmlTree -------------------------------
(***************************************************************************)
(* The tree that the methods of XML::Node, XML::Document and XML::Attr     *)
(* build, change and walk (examples/xml/ext/xml).  A cell is the C struct  *)
(* of a node; tree maps it to its links.  The operations on links are      *)
(* libxml2's and external; which of them a method calls, on what, and      *)
(* which kinds of node it follows links of, is the extension's.            *)
(*                                                                         *)
(* Contents and names of elements are left out: text is a cell, and an     *)
(* attribute is told by its name.  The program modelled hands over (child, *)
(* sibling) only nodes that are in no tree, as libxml2's xmlAddChild asks, *)
(* gives children to elements and documents, and uses no node that         *)
(* content= has freed: XmlOwnership is about those.                        *)
(***************************************************************************)
EXTENDS Naturals, FiniteSets, Functions

CONSTANTS
  Doc,      \* cells for documents
  Node,     \* cells for everything else: the bound on the size of the trees
  Nil,      \* NULL
  Leaf,     \* the kinds of the node that a parsed document holds by its root
  AttrName  \* names of attributes besides xml:base and xml:lang

Cell == Doc \cup Node

ASSUME TreeAssumption ==
  /\ Doc \cap Node = {} /\ Nil \notin Cell
  /\ Cell # {} /\ IsFiniteSet(Cell)
  /\ {"xml:base", "xml:lang", "none"} \cap AttrName = {}

VARIABLE tree

(***************************************************************************)
(* Kinds                                                                   *)
(***************************************************************************)
\* xmlElementType, and the constants XML::Tree gives for it.
Kind == {"element", "attribute", "text", "cdata", "entity_ref", "entity", "pi",
         "comment", "document", "doctype", "fragment", "notation",
         "html_document", "dtd", "element_decl", "attribute_decl",
         "entity_decl", "namespace", "xinclude_start", "xinclude_end",
         "docb_document"}

Document == {"document", "docb_document", "html_document"}

\* The parser puts neither of the rest below or beside the root.
ASSUME LeafAssumption ==
  Leaf \subseteq Kind \ (Document \cup {"attribute", "fragment", "namespace"})

\* node_type_name: a name for each kind but one.
TypeName ==
  [k \in Kind \ {"docb_document"} |->
     CASE k = "document" -> "document_xml"
       [] k = "html_document" -> "document_html"
       [] k = "element_decl" -> "elem_decl"
       [] OTHER -> k]

IsAttribute(k)     == k = "attribute"
IsAttributeDecl(k) == k = "attribute_decl"
IsCdata(k)         == k = "cdata"
IsComment(k)       == k = "comment"
IsDocbookDoc(k)    == k = "docb_document"
IsDoctype(k)       == k = "doctype"
IsDocument(k)      == k = "document"
IsDtd(k)           == k = "dtd"
IsElement(k)       == k = "element"
IsElementDecl(k)   == k = "element_decl"
IsEntity(k)        == k = "entity"
IsEntityRef(k)     == k = "entity_ref"
IsFragment(k)      == k = "fragment"
IsHtmlDoc(k)       == k = "html_document"
IsNamespace(k)     == k = "namespace"
IsNotation(k)      == k = "notation"
IsPi(k)            == k = "pi"
IsText(k)          == k \in {"text", "cdata"}  \* what xmlNodeIsText says
IsXincludeEnd(k)   == k = "xinclude_end"
IsXincludeStart(k) == k = "xinclude_start"

\* The predicates that say yes to a node of kind k.
Answers(k) ==
  {p \in Kind :
     \/ p = "attribute" /\ IsAttribute(k)
     \/ p = "attribute_decl" /\ IsAttributeDecl(k)
     \/ p = "cdata" /\ IsCdata(k)
     \/ p = "comment" /\ IsComment(k)
     \/ p = "docb_document" /\ IsDocbookDoc(k)
     \/ p = "doctype" /\ IsDoctype(k)
     \/ p = "document" /\ IsDocument(k)
     \/ p = "dtd" /\ IsDtd(k)
     \/ p = "element" /\ IsElement(k)
     \/ p = "element_decl" /\ IsElementDecl(k)
     \/ p = "entity" /\ IsEntity(k)
     \/ p = "entity_ref" /\ IsEntityRef(k)
     \/ p = "fragment" /\ IsFragment(k)
     \/ p = "html_document" /\ IsHtmlDoc(k)
     \/ p = "namespace" /\ IsNamespace(k)
     \/ p = "notation" /\ IsNotation(k)
     \/ p = "pi" /\ IsPi(k)
     \/ p = "text" /\ IsText(k)
     \/ p = "xinclude_end" /\ IsXincludeEnd(k)
     \/ p = "xinclude_start" /\ IsXincludeStart(k)}

(***************************************************************************)
(* libxml2's links (external)                                              *)
(***************************************************************************)
Fresh(k, name) ==
  [kind |-> k, name |-> name, up |-> Nil, first |-> Nil, last |-> Nil,
   next |-> Nil, prev |-> Nil, props |-> Nil, doc |-> Nil]

FreshDocument(d) == [Fresh("document", "none") EXCEPT !.doc = d]

Unused == Fresh("free", "none")

CellState ==
  [kind : Kind \cup {"free"}, name : AttrName \cup {"xml:base", "xml:lang", "none"},
   up : Cell \cup {Nil}, first : Node \cup {Nil}, last : Node \cup {Nil},
   next : Node \cup {Nil}, prev : Node \cup {Nil}, props : Node \cup {Nil},
   doc : Doc \cup {Nil}]

ASSUME NilAssumption == Nil \notin CellState

Free == {n \in Node : tree[n] = Unused}
Live == {n \in Cell : tree[n] # Unused}

\* The cells from n up to the top of its tree.
Upwards(t, n) ==
  LET U[m \in Cell \cup {Nil}] == IF m = Nil THEN {} ELSE {m} \cup U[t[m].up]
  IN  U[n]

\* n with everything below it, attributes included.
Subtree(t, n) == {m \in Cell : n \in Upwards(t, m)}

\* n and whatever is chained to it.
Siblings(t, n) ==
  IF t[n].up # Nil
  THEN {m \in Cell : t[m].up = t[n].up
                       /\ (t[m].kind = "attribute") = (t[n].kind = "attribute")}
  ELSE LET S[m \in Cell \cup {Nil}] == IF m = Nil THEN {} ELSE {m} \cup S[t[m].next]
           R[m \in Cell \cup {Nil}] == IF m = Nil THEN {} ELSE {m} \cup R[t[m].prev]
       IN  S[n] \cup R[n]

Unlinked(t, n) == t[n].up = Nil /\ t[n].next = Nil /\ t[n].prev = Nil

\* xmlUnlinkNode: its neighbours close ranks; its doc stays what it was.
Unlink(t, n) ==
  LET next == t[n].next
      prev == t[n].prev
      Close(r) ==
        [r EXCEPT !.first = IF @ = n THEN next ELSE @,
                  !.props = IF @ = n THEN next ELSE @,
                  !.last  = IF @ = n THEN prev ELSE @,
                  !.next  = IF @ = n THEN next ELSE @,
                  !.prev  = IF @ = n THEN prev ELSE @]
  IN  [m \in Cell |->
         IF m = n THEN [t[n] EXCEPT !.up = Nil, !.next = Nil, !.prev = Nil]
         ELSE Close(t[m])]

\* xmlFreeNode
FreeNode(t, n) == [m \in Cell |-> IF m \in Subtree(t, n) THEN Unused ELSE t[m]]

\* xmlSetTreeDoc
SetTreeDoc(t, n, d) ==
  [m \in Cell |-> IF m \in Subtree(t, n) THEN [t[m] EXCEPT !.doc = d] ELSE t[m]]

\* c after the sibling s, the last one below p or without a parent.
LinkAfter(t, p, s, c) ==
  [m \in Cell |->
     CASE m = c -> [t[c] EXCEPT !.up = p, !.prev = s]
       [] m = s -> [t[s] EXCEPT !.next = c]
       [] m = p -> [t[p] EXCEPT !.last = IF t[c].kind = "attribute" THEN @ ELSE c]
       [] OTHER -> t[m]]

\* c as the only child, or attribute, of p.
LinkOnly(t, p, c) ==
  IF t[c].kind = "attribute"
  THEN [t EXCEPT ![c].up = p, ![p].props = c]
  ELSE [t EXCEPT ![c].up = p, ![p].first = c, ![p].last = c]

LastOf(t, chain) == CHOOSE m \in chain : t[m].next = Nil

Attributes(t, n) == {m \in Cell : t[m].up = n /\ t[m].kind = "attribute"}

\* xmlAddChild of an unlinked c: text merges into text before it and is
\* freed; an attribute displaces the one of its name.
AddChild(t, p, c) ==
  LET s == SetTreeDoc(t, c, t[p].doc)
      same == {a \in Attributes(t, p) : t[a].name = t[c].name}
      one == CHOOSE a \in same : TRUE
      u == IF same = {} THEN s ELSE FreeNode(Unlink(s, one), one)
  IN  IF t[c].kind = "attribute"
      THEN IF Attributes(u, p) = {} THEN LinkOnly(u, p, c)
           ELSE LinkAfter(u, p, LastOf(u, Attributes(u, p)), c)
      ELSE IF t[p].last = Nil THEN LinkOnly(s, p, c)
      ELSE IF t[c].kind = "text" /\ t[t[p].last].kind = "text" THEN FreeNode(t, c)
      ELSE LinkAfter(s, p, t[p].last, c)

\* xmlAddSibling: at the end of the siblings of s, merging text likewise.
AddSibling(t, s, c) ==
  LET last == LastOf(t, Siblings(t, s))
  IN  IF t[c].kind = "text" /\ t[last].kind = "text" THEN FreeNode(t, c)
      ELSE LinkAfter(SetTreeDoc(t, c, t[s].doc), t[s].up, last, c)

\* xmlReplaceNode
ReplaceNode(t, old, c) ==
  LET r == t[old]
      Point(q) == [q EXCEPT !.first = IF @ = old THEN c ELSE @,
                            !.last  = IF @ = old THEN c ELSE @,
                            !.next  = IF @ = old THEN c ELSE @,
                            !.prev  = IF @ = old THEN c ELSE @]
  IN  [m \in Cell |->
         CASE m = old -> [r EXCEPT !.up = Nil, !.next = Nil, !.prev = Nil]
           [] m = c -> [t[c] EXCEPT !.up = r.up, !.next = r.next, !.prev = r.prev]
           [] OTHER -> Point(t[m])]

Below(t, n) == {m \in Cell : t[m].up = n /\ t[m].kind # "attribute"}

\* xmlDocGetRootElement: the first element below the document.
RootElement(t, d) ==
  LET F[m \in Cell \cup {Nil}] ==
        IF m = Nil \/ t[m].kind = "element" THEN m ELSE F[t[m].next]
  IN  F[t[d].first]

\* xmlDocSetRootElement: c leaves its place and takes that of the root.
SetRootElement(t, d, c) ==
  LET u == SetTreeDoc(Unlink(t, c), c, d)
      old == RootElement(u, d)
  IN  IF old # Nil THEN ReplaceNode(u, old, c)
      ELSE IF u[d].first = Nil THEN LinkOnly(u, d, c)
      ELSE LinkAfter(u, d, u[d].last, c)

Text(v, t) == [t EXCEPT ![v] = Fresh("text", "none")]

\* xmlNodeSetContent: all below is freed and text v put in its place, none if
\* v is Nil.  Of other kinds it changes the contents only, or nothing.
SetContent(t, n, v) ==
  LET gone == UNION {Subtree(t, m) : m \in Below(t, n)}
      u == [m \in Cell |->
              CASE m = n -> [t[n] EXCEPT !.first = Nil, !.last = Nil]
                [] m \in gone -> Unused
                [] OTHER -> t[m]]
  IN  IF t[n].kind \notin {"element", "attribute", "fragment"} THEN t
      ELSE IF v = Nil THEN u ELSE AddChild(Text(v, u), n, v)

\* xmlNodeAddContent
AddContent(t, n, v) ==
  IF t[n].kind \in {"element", "fragment"} THEN AddChild(Text(v, t), n, v) ELSE t

\* xmlSetProp, xmlNewProp: the attribute a of n, or the one of that name, with
\* text v; only an element has attributes.
SetProp(t, n, name, a, v) ==
  LET same == {m \in Attributes(t, n) : t[m].name = name}
      new == AddChild([t EXCEPT ![a] = Fresh("attribute", name)], n, a)
  IN  CASE t[n].kind # "element" -> t
        [] same # {} -> SetContent(t, CHOOSE m \in same : TRUE, v)
        [] OTHER -> SetContent(new, a, v)

\* xmlRemoveProp
RemoveProp(t, a) == FreeNode(Unlink(t, a), a)

\* xmlCopyNode: a node like n alone, or with everything below it, f naming
\* the cells of the copy; in no document.
CopyNode(t, n, deep, f) ==
  LET src(c) == CHOOSE m \in DOMAIN f : f[m] = c
      To(m) == IF m \in DOMAIN f THEN f[m] ELSE Nil
      Copied(r) == [r EXCEPT !.up = To(@), !.first = To(@), !.last = To(@),
                             !.next = To(@), !.prev = To(@), !.props = To(@),
                             !.doc = Nil]
  IN  [c \in Cell |->
         IF c \notin Range(f) THEN t[c]
         ELSE IF deep THEN Copied(t[src(c)])
         ELSE Fresh(t[n].kind, t[n].name)]

(***************************************************************************)
(* Walking: XML::Node                                                      *)
(***************************************************************************)
\* The kinds whose children the methods follow, besides attributes.
Container == {"element", "entity_ref", "entity", "pi", "comment", "dtd"} \cup Document

ChildGet(n) ==
  IF tree[n].kind \in Container \cup {"attribute"} THEN tree[n].first ELSE Nil

HasChild(n) ==
  tree[n].kind \in Container \cup {"attribute"} /\ tree[n].first # Nil

LastGet(n) ==  \* the case of an attribute falls through to the default
  IF tree[n].kind \in Container THEN tree[n].last ELSE Nil

HasLastElements(n) ==  \* mutant of HasLast: forgets all but elements
  tree[n].kind = "element" /\ tree[n].last # Nil

HasLast(n) == tree[n].kind \in Container /\ tree[n].last # Nil

NextSkipsText(n) ==  \* mutant of NextGet: steps over a neighbour
  IF tree[n].kind \in Document THEN Nil
  ELSE IF tree[n].next # Nil THEN tree[tree[n].next].next ELSE Nil

NextGet(n) == IF tree[n].kind \in Document THEN Nil ELSE tree[n].next

HasNext(n) == tree[n].kind \notin Document /\ tree[n].next # Nil

\* prev follows the link to the next node.
PrevGet(n) ==
  IF tree[n].kind \in Document \cup {"namespace"} THEN Nil ELSE tree[n].next

HasPrev(n) == tree[n].kind \notin Document \cup {"namespace"} /\ tree[n].next # Nil

\* The kinds that have no parent to tell; an attribute falls through to them.
Parentless == Document \cup {"attribute", "entity_decl", "namespace",
                             "xinclude_start", "xinclude_end"}

ParentGet(n) == IF tree[n].kind \in Parentless THEN Nil ELSE tree[n].up

HasParent(n) == tree[n].kind \notin Parentless /\ tree[n].up # Nil

DocGet(n) ==
  IF tree[n].kind \in Document \cup {"namespace"} THEN Nil ELSE tree[n].doc

\* xmlCopyProp: the copy of attribute a that stands beside the tree.  It has the
\* name, the parent and the document of a, a text like that of a, no neighbours.
CopyProp(a) == [tree[a] EXCEPT !.next = Nil, !.prev = Nil]

\* A copy of the first attribute
PropertiesGet(n) ==
  IF tree[n].kind = "element" /\ tree[n].props # Nil
  THEN CopyProp(tree[n].props)
  ELSE Nil

\* An element without attributes: NULL is copied.
PropertiesCrashes(n) == tree[n].kind = "element" /\ tree[n].props = Nil

HasProperties(n) == tree[n].kind = "element" /\ tree[n].props # Nil

\* The attribute whose value property (and []) returns.
PropertyGet(n, name) ==
  LET same == {a \in Attributes(tree, n) : tree[a].name = name}
  IN  IF same = {} THEN Nil ELSE CHOOSE a \in same : TRUE

\* dump, debug_dump and base have nothing to say of a node without a document.
Dumps(n)      == tree[n].doc # Nil
DebugDumps(n) == tree[n].doc # Nil
TellsBase(n)  == tree[n].doc # Nil

(***************************************************************************)
(* XML::Document                                                           *)
(***************************************************************************)
DocumentChild(d)     == tree[d].first
DocumentHasChild(d)  == tree[d].first # Nil
DocumentLast(d)      == tree[d].last
DocumentHasLast(d)   == tree[d].last # Nil
DocumentNext(d)      == tree[d].next
DocumentHasNext(d)   == tree[d].next # Nil
DocumentPrev(d)      == tree[d].prev
DocumentHasPrev(d)   == tree[d].prev # Nil
DocumentParent(d)    == tree[d].up
DocumentHasParent(d) == tree[d].up # Nil
RootGet(d)           == RootElement(tree, d)

\* document[name]; a document without a root has no property to tell.
DocumentProperty(d, name) ==
  IF RootGet(d) = Nil THEN Nil ELSE PropertyGet(RootGet(d), name)

(***************************************************************************)
(* XML::Attr, for the record r of an attribute: that of the tree, which    *)
(* []= hands out, or of a copy, which properties does.  doc, next and prev *)
(* give what they tell to a new owner: XmlOwnership is about that.         *)
(***************************************************************************)
AttrChild(r)     == r.first
AttrHasChild(r)  == r.first # Nil
AttrLast(r)      == r.last
AttrHasLast(r)   == r.last # Nil
AttrNext(r)      == r.next
AttrHasNext(r)   == r.next # Nil
AttrPrev(r)      == r.prev
AttrHasPrev(r)   == r.prev # Nil
AttrParent(r)    == r.up
AttrHasParent(r) == r.up # Nil
AttrDoc(r)       == r.doc
AttrHasDoc(r)    == r.doc # Nil

\* The text whose contents value returns: it asks the parent for an attribute
\* of this name.
AttrValue(r) ==
  IF AttrHasParent(r) /\ PropertyGet(AttrParent(r), r.name) # Nil
  THEN tree[PropertyGet(AttrParent(r), r.name)].first
  ELSE Nil

(***************************************************************************)
(* Changing                                                                *)
(***************************************************************************)
\* A parsed document: a root, and one more node below it or beside it.
Init ==
  \E d \in Doc, r, x \in Node, k \in Leaf, beside \in BOOLEAN :
    /\ r # x
    /\ LET root(t) == [t EXCEPT ![d] = FreshDocument(d), ![r] = Fresh("element", "none")]
           leaf(t) == [t EXCEPT ![x] = Fresh(k, "none")]
           none    == [c \in Cell |-> Unused]
       IN  tree = IF beside THEN AddChild(leaf(AddChild(root(none), d, r)), d, x)
                  ELSE AddChild(leaf(AddChild(root(none), d, r)), r, x)

\* May n be handed over to be linked elsewhere, below p?
HandedOver(n, p) ==
  /\ n \in Live \cap Node /\ Unlinked(tree, n)
  /\ n \notin Upwards(tree, p)

\* Is n of a kind that has content siblings?
IsContent(n) == tree[n].kind \notin {"attribute"} \cup Document

\* XML::Node.new(name) and XML::Node.new(name, content)
NodeInitialize(n) ==
  /\ n \in Free
  /\ LET t == [tree EXCEPT ![n] = Fresh("element", "none")]
     IN  tree' \in {t} \cup {SetContent(t, n, v) : v \in Free \ {n}}

DocumentInitialize(d) ==
  /\ tree[d] = Unused
  /\ tree' = [tree EXCEPT ![d] = FreshDocument(d)]

\* node.child = c, and node << c
ChildSet(p, c) ==
  /\ p \in Live /\ HandedOver(c, p)
  /\ \/ tree[p].kind = "element"
     \/ tree[p].kind = "document" /\ tree[c].kind # "attribute"
  /\ tree' = AddChild(tree, p, c)

\* node << string
ContentAdd(n, v) ==
  /\ n \in Live /\ v \in Free
  /\ tree' = AddContent(tree, n, v)

ContentSetOutside(n, v) ==  \* mutant of ContentSet: the text knows no document
  /\ n \in Live /\ v \in Free \cup {Nil}
  /\ LET t == SetContent(tree, n, v)
     IN  tree' = IF v = Nil \/ t[v] = Unused THEN t ELSE [t EXCEPT ![v].doc = Nil]

ContentSet(n, v) ==
  /\ n \in Live /\ v \in Free \cup {Nil}
  /\ tree' = SetContent(tree, n, v)

\* node.sibling = c
SiblingSet(s, c) ==
  /\ s \in Live /\ HandedOver(c, s)
  /\ s # c /\ IsContent(s) /\ IsContent(c)
  /\ tree' = AddSibling(tree, s, c)

\* node[name] = nil
PropertyUnset(n, name) ==
  /\ n \in Live /\ PropertyGet(n, name) # Nil
  /\ tree' = RemoveProp(tree, PropertyGet(n, name))

\* node[name] = string
PropertySet(n, name, a, v) ==
  /\ n \in Live /\ a \in Free /\ v \in Free \ {a}
  /\ tree' = SetProp(tree, n, name, a, v)

\* document[name] = value is the same of the root.
DocumentPropertySet(d, name, a, v) ==
  /\ d \in Live /\ RootGet(d) # Nil
  /\ PropertySet(RootGet(d), name, a, v)

\* node.base = uri: not for a node without a document.
BaseSet(n, a, v) ==
  /\ n \in Live /\ a \in Free /\ v \in Free \ {a}
  /\ tree[n].doc # Nil
  /\ tree' = SetProp(tree, n, "xml:base", a, v)

LangSetUnnamed(n, a, v) ==  \* mutant of LangSet: an attribute without its name
  /\ n \in Live /\ a \in Free /\ v \in Free \ {a}
  /\ tree' = SetProp(tree, n, "none", a, v)

LangSet(n, a, v) ==
  /\ n \in Live /\ a \in Free /\ v \in Free \ {a}
  /\ tree' = SetProp(tree, n, "xml:lang", a, v)

RemoveFreed(n) ==  \* mutant of Remove: frees the node where it is
  /\ n \in Live
  /\ tree' = FreeNode(tree, n)

\* node.remove!
Remove(n) ==
  /\ n \in Live
  /\ tree' = Unlink(tree, n)

\* document.root = n, which may be in a tree already
RootSet(d, n) ==
  /\ d \in Live /\ n \in Live \cap Node /\ tree[n].kind = "element"
  /\ tree' = SetRootElement(tree, d, n)

\* node.copy(deep)
Copy(n, deep) ==
  /\ n \in Live /\ IsContent(n)
  /\ \E f \in [IF deep THEN Subtree(tree, n) ELSE {n} -> Free] :
       /\ IsInjective(f)
       /\ tree' = CopyNode(tree, n, deep, f)

Next ==
  \/ \E n \in Node : NodeInitialize(n) \/ Remove(n)
  \/ \E d \in Doc : DocumentInitialize(d)
  \/ \E p \in Cell, c \in Node : ChildSet(p, c) \/ SiblingSet(p, c)
  \/ \E n \in Cell, v \in Node : ContentAdd(n, v)
  \/ \E n \in Cell, v \in Node \cup {Nil} : ContentSet(n, v)
  \/ \E n \in Node, name \in AttrName : PropertyUnset(n, name)
  \/ \E n, a, v \in Node, name \in AttrName : PropertySet(n, name, a, v)
  \/ \E d \in Doc, a, v \in Node, name \in AttrName : DocumentPropertySet(d, name, a, v)
  \/ \E n, a, v \in Node : BaseSet(n, a, v) \/ LangSet(n, a, v)
  \/ \E d \in Doc, n \in Node : RootSet(d, n)
  \/ \E n \in Node, deep \in BOOLEAN : Copy(n, deep)

Spec == Init /\ [][Next]_tree

(***************************************************************************)
(* Properties                                                              *)
(***************************************************************************)
\* Types of the links.
TypeOK ==
  /\ tree \in [Cell -> CellState]
  /\ \A c \in Live : (tree[c].kind \in Document) = (c \in Doc)
  /\ \A c \in Live : (tree[c].name # "none") = (tree[c].kind = "attribute")

\* No walk along these links ever comes round.
Acyclic(link(_)) ==
  \A S \in (SUBSET Live) \ {{}} : \E n \in S : link(n) \notin S

Up(n)   == tree[n].up
After(n) == tree[n].next

\* After any sequence of child=, sibling=, root=, remove!, content=, copy and
\* changes of attributes the links make trees: siblings are chained both ways
\* between the first and the last of their parent, nothing is above or beside
\* itself, nothing freed is linked, no element has an attribute twice.
WellLinked ==
  /\ Acyclic(Up) /\ Acyclic(After)
  /\ \A n \in Live :
       LET r == tree[n]
           isAttr == r.kind = "attribute"
       IN  /\ {r.up, r.first, r.last, r.next, r.prev, r.props} \subseteq Live \cup {Nil}
           /\ r.next # Nil => /\ tree[r.next].prev = n /\ tree[r.next].up = r.up
                              /\ (tree[r.next].kind = "attribute") = isAttr
           /\ r.prev # Nil => tree[r.prev].next = n
           /\ r.first # Nil => Up(r.first) = n /\ tree[r.first].prev = Nil
           /\ r.last # Nil => Up(r.last) = n /\ tree[r.last].next = Nil
           /\ r.props # Nil => Up(r.props) = n /\ tree[r.props].prev = Nil
           /\ r.up # Nil /\ r.prev = Nil =>
                n = IF isAttr THEN tree[r.up].props ELSE tree[r.up].first
           /\ r.up # Nil /\ r.next = Nil => isAttr \/ n = tree[r.up].last
           /\ \A a, b \in Attributes(tree, n) : tree[a].name = tree[b].name => a = b

\* Each question (child?, last?, next?, prev?, parent?, properties?) is
\* answered yes exactly when the method it is about returns something, though
\* each has its own list of kinds, and an element says no to properties? exactly
\* when properties would crash; the methods of a document agree with those of a
\* node.  An attribute that to_a handed out as a node tells the child, the next
\* and the document that XML::Attr tells, but never a parent or a last, of which
\* the cases fall through, and the next one as prev.  A node says yes to the one
\* question about its kind that its kind is named by, CDATA to text?, too.
AnswersAgree ==
  /\ \A n \in Live :
       /\ HasChild(n) = (ChildGet(n) # Nil)
       /\ HasLast(n) = (LastGet(n) # Nil)
       /\ HasNext(n) = (NextGet(n) # Nil)
       /\ HasPrev(n) = (PrevGet(n) # Nil)
       /\ HasParent(n) = (ParentGet(n) # Nil)
       /\ HasProperties(n) = (PropertiesGet(n) # Nil)
       /\ IsElement(tree[n].kind) => HasProperties(n) = ~PropertiesCrashes(n)
       /\ Dumps(n) = TellsBase(n) /\ DebugDumps(n) = TellsBase(n)
  /\ \A d \in Doc \cap Live :
       /\ DocumentHasChild(d) = HasChild(d) /\ DocumentHasLast(d) = HasLast(d)
       /\ DocumentHasNext(d) = HasNext(d) /\ DocumentHasPrev(d) = HasPrev(d)
       /\ DocumentHasParent(d) = HasParent(d)
  /\ \A a \in {m \in Live : IsAttribute(tree[m].kind)} :
       LET r == tree[a]
       IN  /\ AttrChild(r) = ChildGet(a) /\ AttrHasLast(r) = AttrHasChild(r)
           /\ AttrNext(r) = NextGet(a) /\ AttrDoc(r) = DocGet(a)
           /\ LastGet(a) = Nil /\ ParentGet(a) = Nil /\ PrevGet(a) = NextGet(a)
  /\ \A k \in Kind : Answers(k) = CASE k = "cdata" -> {"cdata", "text"}
                                    [] k = "entity_decl" -> {}
                                    [] OTHER -> {k}
  /\ IsInjective(TypeName)

\* The nodes met by child, then next again and again.
Walk(n) ==
  LET W[m \in Cell \cup {Nil}] == IF m = Nil THEN {} ELSE {m} \cup W[NextGet(m)]
  IN  W[ChildGet(n)]

\* The attributes met by next again and again, and by prev, from a
AttrWalk(a) ==
  LET W[m \in Cell \cup {Nil}] == IF m = Nil THEN {} ELSE {m} \cup W[AttrNext(tree[m])]
      B[m \in Cell \cup {Nil}] == IF m = Nil THEN {} ELSE {m} \cup B[AttrPrev(tree[m])]
  IN  W[a] \cup B[a]

\* The walk from child along next meets every node that calls n its parent,
\* and no node that calls another one its parent; it ends at last; the root
\* is met on the walk from the document.  From an attribute that []= set, next
\* and prev lead to all that [] finds, and to no other; each tells its own
\* value, and so does the copy that properties makes, of which next and prev
\* lead nowhere.
WalksAgree ==
  \A n \in Live :
    LET attributes ==
          {PropertyGet(n, name) : name \in {tree[a].name : a \in Attributes(tree, n)}}
    IN  /\ {m \in Live : ParentGet(m) = n} \subseteq Walk(n)
        /\ \A m \in Walk(n) : ParentGet(m) \in {n, Nil}
        /\ LastGet(n) # Nil => LastGet(n) \in Walk(n) /\ ~HasNext(LastGet(n))
        /\ n \in Doc => /\ DocumentChild(n) = ChildGet(n) /\ DocumentLast(n) = LastGet(n)
                        /\ {m \in Walk(n) : tree[m].kind = "element"} = {} <=> RootGet(n) = Nil
                        /\ RootGet(n) \in Walk(n) \cup {Nil}
        /\ \A a \in Attributes(tree, n) :
             LET r == tree[a]
             IN  /\ AttrWalk(a) = attributes
                 /\ AttrParent(r) = n /\ AttrValue(r) = AttrChild(r)
                 /\ AttrHasLast(r) => ~HasNext(AttrLast(r))
                 /\ AttrHasNext(r) => AttrPrev(tree[AttrNext(r)]) = a
        /\ HasProperties(n) =>
             LET r == PropertiesGet(n)
             IN  /\ AttrParent(r) = n /\ AttrValue(r) = AttrChild(r)
                 /\ AttrDoc(r) = DocGet(n) /\ ~AttrHasNext(r) /\ ~AttrHasPrev(r)

\* A node in a document tells that document (doc), and a node anywhere the one
\* its parent tells, wherever it has been before: so base and dump, which ask
\* for it, answer for what is in a document.
DocumentTold ==
  \A n \in Live \cap Node :
    /\ Up(n) # Nil => tree[n].doc = tree[Up(n)].doc
    /\ Upwards(tree, n) \cap Doc # {} => DocGet(n) \in Upwards(tree, n) /\ Dumps(n)
=============================================================================
