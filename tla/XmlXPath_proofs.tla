--------------------------- MODULE XmlXPath_proofs ---------------------------
(***************************************************************************)
(* Proofs about the Ruby objects of the XML extension, the trees they own  *)
(* and the collector, for any number of cells, objects and nodes found:    *)
(* nothing is freed twice, a tree has at most one owner, and what the      *)
(* program can reach is there.                                             *)
(*                                                                         *)
(* The argument: what is above what makes trees (Forest), so that each     *)
(* cell is below one top, and owners own tops (Owned, Alone); so two       *)
(* objects never free the same cell.  And the owner of what a reached      *)
(* object leads to is reached itself (Kept), so what the collector frees   *)
(* is nothing the program can reach.  Most actions keep the invariant for  *)
(* one of three reasons, which are the lemmas Finds (a new object that     *)
(* owns nothing), ReturnsOwner (a new cell with its owner) and Moves (a    *)
(* tree goes below another one, or leaves it).                             *)
(***************************************************************************)
EXTENDS XmlXPath, FiniteSetTheorems, TLAPS

(***************************************************************************)
(* The inductive invariant                                                 *)
(***************************************************************************)
\* What is above what, makes trees: nothing is above itself, what is above one
\* that is above is above, and of two above the same one is above the other.
\* Attributes have nothing below them, documents nothing above.
Forest(ab) ==
  /\ ab \in [Cell -> SUBSET Cell]
  /\ \A b \in Cell : b \notin ab[b]
  /\ \A b, c \in Cell : b \in ab[c] => ab[b] \subseteq ab[c]
  /\ \A a, b, c \in Cell : a \in ab[c] /\ b \in ab[c] => a = b \/ a \in ab[b] \/ b \in ab[a]
  /\ \A b, c \in Cell : b \in ab[c] => b \notin Prop /\ c \notin Doc

\* Only live cells are in trees of more than one.
Growing ==
  \A c \in Cell : above[c] # {} => status[c] = "live" /\ \A b \in above[c] : status[b] = "live"

\* Which fields an object of each class uses.
FieldsOf(r) ==
  /\ r.class = "document" => r.xd = Nil /\ r.ptr \in Doc
  /\ r.class \in {"node", "attr"} \/ r.owns => r.ptr \in Cell
  /\ r.class = "set" <=> r.xpath # Nil

Fields == \A o \in Present : FieldsOf(obj[o])

\* Owners own tops of trees that are there, and no two the same.
Owned ==
  \A o \in Present : obj[o].owns => status[obj[o].ptr] = "live" /\ above[obj[o].ptr] = {}

Alone ==
  \A o, p \in Present : obj[o].owns /\ obj[p].owns /\ obj[o].ptr = obj[p].ptr => o = p

\* What a reached object leads to is live, and owned by what is reached, if at
\* all; what it names is there.
KeptBy(o) ==
  /\ \A c \in Leads(o) : status[c] = "live" /\ Owners(c) \subseteq Reached(held)
  /\ {obj[o].xd, obj[o].xpath} \subseteq Present \cup {Nil}

Kept == \A o \in Reached(held) : KeptBy(o)

IInv ==
  /\ TypeOK /\ Forest(above) /\ Growing /\ Fields /\ Owned /\ Alone /\ Kept /\ ~twice

(***************************************************************************)
(* Trees                                                                   *)
(***************************************************************************)
\* Put as an operator on trees: c is put below the cells of up.
Placed(ab, c, up) ==
  [b \in Cell |-> CASE b = c -> up
                    [] c \in ab[b] -> (ab[b] \ ab[c]) \cup up
                    [] OTHER -> ab[b]]

\* May c be put there?  The cells of up are one branch, which c is not in.
Fits(ab, c, up) ==
  /\ c \in Cell \ Doc /\ up \subseteq Cell \ Prop
  /\ \A b \in up : b # c /\ c \notin ab[b] /\ ab[b] \subseteq up
  /\ \A a, b \in up : a = b \/ a \in ab[b] \/ b \in ab[a]

LEMMA PlacedForest ==
  ASSUME NEW ab, NEW c, NEW up, Forest(ab), Fits(ab, c, up)
  PROVE  Forest(Placed(ab, c, up))
<1> DEFINE new == Placed(ab, c, up)
<1>1. /\ new \in [Cell -> SUBSET Cell]
      /\ new[c] = up
      /\ \A b \in Cell : b # c /\ c \in ab[b] => new[b] = (ab[b] \ ab[c]) \cup up
      /\ \A b \in Cell : b # c /\ c \notin ab[b] => new[b] = ab[b]
  BY DEF Placed, Forest, Fits
<1> HIDE DEF new
<1>2. \A b \in up : b # c /\ c \notin ab[b] /\ new[b] = ab[b] /\ ab[b] \subseteq up /\ b \in Cell
  BY <1>1 DEF Fits
<1>3. \A b \in Cell : b \notin new[b]
  BY <1>1, <1>2 DEF Forest, Fits
<1>4. ASSUME NEW b \in Cell, NEW e \in Cell, b \in new[e]
      PROVE  new[b] \subseteq new[e]
  <2>1. CASE e = c
    BY <1>1, <1>2, <2>1, <1>4
  <2>2. CASE e # c /\ c \notin ab[e]
    <3>1. b \in ab[e] /\ b # c /\ c \notin ab[b]
      BY <1>1, <1>4, <2>2 DEF Forest
    <3> QED  BY <1>1, <2>2, <3>1 DEF Forest
  <2>3. CASE e # c /\ c \in ab[e] /\ b \in up
    BY <1>1, <1>2, <2>3
  <2>4. CASE e # c /\ c \in ab[e] /\ b \notin up
    <3>1. b \in ab[e] /\ b \notin ab[c]
      BY <1>1, <1>4, <2>4
    <3>2. b = c \/ c \in ab[b]
      BY <3>1, <2>4 DEF Forest, Fits
    <3> QED  BY <1>1, <2>4, <3>1, <3>2 DEF Forest, Fits
  <2> QED  BY <2>1, <2>2, <2>3, <2>4
<1>5. ASSUME NEW a \in Cell, NEW b \in Cell, NEW e \in Cell, a \in new[e], b \in new[e], a # b
      PROVE  a \in new[b] \/ b \in new[a]
  <2>1. CASE a \in up /\ b \in up
    BY <1>2, <1>5, <2>1 DEF Fits
  <2>2. CASE e # c /\ c \notin ab[e]
    <3>1. a \in ab[e] /\ b \in ab[e] /\ a # c /\ b # c /\ c \notin ab[a] /\ c \notin ab[b]
      BY <1>1, <1>5, <2>2 DEF Forest
    <3> QED  BY <1>1, <1>5, <3>1 DEF Forest
  <2>3. CASE e # c /\ c \in ab[e]
    <3>1. ASSUME NEW x \in Cell, x \in new[e], x \notin up
          PROVE  x \in ab[e] /\ x \notin ab[c] /\ (x = c \/ c \in ab[x]) /\ up \subseteq new[x]
      BY <1>1, <2>3, <3>1 DEF Forest, Fits
    <3>2. CASE a \in up \/ b \in up
      BY <1>5, <2>1, <3>1, <3>2
    <3>3. CASE a \notin up /\ b \notin up
      <4>1. a \in ab[b] \/ b \in ab[a]
        BY <1>5, <3>1, <3>3 DEF Forest
      <4> QED  BY <1>1, <1>5, <3>1, <3>3, <4>1 DEF Forest
    <3> QED  BY <3>2, <3>3
  <2>4. CASE e = c
    BY <1>1, <1>5, <2>1, <2>4
  <2> QED  BY <2>2, <2>3, <2>4
<1>6. \A b, e \in Cell : b \in new[e] => b \notin Prop /\ e \notin Doc
  BY <1>1 DEF Forest, Fits
<1> QED  BY <1>1, <1>3, <1>4, <1>5, <1>6 DEF Forest, new

(***************************************************************************)
(* Marking                                                                 *)
(***************************************************************************)
\* An object marks the two objects it may name.
LEMMA MarkIs ==
  ASSUME TypeOK, Fields
  PROVE  \A o \in Present : Mark(o) = {obj[o].xd, obj[o].xpath} \ {Nil}
<1> SUFFICES ASSUME NEW o \in Present PROVE Mark(o) = {obj[o].xd, obj[o].xpath} \ {Nil}
  OBVIOUS
<1>1. obj[o].class \in Class
  BY DEF TypeOK, Present, Object
<1> QED  BY <1>1 DEF Fields, FieldsOf, Mark, NodeMark, AttrMark, NsMark, XPathMark, SetMark, Class

LEMMA MarkIsNext ==
  ASSUME TypeOK', Fields'
  PROVE  \A o \in Present' : Mark(o)' = {obj'[o].xd, obj'[o].xpath} \ {Nil}
<1> SUFFICES ASSUME NEW o \in Present' PROVE Mark(o)' = {obj'[o].xd, obj'[o].xpath} \ {Nil}
  OBVIOUS
<1>1. obj'[o].class \in Class
  BY DEF TypeOK, Present, Object
<1> QED  BY <1>1 DEF Fields, FieldsOf, Mark, NodeMark, AttrMark, NsMark, XPathMark, SetMark, Class

\* What is reached is the least that has S and all that its objects mark...
LEMMA ReachedLeast ==
  ASSUME NEW S, NEW W \in SUBSET Present, S \subseteq W, \A o \in W : Mark(o) \subseteq W
  PROVE  Reached(S) \subseteq W
<1>1. W \ S \in SUBSET (Present \ S) /\ S \cup (W \ S) = W
  OBVIOUS
<1> QED  BY <1>1 DEF Reached

LEMMA ReachedLeastNext ==
  ASSUME NEW W \in SUBSET Present', held' \subseteq W, \A o \in W : Mark(o)' \subseteq W
  PROVE  Reached(held)' \subseteq W
<1>1. W \ held' \in SUBSET (Present' \ held') /\ held' \cup (W \ held') = W
  OBVIOUS
<1> QED  BY <1>1 DEF Reached

\* ... and there is such, unless something that is reached marks what is gone.
LEMMA ReachedClosed ==
  ASSUME NEW S \in SUBSET Present, \A o \in Reached(S) : Mark(o) \subseteq Present
  PROVE  /\ S \subseteq Reached(S) /\ Reached(S) \subseteq Present
         /\ \A o \in Reached(S) : Mark(o) \subseteq Reached(S)
<1> DEFINE Closed(T) == \A p \in S \cup T : Mark(p) \subseteq S \cup T
           All == Present \ S
<1>1. S \subseteq Reached(S) /\ Reached(S) \subseteq Present
  BY DEF Reached
<1>2. \A o \in All : o \in Reached(S) <=> \A T \in SUBSET All : Closed(T) => o \in T
  BY DEF Reached
<1>3. ASSUME NEW o \in Reached(S), NEW m \in Mark(o), m \notin Reached(S)
      PROVE  FALSE
  <2>1. m \in All
    BY <1>1, <1>3
  <2>2. PICK T \in SUBSET All : Closed(T) /\ m \notin T
    BY <1>2, <1>3, <2>1
  <2>3. o \in S \cup T
    BY <1>1, <1>2, <2>2
  <2> QED  BY <2>1, <2>2, <2>3
<1> QED  BY <1>1, <1>3

\* In a state of the invariant.
LEMMA ReachedKept ==
  ASSUME TypeOK, Fields, Kept
  PROVE  /\ held \subseteq Reached(held) /\ Reached(held) \subseteq Present
         /\ \A o \in Reached(held) : Mark(o) \subseteq Reached(held)
<1>1. held \subseteq Present /\ Reached(held) \subseteq Present
  BY DEF TypeOK, Present, Reached
<1>2. \A o \in Reached(held) : Mark(o) \subseteq Present
  BY <1>1, MarkIs DEF Kept, KeptBy
<1> QED  BY <1>1, <1>2, ReachedClosed

\* A step that leaves the objects S what they mark, which are among them, and
\* the program those of them it held, leaves S reached.
LEMMA ReachedStays ==
  ASSUME NEW H, NEW S, S \subseteq Reached(H), S \subseteq Present, H \subseteq held', H \subseteq S,
         \A o \in S : Mark(o) \subseteq S /\ o \in Present' /\ Mark(o)' = Mark(o)
  PROVE  S \subseteq Reached(held)'
<1> SUFFICES ASSUME NEW o \in S, o \notin held',
                    NEW T \in SUBSET (Present' \ held'),
                    \A p \in held' \cup T : Mark(p)' \subseteq held' \cup T
             PROVE  o \in T
  BY DEF Reached
<1> DEFINE U == ((held' \cup T) \cap S) \ H
<1>1. U \in SUBSET (Present \ H) /\ H \cup U = (held' \cup T) \cap S
  OBVIOUS
<1>2. \A p \in H \cup U : Mark(p) \subseteq H \cup U
  BY <1>1
<1> HIDE DEF U
<1>3. o \in H \/ o \in U
  BY <1>1, <1>2 DEF Reached
<1> QED  BY <1>1, <1>3

(***************************************************************************)
(* What the steps of the program have in common                            *)
(***************************************************************************)
\* Where a walk leads to from e, is live and has no owner that e has not.
LEMMA SameOwners ==
  ASSUME TypeOK, Forest(above), Growing, Fields, Owned,
         NEW e \in Cell, status[e] = "live",
         NEW c \in Whole(e) \cup Tree(e) \cup above[e]
  PROVE  c \in Cell /\ status[c] = "live" /\ Owners(c) \subseteq Owners(e)
<1>1. c \in Cell
  BY DEF Whole, Tree, TypeOK
<1>2. ASSUME NEW w \in Owners(c)
      PROVE  /\ w \in Present /\ obj[w].owns /\ obj[w].ptr \in Cell
             /\ obj[w].ptr \in above[c] \cup {c} /\ above[obj[w].ptr] = {}
  BY <1>2 DEF Owners, Fields, FieldsOf, Owned
<1>3. CASE c \in above[e]
  <2>1. above[c] \cup {c} \subseteq above[e]
    BY <1>1, <1>3 DEF Forest
  <2> QED  BY <1>1, <1>3, <2>1 DEF Growing, Owners
<1>4. CASE c \in Tree(e)
  <2>1. c = e \/ e \in above[c]
    BY <1>4 DEF Tree
  <2>2. ASSUME NEW w \in Owners(c)
        PROVE  obj[w].ptr \in above[e] \cup {e}
    BY <1>1, <1>2, <2>1, <2>2 DEF Forest
  <2> QED  BY <1>1, <1>2, <2>1, <2>2 DEF Growing, Owners
<1>5. CASE c \in Whole(e)
  <2>1. PICK t \in above[e] \cup {e} : above[t] = {} /\ c \in Tree(t)
    BY <1>5 DEF Whole
  <2>2. t \in Cell /\ (c = t \/ t \in above[c])
    BY <2>1 DEF Tree, TypeOK
  <2>3. ASSUME NEW w \in Owners(c)
        PROVE  obj[w].ptr = t
    BY <1>1, <1>2, <2>1, <2>2, <2>3 DEF Forest
  <2>4. status[c] = "live"
    BY <1>1, <2>1, <2>2 DEF Growing
  <2> QED  BY <1>1, <1>2, <2>1, <2>3, <2>4 DEF Owners
<1> QED  BY <1>3, <1>4, <1>5

\* The object stays what it is, but it may own no longer.
Like(o) ==
  /\ obj'[o].class = obj[o].class /\ obj'[o].ptr = obj[o].ptr
  /\ obj'[o].xd = obj[o].xd /\ obj'[o].xpath = obj[o].xpath /\ obj'[o].nodes = obj[o].nodes
  /\ obj'[o].owns => obj[o].owns

Same(o) == o \in Present' /\ Like(o)

\* Of the new objects: each names only what is reached, or is new.
Names(N) ==
  \A o \in N : /\ FieldsOf(obj'[o])
               /\ {obj'[o].xd, obj'[o].xpath} \subseteq Reached(held) \cup N \cup {Nil}

\* Such a step takes nothing away of what was reached, and adds new objects only.
LEMMA ReachedGrows ==
  ASSUME IInv, TypeOK', NEW N \in SUBSET Obj, Present' = Present \cup N,
         \A o \in Present : Same(o), Names(N),
         held \subseteq held', held' \subseteq Reached(held) \cup N
  PROVE  /\ Fields'
         /\ Reached(held) \subseteq Reached(held)'
         /\ Reached(held)' \subseteq Reached(held) \cup N
<1>1. /\ held \subseteq Reached(held) /\ Reached(held) \subseteq Present
      /\ \A o \in Reached(held) : Mark(o) \subseteq Reached(held)
  BY ReachedKept DEF IInv
<1>2. Fields'
  <2>1. ASSUME NEW o \in Present PROVE FieldsOf(obj'[o])
    <3>1. FieldsOf(obj[o]) /\ Same(o)
      BY DEF Fields, IInv
    <3> QED  BY <3>1 DEF FieldsOf, Same, Like
  <2> QED  BY <2>1 DEF Fields, Names
<1>3. ASSUME NEW o \in Present PROVE Mark(o)' = Mark(o)
  <2>1. Mark(o) = {obj[o].xd, obj[o].xpath} \ {Nil}
    BY MarkIs DEF IInv
  <2>2. Same(o) /\ o \in Present'
    OBVIOUS
  <2>3. Mark(o)' = {obj'[o].xd, obj'[o].xpath} \ {Nil}
    BY <1>2, <2>2, MarkIsNext
  <2> QED  BY <2>1, <2>2, <2>3 DEF Same, Like
<1>4. \A o \in N : Mark(o)' \subseteq Reached(held) \cup N
  BY <1>2, MarkIsNext DEF Names
<1>5. Reached(held) \subseteq Reached(held)'
  <2>1. \A o \in Reached(held) : Mark(o) \subseteq Reached(held) /\ o \in Present' /\ Mark(o)' = Mark(o)
    BY <1>1, <1>3
  <2> QED  BY <1>1, <2>1, ReachedStays
<1>6. Reached(held)' \subseteq Reached(held) \cup N
  <2>1. Reached(held) \cup N \in SUBSET Present'
    BY <1>1
  <2> QED  BY <1>1, <1>3, <1>4, <2>1, ReachedLeastNext
<1> QED  BY <1>2, <1>5, <1>6

\* A step of the program keeps the invariant if what is live stays so, no one
\* gets an owner that is not reached, and new objects lead to what is live.
LEMMA Steps ==
  ASSUME IInv, TypeOK', Forest(above)', Growing', Owned', Alone', ~twice',
         NEW N \in SUBSET Obj, Present' = Present \cup N,
         \A o \in Present : Same(o), Names(N),
         held \subseteq held', held' \subseteq Reached(held) \cup N,
         \A c \in Cell : status[c] = "live" =>
           status'[c] = "live" /\ Owners(c)' \subseteq Owners(c) \cup Reached(held) \cup held',
         \A o \in N : \A c \in Leads(o)' :
           status'[c] = "live" /\ Owners(c)' \subseteq Reached(held) \cup held'
  PROVE  IInv'
<1>1. /\ Fields'
      /\ Reached(held) \subseteq Reached(held)'
      /\ Reached(held)' \subseteq Reached(held) \cup N
  BY ReachedGrows
<1>2. Reached(held) \subseteq Present /\ held' \subseteq Reached(held)'
  BY ReachedKept DEF IInv, Reached
<1>3. ASSUME NEW o \in Reached(held) PROVE KeptBy(o)'
  <2>1. KeptBy(o) /\ Same(o)
    BY <1>2 DEF IInv, Kept
  <2>2. Leads(o)' = Leads(o) /\ Leads(o) \subseteq Cell
    BY <1>2, <2>1 DEF Leads, Same, Like, IInv, TypeOK, Present, Object
  <2>3. {obj[o].xd, obj[o].xpath} \subseteq Present' \cup {Nil}
    BY <2>1 DEF KeptBy
  <2>4. ASSUME NEW c \in Leads(o)
        PROVE  status'[c] = "live" /\ Owners(c)' \subseteq Reached(held)'
    BY <1>1, <1>2, <2>1, <2>2 DEF KeptBy
  <2> QED  BY <2>1, <2>2, <2>3, <2>4 DEF KeptBy, Same, Like
<1>4. ASSUME NEW o \in N PROVE KeptBy(o)'
  BY <1>1, <1>2 DEF KeptBy, Names
<1>5. Kept'
  BY <1>1, <1>3, <1>4 DEF Kept
<1> QED  BY <1>1, <1>5 DEF IInv

LEMMA PlainIs ==
  ASSUME NEW class \in Class, NEW c \in Cell \cup {Nil}, NEW owns \in BOOLEAN,
         NEW xd \in Obj \cup {Nil}
  PROVE  Plain(class, c, owns, xd) \in Object
BY DEF Plain, Object

LEMMA SetIs ==
  ASSUME NEW xd \in Obj \cup {Nil}, NEW x \in Obj
  PROVE  NodeSetNew(xd, x) \in Object /\ FieldsOf(NodeSetNew(xd, x))
<1>1. x # Nil
  BY OwnershipAssumption
<1> QED  BY <1>1 DEF NodeSetNew, Plain, Object, FieldsOf, Class

LEMMA NewObjIs ==
  \A class \in Class : NewObj(class) \subseteq Obj \ Present
BY DEF NewObj, Obj

LEMMA ObjectsAre ==
  \A r \in Object : r # NoObject
BY DEF Object, NoObject, Class

\* What is known of an object that is reached.
LEMMA ReachedKnows ==
  ASSUME IInv, NEW h \in Reached(held)
  PROVE  /\ h \in Present /\ h \in Obj /\ obj[h] \in Object /\ FieldsOf(obj[h])
         /\ {obj[h].xd, obj[h].xpath} \subseteq Reached(held) \cup {Nil}
         /\ \A c \in Leads(h) : c \in Cell /\ status[c] = "live" /\ Owners(c) \subseteq Reached(held)
<1>1. h \in Present /\ h \in Obj /\ Mark(h) \subseteq Reached(held)
  BY ReachedKept DEF IInv, Present
<1>2. obj[h] \in Object /\ FieldsOf(obj[h])
  BY <1>1 DEF IInv, TypeOK, Fields, Present
<1>3. Mark(h) = {obj[h].xd, obj[h].xpath} \ {Nil}
  BY <1>1, MarkIs DEF IInv
<1>4. Leads(h) \subseteq Cell
  BY <1>2 DEF Leads, Object
<1> QED  BY <1>1, <1>2, <1>3, <1>4 DEF IInv, Kept, KeptBy

LEMMA PointsTo ==
  ASSUME IInv, NEW h \in Reached(held), obj[h].ptr \in Cell
  PROVE  LET e == obj[h].ptr
         IN  \A c \in Whole(e) \cup Tree(e) \cup above[e] :
               c \in Cell /\ status[c] = "live" /\ Owners(c) \subseteq Reached(held)
<1>1. obj[h].ptr \in Leads(h)
  BY OwnershipAssumption DEF Leads
<1>2. status[obj[h].ptr] = "live" /\ Owners(obj[h].ptr) \subseteq Reached(held)
  BY <1>1, ReachedKnows
<1> QED  BY <1>2, SameOwners DEF IInv

LEMMA HeldIsReached ==
  ASSUME IInv
  PROVE  held \subseteq Reached(held)
BY ReachedKept DEF IInv

(***************************************************************************)
(* Walking and asking: new objects, none of which owns anything            *)
(***************************************************************************)
LEMMA Finds ==
  ASSUME IInv, NEW N \in SUBSET (Obj \ Present),
         obj' \in [Obj -> Object \cup {NoObject}],
         \A o \in Obj \ N : obj'[o] = obj[o],
         \A o \in N : obj'[o] \in Object /\ ~obj'[o].owns,
         Names(N),
         held \subseteq held', held' \subseteq Reached(held) \cup N,
         \A o \in N : \A c \in Leads(o)' :
           c \in Cell /\ status[c] = "live" /\ Owners(c) \subseteq Reached(held),
         UNCHANGED <<status, above, twice>>
  PROVE  IInv'
<1>1. Present' = Present \cup N
  BY ObjectsAre DEF Present
<1>2. Reached(held) \subseteq Present
  BY ReachedKept DEF IInv
<1>3. TypeOK'
  BY <1>1, <1>2 DEF IInv, TypeOK, Present
<1>4. \A o \in Present : o \in Obj /\ obj'[o] = obj[o] /\ Same(o)
  BY <1>1 DEF Same, Like, Present
<1>5. \A c \in Cell : Owners(c)' = Owners(c)
  BY <1>1, <1>4 DEF Owners
<1>6. Forest(above)' /\ Growing' /\ ~twice'
  BY DEF IInv, Growing
<1>7. Owned' /\ Alone'
  BY <1>1, <1>4 DEF IInv, Owned, Alone
<1>8. \A c \in Cell : status[c] = "live" =>
        status'[c] = "live" /\ Owners(c)' \subseteq Owners(c) \cup Reached(held) \cup held'
  BY <1>5
<1>9. \A o \in N : \A c \in Leads(o)' :
        status'[c] = "live" /\ Owners(c)' \subseteq Reached(held) \cup held'
  BY <1>5
<1> QED  BY <1>1, <1>3, <1>4, <1>6, <1>7, <1>8, <1>9, Steps

\* One new object, which points to a cell of a tree.
LEMMA ReturnsPointer ==
  ASSUME IInv, NEW o \in Obj \ Present, NEW class \in {"document", "node", "attr", "ns"},
         NEW c \in Cell, status[c] = "live", Owners(c) \subseteq Reached(held),
         NEW xd \in Reached(held) \cup {Nil}, class = "document" => xd = Nil /\ c \in Doc,
         Returns(o, Plain(class, c, FALSE, xd)),
         UNCHANGED <<status, above, twice>>
  PROVE  IInv'
<1> DEFINE r == Plain(class, c, FALSE, xd)
<1>1. r \in Object
  <2>1. Reached(held) \subseteq Obj
    BY ReachedKept DEF IInv, Present
  <2> QED  BY <2>1, PlainIs DEF Class
<1>2. /\ r.class = class /\ r.ptr = c /\ r.owns = FALSE /\ r.xd = xd /\ r.xpath = Nil /\ r.nodes = {}
      /\ FieldsOf(r)
  BY DEF Plain, FieldsOf
<1> HIDE DEF r
<1>3. /\ obj' = [obj EXCEPT ![o] = r] /\ held' = held \cup {o}
      /\ obj \in [Obj -> Object \cup {NoObject}]
  BY DEF Returns, r, IInv, TypeOK
<1>4. /\ obj' \in [Obj -> Object \cup {NoObject}]
      /\ \A p \in Obj \ {o} : obj'[p] = obj[p]
      /\ obj'[o] = r
  BY <1>1, <1>3
<1>5. Names({o})
  BY <1>2, <1>4 DEF Names
<1>6. held \subseteq held' /\ held' \subseteq Reached(held) \cup {o}
  BY <1>3, HeldIsReached
<1>7. \A b \in Leads(o)' : b = c
  BY <1>2, <1>4 DEF Leads
<1>8. \A p \in {o} : obj'[p] \in Object /\ ~obj'[p].owns
  BY <1>1, <1>2, <1>4
<1>9. \A p \in {o} : \A b \in Leads(p)' :
         b \in Cell /\ status[b] = "live" /\ Owners(b) \subseteq Reached(held)
  BY <1>7
<1> QED  BY <1>4, <1>5, <1>6, <1>8, <1>9, Finds

\* One new object, which points to no cell: a set.
LEMMA ReturnsSet ==
  ASSUME IInv, NEW o \in Obj \ Present, NEW xd \in Reached(held) \cup {Nil}, NEW x \in Reached(held),
         Returns(o, NodeSetNew(xd, x)),
         UNCHANGED <<status, above, twice>>
  PROVE  IInv'
<1> DEFINE r == NodeSetNew(xd, x)
<1>1. r \in Object /\ FieldsOf(r)
      /\ r.ptr = Nil /\ r.owns = FALSE /\ r.xd = xd /\ r.xpath = x /\ r.nodes = {}
  <2>1. Reached(held) \subseteq Obj
    BY ReachedKept DEF IInv, Present
  <2>2. xd \in Obj \cup {Nil} /\ x \in Obj
    BY <2>1
  <2>3. r.ptr = Nil /\ r.owns = FALSE /\ r.xd = xd /\ r.xpath = x /\ r.nodes = {}
    BY DEF NodeSetNew, Plain
  <2> QED  BY <2>2, <2>3, SetIs
<1> HIDE DEF r
<1>2. /\ obj' = [obj EXCEPT ![o] = r] /\ held' = held \cup {o}
      /\ obj \in [Obj -> Object \cup {NoObject}]
  BY DEF Returns, r, IInv, TypeOK
<1>3. /\ obj' \in [Obj -> Object \cup {NoObject}]
      /\ \A p \in Obj \ {o} : obj'[p] = obj[p]
      /\ obj'[o] = r
  BY <1>1, <1>2
<1>4. Names({o})
  BY <1>1, <1>3 DEF Names
<1>5. held \subseteq held' /\ held' \subseteq Reached(held) \cup {o}
  BY <1>2, HeldIsReached
<1>6. \A b \in Leads(o)' : FALSE
  BY <1>1, <1>3 DEF Leads
<1>7. \A p \in {o} : obj'[p] \in Object /\ ~obj'[p].owns
  BY <1>1, <1>3
<1>8. \A p \in {o} : \A b \in Leads(p)' :
         b \in Cell /\ status[b] = "live" /\ Owners(b) \subseteq Reached(held)
  BY <1>6
<1> QED  BY <1>3, <1>4, <1>5, <1>7, <1>8, Finds

LEMMA DocumentWalkKeeps ==
  ASSUME IInv, NEW d \in Obj, DocumentWalk(d)
  PROVE  IInv'
<1>1. d \in Reached(held) /\ obj[d].class = "document"
  BY HeldIsReached DEF DocumentWalk, IsDocument
<1>2. obj[d].ptr \in Cell
  BY <1>1, ReachedKnows DEF FieldsOf, Cell
<1>3. PICK o \in NewObj("node"), c \in Tree(obj[d].ptr) \cap Elem : Returns(o, NodeNew2(d, c))
  BY DEF DocumentWalk
<1>4. c \in Cell /\ status[c] = "live" /\ Owners(c) \subseteq Reached(held)
  BY <1>1, <1>2, <1>3, PointsTo
<1>5. o \in Obj \ Present
  BY <1>3, NewObjIs DEF Class
<1> QED  BY <1>1, <1>3, <1>4, <1>5, ReturnsPointer DEF NodeNew2, DocumentWalk

\* The element of an attribute is above it, and the other attributes of the
\* element are below that; none of them is owned by what the one is not.
LEMMA ParentKnows ==
  ASSUME IInv, NEW p \in Cell, status[p] = "live", NEW e \in Parent(p)
  PROVE  /\ e \in Elem /\ e \in Cell /\ status[e] = "live" /\ Owners(e) \subseteq Owners(p)
         /\ \A c \in above[e] : c \in Cell /\ status[c] = "live" /\ Owners(c) \subseteq Owners(p)
         /\ \A c \in OwnProps(e) : c \in Cell /\ status[c] = "live" /\ Owners(c) \subseteq Owners(p)
<1>1. e \in Elem /\ e \in Cell /\ above[p] = above[e] \cup {e}
  BY DEF Parent, OwnProps, Cell
<1>2. \A c \in above[p] : c \in Cell /\ status[c] = "live" /\ Owners(c) \subseteq Owners(p)
  BY SameOwners DEF IInv
<1>3. ASSUME NEW c \in OwnProps(e)
      PROVE  c \in Cell /\ status[c] = "live" /\ Owners(c) \subseteq Owners(e)
  <2>1. c \in Tree(e)
    BY <1>1, <1>3 DEF OwnProps, Tree, Cell
  <2> QED  BY <1>1, <1>2, <2>1, SameOwners DEF IInv
<1> QED  BY <1>1, <1>2, <1>3

LEMMA NodeWalkKeeps ==
  ASSUME IInv, NEW n \in Obj, NodeWalk(n)
  PROVE  IInv'
<1> DEFINE ptr == obj[n].ptr
           to  == IF ptr \in Prop THEN {ptr} \cup UNION {OwnProps(e) : e \in Parent(ptr)}
                  ELSE Whole(ptr) \cap Elem
<1>1. n \in Reached(held) /\ obj[n].class = "node"
  BY HeldIsReached DEF NodeWalk, IsNode
<1>2. ptr \in Cell /\ obj[n].xd \in Reached(held) \cup {Nil}
  BY <1>1, ReachedKnows DEF FieldsOf
<1>3. PICK o \in NewObj("node"), c \in to : Returns(o, NodeNew2(obj[n].xd, c))
  BY DEF NodeWalk
<1>4. status[ptr] = "live" /\ Owners(ptr) \subseteq Reached(held)
  <2>1. ptr \in Tree(ptr)
    BY <1>2 DEF Tree
  <2> QED  BY <1>1, <1>2, <2>1, PointsTo
<1>5. c \in Cell /\ status[c] = "live" /\ Owners(c) \subseteq Reached(held)
  <2>1. CASE c \in Whole(ptr)
    BY <1>1, <1>2, <2>1, PointsTo
  <2>2. ASSUME NEW e \in Parent(ptr), c \in OwnProps(e)
        PROVE  c \in Cell /\ status[c] = "live" /\ Owners(c) \subseteq Reached(held)
    <3> HIDE DEF ptr
    <3> QED  BY <1>2, <1>4, <2>2, ParentKnows
  <2>3. CASE c = ptr
    BY <1>2, <1>4, <2>3
  <2> QED  BY <1>3, <2>1, <2>2, <2>3
<1>6. o \in Obj \ Present
  BY <1>3, NewObjIs DEF Class
<1> HIDE DEF to
<1> QED  BY <1>2, <1>3, <1>5, <1>6, ReturnsPointer DEF NodeNew2, NodeWalk

LEMMA NamespaceKeeps ==
  ASSUME IInv, NEW n \in Obj, Namespace(n)
  PROVE  IInv'
<1>1. n \in Reached(held) /\ obj[n].class = "node"
  BY HeldIsReached DEF Namespace, IsElement, IsNode
<1>2. obj[n].ptr \in Cell /\ obj[n].xd \in Reached(held) \cup {Nil}
  BY <1>1, ReachedKnows DEF FieldsOf
<1>3. PICK o \in NewObj("ns"), c \in (above[obj[n].ptr] \cup {obj[n].ptr}) \cap Elem :
        Returns(o, NsNew2(obj[n].xd, c))
  BY DEF Namespace
<1>4. c \in above[obj[n].ptr] \cup Tree(obj[n].ptr)
  BY <1>2, <1>3 DEF Tree
<1>5. c \in Cell /\ status[c] = "live" /\ Owners(c) \subseteq Reached(held)
  BY <1>1, <1>2, <1>4, PointsTo
<1>6. o \in Obj \ Present
  BY <1>3, NewObjIs DEF Class
<1> QED  BY <1>2, <1>3, <1>5, <1>6, ReturnsPointer DEF NsNew2, Namespace

LEMMA NodeDocKeeps ==
  ASSUME IInv, NEW n \in Obj, NodeDoc(n)
  PROVE  IInv'
<1>1. n \in Reached(held) /\ obj[n].class = "node"
  BY HeldIsReached DEF NodeDoc, IsElement, IsNode
<1>2. obj[n].ptr \in Cell
  BY <1>1, ReachedKnows DEF FieldsOf
<1>3. PICK o \in NewObj("document"), c \in Whole(obj[n].ptr) \cap Doc : Returns(o, DocumentNew4(c))
  BY DEF NodeDoc
<1>4. c \in Cell /\ status[c] = "live" /\ Owners(c) \subseteq Reached(held)
  BY <1>1, <1>2, <1>3, PointsTo
<1>5. o \in Obj \ Present
  BY <1>3, NewObjIs DEF Class
<1> QED  BY <1>3, <1>4, <1>5, ReturnsPointer DEF DocumentNew4, NodeDoc

\* What is known of a held attribute, and of its parents.
LEMMA AttrKnows ==
  ASSUME IInv, NEW a, IsAttr(a), obj[a].ptr \in Cell
  PROVE  /\ obj[a].xd \in Reached(held) \cup {Nil}
         /\ status[obj[a].ptr] = "live" /\ Owners(obj[a].ptr) \subseteq Reached(held)
         /\ \A e \in AttrParents(a) : \A c \in above[e] \cup {e} :
              c \in Cell /\ status[c] = "live" /\ Owners(c) \subseteq Reached(held)
<1> DEFINE ptr == obj[a].ptr
<1>1. a \in Reached(held)
  BY HeldIsReached DEF IsAttr
<1>2. obj[a].xd \in Reached(held) \cup {Nil}
  BY <1>1, ReachedKnows
<1>3. \A c \in Leads(a) : c \in Cell /\ status[c] = "live" /\ Owners(c) \subseteq Reached(held)
  BY <1>1, ReachedKnows
<1>4. ptr \in Leads(a)
  BY OwnershipAssumption DEF Leads
<1>5. ASSUME NEW e \in obj[a].nodes, NEW c \in above[e] \cup {e}
      PROVE  c \in Cell /\ status[c] = "live" /\ Owners(c) \subseteq Reached(held)
  <2>1. e \in Cell /\ status[e] = "live" /\ Owners(e) \subseteq Reached(held)
    BY <1>3 DEF Leads
  <2> QED  BY <1>5, <2>1, SameOwners DEF IInv
<1>6. ASSUME NEW e \in Parent(ptr), NEW c \in above[e] \cup {e}
      PROVE  c \in Cell /\ status[c] = "live" /\ Owners(c) \subseteq Reached(held)
  <2>1. ptr \in Cell /\ status[ptr] = "live" /\ Owners(ptr) \subseteq Reached(held)
    BY <1>3, <1>4
  <2> HIDE DEF ptr
  <2> QED  BY <1>6, <2>1, ParentKnows
<1> QED  BY <1>2, <1>3, <1>4, <1>5, <1>6 DEF AttrParents

LEMMA AttrChildKeeps ==
  ASSUME IInv, NEW a \in Obj, AttrChild(a)
  PROVE  IInv'
<1>1. IsAttr(a) /\ UNCHANGED <<status, above, twice>>
  BY DEF AttrChild
<1>2. PICK o \in NewObj("node") : Returns(o, NodeNew2(obj[a].xd, obj[a].ptr))
  BY DEF AttrChild
<1>3. obj[a].ptr \in Cell
  BY <1>1, HeldIsReached, ReachedKnows DEF IsAttr, FieldsOf
<1>4. o \in Obj \ Present
  BY <1>2, NewObjIs DEF Class
<1> QED  BY <1>1, <1>2, <1>3, <1>4, AttrKnows, ReturnsPointer DEF NodeNew2

LEMMA AttrParentKeeps ==
  ASSUME IInv, NEW a \in Obj, AttrParent(a)
  PROVE  IInv'
<1>1. IsAttr(a) /\ UNCHANGED <<status, above, twice>>
  BY DEF AttrParent
<1>2. PICK o \in NewObj("node"), e \in AttrParents(a) : Returns(o, NodeNew2(obj[a].xd, e))
  BY DEF AttrParent
<1>3. obj[a].ptr \in Cell
  BY <1>1, HeldIsReached, ReachedKnows DEF IsAttr, FieldsOf
<1>4. e \in Cell /\ status[e] = "live" /\ Owners(e) \subseteq Reached(held)
  BY <1>1, <1>2, <1>3, AttrKnows
<1>5. o \in Obj \ Present
  BY <1>2, NewObjIs DEF Class
<1> QED  BY <1>1, <1>2, <1>3, <1>4, <1>5, AttrKnows, ReturnsPointer DEF NodeNew2

LEMMA AttrNsKeeps ==
  ASSUME IInv, NEW a \in Obj, AttrNs(a)
  PROVE  IInv'
<1>1. IsAttr(a) /\ UNCHANGED <<status, above, twice>>
  BY DEF AttrNs
<1>2. PICK o \in NewObj("ns"), e \in AttrParents(a) :
        \E c \in (above[e] \cup {e}) \cap Elem : Returns(o, NsNew2(obj[a].xd, c))
  BY DEF AttrNs
<1>3. PICK c \in above[e] \cup {e} : Returns(o, NsNew2(obj[a].xd, c))
  BY <1>2
<1>4. obj[a].ptr \in Cell
  BY <1>1, HeldIsReached, ReachedKnows DEF IsAttr, FieldsOf
<1>5. c \in Cell /\ status[c] = "live" /\ Owners(c) \subseteq Reached(held)
  BY <1>1, <1>2, <1>3, <1>4, AttrKnows
<1>6. o \in Obj \ Present
  BY <1>2, NewObjIs DEF Class
<1> QED  BY <1>1, <1>3, <1>4, <1>5, <1>6, AttrKnows, ReturnsPointer DEF NsNew2

LEMMA XPathSetKeeps ==
  ASSUME IInv, NEW x \in Obj, XPathSet(x)
  PROVE  IInv'
<1>1. x \in Reached(held) /\ obj[x].class = "xpath"
  BY HeldIsReached DEF XPathSet
<1>2. x \in Obj /\ obj[x].xd \in Reached(held) \cup {Nil}
  BY <1>1, ReachedKnows
<1>3. PICK o \in NewObj("set") : Returns(o, NodeSetNew(obj[x].xd, x))
  BY DEF XPathSet
<1>4. o \in Obj \ Present
  BY <1>3, NewObjIs DEF Class
<1> QED  BY <1>1, <1>2, <1>3, <1>4, ReturnsSet DEF XPathSet

LEMMA XPathIs ==
  ASSUME NEW xd \in Obj \cup {Nil}, NEW found \in SUBSET Cell
  PROVE  XPathNew(xd, found) \in Object /\ FieldsOf(XPathNew(xd, found))
<1>1. Nil \notin Doc
  BY OwnershipAssumption DEF Cell
<1> QED  BY <1>1 DEF XPathNew, Plain, Object, FieldsOf, Class

LEMMA FindKeeps ==
  ASSUME IInv, NEW n \in Obj, Find(n)
  PROVE  IInv'
<1>1. n \in Reached(held) /\ obj[n].class = "node"
  BY HeldIsReached DEF Find, IsElement, IsNode
<1>2. n \in Obj /\ obj[n].ptr \in Cell /\ obj[n].xd \in Reached(held) \cup {Nil}
  BY <1>1, ReachedKnows DEF FieldsOf
<1>3. PICK x \in NewObj("xpath"), s \in NewObj("set"), found \in Results(n) :
        /\ obj' = [obj EXCEPT ![x] = XPathNew(n, found), ![s] = NodeSetNew(obj[n].xd, x)]
        /\ held' = held \cup {s}
  BY DEF Find
<1>4. x \in Obj \ Present /\ s \in Obj \ Present
  BY <1>3, NewObjIs DEF Class
<1> DEFINE q == XPathNew(n, found)
           r == NodeSetNew(obj[n].xd, x)
<1>5. \A c \in found : c \in Cell /\ status[c] = "live" /\ Owners(c) \subseteq Reached(held)
  BY <1>1, <1>2, <1>3, PointsTo DEF Results
<1>6. obj[n].xd \in Obj \cup {Nil}
  BY <1>2, ReachedKept DEF IInv, Present
<1>7. q \in Object /\ FieldsOf(q) /\ r \in Object /\ FieldsOf(r)
  BY <1>2, <1>4, <1>5, <1>6, XPathIs, SetIs
<1>8. /\ q.ptr = Nil /\ q.owns = FALSE /\ q.xd = n /\ q.xpath = Nil /\ q.nodes = found
      /\ r.ptr = Nil /\ r.owns = FALSE /\ r.xd = obj[n].xd /\ r.xpath = x /\ r.nodes = {}
  BY DEF XPathNew, NodeSetNew, Plain
<1> HIDE DEF q, r
<1>9. /\ obj' \in [Obj -> Object \cup {NoObject}]
      /\ \A o \in Obj \ {x, s} : obj'[o] = obj[o]
      /\ obj'[s] = r /\ (x # s => obj'[x] = q)
  BY <1>3, <1>4, <1>7 DEF q, r, IInv, TypeOK
<1>10. Names({x, s})
  BY <1>1, <1>2, <1>7, <1>8, <1>9 DEF Names
<1>11. held \subseteq held' /\ held' \subseteq Reached(held) \cup {x, s}
  BY <1>3, HeldIsReached
<1>12. \A o \in {x, s} : obj'[o] \in Object /\ ~obj'[o].owns
  BY <1>7, <1>8, <1>9
<1>13. \A o \in {x, s} : \A c \in Leads(o)' :
         c \in Cell /\ status[c] = "live" /\ Owners(c) \subseteq Reached(held)
  BY <1>5, <1>8, <1>9 DEF Leads
<1>14. {x, s} \in SUBSET (Obj \ Present)
  BY <1>4
<1>15. UNCHANGED <<status, above, twice>>
  BY DEF Find
<1> QED  BY <1>9, <1>10, <1>11, <1>12, <1>13, <1>14, <1>15, Finds

\* What a set has found.
LEMMA NodesOf ==
  ASSUME IInv, NEW s \in Reached(held), obj[s].class = "set"
  PROVE  /\ obj[s].xpath \in Reached(held) /\ obj[s].xd \in Reached(held) \cup {Nil}
         /\ \A c \in Nodes(s) : c \in Cell /\ status[c] = "live" /\ Owners(c) \subseteq Reached(held)
<1>1. obj[s].xpath \in Reached(held) /\ obj[s].xd \in Reached(held) \cup {Nil}
  BY ReachedKnows DEF FieldsOf
<1>2. Nodes(s) \subseteq Leads(obj[s].xpath)
  BY DEF Nodes, Leads
<1> QED  BY <1>1, <1>2, ReachedKnows

LEMMA SetXPathKeeps ==
  ASSUME IInv, NEW s \in Obj, SetXPath(s)
  PROVE  IInv'
<1>1. s \in Reached(held) /\ obj[s].class = "set"
  BY HeldIsReached DEF SetXPath
<1>2. held \subseteq held' /\ held' \subseteq Reached(held) \cup {}
  BY <1>1, NodesOf, HeldIsReached DEF SetXPath
<1>3. obj' \in [Obj -> Object \cup {NoObject}] /\ \A o \in Obj \ {} : obj'[o] = obj[o]
  BY DEF SetXPath, IInv, TypeOK
<1>4. {} \in SUBSET (Obj \ Present) /\ Names({})
  BY DEF Names
<1>5. UNCHANGED <<status, above, twice>>
  BY DEF SetXPath
<1> QED  BY <1>2, <1>3, <1>4, <1>5, Finds

(***************************************************************************)
(* Making: new cells                                                       *)
(***************************************************************************)
\* A cell not used is in no tree.
LEMMA UnusedIsAlone ==
  ASSUME IInv, NEW c \in Cell, status[c] = "unused"
  PROVE  above[c] = {} /\ \A b \in Cell : c \notin above[b]
BY DEF IInv, Growing

\* One new object, which owns a new cell and may lead to others that are kept.
LEMMA ReturnsOwner ==
  ASSUME IInv, NEW o \in Obj \ Present, NEW c \in Cell, status[c] = "unused",
         NEW r \in Object, FieldsOf(r), r.ptr = c, r.owns,
         r.xd \in Reached(held) \cup {Nil}, r.xpath = Nil,
         \A b \in r.nodes : status[b] = "live" /\ Owners(b) \subseteq Reached(held),
         Returns(o, r),
         status' = [status EXCEPT ![c] = "live"],
         UNCHANGED <<above, twice>>
  PROVE  IInv'
<1>1. r.nodes \subseteq Cell
  BY DEF Object
<1>3. /\ obj' = [obj EXCEPT ![o] = r] /\ held' = held \cup {o}
      /\ obj \in [Obj -> Object \cup {NoObject}]
  BY DEF Returns, IInv, TypeOK
<1>4. /\ obj' \in [Obj -> Object \cup {NoObject}]
      /\ \A p \in Obj \ {o} : obj'[p] = obj[p]
      /\ obj'[o] = r
  BY <1>3
<1>5. Names({o})
  BY <1>4 DEF Names
<1>6. held \subseteq held' /\ held' \subseteq Reached(held) \cup {o}
  BY <1>3, HeldIsReached
<1>7. Present' = Present \cup {o}
  BY <1>4, ObjectsAre DEF Present
<1>8. \A p \in Present : p # o /\ p \in Obj /\ obj'[p] = obj[p] /\ Same(p)
  BY <1>4, <1>7 DEF Same, Like, Present
<1>9. /\ status' \in [Cell -> {"unused", "live", "freed"}]
      /\ \A b \in Cell : status[b] = "live" => status'[b] = "live" /\ b # c
      /\ status'[c] = "live" /\ \A b \in Cell \ {c} : status'[b] = status[b]
  BY DEF IInv, TypeOK
<1>10. TypeOK'
  BY <1>3, <1>4, <1>7, <1>9 DEF IInv, TypeOK, Present
<1>11. above[c] = {} /\ \A b \in Cell : c \notin above[b]
  BY UnusedIsAlone
<1>12. Forest(above)' /\ Growing' /\ ~twice'
  BY <1>9, <1>11 DEF IInv, Growing, Forest
<1>13. Owned' /\ Alone'
  <2>1. \A p \in Present : obj[p].owns => obj[p].ptr \in Cell /\ obj[p].ptr # c
    BY DEF IInv, Owned, Fields, FieldsOf
  <2> QED  BY <1>4, <1>7, <1>8, <1>9, <1>11, <2>1 DEF IInv, Owned, Alone
<1>14. \A b \in Cell : status[b] = "live" =>
         status'[b] = "live" /\ Owners(b)' \subseteq Owners(b) \cup Reached(held) \cup held'
  BY <1>3, <1>4, <1>7, <1>8, <1>9, <1>11 DEF Owners
<1>15. \A p \in {o} : \A b \in Leads(p)' :
         status'[b] = "live" /\ Owners(b)' \subseteq Reached(held) \cup held'
  <2>1. Owners(c)' \subseteq {o}
    BY <1>7, <1>8, <1>9, <1>11 DEF Owners, IInv, Owned
  <2>2. \A b \in r.nodes :
          status'[b] = "live" /\ Owners(b)' \subseteq Reached(held) \cup held'
    BY <1>1, <1>9, <1>14
  <2>3. \A b \in Leads(o)' : b = c \/ b \in r.nodes
    BY <1>4 DEF Leads
  <2> QED  BY <1>3, <1>9, <2>1, <2>2, <2>3
<1> QED  BY <1>5, <1>6, <1>7, <1>8, <1>10, <1>12, <1>13, <1>14, <1>15, Steps

LEMMA OwnersRecords ==
  ASSUME NEW c \in Cell, NEW e \in Cell, NEW xd \in Obj \cup {Nil}
  PROVE  /\ NodeNew(c) \in Object /\ FieldsOf(NodeNew(c))
         /\ NodeNew(c).ptr = c /\ NodeNew(c).owns
         /\ NodeNew(c).xd = Nil /\ NodeNew(c).xpath = Nil /\ NodeNew(c).nodes = {}
         /\ AttrNew2(xd, c, e) \in Object /\ FieldsOf(AttrNew2(xd, c, e))
         /\ AttrNew2(xd, c, e).ptr = c /\ AttrNew2(xd, c, e).owns
         /\ AttrNew2(xd, c, e).xd = xd /\ AttrNew2(xd, c, e).xpath = Nil
         /\ AttrNew2(xd, c, e).nodes = {e}
BY DEF NodeNew, AttrNew2, AttrNew, Plain, Object, FieldsOf, Class

LEMMA NodeInitializeKeeps ==
  ASSUME IInv, NodeInitialize
  PROVE  IInv'
<1>1. PICK o \in NewObj("node"), c \in NewCell(Elem) :
        status' = [status EXCEPT ![c] = "live"] /\ Returns(o, NodeNew(c)) /\ UNCHANGED <<above, twice>>
  BY DEF NodeInitialize
<1>2. o \in Obj \ Present /\ c \in Cell /\ status[c] = "unused"
  BY <1>1, NewObjIs DEF Class, NewCell, Cell
<1> QED  BY <1>1, <1>2, OwnersRecords, ReturnsOwner

LEMMA NodeCopyKeeps ==
  ASSUME IInv, NEW n \in Obj, NodeCopy(n)
  PROVE  IInv'
<1>1. PICK o \in NewObj("node"), c \in NewCell(Elem) :
        status' = [status EXCEPT ![c] = "live"] /\ Returns(o, NodeNew(c))
  BY DEF NodeCopy
<1>2. o \in Obj \ Present /\ c \in Cell /\ status[c] = "unused" /\ UNCHANGED <<above, twice>>
  BY <1>1, NewObjIs DEF Class, NewCell, Cell, NodeCopy
<1> QED  BY <1>1, <1>2, OwnersRecords, ReturnsOwner

\* The copy of an attribute leads to the element e, which is kept.
LEMMA AttrCopyKeeps ==
  ASSUME IInv, NEW e \in Cell, status[e] = "live", Owners(e) \subseteq Reached(held),
         NEW xd \in Reached(held) \cup {Nil}, AttrCopy(xd, e)
  PROVE  IInv'
<1>1. PICK o \in NewObj("attr"), c \in NewCell(Prop) :
        /\ status' = [status EXCEPT ![c] = "live"]
        /\ Returns(o, AttrNew2(xd, c, e))
        /\ UNCHANGED <<above, twice>>
  BY DEF AttrCopy
<1>2. o \in Obj \ Present /\ c \in Cell /\ status[c] = "unused"
  BY <1>1, NewObjIs DEF Class, NewCell, Cell
<1>3. xd \in Obj \cup {Nil}
  BY ReachedKept DEF IInv, Present
<1> DEFINE r == AttrNew2(xd, c, e)
<1>4. /\ r \in Object /\ FieldsOf(r) /\ r.ptr = c /\ r.owns
      /\ r.xd = xd /\ r.xpath = Nil /\ r.nodes = {e}
  BY <1>2, <1>3, OwnersRecords
<1>5. Returns(o, r)
  BY <1>1
<1> HIDE DEF r
<1> QED  BY <1>1, <1>2, <1>4, <1>5, ReturnsOwner

LEMMA PropertiesKeeps ==
  ASSUME IInv, NEW n \in Obj, Properties(n)
  PROVE  IInv'
<1>1. n \in Reached(held) /\ obj[n].class = "node"
  BY HeldIsReached DEF Properties, IsElement, IsNode
<1>2. obj[n].xd \in Reached(held) \cup {Nil} /\ obj[n].ptr \in Cell
  BY <1>1, ReachedKnows DEF FieldsOf
<1>3. obj[n].ptr \in Tree(obj[n].ptr)
  BY <1>2 DEF Tree
<1>4. status[obj[n].ptr] = "live" /\ Owners(obj[n].ptr) \subseteq Reached(held)
  BY <1>1, <1>2, <1>3, PointsTo
<1> QED  BY <1>2, <1>4, AttrCopyKeeps DEF Properties

LEMMA SetFirstKeeps ==
  ASSUME IInv, NEW s \in Obj, SetFirst(s)
  PROVE  IInv'
<1>1. s \in Reached(held) /\ obj[s].class = "set"
  BY HeldIsReached DEF SetFirst
<1>2. PICK c \in Nodes(s) :
        IF c \in Prop THEN \E e \in Parent(c) : AttrCopy(obj[s].xd, e)
        ELSE /\ \E o \in NewObj("node") : Returns(o, NodeNew2(obj[s].xd, c))
             /\ UNCHANGED <<status, above, twice>>
  BY DEF SetFirst
<1>3. /\ obj[s].xd \in Reached(held) \cup {Nil}
      /\ c \in Cell /\ status[c] = "live" /\ Owners(c) \subseteq Reached(held)
  BY <1>1, <1>2, NodesOf
<1>4. CASE c \in Prop
  <2>1. PICK e \in Parent(c) : AttrCopy(obj[s].xd, e)
    BY <1>2, <1>4
  <2>2. e \in Cell /\ status[e] = "live" /\ Owners(e) \subseteq Reached(held)
    BY <1>3, <2>1, ParentKnows
  <2> QED  BY <1>3, <2>1, <2>2, AttrCopyKeeps
<1>5. CASE c \notin Prop
  <2>1. PICK o \in NewObj("node") : Returns(o, NodeNew2(obj[s].xd, c))
    BY <1>2, <1>5
  <2>2. o \in Obj \ Present
    BY <2>1, NewObjIs DEF Class
  <2> QED  BY <1>2, <1>3, <1>5, <2>1, <2>2, ReturnsPointer DEF NodeNew2
<1> QED  BY <1>4, <1>5

LEMMA SetToAKeeps ==
  ASSUME IInv, NEW s \in Obj, SetToA(s)
  PROVE  IInv'
<1>1. s \in Reached(held) /\ obj[s].class = "set"
  BY HeldIsReached DEF SetToA
<1>2. PICK o \in NewObj("node"), c \in Nodes(s) : Returns(o, NodeNew2(obj[s].xd, c))
  BY DEF SetToA
<1>3. /\ obj[s].xd \in Reached(held) \cup {Nil}
      /\ c \in Cell /\ status[c] = "live" /\ Owners(c) \subseteq Reached(held)
  BY <1>1, <1>2, NodesOf
<1>4. o \in Obj \ Present
  BY <1>2, NewObjIs DEF Class
<1> QED  BY <1>2, <1>3, <1>4, ReturnsPointer DEF NodeNew2, SetToA

\* Where a cell may be put: below a cell that is not below it, or beside it.
LEMMA Branch ==
  ASSUME Forest(above), NEW c \in Cell \ Doc, NEW e \in Cell \ Prop, e # c, c \notin above[e]
  PROVE  /\ Fits(above, c, above[e] \cup {e})
         /\ Fits(above, c, above[e])
         /\ Fits(above, c, {})
<1>1. above[e] \subseteq Cell \ Prop
  BY DEF Forest
<1>2. \A b \in above[e] : b # c /\ c \notin above[b] /\ above[b] \subseteq above[e]
  BY <1>1 DEF Forest
<1>3. \A a, b \in above[e] : a = b \/ a \in above[b] \/ b \in above[a]
  BY <1>1 DEF Forest
<1> QED  BY <1>1, <1>2, <1>3 DEF Fits

\* A new cell below others.
LEMMA NewBelow ==
  ASSUME IInv, NEW c \in Cell, status[c] = "unused", NEW up, Fits(above, c, up)
  PROVE  Forest([above EXCEPT ![c] = up])
<1>1. \A b \in Cell : c \notin above[b]
  BY UnusedIsAlone
<1> DEFINE new == [above EXCEPT ![c] = up]
           put == Placed(above, c, up)
<1>2. new \in [Cell -> SUBSET Cell] /\ new[c] = up /\ \A b \in Cell \ {c} : new[b] = above[b]
  BY DEF Fits, IInv, TypeOK
<1>3. put[c] = up /\ \A b \in Cell \ {c} : put[b] = above[b]
  BY <1>1 DEF Placed
<1>4. Forest(put)
  BY PlacedForest DEF IInv
<1> HIDE DEF new, put
<1>5. \A b \in Cell : new[b] = put[b]
  BY <1>2, <1>3
<1>6. Forest(new)
  BY <1>2, <1>4, <1>5 DEF Forest
<1> QED  BY <1>6 DEF new

\* An attribute that is there...
LEMMA PropertyChangeKeeps ==
  ASSUME IInv, NEW n \in Obj, IsElement(n), NEW o \in NewObj("attr"),
         NEW c \in OwnProps(obj[n].ptr), Returns(o, AttrSetPtr(obj[n].xd, c)),
         UNCHANGED <<status, above, twice>>
  PROVE  IInv'
<1> DEFINE e == obj[n].ptr
<1>1. n \in Reached(held) /\ e \in Elem
  BY HeldIsReached DEF IsElement, IsNode
<1>2. obj[n].xd \in Reached(held) \cup {Nil} /\ e \in Cell
  BY <1>1, ReachedKnows DEF Cell
<1>3. c \in Cell /\ c \in Tree(e)
  BY DEF OwnProps, Tree, Cell
<1>4. status[c] = "live" /\ Owners(c) \subseteq Reached(held)
  BY <1>1, <1>2, <1>3, PointsTo
<1>5. o \in Obj \ Present
  BY NewObjIs DEF Class
<1> QED  BY <1>2, <1>3, <1>4, <1>5, ReturnsPointer DEF AttrSetPtr

\* ... or a new one below the element.
LEMMA PropertySetKeeps ==
  ASSUME IInv, NEW n \in Obj, PropertySet(n)
  PROVE  IInv'
<1>0. SUFFICES ASSUME \E o \in NewObj("attr"), c \in NewCell(Prop) :
                        /\ status' = [status EXCEPT ![c] = "live"]
                        /\ above' = [above EXCEPT ![c] = above[obj[n].ptr] \cup {obj[n].ptr}]
                        /\ Returns(o, AttrSetPtr(obj[n].xd, c))
               PROVE  IInv'
  BY PropertyChangeKeeps DEF PropertySet
<1> DEFINE e == obj[n].ptr
           up == above[e] \cup {e}
<1>1. n \in Reached(held) /\ e \in Elem
  BY HeldIsReached DEF PropertySet, IsElement, IsNode
<1>2. PICK o \in NewObj("attr"), c \in NewCell(Prop) :
        /\ status' = [status EXCEPT ![c] = "live"]
        /\ above' = [above EXCEPT ![c] = up]
        /\ Returns(o, AttrSetPtr(obj[n].xd, c))
  BY <1>0
<1> DEFINE r == AttrSetPtr(obj[n].xd, c)
<1>3. o \in Obj \ Present /\ c \in Prop /\ c \in Cell /\ status[c] = "unused"
  BY <1>2, NewObjIs DEF Class, NewCell, Cell
<1>4. /\ obj[n].xd \in Reached(held) \cup {Nil} /\ obj[n].xd \in Obj \cup {Nil}
      /\ e \in Cell \ Prop
  BY <1>1, ReachedKnows, ReachedKept, OwnershipAssumption DEF Object, Cell, IInv, Present
<1>5. status[e] = "live" /\ Owners(e) \subseteq Reached(held)
  <2>1. e \in Tree(e)
    BY <1>4 DEF Tree
  <2> QED  BY <1>1, <1>4, <2>1, PointsTo
<1>6. e # c /\ above[c] = {} /\ \A b \in Cell : c \notin above[b]
  BY <1>3, <1>4, <1>5, UnusedIsAlone
<1>7. r \in Object
  BY <1>3, <1>4, PlainIs DEF AttrSetPtr, Class
<1>8. /\ r.class = "attr" /\ r.ptr = c /\ r.owns = FALSE /\ r.xd = obj[n].xd /\ r.xpath = Nil
      /\ r.nodes = {} /\ FieldsOf(r)
  BY <1>3 DEF AttrSetPtr, Plain, FieldsOf
<1>9. Forest(above)'
  <2>1. c \in Cell \ Doc
    BY <1>3, OwnershipAssumption
  <2> QED  BY <1>2, <1>3, <1>4, <1>6, <2>1, Branch, NewBelow DEF IInv
<1> HIDE DEF r, e
<1>10. /\ obj' = [obj EXCEPT ![o] = r] /\ held' = held \cup {o}
       /\ obj \in [Obj -> Object \cup {NoObject}]
  BY <1>2 DEF Returns, r, IInv, TypeOK
<1>11. /\ obj' \in [Obj -> Object \cup {NoObject}]
       /\ \A p \in Obj \ {o} : obj'[p] = obj[p]
       /\ obj'[o] = r
  BY <1>3, <1>7, <1>10
<1>12. Names({o})
  BY <1>4, <1>8, <1>11 DEF Names
<1>13. held \subseteq held' /\ held' \subseteq Reached(held) \cup {o}
  BY <1>10, HeldIsReached
<1>14. Present' = Present \cup {o}
  BY <1>3, <1>7, <1>11, ObjectsAre DEF Present
<1>15. \A p \in Present : p # o /\ p \in Obj /\ obj'[p] = obj[p] /\ Same(p)
  BY <1>3, <1>11, <1>14 DEF Same, Like, Present
<1>16. /\ status' \in [Cell -> {"unused", "live", "freed"}]
       /\ \A b \in Cell : status[b] = "live" => status'[b] = "live" /\ b # c
       /\ status'[c] = "live"
       /\ above' \in [Cell -> SUBSET Cell]
       /\ above'[c] = up /\ \A b \in Cell \ {c} : above'[b] = above[b]
  BY <1>2, <1>3, <1>9 DEF IInv, TypeOK, Forest
<1>17. TypeOK' /\ ~twice'
  BY <1>10, <1>11, <1>14, <1>16 DEF IInv, TypeOK, Present, PropertySet
<1>18. Growing'
  BY <1>4, <1>5, <1>16 DEF IInv, Growing
<1>19. \A p \in Present : obj[p].owns => obj[p].ptr \in Cell /\ obj[p].ptr # c
  BY <1>3 DEF IInv, Owned, Fields, FieldsOf
<1>20. Owned' /\ Alone'
  BY <1>8, <1>11, <1>14, <1>15, <1>16, <1>19 DEF IInv, Owned, Alone
<1>21. \A b \in Cell : status[b] = "live" =>
         status'[b] = "live" /\ Owners(b)' \subseteq Owners(b) \cup Reached(held) \cup held'
  BY <1>8, <1>11, <1>14, <1>15, <1>16 DEF Owners
<1>22. \A p \in {o} : \A b \in Leads(p)' :
         status'[b] = "live" /\ Owners(b)' \subseteq Reached(held) \cup held'
  <2>1. \A b \in Leads(o)' : b = c
    BY <1>8, <1>11 DEF Leads
  <2>2. Owners(c)' \subseteq Owners(e)
    BY <1>8, <1>11, <1>14, <1>15, <1>16, <1>19 DEF Owners
  <2> QED  BY <1>5, <1>16, <2>1, <2>2
<1>23. {o} \in SUBSET Obj /\ \A p \in Present : Same(p)
  BY <1>3, <1>15
<1> QED  BY <1>9, <1>12, <1>13, <1>14, <1>17, <1>18, <1>20, <1>21, <1>22, <1>23, Steps

LEMMA DocumentInitializeKeeps ==
  ASSUME IInv, DocumentInitialize
  PROVE  IInv'
<1>1. PICK o \in NewObj("document"), d \in NewCell(Doc), e \in NewCell(Elem) \cup {Nil} :
        /\ status' = [c \in Cell |-> IF c \in {d, e} THEN "live" ELSE status[c]]
        /\ above' = [c \in Cell |-> IF c = e THEN {d} ELSE above[c]]
        /\ Returns(o, DocumentNew(d))
        /\ UNCHANGED twice
  BY DEF DocumentInitialize
<1> DEFINE r == DocumentNew(d)
<1>2. /\ o \in Obj \ Present /\ d \in Doc /\ d \in Cell \ Prop /\ status[d] = "unused"
      /\ e # d /\ (e \in Cell => e \in Elem /\ status[e] = "unused")
  BY <1>1, NewObjIs, OwnershipAssumption DEF Class, NewCell, Cell
<1>3. /\ above[d] = {} /\ \A b \in Cell : d \notin above[b]
      /\ e \in Cell => above[e] = {} /\ \A b \in Cell : e \notin above[b]
  BY <1>2, UnusedIsAlone
<1>4. r \in Object
  BY <1>2, PlainIs DEF DocumentNew, Class
<1>5. /\ r.class = "document" /\ r.ptr = d /\ r.owns = TRUE /\ r.xd = Nil /\ r.xpath = Nil
      /\ r.nodes = {} /\ FieldsOf(r)
  BY <1>2 DEF DocumentNew, Plain, FieldsOf
<1> HIDE DEF r
<1>6. /\ status' \in [Cell -> {"unused", "live", "freed"}]
      /\ above' \in [Cell -> SUBSET Cell]
      /\ \A b \in Cell : status[b] = "live" => status'[b] = "live" /\ b # d /\ b # e
      /\ status'[d] = "live" /\ above'[d] = {}
      /\ e \in Cell => status'[e] = "live" /\ above'[e] = {d}
      /\ \A b \in Cell \ {e} : above'[b] = above[b]
  BY <1>1, <1>2, <1>3 DEF IInv, TypeOK
<1>7. Forest(above)'
  <2>1. CASE e = Nil
    <3>1. \A b \in Cell : above'[b] = above[b]
      BY <1>6, <2>1, OwnershipAssumption
    <3> QED  BY <1>6, <3>1 DEF IInv, Forest
  <2>2. CASE e \in Cell
    <3>1. Fits(above, e, above[d] \cup {d})
      BY <1>2, <1>3, <2>2, OwnershipAssumption, Branch DEF IInv
    <3>2. above[d] \cup {d} = {d}
      BY <1>3
    <3>3. Forest([above EXCEPT ![e] = {d}])
      BY <1>2, <2>2, <3>1, <3>2, NewBelow
    <3> DEFINE new == [above EXCEPT ![e] = {d}]
    <3>4. new[e] = {d} /\ \A b \in Cell \ {e} : new[b] = above[b]
      BY <2>2 DEF IInv, TypeOK
    <3>5. Forest(new)
      BY <3>3
    <3> HIDE DEF new
    <3>6. \A b \in Cell : above'[b] = new[b]
      BY <1>6, <2>2, <3>4
    <3> QED  BY <1>6, <3>5, <3>6 DEF Forest
  <2> QED  BY <1>1, <2>1, <2>2 DEF NewCell, Cell
<1>8. /\ obj' = [obj EXCEPT ![o] = r] /\ held' = held \cup {o}
      /\ obj \in [Obj -> Object \cup {NoObject}]
  BY <1>1 DEF Returns, r, IInv, TypeOK
<1>9. /\ obj' \in [Obj -> Object \cup {NoObject}]
      /\ \A p \in Obj \ {o} : obj'[p] = obj[p]
      /\ obj'[o] = r
  BY <1>2, <1>4, <1>8
<1>10. Names({o})
  BY <1>5, <1>9 DEF Names
<1>11. held \subseteq held' /\ held' \subseteq Reached(held) \cup {o}
  BY <1>8, HeldIsReached
<1>12. Present' = Present \cup {o}
  BY <1>2, <1>4, <1>9, ObjectsAre DEF Present
<1>13. \A p \in Present : p # o /\ p \in Obj /\ obj'[p] = obj[p] /\ Same(p)
  BY <1>2, <1>9, <1>12 DEF Same, Like, Present
<1>14. TypeOK' /\ ~twice'
  BY <1>1, <1>6, <1>8, <1>9, <1>12 DEF IInv, TypeOK, Present
<1>15. Growing'
  <2>1. \A c \in Cell \ {e} : above[c] # {} =>
          status'[c] = "live" /\ \A b \in above[c] : b \in Cell /\ status'[b] = "live"
    BY <1>6 DEF IInv, Growing, TypeOK
  <2> QED  BY <1>6, <2>1 DEF Growing
<1>16. \A p \in Present : obj[p].owns =>
         obj[p].ptr \in Cell /\ obj[p].ptr # d /\ obj[p].ptr # e
  BY <1>2 DEF IInv, Owned, Fields, FieldsOf
<1>17. Owned' /\ Alone'
  BY <1>2, <1>5, <1>6, <1>9, <1>12, <1>13, <1>16 DEF IInv, Owned, Alone
<1>18. \A b \in Cell : status[b] = "live" =>
         status'[b] = "live" /\ Owners(b)' \subseteq Owners(b) \cup Reached(held) \cup held'
  BY <1>6, <1>8, <1>9, <1>12, <1>13 DEF Owners
<1>19. \A p \in {o} : \A b \in Leads(p)' :
         status'[b] = "live" /\ Owners(b)' \subseteq Reached(held) \cup held'
  <2>1. \A b \in Leads(o)' : b = d
    BY <1>5, <1>9 DEF Leads
  <2>2. Owners(d)' \subseteq {o}
    BY <1>6, <1>12, <1>13, <1>16 DEF Owners
  <2> QED  BY <1>6, <1>8, <2>1, <2>2
<1>20. {o} \in SUBSET Obj /\ \A p \in Present : Same(p)
  BY <1>2, <1>13
<1> QED  BY <1>7, <1>10, <1>11, <1>12, <1>14, <1>15, <1>17, <1>18, <1>19, <1>20, Steps

(***************************************************************************)
(* Linking                                                                 *)
(***************************************************************************)
\* The cell c of the object n, and all below it, go below the cells of up, the
\* owners of which are reached, or lose what is above them; an object that owns
\* c still, owns a tree.  An object may come that leads to c, too.
LEMMA Moves ==
  ASSUME IInv, NEW n \in Reached(held), NEW c \in Cell, obj[n].ptr = c,
         NEW up \in SUBSET Cell, \A b \in up : status[b] = "live",
         \A w \in Present : obj[w].owns /\ obj[w].ptr \in up => w \in Reached(held),
         Forest(above)',
         \A b \in Cell : /\ above'[b] \subseteq above[b] \cup up
                         /\ above'[b] # {} => b = c \/ above[b] # {},
         NEW N \in SUBSET (Obj \ Present),
         obj' \in [Obj -> Object \cup {NoObject}],
         \A o \in Obj \ (N \cup {n}) : obj'[o] = obj[o],
         obj'[n] \in Object, Like(n),
         \A w \in Present : obj'[w].owns /\ obj[w].ptr = c => above'[c] = {},
         \A o \in N : obj'[o] \in Object /\ ~obj'[o].owns /\ Leads(o)' \subseteq {c},
         Names(N),
         held \subseteq held', held' \subseteq Reached(held) \cup N,
         UNCHANGED <<status, twice>>
  PROVE  IInv'
<1>1. /\ n \in Present /\ n \in Obj /\ obj[n] \in Object
      /\ status[c] = "live" /\ Owners(c) \subseteq Reached(held)
  <2>1. c \in Leads(n)
    BY OwnershipAssumption DEF Leads
  <2> QED  BY <2>1, ReachedKnows
<1>2. Present' = Present \cup N
  BY <1>1, ObjectsAre DEF Present
<1>3. \A o \in Present : o \in Obj /\ o \notin N /\ Same(o)
  <2>1. Same(n)
    BY <1>1, <1>2 DEF Same
  <2>2. \A o \in Present \ {n} : o \in Obj /\ o \notin N /\ obj'[o] = obj[o]
    BY DEF Present
  <2>3. \A o \in Present \ {n} : Same(o)
    BY <1>2, <2>2 DEF Same, Like
  <2> QED  BY <1>1, <2>1, <2>2, <2>3
<1>4. TypeOK' /\ ~twice'
  <2>1. held' \subseteq Present'
    BY <1>2, ReachedKept DEF IInv
  <2> QED  BY <1>2, <2>1 DEF IInv, TypeOK, Present, Forest
<1>5. Growing'
  <2>1. ASSUME NEW b \in Cell, above'[b] # {}
        PROVE  status[b] = "live" /\ \A a \in above'[b] : status[a] = "live"
    BY <1>1, <2>1 DEF IInv, Growing
  <2> QED  BY <2>1 DEF Growing
<1>6. ASSUME NEW w \in Present', obj'[w].owns
      PROVE  /\ w \in Present /\ obj[w].owns /\ obj'[w].ptr = obj[w].ptr /\ obj[w].ptr \in Cell
             /\ status[obj[w].ptr] = "live" /\ above[obj[w].ptr] = {}
  BY <1>2, <1>3, <1>6 DEF Same, Like, IInv, Owned, Fields, FieldsOf
<1>7. Owned'
  <2>1. ASSUME NEW w \in Present', obj'[w].owns
        PROVE  above'[obj'[w].ptr] = {}
    BY <1>6, <2>1
  <2> QED  BY <1>6, <2>1 DEF Owned
<1>8. Alone'
  BY <1>6 DEF IInv, Alone
<1>9. \A b \in Cell : Owners(b)' \subseteq Owners(b) \cup Reached(held)
  <2>1. ASSUME NEW b \in Cell, NEW w \in Owners(b)'
        PROVE  w \in Owners(b) \cup Reached(held)
    <3>1. w \in Present' /\ obj'[w].owns /\ obj'[w].ptr # Nil /\ obj'[w].ptr \in above'[b] \cup {b}
      BY <2>1 DEF Owners
    <3>2. w \in Present /\ obj[w].owns /\ obj[w].ptr # Nil /\ obj[w].ptr \in above[b] \cup up \cup {b}
      BY <1>6, <3>1
    <3> QED  BY <3>2 DEF Owners
  <2> QED  BY <2>1
<1>10. \A o \in N : \A b \in Leads(o)' :
         status'[b] = "live" /\ Owners(b)' \subseteq Reached(held) \cup held'
  BY <1>1, <1>9
<1>11. \A b \in Cell : status[b] = "live" =>
         status'[b] = "live" /\ Owners(b)' \subseteq Owners(b) \cup Reached(held) \cup held'
  BY <1>9
<1>12. N \in SUBSET Obj /\ \A o \in Present : Same(o)
  BY <1>3
<1> QED  BY <1>2, <1>4, <1>5, <1>7, <1>8, <1>10, <1>11, <1>12, Steps

LEMMA PutIs ==
  ASSUME IInv, NEW c \in Cell, NEW up, Fits(above, c, up)
  PROVE  /\ Forest(Put(c, up)) /\ Put(c, up)[c] = up
         /\ \A b \in Cell : /\ Put(c, up)[b] \subseteq above[b] \cup up
                            /\ Put(c, up)[b] # {} => b = c \/ above[b] # {}
<1>1. Put(c, up) = Placed(above, c, up)
  BY DEF Put, Placed
<1>2. Forest(Placed(above, c, up))
  BY PlacedForest DEF IInv
<1>3. /\ Placed(above, c, up)[c] = up
      /\ \A b \in Cell : /\ Placed(above, c, up)[b] \subseteq above[b] \cup up
                         /\ Placed(above, c, up)[b] # {} => b = c \/ above[b] # {}
  BY DEF Placed
<1> QED  BY <1>1, <1>2, <1>3

\* A held element and what is above it.
LEMMA ElementKnows ==
  ASSUME IInv, NEW p, IsElement(p)
  PROVE  /\ p \in Reached(held) /\ p \in Obj /\ p \in Present /\ obj[p] \in Object
         /\ obj[p].xd \in Reached(held) \cup {Nil}
         /\ obj[p].ptr \in Elem /\ obj[p].ptr \in Cell \ Prop /\ obj[p].ptr \in Cell \ Doc
         /\ \A b \in above[obj[p].ptr] \cup {obj[p].ptr} : b \in Cell /\ status[b] = "live"
         /\ \A w \in Present :
              obj[w].owns /\ obj[w].ptr \in above[obj[p].ptr] \cup {obj[p].ptr} => w \in Reached(held)
<1> DEFINE e == obj[p].ptr
<1>1. p \in Reached(held) /\ e \in Elem
  BY HeldIsReached DEF IsElement, IsNode
<1>2. /\ e \in Cell \ Prop /\ e \in Cell \ Doc
      /\ p \in Obj /\ p \in Present /\ obj[p] \in Object
      /\ obj[p].xd \in Reached(held) \cup {Nil}
  BY <1>1, ReachedKnows, OwnershipAssumption DEF Cell
<1>3. e \in Leads(p)
  BY <1>2, OwnershipAssumption DEF Leads
<1>4. status[e] = "live" /\ Owners(e) \subseteq Reached(held)
  BY <1>1, <1>3, ReachedKnows
<1>5. \A b \in above[e] : b \in Cell /\ status[b] = "live"
  BY <1>2 DEF IInv, Growing, TypeOK
<1>6. ASSUME NEW w \in Present, obj[w].owns, obj[w].ptr \in above[e] \cup {e}
      PROVE  w \in Reached(held)
  <2>1. obj[w].ptr # Nil
    BY <1>2, <1>5, <1>6, OwnershipAssumption
  <2> QED  BY <1>4, <1>6, <2>1 DEF Owners
<1> QED  BY <1>1, <1>2, <1>4, <1>5, <1>6

\* What is known when n is handed over to p.
LEMMA LinksKnows ==
  ASSUME IInv, NEW p, NEW n, Links(p, n)
  PROVE  /\ Fits(above, obj[n].ptr, above[obj[p].ptr] \cup {obj[p].ptr})
         /\ Fits(above, obj[n].ptr, above[obj[p].ptr])
         /\ \A w \in Present : obj[w].owns /\ obj[w].ptr = obj[n].ptr => w = n
<1>1. IsElement(p) /\ IsElement(n)
  BY DEF Links, HandedOver
<1>2. obj[p].ptr # obj[n].ptr /\ obj[n].ptr \notin above[obj[p].ptr]
  BY <1>1, ElementKnows DEF Links, Tree
<1> QED  BY <1>1, <1>2, ElementKnows, Branch DEF IInv, Links, HandedOver

\* n is set to is_ptr, so no object owns its cell any more.
LEMMA SetPtrIs ==
  ASSUME IInv, NEW n \in Obj, NEW N \in SUBSET (Obj \ Present), n \in Present,
         \A o \in Obj \ N : obj'[o] = SetPtr(n)[o],
         \A w \in Present : obj[w].owns /\ obj[w].ptr = obj[n].ptr => w = n
  PROVE  /\ \A o \in Obj \ (N \cup {n}) : obj'[o] = obj[o]
         /\ obj'[n] \in Object /\ Like(n)
         /\ ~ \E w \in Present : obj'[w].owns /\ obj[w].ptr = obj[n].ptr
<1>1. obj[n] \in Object /\ obj \in [Obj -> Object \cup {NoObject}]
  BY DEF Present, IInv, TypeOK
<1>2. /\ SetPtr(n)[n] = [obj[n] EXCEPT !.owns = FALSE]
      /\ \A o \in Obj \ {n} : SetPtr(n)[o] = obj[o]
  BY <1>1 DEF SetPtr
<1>3. n \notin N
  OBVIOUS
<1>4. /\ obj'[n] = [obj[n] EXCEPT !.owns = FALSE]
      /\ \A o \in Obj \ (N \cup {n}) : obj'[o] = obj[o]
  BY <1>2, <1>3
<1>5. obj'[n] \in Object /\ Like(n) /\ ~obj'[n].owns
  BY <1>1, <1>4 DEF Object, Like
<1>6. \A w \in Present \ {n} : obj'[w] = obj[w]
  BY <1>4 DEF Present
<1> QED  BY <1>4, <1>5, <1>6

LEMMA SetPtrTyped ==
  ASSUME IInv, NEW n \in Present
  PROVE  SetPtr(n) \in [Obj -> Object \cup {NoObject}]
<1>1. n \in Obj /\ obj[n] \in Object /\ obj \in [Obj -> Object \cup {NoObject}]
  BY DEF Present, IInv, TypeOK
<1>2. [obj[n] EXCEPT !.owns = FALSE] \in Object
  BY <1>1 DEF Object
<1> QED  BY <1>1, <1>2 DEF SetPtr

\* n is set to is_ptr and put below up, and a new object may come for its cell.
LEMMA HandsOver ==
  ASSUME IInv, NEW n \in Obj, IsElement(n), NEW up \in SUBSET Cell, \A b \in up : status[b] = "live",
         \A w \in Present : obj[w].owns /\ obj[w].ptr \in up => w \in Reached(held),
         \A w \in Present : obj[w].owns /\ obj[w].ptr = obj[n].ptr => w = n,
         Forest(above)',
         \A b \in Cell : /\ above'[b] \subseteq above[b] \cup up
                         /\ above'[b] # {} => b = obj[n].ptr \/ above[b] # {},
         NEW N \in SUBSET (Obj \ Present),
         obj' \in [Obj -> Object \cup {NoObject}],
         \A o \in Obj \ N : obj'[o] = SetPtr(n)[o],
         \A o \in N : obj'[o] \in Object /\ ~obj'[o].owns /\ Leads(o)' \subseteq {obj[n].ptr},
         Names(N), held \subseteq held', held' \subseteq held \cup N,
         UNCHANGED <<status, twice>>
  PROVE  IInv'
<1>1. PICK c \in Cell : obj[n].ptr = c
  BY ElementKnows
<1>2. n \in Reached(held) /\ n \in Present
  BY ElementKnows
<1>3. /\ \A o \in Obj \ (N \cup {n}) : obj'[o] = obj[o]
      /\ obj'[n] \in Object /\ Like(n)
      /\ ~ \E w \in Present : obj'[w].owns /\ obj[w].ptr = c
  BY <1>1, <1>2, SetPtrIs
<1>4. held' \subseteq Reached(held) \cup N
  BY HeldIsReached
<1>5. \A o \in N : obj'[o] \in Object /\ ~obj'[o].owns /\ Leads(o)' \subseteq {c}
  BY <1>1
<1>6. \A b \in Cell : /\ above'[b] \subseteq above[b] \cup up
                      /\ above'[b] # {} => b = c \/ above[b] # {}
  BY <1>1
<1>7. \A w \in Present : obj'[w].owns /\ obj[w].ptr = c => above'[c] = {}
  BY <1>3
<1> QED  BY <1>1, <1>2, <1>3, <1>4, <1>5, <1>6, <1>7, Moves

LEMMA SiblingSetKeeps ==
  ASSUME IInv, NEW s \in Obj, NEW n \in Obj, SiblingSet(s, n)
  PROVE  IInv'
<1> DEFINE up == above[obj[s].ptr]
           N  == {}
<1>1. Links(s, n) /\ above' = Put(obj[n].ptr, up) /\ obj' = SetPtr(n) /\ held' = held
  BY DEF SiblingSet
<1>2. IsElement(s) /\ IsElement(n) /\ UNCHANGED <<status, twice>>
  BY <1>1 DEF Links, HandedOver
<1>3. /\ up \in SUBSET Cell /\ \A b \in up : status[b] = "live"
      /\ \A w \in Present : obj[w].owns /\ obj[w].ptr \in up => w \in Reached(held)
  BY <1>2, ElementKnows
<1>4. /\ Fits(above, obj[n].ptr, up)
      /\ \A w \in Present : obj[w].owns /\ obj[w].ptr = obj[n].ptr => w = n
  BY <1>1, LinksKnows
<1>5. /\ Forest(above)'
      /\ \A b \in Cell : above'[b] \subseteq above[b] \cup up /\ (above'[b] # {} => b = obj[n].ptr \/ above[b] # {})
  <2> HIDE DEF up
  <2>1. obj[n].ptr \in Cell
    BY <1>2, ElementKnows
  <2> QED  BY <1>1, <1>4, <2>1, PutIs
<1>6. obj' \in [Obj -> Object \cup {NoObject}] /\ \A o \in Obj \ N : obj'[o] = SetPtr(n)[o]
  BY <1>1, <1>2, ElementKnows, SetPtrTyped
<1>7. /\ held \subseteq held' /\ held' \subseteq held \cup N /\ Names(N) /\ N \in SUBSET (Obj \ Present)
      /\ \A o \in N : obj'[o] \in Object /\ ~obj'[o].owns /\ Leads(o)' \subseteq {obj[n].ptr}
  BY <1>1 DEF Names
<1> HIDE DEF up, N
<1> QED  BY <1>2, <1>3, <1>4, <1>5, <1>6, <1>7, HandsOver

LEMMA ChildSetKeeps ==
  ASSUME IInv, NEW p \in Obj, NEW n \in Obj, ChildSet(p, n)
  PROVE  IInv'
<1> DEFINE up == above[obj[p].ptr] \cup {obj[p].ptr}
           r  == NodeNew2(obj[p].xd, obj[n].ptr)
<1>1. Links(p, n) /\ above' = Put(obj[n].ptr, up)
  BY DEF ChildSet
<1>2. IsElement(p) /\ IsElement(n) /\ UNCHANGED <<status, twice>>
  BY <1>1 DEF Links, HandedOver
<1>3. /\ up \in SUBSET Cell /\ \A b \in up : status[b] = "live"
      /\ \A w \in Present : obj[w].owns /\ obj[w].ptr \in up => w \in Reached(held)
  BY <1>2, ElementKnows
<1>4. /\ Fits(above, obj[n].ptr, up)
      /\ \A w \in Present : obj[w].owns /\ obj[w].ptr = obj[n].ptr => w = n
  BY <1>1, LinksKnows
<1>5. /\ Forest(above)'
      /\ \A b \in Cell : above'[b] \subseteq above[b] \cup up /\ (above'[b] # {} => b = obj[n].ptr \/ above[b] # {})
  <2> HIDE DEF up
  <2>1. obj[n].ptr \in Cell
    BY <1>2, ElementKnows
  <2> QED  BY <1>1, <1>4, <2>1, PutIs
<1>6. SetPtr(n) \in [Obj -> Object \cup {NoObject}]
  BY <1>2, ElementKnows, SetPtrTyped
<1>7. CASE obj' = SetPtr(n) /\ held' = held
  <2> DEFINE N == {}
  <2>1. /\ obj' \in [Obj -> Object \cup {NoObject}]
        /\ \A o \in Obj \ N : obj'[o] = SetPtr(n)[o]
        /\ \A o \in N : obj'[o] \in Object /\ ~obj'[o].owns /\ Leads(o)' \subseteq {obj[n].ptr}
        /\ held \subseteq held' /\ held' \subseteq held \cup N
        /\ Names(N) /\ N \in SUBSET (Obj \ Present)
    BY <1>6, <1>7 DEF Names
  <2> HIDE DEF up, N
  <2> QED  BY <1>2, <1>3, <1>4, <1>5, <2>1, HandsOver
<1>8. ASSUME NEW o \in NewObj("node"),
             obj' = [SetPtr(n) EXCEPT ![o] = r], held' = held \cup {o}
      PROVE  IInv'
  <2> DEFINE N == {o}
  <2>1. o \in Obj \ Present
    BY <1>8, NewObjIs DEF Class
  <2>2. obj[p].xd \in Reached(held) \cup {Nil} /\ obj[p].xd \in Obj \cup {Nil} /\ obj[n].ptr \in Cell
    BY <1>2, ElementKnows DEF Object
  <2>3. r \in Object
    BY <2>2, PlainIs DEF NodeNew2, Class
  <2>4. /\ r.class = "node" /\ r.ptr = obj[n].ptr /\ r.owns = FALSE /\ r.xd = obj[p].xd
        /\ r.xpath = Nil /\ r.nodes = {} /\ FieldsOf(r)
    BY <2>2 DEF NodeNew2, Plain, FieldsOf
  <2> HIDE DEF r
  <2>5. /\ obj' \in [Obj -> Object \cup {NoObject}] /\ obj'[o] = r
        /\ \A q \in Obj \ N : obj'[q] = SetPtr(n)[q]
    BY <1>6, <1>8, <2>1, <2>3
  <2>6. Names(N)
    BY <2>2, <2>4, <2>5 DEF Names
  <2>7. /\ \A q \in N : obj'[q] \in Object /\ ~obj'[q].owns /\ Leads(q)' \subseteq {obj[n].ptr}
        /\ held \subseteq held' /\ held' \subseteq held \cup N /\ N \in SUBSET (Obj \ Present)
    BY <1>8, <2>1, <2>3, <2>4, <2>5 DEF Leads
  <2> HIDE DEF up, N
  <2> QED  BY <1>2, <1>3, <1>4, <1>5, <2>5, <2>6, <2>7, HandsOver
<1>9. \/ obj' = SetPtr(n) /\ held' = held
      \/ \E o \in NewObj("node") : obj' = [SetPtr(n) EXCEPT ![o] = r] /\ held' = held \cup {o}
  BY DEF ChildSet
<1> QED  BY <1>7, <1>8, <1>9

LEMMA RemoveKeeps ==
  ASSUME IInv, NEW n \in Obj, Remove(n)
  PROVE  IInv'
<1> DEFINE up == {}
           N == {}
<1>1. /\ IsElement(n) /\ above' = Put(obj[n].ptr, up)
      /\ obj' = obj /\ held' = held /\ UNCHANGED <<status, twice>>
  BY DEF Remove
<1>2. PICK c \in Cell : obj[n].ptr = c
  BY <1>1, ElementKnows
<1>3. n \in Reached(held) /\ n \in Present /\ n \in Obj /\ obj[n] \in Object /\ c \in Cell \ Doc
  BY <1>1, <1>2, ElementKnows
<1>4. Fits(above, c, up)
  BY <1>3 DEF Fits
<1>5. /\ Forest(above)' /\ above'[c] = {}
      /\ \A b \in Cell : above'[b] \subseteq above[b] \cup up /\ (above'[b] # {} => b = c \/ above[b] # {})
  BY <1>1, <1>2, <1>4, PutIs
<1>6. /\ up \in SUBSET Cell /\ \A b \in up : status[b] = "live"
      /\ \A w \in Present : obj[w].owns /\ obj[w].ptr \in up => w \in Reached(held)
  OBVIOUS
<1>7. /\ obj' \in [Obj -> Object \cup {NoObject}] /\ obj'[n] \in Object /\ Like(n)
      /\ \A o \in Obj \ (N \cup {n}) : obj'[o] = obj[o]
  BY <1>1, <1>3 DEF IInv, TypeOK, Like
<1>8. /\ held \subseteq held' /\ held' \subseteq Reached(held) \cup N /\ Names(N)
      /\ N \in SUBSET (Obj \ Present)
      /\ \A o \in N : obj'[o] \in Object /\ ~obj'[o].owns /\ Leads(o)' \subseteq {c}
  BY <1>1, HeldIsReached DEF Names
<1>9. \A w \in Present : obj'[w].owns /\ obj[w].ptr = c => above'[c] = {}
  BY <1>5
<1> HIDE DEF up, N
<1> QED  BY <1>1, <1>2, <1>3, <1>5, <1>6, <1>7, <1>8, <1>9, Moves

LEMMA RootSetKeeps ==
  ASSUME IInv, NEW h \in Obj, NEW n \in Obj, RootSet(h, n)
  PROVE  IInv'
<1>1. IsDocument(h) /\ HandedOver(n) /\ IsElement(n)
  BY DEF RootSet, HandedOver
<1>2. h \in Reached(held) /\ obj[h].class = "document"
  BY <1>1, HeldIsReached DEF IsDocument
<1> DEFINE d == obj[h].ptr
           c == obj[n].ptr
           up == {d}
           N == {}
           put == Put(c, up)
<1>3. d \in Doc
  BY <1>2, ReachedKnows DEF FieldsOf
<1>4. c \in Elem
  BY <1>1, ElementKnows
<1>5. \/ above' = put
      \/ \E r \in {q \in Elem \ {c} : above[q] = {d}} :
           above' = [b \in Cell |-> IF b \in Tree(r) \ Tree(c) THEN put[b] \ {d} ELSE put[b]]
  BY DEF RootSet
<1> HIDE DEF c, d
<1>6. d \in Doc /\ c \in Elem /\ d # c /\ d \in Cell /\ d \notin Prop /\ c \in Cell \ Doc /\ above[d] = {}
  BY <1>3, <1>4, OwnershipAssumption DEF Cell, IInv, Forest, TypeOK
<1>7. Fits(above, c, up)
  BY <1>6 DEF Fits
<1>8. /\ Forest(put) /\ put[c] = up
      /\ \A b \in Cell : put[b] \subseteq above[b] \cup up /\ (put[b] # {} => b = c \/ above[b] # {})
  <2> HIDE DEF up
  <2> QED  BY <1>6, <1>7, PutIs
<1>9. /\ Forest(above)'
      /\ \A b \in Cell : above'[b] \subseteq above[b] \cup up /\ (above'[b] # {} => b = c \/ above[b] # {})
  <2>1. CASE above' = put
    BY <1>8, <2>1
  <2>2. ASSUME NEW r \in Elem \ {c}, above[r] = {d},
               above' = [b \in Cell |-> IF b \in Tree(r) \ Tree(c) THEN put[b] \ {d} ELSE put[b]]
        PROVE  /\ Forest(above)'
               /\ \A b \in Cell : above'[b] \subseteq put[b]
    <3> DEFINE moved == Placed(put, r, {})
    <3>1. r \in Cell \ Doc /\ r # d /\ r \notin Tree(c) /\ r \in Tree(r)
      BY <1>6, <2>2, OwnershipAssumption DEF Cell, Tree
    <3>2. Fits(put, r, {})
      BY <3>1 DEF Fits
    <3>3. Forest(moved)
      BY <1>8, <3>2, PlacedForest
    <3>4. put[r] = {d}
      BY <1>6, <2>2, <3>1 DEF Put, Tree
    <3>5. \A b \in Cell : b # r => (r \in put[b] <=> b \in Tree(r) \ Tree(c))
      <4>1. ASSUME NEW b \in Cell, b # r, b # c, c \notin above[b]
            PROVE  r \in put[b] <=> b \in Tree(r) \ Tree(c)
        BY <4>1 DEF Put, Tree
      <4>2. r \notin put[c] /\ c \in Tree(c)
        BY <1>6, <1>8, <3>1 DEF Tree
      <4>3. ASSUME NEW b \in Cell, c \in above[b], b # c
            PROVE  r \notin put[b] /\ b \in Tree(c)
        <5>1. put[b] = (above[b] \ above[c]) \cup {d}
          BY <4>3 DEF Put
        <5>2. r \in above[b] => r \in above[c]
          BY <1>6, <2>2, <3>1, <4>3 DEF IInv, Forest
        <5> QED  BY <3>1, <4>3, <5>1, <5>2 DEF Tree
      <4> QED  BY <4>1, <4>2, <4>3
    <3>6. /\ moved[r] = {}
          /\ \A b \in Cell : b # r /\ r \in put[b] => moved[b] = (put[b] \ put[r]) \cup {}
          /\ \A b \in Cell : b # r /\ r \notin put[b] => moved[b] = put[b]
      BY <3>1 DEF Placed
    <3> HIDE DEF moved, put
    <3>7. \A b \in Cell : above'[b] = moved[b]
      BY <2>2, <3>1, <3>4, <3>5, <3>6
    <3>8. above' \in [Cell -> SUBSET Cell] /\ \A b \in Cell : above'[b] \subseteq put[b]
      BY <1>8, <2>2 DEF Forest
    <3> QED  BY <3>3, <3>7, <3>8 DEF Forest
  <2>3. CASE \E r \in {q \in Elem \ {c} : above[q] = {d}} :
               above' = [b \in Cell |-> IF b \in Tree(r) \ Tree(c) THEN put[b] \ {d} ELSE put[b]]
    <3> HIDE DEF put
    <3>1. Forest(above)' /\ \A b \in Cell : above'[b] \subseteq put[b]
      BY <2>2, <2>3
    <3> QED  BY <1>8, <3>1
  <2> QED  BY <1>5, <2>1, <2>3
<1>10. d \in Leads(h)
  BY <1>6, OwnershipAssumption DEF Leads, d
<1>11. status[d] = "live" /\ Owners(d) \subseteq Reached(held)
  BY <1>2, <1>10, ReachedKnows
<1>12. /\ up \in SUBSET Cell /\ \A b \in up : status[b] = "live"
       /\ \A w \in Present : obj[w].owns /\ obj[w].ptr \in up => w \in Reached(held)
  BY <1>6, <1>11, OwnershipAssumption DEF Owners
<1>13. /\ n \in Present /\ obj' = SetPtr(n) /\ held' = held /\ UNCHANGED <<status, twice>>
  BY <1>1, ElementKnows DEF RootSet
<1>14. obj' \in [Obj -> Object \cup {NoObject}] /\ \A o \in Obj \ N : obj'[o] = SetPtr(n)[o]
  BY <1>13, SetPtrTyped
<1>15. /\ held \subseteq held' /\ held' \subseteq held \cup N /\ Names(N) /\ N \in SUBSET (Obj \ Present)
       /\ \A o \in N : obj'[o] \in Object /\ ~obj'[o].owns /\ Leads(o)' \subseteq {obj[n].ptr}
  BY <1>13 DEF Names
<1>16. \A w \in Present : obj[w].owns /\ obj[w].ptr = obj[n].ptr => w = n
  BY <1>1 DEF HandedOver
<1>17. \A b \in Cell : above'[b] \subseteq above[b] \cup up /\ (above'[b] # {} => b = obj[n].ptr \/ above[b] # {})
  BY <1>9 DEF c
<1> HIDE DEF up, N
<1> QED  BY <1>1, <1>9, <1>12, <1>13, <1>14, <1>15, <1>16, <1>17, HandsOver

(***************************************************************************)
(* Freeing                                                                 *)
(***************************************************************************)
\* Freeing cells with all below them leaves trees of live cells.
LEMMA FreeingLeaves ==
  ASSUME IInv, NEW gone \in SUBSET Cell, \A b \in Cell : above[b] \cap gone # {} => b \in gone,
         NEW left, status' = Freed(gone, left),
         above' = [c \in Cell |-> IF c \in gone THEN {} ELSE above[c]]
  PROVE  /\ Forest(above)' /\ Growing'
         /\ status' \in [Cell -> {"unused", "live", "freed"}]
         /\ \A c \in Cell \ gone :
              above'[c] = above[c] /\ (status[c] = "live" => status'[c] = "live")
         /\ \A c \in gone : above'[c] = {}
<1>1. /\ status' \in [Cell -> {"unused", "live", "freed"}]
      /\ \A c \in Cell \ gone : status[c] = "live" => status'[c] = "live"
  BY DEF Freed, IInv, TypeOK
<1>2. /\ above' \in [Cell -> SUBSET Cell]
      /\ \A c \in Cell \ gone : above'[c] = above[c]
      /\ \A c \in gone : above'[c] = {}
  BY DEF IInv, TypeOK
<1>3. Forest(above)'
  <2>1. \A b, c \in Cell : b \in above'[c] => c \notin gone /\ b \notin gone /\ b \in above[c]
    BY <1>2
  <2>2. Forest(above)
    BY DEF IInv
  <2>3. \A b \in Cell : b \notin above'[b]
    BY <2>1, <2>2 DEF Forest
  <2>4. \A b, c \in Cell : b \in above'[c] => above'[b] \subseteq above'[c]
    BY <1>2, <2>1, <2>2 DEF Forest
  <2>5. \A a, b, c \in Cell : a \in above'[c] /\ b \in above'[c] => a = b \/ a \in above'[b] \/ b \in above'[a]
    BY <1>2, <2>1, <2>2 DEF Forest
  <2>6. \A b, c \in Cell : b \in above'[c] => b \notin Prop /\ c \notin Doc
    BY <2>1, <2>2 DEF Forest
  <2> QED  BY <1>2, <2>3, <2>4, <2>5, <2>6 DEF Forest
<1>4. Growing'
  <2>1. ASSUME NEW c \in Cell, above'[c] # {}
        PROVE  status'[c] = "live" /\ \A b \in above'[c] : status'[b] = "live"
    <3>1. c \notin gone /\ above'[c] = above[c] /\ above[c] \cap gone = {} /\ above[c] \subseteq Cell
      BY <1>2, <2>1 DEF IInv, TypeOK
    <3> QED  BY <1>1, <2>1, <3>1 DEF IInv, Growing
  <2> QED  BY <2>1 DEF Growing
<1> QED  BY <1>1, <1>2, <1>3, <1>4

\* What an object is does not change: it marks the same.
LEMMA MarksSame ==
  ASSUME NEW o, obj'[o] = obj[o]
  PROVE  Mark(o)' = Mark(o) /\ Leads(o)' = Leads(o)
BY DEF Mark, NodeMark, AttrMark, NsMark, XPathMark, SetMark, Leads

LEMMA EmptyKeeps ==
  ASSUME IInv, NEW n \in Obj, Empty(n)
  PROVE  IInv'
<1> DEFINE e == obj[n].ptr
           below == Tree(e) \ {e}
<1>1. IsElement(n) /\ obj' = obj /\ held' = held /\ twice' = twice
  BY DEF Empty
<1>2. e \in Elem /\ e \in Cell
  BY <1>1, ElementKnows
<1>3. PICK gone \in {{b \in below : b \in Elem \/ above[b] \cap below # {}}} \cup {{p} : p \in below \ Elem} :
        /\ \A o \in Reached(held) : Leads(o) \cap gone = {}
        /\ status' = Freed(gone, Present)
        /\ above' = [c \in Cell |-> IF c \in gone THEN {} ELSE above[c]]
  BY DEF Empty
<1>4. \A b \in Cell : b \in below <=> e \in above[b]
  BY <1>2 DEF Tree, IInv, Forest
<1>5. gone \in SUBSET Cell /\ \A b \in gone : b \in Cell /\ e \in above[b]
  BY <1>3, <1>4 DEF Tree
<1>6. \A b \in Cell : above[b] \cap gone # {} => b \in gone
  <2>1. CASE gone = {b \in below : b \in Elem \/ above[b] \cap below # {}}
    <3>1. ASSUME NEW b \in Cell, NEW a \in above[b] \cap gone
          PROVE  b \in gone
      <4>1. a \in Cell /\ e \in above[a] /\ a \in below
        BY <1>4, <1>5, <3>1
      <4>2. e \in above[b]
        BY <1>2, <3>1, <4>1 DEF IInv, Forest
      <4> QED  BY <1>4, <2>1, <3>1, <4>1, <4>2
    <3> QED  BY <3>1
  <2>2. ASSUME NEW p \in below \ Elem, gone = {p}
        PROVE  \A b \in Cell : above[b] \cap gone = {}
    <3>1. p \in Prop
      BY <1>4, <1>5, <2>2 DEF IInv, Forest, Cell
    <3> QED  BY <1>5, <2>2, <3>1 DEF IInv, Forest
  <2> QED  BY <1>3, <2>1, <2>2
<1>7. /\ Forest(above)' /\ Growing'
      /\ status' \in [Cell -> {"unused", "live", "freed"}]
      /\ \A c \in Cell \ gone :
           above'[c] = above[c] /\ (status[c] = "live" => status'[c] = "live")
      /\ \A c \in gone : above'[c] = {}
  BY <1>3, <1>5, <1>6, FreeingLeaves
<1>8. Present' = Present /\ \A o : obj'[o] = obj[o]
  BY <1>1 DEF Present
<1>9. TypeOK' /\ Fields' /\ Alone' /\ ~twice'
  BY <1>1, <1>7, <1>8 DEF IInv, TypeOK, Forest, Fields, Alone, Present
<1>10. Owned'
  <2>1. \A o \in Present : obj[o].owns => obj[o].ptr \in Cell /\ obj[o].ptr \notin gone
    BY <1>5 DEF IInv, Owned, Fields, FieldsOf
  <2> QED  BY <1>7, <1>8, <2>1 DEF IInv, Owned
<1>11. /\ held \subseteq Reached(held) /\ Reached(held) \subseteq Present
       /\ \A o \in Reached(held) : Mark(o) \subseteq Reached(held)
  BY ReachedKept DEF IInv
<1>12. Reached(held) \subseteq Reached(held)'
  <2>1. \A o \in Reached(held) : Mark(o) \subseteq Reached(held) /\ o \in Present' /\ Mark(o)' = Mark(o)
    BY <1>8, <1>11, MarksSame
  <2> QED  BY <1>1, <1>11, <2>1, ReachedStays
<1>13. Reached(held)' \subseteq Reached(held)
  <2>1. Reached(held) \in SUBSET Present' /\ \A o \in Reached(held) : Mark(o)' \subseteq Reached(held)
    BY <1>8, <1>11, MarksSame
  <2> QED  BY <1>1, <1>11, <2>1, ReachedLeastNext
<1>14. ASSUME NEW o \in Reached(held) PROVE KeptBy(o)'
  <2>1. KeptBy(o) /\ Leads(o)' = Leads(o) /\ Leads(o) \cap gone = {} /\ Leads(o) \subseteq Cell
    BY <1>3, <1>8, MarksSame, ReachedKnows DEF IInv, Kept
  <2>2. ASSUME NEW c \in Leads(o)
        PROVE  status'[c] = "live" /\ Owners(c)' \subseteq Reached(held)'
    <3>1. above'[c] = above[c] /\ status'[c] = "live"
      BY <1>7, <2>1, <2>2 DEF KeptBy
    <3>2. Owners(c)' \subseteq Owners(c)
      BY <1>8, <3>1 DEF Owners
    <3> QED  BY <1>12, <2>1, <2>2, <3>1, <3>2 DEF KeptBy
  <2> QED  BY <1>8, <2>1, <2>2 DEF KeptBy
<1>15. Kept'
  BY <1>13, <1>14 DEF Kept
<1> QED  BY <1>7, <1>9, <1>10, <1>15 DEF IInv

\* What an object frees, it owns.
LEMMA FreesIs ==
  ASSUME IInv, NEW o \in Present
  PROVE  /\ \A c \in Frees(o) : obj[o].owns /\ c \in Cell /\ o \in Owners(c)
         /\ \A b, c \in Cell : b \in above[c] /\ b \in Frees(o) => c \in Frees(o)
<1>1. Frees(o) = {} \/ (obj[o].owns /\ Frees(o) = Tree(obj[o].ptr))
  BY DEF Frees, DocumentFree, NodeFree, AttrFree
<1>2. CASE Frees(o) = {}
  BY <1>2
<1>3. CASE obj[o].owns /\ Frees(o) = Tree(obj[o].ptr)
  <2>1. obj[o].ptr \in Cell
    BY <1>3 DEF IInv, Fields, FieldsOf
  <2>2. \A c \in Tree(obj[o].ptr) : c \in Cell /\ obj[o].ptr \in above[c] \cup {c}
    BY DEF Tree
  <2>3. obj[o].ptr # Nil
    BY <2>1, OwnershipAssumption
  <2>4. \A b, c \in Cell : b \in above[c] /\ b \in Tree(obj[o].ptr) => c \in Tree(obj[o].ptr)
    BY <2>1 DEF Tree, IInv, Forest
  <2> QED  BY <1>3, <2>2, <2>3, <2>4 DEF Owners
<1> QED  BY <1>1, <1>2, <1>3

\* A cell has one owner.
LEMMA OwnersAreOne ==
  ASSUME IInv, NEW c \in Cell
  PROVE  \A v, w \in Owners(c) : v = w
<1> SUFFICES ASSUME NEW v \in Owners(c), NEW w \in Owners(c) PROVE v = w
  OBVIOUS
<1>1. \A u \in {v, w} : /\ u \in Present /\ obj[u].owns /\ obj[u].ptr \in Cell
                        /\ obj[u].ptr \in above[c] \cup {c} /\ above[obj[u].ptr] = {}
  BY DEF Owners, IInv, Owned, Fields, FieldsOf
<1>2. obj[v].ptr = obj[w].ptr
  BY <1>1 DEF IInv, Forest
<1> QED  BY <1>1, <1>2 DEF IInv, Alone

LEMMA CollectKeeps ==
  ASSUME IInv, Collect
  PROVE  IInv'
<1> DEFINE R == Reached(held)
           garbage == Present \ R
           freed == UNION {Frees(o) : o \in garbage}
<1>1. /\ obj' = [o \in Obj |-> IF o \in garbage THEN NoObject ELSE obj[o]]
      /\ status' = Freed(freed, Present \ garbage)
      /\ above' = [c \in Cell |-> IF c \in freed THEN {} ELSE above[c]]
      /\ twice' = (\/ twice
                   \/ \E c \in freed : status[c] # "live"
                   \/ \E o, p \in garbage : o # p /\ Frees(o) \cap Frees(p) # {})
      /\ held' = held
  BY DEF Collect
<1>2. held \subseteq R /\ R \subseteq Present /\ \A o \in R : Mark(o) \subseteq R
  BY ReachedKept DEF IInv
<1>3. \A c \in freed : \E o \in garbage : c \in Frees(o)
  OBVIOUS
<1>4. \A o \in garbage : \A c \in Frees(o) : obj[o].owns /\ c \in Cell /\ o \in Owners(c)
  BY FreesIs
<1>5. freed \in SUBSET Cell /\ \A c \in freed : status[c] = "live"
  <2>1. ASSUME NEW c \in freed PROVE c \in Cell /\ status[c] = "live"
    <3>1. PICK o \in garbage : c \in Frees(o)
      BY <1>3
    <3>2. c \in Cell /\ o \in Owners(c)
      BY <1>4, <3>1
    <3>3. obj[o].owns /\ obj[o].ptr \in above[c] \cup {c} /\ status[obj[o].ptr] = "live"
      BY <3>2 DEF Owners, IInv, Owned
    <3> QED  BY <3>2, <3>3 DEF IInv, Growing
  <2> QED  BY <2>1
<1>6. \A b \in Cell : above[b] \cap freed # {} => b \in freed
  <2>1. ASSUME NEW b \in Cell, NEW a \in above[b] \cap freed
        PROVE  b \in freed
    <3>1. PICK o \in garbage : a \in Frees(o)
      BY <1>3
    <3>2. b \in Frees(o)
      BY <1>5, <2>1, <3>1, FreesIs
    <3> QED  BY <3>2
  <2> QED  BY <2>1
<1>7. ~twice'
  <2>1. ~ \E c \in freed : status[c] # "live"
    BY <1>5
  <2>2. ~ \E o, p \in garbage : o # p /\ Frees(o) \cap Frees(p) # {}
    <3>1. ASSUME NEW o \in garbage, NEW p \in garbage, NEW c \in Frees(o) \cap Frees(p)
          PROVE  o = p
      BY <1>4, <3>1, OwnersAreOne
    <3> QED  BY <3>1
  <2>3. ~twice
    BY DEF IInv
  <2> HIDE DEF freed, garbage
  <2> QED  BY <1>1, <2>1, <2>2, <2>3
<1>8. /\ Forest(above)' /\ Growing'
      /\ status' \in [Cell -> {"unused", "live", "freed"}]
      /\ \A c \in Cell \ freed :
           above'[c] = above[c] /\ (status[c] = "live" => status'[c] = "live")
  <2> HIDE DEF freed, garbage
  <2> QED  BY <1>1, <1>5, <1>6, FreeingLeaves
<1>9. /\ Present' = R /\ \A o \in R : obj'[o] = obj[o]
      /\ obj' \in [Obj -> Object \cup {NoObject}]
  BY <1>1, <1>2 DEF Present, IInv, TypeOK
<1>10. TypeOK'
  BY <1>1, <1>2, <1>7, <1>8, <1>9 DEF IInv, TypeOK, Present, Forest
<1>11. Fields' /\ Alone'
  BY <1>2, <1>9 DEF IInv, Fields, Alone
<1>12. \A o \in R : \A c \in Cell : o \in Owners(c) => c \notin freed
  BY <1>3, <1>4, OwnersAreOne
<1>13. Owned'
  <2>1. ASSUME NEW o \in R, obj[o].owns
        PROVE  status'[obj[o].ptr] = "live" /\ above'[obj[o].ptr] = {}
    <3>1. /\ obj[o].ptr \in Cell /\ obj[o].ptr # Nil
          /\ status[obj[o].ptr] = "live" /\ above[obj[o].ptr] = {}
      BY <1>2, <2>1, OwnershipAssumption DEF IInv, Owned, Fields, FieldsOf
    <3>2. obj[o].ptr \notin freed
      BY <1>2, <1>12, <2>1, <3>1 DEF Owners
    <3> QED  BY <1>8, <3>1, <3>2
  <2> HIDE DEF R
  <2> QED  BY <1>9, <2>1 DEF Owned
<1>14. R \subseteq Reached(held)'
  <2>1. \A o \in R : Mark(o) \subseteq R /\ o \in Present' /\ Mark(o)' = Mark(o)
    BY <1>2, <1>9, MarksSame
  <2> QED  BY <1>1, <1>2, <2>1, ReachedStays
<1>15. Reached(held)' \subseteq R
  BY <1>1, <1>2, <1>9 DEF Reached
<1>16. ASSUME NEW o \in R PROVE KeptBy(o)'
  <2>1. KeptBy(o) /\ Leads(o)' = Leads(o) /\ Leads(o) \subseteq Cell
    BY <1>9, MarksSame, ReachedKnows DEF IInv, Kept
  <2>2. ASSUME NEW c \in Leads(o)
        PROVE  status'[c] = "live" /\ Owners(c)' \subseteq Reached(held)'
    <3>1. c \notin freed
      BY <1>3, <1>4, <2>1, <2>2 DEF KeptBy
    <3>2. above'[c] = above[c] /\ status'[c] = "live" /\ Owners(c) \subseteq R
      BY <1>8, <2>1, <2>2, <3>1 DEF KeptBy
    <3>3. Owners(c)' \subseteq Owners(c)
      BY <1>2, <1>9, <3>2 DEF Owners
    <3> QED  BY <1>14, <3>2, <3>3
  <2>3. {obj'[o].xd, obj'[o].xpath} \subseteq R \cup {Nil}
    BY <1>9, ReachedKnows
  <2> QED  BY <1>9, <2>1, <2>2, <2>3 DEF KeptBy
<1>17. Kept'
  BY <1>15, <1>16 DEF Kept
<1> QED  BY <1>7, <1>8, <1>10, <1>11, <1>13, <1>17 DEF IInv

LEMMA DropKeeps ==
  ASSUME IInv, NEW o \in Obj, Drop(o)
  PROVE  IInv'
<1> DEFINE H == held \ {o}
           L == Reached(H)
<1>1. PICK garbage \in SUBSET (Present \ L) :
        /\ \A p \in L : \A c \in Leads(p) :
             Owners(c) # {} => \E w \in Owners(c) : w \in L \/ obj[p].xd = w
        /\ obj' = [p \in Obj |-> IF p \in L \cup garbage THEN obj[p] ELSE NoObject]
  <2> HIDE DEF L
  <2> QED  BY DEF Drop, L, H
<1>2. held' = H /\ UNCHANGED <<status, above, twice>>
  BY DEF Drop
<1>3. /\ held \subseteq Reached(held) /\ Reached(held) \subseteq Present
      /\ \A p \in Reached(held) : Mark(p) \subseteq Reached(held)
  BY ReachedKept DEF IInv
<1>4. H \subseteq L /\ L \subseteq Reached(held) /\ \A p \in L : Mark(p) \subseteq L
  <2>1. L \subseteq Reached(held)
    BY <1>3, ReachedLeast
  <2>2. H \in SUBSET Present /\ \A p \in L : Mark(p) \subseteq Present
    BY <1>3, <2>1
  <2> QED  BY <2>1, <2>2, ReachedClosed
<1> HIDE DEF L
<1>5. /\ Present' = L \cup garbage /\ L \cup garbage \subseteq Present
      /\ \A p \in L \cup garbage : obj'[p] = obj[p]
      /\ obj' \in [Obj -> Object \cup {NoObject}]
  BY <1>1, <1>3, <1>4 DEF Present, IInv, TypeOK
<1>6. TypeOK' /\ ~twice' /\ Forest(above)' /\ Growing'
  BY <1>2, <1>4, <1>5 DEF IInv, TypeOK, Present, Growing
<1>7. Fields' /\ Owned' /\ Alone'
  BY <1>2, <1>5 DEF IInv, Fields, Owned, Alone
<1>8. L \subseteq Reached(held)'
  <2>1. \A p \in L : Mark(p) \subseteq L /\ p \in Present' /\ Mark(p)' = Mark(p)
    BY <1>4, <1>5, MarksSame
  <2> QED  BY <1>2, <1>3, <1>4, <2>1, ReachedStays DEF L
<1>9. Reached(held)' \subseteq L
  <2>1. L \in SUBSET Present' /\ \A p \in L : Mark(p)' \subseteq L
    BY <1>4, <1>5, MarksSame
  <2> QED  BY <1>2, <1>4, <2>1, ReachedLeastNext
<1>10. ASSUME NEW p \in L PROVE KeptBy(p)'
  <2>1. /\ KeptBy(p) /\ p \in Reached(held) /\ Leads(p)' = Leads(p) /\ Leads(p) \subseteq Cell
    BY <1>4, <1>5, MarksSame, ReachedKnows DEF IInv, Kept
  <2>2. {obj[p].xd, obj[p].xpath} \subseteq L \cup {Nil}
    BY <1>3, <1>4, MarkIs DEF IInv
  <2>3. ASSUME NEW c \in Leads(p)
        PROVE  status'[c] = "live" /\ Owners(c)' \subseteq L
    <3>1. Owners(c)' \subseteq Owners(c)
      BY <1>2, <1>5 DEF Owners
    <3>2. Owners(c) \subseteq L
      <4>1. ASSUME NEW v \in Owners(c) PROVE v \in L
        <5>1. PICK w \in Owners(c) : w \in L \/ obj[p].xd = w
          BY <1>1, <2>3, <4>1
        <5>2. w = v
          BY <2>1, <2>3, <4>1, <5>1, OwnersAreOne
        <5>3. v # Nil
          BY <4>1, OwnershipAssumption DEF Owners, Present
        <5> QED  BY <2>2, <5>1, <5>2, <5>3
      <4> QED  BY <4>1
    <3> QED  BY <1>2, <2>1, <2>3, <3>1, <3>2 DEF KeptBy
  <2> QED  BY <1>5, <1>8, <2>1, <2>2, <2>3 DEF KeptBy
<1>11. Kept'
  BY <1>9, <1>10 DEF Kept
<1> QED  BY <1>6, <1>7, <1>11 DEF IInv

(***************************************************************************)
(* The invariant holds                                                     *)
(***************************************************************************)
LEMMA InitIInv ==
  Init => IInv
<1> SUFFICES ASSUME Init PROVE IInv
  OBVIOUS
<1>1. Present = {} /\ held = {}
  BY DEF Init, Present
<1>2. Reached(held) = {}
  BY <1>1 DEF Reached
<1>3. TypeOK
  BY <1>1 DEF Init, TypeOK, Present
<1>4. Forest(above) /\ Growing
  BY DEF Init, Forest, Growing
<1>5. Fields /\ Owned /\ Alone /\ Kept
  BY <1>1, <1>2 DEF Fields, Owned, Alone, Kept
<1> QED  BY <1>3, <1>4, <1>5 DEF IInv, Init

LEMMA StutterKeeps ==
  ASSUME IInv, UNCHANGED vars
  PROVE  IInv'
<1> DEFINE N == {}
<1>1. obj' = obj /\ held' = held /\ UNCHANGED <<status, above, twice>>
  BY DEF vars
<1>2. /\ N \in SUBSET (Obj \ Present) /\ Names(N)
      /\ obj' \in [Obj -> Object \cup {NoObject}]
      /\ \A o \in Obj \ N : obj'[o] = obj[o]
      /\ \A o \in N : obj'[o] \in Object /\ ~obj'[o].owns
      /\ \A o \in N : \A c \in Leads(o)' :
           c \in Cell /\ status[c] = "live" /\ Owners(c) \subseteq Reached(held)
      /\ held \subseteq held' /\ held' \subseteq Reached(held) \cup N
  BY <1>1, HeldIsReached DEF IInv, TypeOK, Names
<1> HIDE DEF N
<1> QED  BY <1>1, <1>2, Finds

LEMMA NextIInv ==
  IInv /\ [QueryNext]_vars => IInv'
<1> SUFFICES ASSUME IInv, [QueryNext]_vars PROVE IInv'
  OBVIOUS
<1>1. CASE DocumentInitialize
  BY <1>1, DocumentInitializeKeeps
<1>2. CASE NodeInitialize
  BY <1>2, NodeInitializeKeeps
<1>3. CASE Collect
  BY <1>3, CollectKeeps
<1>4. ASSUME NEW o \in Obj, NodeCopy(o) PROVE IInv'
  BY <1>4, NodeCopyKeeps
<1>5. ASSUME NEW o \in Obj, DocumentWalk(o) PROVE IInv'
  BY <1>5, DocumentWalkKeeps
<1>6. ASSUME NEW o \in Obj, NodeWalk(o) PROVE IInv'
  BY <1>6, NodeWalkKeeps
<1>7. ASSUME NEW o \in Obj, Namespace(o) PROVE IInv'
  BY <1>7, NamespaceKeeps
<1>8. ASSUME NEW o \in Obj, NodeDoc(o) PROVE IInv'
  BY <1>8, NodeDocKeeps
<1>9. ASSUME NEW o \in Obj, Properties(o) PROVE IInv'
  BY <1>9, PropertiesKeeps
<1>10. ASSUME NEW o \in Obj, AttrChild(o) PROVE IInv'
  BY <1>10, AttrChildKeeps
<1>11. ASSUME NEW o \in Obj, AttrParent(o) PROVE IInv'
  BY <1>11, AttrParentKeeps
<1>12. ASSUME NEW o \in Obj, AttrNs(o) PROVE IInv'
  BY <1>12, AttrNsKeeps
<1>13. ASSUME NEW o \in Obj, Remove(o) PROVE IInv'
  BY <1>13, RemoveKeeps
<1>14. ASSUME NEW o \in Obj, Empty(o) PROVE IInv'
  BY <1>14, EmptyKeeps
<1>15. ASSUME NEW o \in Obj, PropertySet(o) PROVE IInv'
  BY <1>15, PropertySetKeeps
<1>16. ASSUME NEW o \in Obj, Drop(o) PROVE IInv'
  BY <1>16, DropKeeps
<1>17. ASSUME NEW p \in Obj, NEW n \in Obj, ChildSet(p, n) PROVE IInv'
  BY <1>17, ChildSetKeeps
<1>18. ASSUME NEW p \in Obj, NEW n \in Obj, SiblingSet(p, n) PROVE IInv'
  BY <1>18, SiblingSetKeeps
<1>19. ASSUME NEW p \in Obj, NEW n \in Obj, RootSet(p, n) PROVE IInv'
  BY <1>19, RootSetKeeps
<1>20. CASE Next
  BY <1>1, <1>2, <1>3, <1>4, <1>5, <1>6, <1>7, <1>8, <1>9, <1>10, <1>11, <1>12, <1>13,
     <1>14, <1>15, <1>16, <1>17, <1>18, <1>19, <1>20 DEF Next
<1>21. ASSUME NEW o \in Obj, Find(o) PROVE IInv'
  BY <1>21, FindKeeps
<1>22. ASSUME NEW o \in Obj, SetFirst(o) PROVE IInv'
  BY <1>22, SetFirstKeeps
<1>23. ASSUME NEW o \in Obj, SetToA(o) PROVE IInv'
  BY <1>23, SetToAKeeps
<1>24. ASSUME NEW o \in Obj, SetXPath(o) PROVE IInv'
  BY <1>24, SetXPathKeeps
<1>25. ASSUME NEW o \in Obj, XPathSet(o) PROVE IInv'
  BY <1>25, XPathSetKeeps
<1>26. CASE UNCHANGED vars
  BY <1>26, StutterKeeps
<1> QED
  BY <1>20, <1>21, <1>22, <1>23, <1>24, <1>25, <1>26 DEF QueryNext

LEMMA QueriesIInv == QuerySpec => []IInv
BY InitIInv, NextIInv, PTL DEF QuerySpec

\* What makes no queries is a behaviour of what may.
LEMMA SpecIsQuerySpec == Spec => QuerySpec
<1>1. [Next]_vars => [QueryNext]_vars
  BY DEF QueryNext
<1> QED  BY <1>1, PTL DEF Spec, QuerySpec

(***************************************************************************)
(* Theorems                                                                *)
(***************************************************************************)
LEMMA IInvOneOwner == IInv => OneOwner
<1> SUFFICES ASSUME IInv PROVE OneOwner
  OBVIOUS
<1>1. ASSUME NEW o \in Present, obj[o].owns
      PROVE  status[obj[o].ptr] = "live" /\ above[obj[o].ptr] = {}
  BY <1>1 DEF IInv, Owned
<1>2. ASSUME NEW c \in Cell PROVE Cardinality(Owners(c)) <= 1
  <2>1. CASE Owners(c) = {}
    BY <2>1, FS_EmptySet
  <2>2. ASSUME NEW w \in Owners(c) PROVE Cardinality(Owners(c)) = 1
    <3>1. Owners(c) = {w}
      BY <2>2, OwnersAreOne
    <3> QED  BY <3>1, FS_Singleton
  <2> QED  BY <2>1, <2>2
<1> QED  BY <1>1, <1>2 DEF OneOwner

LEMMA IInvHeldAlive == IInv => HeldAlive
BY DEF IInv, Kept, KeptBy, HeldAlive

\* As long as the program keeps the four rules of XmlOwnership, of which the
\* last bars attr.doc, next and prev, a cell has at most one owner, and owners
\* own tops of trees that are there, whatever it links, copies and asks for.
THEOREM OwnedOnce == QuerySpec => []OneOwner
BY QueriesIInv, IInvOneOwner, PTL

\* For such a program, in whatever order and whenever the collector takes the
\* objects, no free function frees what is free.
THEOREM NeverFreedTwice == QuerySpec => []FreedOnce
<1>1. IInv => FreedOnce
  BY DEF IInv, FreedOnce
<1> QED  BY <1>1, QueriesIInv, PTL

\* What such a program can reach is never freed under it, the element to which
\* a copied attribute points as its parent included.
THEOREM ReachedIsAlive == QuerySpec => []HeldAlive
BY QueriesIInv, IInvHeldAlive, PTL

\* The same of a program that makes no queries.
COROLLARY OwnedOnceWithoutQueries == Spec => []OneOwner
BY OwnedOnce, SpecIsQuerySpec, PTL

COROLLARY NeverFreedTwiceWithoutQueries == Spec => []FreedOnce
BY NeverFreedTwice, SpecIsQuerySpec, PTL

COROLLARY ReachedIsAliveWithoutQueries == Spec => []HeldAlive
BY ReachedIsAlive, SpecIsQuerySpec, PTL
=============================================================================
