--------------------------- MODULE XmlTree_proofs ---------------------------
(***************************************************************************)
(* For all numbers of documents and nodes: the methods of XML::Node,       *)
(* XML::Document and XML::Attr keep the links of trees well, and what they *)
(* answer and where they lead agrees with the links.                       *)
(*                                                                         *)
(* The methods compose libxml2's functions on links, so the proof is about *)
(* those functions, on any tree t: each of them keeps Well(t), which is    *)
(* TypeOK and WellLinked and what they do not say: a document is in no     *)
(* tree but its own, attributes hang on elements and apart from content,   *)
(* and what is below a node names the same document.                       *)
(***************************************************************************)
EXTENDS XmlTree, FiniteSetTheorems, TLAPS

-----------------------------------------------------------------------------
(***************************************************************************)
(* Well-linked trees                                                       *)
(***************************************************************************)
Typed(t) == t \in [Cell -> CellState]

Used(t, n) == t[n].kind # "free"
IsAttr(t, n) == t[n].kind = "attribute"

\* The kinds that a node may be of, and those that may have something below.
NodeKind == Kind \ (Document \cup {"fragment", "namespace"})
ParentKind == {"element", "document", "attribute"}

\* A cell is free and blank, or of a kind that fits it.  Only attributes have names,
\* and a document stands alone.
Sorted(t) ==
  \A n \in Cell :
    /\ ~Used(t, n) => t[n] = Unused
    /\ n \in Node /\ Used(t, n) => t[n].kind \in NodeKind
    /\ n \in Doc => /\ t[n].up = Nil /\ t[n].next = Nil /\ t[n].prev = Nil /\ t[n].props = Nil
                    /\ Used(t, n) => t[n].kind = "document" /\ t[n].doc = n
    /\ (t[n].name # "none") = IsAttr(t, n)

\* Nothing freed is linked.
Inside(t) ==
  \A n \in Cell :
    /\ t[n].up # Nil => Used(t, t[n].up)
    /\ t[n].first # Nil => Used(t, t[n].first)
    /\ t[n].last # Nil => Used(t, t[n].last)
    /\ t[n].next # Nil => Used(t, t[n].next)
    /\ t[n].prev # Nil => Used(t, t[n].prev)
    /\ t[n].props # Nil => Used(t, t[n].props)

\* Neighbours are chained both ways, below the same parent, attributes apart.
Chained(t) ==
  \A n \in Cell :
    /\ t[n].next # Nil => /\ t[t[n].next].prev = n
                          /\ t[t[n].next].up = t[n].up
                          /\ IsAttr(t, t[n].next) = IsAttr(t, n)
    /\ t[n].prev # Nil => t[t[n].prev].next = n

\* What a node has for its first, its last and its first attribute is at an end
\* of what is below it.
Ended(t) ==
  \A n \in Cell :
    /\ t[n].first # Nil => /\ t[t[n].first].up = n /\ t[t[n].first].prev = Nil
                           /\ ~IsAttr(t, t[n].first)
    /\ t[n].last # Nil => /\ t[t[n].last].up = n /\ t[t[n].last].next = Nil
                          /\ ~IsAttr(t, t[n].last)
    /\ t[n].props # Nil => /\ t[t[n].props].up = n /\ t[t[n].props].prev = Nil
                           /\ IsAttr(t, t[n].props)

\* And what is at an end is what its parent has there; it is in the document of
\* its parent.
Placed(t) ==
  \A n \in Cell : t[n].up # Nil =>
    /\ t[n].prev = Nil => IF IsAttr(t, n) THEN t[t[n].up].props = n ELSE t[t[n].up].first = n
    /\ t[n].next = Nil /\ ~IsAttr(t, n) => t[t[n].up].last = n
    /\ t[t[n].up].kind \in ParentKind /\ (IsAttr(t, n) => t[t[n].up].kind = "element")
    /\ t[n].doc = t[t[n].up].doc

\* No element has an attribute twice.
Named(t) ==
  \A a, b \in Cell :
    /\ IsAttr(t, a) /\ IsAttr(t, b) /\ t[a].up # Nil /\ t[a].up = t[b].up
    /\ t[a].name = t[b].name
    => a = b

\* No walk up or along comes round.
UpEnds(t)   == \A S \in SUBSET Cell : S # {} => \E n \in S : t[n].up \notin S
NextEnds(t) == \A S \in SUBSET Cell : S # {} => \E n \in S : t[n].next \notin S

Linked(t) == Inside(t) /\ Chained(t) /\ Ended(t) /\ Placed(t)

Well(t) == Typed(t) /\ Sorted(t) /\ Linked(t) /\ Named(t) /\ UpEnds(t) /\ NextEnds(t)

\* The types of the links, one by one.
LEMMA Types ==
  ASSUME NEW t, Typed(t)
  PROVE  /\ DOMAIN t = Cell
         /\ \A n \in Cell :
              /\ t[n] \in CellState /\ t[n].up \in Cell \cup {Nil} /\ t[n].doc \in Doc \cup {Nil}
              /\ t[n].first \in Node \cup {Nil} /\ t[n].last \in Node \cup {Nil}
              /\ t[n].next \in Node \cup {Nil} /\ t[n].prev \in Node \cup {Nil}
              /\ t[n].props \in Node \cup {Nil}
BY DEF Typed, CellState

\* Cells are documents or nodes, and NULL is neither.
LEMMA Cells == Cell = Doc \cup Node /\ Doc \cap Node = {} /\ Nil \notin Cell
BY TreeAssumption DEF Cell

-----------------------------------------------------------------------------
(***************************************************************************)
(* Walks                                                                   *)
(***************************************************************************)
\* A link of each cell
Links == [Cell -> Cell \cup {Nil}]

\* No walk along l comes round.
Ends(l) == \A S \in SUBSET Cell : S # {} => \E n \in S : l[n] \notin S

\* A walk along l does not leave A before it ends.
Within(l, A) == \A m \in A : l[m] \in A \cup {Nil}

\* What a walk along l from n meets
Reach(l, n) ==
  {x \in Cell : n # Nil /\ \A A \in SUBSET Cell : n \in A /\ Within(l, A) => x \in A}

LEMMA ReachFacts ==
  ASSUME NEW l \in Links, NEW n \in Cell
  PROVE  /\ n \in Reach(l, n) /\ Reach(l, n) \in SUBSET Cell
         /\ Within(l, Reach(l, n))
         /\ \A A \in SUBSET Cell : n \in A /\ Within(l, A) => Reach(l, n) \subseteq A
<1>1. n # Nil
  BY Cells
<1>2. n \in Reach(l, n) /\ Reach(l, n) \in SUBSET Cell
  BY <1>1 DEF Reach
<1>3. \A A \in SUBSET Cell : n \in A /\ Within(l, A) => Reach(l, n) \subseteq A
  BY DEF Reach
<1>4. ASSUME NEW m \in Reach(l, n)
      PROVE  l[m] \in Reach(l, n) \cup {Nil}
  <2>1. m \in Cell /\ l[m] \in Cell \cup {Nil}
    BY <1>2 DEF Links
  <2>2. ASSUME NEW A \in SUBSET Cell, n \in A, Within(l, A), l[m] # Nil
        PROVE  l[m] \in A
    BY <1>3, <2>2 DEF Within
  <2> QED
    BY <1>1, <2>1, <2>2 DEF Reach
<1> QED
  BY <1>2, <1>3, <1>4 DEF Within

\* One step of a walk
LEMMA ReachStep ==
  ASSUME NEW l \in Links, NEW n \in Cell
  PROVE  Reach(l, n) = {n} \cup Reach(l, l[n])
<1>1. l[n] \in Cell \cup {Nil}
  BY DEF Links
<1>2. CASE l[n] = Nil
  <2>1. Reach(l, l[n]) = {}
    BY <1>2 DEF Reach
  <2>2. Within(l, {n})
    BY <1>2 DEF Within
  <2> QED
    BY <2>1, <2>2, ReachFacts
<1>3. CASE l[n] \in Cell
  <2> DEFINE A == {n} \cup Reach(l, l[n])
  <2>1. /\ l[n] \in Reach(l, l[n]) /\ Reach(l, l[n]) \in SUBSET Cell
        /\ Within(l, Reach(l, l[n]))
    BY <1>3, ReachFacts
  <2>2. A \in SUBSET Cell /\ n \in A /\ Within(l, A)
    BY <2>1 DEF Within
  <2>3. Reach(l, n) \subseteq A
    BY <2>2, ReachFacts
  <2>4. n \in Reach(l, n) /\ Reach(l, n) \in SUBSET Cell /\ Within(l, Reach(l, n))
    BY ReachFacts
  <2>5. l[n] \in Reach(l, n)
    BY <1>3, <2>4, Cells DEF Within
  <2>6. Reach(l, l[n]) \subseteq Reach(l, n)
    BY <1>3, <2>4, <2>5, ReachFacts
  <2> QED
    BY <2>3, <2>4, <2>6
<1> QED
  BY <1>1, <1>2, <1>3

\* Two functions agree that go on in the same way along a walk that ends.
LEMMA Agree ==
  ASSUME NEW l \in Links, Ends(l), NEW g, NEW h, g[Nil] = h[Nil],
         \A m \in Cell : g[l[m]] = h[l[m]] => g[m] = h[m]
  PROVE  \A m \in Cell : g[m] = h[m]
<1> DEFINE S == {m \in Cell : g[m] # h[m]}
<1> SUFFICES ASSUME S # {} PROVE FALSE
  OBVIOUS
<1>1. S \in SUBSET Cell
  OBVIOUS
<1>2. PICK m \in S : l[m] \notin S
  <2> HIDE DEF S
  <2> QED
    BY <1>1 DEF Ends
<1>3. m \in Cell /\ g[m] # h[m] /\ l[m] \in Cell \cup {Nil}
  BY DEF Links
<1>4. g[l[m]] = h[l[m]]
  BY <1>2, <1>3
<1> QED
  BY <1>3, <1>4

\* A function on cells and NULL that collects what it meets along l.
LEMMA Collects ==
  ASSUME NEW l \in Links, Ends(l), NEW h
  PROVE  (h = [m \in Cell \cup {Nil} |-> IF m = Nil THEN {} ELSE {m} \cup h[l[m]]])
         <=> h = [m \in Cell \cup {Nil} |-> Reach(l, m)]
<1> DEFINE g == [m \in Cell \cup {Nil} |-> Reach(l, m)]
<1>1. g[Nil] = {} /\ \A m \in Cell : g[m] = Reach(l, m)
  BY DEF Reach
<1>2. \A m \in Cell : l[m] \in Cell \cup {Nil}
  BY DEF Links
<1>3. \A m \in Cell : g[m] = {m} \cup g[l[m]]
  BY <1>1, <1>2, ReachStep
<1>4. g = [m \in Cell \cup {Nil} |-> IF m = Nil THEN {} ELSE {m} \cup g[l[m]]]
  <2> HIDE DEF g
  <2>1. g = [m \in Cell \cup {Nil} |-> g[m]]
    BY DEF g
  <2> QED
    BY <1>1, <1>3, <2>1, Cells
<1>5. ASSUME h = [m \in Cell \cup {Nil} |-> IF m = Nil THEN {} ELSE {m} \cup h[l[m]]]
      PROVE  h = g
  <2>1. DOMAIN h = Cell \cup {Nil} /\ h[Nil] = {} /\ \A m \in Cell : h[m] = {m} \cup h[l[m]]
    <3>1. \A m \in Cell \cup {Nil} : h[m] = IF m = Nil THEN {} ELSE {m} \cup h[l[m]]
      BY <1>5
    <3>2. DOMAIN h = Cell \cup {Nil}
      BY <1>5
    <3> QED
      BY <3>1, <3>2, Cells
  <2> HIDE DEF g
  <2>2. \A m \in Cell : h[m] = g[m]
    <3>1. h[Nil] = g[Nil] /\ \A m \in Cell : h[l[m]] = g[l[m]] => h[m] = g[m]
      BY <1>1, <1>3, <2>1
    <3> QED
      BY <3>1, Agree
  <2>3. h = [m \in Cell \cup {Nil} |-> h[m]] /\ g = [m \in Cell \cup {Nil} |-> g[m]]
    BY <1>5 DEF g
  <2> QED
    BY <1>1, <2>1, <2>2, <2>3
<1> QED
  BY <1>4, <1>5

UpLink(t)   == [m \in Cell |-> t[m].up]
NextLink(t) == [m \in Cell |-> t[m].next]
PrevLink(t) == [m \in Cell |-> t[m].prev]

\* These are links, and end.
LEMMA LinkTypes ==
  ASSUME NEW t, Typed(t)
  PROVE  /\ UpLink(t) \in Links /\ NextLink(t) \in Links /\ PrevLink(t) \in Links
         /\ UpEnds(t) => Ends(UpLink(t))
         /\ NextEnds(t) => Ends(NextLink(t))
<1>1. /\ \A m \in Cell : t[m].up \in Cell \cup {Nil}
      /\ \A m \in Cell : t[m].next \in Cell \cup {Nil}
      /\ \A m \in Cell : t[m].prev \in Cell \cup {Nil}
  BY Types, Cells
<1>2. UpLink(t) \in Links /\ NextLink(t) \in Links /\ PrevLink(t) \in Links
  BY <1>1 DEF UpLink, NextLink, PrevLink, Links
<1>3. /\ \A m \in Cell : UpLink(t)[m] = t[m].up
      /\ \A m \in Cell : NextLink(t)[m] = t[m].next
  BY DEF UpLink, NextLink
<1> QED
  BY <1>2, <1>3 DEF Ends, UpEnds, NextEnds

\* What is chained both ways ends both ways: among cells that all have one before
\* them in a finite set, all have one behind them, too.
LEMMA PrevLinkEnds ==
  ASSUME NEW t, Typed(t), Chained(t), NextEnds(t)
  PROVE  Ends(PrevLink(t))
<1> SUFFICES ASSUME NEW S \in SUBSET Cell, S # {}, \A n \in S : t[n].prev \in S
             PROVE  FALSE
  BY DEF Ends, PrevLink
<1> DEFINE f == [n \in S |-> t[n].prev]
<1>1. f \in [S -> S]
  OBVIOUS
<1>2. \A m, n \in S : f[m] = f[n] => m = n
  BY Cells DEF Chained
<1>3. IsFiniteSet(S)
  BY TreeAssumption, FS_Subset
<1>4. f \in Surjection(S, S)
  <2>1. f \in Injection(S, S)
    BY <1>1, <1>2 DEF Injection, IsInjective
  <2> QED
    BY <1>3, <2>1, FS_Injection
<1>5. \A n \in S : \E m \in S : f[m] = n
  BY <1>4 DEF Surjection
<1>6. \A n \in S : t[n].next \in S
  BY <1>5, Cells DEF Chained
<1> QED
  BY <1>6 DEF NextEnds

\* Upwards is the walk along up.
LEMMA UpwardsIs ==
  ASSUME NEW t, Typed(t), UpEnds(t), NEW n \in Cell \cup {Nil}
  PROVE  Upwards(t, n) = Reach(UpLink(t), n)
<1> DEFINE l == UpLink(t)
<1>1. l \in Links /\ Ends(l) /\ \A m \in Cell : l[m] = t[m].up
  BY LinkTypes DEF UpLink
<1>2. ASSUME NEW h
      PROVE  (h = [m \in Cell \cup {Nil} |-> IF m = Nil THEN {} ELSE {m} \cup h[t[m].up]])
             <=> h = [m \in Cell \cup {Nil} |-> Reach(l, m)]
  <2>1. [m \in Cell \cup {Nil} |-> IF m = Nil THEN {} ELSE {m} \cup h[t[m].up]]
          = [m \in Cell \cup {Nil} |-> IF m = Nil THEN {} ELSE {m} \cup h[l[m]]]
    BY <1>1
  <2> QED
    BY <1>1, <2>1, Collects
<1> HIDE DEF l
<1> DEFINE g == [m \in Cell \cup {Nil} |-> Reach(l, m)]
<1>3. g[n] = Reach(l, n)
  OBVIOUS
<1> HIDE DEF g
<1>4. Upwards(t, n) = g[n]
  BY <1>2, Zenon DEF Upwards, g
<1> QED
  BY <1>3, <1>4 DEF l

\* n is Upwards of n, with its parent and whatever is Upwards of that; no set
\* that no parent is outside of has less; and what is above n is not below it.
LEMMA UpwardsFacts ==
  ASSUME NEW t, Typed(t), UpEnds(t), NEW n \in Cell
  PROVE  /\ n \in Upwards(t, n) /\ Upwards(t, n) \in SUBSET Cell
         /\ \A m \in Upwards(t, n) : t[m].up \in Upwards(t, n) \cup {Nil}
         /\ \A A \in SUBSET Cell :
              n \in A /\ (\A m \in A : t[m].up \in A \cup {Nil}) => Upwards(t, n) \subseteq A
         /\ Upwards(t, n) = {n} \cup Upwards(t, t[n].up)
         /\ Upwards(t, Nil) = {}
         /\ n \notin Upwards(t, t[n].up)
<1> DEFINE l == UpLink(t)
<1>1. l \in Links /\ Ends(l) /\ \A m \in Cell : l[m] = t[m].up
  BY LinkTypes DEF UpLink
<1>2. /\ Upwards(t, n) = Reach(l, n) /\ Upwards(t, Nil) = {}
      /\ Upwards(t, t[n].up) = Reach(l, l[n])
  <2>1. Reach(l, Nil) = {}
    BY DEF Reach
  <2>2. t[n].up \in Cell \cup {Nil}
    BY Types
  <2> QED
    BY <1>1, <2>1, <2>2, UpwardsIs
<1> HIDE DEF l
<1>3. /\ n \in Reach(l, n) /\ Reach(l, n) \in SUBSET Cell
      /\ Within(l, Reach(l, n))
      /\ \A A \in SUBSET Cell : n \in A /\ Within(l, A) => Reach(l, n) \subseteq A
  BY <1>1, ReachFacts
<1>4. Reach(l, n) = {n} \cup Reach(l, l[n])
  BY <1>1, ReachStep
<1>5. n \notin Reach(l, l[n])
  <2> SUFFICES ASSUME n \in Reach(l, l[n]) PROVE FALSE
    OBVIOUS
  <2>1. l[n] \in Cell
    BY <1>1 DEF Reach, Links
  <2>2. Reach(l, l[n]) = Reach(l, n)
    BY <1>4
  <2>3. \A m \in Reach(l, n) : l[m] # Nil
    <3> DEFINE B == {m \in Reach(l, n) : n \in Reach(l, l[m])}
    <3>1. n \in B /\ B \in SUBSET Cell
      BY <1>3
    <3>2. Within(l, B)
      <4> SUFFICES ASSUME NEW m \in B, l[m] # Nil PROVE l[m] \in B
        BY DEF Within
      <4>1. m \in Cell /\ l[m] \in Cell /\ l[m] \in Reach(l, n)
        BY <1>1, <1>3 DEF Links, Within
      <4>2. Reach(l, l[m]) = {l[m]} \cup Reach(l, l[l[m]])
        BY <1>1, <4>1, ReachStep
      <4>3. CASE l[m] = n
        BY <4>1, <4>3
      <4>4. CASE l[m] # n
        BY <4>1, <4>2, <4>4
      <4> QED
        BY <4>3, <4>4
    <3>3. Reach(l, n) \subseteq B
      BY <1>3, <3>1, <3>2
    <3>4. \A m \in B : l[m] # Nil
      BY DEF Reach
    <3> QED
      BY <3>3, <3>4
  <2>4. \A m \in Reach(l, n) : l[m] \in Reach(l, n)
    BY <1>3, <2>3 DEF Within
  <2> QED
    BY <1>1, <1>3, <2>4 DEF Ends
<1>6. /\ \A m \in Reach(l, n) : t[m].up \in Reach(l, n) \cup {Nil}
      /\ \A A \in SUBSET Cell :
           n \in A /\ (\A m \in A : t[m].up \in A \cup {Nil}) => Reach(l, n) \subseteq A
  BY <1>1, <1>3 DEF Within
<1> QED
  BY <1>2, <1>3, <1>4, <1>5, <1>6

-----------------------------------------------------------------------------
(***************************************************************************)
(* New cells                                                               *)
(***************************************************************************)
\* Nothing leads to a free cell.
LEMMA FreeIsLoose ==
  ASSUME NEW t, Typed(t), Sorted(t), Linked(t), NEW n \in Cell, ~Used(t, n)
  PROVE  /\ t[n] = Unused
         /\ t[n].up = Nil /\ t[n].first = Nil /\ t[n].last = Nil /\ t[n].next = Nil
         /\ t[n].prev = Nil /\ t[n].props = Nil
         /\ \A m \in Cell : /\ t[m].up # n /\ t[m].first # n /\ t[m].last # n
                            /\ t[m].next # n /\ t[m].prev # n /\ t[m].props # n
<1>1. t[n] = Unused
  BY DEF Sorted
<1>2. n # Nil
  BY Cells
<1> QED
  BY <1>1, <1>2 DEF Linked, Inside, Unused, Fresh

\* Walks end if they end where they went before, or at once.
LEMMA Shortened ==
  ASSUME NEW t, NEW u, Typed(t)
  PROVE  /\ UpEnds(t) /\ (\A m \in Cell : u[m].up \in {t[m].up, Nil}) => UpEnds(u)
         /\ NextEnds(t) /\ (\A m \in Cell : u[m].next \in {t[m].next, Nil}) => NextEnds(u)
BY Cells DEF UpEnds, NextEnds

\* A new cell is not linked: a node of a kind, or a document.
LEMMA Born ==
  ASSUME NEW t, Well(t), NEW n \in Cell, ~Used(t, n), NEW u, Typed(u),
         \A m \in Cell \ {n} : u[m] = t[m],
         Used(u, n), n \in Node => u[n].kind \in NodeKind,
         n \in Doc => u[n].kind = "document" /\ u[n].doc = n,
         u[n].name # "none" <=> IsAttr(u, n),
         u[n].up = Nil, u[n].first = Nil, u[n].last = Nil, u[n].next = Nil, u[n].prev = Nil,
         u[n].props = Nil
  PROVE  Well(u)
<1>1. /\ Typed(t) /\ Sorted(t) /\ Linked(t) /\ Named(t) /\ UpEnds(t) /\ NextEnds(t)
      /\ Inside(t) /\ Chained(t) /\ Ended(t) /\ Placed(t)
  BY DEF Well, Linked
<1>2. \A m \in Cell \ {n} : u[m] = t[m]
  OBVIOUS
<1>3. \A m \in Cell : /\ t[m].up # n /\ t[m].first # n /\ t[m].last # n
                      /\ t[m].next # n /\ t[m].prev # n /\ t[m].props # n
  BY <1>1, FreeIsLoose
<1>4. \A m \in Cell : /\ t[m].up \in (Cell \ {n}) \cup {Nil}
                      /\ t[m].first \in (Cell \ {n}) \cup {Nil}
                      /\ t[m].last \in (Cell \ {n}) \cup {Nil}
                      /\ t[m].next \in (Cell \ {n}) \cup {Nil}
                      /\ t[m].prev \in (Cell \ {n}) \cup {Nil}
                      /\ t[m].props \in (Cell \ {n}) \cup {Nil}
  BY <1>1, <1>3, Types, Cells
<1>5. Typed(u)
  OBVIOUS
<1>6. Sorted(u)
  BY <1>1, <1>2, Cells DEF Sorted, Used, IsAttr
<1>7. Inside(u)
  BY <1>1, <1>2, <1>4 DEF Inside, Used
<1>8. Chained(u)
  BY <1>1, <1>2, <1>4 DEF Chained, IsAttr
<1>9. Ended(u)
  BY <1>1, <1>2, <1>4 DEF Ended, IsAttr
<1>10. Placed(u)
  BY <1>1, <1>2, <1>4 DEF Placed, IsAttr
<1>11. Named(u)
  BY <1>1, <1>2 DEF Named, IsAttr
<1>12. UpEnds(u) /\ NextEnds(u)
  BY <1>1, <1>2, Shortened
<1> QED
  BY <1>5, <1>6, <1>7, <1>8, <1>9, <1>10, <1>11, <1>12 DEF Well, Linked

\* Fresh cells are of that sort.
LEMMA FreshIs ==
  ASSUME NEW k \in Kind \cup {"free"}, NEW name \in AttrName \cup {"xml:base", "xml:lang", "none"}
  PROVE  LET r == Fresh(k, name)
         IN  /\ r \in CellState /\ r.kind = k /\ r.name = name
             /\ r.up = Nil /\ r.first = Nil /\ r.last = Nil /\ r.next = Nil /\ r.prev = Nil
             /\ r.props = Nil /\ r.doc = Nil
BY DEF Fresh, CellState

LEMMA FreshDocumentIs ==
  ASSUME NEW d \in Doc
  PROVE  LET r == FreshDocument(d)
         IN  /\ r \in CellState /\ r.kind = "document" /\ r.name = "none"
             /\ r.up = Nil /\ r.first = Nil /\ r.last = Nil /\ r.next = Nil /\ r.prev = Nil
             /\ r.props = Nil /\ r.doc = d
BY DEF FreshDocument, Fresh, CellState, Kind

-----------------------------------------------------------------------------
(***************************************************************************)
(* xmlSetTreeDoc, xmlFreeNode                                              *)
(***************************************************************************)
\* What is above what in the tree of n
LEMMA SubtreeFacts ==
  ASSUME NEW t, Well(t), NEW n \in Cell
  PROVE  /\ n \in Subtree(t, n) /\ Subtree(t, n) \in SUBSET Cell
         /\ \A m \in Cell : t[m].up \in Subtree(t, n) => m \in Subtree(t, n)
         /\ \A m \in Subtree(t, n) \ {n} : t[m].up \in Subtree(t, n)
         /\ t[n].up \notin Subtree(t, n)
         /\ n \in Node => Subtree(t, n) \subseteq Node
<1>1. Typed(t) /\ UpEnds(t) /\ Sorted(t) /\ Nil \notin Cell
  BY Cells DEF Well
<1>2. \A m \in Cell : /\ m \in Upwards(t, m) /\ Upwards(t, m) \in SUBSET Cell
                      /\ Upwards(t, m) = {m} \cup Upwards(t, t[m].up)
                      /\ m \notin Upwards(t, t[m].up)
                      /\ t[m].up \in Cell \cup {Nil}
  BY <1>1, UpwardsFacts, Types
<1>3. Upwards(t, Nil) = {}
  BY <1>1, UpwardsFacts
<1>4. ASSUME NEW m \in Subtree(t, n), m # n
      PROVE  t[m].up \in Subtree(t, n)
  BY <1>2, <1>3, <1>4 DEF Subtree
<1>5. \A m \in Doc : t[m].up = Nil
  BY <1>1, Cells DEF Sorted
<1>6. ASSUME n \in Node, NEW m \in Subtree(t, n)
      PROVE  m \in Node
  <2>1. m \in Doc => m = n
    BY <1>1, <1>4, <1>5 DEF Subtree
  <2> QED
    BY <1>6, <2>1, Cells DEF Subtree
<1> QED
  BY <1>1, <1>2, <1>4, <1>6 DEF Subtree

\* xmlSetTreeDoc changes doc, of a tree as a whole.
LEMMA SetTreeDocIs ==
  ASSUME NEW t, Typed(t), NEW n \in Cell, NEW d \in Doc \cup {Nil}, NEW u, u = SetTreeDoc(t, n, d)
  PROVE  /\ Typed(u)
         /\ \A m \in Cell :
              /\ u[m].kind = t[m].kind /\ u[m].name = t[m].name /\ u[m].up = t[m].up
              /\ u[m].first = t[m].first /\ u[m].last = t[m].last
              /\ u[m].next = t[m].next /\ u[m].prev = t[m].prev /\ u[m].props = t[m].props
              /\ u[m].doc = IF m \in Subtree(t, n) THEN d ELSE t[m].doc
              /\ m \notin Subtree(t, n) => u[m] = t[m]
<1>1. ASSUME NEW m \in Cell
      PROVE  /\ u[m].kind = t[m].kind /\ u[m].name = t[m].name /\ u[m].up = t[m].up
             /\ u[m].first = t[m].first /\ u[m].last = t[m].last
             /\ u[m].next = t[m].next /\ u[m].prev = t[m].prev /\ u[m].props = t[m].props
             /\ u[m].doc = IF m \in Subtree(t, n) THEN d ELSE t[m].doc
             /\ m \notin Subtree(t, n) => u[m] = t[m]
             /\ u[m] \in CellState
  <2>1. t[m] \in CellState
    BY DEF Typed
  <2>2. u[m] = IF m \in Subtree(t, n) THEN [t[m] EXCEPT !.doc = d] ELSE t[m]
    BY DEF SetTreeDoc
  <2> QED
    BY <2>1, <2>2 DEF CellState
<1>2. u = [m \in Cell |-> u[m]]
  BY DEF SetTreeDoc
<1> QED
  BY <1>1, <1>2 DEF Typed

LEMMA SetTreeDocKeeps ==
  ASSUME NEW t, Well(t), NEW n \in Node, t[n].up = Nil, Used(t, n), NEW d \in Doc \cup {Nil},
         NEW u, u = SetTreeDoc(t, n, d)
  PROVE  Well(u)
<1>1. /\ Typed(t) /\ Sorted(t) /\ Linked(t) /\ Named(t) /\ UpEnds(t) /\ NextEnds(t)
      /\ Inside(t) /\ Chained(t) /\ Ended(t) /\ Placed(t)
  BY DEF Well, Linked
<1> DEFINE S == Subtree(t, n)
<1>2. /\ Typed(u)
      /\ \A m \in Cell :
           /\ u[m].kind = t[m].kind /\ u[m].name = t[m].name /\ u[m].up = t[m].up
           /\ u[m].first = t[m].first /\ u[m].last = t[m].last
           /\ u[m].next = t[m].next /\ u[m].prev = t[m].prev /\ u[m].props = t[m].props
           /\ u[m].doc = IF m \in S THEN d ELSE t[m].doc
           /\ m \notin S => u[m] = t[m]
  <2>1. n \in Cell
    BY Cells
  <2> QED
    BY <1>1, <2>1, SetTreeDocIs
<1>3. /\ n \in S /\ S \subseteq Node
      /\ \A m \in Cell : t[m].up \in S => m \in S
      /\ \A m \in S \ {n} : t[m].up \in S
  BY SubtreeFacts, Cells
<1> HIDE DEF S
<1>4. \A m \in S : Used(t, m)
  BY <1>1, <1>3, Cells DEF Sorted, Used, Unused, Fresh
<1>5. Sorted(u)
  BY <1>1, <1>2, <1>3, <1>4, Cells DEF Sorted, Used, IsAttr
<1>6. \A m \in Cell :
        /\ t[m].up \in Cell \cup {Nil} /\ t[m].first \in Cell \cup {Nil}
        /\ t[m].last \in Cell \cup {Nil} /\ t[m].next \in Cell \cup {Nil}
        /\ t[m].prev \in Cell \cup {Nil} /\ t[m].props \in Cell \cup {Nil}
  BY <1>1, Types, Cells
<1>7. Inside(u)
  BY <1>1, <1>2, <1>6 DEF Inside, Used
<1>8. Chained(u)
  BY <1>1, <1>2, <1>6 DEF Chained, IsAttr
<1>9. Ended(u)
  BY <1>1, <1>2, <1>6 DEF Ended, IsAttr
<1>10. Placed(u)
  BY <1>1, <1>2, <1>3, <1>6 DEF Placed, IsAttr
<1>11. Named(u)
  BY <1>1, <1>2 DEF Named, IsAttr
<1>12. UpEnds(u) /\ NextEnds(u)
  BY <1>1, <1>2, Shortened
<1> QED
  BY <1>2, <1>5, <1>7, <1>8, <1>9, <1>10, <1>11, <1>12 DEF Well, Linked

\* xmlFreeNode frees a tree as a whole.
LEMMA FreeNodeIs ==
  ASSUME NEW t, Well(t), NEW n \in Node, t[n].up = Nil, NEW u, u = FreeNode(t, n)
  PROVE  /\ Typed(u) /\ Subtree(t, n) \subseteq Node
         /\ \A m \in Cell : u[m] = IF m \in Subtree(t, n) THEN Unused ELSE t[m]
<1>1. Typed(t) /\ n \in Cell
  BY Cells DEF Well
<1>2. Subtree(t, n) \subseteq Node
  BY <1>1, SubtreeFacts
<1>3. Unused \in CellState
  BY FreshIs DEF Unused
<1>4. u = [m \in Cell |-> IF m \in Subtree(t, n) THEN Unused ELSE t[m]]
  BY DEF FreeNode
<1> QED
  BY <1>1, <1>2, <1>3, <1>4 DEF Typed

\* A set of nodes may be freed if nothing leads from the others into it.
LEMMA Freed ==
  ASSUME NEW t, Well(t), NEW G \in SUBSET Node,
         \A m \in Cell \ G :
           /\ t[m].up \notin G /\ t[m].first \notin G /\ t[m].last \notin G
           /\ t[m].next \notin G /\ t[m].prev \notin G /\ t[m].props \notin G,
         NEW u, Typed(u), \A m \in Cell : u[m] = IF m \in G THEN Unused ELSE t[m]
  PROVE  Well(u)
<1>1. /\ Typed(t) /\ Sorted(t) /\ Linked(t) /\ Named(t) /\ UpEnds(t) /\ NextEnds(t)
      /\ Inside(t) /\ Chained(t) /\ Ended(t) /\ Placed(t)
  BY DEF Well, Linked
<1>2. \A m \in Cell \ G : u[m] = t[m]
  OBVIOUS
<1>3. \A m \in G : /\ m \in Cell /\ u[m] = Unused
                   /\ ~Used(u, m) /\ ~IsAttr(u, m) /\ u[m].name = "none"
                   /\ u[m].up = Nil /\ u[m].first = Nil /\ u[m].last = Nil
                   /\ u[m].next = Nil /\ u[m].prev = Nil /\ u[m].props = Nil
  BY Cells DEF Unused, Fresh, Used, IsAttr
<1>4. \A m \in Cell \ G :
        /\ t[m].up \in (Cell \ G) \cup {Nil} /\ t[m].first \in (Cell \ G) \cup {Nil}
        /\ t[m].last \in (Cell \ G) \cup {Nil} /\ t[m].next \in (Cell \ G) \cup {Nil}
        /\ t[m].prev \in (Cell \ G) \cup {Nil} /\ t[m].props \in (Cell \ G) \cup {Nil}
  BY <1>1, Types, Cells
<1>5. Sorted(u)
  BY <1>1, <1>2, <1>3, Cells DEF Sorted, Used, IsAttr
<1>6. Inside(u)
  BY <1>1, <1>2, <1>3, <1>4 DEF Inside, Used
<1>7. Chained(u)
  BY <1>1, <1>2, <1>3, <1>4 DEF Chained, IsAttr
<1>8. Ended(u)
  BY <1>1, <1>2, <1>3, <1>4 DEF Ended, IsAttr
<1>9. Placed(u)
  BY <1>1, <1>2, <1>3, <1>4 DEF Placed, IsAttr
<1>10. Named(u)
  BY <1>1, <1>2, <1>3 DEF Named, IsAttr
<1>11. UpEnds(u) /\ NextEnds(u)
  BY <1>1, <1>2, <1>3, Shortened
<1> QED
  BY <1>5, <1>6, <1>7, <1>8, <1>9, <1>10, <1>11 DEF Well, Linked

\* The tree of a node that is not linked may be.
LEMMA FreeNodeKeeps ==
  ASSUME NEW t, Well(t), NEW n \in Node, Unlinked(t, n), NEW u, u = FreeNode(t, n)
  PROVE  Well(u)
<1> DEFINE G == Subtree(t, n)
<1>1. /\ Typed(t) /\ Linked(t) /\ Chained(t) /\ Ended(t)
      /\ t[n].up = Nil /\ t[n].next = Nil /\ t[n].prev = Nil /\ n \in Cell /\ Nil \notin Cell
  BY Cells DEF Well, Linked, Unlinked
<1>2. /\ Typed(u) /\ G \in SUBSET Node
      /\ \A m \in Cell : u[m] = IF m \in G THEN Unused ELSE t[m]
  BY <1>1, FreeNodeIs
<1>3. /\ n \in G /\ G \subseteq Cell
      /\ \A m \in Cell : t[m].up \in G => m \in G
      /\ \A m \in G \ {n} : t[m].up \in G
  BY <1>1, SubtreeFacts
<1> HIDE DEF G
<1>4. ASSUME NEW m \in Cell \ G
      PROVE  /\ t[m].up \notin G /\ t[m].first \notin G /\ t[m].last \notin G
             /\ t[m].next \notin G /\ t[m].prev \notin G /\ t[m].props \notin G
  <2>1. \A l \in G : l # Nil /\ l \in Cell
    BY <1>1, <1>3
  <2>2. t[m].up \notin G
    BY <1>3
  <2>3. t[m].first \notin G /\ t[m].last \notin G /\ t[m].props \notin G
    BY <1>1, <1>3, <2>1 DEF Ended
  <2>4. t[m].next \notin G
    <3> SUFFICES ASSUME t[m].next \in G PROVE FALSE
      OBVIOUS
    <3>1. t[t[m].next].prev = m /\ t[t[m].next].up = t[m].up
      BY <2>1 DEF Chained, Well, Linked
    <3>2. m # Nil /\ t[m].next # n
      BY <1>1, <3>1
    <3> QED
      BY <1>3, <2>2, <3>1, <3>2
  <2>5. t[m].prev \notin G
    <3> SUFFICES ASSUME t[m].prev \in G PROVE FALSE
      OBVIOUS
    <3>1. t[t[m].prev].next = m /\ m # Nil
      BY <1>1, <2>1 DEF Chained
    <3>2. t[m].up = t[t[m].prev].up
      BY <1>1, <2>1, <3>1 DEF Chained
    <3>3. t[m].prev # n
      BY <1>1, <3>1
    <3> QED
      BY <1>3, <2>2, <3>2, <3>3
  <2> QED
    BY <2>2, <2>3, <2>4, <2>5
<1> QED
  BY <1>2, <1>4, Freed

-----------------------------------------------------------------------------
(***************************************************************************)
(* xmlUnlinkNode                                                           *)
(***************************************************************************)
\* What becomes of each link
LEMMA UnlinkIs ==
  ASSUME NEW t, Typed(t), NEW n \in Node, NEW u, u = Unlink(t, n)
  PROVE  /\ Typed(u)
         /\ \A m \in Cell :
              /\ u[m].kind = t[m].kind /\ u[m].name = t[m].name /\ u[m].doc = t[m].doc
              /\ u[m].up = IF m = n THEN Nil ELSE t[m].up
              /\ u[m].first = IF m # n /\ t[m].first = n THEN t[n].next ELSE t[m].first
              /\ u[m].last = IF m # n /\ t[m].last = n THEN t[n].prev ELSE t[m].last
              /\ u[m].props = IF m # n /\ t[m].props = n THEN t[n].next ELSE t[m].props
              /\ u[m].next = IF m = n THEN Nil
                             ELSE IF t[m].next = n THEN t[n].next ELSE t[m].next
              /\ u[m].prev = IF m = n THEN Nil
                             ELSE IF t[m].prev = n THEN t[n].prev ELSE t[m].prev
<1>1. ASSUME NEW m \in Cell
      PROVE  /\ u[m] \in CellState
             /\ u[m].kind = t[m].kind /\ u[m].name = t[m].name /\ u[m].doc = t[m].doc
             /\ u[m].up = IF m = n THEN Nil ELSE t[m].up
             /\ u[m].first = IF m # n /\ t[m].first = n THEN t[n].next ELSE t[m].first
             /\ u[m].last = IF m # n /\ t[m].last = n THEN t[n].prev ELSE t[m].last
             /\ u[m].props = IF m # n /\ t[m].props = n THEN t[n].next ELSE t[m].props
             /\ u[m].next = IF m = n THEN Nil
                            ELSE IF t[m].next = n THEN t[n].next ELSE t[m].next
             /\ u[m].prev = IF m = n THEN Nil
                            ELSE IF t[m].prev = n THEN t[n].prev ELSE t[m].prev
  <2>1. t[m] \in CellState /\ t[n] \in CellState /\ n \in Cell
    BY Cells DEF Typed
  <2>2. CASE m = n
    <3>1. u[m] = [t[n] EXCEPT !.up = Nil, !.next = Nil, !.prev = Nil]
      BY <2>2 DEF Unlink
    <3> QED
      BY <2>1, <2>2, <3>1 DEF CellState
  <2>3. CASE m # n
    <3> DEFINE a == IF t[m].first = n THEN t[n].next ELSE t[m].first
               b == IF t[m].props = n THEN t[n].next ELSE t[m].props
               c == IF t[m].last = n THEN t[n].prev ELSE t[m].last
               d == IF t[m].next = n THEN t[n].next ELSE t[m].next
               e == IF t[m].prev = n THEN t[n].prev ELSE t[m].prev
    <3>1. /\ a \in Node \cup {Nil} /\ b \in Node \cup {Nil} /\ c \in Node \cup {Nil}
          /\ d \in Node \cup {Nil} /\ e \in Node \cup {Nil}
      BY <2>1 DEF CellState
    <3>2. u[m] = [t[m] EXCEPT !.first = IF @ = n THEN t[n].next ELSE @,
                              !.props = IF @ = n THEN t[n].next ELSE @,
                              !.last  = IF @ = n THEN t[n].prev ELSE @,
                              !.next  = IF @ = n THEN t[n].next ELSE @,
                              !.prev  = IF @ = n THEN t[n].prev ELSE @]
      BY <2>3 DEF Unlink
    <3>3. u[m] = [t[m] EXCEPT !.first = a, !.props = b, !.last = c, !.next = d, !.prev = e]
      BY <2>1, <3>2 DEF CellState
    <3> HIDE DEF a, b, c, d, e
    <3>4. /\ u[m].kind = t[m].kind /\ u[m].name = t[m].name /\ u[m].doc = t[m].doc
          /\ u[m].up = t[m].up
          /\ u[m].first = a /\ u[m].props = b /\ u[m].last = c /\ u[m].next = d /\ u[m].prev = e
      BY <2>1, <3>3 DEF CellState
    <3>5. u[m] \in CellState
      BY <2>1, <3>1, <3>3 DEF CellState
    <3> QED
      BY <2>3, <3>4, <3>5 DEF a, b, c, d, e
  <2> QED
    BY <2>2, <2>3
<1>2. u = [m \in Cell |-> u[m]]
  BY DEF Unlink
<1> QED
  BY <1>1, <1>2 DEF Typed

\* A record is what its fields are.
LEMMA SameRec ==
  ASSUME NEW r \in CellState, NEW s \in CellState,
         r.kind = s.kind, r.name = s.name, r.doc = s.doc, r.up = s.up, r.first = s.first,
         r.last = s.last, r.next = s.next, r.prev = s.prev, r.props = s.props
  PROVE  r = s
BY DEF CellState

\* Nothing is above or beside itself.
LEMMA NoLoop ==
  ASSUME NEW t, Well(t), NEW n \in Cell
  PROVE  t[n].up # n /\ t[n].next # n /\ t[n].prev # n
<1>1. {n} \in SUBSET Cell /\ {n} # {} /\ n # Nil
  BY Cells
<1>2. t[n].up # n /\ t[n].next # n
  BY <1>1 DEF Well, UpEnds, NextEnds
<1>3. t[n].prev # n
  BY <1>1, <1>2 DEF Well, Linked, Chained
<1> QED
  BY <1>2, <1>3

LEMMA UnlinkKeeps ==
  ASSUME NEW t, Well(t), NEW n \in Node, Used(t, n), NEW u, u = Unlink(t, n)
  PROVE  Well(u) /\ Unlinked(u, n)
<1>1. /\ Typed(t) /\ Sorted(t) /\ Linked(t) /\ Named(t) /\ UpEnds(t) /\ NextEnds(t)
      /\ Inside(t) /\ Chained(t) /\ Ended(t) /\ Placed(t)
      /\ n \in Cell /\ n # Nil /\ n \notin Doc
  BY Cells DEF Well, Linked
<1>2. /\ Typed(u)
      /\ \A m \in Cell :
           /\ u[m].kind = t[m].kind /\ u[m].name = t[m].name /\ u[m].doc = t[m].doc
           /\ u[m].up = IF m = n THEN Nil ELSE t[m].up
           /\ u[m].first = IF m # n /\ t[m].first = n THEN t[n].next ELSE t[m].first
           /\ u[m].last = IF m # n /\ t[m].last = n THEN t[n].prev ELSE t[m].last
           /\ u[m].props = IF m # n /\ t[m].props = n THEN t[n].next ELSE t[m].props
           /\ u[m].next = IF m = n THEN Nil
                          ELSE IF t[m].next = n THEN t[n].next ELSE t[m].next
           /\ u[m].prev = IF m = n THEN Nil
                          ELSE IF t[m].prev = n THEN t[n].prev ELSE t[m].prev
  BY <1>1, UnlinkIs
<1>3. \A m \in Cell :
        /\ t[m].up \in Cell \cup {Nil} /\ t[m].first \in Cell \cup {Nil}
        /\ t[m].last \in Cell \cup {Nil} /\ t[m].next \in Cell \cup {Nil}
        /\ t[m].prev \in Cell \cup {Nil} /\ t[m].props \in Cell \cup {Nil}
        /\ t[m].up # m /\ t[m].next # m /\ t[m].prev # m
  BY <1>1, Types, Cells, NoLoop
<1>4. Sorted(u)
  <2>1. ASSUME NEW m \in Cell, ~Used(t, m)
        PROVE  u[m] = Unused
    <3>1. /\ t[m] = Unused /\ m # n
          /\ t[m].up # n /\ t[m].first # n /\ t[m].last # n
          /\ t[m].next # n /\ t[m].prev # n /\ t[m].props # n
      BY <1>1, <2>1, FreeIsLoose DEF Unused, Fresh
    <3>2. u[m] \in CellState /\ t[m] \in CellState
      BY <1>1, <1>2 DEF Typed
    <3>3. /\ u[m].kind = t[m].kind /\ u[m].name = t[m].name /\ u[m].doc = t[m].doc
          /\ u[m].up = t[m].up /\ u[m].first = t[m].first /\ u[m].last = t[m].last
          /\ u[m].next = t[m].next /\ u[m].prev = t[m].prev /\ u[m].props = t[m].props
      BY <1>2, <3>1
    <3> QED
      BY <3>1, <3>2, <3>3, SameRec
  <2>2. \A m \in Cell : m \in Doc => /\ u[m].up = Nil /\ u[m].next = Nil
                                     /\ u[m].prev = Nil /\ u[m].props = Nil
    BY <1>1, <1>2 DEF Sorted
  <2> QED
    BY <1>1, <1>2, <2>1, <2>2 DEF Sorted, Used, IsAttr
<1>5. Inside(u)
  BY <1>1, <1>2, <1>3 DEF Inside, Used
<1>6. Chained(u)
  <2> SUFFICES ASSUME NEW m \in Cell
               PROVE  /\ u[m].next # Nil => /\ u[u[m].next].prev = m
                                            /\ u[u[m].next].up = u[m].up
                                            /\ IsAttr(u, u[m].next) = IsAttr(u, m)
                      /\ u[m].prev # Nil => u[u[m].prev].next = m
    BY DEF Chained
  <2>1. CASE m = n
    BY <1>2, <2>1
  <2>2. CASE m # n
    <3>1. CASE t[m].next = n
      BY <1>1, <1>2, <1>3, <2>2, <3>1 DEF Chained, IsAttr
    <3>2. CASE t[m].prev = n
      BY <1>1, <1>2, <1>3, <2>2, <3>2 DEF Chained, IsAttr
    <3>3. CASE t[m].next # n /\ t[m].prev # n
      BY <1>1, <1>2, <1>3, <2>2, <3>3 DEF Chained, IsAttr
    <3> QED
      BY <3>1, <3>2, <3>3
  <2> QED
    BY <2>1, <2>2
<1>7. Ended(u)
  <2> SUFFICES ASSUME NEW m \in Cell
               PROVE  /\ u[m].first # Nil => /\ u[u[m].first].up = m /\ u[u[m].first].prev = Nil
                                             /\ ~IsAttr(u, u[m].first)
                      /\ u[m].last # Nil => /\ u[u[m].last].up = m /\ u[u[m].last].next = Nil
                                            /\ ~IsAttr(u, u[m].last)
                      /\ u[m].props # Nil => /\ u[u[m].props].up = m /\ u[u[m].props].prev = Nil
                                             /\ IsAttr(u, u[m].props)
    BY DEF Ended
  <2>1. u[m].first # Nil => /\ u[u[m].first].up = m /\ u[u[m].first].prev = Nil
                            /\ ~IsAttr(u, u[m].first)
    <3>1. CASE t[m].first = n
      <4>1. t[n].up = m /\ t[n].prev = Nil /\ ~IsAttr(t, n) /\ m # n
        BY <1>1, <1>3, <3>1 DEF Ended
      <4>2. t[n].next # Nil => /\ t[t[n].next].up = m /\ t[t[n].next].prev = n /\ t[n].next # n
                             /\ ~IsAttr(t, t[n].next) /\ t[n].next \in Cell
        BY <1>1, <1>3, <4>1 DEF Chained
      <4> QED
        BY <1>1, <1>2, <3>1, <4>1, <4>2 DEF IsAttr
    <3>2. CASE t[m].first # n
      BY <1>1, <1>2, <1>3, <3>2 DEF Ended, IsAttr
    <3> QED
      BY <3>1, <3>2
  <2>2. u[m].last # Nil => /\ u[u[m].last].up = m /\ u[u[m].last].next = Nil
                           /\ ~IsAttr(u, u[m].last)
    <3>1. CASE t[m].last = n
      <4>1. t[n].up = m /\ t[n].next = Nil /\ ~IsAttr(t, n) /\ m # n
        BY <1>1, <1>3, <3>1 DEF Ended
      <4>2. t[n].prev # Nil => /\ t[t[n].prev].up = m /\ t[t[n].prev].next = n /\ t[n].prev # n
                             /\ ~IsAttr(t, t[n].prev) /\ t[n].prev \in Cell
        BY <1>1, <1>3, <4>1 DEF Chained
      <4> QED
        BY <1>1, <1>2, <3>1, <4>1, <4>2 DEF IsAttr
    <3>2. CASE t[m].last # n
      BY <1>1, <1>2, <1>3, <3>2 DEF Ended, IsAttr
    <3> QED
      BY <3>1, <3>2
  <2>3. u[m].props # Nil => /\ u[u[m].props].up = m /\ u[u[m].props].prev = Nil
                            /\ IsAttr(u, u[m].props)
    <3>1. CASE t[m].props = n
      <4>1. t[n].up = m /\ t[n].prev = Nil /\ IsAttr(t, n) /\ m # n
        BY <1>1, <1>3, <3>1 DEF Ended
      <4>2. t[n].next # Nil => /\ t[t[n].next].up = m /\ t[t[n].next].prev = n /\ t[n].next # n
                             /\ IsAttr(t, t[n].next) /\ t[n].next \in Cell
        BY <1>1, <1>3, <4>1 DEF Chained
      <4> QED
        BY <1>1, <1>2, <3>1, <4>1, <4>2 DEF IsAttr
    <3>2. CASE t[m].props # n
      BY <1>1, <1>2, <1>3, <3>2 DEF Ended, IsAttr
    <3> QED
      BY <3>1, <3>2
  <2> QED
    BY <2>1, <2>2, <2>3
<1>8. Placed(u)
  <2> SUFFICES ASSUME NEW m \in Cell, u[m].up # Nil
               PROVE  /\ u[m].prev = Nil => IF IsAttr(u, m) THEN u[u[m].up].props = m
                                            ELSE u[u[m].up].first = m
                      /\ u[m].next = Nil /\ ~IsAttr(u, m) => u[u[m].up].last = m
                      /\ u[u[m].up].kind \in ParentKind
                      /\ IsAttr(u, m) => u[u[m].up].kind = "element"
                      /\ u[m].doc = u[u[m].up].doc
    BY DEF Placed
  <2>1. m # n /\ u[m].up = t[m].up /\ t[m].up \in Cell /\ t[m].up # Nil
    BY <1>2, <1>3
  <2>2. ASSUME u[m].prev = Nil
        PROVE  IF IsAttr(u, m) THEN u[u[m].up].props = m ELSE u[u[m].up].first = m
    <3>1. CASE t[m].prev = Nil
      BY <1>1, <1>2, <1>3, <2>1, <3>1 DEF Placed, IsAttr
    <3>2. CASE t[m].prev = n
      <4>1. t[n].prev = Nil /\ t[n].next = m /\ t[n].up = t[m].up /\ IsAttr(t, n) = IsAttr(t, m)
        <5>1. t[n].prev = Nil
          BY <1>2, <2>1, <2>2, <3>2
        <5>2. t[n].next = m
          BY <1>1, <3>2 DEF Chained
        <5>3. t[m].up = t[n].up /\ IsAttr(t, m) = IsAttr(t, n)
          BY <1>1, <2>1, <5>2, Cells DEF Chained
        <5> QED
          BY <5>1, <5>2, <5>3
      <4> QED
        BY <1>1, <1>2, <1>3, <2>1, <4>1 DEF Placed, IsAttr
    <3> QED
      BY <1>2, <2>1, <2>2, <3>1, <3>2
  <2>3. ASSUME u[m].next = Nil, ~IsAttr(u, m)
        PROVE  u[u[m].up].last = m
    <3>1. CASE t[m].next = Nil
      BY <1>1, <1>2, <1>3, <2>1, <2>3, <3>1 DEF Placed, IsAttr
    <3>2. CASE t[m].next = n
      <4>1. t[n].next = Nil /\ t[n].prev = m /\ t[n].up = t[m].up /\ IsAttr(t, n) = IsAttr(t, m)
        BY <1>1, <1>2, <1>3, <2>1, <2>3, <3>2 DEF Chained
      <4> QED
        BY <1>1, <1>2, <1>3, <2>1, <2>3, <4>1 DEF Placed, IsAttr
    <3> QED
      BY <1>2, <2>1, <2>3, <3>1, <3>2
  <2>4. /\ u[u[m].up].kind \in ParentKind
        /\ IsAttr(u, m) => u[u[m].up].kind = "element"
        /\ u[m].doc = u[u[m].up].doc
    BY <1>1, <1>2, <2>1 DEF Placed, IsAttr
  <2> QED
    BY <2>2, <2>3, <2>4
<1>9. Named(u)
  BY <1>1, <1>2 DEF Named, IsAttr
<1>10. UpEnds(u)
  BY <1>1, <1>2, Shortened
<1>11. NextEnds(u)
  <2> SUFFICES ASSUME NEW S \in SUBSET Cell, S # {}, \A m \in S : u[m].next \in S
               PROVE  FALSE
    BY DEF NextEnds
  <2>1. n \notin S
    BY <1>2, Cells
  <2>2. PICK x \in S : t[x].next \notin S
    BY <1>1 DEF NextEnds
  <2>3. t[x].next = n /\ t[n].next \in S
    BY <1>2, <2>1, <2>2
  <2>4. S \cup {n} \in SUBSET Cell /\ S \cup {n} # {}
    BY <1>1
  <2>5. PICK y \in S \cup {n} : t[y].next \notin S \cup {n}
    BY <1>1, <2>4 DEF NextEnds
  <2> QED
    BY <1>2, <2>1, <2>3, <2>5
<1>12. Unlinked(u, n)
  BY <1>1, <1>2 DEF Unlinked
<1> QED
  BY <1>2, <1>4, <1>5, <1>6, <1>7, <1>8, <1>9, <1>10, <1>11, <1>12 DEF Well, Linked

-----------------------------------------------------------------------------
(***************************************************************************)
(* New links                                                               *)
(***************************************************************************)
\* A cell may come below p that is not above p.
LEMMA UpLinked ==
  ASSUME NEW t, Well(t), NEW u, NEW c \in Cell, NEW p \in Cell \cup {Nil},
         p # Nil => c \notin Upwards(t, p),
         \A m \in Cell \ {c} : u[m].up \in {t[m].up, Nil}, u[c].up = p
  PROVE  UpEnds(u)
<1>1. Typed(t) /\ UpEnds(t) /\ Nil \notin Cell
  BY Cells DEF Well
<1> SUFFICES ASSUME NEW S \in SUBSET Cell, S # {}, \A m \in S : u[m].up \in S
             PROVE  FALSE
  BY DEF UpEnds
<1>2. CASE c \notin S
  BY <1>1, <1>2 DEF UpEnds
<1>3. CASE c \in S
  <2>1. p \in S /\ p \in Cell
    BY <1>3
  <2> DEFINE R == S \cap Upwards(t, p)
  <2>2. /\ p \in Upwards(t, p)
        /\ \A m \in Upwards(t, p) : t[m].up \in Upwards(t, p) \cup {Nil}
    BY <1>1, <2>1, UpwardsFacts
  <2>3. p \in R /\ R \in SUBSET Cell /\ c \notin R
    BY <1>1, <2>1, <2>2
  <2>4. \A m \in R : t[m].up \in R
    <3> SUFFICES ASSUME NEW m \in R PROVE t[m].up \in R
      OBVIOUS
    <3>1. m \in Cell \ {c} /\ u[m].up \in S
      BY <2>3
    <3>2. t[m].up = u[m].up /\ t[m].up # Nil
      BY <1>1, <3>1
    <3> QED
      BY <2>2, <3>1, <3>2
  <2> HIDE DEF R
  <2> QED
    BY <1>1, <2>3, <2>4 DEF UpEnds
<1> QED
  BY <1>2, <1>3

\* May c come below p?
MayJoin(t, p, c) ==
  /\ p \in Cell /\ Used(t, p) /\ t[p].kind \in ParentKind
  /\ c \in Node /\ Used(t, c) /\ Unlinked(t, c)
  /\ c \notin Upwards(t, p)
  /\ IsAttr(t, c) => t[p].kind = "element"

LEMMA LinkOnlyIs ==
  ASSUME NEW t, Typed(t), NEW p \in Cell, NEW c \in Node, p # c, NEW u, u = LinkOnly(t, p, c)
  PROVE  /\ Typed(u)
         /\ \A m \in Cell :
              /\ u[m].kind = t[m].kind /\ u[m].name = t[m].name /\ u[m].doc = t[m].doc
              /\ u[m].next = t[m].next /\ u[m].prev = t[m].prev
              /\ u[m].up = IF m = c THEN p ELSE t[m].up
              /\ u[m].first = IF m = p /\ ~IsAttr(t, c) THEN c ELSE t[m].first
              /\ u[m].last = IF m = p /\ ~IsAttr(t, c) THEN c ELSE t[m].last
              /\ u[m].props = IF m = p /\ IsAttr(t, c) THEN c ELSE t[m].props
              /\ m # c /\ m # p => u[m] = t[m]
<1>1. c \in Cell /\ DOMAIN t = Cell /\ t[c] \in CellState /\ t[p] \in CellState
  BY Cells, Types
<1>2. CASE IsAttr(t, c)
  <2>1. u = [t EXCEPT ![c] = [t[c] EXCEPT !.up = p], ![p] = [t[p] EXCEPT !.props = c]]
    BY <1>1, <1>2 DEF LinkOnly, IsAttr
  <2>2. u[c] = [t[c] EXCEPT !.up = p] /\ u[p] = [t[p] EXCEPT !.props = c]
    BY <1>1, <2>1
  <2>3. \A m \in Cell : m # c /\ m # p => u[m] = t[m]
    BY <1>1, <2>1
  <2>4. /\ u[c] \in CellState /\ u[c].kind = t[c].kind /\ u[c].name = t[c].name /\ u[c].doc = t[c].doc
        /\ u[c].next = t[c].next /\ u[c].prev = t[c].prev /\ u[c].up = p
        /\ u[c].first = t[c].first /\ u[c].last = t[c].last /\ u[c].props = t[c].props
    BY <1>1, <2>2 DEF CellState
  <2>5. /\ u[p] \in CellState /\ u[p].kind = t[p].kind /\ u[p].name = t[p].name /\ u[p].doc = t[p].doc
        /\ u[p].next = t[p].next /\ u[p].prev = t[p].prev /\ u[p].up = t[p].up
        /\ u[p].first = t[p].first /\ u[p].last = t[p].last /\ u[p].props = c
    BY <1>1, <2>2 DEF CellState
  <2>6. Typed(u)
    <3>1. DOMAIN u = Cell /\ u = [m \in Cell |-> u[m]]
      BY <1>1, <2>1 DEF Typed
    <3>2. \A m \in Cell : u[m] \in CellState
      BY <2>3, <2>4, <2>5, Types
    <3> QED
      BY <3>1, <3>2 DEF Typed
  <2> QED
    BY <1>2, <2>3, <2>4, <2>5, <2>6
<1>3. CASE ~IsAttr(t, c)
  <2>1. u = [t EXCEPT ![c] = [t[c] EXCEPT !.up = p],
                      ![p] = [t[p] EXCEPT !.first = c, !.last = c]]
    BY <1>1, <1>3 DEF LinkOnly, IsAttr
  <2>2. u[c] = [t[c] EXCEPT !.up = p] /\ u[p] = [t[p] EXCEPT !.first = c, !.last = c]
    BY <1>1, <2>1
  <2>3. \A m \in Cell : m # c /\ m # p => u[m] = t[m]
    BY <1>1, <2>1
  <2>4. /\ u[c] \in CellState /\ u[c].kind = t[c].kind /\ u[c].name = t[c].name /\ u[c].doc = t[c].doc
        /\ u[c].next = t[c].next /\ u[c].prev = t[c].prev /\ u[c].up = p
        /\ u[c].first = t[c].first /\ u[c].last = t[c].last /\ u[c].props = t[c].props
    BY <1>1, <2>2 DEF CellState
  <2>5. /\ u[p] \in CellState /\ u[p].kind = t[p].kind /\ u[p].name = t[p].name /\ u[p].doc = t[p].doc
        /\ u[p].next = t[p].next /\ u[p].prev = t[p].prev /\ u[p].up = t[p].up
        /\ u[p].first = c /\ u[p].last = c /\ u[p].props = t[p].props
    BY <1>1, <2>2 DEF CellState
  <2>6. Typed(u)
    <3>1. DOMAIN u = Cell /\ u = [m \in Cell |-> u[m]]
      BY <1>1, <2>1 DEF Typed
    <3>2. \A m \in Cell : u[m] \in CellState
      BY <2>3, <2>4, <2>5, Types
    <3> QED
      BY <3>1, <3>2 DEF Typed
  <2> QED
    BY <1>3, <2>3, <2>4, <2>5, <2>6
<1> QED
  BY <1>2, <1>3

\* The first one below p
LEMMA LinkOnlyKeeps ==
  ASSUME NEW t, Well(t), NEW p, NEW c, MayJoin(t, p, c), t[c].doc = t[p].doc,
         \A m \in Cell : t[m].up = p => IsAttr(t, m) # IsAttr(t, c),
         NEW u, u = LinkOnly(t, p, c)
  PROVE  Well(u)
<1>1. /\ Typed(t) /\ Sorted(t) /\ Linked(t) /\ Named(t) /\ UpEnds(t) /\ NextEnds(t)
      /\ Inside(t) /\ Chained(t) /\ Ended(t) /\ Placed(t)
      /\ p \in Cell /\ c \in Node /\ c \in Cell /\ c # Nil /\ p # Nil
      /\ Used(t, p) /\ Used(t, c) /\ c \notin Doc /\ t[p].kind \in ParentKind
      /\ IsAttr(t, c) => t[p].kind = "element"
      /\ t[c].up = Nil /\ t[c].next = Nil /\ t[c].prev = Nil
  BY Cells DEF Well, Linked, MayJoin, Unlinked
<1>2. p # c /\ c \notin Upwards(t, p)
  BY <1>1, UpwardsFacts DEF MayJoin
<1>3. /\ Typed(u)
      /\ \A m \in Cell :
           /\ u[m].kind = t[m].kind /\ u[m].name = t[m].name /\ u[m].doc = t[m].doc
           /\ u[m].next = t[m].next /\ u[m].prev = t[m].prev
           /\ u[m].up = IF m = c THEN p ELSE t[m].up
           /\ u[m].first = IF m = p /\ ~IsAttr(t, c) THEN c ELSE t[m].first
           /\ u[m].last = IF m = p /\ ~IsAttr(t, c) THEN c ELSE t[m].last
           /\ u[m].props = IF m = p /\ IsAttr(t, c) THEN c ELSE t[m].props
           /\ m # c /\ m # p => u[m] = t[m]
  BY <1>1, <1>2, LinkOnlyIs
<1>4. \A m \in Cell :
        /\ t[m].up \in Cell \cup {Nil} /\ t[m].first \in Cell \cup {Nil}
        /\ t[m].last \in Cell \cup {Nil} /\ t[m].next \in Cell \cup {Nil}
        /\ t[m].prev \in Cell \cup {Nil} /\ t[m].props \in Cell \cup {Nil}
  BY <1>1, Types, Cells
<1>5. \A m \in Cell : /\ t[m].next # c /\ t[m].prev # c
                      /\ t[m].first # c /\ t[m].last # c /\ t[m].props # c
  BY <1>1, <1>4, Cells DEF Chained, Ended
<1>6. Sorted(u)
  <2>1. \A m \in Cell : ~Used(u, m) => u[m] = Unused
    BY <1>1, <1>3 DEF Sorted, Used
  <2>2. p \in Doc => t[p].kind = "document"
    BY <1>1 DEF Sorted
  <2>3. \A m \in Doc : u[m].up = t[m].up /\ u[m].props = t[m].props
    BY <1>1, <1>3, <2>2, Cells
  <2> QED
    BY <1>1, <1>3, <2>1, <2>3, Cells DEF Sorted, Used, IsAttr
<1>7. Inside(u)
  BY <1>1, <1>3, <1>4 DEF Inside, Used
<1>8. Chained(u)
  BY <1>1, <1>3, <1>4, <1>5 DEF Chained, IsAttr
<1>9. Ended(u)
  <2> SUFFICES ASSUME NEW m \in Cell
               PROVE  /\ u[m].first # Nil => /\ u[u[m].first].up = m /\ u[u[m].first].prev = Nil
                                             /\ ~IsAttr(u, u[m].first)
                      /\ u[m].last # Nil => /\ u[u[m].last].up = m /\ u[u[m].last].next = Nil
                                            /\ ~IsAttr(u, u[m].last)
                      /\ u[m].props # Nil => /\ u[u[m].props].up = m /\ u[u[m].props].prev = Nil
                                             /\ IsAttr(u, u[m].props)
    BY DEF Ended
  <2>1. u[m].first # Nil => /\ u[u[m].first].up = m /\ u[u[m].first].prev = Nil
                            /\ ~IsAttr(u, u[m].first)
    BY <1>1, <1>2, <1>3, <1>4, <1>5 DEF Ended, IsAttr
  <2>2. u[m].last # Nil => /\ u[u[m].last].up = m /\ u[u[m].last].next = Nil
                           /\ ~IsAttr(u, u[m].last)
    BY <1>1, <1>2, <1>3, <1>4, <1>5 DEF Ended, IsAttr
  <2>3. u[m].props # Nil => /\ u[u[m].props].up = m /\ u[u[m].props].prev = Nil
                            /\ IsAttr(u, u[m].props)
    BY <1>1, <1>2, <1>3, <1>4, <1>5 DEF Ended, IsAttr
  <2> QED
    BY <2>1, <2>2, <2>3
<1>10. Placed(u)
  <2> SUFFICES ASSUME NEW m \in Cell, u[m].up # Nil
               PROVE  /\ u[m].prev = Nil => IF IsAttr(u, m) THEN u[u[m].up].props = m
                                            ELSE u[u[m].up].first = m
                      /\ u[m].next = Nil /\ ~IsAttr(u, m) => u[u[m].up].last = m
                      /\ u[u[m].up].kind \in ParentKind
                      /\ IsAttr(u, m) => u[u[m].up].kind = "element"
                      /\ u[m].doc = u[u[m].up].doc
    BY DEF Placed
  <2>1. CASE m = c
    BY <1>1, <1>2, <1>3, <2>1 DEF IsAttr
  <2>2. CASE m # c
    <3>1. u[m].up = t[m].up /\ t[m].up \in Cell
      BY <1>3, <1>4, <2>2
    <3>2. CASE t[m].up = p
      <4>1. IsAttr(t, m) # IsAttr(t, c)
        BY <3>2
      <4> QED
        BY <1>1, <1>2, <1>3, <2>2, <3>1, <3>2, <4>1 DEF Placed, IsAttr
    <3>3. CASE t[m].up # p
      BY <1>1, <1>2, <1>3, <2>2, <3>1, <3>3 DEF Placed, IsAttr
    <3> QED
      BY <3>2, <3>3
  <2> QED
    BY <2>1, <2>2
<1>11. Named(u)
  <2> SUFFICES ASSUME NEW a \in Cell, NEW b \in Cell, IsAttr(t, a), IsAttr(t, b),
                      u[a].up # Nil, u[a].up = u[b].up, t[a].name = t[b].name
               PROVE  a = b
    BY <1>3 DEF Named, IsAttr
  <2>1. CASE a = c
    BY <1>3, <2>1 DEF IsAttr
  <2>2. CASE b = c
    BY <1>3, <2>2 DEF IsAttr
  <2>3. CASE a # c /\ b # c
    BY <1>1, <1>3, <2>3 DEF Named
  <2> QED
    BY <2>1, <2>2, <2>3
<1>12. UpEnds(u)
  <2>1. (\A m \in Cell \ {c} : u[m].up \in {t[m].up, Nil}) /\ u[c].up = p
    BY <1>1, <1>3
  <2> QED
    BY <1>1, <1>2, <2>1, UpLinked
<1>13. NextEnds(u)
  BY <1>1, <1>3, Shortened
<1> QED
  BY <1>3, <1>6, <1>7, <1>8, <1>9, <1>10, <1>11, <1>12, <1>13 DEF Well, Linked

LEMMA LinkAfterIs ==
  ASSUME NEW t, Typed(t), NEW p \in Cell \cup {Nil}, NEW s \in Node, NEW c \in Node,
         s # c, s # p, c # p, NEW u, u = LinkAfter(t, p, s, c)
  PROVE  /\ Typed(u)
         /\ \A m \in Cell :
              /\ u[m].kind = t[m].kind /\ u[m].name = t[m].name /\ u[m].doc = t[m].doc
              /\ u[m].first = t[m].first /\ u[m].props = t[m].props
              /\ u[m].up = IF m = c THEN p ELSE t[m].up
              /\ u[m].next = IF m = s THEN c ELSE t[m].next
              /\ u[m].prev = IF m = c THEN s ELSE t[m].prev
              /\ u[m].last = IF m = p /\ ~IsAttr(t, c) THEN c ELSE t[m].last
              /\ m \notin {c, s, p} => u[m] = t[m]
<1>1. c \in Cell /\ t[c] \in CellState /\ t[s] \in CellState /\ u = [m \in Cell |-> u[m]]
  BY Cells, Types DEF LinkAfter
<1>2. ASSUME NEW m \in Cell
      PROVE  /\ u[m] \in CellState
             /\ u[m].kind = t[m].kind /\ u[m].name = t[m].name /\ u[m].doc = t[m].doc
             /\ u[m].first = t[m].first /\ u[m].props = t[m].props
             /\ u[m].up = IF m = c THEN p ELSE t[m].up
             /\ u[m].next = IF m = s THEN c ELSE t[m].next
             /\ u[m].prev = IF m = c THEN s ELSE t[m].prev
             /\ u[m].last = IF m = p /\ ~IsAttr(t, c) THEN c ELSE t[m].last
             /\ m \notin {c, s, p} => u[m] = t[m]
  <2>1. CASE m = c
    <3>1. u[m] = [t[c] EXCEPT !.up = p, !.prev = s]
      BY <2>1 DEF LinkAfter
    <3> QED
      BY <1>1, <2>1, <3>1 DEF CellState
  <2>2. CASE m = s
    <3>1. u[m] = [t[s] EXCEPT !.next = c]
      BY <2>2 DEF LinkAfter
    <3> QED
      BY <1>1, <2>2, <3>1 DEF CellState
  <2>3. CASE m = p
    <3>1. t[p] \in CellState
      BY <2>3, Types
    <3>2. CASE IsAttr(t, c)
      <4>1. u[m] = [t[p] EXCEPT !.last = @]
        BY <2>3, <3>2 DEF LinkAfter, IsAttr
      <4> QED
        BY <2>3, <3>1, <3>2, <4>1 DEF CellState
    <3>3. CASE ~IsAttr(t, c)
      <4>1. u[m] = [t[p] EXCEPT !.last = c]
        BY <2>3, <3>3 DEF LinkAfter, IsAttr
      <4> QED
        BY <2>3, <3>1, <3>3, <4>1 DEF CellState
    <3> QED
      BY <3>2, <3>3
  <2>4. CASE m \notin {c, s, p}
    <3>1. u[m] = t[m]
      BY <2>4 DEF LinkAfter
    <3> QED
      BY <2>4, <3>1, Types
  <2> QED
    BY <2>1, <2>2, <2>3, <2>4
<1> QED
  BY <1>1, <1>2 DEF Typed

\* At the end of a chain
LEMMA LinkAfterKeeps ==
  ASSUME NEW t, Well(t), NEW p \in Cell \cup {Nil}, NEW s \in Node, NEW c \in Node,
         p # Nil => MayJoin(t, p, c) /\ t[c].doc = t[p].doc,
         Used(t, c), Unlinked(t, c), s # c,
         Used(t, s), t[s].up = p, t[s].next = Nil, IsAttr(t, s) = IsAttr(t, c),
         p # Nil => \A a \in Cell : IsAttr(t, c) /\ IsAttr(t, a) /\ t[a].up = p
                                      => t[a].name # t[c].name,
         NEW u, u = LinkAfter(t, p, s, c)
  PROVE  Well(u)
<1>1. /\ Typed(t) /\ Sorted(t) /\ Linked(t) /\ Named(t) /\ UpEnds(t) /\ NextEnds(t)
      /\ Inside(t) /\ Chained(t) /\ Ended(t) /\ Placed(t)
      /\ c \in Cell /\ s \in Cell /\ c # Nil /\ s # Nil /\ c \notin Doc /\ s \notin Doc
      /\ t[c].up = Nil /\ t[c].next = Nil /\ t[c].prev = Nil /\ Nil \notin Cell
      /\ p # Nil => /\ p \in Cell /\ Used(t, p) /\ t[p].kind \in ParentKind
                    /\ c \notin Upwards(t, p) /\ (IsAttr(t, c) => t[p].kind = "element")
  BY Cells DEF Well, Linked, MayJoin, Unlinked
<1>2. s # p /\ c # p
  <2>1. s # p
    BY <1>1, NoLoop
  <2>2. p \in Cell => p \in Upwards(t, p)
    BY <1>1, UpwardsFacts
  <2> QED
    BY <1>1, <2>1, <2>2
<1>3. /\ Typed(u)
      /\ \A m \in Cell :
           /\ u[m].kind = t[m].kind /\ u[m].name = t[m].name /\ u[m].doc = t[m].doc
           /\ u[m].first = t[m].first /\ u[m].props = t[m].props
           /\ u[m].up = IF m = c THEN p ELSE t[m].up
           /\ u[m].next = IF m = s THEN c ELSE t[m].next
           /\ u[m].prev = IF m = c THEN s ELSE t[m].prev
           /\ u[m].last = IF m = p /\ ~IsAttr(t, c) THEN c ELSE t[m].last
           /\ m \notin {c, s, p} => u[m] = t[m]
  BY <1>1, <1>2, LinkAfterIs, SMTT(20)
<1>4. \A m \in Cell :
        /\ t[m].up \in Cell \cup {Nil} /\ t[m].first \in Cell \cup {Nil}
        /\ t[m].last \in Cell \cup {Nil} /\ t[m].next \in Cell \cup {Nil}
        /\ t[m].prev \in Cell \cup {Nil} /\ t[m].props \in Cell \cup {Nil}
  BY <1>1, Types, Cells
<1>5. \A m \in Cell : /\ t[m].next # c /\ t[m].prev # c /\ t[m].prev # s
                      /\ t[m].first # c /\ t[m].last # c /\ t[m].props # c
  BY <1>1, <1>4 DEF Chained, Ended
<1>6. Sorted(u)
  <2>1. ASSUME NEW m \in Cell, ~Used(u, m)
        PROVE  u[m] = Unused
    <3>1. ~Used(t, m) /\ m \notin {c, s, p}
      BY <1>1, <1>3, <2>1 DEF Used
    <3> QED
      BY <1>1, <1>3, <3>1 DEF Sorted
  <2>2. \A m \in Doc : u[m].up = t[m].up /\ u[m].next = t[m].next /\ u[m].prev = t[m].prev
    BY <1>1, <1>3, Cells
  <2> QED
    BY <1>1, <1>3, <2>1, <2>2, Cells DEF Sorted, Used, IsAttr
<1>7. Inside(u)
  BY <1>1, <1>3, <1>4 DEF Inside, Used
<1>8. Chained(u)
  <2> SUFFICES ASSUME NEW m \in Cell
               PROVE  /\ u[m].next # Nil => /\ u[u[m].next].prev = m
                                            /\ u[u[m].next].up = u[m].up
                                            /\ IsAttr(u, u[m].next) = IsAttr(u, m)
                      /\ u[m].prev # Nil => u[u[m].prev].next = m
    BY DEF Chained
  <2>1. CASE m = c
    BY <1>1, <1>2, <1>3, <2>1
  <2>2. CASE m = s
    BY <1>1, <1>2, <1>3, <1>4, <1>5, <2>2 DEF Chained, IsAttr
  <2>3. CASE m # c /\ m # s
    BY <1>1, <1>2, <1>3, <1>4, <1>5, <2>3 DEF Chained, IsAttr
  <2> QED
    BY <2>1, <2>2, <2>3
<1>9. Ended(u)
  <2> SUFFICES ASSUME NEW m \in Cell
               PROVE  /\ u[m].first # Nil => /\ u[u[m].first].up = m /\ u[u[m].first].prev = Nil
                                             /\ ~IsAttr(u, u[m].first)
                      /\ u[m].last # Nil => /\ u[u[m].last].up = m /\ u[u[m].last].next = Nil
                                            /\ ~IsAttr(u, u[m].last)
                      /\ u[m].props # Nil => /\ u[u[m].props].up = m /\ u[u[m].props].prev = Nil
                                             /\ IsAttr(u, u[m].props)
    BY DEF Ended
  <2>1. u[m].first # Nil => /\ u[u[m].first].up = m /\ u[u[m].first].prev = Nil
                            /\ ~IsAttr(u, u[m].first)
    BY <1>1, <1>3, <1>4, <1>5 DEF Ended, IsAttr
  <2>2. u[m].last # Nil => /\ u[u[m].last].up = m /\ u[u[m].last].next = Nil
                           /\ ~IsAttr(u, u[m].last)
    BY <1>1, <1>2, <1>3, <1>4, <1>5 DEF Ended, IsAttr
  <2>3. u[m].props # Nil => /\ u[u[m].props].up = m /\ u[u[m].props].prev = Nil
                            /\ IsAttr(u, u[m].props)
    BY <1>1, <1>3, <1>4, <1>5 DEF Ended, IsAttr
  <2> QED
    BY <2>1, <2>2, <2>3
<1>10. Placed(u)
  <2> SUFFICES ASSUME NEW m \in Cell, u[m].up # Nil
               PROVE  /\ u[m].prev = Nil => IF IsAttr(u, m) THEN u[u[m].up].props = m
                                            ELSE u[u[m].up].first = m
                      /\ u[m].next = Nil /\ ~IsAttr(u, m) => u[u[m].up].last = m
                      /\ u[u[m].up].kind \in ParentKind
                      /\ IsAttr(u, m) => u[u[m].up].kind = "element"
                      /\ u[m].doc = u[u[m].up].doc
    BY DEF Placed
  <2>1. CASE m = c
    BY <1>1, <1>2, <1>3, <2>1 DEF IsAttr
  <2>2. CASE m # c
    <3>1. u[m].up = t[m].up /\ t[m].up \in Cell /\ t[m].up # Nil /\ u[m].prev = t[m].prev
      BY <1>3, <1>4, <2>2
    <3>2. /\ u[m].prev = Nil => IF IsAttr(u, m) THEN u[u[m].up].props = m
                                ELSE u[u[m].up].first = m
          /\ u[u[m].up].kind \in ParentKind
          /\ IsAttr(u, m) => u[u[m].up].kind = "element"
          /\ u[m].doc = u[u[m].up].doc
      BY <1>1, <1>3, <3>1 DEF Placed, IsAttr
    <3>3. ASSUME u[m].next = Nil, ~IsAttr(u, m)
          PROVE  u[u[m].up].last = m
      <4>1. m # s /\ t[m].next = Nil /\ ~IsAttr(t, m)
        BY <1>1, <1>3, <3>3 DEF IsAttr
      <4>2. t[t[m].up].last = m
        BY <1>1, <3>1, <4>1 DEF Placed
      <4>3. t[m].up = p => IsAttr(t, c)
        BY <1>1, <3>1, <4>1, <4>2 DEF Placed
      <4> QED
        BY <1>3, <3>1, <4>2, <4>3
    <3> QED
      BY <3>2, <3>3
  <2> QED
    BY <2>1, <2>2
<1>11. Named(u)
  <2> SUFFICES ASSUME NEW a \in Cell, NEW b \in Cell, IsAttr(t, a), IsAttr(t, b),
                      u[a].up # Nil, u[a].up = u[b].up, t[a].name = t[b].name
               PROVE  a = b
    BY <1>3 DEF Named, IsAttr
  <2>1. CASE a = c
    BY <1>3, <2>1
  <2>2. CASE b = c
    BY <1>3, <2>2
  <2>3. CASE a # c /\ b # c
    BY <1>1, <1>3, <2>3 DEF Named
  <2> QED
    BY <2>1, <2>2, <2>3
<1>12. UpEnds(u)
  <2>1. (\A m \in Cell \ {c} : u[m].up \in {t[m].up, Nil}) /\ u[c].up = p
    BY <1>1, <1>3
  <2> QED
    BY <1>1, <2>1, UpLinked
<1>13. NextEnds(u)
  <2> SUFFICES ASSUME NEW S \in SUBSET Cell, S # {}, \A m \in S : u[m].next \in S
               PROVE  FALSE
    BY DEF NextEnds
  <2>1. c \notin S
    BY <1>1, <1>3
  <2>2. \A m \in S : t[m].next \in S
    BY <1>3, <2>1
  <2> QED
    BY <1>1, <2>2 DEF NextEnds
<1> QED
  BY <1>3, <1>6, <1>7, <1>8, <1>9, <1>10, <1>11, <1>12, <1>13 DEF Well, Linked


-----------------------------------------------------------------------------
(***************************************************************************)
(* The ends of chains                                                      *)
(***************************************************************************)
\* A set of cells that no chain leaves has one without a next, and one without
\* a previous one.
LEMMA ChainEnds ==
  ASSUME NEW t, Well(t), NEW A \in SUBSET Cell, A # {}
  PROVE  /\ (\A m \in A : t[m].next \in A \cup {Nil}) => \E m \in A : t[m].next = Nil
         /\ (\A m \in A : t[m].prev \in A \cup {Nil}) => \E m \in A : t[m].prev = Nil
<1>1. Typed(t) /\ Chained(t) /\ NextEnds(t)
  BY DEF Well, Linked
<1>2. Ends(PrevLink(t))
  BY <1>1, PrevLinkEnds
<1>3. \E m \in A : t[m].prev \notin A
  BY <1>2 DEF Ends, PrevLink
<1>4. \E m \in A : t[m].next \notin A
  BY <1>1 DEF NextEnds
<1> QED
  BY <1>3, <1>4

\* What is chained to a node has its parent, and is an attribute if it is.
LEMMA Neighbours ==
  ASSUME NEW t, Well(t), NEW m \in Cell
  PROVE  /\ t[m].next # Nil => /\ t[m].next \in Node /\ t[t[m].next].up = t[m].up
                               /\ IsAttr(t, t[m].next) = IsAttr(t, m)
                               /\ t[t[m].next].prev = m
         /\ t[m].prev # Nil => /\ t[m].prev \in Node /\ t[t[m].prev].up = t[m].up
                               /\ IsAttr(t, t[m].prev) = IsAttr(t, m)
                               /\ t[t[m].prev].next = m
<1>1. Typed(t) /\ Chained(t)
  BY DEF Well, Linked
<1>2. t[m].next \in Node \cup {Nil} /\ t[m].prev \in Node \cup {Nil}
  BY <1>1, Types
<1>3. t[m].next # Nil => /\ t[t[m].next].up = t[m].up
                         /\ IsAttr(t, t[m].next) = IsAttr(t, m)
                         /\ t[t[m].next].prev = m
  BY <1>1 DEF Chained
<1>4. ASSUME t[m].prev # Nil
      PROVE  /\ t[t[m].prev].up = t[m].up /\ IsAttr(t, t[m].prev) = IsAttr(t, m)
             /\ t[t[m].prev].next = m
  <2>1. t[m].prev \in Cell /\ m # Nil
    BY <1>2, <1>4, Cells
  <2>2. t[t[m].prev].next = m
    BY <1>1, <1>4 DEF Chained
  <2>3. t[m].up = t[t[m].prev].up /\ IsAttr(t, m) = IsAttr(t, t[m].prev)
    BY <1>1, <2>1, <2>2 DEF Chained
  <2> QED
    BY <2>2, <2>3
<1> QED
  BY <1>2, <1>3, <1>4

\* What has something below it has a first and a last one, or a first attribute.
LEMMA ChildEnds ==
  ASSUME NEW t, Well(t), NEW p \in Cell, NEW m \in Cell, t[m].up = p
  PROVE  /\ IsAttr(t, m) => t[p].props # Nil
         /\ ~IsAttr(t, m) => t[p].first # Nil /\ t[p].last # Nil
<1> DEFINE A == {x \in Cell : t[x].up = p /\ IsAttr(t, x) = IsAttr(t, m)}
<1>1. A \in SUBSET Cell /\ m \in A /\ Nil \notin Cell /\ p # Nil
  BY Cells
<1>2. \A x \in A : t[x].next \in A \cup {Nil} /\ t[x].prev \in A \cup {Nil}
  BY Neighbours, Cells
<1>3. \A x \in A : x \in Cell /\ t[x].up = p /\ IsAttr(t, x) = IsAttr(t, m)
  OBVIOUS
<1> HIDE DEF A
<1>4. PICK x \in A : t[x].next = Nil
  BY <1>1, <1>2, ChainEnds
<1>5. PICK y \in A : t[y].prev = Nil
  BY <1>1, <1>2, ChainEnds
<1> QED
  BY <1>1, <1>3, <1>4, <1>5 DEF Well, Linked, Placed

\* The last attribute
LEMMA LastAttribute ==
  ASSUME NEW t, Well(t), NEW p \in Cell, Attributes(t, p) # {},
         NEW s, s = LastOf(t, Attributes(t, p))
  PROVE  s \in Attributes(t, p) /\ t[s].next = Nil
<1> DEFINE A == Attributes(t, p)
<1>1. \A m \in A : t[m].next \in A \cup {Nil}
  BY Neighbours, Cells DEF Attributes, IsAttr
<1>2. A \in SUBSET Cell
  BY DEF Attributes
<1> HIDE DEF A
<1>3. \E m \in A : t[m].next = Nil
  BY <1>1, <1>2, ChainEnds DEF A
<1>4. (CHOOSE m \in A : t[m].next = Nil) \in A /\ t[CHOOSE m \in A : t[m].next = Nil].next = Nil
  BY <1>3
<1>5. s = CHOOSE m \in A : t[m].next = Nil
  BY DEF LastOf, A
<1> QED
  BY <1>4, <1>5 DEF A

\* Siblings of a node without a parent are met by walks to both ends.
LEMMA SiblingsIs ==
  ASSUME NEW t, Well(t), NEW s \in Cell, t[s].up = Nil
  PROVE  Siblings(t, s) = Reach(NextLink(t), s) \cup Reach(PrevLink(t), s)
<1> DEFINE l == NextLink(t)
           k == PrevLink(t)
<1>1. /\ l \in Links /\ Ends(l) /\ \A m \in Cell : l[m] = t[m].next
      /\ k \in Links /\ Ends(k) /\ \A m \in Cell : k[m] = t[m].prev
  BY LinkTypes, PrevLinkEnds DEF NextLink, PrevLink, Well, Linked
<1>2. ASSUME NEW h
      PROVE  /\ (h = [m \in Cell \cup {Nil} |-> IF m = Nil THEN {} ELSE {m} \cup h[t[m].next]])
                <=> h = [m \in Cell \cup {Nil} |-> Reach(l, m)]
             /\ (h = [m \in Cell \cup {Nil} |-> IF m = Nil THEN {} ELSE {m} \cup h[t[m].prev]])
                <=> h = [m \in Cell \cup {Nil} |-> Reach(k, m)]
  <2>1. /\ [m \in Cell \cup {Nil} |-> IF m = Nil THEN {} ELSE {m} \cup h[t[m].next]]
             = [m \in Cell \cup {Nil} |-> IF m = Nil THEN {} ELSE {m} \cup h[l[m]]]
        /\ [m \in Cell \cup {Nil} |-> IF m = Nil THEN {} ELSE {m} \cup h[t[m].prev]]
             = [m \in Cell \cup {Nil} |-> IF m = Nil THEN {} ELSE {m} \cup h[k[m]]]
    BY <1>1
  <2>2. (h = [m \in Cell \cup {Nil} |-> IF m = Nil THEN {} ELSE {m} \cup h[l[m]]])
          <=> h = [m \in Cell \cup {Nil} |-> Reach(l, m)]
    <3> HIDE DEF l
    <3> QED
      BY <1>1, Collects
  <2>3. (h = [m \in Cell \cup {Nil} |-> IF m = Nil THEN {} ELSE {m} \cup h[k[m]]])
          <=> h = [m \in Cell \cup {Nil} |-> Reach(k, m)]
    <3> HIDE DEF k
    <3> QED
      BY <1>1, Collects
  <2> QED
    BY <2>1, <2>2, <2>3
<1> HIDE DEF l, k
<1> DEFINE g == [m \in Cell \cup {Nil} |-> Reach(l, m)]
           h == [m \in Cell \cup {Nil} |-> Reach(k, m)]
<1>3. g[s] = Reach(l, s) /\ h[s] = Reach(k, s)
  OBVIOUS
<1> HIDE DEF g, h
<1>4. Siblings(t, s) = g[s] \cup h[s]
  BY <1>2, Zenon DEF Siblings, g, h
<1> QED
  BY <1>3, <1>4 DEF l, k

\* The last of its siblings
LEMMA LastSibling ==
  ASSUME NEW t, Well(t), NEW s \in Node, Used(t, s), NEW last, last = LastOf(t, Siblings(t, s))
  PROVE  /\ last \in Node /\ Used(t, last) /\ t[last].next = Nil
         /\ t[last].up = t[s].up /\ IsAttr(t, last) = IsAttr(t, s)
         /\ \A c \in Cell : Unlinked(t, c) /\ c # s => last # c
<1> DEFINE A == Siblings(t, s)
<1>1. /\ s \in Cell /\ Nil \notin Cell /\ Typed(t) /\ Sorted(t) /\ Chained(t) /\ NextEnds(t)
  BY Cells DEF Well, Linked
<1>2. /\ A \in SUBSET Cell /\ s \in A
      /\ \A m \in A : /\ t[m].next \in A \cup {Nil} /\ t[m].up = t[s].up
                      /\ IsAttr(t, m) = IsAttr(t, s)
      /\ \A c \in Cell : Unlinked(t, c) /\ c # s => c \notin A
  <2>1. CASE t[s].up # Nil
    <3>1. A = {m \in Cell : t[m].up = t[s].up /\ IsAttr(t, m) = IsAttr(t, s)}
      BY <2>1 DEF Siblings, IsAttr
    <3> HIDE DEF A
    <3> QED
      BY <1>1, <2>1, <3>1, Neighbours, Cells DEF Unlinked
  <2>2. CASE t[s].up = Nil
    <3> DEFINE l == NextLink(t)
               k == PrevLink(t)
    <3>1. /\ l \in Links /\ \A m \in Cell : l[m] = t[m].next
          /\ k \in Links /\ \A m \in Cell : k[m] = t[m].prev
      BY <1>1, LinkTypes DEF NextLink, PrevLink
    <3>2. A = Reach(l, s) \cup Reach(k, s)
      BY <1>1, <2>2, SiblingsIs
    <3> HIDE DEF A, l, k
    <3>3. /\ s \in Reach(l, s) /\ Reach(l, s) \in SUBSET Cell /\ Within(l, Reach(l, s))
          /\ s \in Reach(k, s) /\ Reach(k, s) \in SUBSET Cell /\ Within(k, Reach(k, s))
          /\ \A B \in SUBSET Cell : s \in B /\ Within(l, B) => Reach(l, s) \subseteq B
          /\ \A B \in SUBSET Cell : s \in B /\ Within(k, B) => Reach(k, s) \subseteq B
      BY <1>1, <3>1, ReachFacts
    <3> DEFINE B == {m \in Cell : t[m].up = t[s].up /\ IsAttr(t, m) = IsAttr(t, s)}
    <3>4. B \in SUBSET Cell /\ s \in B /\ Within(l, B) /\ Within(k, B)
      <4>1. \A m \in B : t[m].next \in B \cup {Nil} /\ t[m].prev \in B \cup {Nil}
        BY <1>1, Neighbours, Cells
      <4> QED
        BY <1>1, <3>1, <4>1 DEF Within
    <3>5. A \subseteq B
      BY <3>2, <3>3, <3>4
    <3>6. ASSUME NEW m \in A
          PROVE  t[m].next \in A \cup {Nil}
      <4>1. CASE m \in Reach(l, s)
        BY <3>1, <3>2, <3>3, <4>1 DEF Within
      <4>2. CASE m \in Reach(k, s)
        <5> DEFINE C == {x \in Reach(k, s) : t[x].next \in A \cup {Nil}}
        <5>1. s \in C
          BY <3>1, <3>2, <3>3, <1>1 DEF Within
        <5>2. Within(k, C)
          <6> SUFFICES ASSUME NEW x \in C, t[x].prev # Nil
                       PROVE  t[x].prev \in C
            BY <3>1, <3>3 DEF Within
          <6>1. x \in Cell /\ t[x].prev \in Reach(k, s)
            BY <3>1, <3>3 DEF Within
          <6>2. t[t[x].prev].next = x
            BY <6>1, Neighbours
          <6> QED
            BY <3>2, <6>1, <6>2
        <5>3. C \in SUBSET Cell
          BY <3>3
        <5>4. Reach(k, s) \subseteq C
          BY <3>3, <5>1, <5>2, <5>3
        <5> QED
          BY <4>2, <5>4
      <4> QED
        BY <3>2, <4>1, <4>2
    <3>7. ASSUME NEW c \in Cell, Unlinked(t, c), c # s
          PROVE  c \notin A
      <4> DEFINE C == Cell \ {c}
      <4>1. \A m \in C : t[m].next \in C \cup {Nil} /\ t[m].prev \in C \cup {Nil}
        <5> SUFFICES ASSUME NEW m \in C PROVE t[m].next \in C \cup {Nil} /\ t[m].prev \in C \cup {Nil}
          OBVIOUS
        <5>1. t[m].next # c /\ t[m].prev # c
          BY <1>1, <3>7, Neighbours DEF Unlinked
        <5> QED
          BY <1>1, <5>1, Types, Cells
      <4>2. C \in SUBSET Cell /\ s \in C /\ Within(l, C) /\ Within(k, C)
        BY <1>1, <3>1, <3>7, <4>1 DEF Within
      <4> QED
        BY <3>2, <3>3, <4>2
    <3> QED
      BY <3>2, <3>3, <3>5, <3>6, <3>7
  <2> QED
    BY <2>1, <2>2
<1> HIDE DEF A
<1>3. \E m \in A : t[m].next = Nil
  <2>1. A # {}
    BY <1>2
  <2> QED
    BY <1>2, <2>1, ChainEnds
<1>4. last = CHOOSE m \in A : t[m].next = Nil
  BY DEF LastOf, A
<1>5. last \in A /\ t[last].next = Nil
  BY <1>3, <1>4
<1>6. last \in Cell /\ t[last].up = t[s].up /\ IsAttr(t, last) = IsAttr(t, s)
  BY <1>2, <1>5
<1>7. \A c \in Cell : Unlinked(t, c) /\ c # s => last # c
  BY <1>2, <1>5
<1>8. last \in Node /\ Used(t, last)
  <2>1. \A m \in A \ {s} : ~Unlinked(t, m)
    BY <1>2
  <2>2. last # s => ~Unlinked(t, last)
    BY <1>5, <2>1
  <2>3. last \in Doc => Unlinked(t, last)
    BY <1>1, <1>6 DEF Sorted, Unlinked
  <2>4. ~Used(t, last) => Unlinked(t, last)
    BY <1>1, <1>6 DEF Sorted, Unlinked, Unused, Fresh
  <2> QED
    BY <1>1, <1>6, <2>2, <2>3, <2>4, Cells
<1> QED
  BY <1>5, <1>6, <1>7, <1>8

-----------------------------------------------------------------------------
(***************************************************************************)
(* xmlAddChild                                                             *)
(***************************************************************************)
\* Fewer links up, less above
LEMMA UpwardsLess ==
  ASSUME NEW t, Well(t), NEW u, Well(u), \A m \in Cell : u[m].up \in {t[m].up, Nil},
         NEW n \in Cell
  PROVE  Upwards(u, n) \subseteq Upwards(t, n)
<1>1. Typed(t) /\ UpEnds(t) /\ Typed(u) /\ UpEnds(u)
  BY DEF Well
<1> DEFINE A == Upwards(t, n)
<1>2. n \in A /\ A \in SUBSET Cell /\ \A m \in A : t[m].up \in A \cup {Nil}
  BY <1>1, UpwardsFacts
<1> HIDE DEF A
<1>3. \A m \in A : u[m].up \in A \cup {Nil}
  BY <1>2
<1>4. \A B \in SUBSET Cell :
        n \in B /\ (\A m \in B : u[m].up \in B \cup {Nil}) => Upwards(u, n) \subseteq B
  BY <1>1, UpwardsFacts
<1>5. Upwards(u, n) \subseteq A
  BY <1>2, <1>3, <1>4
<1> QED
  BY <1>5 DEF A

\* t with a fresh cell v
LEMMA FreshCell ==
  ASSUME NEW t, Typed(t), NEW v \in Node, NEW k \in Kind,
         NEW name \in AttrName \cup {"xml:base", "xml:lang", "none"}
  PROVE  LET u == [t EXCEPT ![v] = Fresh(k, name)]
         IN  /\ Typed(u) /\ u[v] = Fresh(k, name)
             /\ \A m \in Cell \ {v} : u[m] = t[m]
<1> DEFINE r == Fresh(k, name)
<1>1. r \in CellState /\ v \in Cell
  BY FreshIs, Cells
<1> HIDE DEF r
<1>2. /\ [t EXCEPT ![v] = r] \in [Cell -> CellState] /\ [t EXCEPT ![v] = r][v] = r
      /\ \A m \in Cell \ {v} : [t EXCEPT ![v] = r][m] = t[m]
  BY <1>1 DEF Typed
<1> QED
  BY <1>2 DEF Typed, r

\* A new cell may join any that has its kind below it.
LEMMA NewJoins ==
  ASSUME NEW t, Well(t), NEW p \in Cell, Used(t, p), t[p].kind \in ParentKind,
         NEW v \in Node, ~Used(t, v), NEW k \in NodeKind,
         NEW name \in AttrName \cup {"xml:base", "xml:lang", "none"},
         name # "none" <=> k = "attribute", k = "attribute" => t[p].kind = "element",
         NEW u, Typed(u), u[v] = Fresh(k, name), \A m \in Cell \ {v} : u[m] = t[m]
  PROVE  /\ Well(u) /\ MayJoin(u, p, v)
         /\ u[v].kind = k /\ u[v].name = name
<1>1. /\ Typed(t) /\ Sorted(t) /\ Linked(t) /\ v \in Cell /\ v # Nil /\ v \notin Doc /\ p # v
      /\ k \in Kind /\ k # "free"
  BY Cells DEF Well, NodeKind, Kind, Document
<1> DEFINE r == Fresh(k, name)
<1>2. /\ r \in CellState /\ r.kind = k /\ r.name = name
      /\ r.up = Nil /\ r.first = Nil /\ r.last = Nil /\ r.next = Nil /\ r.prev = Nil
      /\ r.props = Nil
  BY <1>1, FreshIs
<1>4. u[v] = r /\ \A m \in Cell \ {v} : u[m] = t[m]
  OBVIOUS
<1> HIDE DEF r
<1>5. Well(u)
  <2>1. Typed(u)
    OBVIOUS
  <2>2. Used(u, v) /\ (u[v].name # "none" <=> IsAttr(u, v)) /\ u[v].kind \in NodeKind
    BY <1>1, <1>2, <1>4 DEF Used, IsAttr
  <2>3. /\ u[v].up = Nil /\ u[v].first = Nil /\ u[v].last = Nil /\ u[v].next = Nil
        /\ u[v].prev = Nil /\ u[v].props = Nil
    BY <1>2, <1>4
  <2>4. v \in Cell /\ v \notin Doc /\ \A m \in Cell \ {v} : u[m] = t[m]
    BY <1>1, <1>4
  <2> QED
    BY <2>1, <2>2, <2>3, <2>4, Born
<1>6. v \notin Upwards(u, p)
  <2>1. \A m \in Cell : u[m].up # v
    BY <1>1, <1>2, <1>4, FreeIsLoose
  <2> DEFINE A == Cell \ {v}
  <2>2. p \in A /\ A \in SUBSET Cell /\ Typed(u) /\ UpEnds(u)
    BY <1>1, <1>5 DEF Well
  <2>3. \A m \in A : u[m].up \in A \cup {Nil}
    <3>1. \A m \in Cell : u[m].up \in Cell \cup {Nil}
      BY <2>2, Types
    <3> QED
      BY <2>1, <3>1
  <2> HIDE DEF A
  <2>4. Upwards(u, p) \subseteq A
    BY <2>2, <2>3, UpwardsFacts
  <2> QED
    BY <2>4 DEF A
<1>7. MayJoin(u, p, v)
  BY <1>1, <1>2, <1>4, <1>6 DEF MayJoin, Used, Unlinked, IsAttr
<1> QED
  BY <1>2, <1>4, <1>5, <1>7

\* An attribute joins the ones of other names.
LEMMA JoinAttributes ==
  ASSUME NEW t, Well(t), NEW p, NEW c, MayJoin(t, p, c), t[c].doc = t[p].doc, IsAttr(t, c),
         \A a \in Attributes(t, p) : t[a].name # t[c].name,
         NEW u, u = IF Attributes(t, p) = {} THEN LinkOnly(t, p, c)
                    ELSE LinkAfter(t, p, LastOf(t, Attributes(t, p)), c)
  PROVE  Well(u) /\ \A m \in Cell : u[m].kind = t[m].kind /\ u[m].name = t[m].name
<1>1. /\ Typed(t) /\ Sorted(t) /\ p \in Cell /\ c \in Node /\ c \in Cell /\ c # Nil /\ p # Nil
      /\ Used(t, c) /\ Unlinked(t, c) /\ t[c].up = Nil /\ p # c
  <2>1. Typed(t) /\ UpEnds(t) /\ Sorted(t)
    BY DEF Well
  <2>2. p \in Cell => p \in Upwards(t, p)
    BY <2>1, UpwardsFacts
  <2> QED
    BY <2>1, <2>2, Cells DEF MayJoin, Unlinked
<1>2. CASE Attributes(t, p) = {}
  <2>1. \A m \in Cell : t[m].up = p => IsAttr(t, m) # IsAttr(t, c)
    BY <1>2 DEF Attributes, IsAttr
  <2>2. u = LinkOnly(t, p, c)
    BY <1>2
  <2>3. Well(u)
    BY <2>1, <2>2, LinkOnlyKeeps
  <2> QED
    BY <1>1, <2>2, <2>3, LinkOnlyIs
<1>3. CASE Attributes(t, p) # {}
  <2> DEFINE s == LastOf(t, Attributes(t, p))
  <2>1. s \in Attributes(t, p) /\ t[s].next = Nil
    BY <1>1, <1>3, LastAttribute
  <2>2. u = LinkAfter(t, p, s, c)
    BY <1>3
  <2> HIDE DEF s
  <2>3. s \in Cell /\ t[s].up = p /\ IsAttr(t, s) /\ s # c /\ Used(t, s)
    BY <1>1, <2>1 DEF Attributes, IsAttr, Used
  <2>4. s \in Node /\ s # p
    BY <1>1, <2>3, Cells, NoLoop DEF Sorted
  <2>5. \A a \in Cell : IsAttr(t, c) /\ IsAttr(t, a) /\ t[a].up = p => t[a].name # t[c].name
    BY DEF Attributes, IsAttr
  <2>6. Well(u)
    BY <1>1, <2>1, <2>2, <2>3, <2>4, <2>5, LinkAfterKeeps
  <2>7. p \in Cell \cup {Nil}
    BY <1>1
  <2> QED
    BY <1>1, <2>2, <2>3, <2>4, <2>6, <2>7, LinkAfterIs
<1> QED
  BY <1>2, <1>3

\* The attribute that another one displaces
LEMMA Displaced ==
  ASSUME NEW t, Well(t), NEW p, NEW c, MayJoin(t, p, c), t[c].doc = t[p].doc, IsAttr(t, c),
         NEW one \in Attributes(t, p), t[one].name = t[c].name,
         NEW u, u = FreeNode(Unlink(t, one), one)
  PROVE  /\ Well(u) /\ MayJoin(u, p, c) /\ u[c].doc = u[p].doc /\ IsAttr(u, c)
         /\ \A a \in Attributes(u, p) : u[a].name # u[c].name
<1>1. /\ Typed(t) /\ Sorted(t) /\ UpEnds(t) /\ Named(t)
      /\ p \in Cell /\ c \in Node /\ c \in Cell /\ c # Nil /\ p # Nil
      /\ Used(t, c) /\ Unlinked(t, c) /\ t[c].up = Nil /\ c \notin Upwards(t, p)
      /\ t[c].next = Nil /\ t[c].prev = Nil
  BY Cells DEF Well, MayJoin, Unlinked
<1>2. one \in Cell /\ t[one].up = p /\ IsAttr(t, one) /\ Used(t, one) /\ one # c
  BY <1>1 DEF Attributes, IsAttr, Used
<1>3. one \in Node /\ one # Nil
  BY <1>1, <1>2, Cells DEF Sorted
<1> DEFINE x == Unlink(t, one)
<1>4. Well(x) /\ Unlinked(x, one)
  BY <1>2, <1>3, UnlinkKeeps
<1>5. \A m \in Cell :
        /\ x[m].kind = t[m].kind /\ x[m].name = t[m].name /\ x[m].doc = t[m].doc
        /\ x[m].up = IF m = one THEN Nil ELSE t[m].up
        /\ x[m].next = IF m = one THEN Nil ELSE IF t[m].next = one THEN t[one].next ELSE t[m].next
        /\ x[m].prev = IF m = one THEN Nil ELSE IF t[m].prev = one THEN t[one].prev ELSE t[m].prev
  BY <1>1, <1>3, UnlinkIs
<1>6. u = FreeNode(x, one)
  OBVIOUS
<1> HIDE DEF x
<1>7. Well(u)
  BY <1>3, <1>4, <1>6, FreeNodeKeeps
<1>8. \A m \in Cell : u[m] = IF m \in Subtree(x, one) THEN Unused ELSE x[m]
  BY <1>3, <1>4, <1>6, FreeNodeIs DEF Unlinked
<1>9. Upwards(x, p) \subseteq Upwards(t, p) /\ one \notin Upwards(t, p)
  <2>1. one \notin Upwards(t, t[one].up)
    BY <1>1, <1>2, UpwardsFacts
  <2> QED
    BY <1>1, <1>2, <1>4, <1>5, <2>1, UpwardsLess
<1>10. Upwards(x, c) = {c}
  <2>1. x[c].up = Nil /\ Typed(x) /\ UpEnds(x)
    BY <1>1, <1>2, <1>4, <1>5 DEF Well
  <2>2. Upwards(x, c) = {c} \cup Upwards(x, x[c].up) /\ Upwards(x, Nil) = {}
    BY <1>1, <2>1, UpwardsFacts
  <2> QED
    BY <2>1, <2>2
<1>11. u[p] = x[p] /\ u[c] = x[c]
  BY <1>1, <1>2, <1>8, <1>9, <1>10 DEF Subtree
<1>12. \A m \in Cell : u[m].up \in {x[m].up, Nil}
  BY <1>8 DEF Unused, Fresh
<1>13. c \notin Upwards(u, p)
  BY <1>1, <1>4, <1>7, <1>9, <1>12, UpwardsLess
<1>14. MayJoin(u, p, c)
  BY <1>1, <1>2, <1>3, <1>5, <1>11, <1>13 DEF MayJoin, Used, IsAttr, Unlinked
<1>15. ASSUME NEW a \in Attributes(u, p)
       PROVE  u[a].name # u[c].name
  <2>1. a \in Cell /\ u[a].up = p /\ u[a].kind = "attribute"
    BY DEF Attributes
  <2>2. u[a] = x[a]
    BY <1>8, <2>1 DEF Unused, Fresh
  <2>3. a # one /\ t[a].up = p /\ IsAttr(t, a) /\ u[a].name = t[a].name
    BY <1>1, <1>5, <2>1, <2>2 DEF IsAttr
  <2>4. t[a].name # t[one].name
    BY <1>1, <1>2, <2>1, <2>3 DEF Named
  <2> QED
    BY <1>1, <1>5, <1>11, <2>3, <2>4
<1> QED
  BY <1>1, <1>5, <1>7, <1>11, <1>14, <1>15 DEF IsAttr

\* xmlSetTreeDoc before a cell joins
LEMMA DocThenJoins ==
  ASSUME NEW t, Well(t), NEW p, NEW c, MayJoin(t, p, c), NEW s, s = SetTreeDoc(t, c, t[p].doc)
  PROVE  /\ Well(s) /\ MayJoin(s, p, c) /\ s[c].doc = s[p].doc
         /\ \A m \in Cell :
              /\ s[m].kind = t[m].kind /\ s[m].name = t[m].name /\ s[m].up = t[m].up
              /\ s[m].first = t[m].first /\ s[m].last = t[m].last /\ s[m].next = t[m].next
<1>1. /\ Typed(t) /\ p \in Cell /\ c \in Node /\ c \in Cell /\ Used(t, c) /\ t[c].up = Nil
      /\ c \notin Upwards(t, p) /\ t[p].doc \in Doc \cup {Nil}
  BY Types, Cells DEF Well, MayJoin, Unlinked
<1>2. \A m \in Cell :
        /\ s[m].kind = t[m].kind /\ s[m].name = t[m].name /\ s[m].up = t[m].up
        /\ s[m].first = t[m].first /\ s[m].last = t[m].last
        /\ s[m].next = t[m].next /\ s[m].prev = t[m].prev
        /\ s[m].doc = IF m \in Subtree(t, c) THEN t[p].doc ELSE t[m].doc
  BY <1>1, SetTreeDocIs
<1>3. Well(s)
  BY <1>1, SetTreeDocKeeps
<1>4. c \in Subtree(t, c)
  BY <1>1, SubtreeFacts
<1>5. c \notin Upwards(s, p)
  BY <1>1, <1>2, <1>3, UpwardsLess
<1>6. MayJoin(s, p, c)
  BY <1>1, <1>2, <1>5 DEF MayJoin, Used, IsAttr, Unlinked
<1>7. s[c].doc = s[p].doc
  BY <1>1, <1>2, <1>4
<1> QED
  BY <1>2, <1>3, <1>6, <1>7

\* An attribute
LEMMA AddAttributeKeeps ==
  ASSUME NEW t, Well(t), NEW p, NEW c, MayJoin(t, p, c), IsAttr(t, c),
         NEW u, u = AddChild(t, p, c)
  PROVE  /\ Well(u)
         /\ (\A a \in Attributes(t, p) : t[a].name # t[c].name)
              => \A m \in Cell : u[m].kind = t[m].kind /\ u[m].name = t[m].name
<1> DEFINE s == SetTreeDoc(t, c, t[p].doc)
           same == {a \in Attributes(t, p) : t[a].name = t[c].name}
           one == CHOOSE a \in same : TRUE
           w == IF same = {} THEN s ELSE FreeNode(Unlink(s, one), one)
<1>1. /\ Well(s) /\ MayJoin(s, p, c) /\ s[c].doc = s[p].doc
      /\ \A m \in Cell :
           /\ s[m].kind = t[m].kind /\ s[m].name = t[m].name /\ s[m].up = t[m].up
  BY DocThenJoins
<1>2. u = IF Attributes(w, p) = {} THEN LinkOnly(w, p, c)
          ELSE LinkAfter(w, p, LastOf(w, Attributes(w, p)), c)
  BY DEF AddChild, IsAttr
<1> HIDE DEF s
<1>3. Attributes(s, p) = Attributes(t, p) /\ c \in Cell /\ IsAttr(s, c)
  BY <1>1, Cells DEF Attributes, MayJoin, IsAttr
<1>4. /\ Well(w) /\ MayJoin(w, p, c) /\ w[c].doc = w[p].doc /\ IsAttr(w, c)
      /\ \A a \in Attributes(w, p) : w[a].name # w[c].name
      /\ same = {} => w = s
  <2>1. CASE same = {}
    <3>1. w = s
      BY <2>1
    <3>2. \A a \in Attributes(s, p) : s[a].name # s[c].name
      BY <1>1, <1>3, <2>1 DEF Attributes
    <3> QED
      BY <1>1, <1>3, <3>1, <3>2
  <2>2. CASE same # {}
    <3>1. one \in Attributes(s, p) /\ s[one].name = s[c].name
      <4>1. one \in same
        BY <2>2
      <4> QED
        BY <1>1, <1>3, <4>1 DEF Attributes
    <3>2. w = FreeNode(Unlink(s, one), one)
      BY <2>2
    <3> HIDE DEF one, same, w
    <3> QED
      BY <1>1, <1>3, <2>2, <3>1, <3>2, Displaced
  <2> QED
    BY <2>1, <2>2
<1>5. (\A a \in Attributes(t, p) : t[a].name # t[c].name) => same = {}
  OBVIOUS
<1> HIDE DEF w, same, one
<1>6. Well(u) /\ \A m \in Cell : u[m].kind = w[m].kind /\ u[m].name = w[m].name
  BY <1>2, <1>4, JoinAttributes
<1> QED
  BY <1>1, <1>4, <1>5, <1>6

\* Content joins behind the last child.
LEMMA JoinContent ==
  ASSUME NEW t, Well(t), NEW p, NEW c, MayJoin(t, p, c), t[c].doc = t[p].doc, ~IsAttr(t, c),
         t[p].last # Nil, NEW u, u = LinkAfter(t, p, t[p].last, c)
  PROVE  Well(u) /\ \A m \in Cell : u[m].kind = t[m].kind /\ u[m].name = t[m].name
<1> DEFINE l == t[p].last
<1>1. /\ Typed(t) /\ Inside(t) /\ Ended(t) /\ p \in Cell /\ p \in Cell \cup {Nil}
      /\ p \in Upwards(t, p) /\ Unlinked(t, c) /\ t[c].up = Nil /\ Used(t, c) /\ c \in Node
      /\ c \notin Upwards(t, p) /\ p # Nil
  BY UpwardsFacts, Cells DEF Well, Linked, MayJoin, Unlinked
<1>2. l # Nil /\ u = LinkAfter(t, p, l, c) /\ l = t[p].last
  OBVIOUS
<1> HIDE DEF l
<1>3. l \in Node /\ l \in Cell /\ Used(t, l) /\ t[l].up = p /\ t[l].next = Nil /\ ~IsAttr(t, l)
  <2>1. l \in Node
    BY <1>1, <1>2, Types
  <2> QED
    BY <1>1, <1>2, <2>1, Cells DEF Inside, Ended
<1>4. l # c /\ l # p /\ c # p
  BY <1>1, <1>3, NoLoop
<1>5. IsAttr(t, l) = IsAttr(t, c)
  BY <1>3 DEF IsAttr
<1>6. Well(u)
  BY <1>1, <1>2, <1>3, <1>4, <1>5, LinkAfterKeeps
<1> QED
  BY <1>1, <1>2, <1>3, <1>4, <1>6, LinkAfterIs

\* Content, and text that merges
LEMMA AddContentNodeKeeps ==
  ASSUME NEW t, Well(t), NEW p, NEW c, MayJoin(t, p, c), ~IsAttr(t, c),
         NEW u, u = AddChild(t, p, c)
  PROVE  /\ Well(u)
         /\ t[c].kind # "text" =>
              \A m \in Cell : u[m].kind = t[m].kind /\ u[m].name = t[m].name
<1> DEFINE s == SetTreeDoc(t, c, t[p].doc)
<1>1. /\ Well(s) /\ MayJoin(s, p, c) /\ s[c].doc = s[p].doc
      /\ \A m \in Cell :
           /\ s[m].kind = t[m].kind /\ s[m].name = t[m].name /\ s[m].up = t[m].up
           /\ s[m].last = t[m].last /\ s[m].next = t[m].next
  BY DocThenJoins
<1>2. u = IF t[p].last = Nil THEN LinkOnly(s, p, c)
          ELSE IF t[c].kind = "text" /\ t[t[p].last].kind = "text" THEN FreeNode(t, c)
          ELSE LinkAfter(s, p, t[p].last, c)
  BY DEF AddChild, IsAttr
<1> HIDE DEF s
<1>3. /\ p \in Cell /\ p # Nil /\ c \in Node /\ c \in Cell /\ p # c /\ Typed(s)
      /\ Unlinked(t, c) /\ Unlinked(s, c) /\ s[c].up = Nil /\ Used(s, c)
      /\ ~IsAttr(s, c)
  <2>1. Typed(t) /\ UpEnds(t)
    BY DEF Well
  <2>2. p \in Cell => p \in Upwards(t, p)
    BY <2>1, UpwardsFacts
  <2> QED
    BY <1>1, <2>2, Cells DEF MayJoin, Unlinked, Well, IsAttr
<1>4. CASE t[p].last = Nil
  <2>1. u = LinkOnly(s, p, c) /\ s[p].last = Nil
    BY <1>1, <1>2, <1>3, <1>4
  <2>2. \A m \in Cell : s[m].up = p => IsAttr(s, m)
    BY <1>1, <1>3, <2>1, ChildEnds
  <2>3. Well(u)
    <3>1. \A m \in Cell : s[m].up = p => IsAttr(s, m) # IsAttr(s, c)
      BY <1>3, <2>2 DEF IsAttr
    <3> QED
      BY <1>1, <2>1, <3>1, LinkOnlyKeeps
  <2>4. \A m \in Cell : u[m].kind = s[m].kind /\ u[m].name = s[m].name
    BY <1>3, <2>1, LinkOnlyIs
  <2> QED
    BY <1>1, <2>3, <2>4
<1>5. CASE t[p].last # Nil /\ t[c].kind = "text" /\ t[t[p].last].kind = "text"
  <2>1. u = FreeNode(t, c)
    BY <1>2, <1>5
  <2> QED
    BY <1>3, <1>5, <2>1, FreeNodeKeeps
<1>6. CASE t[p].last # Nil /\ ~(t[c].kind = "text" /\ t[t[p].last].kind = "text")
  <2>1. s[p].last # Nil /\ u = LinkAfter(s, p, s[p].last, c)
    BY <1>1, <1>2, <1>3, <1>6
  <2> QED
    BY <1>1, <1>3, <2>1, JoinContent
<1> QED
  BY <1>4, <1>5, <1>6

LEMMA AddChildKeeps ==
  ASSUME NEW t, Well(t), NEW p, NEW c, MayJoin(t, p, c), NEW u, u = AddChild(t, p, c)
  PROVE  Well(u)
BY AddAttributeKeeps, AddContentNodeKeeps

\* xmlAddSibling
LEMMA AddSiblingKeeps ==
  ASSUME NEW t, Well(t), NEW s \in Node, Used(t, s), ~IsAttr(t, s),
         NEW c \in Node, Used(t, c), ~IsAttr(t, c), Unlinked(t, c), c # s,
         c \notin Upwards(t, s), NEW u, u = AddSibling(t, s, c)
  PROVE  Well(u)
<1> DEFINE last == LastOf(t, Siblings(t, s))
           v == SetTreeDoc(t, c, t[s].doc)
           p == t[s].up
<1>1. /\ last \in Node /\ Used(t, last) /\ t[last].next = Nil
      /\ t[last].up = p /\ ~IsAttr(t, last) /\ last # c
  <2>1. c \in Cell
    BY Cells
  <2> QED
    BY <2>1, LastSibling DEF IsAttr
<1>2. u = IF t[c].kind = "text" /\ t[last].kind = "text" THEN FreeNode(t, c)
          ELSE LinkAfter(v, p, last, c)
  BY DEF AddSibling
<1> HIDE DEF last
<1>3. /\ Typed(t) /\ UpEnds(t) /\ Placed(t) /\ s \in Cell /\ c \in Cell /\ last \in Cell
      /\ t[c].up = Nil /\ p \in Cell \cup {Nil} /\ t[s].doc \in Doc \cup {Nil}
      /\ t[c].next = Nil /\ t[c].prev = Nil /\ Nil \notin Cell
  BY <1>1, Types, Cells DEF Well, Linked, Unlinked
<1>4. CASE t[c].kind = "text" /\ t[last].kind = "text"
  BY <1>2, <1>4, FreeNodeKeeps
<1>5. CASE ~(t[c].kind = "text" /\ t[last].kind = "text")
  <2>1. u = LinkAfter(v, p, last, c)
    BY <1>2, <1>5
  <2>2. \A m \in Cell :
          /\ v[m].kind = t[m].kind /\ v[m].name = t[m].name /\ v[m].up = t[m].up
          /\ v[m].next = t[m].next /\ v[m].prev = t[m].prev
          /\ v[m].doc = IF m \in Subtree(t, c) THEN t[s].doc ELSE t[m].doc
    BY <1>3, SetTreeDocIs, SMTT(20)
  <2>3. Well(v)
    BY <1>3, SetTreeDocKeeps
  <2>4. c \in Subtree(t, c)
    BY <1>3, SubtreeFacts
  <2> HIDE DEF v
  <2>5. Upwards(t, s) = {s} \cup Upwards(t, p)
    BY <1>3, UpwardsFacts
  <2>6. ASSUME p # Nil
        PROVE  MayJoin(v, p, c) /\ v[c].doc = v[p].doc
    <3>1. /\ p \in Cell /\ Used(t, p) /\ t[p].kind \in ParentKind /\ t[s].doc = t[p].doc
          /\ c \notin Upwards(t, p)
      BY <1>3, <2>5, <2>6 DEF Placed, Well, Linked, Inside
    <3>2. c \notin Upwards(v, p)
      BY <2>2, <2>3, <3>1, UpwardsLess
    <3>3. v[c].doc = t[s].doc /\ v[p].doc = t[p].doc
      BY <1>3, <2>2, <2>4, <3>1 DEF Subtree
    <3> QED
      BY <1>3, <2>2, <3>1, <3>2, <3>3 DEF MayJoin, Used, IsAttr, Unlinked
  <2>7. /\ Used(v, c) /\ Unlinked(v, c) /\ Used(v, last) /\ v[last].up = p /\ v[last].next = Nil
        /\ IsAttr(v, last) = IsAttr(v, c) /\ ~IsAttr(v, c)
    BY <1>1, <1>3, <2>2 DEF Used, Unlinked, IsAttr
  <2> HIDE DEF p
  <2> QED
    BY <1>1, <1>3, <2>1, <2>3, <2>6, <2>7, LinkAfterKeeps
<1> QED
  BY <1>4, <1>5

-----------------------------------------------------------------------------
(***************************************************************************)
(* Contents and properties                                                 *)
(***************************************************************************)
\* What is freed with the content of n
Gone(t, n) == UNION {Subtree(t, m) : m \in Below(t, n)}

\* No link leads into it but from n.
LEMMA GoneFacts ==
  ASSUME NEW t, Well(t), NEW n \in Cell
  PROVE  LET gone == Gone(t, n) IN
         /\ gone \subseteq Node /\ n \notin gone
         /\ \A m \in Cell : t[m].up = n /\ ~IsAttr(t, m) => m \in gone
         /\ \A m \in Cell \ gone :
              /\ t[m].up \notin gone /\ t[m].next \notin gone /\ t[m].prev \notin gone
              /\ t[m].props \notin gone
              /\ m # n => t[m].first \notin gone /\ t[m].last \notin gone
<1> DEFINE gone == Gone(t, n)
<1>1. /\ Typed(t) /\ Sorted(t) /\ Ended(t) /\ Nil \notin Cell /\ n # Nil
      /\ Cell = Doc \cup Node
  BY Cells DEF Well, Linked
<1>2. ASSUME NEW b \in Below(t, n)
      PROVE  /\ b \in Cell /\ t[b].up = n /\ ~IsAttr(t, b) /\ b \in Subtree(t, b)
             /\ Subtree(t, b) \subseteq Node /\ n \notin Subtree(t, b)
             /\ \A m \in Cell : t[m].up \in Subtree(t, b) => m \in Subtree(t, b)
             /\ \A m \in Subtree(t, b) \ {b} : t[m].up \in Subtree(t, b)
  <2>1. b \in Cell /\ t[b].up = n /\ ~IsAttr(t, b)
    BY DEF Below, IsAttr
  <2>2. b \in Node
    BY <1>1, <2>1 DEF Sorted
  <2> QED
    BY <2>1, <2>2, SubtreeFacts
<1>3. gone \subseteq Node /\ n \notin gone /\ gone \subseteq Cell /\ Nil \notin gone
  BY <1>1, <1>2 DEF Gone
<1>4. \A m \in Cell : t[m].up = n /\ ~IsAttr(t, m) => m \in gone
  <2> SUFFICES ASSUME NEW m \in Cell, t[m].up = n, ~IsAttr(t, m) PROVE m \in gone
    OBVIOUS
  <2>1. m \in Below(t, n)
    BY DEF Below, IsAttr
  <2> QED
    BY <1>2, <2>1 DEF Gone
<1>5. \A m \in Cell : t[m].up \in gone => m \in gone
  BY <1>2 DEF Gone
<1>6. \A m \in gone : t[m].up \in gone \/ (t[m].up = n /\ ~IsAttr(t, m))
  BY <1>2 DEF Gone
<1> HIDE DEF gone
<1>7. ASSUME NEW m \in Cell \ gone
      PROVE  /\ t[m].up \notin gone /\ t[m].next \notin gone /\ t[m].prev \notin gone
             /\ t[m].props \notin gone
             /\ m # n => t[m].first \notin gone /\ t[m].last \notin gone
  <2>1. t[m].up \notin gone
    BY <1>5
  <2>2. t[m].next \notin gone /\ t[m].prev \notin gone
    <3>1. \A x \in gone : ~(t[x].up = t[m].up /\ IsAttr(t, x) = IsAttr(t, m))
      BY <1>4, <1>6, <2>1 DEF IsAttr
    <3> QED
      BY <1>3, <3>1, Neighbours
  <2>3. /\ t[m].props \in gone => t[t[m].props].up = m /\ IsAttr(t, t[m].props)
        /\ t[m].first \in gone => t[t[m].first].up = m
        /\ t[m].last \in gone => t[t[m].last].up = m
    BY <1>1, <1>3 DEF Ended
  <2> QED
    BY <1>6, <2>1, <2>2, <2>3
<1> QED
  BY <1>3, <1>4, <1>7 DEF gone

\* A node without its content
LEMMA EmptiedKeeps ==
  ASSUME NEW t, Well(t), NEW n \in Cell, Used(t, n), NEW gone \in SUBSET Node, n \notin gone,
         \A m \in Cell : t[m].up = n /\ ~IsAttr(t, m) => m \in gone,
         \A m \in Cell \ gone :
           /\ t[m].up \notin gone /\ t[m].next \notin gone /\ t[m].prev \notin gone
           /\ t[m].props \notin gone
           /\ m # n => t[m].first \notin gone /\ t[m].last \notin gone,
         NEW u, Typed(u), \A m \in gone : u[m] = Unused,
         \A m \in Cell \ gone :
           /\ u[m].kind = t[m].kind /\ u[m].name = t[m].name /\ u[m].doc = t[m].doc
           /\ u[m].up = t[m].up /\ u[m].next = t[m].next /\ u[m].prev = t[m].prev
           /\ u[m].props = t[m].props
           /\ u[m].first = IF m = n THEN Nil ELSE t[m].first
           /\ u[m].last = IF m = n THEN Nil ELSE t[m].last
           /\ m # n => u[m] = t[m]
  PROVE  /\ Well(u) /\ u[n].kind = t[n].kind
         /\ \A m \in Cell : ~Used(t, m) => ~Used(u, m)
<1>1. /\ Typed(t) /\ Sorted(t) /\ Linked(t) /\ Named(t) /\ UpEnds(t) /\ NextEnds(t)
      /\ Inside(t) /\ Chained(t) /\ Ended(t) /\ Placed(t) /\ n # Nil /\ Typed(u)
  BY Cells DEF Well, Linked
<1>2. /\ gone \subseteq Cell
      /\ \A m \in Cell : t[m].up = n /\ ~IsAttr(t, m) => m \in gone
      /\ \A m \in Cell \ gone :
           /\ t[m].up \notin gone /\ t[m].next \notin gone /\ t[m].prev \notin gone
           /\ t[m].props \notin gone
           /\ m # n => t[m].first \notin gone /\ t[m].last \notin gone
  BY Cells
<1>5. \A m \in gone : /\ u[m] = Unused
                      /\ ~Used(u, m) /\ ~IsAttr(u, m) /\ u[m].name = "none"
                      /\ u[m].up = Nil /\ u[m].first = Nil /\ u[m].last = Nil
                      /\ u[m].next = Nil /\ u[m].prev = Nil /\ u[m].props = Nil
  BY DEF Unused, Fresh, Used, IsAttr
<1>6. \A m \in Cell \ gone :
        /\ u[m].kind = t[m].kind /\ u[m].name = t[m].name /\ u[m].doc = t[m].doc
        /\ u[m].up = t[m].up /\ u[m].next = t[m].next /\ u[m].prev = t[m].prev
        /\ u[m].props = t[m].props
        /\ u[m].first = IF m = n THEN Nil ELSE t[m].first
        /\ u[m].last = IF m = n THEN Nil ELSE t[m].last
        /\ m # n => u[m] = t[m]
  OBVIOUS
<1>7. \A m \in Cell \ gone :
        /\ t[m].up \in (Cell \ gone) \cup {Nil} /\ t[m].next \in (Cell \ gone) \cup {Nil}
        /\ t[m].prev \in (Cell \ gone) \cup {Nil} /\ t[m].props \in (Cell \ gone) \cup {Nil}
        /\ m # n => /\ t[m].first \in (Cell \ gone) \cup {Nil}
                    /\ t[m].last \in (Cell \ gone) \cup {Nil}
  BY <1>1, <1>2, Types, Cells
<1>9. Sorted(u)
  <2>1. \A m \in Cell : ~Used(u, m) => u[m] = Unused
    BY <1>1, <1>5, <1>6 DEF Sorted, Used
  <2>2. \A m \in Doc : m \in Cell \ gone
    BY <1>2, Cells
  <2> QED
    BY <1>1, <1>2, <1>5, <1>6, <2>1, <2>2, Cells DEF Sorted, Used, IsAttr
<1>10. Inside(u)
  BY <1>1, <1>5, <1>6, <1>7 DEF Inside, Used
<1>11. Chained(u)
  BY <1>1, <1>5, <1>6, <1>7 DEF Chained, IsAttr
<1>12. Ended(u)
  <2> SUFFICES ASSUME NEW m \in Cell
               PROVE  /\ u[m].first # Nil => /\ u[u[m].first].up = m /\ u[u[m].first].prev = Nil
                                             /\ ~IsAttr(u, u[m].first)
                      /\ u[m].last # Nil => /\ u[u[m].last].up = m /\ u[u[m].last].next = Nil
                                            /\ ~IsAttr(u, u[m].last)
                      /\ u[m].props # Nil => /\ u[u[m].props].up = m /\ u[u[m].props].prev = Nil
                                             /\ IsAttr(u, u[m].props)
    BY DEF Ended
  <2>1. u[m].first # Nil => /\ u[u[m].first].up = m /\ u[u[m].first].prev = Nil
                            /\ ~IsAttr(u, u[m].first)
    BY <1>1, <1>5, <1>6, <1>7 DEF Ended, IsAttr
  <2>2. u[m].last # Nil => /\ u[u[m].last].up = m /\ u[u[m].last].next = Nil
                           /\ ~IsAttr(u, u[m].last)
    BY <1>1, <1>5, <1>6, <1>7 DEF Ended, IsAttr
  <2>3. u[m].props # Nil => /\ u[u[m].props].up = m /\ u[u[m].props].prev = Nil
                            /\ IsAttr(u, u[m].props)
    BY <1>1, <1>5, <1>6, <1>7 DEF Ended, IsAttr
  <2> QED
    BY <2>1, <2>2, <2>3
<1>13. Placed(u)
  <2> SUFFICES ASSUME NEW m \in Cell, u[m].up # Nil
               PROVE  /\ u[m].prev = Nil => IF IsAttr(u, m) THEN u[u[m].up].props = m
                                            ELSE u[u[m].up].first = m
                      /\ u[m].next = Nil /\ ~IsAttr(u, m) => u[u[m].up].last = m
                      /\ u[u[m].up].kind \in ParentKind
                      /\ IsAttr(u, m) => u[u[m].up].kind = "element"
                      /\ u[m].doc = u[u[m].up].doc
    BY DEF Placed
  <2>1. m \in Cell \ gone /\ u[m].up = t[m].up /\ t[m].up \in Cell \ gone /\ t[m].up # Nil
    BY <1>5, <1>6, <1>7
  <2>2. t[m].up = n => IsAttr(t, m)
    BY <1>2, <2>1
  <2> QED
    BY <1>1, <1>6, <2>1, <2>2 DEF Placed, IsAttr
<1>14. Named(u)
  BY <1>1, <1>5, <1>6 DEF Named, IsAttr
<1>15. UpEnds(u) /\ NextEnds(u)
  <2>1. \A m \in Cell : u[m].up \in {t[m].up, Nil} /\ u[m].next \in {t[m].next, Nil}
    BY <1>5, <1>6
  <2> QED
    BY <1>1, <2>1, Shortened
<1>16. \A m \in Cell : ~Used(t, m) => ~Used(u, m)
  BY <1>5, <1>6 DEF Used
<1> QED
  BY <1>1, <1>2, <1>6, <1>9, <1>10, <1>11, <1>12, <1>13, <1>14, <1>15, <1>16 DEF Well, Linked

\* A new text may join an element or an attribute.
LEMMA NewText ==
  ASSUME NEW t, Well(t), NEW n \in Cell, Used(t, n), t[n].kind \in ParentKind,
         NEW v \in Node, ~Used(t, v)
  PROVE  Well(Text(v, t)) /\ MayJoin(Text(v, t), n, v)
<1>1. "text" \in NodeKind /\ "text" \in Kind
  BY DEF NodeKind, Kind, Document
<1>2. "none" \in AttrName \cup {"xml:base", "xml:lang", "none"}
  OBVIOUS
<1>3. Typed(t)
  BY DEF Well
<1> DEFINE w == Text(v, t)
<1>4. /\ Typed(w) /\ w[v] = Fresh("text", "none")
      /\ \A m \in Cell \ {v} : w[m] = t[m]
  BY <1>1, <1>2, <1>3, FreshCell DEF Text
<1> HIDE DEF w
<1>6. /\ "none" # "none" <=> "text" = "attribute"
      /\ "text" = "attribute" => t[n].kind = "element"
  OBVIOUS
<1>7. Well(w) /\ MayJoin(w, n, v)
  BY <1>1, <1>2, <1>4, <1>6, NewJoins
<1> QED
  BY <1>7 DEF w

\* xmlNodeSetContent
LEMMA SetContentKeeps ==
  ASSUME NEW t, Well(t), NEW n \in Cell, Used(t, n), NEW v \in Node \cup {Nil},
         v # Nil => ~Used(t, v), NEW u, u = SetContent(t, n, v)
  PROVE  Well(u)
<1> DEFINE gone == Gone(t, n)
           x == [m \in Cell |->
                   CASE m = n -> [t[n] EXCEPT !.first = Nil, !.last = Nil]
                     [] m \in gone -> Unused
                     [] OTHER -> t[m]]
           w == Text(v, x)
<1>1. u = IF t[n].kind \notin {"element", "attribute", "fragment"} THEN t
          ELSE IF v = Nil THEN x ELSE AddChild(w, n, v)
  BY DEF SetContent, Gone
<1>2. /\ Well(x) /\ x[n].kind = t[n].kind
      /\ \A m \in Cell : ~Used(t, m) => ~Used(x, m)
  <2>1. /\ gone \in SUBSET Node /\ gone \subseteq Cell /\ n \notin gone
        /\ \A m \in Cell : t[m].up = n /\ ~IsAttr(t, m) => m \in gone
        /\ \A m \in Cell \ gone :
             /\ t[m].up \notin gone /\ t[m].next \notin gone /\ t[m].prev \notin gone
             /\ t[m].props \notin gone
             /\ m # n => t[m].first \notin gone /\ t[m].last \notin gone
    BY GoneFacts, Cells
  <2> HIDE DEF gone
  <2>2. /\ x = [m \in Cell |-> x[m]]
        /\ x[n] = [t[n] EXCEPT !.first = Nil, !.last = Nil]
        /\ \A m \in gone : x[m] = Unused
        /\ \A m \in Cell \ (gone \cup {n}) : x[m] = t[m]
    BY <2>1
  <2> HIDE DEF x
  <2>3. Typed(t) /\ t[n] \in CellState /\ Unused \in CellState
    BY Types, FreshIs DEF Well, Unused
  <2>4. /\ x[n] \in CellState /\ x[n].kind = t[n].kind /\ x[n].name = t[n].name
        /\ x[n].doc = t[n].doc /\ x[n].up = t[n].up /\ x[n].next = t[n].next
        /\ x[n].prev = t[n].prev /\ x[n].props = t[n].props
        /\ x[n].first = Nil /\ x[n].last = Nil
    <3>1. x[n] = [t[n] EXCEPT !.first = Nil, !.last = Nil]
      BY <2>2
    <3>2. x[n] \in CellState
      BY <2>3, <3>1 DEF CellState
    <3> QED
      BY <2>3, <3>1, <3>2 DEF CellState
  <2>5. Typed(x)
    <3>1. ASSUME NEW m \in Cell
          PROVE  x[m] \in CellState
      <4>1. t[m] \in CellState
        BY <2>3, Types
      <4> QED
        BY <2>2, <2>3, <2>4, <4>1
    <3> QED
      BY <2>2, <3>1 DEF Typed
  <2>6. \A m \in Cell \ gone :
          /\ x[m].kind = t[m].kind /\ x[m].name = t[m].name /\ x[m].doc = t[m].doc
          /\ x[m].up = t[m].up /\ x[m].next = t[m].next /\ x[m].prev = t[m].prev
          /\ x[m].props = t[m].props
          /\ x[m].first = IF m = n THEN Nil ELSE t[m].first
          /\ x[m].last = IF m = n THEN Nil ELSE t[m].last
          /\ m # n => x[m] = t[m]
    BY <2>2, <2>4
  <2>7. \A m \in gone : x[m] = Unused
    BY <2>2
  <2> QED
    BY <2>1, <2>5, <2>6, <2>7, EmptiedKeeps
<1>3. w = Text(v, x)
  OBVIOUS
<1> HIDE DEF gone, x, w
<1>4. CASE t[n].kind \notin {"element", "attribute", "fragment"}
  BY <1>1, <1>4
<1>5. CASE t[n].kind \in {"element", "attribute", "fragment"} /\ v = Nil
  BY <1>1, <1>2, <1>5
<1>6. CASE t[n].kind \in {"element", "attribute", "fragment"} /\ v # Nil
  <2>1. u = AddChild(w, n, v) /\ v \in Node /\ v \in Cell
    BY <1>1, <1>6, Cells
  <2>2. t[n].kind \in ParentKind
    BY <1>6, Cells DEF Well, Sorted, NodeKind, ParentKind
  <2>3. ~Used(x, v) /\ Used(x, n) /\ x[n].kind \in ParentKind
    BY <1>2, <1>6, <2>1, <2>2 DEF Used
  <2>4. Well(w) /\ MayJoin(w, n, v)
    BY <1>2, <1>3, <2>1, <2>3, NewText
  <2> QED
    BY <2>1, <2>4, AddChildKeeps
<1> QED
  BY <1>4, <1>5, <1>6

\* xmlNodeAddContent
LEMMA AddContentKeeps ==
  ASSUME NEW t, Well(t), NEW n \in Cell, Used(t, n), NEW v \in Node, ~Used(t, v),
         NEW u, u = AddContent(t, n, v)
  PROVE  Well(u)
<1>1. CASE t[n].kind \notin {"element", "fragment"}
  BY <1>1 DEF AddContent
<1>2. CASE t[n].kind \in {"element", "fragment"}
  <2> DEFINE w == Text(v, t)
  <2>1. u = AddChild(w, n, v) /\ w = Text(v, t)
    BY <1>2 DEF AddContent
  <2> HIDE DEF w
  <2>2. t[n].kind \in ParentKind
    BY <1>2, Cells DEF Well, Sorted, NodeKind, ParentKind
  <2>3. Well(w) /\ MayJoin(w, n, v)
    BY <2>1, <2>2, NewText
  <2> QED
    BY <2>1, <2>3, AddChildKeeps
<1> QED
  BY <1>1, <1>2

\* xmlSetProp, xmlNewProp
LEMMA SetPropKeeps ==
  ASSUME NEW t, Well(t), NEW n \in Cell, Used(t, n),
         NEW name \in AttrName \cup {"xml:base", "xml:lang"}, name # "none",
         NEW a \in Node, ~Used(t, a), NEW v \in Node, ~Used(t, v), a # v,
         NEW u, u = SetProp(t, n, name, a, v)
  PROVE  Well(u)
<1> DEFINE same == {m \in Attributes(t, n) : t[m].name = name}
           one == CHOOSE m \in same : TRUE
           w == [t EXCEPT ![a] = Fresh("attribute", name)]
           new == AddChild(w, n, a)
<1>1. u = CASE t[n].kind # "element" -> t
            [] same # {} -> SetContent(t, one, v)
            [] OTHER -> SetContent(new, a, v)
  BY DEF SetProp
<1> HIDE DEF same, one, w, new
<1>2. v \in Node \cup {Nil} /\ v \in Cell /\ a \in Cell /\ v # Nil
  BY Cells
<1>3. CASE t[n].kind # "element"
  <2>1. same = {}
    BY <1>3, Cells DEF same, Attributes, Well, Linked, Placed, IsAttr
  <2> QED
    BY <1>1, <1>3, <2>1
<1>4. CASE t[n].kind = "element" /\ same # {}
  <2>1. one \in same
    BY <1>4 DEF one
  <2>2. one \in Cell /\ Used(t, one)
    BY <2>1 DEF same, Attributes, Used
  <2>3. u = SetContent(t, one, v)
    BY <1>1, <1>4
  <2> QED
    BY <1>2, <2>2, <2>3, SetContentKeeps
<1>5. CASE t[n].kind = "element" /\ same = {}
  <2>1. u = SetContent(new, a, v)
    BY <1>1, <1>5
  <2>2. /\ Well(w) /\ MayJoin(w, n, a) /\ w[a].kind = "attribute" /\ w[a].name = name
        /\ \A m \in Cell \ {a} : w[m] = t[m]
    <3>1. "attribute" \in NodeKind /\ t[n].kind \in ParentKind
      BY <1>5 DEF NodeKind, Kind, Document, ParentKind
    <3>2. name \in AttrName \cup {"xml:base", "xml:lang", "none"}
      OBVIOUS
    <3>3. Typed(t) /\ "attribute" \in Kind
      BY DEF Well, Kind
    <3>4. /\ Typed(w) /\ w[a] = Fresh("attribute", name)
          /\ \A m \in Cell \ {a} : w[m] = t[m]
      BY <3>2, <3>3, FreshCell DEF w
    <3> QED
      BY <1>5, <3>1, <3>2, <3>3, <3>4, NewJoins
  <2>3. \A m \in Attributes(w, n) : w[m].name # w[a].name
    <3> SUFFICES ASSUME NEW m \in Attributes(w, n) PROVE w[m].name # name
      BY <2>2
    <3>1. m \in Cell /\ w[m].up = n /\ w[m].kind = "attribute"
      BY DEF Attributes
    <3>2. m # a
      BY <2>2, <3>1, Cells DEF MayJoin, Unlinked
    <3> QED
      BY <1>5, <2>2, <3>1, <3>2 DEF same, Attributes
  <2>4. Well(new) /\ \A m \in Cell : new[m].kind = w[m].kind
    BY <2>2, <2>3, AddAttributeKeeps DEF IsAttr, new
  <2>5. Used(new, a) /\ ~Used(new, v)
    BY <1>2, <2>2, <2>4 DEF Used
  <2> QED
    BY <1>2, <2>1, <2>4, <2>5, SetContentKeeps
<1> QED
  BY <1>3, <1>4, <1>5

\* xmlRemoveProp
LEMMA RemovePropKeeps ==
  ASSUME NEW t, Well(t), NEW a \in Node, Used(t, a), NEW u, u = RemoveProp(t, a)
  PROVE  Well(u)
BY UnlinkKeeps, FreeNodeKeeps DEF RemoveProp

-----------------------------------------------------------------------------
(***************************************************************************)
(* The root of a document                                                  *)
(***************************************************************************)
\* A walk from the first child along next meets what is below, and one from the
\* first attribute the attributes.
LEMMA WalkIs ==
  ASSUME NEW t, Well(t), NEW n \in Cell
  PROVE  /\ Reach(NextLink(t), t[n].first) = Below(t, n)
         /\ Reach(NextLink(t), t[n].props) = Attributes(t, n)
<1> DEFINE l == NextLink(t)
<1>1. /\ Typed(t) /\ Ended(t) /\ Placed(t) /\ Nil \notin Cell /\ n # Nil
      /\ l \in Links /\ \A m \in Cell : l[m] = t[m].next
  BY Cells, LinkTypes DEF Well, Linked, NextLink
<1> HIDE DEF l
<1>2. ASSUME NEW A \in SUBSET Cell, NEW s \in Cell \cup {Nil}, s # Nil => s \in A,
             \A m \in A : t[m].next \in A \cup {Nil} /\ t[m].prev \in A \cup {Nil},
             \A m \in A : t[m].prev = Nil => m = s
      PROVE  Reach(l, s) = A
  <2>1. CASE s = Nil
    <3>1. A = {}
      <4> SUFFICES ASSUME A # {} PROVE FALSE
        OBVIOUS
      <4>1. PICK m \in A : t[m].prev = Nil
        BY <1>2, ChainEnds
      <4> QED
        BY <1>1, <1>2, <2>1, <4>1
    <3> QED
      BY <2>1, <3>1 DEF Reach
  <2>2. CASE s \in Cell
    <3>1. s \in A /\ Within(l, A)
      BY <1>1, <1>2, <2>2 DEF Within
    <3>2. /\ s \in Reach(l, s) /\ Reach(l, s) \in SUBSET Cell /\ Within(l, Reach(l, s))
          /\ Reach(l, s) \subseteq A
      BY <1>1, <2>2, <3>1, ReachFacts
    <3> DEFINE B == A \ Reach(l, s)
    <3>3. \A m \in B : t[m].prev \in B
      <4> SUFFICES ASSUME NEW m \in B PROVE t[m].prev \in B
        OBVIOUS
      <4>1. t[m].prev \in A
        BY <1>2, <3>2
      <4>2. t[t[m].prev].next = m
        BY <1>1, <4>1, Neighbours
      <4>3. t[m].prev \notin Reach(l, s)
        BY <1>1, <4>1, <4>2, <3>2 DEF Within
      <4> QED
        BY <4>1, <4>3
    <3>4. B = {}
      <4> SUFFICES ASSUME B # {} PROVE FALSE
        OBVIOUS
      <4>1. B \in SUBSET Cell /\ \A m \in B : t[m].prev \in B \cup {Nil}
        BY <3>3
      <4>2. Nil \notin B
        BY <1>1
      <4> HIDE DEF B
      <4>3. PICK m \in B : t[m].prev = Nil
        BY <4>1, ChainEnds
      <4> QED
        BY <3>3, <4>2, <4>3
    <3> QED
      BY <3>2, <3>4
  <2> QED
    BY <2>1, <2>2
<1>3. Reach(l, t[n].first) = Below(t, n)
  <2> DEFINE A == Below(t, n)
             s == t[n].first
  <2>1. A \in SUBSET Cell /\ \A m \in A : m \in Cell /\ t[m].up = n /\ ~IsAttr(t, m)
    BY DEF Below, IsAttr
  <2>2. \A m \in A : t[m].next \in A \cup {Nil} /\ t[m].prev \in A \cup {Nil}
    BY <2>1, Neighbours, Cells DEF Below, IsAttr
  <2>3. s \in Cell \cup {Nil} /\ (s # Nil => s \in A)
    BY <1>1, Types, Cells DEF Ended, Below, IsAttr
  <2>4. \A m \in A : t[m].prev = Nil => m = s
    BY <1>1, <2>1 DEF Placed
  <2> HIDE DEF A, s
  <2>5. Reach(l, s) = A
    BY <1>2, <2>1, <2>2, <2>3, <2>4
  <2> QED
    BY <2>5 DEF A, s
<1>4. Reach(l, t[n].props) = Attributes(t, n)
  <2> DEFINE A == Attributes(t, n)
             s == t[n].props
  <2>1. A \in SUBSET Cell /\ \A m \in A : m \in Cell /\ t[m].up = n /\ IsAttr(t, m)
    BY DEF Attributes, IsAttr
  <2>2. \A m \in A : t[m].next \in A \cup {Nil} /\ t[m].prev \in A \cup {Nil}
    BY <2>1, Neighbours, Cells DEF Attributes, IsAttr
  <2>3. s \in Cell \cup {Nil} /\ (s # Nil => s \in A)
    BY <1>1, Types, Cells DEF Ended, Attributes, IsAttr
  <2>4. \A m \in A : t[m].prev = Nil => m = s
    BY <1>1, <2>1 DEF Placed
  <2> HIDE DEF A, s
  <2>5. Reach(l, s) = A
    BY <1>2, <2>1, <2>2, <2>3, <2>4
  <2> QED
    BY <2>5 DEF A, s
<1> QED
  BY <1>3, <1>4 DEF l

\* The root is an element below the document, if there is one.
LEMMA RootElementIs ==
  ASSUME NEW t, Well(t), NEW d \in Cell, NEW r, r = RootElement(t, d)
  PROVE  IF \E m \in Below(t, d) : t[m].kind = "element"
         THEN r \in Below(t, d) /\ t[r].kind = "element"
         ELSE r = Nil
<1> DEFINE next == NextLink(t)
           stop == [m \in Cell |-> IF t[m].kind = "element" THEN Nil ELSE t[m].next]
           Met(m) == {x \in Reach(stop, m) : t[x].kind = "element"}
           g == [m \in Cell \cup {Nil} |-> IF Met(m) = {} THEN Nil ELSE CHOOSE x \in Met(m) : TRUE]
           s == t[d].first
<1>1. /\ next \in Links /\ Ends(next) /\ \A m \in Cell : next[m] = t[m].next
      /\ Reach(next, s) = Below(t, d) /\ s \in Cell \cup {Nil} /\ Nil \notin Cell
  BY LinkTypes, WalkIs, Types, Cells DEF NextLink, Well
<1>2. /\ stop \in Links
      /\ \A m \in Cell : stop[m] = IF t[m].kind = "element" THEN Nil ELSE next[m]
  BY <1>1 DEF Links
<1>3. /\ g[Nil] = Nil
      /\ \A m \in Cell : g[m] = IF t[m].kind = "element" THEN m ELSE g[next[m]]
      /\ \A m \in Cell \cup {Nil} : g[m] = IF Met(m) = {} THEN Nil ELSE CHOOSE x \in Met(m) : TRUE
  <2>1. Reach(stop, Nil) = {}
    BY DEF Reach
  <2>2. \A m \in Cell : Reach(stop, m) = {m} \cup Reach(stop, stop[m])
    BY <1>2, ReachStep
  <2> HIDE DEF stop
  <2>3. \A m \in Cell : Met(m) = IF t[m].kind = "element" THEN {m} ELSE Met(next[m])
    BY <1>2, <2>1, <2>2
  <2>4. Met(Nil) = {}
    BY <2>1
  <2>5. \A m \in Cell \cup {Nil} : g[m] = IF Met(m) = {} THEN Nil ELSE CHOOSE x \in Met(m) : TRUE
    OBVIOUS
  <2> HIDE DEF g, Met
  <2>6. \A m \in Cell : next[m] \in Cell \cup {Nil}
    BY <1>1 DEF Links
  <2>7. \A m \in Cell : t[m].kind = "element" => g[m] = m
    <3> SUFFICES ASSUME NEW m \in Cell, t[m].kind = "element" PROVE g[m] = m
      OBVIOUS
    <3>1. Met(m) = {m}
      BY <2>3
    <3>2. (CHOOSE x \in {m} : TRUE) = m
      OBVIOUS
    <3> QED
      BY <2>5, <3>1, <3>2
  <2>8. \A m \in Cell : t[m].kind # "element" => g[m] = g[next[m]]
    <3> SUFFICES ASSUME NEW m \in Cell, t[m].kind # "element" PROVE g[m] = g[next[m]]
      OBVIOUS
    <3>1. Met(m) = Met(next[m])
      BY <2>3
    <3> QED
      BY <2>5, <2>6, <3>1
  <2> QED
    BY <2>4, <2>5, <2>7, <2>8
<1>4. g = [m \in Cell \cup {Nil} |-> IF m = Nil \/ t[m].kind = "element" THEN m ELSE g[t[m].next]]
  <2> HIDE DEF g
  <2>1. g = [m \in Cell \cup {Nil} |-> g[m]]
    BY DEF g
  <2>2. ASSUME NEW m \in Cell \cup {Nil}
        PROVE  g[m] = IF m = Nil \/ t[m].kind = "element" THEN m ELSE g[t[m].next]
    BY <1>1, <1>3
  <2> QED
    BY <2>1, <2>2, Zenon
<1>5. ASSUME NEW h,
             h = [m \in Cell \cup {Nil} |->
                    IF m = Nil \/ t[m].kind = "element" THEN m ELSE h[t[m].next]]
      PROVE  h = g
  <2>1. /\ h[Nil] = Nil
        /\ \A m \in Cell : h[m] = IF t[m].kind = "element" THEN m ELSE h[next[m]]
        /\ h = [m \in Cell \cup {Nil} |-> h[m]]
    <3>1. /\ \A m \in Cell \cup {Nil} :
               h[m] = IF m = Nil \/ t[m].kind = "element" THEN m ELSE h[t[m].next]
          /\ h = [m \in Cell \cup {Nil} |-> h[m]]
      BY <1>5
    <3> QED
      BY <1>1, <3>1
  <2>2. g = [m \in Cell \cup {Nil} |-> g[m]]
    OBVIOUS
  <2> HIDE DEF g, next
  <2>3. h[Nil] = g[Nil] /\ \A m \in Cell : h[next[m]] = g[next[m]] => h[m] = g[m]
    BY <1>3, <2>1
  <2>4. \A m \in Cell : h[m] = g[m]
    BY <1>1, <2>3, Agree
  <2> QED
    BY <2>1, <2>2, <2>3, <2>4
<1>6. r = g[s]
  <2> DEFINE E(h) == h = [m \in Cell \cup {Nil} |->
                            IF m = Nil \/ t[m].kind = "element" THEN m ELSE h[t[m].next]]
  <2>1. r = (CHOOSE h : E(h))[s]
    BY DEF RootElement
  <2>2. E(g) /\ \A h : E(h) => h = g
    <3> HIDE DEF g
    <3> QED
      BY <1>4, <1>5
  <2> HIDE DEF E, g
  <2> QED
    BY <2>1, <2>2
<1> HIDE DEF g
<1>7. r = IF Met(s) = {} THEN Nil ELSE CHOOSE x \in Met(s) : TRUE
  BY <1>1, <1>3, <1>6
<1> HIDE DEF next, stop, s
<1>8. Met(s) \subseteq Below(t, d)
  <2>1. CASE s = Nil
    BY <2>1 DEF Reach
  <2>2. CASE s \in Cell
    <3>1. s \in Reach(next, s) /\ Reach(next, s) \in SUBSET Cell /\ Within(next, Reach(next, s))
      BY <1>1, <2>2, ReachFacts
    <3>2. Within(stop, Reach(next, s))
      BY <1>2, <3>1 DEF Within
    <3>3. Reach(stop, s) \subseteq Reach(next, s)
      BY <1>2, <2>2, <3>1, <3>2, ReachFacts
    <3> QED
      BY <1>1, <3>3
  <2> QED
    BY <1>1, <2>1, <2>2
<1>9. ASSUME Met(s) = {}
      PROVE  ~\E m \in Below(t, d) : t[m].kind = "element"
  <2>1. CASE s = Nil
    BY <1>1, <2>1 DEF Reach
  <2>2. CASE s \in Cell
    <3>1. s \in Reach(stop, s) /\ Reach(stop, s) \in SUBSET Cell /\ Within(stop, Reach(stop, s))
      BY <1>2, <2>2, ReachFacts
    <3>2. \A m \in Reach(stop, s) : t[m].kind # "element"
      BY <1>9
    <3>3. Within(next, Reach(stop, s))
      BY <1>2, <3>1, <3>2 DEF Within
    <3>4. Reach(next, s) \subseteq Reach(stop, s)
      BY <1>1, <2>2, <3>1, <3>3, ReachFacts
    <3> QED
      BY <1>1, <3>2, <3>4
  <2> QED
    BY <1>1, <2>1, <2>2
<1>10. CASE Met(s) = {}
  BY <1>7, <1>9, <1>10
<1>11. CASE Met(s) # {}
  <2>1. r \in Met(s)
    BY <1>7, <1>11
  <2> QED
    BY <1>8, <2>1
<1> QED
  BY <1>10, <1>11

\* What becomes of each link
LEMMA ReplaceNodeIs ==
  ASSUME NEW t, Typed(t), NEW old \in Node, NEW c \in Node, old # c,
         NEW u, u = ReplaceNode(t, old, c)
  PROVE  /\ Typed(u)
         /\ \A m \in Cell :
              LET To(q) == IF m # old /\ m # c /\ q = old THEN c ELSE q
              IN  /\ u[m].kind = t[m].kind /\ u[m].name = t[m].name /\ u[m].doc = t[m].doc
                  /\ u[m].props = t[m].props
                  /\ u[m].first = To(t[m].first) /\ u[m].last = To(t[m].last)
                  /\ u[m].up = IF m = old THEN Nil ELSE IF m = c THEN t[old].up ELSE t[m].up
                  /\ u[m].next = IF m = old THEN Nil ELSE IF m = c THEN t[old].next
                                 ELSE To(t[m].next)
                  /\ u[m].prev = IF m = old THEN Nil ELSE IF m = c THEN t[old].prev
                                 ELSE To(t[m].prev)
<1>1. ASSUME NEW m \in Cell
      PROVE  LET To(q) == IF m # old /\ m # c /\ q = old THEN c ELSE q
             IN  /\ u[m] \in CellState
                 /\ u[m].kind = t[m].kind /\ u[m].name = t[m].name /\ u[m].doc = t[m].doc
                 /\ u[m].props = t[m].props
                 /\ u[m].first = To(t[m].first) /\ u[m].last = To(t[m].last)
                 /\ u[m].up = IF m = old THEN Nil ELSE IF m = c THEN t[old].up ELSE t[m].up
                 /\ u[m].next = IF m = old THEN Nil ELSE IF m = c THEN t[old].next
                                ELSE To(t[m].next)
                 /\ u[m].prev = IF m = old THEN Nil ELSE IF m = c THEN t[old].prev
                                ELSE To(t[m].prev)
  <2>1. t[m] \in CellState /\ t[old] \in CellState /\ t[c] \in CellState /\ old \in Cell /\ c \in Cell
    BY Cells DEF Typed
  <2>2. CASE m = old
    <3>1. u[m] = [t[old] EXCEPT !.up = Nil, !.next = Nil, !.prev = Nil]
      BY <2>2 DEF ReplaceNode
    <3> QED
      BY <2>1, <2>2, <3>1 DEF CellState
  <2>3. CASE m = c
    <3> DEFINE r == t[old]
               x == r.up
               y == r.next
               z == r.prev
    <3>1. u[m] = [t[c] EXCEPT !.up = x, !.next = y, !.prev = z]
      BY <2>3 DEF ReplaceNode
    <3>2. x \in Cell \cup {Nil} /\ y \in Node \cup {Nil} /\ z \in Node \cup {Nil}
      BY <2>1 DEF CellState
    <3> HIDE DEF x, y, z
    <3>3. /\ u[m].kind = t[m].kind /\ u[m].name = t[m].name
          /\ u[m].doc = t[m].doc /\ u[m].props = t[m].props
          /\ u[m].first = t[m].first /\ u[m].last = t[m].last
          /\ u[m].up = x /\ u[m].next = y /\ u[m].prev = z
      BY <2>1, <2>3, <3>1 DEF CellState
    <3>4. u[m] \in CellState
      BY <2>1, <3>1, <3>2, ZenonT(60) DEF CellState
    <3> QED
      BY <2>3, <3>3, <3>4 DEF x, y, z
  <2>4. CASE m # old /\ m # c
    <3> DEFINE a == IF t[m].first = old THEN c ELSE t[m].first
               b == IF t[m].last = old THEN c ELSE t[m].last
               x == IF t[m].next = old THEN c ELSE t[m].next
               y == IF t[m].prev = old THEN c ELSE t[m].prev
    <3>1. /\ a \in Node \cup {Nil} /\ b \in Node \cup {Nil}
          /\ x \in Node \cup {Nil} /\ y \in Node \cup {Nil}
      BY <2>1 DEF CellState
    <3>2. u[m] = [t[m] EXCEPT !.first = IF @ = old THEN c ELSE @,
                              !.last  = IF @ = old THEN c ELSE @,
                              !.next  = IF @ = old THEN c ELSE @,
                              !.prev  = IF @ = old THEN c ELSE @]
      BY <2>4 DEF ReplaceNode
    <3>3. u[m] = [t[m] EXCEPT !.first = a, !.last = b, !.next = x, !.prev = y]
      BY <2>1, <3>2 DEF CellState
    <3> HIDE DEF a, b, x, y
    <3>4. /\ u[m].kind = t[m].kind /\ u[m].name = t[m].name
          /\ u[m].doc = t[m].doc /\ u[m].props = t[m].props /\ u[m].up = t[m].up
          /\ u[m].first = a /\ u[m].last = b /\ u[m].next = x /\ u[m].prev = y
      BY <2>1, <3>3 DEF CellState
    <3>5. u[m] \in CellState
      BY <2>1, <3>1, <3>3, ZenonT(60) DEF CellState
    <3> QED
      BY <2>4, <3>4, <3>5 DEF a, b, x, y
  <2> QED
    BY <2>2, <2>3, <2>4
<1>2. u = [m \in Cell |-> u[m]]
  BY DEF ReplaceNode
<1>3. Typed(u)
  <2>1. \A m \in Cell : u[m] \in CellState
    BY <1>1
  <2> QED
    BY <1>2, <2>1 DEF Typed
<1> QED
  BY <1>1, <1>3

\* xmlReplaceNode: a node that is in no tree takes the place of another one.
LEMMA ReplaceNodeKeeps ==
  ASSUME NEW t, Well(t), NEW p, NEW c, MayJoin(t, p, c), t[c].doc = t[p].doc, ~IsAttr(t, c),
         NEW old \in Below(t, p), NEW u, u = ReplaceNode(t, old, c)
  PROVE  Well(u)
<1>1. /\ Typed(t) /\ Sorted(t) /\ Linked(t) /\ Named(t) /\ UpEnds(t) /\ NextEnds(t)
      /\ Inside(t) /\ Chained(t) /\ Ended(t) /\ Placed(t) /\ Nil \notin Cell
      /\ p \in Cell /\ Used(t, p) /\ t[p].kind \in ParentKind
      /\ c \in Node /\ c \in Cell /\ c # Nil /\ c \notin Doc /\ p # Nil
      /\ Used(t, c) /\ t[c].up = Nil /\ t[c].next = Nil /\ t[c].prev = Nil
      /\ c \notin Upwards(t, p)
  BY Cells DEF Well, Linked, MayJoin, Unlinked
<1>2. old \in Cell /\ t[old].up = p /\ ~IsAttr(t, old) /\ old # c /\ old # Nil
  BY <1>1 DEF Below, IsAttr
<1>3. old \in Node /\ Used(t, old) /\ old # p /\ c # p /\ old \notin Doc
  <2>1. old \notin Doc
    BY <1>1, <1>2 DEF Sorted
  <2>2. Used(t, old)
    BY <1>1, <1>2, FreeIsLoose
  <2>3. p \in Upwards(t, p)
    BY <1>1, UpwardsFacts
  <2> QED
    BY <1>1, <1>2, <2>1, <2>2, <2>3, NoLoop, Cells
<1>4. /\ Typed(u)
      /\ \A m \in Cell :
           LET To(q) == IF m # old /\ m # c /\ q = old THEN c ELSE q
           IN  /\ u[m].kind = t[m].kind /\ u[m].name = t[m].name /\ u[m].doc = t[m].doc
               /\ u[m].props = t[m].props
               /\ u[m].first = To(t[m].first) /\ u[m].last = To(t[m].last)
               /\ u[m].up = IF m = old THEN Nil ELSE IF m = c THEN t[old].up ELSE t[m].up
               /\ u[m].next = IF m = old THEN Nil ELSE IF m = c THEN t[old].next
                              ELSE To(t[m].next)
               /\ u[m].prev = IF m = old THEN Nil ELSE IF m = c THEN t[old].prev
                              ELSE To(t[m].prev)
  BY <1>1, <1>2, <1>3, ReplaceNodeIs
<1>5. \A m \in Cell :
        /\ t[m].up \in Cell \cup {Nil} /\ t[m].first \in Cell \cup {Nil}
        /\ t[m].last \in Cell \cup {Nil} /\ t[m].next \in Cell \cup {Nil}
        /\ t[m].prev \in Cell \cup {Nil} /\ t[m].props \in Cell \cup {Nil}
        /\ t[m].up # m /\ t[m].next # m /\ t[m].prev # m
  BY <1>1, Types, Cells, NoLoop
<1>6. \A m \in Cell : /\ t[m].next # c /\ t[m].prev # c
                      /\ t[m].first # c /\ t[m].last # c /\ t[m].props # c
                      /\ t[m].props # old
  BY <1>1, <1>2, <1>5 DEF Chained, Ended
<1>7. Sorted(u)
  <2>1. ASSUME NEW m \in Cell, ~Used(u, m)
        PROVE  u[m] = Unused
    <3>1. ~Used(t, m) /\ m # old /\ m # c
      BY <1>1, <1>3, <1>4, <2>1 DEF Used
    <3>2. /\ t[m] = Unused
          /\ t[m].up # old /\ t[m].first # old /\ t[m].last # old
          /\ t[m].next # old /\ t[m].prev # old /\ t[m].props # old
      BY <1>1, <1>2, <3>1, FreeIsLoose
    <3>3. u[m] \in CellState /\ t[m] \in CellState
      BY <1>1, <1>4, Types
    <3>4. /\ u[m].kind = t[m].kind /\ u[m].name = t[m].name /\ u[m].doc = t[m].doc
          /\ u[m].up = t[m].up /\ u[m].first = t[m].first /\ u[m].last = t[m].last
          /\ u[m].next = t[m].next /\ u[m].prev = t[m].prev /\ u[m].props = t[m].props
      BY <1>4, <3>1, <3>2
    <3> QED
      BY <3>2, <3>3, <3>4, SameRec
  <2>2. \A m \in Doc : /\ m \in Cell /\ u[m].up = Nil /\ u[m].next = Nil
                       /\ u[m].prev = Nil /\ u[m].props = Nil
    BY <1>1, <1>2, <1>3, <1>4, Cells DEF Sorted
  <2> QED
    BY <1>1, <1>4, <2>1, <2>2 DEF Sorted, Used, IsAttr
<1>8. Inside(u)
  BY <1>1, <1>2, <1>3, <1>4, <1>5 DEF Inside, Used
<1>9. Chained(u)
  <2> SUFFICES ASSUME NEW m \in Cell
               PROVE  /\ u[m].next # Nil => /\ u[u[m].next].prev = m
                                            /\ u[u[m].next].up = u[m].up
                                            /\ IsAttr(u, u[m].next) = IsAttr(u, m)
                      /\ u[m].prev # Nil => u[u[m].prev].next = m
    BY DEF Chained
  <2>1. CASE m = old
    BY <1>4, <2>1
  <2>2. CASE m = c
    <3>1. /\ u[m].next = t[old].next /\ u[m].prev = t[old].prev /\ u[m].up = p /\ ~IsAttr(u, m)
      BY <1>2, <1>4, <2>2 DEF IsAttr
    <3>2. ASSUME t[old].next # Nil
          PROVE  LET x == t[old].next IN u[x].prev = c /\ u[x].up = p /\ ~IsAttr(u, x)
      <4> DEFINE x == t[old].next
      <4>1. /\ x \in Cell /\ x # c /\ x # old /\ t[x].prev = old /\ t[x].up = p /\ ~IsAttr(t, x)
        BY <1>1, <1>2, <1>5, <1>6, <3>2 DEF Chained, IsAttr
      <4> HIDE DEF x
      <4>2. u[x].prev = c /\ u[x].up = p /\ ~IsAttr(u, x)
        BY <1>4, <4>1 DEF IsAttr
      <4> QED
        BY <4>2 DEF x
    <3>3. ASSUME t[old].prev # Nil
          PROVE  u[t[old].prev].next = c
      <4> DEFINE x == t[old].prev
      <4>1. x \in Cell /\ x # c /\ x # old /\ t[x].next = old
        BY <1>1, <1>2, <1>5, <1>6, <3>3 DEF Chained
      <4> HIDE DEF x
      <4>2. u[x].next = c
        BY <1>4, <4>1
      <4> QED
        BY <4>2 DEF x
    <3> QED
      BY <2>2, <3>1, <3>2, <3>3 DEF IsAttr
  <2>3. CASE m # old /\ m # c
    <3>1. u[m].up = t[m].up /\ IsAttr(u, m) = IsAttr(t, m)
      BY <1>4, <2>3 DEF IsAttr
    <3>2. CASE t[m].next = old
      <4>1. /\ u[m].next = c /\ u[c].prev = t[old].prev /\ u[c].up = p
            /\ IsAttr(u, c) = IsAttr(t, c)
        BY <1>1, <1>2, <1>4, <2>3, <3>2 DEF IsAttr
      <4>2. t[old].prev = m /\ t[m].up = p /\ IsAttr(t, m) = IsAttr(t, old)
        BY <1>1, <1>2, <3>2 DEF Chained, IsAttr
      <4>3. u[m].prev # Nil => u[u[m].prev].next = m
        <5>1. CASE t[m].prev = old
          BY <1>1, <1>2, <1>4, <2>3, <5>1 DEF Chained
        <5>2. CASE t[m].prev # old
          BY <1>1, <1>2, <1>4, <1>5, <1>6, <2>3, <5>2 DEF Chained
        <5> QED
          BY <5>1, <5>2
      <4> QED
        BY <1>2, <3>1, <4>1, <4>2, <4>3 DEF IsAttr
    <3>3. CASE t[m].next # old
      <4>1. u[m].next = t[m].next
        BY <1>4, <2>3, <3>3
      <4>2. ASSUME t[m].next # Nil
            PROVE  LET x == t[m].next
                   IN  u[x].prev = m /\ u[x].up = u[m].up /\ IsAttr(u, x) = IsAttr(u, m)
        <5> DEFINE x == t[m].next
        <5>1. /\ x \in Cell /\ x # c /\ x # old /\ t[x].prev = m /\ t[x].up = t[m].up
              /\ IsAttr(t, x) = IsAttr(t, m)
          BY <1>1, <1>5, <1>6, <3>3, <4>2 DEF Chained
        <5> HIDE DEF x
        <5>2. u[x].prev = m /\ u[x].up = u[m].up /\ IsAttr(u, x) = IsAttr(u, m)
          BY <1>4, <2>3, <3>1, <5>1 DEF IsAttr
        <5> QED
          BY <5>2 DEF x
      <4>3. u[m].prev # Nil => u[u[m].prev].next = m
        <5>1. CASE t[m].prev = old
          BY <1>1, <1>2, <1>4, <2>3, <5>1 DEF Chained
        <5>2. CASE t[m].prev # old
          BY <1>1, <1>2, <1>4, <1>5, <1>6, <2>3, <5>2 DEF Chained
        <5> QED
          BY <5>1, <5>2
      <4> QED
        BY <4>1, <4>2, <4>3
    <3> QED
      BY <3>2, <3>3
  <2> QED
    BY <2>1, <2>2, <2>3
<1>10. Ended(u)
  <2> SUFFICES ASSUME NEW m \in Cell
               PROVE  /\ u[m].first # Nil => /\ u[u[m].first].up = m /\ u[u[m].first].prev = Nil
                                             /\ ~IsAttr(u, u[m].first)
                      /\ u[m].last # Nil => /\ u[u[m].last].up = m /\ u[u[m].last].next = Nil
                                            /\ ~IsAttr(u, u[m].last)
                      /\ u[m].props # Nil => /\ u[u[m].props].up = m /\ u[u[m].props].prev = Nil
                                             /\ IsAttr(u, u[m].props)
    BY DEF Ended
  <2>1. t[m].first = old \/ t[m].last = old => m = p
    BY <1>1, <1>2 DEF Ended
  <2>2. u[m].first # Nil => /\ u[u[m].first].up = m /\ u[u[m].first].prev = Nil
                            /\ ~IsAttr(u, u[m].first)
    BY <1>1, <1>2, <1>3, <1>4, <1>5, <1>6, <2>1 DEF Ended, IsAttr
  <2>3. u[m].last # Nil => /\ u[u[m].last].up = m /\ u[u[m].last].next = Nil
                           /\ ~IsAttr(u, u[m].last)
    BY <1>1, <1>2, <1>3, <1>4, <1>5, <1>6, <2>1 DEF Ended, IsAttr
  <2>4. u[m].props # Nil => /\ u[u[m].props].up = m /\ u[u[m].props].prev = Nil
                            /\ IsAttr(u, u[m].props)
    BY <1>1, <1>2, <1>3, <1>4, <1>5, <1>6 DEF Ended, IsAttr
  <2> QED
    BY <2>2, <2>3, <2>4
<1>11. Placed(u)
  <2> SUFFICES ASSUME NEW m \in Cell, u[m].up # Nil
               PROVE  /\ u[m].prev = Nil => IF IsAttr(u, m) THEN u[u[m].up].props = m
                                            ELSE u[u[m].up].first = m
                      /\ u[m].next = Nil /\ ~IsAttr(u, m) => u[u[m].up].last = m
                      /\ u[u[m].up].kind \in ParentKind
                      /\ IsAttr(u, m) => u[u[m].up].kind = "element"
                      /\ u[m].doc = u[u[m].up].doc
    BY DEF Placed
  <2>1. m # old
    BY <1>4
  <2>2. CASE m = c
    <3>1. /\ u[m].up = p /\ u[m].next = t[old].next /\ u[m].prev = t[old].prev
          /\ ~IsAttr(u, m) /\ u[m].doc = t[p].doc
      BY <1>2, <1>4, <2>2 DEF IsAttr
    <3>2. /\ t[old].prev = Nil => t[p].first = old
          /\ t[old].next = Nil => t[p].last = old
      BY <1>1, <1>2 DEF Placed
    <3> QED
      BY <1>1, <1>3, <1>4, <2>2, <3>1, <3>2
  <2>3. CASE m # c
    <3>1. /\ u[m].up = t[m].up /\ t[m].up \in Cell /\ t[m].up # Nil
          /\ u[m].prev = Nil => t[m].prev = Nil
          /\ u[m].next = Nil => t[m].next = Nil
          /\ IsAttr(u, m) = IsAttr(t, m)
      BY <1>1, <1>2, <1>4, <1>5, <2>1, <2>3 DEF IsAttr
    <3>2. /\ t[m].prev = Nil => IF IsAttr(t, m) THEN t[t[m].up].props = m
                                ELSE t[t[m].up].first = m
          /\ t[m].next = Nil /\ ~IsAttr(t, m) => t[t[m].up].last = m
          /\ t[t[m].up].kind \in ParentKind
          /\ IsAttr(t, m) => t[t[m].up].kind = "element"
          /\ t[m].doc = t[t[m].up].doc
      BY <1>1, <3>1 DEF Placed
    <3> QED
      BY <1>4, <2>1, <2>3, <3>1, <3>2
  <2> QED
    BY <2>2, <2>3
<1>12. Named(u)
  <2> SUFFICES ASSUME NEW a \in Cell, NEW b \in Cell, IsAttr(t, a), IsAttr(t, b),
                      u[a].up # Nil, u[a].up = u[b].up, t[a].name = t[b].name
               PROVE  a = b
    BY <1>4 DEF Named, IsAttr
  <2>1. a # c /\ b # c /\ a # old /\ b # old
    BY <1>2
  <2> QED
    BY <1>1, <1>4, <2>1 DEF Named
<1>13. UpEnds(u)
  <2>1. (\A m \in Cell \ {c} : u[m].up \in {t[m].up, Nil}) /\ u[c].up = p
    BY <1>1, <1>2, <1>4
  <2> QED
    BY <1>1, <2>1, UpLinked
<1>14. NextEnds(u)
  <2> SUFFICES ASSUME NEW S \in SUBSET Cell, S # {}, \A m \in S : u[m].next \in S
               PROVE  FALSE
    BY DEF NextEnds
  <2>1. old \notin S
    BY <1>1, <1>4
  <2>2. CASE c \notin S
    <3>1. \A m \in S : t[m].next \in S
      BY <1>4, <2>1, <2>2
    <3> QED
      BY <1>1, <3>1 DEF NextEnds
  <2>3. CASE c \in S
    <3> DEFINE R == (S \ {c}) \cup {old}
    <3>1. R \in SUBSET Cell /\ R # {}
      BY <1>2
    <3>2. t[old].next \in R
      BY <1>2, <1>4, <1>1, <1>6, <2>3
    <3>3. \A m \in S \ {c} : t[m].next \in R
      BY <1>4, <1>6, <2>1
    <3> HIDE DEF R
    <3>4. \A m \in R : t[m].next \in R
      BY <3>2, <3>3 DEF R
    <3> QED
      BY <1>1, <3>1, <3>4 DEF NextEnds
  <2> QED
    BY <2>2, <2>3
<1> QED
  BY <1>4, <1>7, <1>8, <1>9, <1>10, <1>11, <1>12, <1>13, <1>14 DEF Well, Linked

\* xmlDocSetRootElement
LEMMA SetRootElementKeeps ==
  ASSUME NEW t, Well(t), NEW d \in Doc, Used(t, d), NEW c \in Node, t[c].kind = "element",
         NEW u, u = SetRootElement(t, d, c)
  PROVE  Well(u)
<1> DEFINE x == Unlink(t, c)
           s == SetTreeDoc(x, c, d)
           old == RootElement(s, d)
<1>1. u = IF old # Nil THEN ReplaceNode(s, old, c)
          ELSE IF s[d].first = Nil THEN LinkOnly(s, d, c)
          ELSE LinkAfter(s, d, s[d].last, c)
  BY DEF SetRootElement
<1>2. /\ Typed(t) /\ Sorted(t) /\ d \in Cell /\ c \in Cell /\ c # d /\ Used(t, c)
      /\ t[d].kind = "document" /\ t[d].doc = d /\ t[d].up = Nil
  BY Cells DEF Well, Sorted, Used
<1>3. Well(x) /\ Unlinked(x, c)
  BY <1>2, UnlinkKeeps
<1>4. \A m \in Cell :
        /\ x[m].kind = t[m].kind /\ x[m].doc = t[m].doc
        /\ x[m].up = IF m = c THEN Nil ELSE t[m].up
  BY <1>2, UnlinkIs
<1> HIDE DEF x
<1>5. c \notin Upwards(x, d)
  <2>1. Typed(x) /\ UpEnds(x) /\ x[d].up = Nil
    BY <1>2, <1>3, <1>4 DEF Well
  <2>2. Upwards(x, d) = {d} \cup Upwards(x, x[d].up) /\ Upwards(x, Nil) = {}
    BY <1>2, <2>1, UpwardsFacts
  <2> QED
    BY <1>2, <2>1, <2>2
<1>6. MayJoin(x, d, c) /\ x[d].doc = d /\ ~IsAttr(x, c)
  BY <1>2, <1>3, <1>4, <1>5 DEF MayJoin, Used, IsAttr, ParentKind
<1>7. /\ Well(s) /\ MayJoin(s, d, c) /\ s[c].doc = s[d].doc
      /\ \A m \in Cell : s[m].kind = x[m].kind
  BY <1>3, <1>6, DocThenJoins
<1> HIDE DEF s
<1>8. ~IsAttr(s, c)
  BY <1>2, <1>6, <1>7 DEF IsAttr
<1>9. CASE old # Nil
  <2>1. old \in Below(s, d)
    BY <1>2, <1>7, <1>9, RootElementIs
  <2>2. u = ReplaceNode(s, old, c)
    BY <1>1, <1>9
  <2> HIDE DEF old
  <2> QED
    BY <1>7, <1>8, <2>1, <2>2, ReplaceNodeKeeps
<1>10. CASE old = Nil /\ s[d].first = Nil
  <2>1. u = LinkOnly(s, d, c)
    BY <1>1, <1>10
  <2>2. \A m \in Cell : s[m].up = d => IsAttr(s, m)
    BY <1>2, <1>7, <1>10, ChildEnds
  <2>3. \A m \in Cell : s[m].up = d => IsAttr(s, m) # IsAttr(s, c)
    BY <1>8, <2>2 DEF IsAttr
  <2> QED
    BY <1>7, <2>1, <2>3, LinkOnlyKeeps
<1>11. CASE old = Nil /\ s[d].first # Nil
  <2>1. u = LinkAfter(s, d, s[d].last, c)
    BY <1>1, <1>11
  <2>2. s[d].last # Nil
    <3>1. /\ s[d].first \in Cell /\ s[s[d].first].up = d /\ ~IsAttr(s, s[d].first)
      BY <1>2, <1>7, <1>11, Types, Cells DEF Well, Linked, Ended
    <3> QED
      BY <1>2, <1>7, <3>1, ChildEnds
  <2> QED
    BY <1>7, <1>8, <2>1, <2>2, JoinContent
<1> QED
  BY <1>9, <1>10, <1>11

-----------------------------------------------------------------------------
(***************************************************************************)
(* xmlCopyNode                                                             *)
(***************************************************************************)
\* The copy of a cell, if it has one
CopyOf(f, q) == IF q \in DOMAIN f THEN f[q] ELSE Nil

\* D is the tree of n.
Whole(t, D, n) ==
  /\ D \in SUBSET Node /\ n \in D /\ t[n].up \notin D
  /\ \A m \in D : Used(t, m)
  /\ \A m \in D \ {n} : t[m].up \in D
  /\ \A m \in Cell : t[m].up \in D => m \in D

\* f names free cells for it.
Names(t, D, f) ==
  /\ f \in [D -> Node]
  /\ \A m \in D : ~Used(t, f[m])
  /\ \A m, q \in D : f[m] = f[q] => m = q

\* In u they are like what they name, and in no document.
Alike(t, D, f, u) ==
  /\ \A m \in Cell : (\A q \in D : m # f[q]) => u[m] = t[m]
  /\ \A m \in D :
       /\ u[f[m]].kind = t[m].kind /\ u[f[m]].name = t[m].name /\ u[f[m]].doc = Nil
       /\ u[f[m]].up = CopyOf(f, t[m].up) /\ u[f[m]].first = CopyOf(f, t[m].first)
       /\ u[f[m]].last = CopyOf(f, t[m].last) /\ u[f[m]].next = CopyOf(f, t[m].next)
       /\ u[f[m]].prev = CopyOf(f, t[m].prev) /\ u[f[m]].props = CopyOf(f, t[m].props)

\* The copy of a tree is linked as the tree is.
LEMMA Copied ==
  ASSUME NEW t, Well(t), NEW D, NEW n, Whole(t, D, n), NEW f, Names(t, D, f),
         NEW u, Typed(u), Alike(t, D, f, u)
  PROVE  Well(u)
<1> DEFINE R == {f[m] : m \in D}
<1>1. /\ Typed(t) /\ Sorted(t) /\ Linked(t) /\ Named(t) /\ UpEnds(t) /\ NextEnds(t)
      /\ Inside(t) /\ Chained(t) /\ Ended(t) /\ Placed(t) /\ Nil \notin Cell
      /\ D \subseteq Cell /\ Nil \notin D /\ Cell = Doc \cup Node /\ Doc \cap Node = {}
  BY Cells DEF Well, Linked, Whole
<1>whole. /\ D \in SUBSET Node /\ n \in D /\ t[n].up \notin D
          /\ \A m \in D : Used(t, m)
          /\ \A m \in D \ {n} : t[m].up \in D
          /\ \A m \in Cell : t[m].up \in D => m \in D
  BY DEF Whole
<1>names. /\ f \in [D -> Node]
          /\ \A m \in D : ~Used(t, f[m])
          /\ \A m, q \in D : f[m] = f[q] => m = q
  BY DEF Names
<1> USE <1>whole, <1>names
<1>2. /\ R \subseteq Node /\ R \subseteq Cell /\ Nil \notin R
      /\ \A m \in Cell \ R : u[m] = t[m]
      /\ \A m \in R : \E q \in D : m = f[q]
      /\ \A m \in D : f[m] \in R /\ f[m] \in Cell /\ f[m] # Nil
  BY <1>1 DEF Alike
<1>3. \A m \in D :
        /\ u[f[m]].kind = t[m].kind /\ u[f[m]].name = t[m].name /\ u[f[m]].doc = Nil
        /\ u[f[m]].up = CopyOf(f, t[m].up) /\ u[f[m]].first = CopyOf(f, t[m].first)
        /\ u[f[m]].last = CopyOf(f, t[m].last) /\ u[f[m]].next = CopyOf(f, t[m].next)
        /\ u[f[m]].prev = CopyOf(f, t[m].prev) /\ u[f[m]].props = CopyOf(f, t[m].props)
  BY DEF Alike
<1>4. /\ CopyOf(f, Nil) = Nil
      /\ \A q \in D : CopyOf(f, q) = f[q]
      /\ \A q : CopyOf(f, q) # Nil => q \in D
      /\ \A q : CopyOf(f, q) \in R \cup {Nil}
  BY <1>1, <1>2 DEF CopyOf
<1>5. \A m \in Cell \ R :
        /\ t[m].up \in (Cell \ R) \cup {Nil} /\ t[m].first \in (Cell \ R) \cup {Nil}
        /\ t[m].last \in (Cell \ R) \cup {Nil} /\ t[m].next \in (Cell \ R) \cup {Nil}
        /\ t[m].prev \in (Cell \ R) \cup {Nil} /\ t[m].props \in (Cell \ R) \cup {Nil}
  <2>1. \A q \in R : q \in Cell /\ ~Used(t, q)
    BY <1>2
  <2>2. \A q \in R : \A m \in Cell : /\ t[m].up # q /\ t[m].first # q /\ t[m].last # q
                                     /\ t[m].next # q /\ t[m].prev # q /\ t[m].props # q
    BY <1>1, <2>1, FreeIsLoose
  <2> HIDE DEF R
  <2>3. \A m \in Cell :
          /\ t[m].up \in Cell \cup {Nil} /\ t[m].first \in Cell \cup {Nil}
          /\ t[m].last \in Cell \cup {Nil} /\ t[m].next \in Cell \cup {Nil}
          /\ t[m].prev \in Cell \cup {Nil} /\ t[m].props \in Cell \cup {Nil}
    BY <1>1, Types, Cells
  <2> QED
    BY <2>2, <2>3
\* A copy is linked where the cell is, but n to nothing outside its tree.
<1>6. \A m \in D :
        /\ t[m].first \in D \cup {Nil} /\ t[m].last \in D \cup {Nil}
        /\ t[m].props \in D \cup {Nil}
        /\ m # n => t[m].up \in D /\ t[m].next \in D \cup {Nil} /\ t[m].prev \in D \cup {Nil}
  <2> SUFFICES ASSUME NEW m \in D
               PROVE  /\ t[m].first \in D \cup {Nil} /\ t[m].last \in D \cup {Nil}
                      /\ t[m].props \in D \cup {Nil}
                      /\ m # n => /\ t[m].up \in D /\ t[m].next \in D \cup {Nil}
                                  /\ t[m].prev \in D \cup {Nil}
    OBVIOUS
  <2>1. m \in Cell
    BY <1>1
  <2>2. /\ t[m].first \in Cell \cup {Nil} /\ t[m].last \in Cell \cup {Nil}
        /\ t[m].next \in Cell \cup {Nil} /\ t[m].prev \in Cell \cup {Nil}
        /\ t[m].props \in Cell \cup {Nil}
    BY <1>1, <2>1, Types, Cells
  <2>3. /\ t[m].first # Nil => t[t[m].first].up = m
        /\ t[m].last # Nil => t[t[m].last].up = m
        /\ t[m].props # Nil => t[t[m].props].up = m
    BY <1>1, <2>1 DEF Ended
  <2>4. /\ t[m].next # Nil => t[t[m].next].up = t[m].up
        /\ t[m].prev # Nil => t[t[m].prev].up = t[m].up
    BY <2>1, Neighbours
  <2> QED
    BY <2>2, <2>3, <2>4
<1> HIDE DEF R
<1>7. Sorted(u)
  <2>1. \A m \in R : Used(u, m) /\ u[m].kind \in NodeKind /\ (u[m].name # "none") = IsAttr(u, m)
    <3> SUFFICES ASSUME NEW q \in D
                 PROVE  /\ Used(u, f[q]) /\ u[f[q]].kind \in NodeKind
                        /\ (u[f[q]].name # "none") = IsAttr(u, f[q])
      BY <1>2
    <3>1. q \in Cell /\ q \in Node /\ Used(t, q)
      BY <1>1
    <3>2. t[q].kind \in NodeKind /\ (t[q].name # "none") = (t[q].kind = "attribute")
      BY <1>1, <3>1 DEF Sorted, IsAttr
    <3> QED
      BY <1>3, <3>1, <3>2 DEF Used, IsAttr
  <2>2. \A m \in Cell \ R :
          /\ ~Used(u, m) => u[m] = Unused
          /\ m \in Node /\ Used(u, m) => u[m].kind \in NodeKind
          /\ m \in Doc => /\ u[m].up = Nil /\ u[m].next = Nil /\ u[m].prev = Nil /\ u[m].props = Nil
                          /\ Used(u, m) => u[m].kind = "document" /\ u[m].doc = m
          /\ (u[m].name # "none") = IsAttr(u, m)
    BY <1>1, <1>2 DEF Sorted, Used, IsAttr
  <2>3. \A m \in R : m \notin Doc
    BY <1>1, <1>2
  <2> QED
    BY <2>1, <2>2, <2>3 DEF Sorted
<1>8. Inside(u)
  <2>1. \A m \in R : Used(u, m)
    BY <1>2, <1>3 DEF Used
  <2>2. \A m \in R :
          /\ u[m].up \in R \cup {Nil} /\ u[m].first \in R \cup {Nil}
          /\ u[m].last \in R \cup {Nil} /\ u[m].next \in R \cup {Nil}
          /\ u[m].prev \in R \cup {Nil} /\ u[m].props \in R \cup {Nil}
    BY <1>2, <1>3, <1>4
  <2>3. \A m \in Cell \ R :
          /\ u[m].up # Nil => Used(u, u[m].up)
          /\ u[m].first # Nil => Used(u, u[m].first)
          /\ u[m].last # Nil => Used(u, u[m].last)
          /\ u[m].next # Nil => Used(u, u[m].next)
          /\ u[m].prev # Nil => Used(u, u[m].prev)
          /\ u[m].props # Nil => Used(u, u[m].props)
    BY <1>1, <1>2, <1>5 DEF Inside, Used
  <2> QED
    BY <2>1, <2>2, <2>3 DEF Inside
<1>9. Chained(u)
  <2>1. \A m \in Cell \ R :
          /\ u[m].next # Nil => /\ u[u[m].next].prev = m
                                /\ u[u[m].next].up = u[m].up
                                /\ IsAttr(u, u[m].next) = IsAttr(u, m)
          /\ u[m].prev # Nil => u[u[m].prev].next = m
    BY <1>1, <1>2, <1>5 DEF Chained, IsAttr
  <2>2. ASSUME NEW q \in D
        PROVE  LET m == f[q]
               IN  /\ u[m].next # Nil => /\ u[u[m].next].prev = m
                                         /\ u[u[m].next].up = u[m].up
                                         /\ IsAttr(u, u[m].next) = IsAttr(u, m)
                   /\ u[m].prev # Nil => u[u[m].prev].next = m
    <3> DEFINE m == f[q]
    <3>1. q \in Cell
      BY <1>1
    <3>2. ASSUME u[m].next # Nil
          PROVE  /\ u[u[m].next].prev = m /\ u[u[m].next].up = u[m].up
                 /\ IsAttr(u, u[m].next) = IsAttr(u, m)
      <4> DEFINE x == t[q].next
      <4>1. x \in D /\ u[m].next = f[x] /\ x # Nil
        BY <1>1, <1>3, <1>4, <3>2
      <4>2. t[x].prev = q /\ t[x].up = t[q].up /\ IsAttr(t, x) = IsAttr(t, q)
        BY <1>1, <3>1, <4>1 DEF Chained
      <4> HIDE DEF x
      <4> QED
        BY <1>3, <1>4, <4>1, <4>2 DEF IsAttr
    <3>3. ASSUME u[m].prev # Nil
          PROVE  u[u[m].prev].next = m
      <4> DEFINE x == t[q].prev
      <4>1. x \in D /\ u[m].prev = f[x] /\ x # Nil
        BY <1>1, <1>3, <1>4, <3>3
      <4>2. t[x].next = q
        BY <1>1, <3>1, <4>1 DEF Chained
      <4> HIDE DEF x
      <4> QED
        BY <1>3, <1>4, <4>1, <4>2
    <3> QED
      BY <3>2, <3>3
  <2> QED
    BY <1>2, <2>1, <2>2 DEF Chained
<1>10. Ended(u)
  <2>1. \A m \in Cell \ R :
          /\ u[m].first # Nil => /\ u[u[m].first].up = m /\ u[u[m].first].prev = Nil
                                 /\ ~IsAttr(u, u[m].first)
          /\ u[m].last # Nil => /\ u[u[m].last].up = m /\ u[u[m].last].next = Nil
                                /\ ~IsAttr(u, u[m].last)
          /\ u[m].props # Nil => /\ u[u[m].props].up = m /\ u[u[m].props].prev = Nil
                                 /\ IsAttr(u, u[m].props)
    BY <1>1, <1>2, <1>5 DEF Ended, IsAttr
  <2>2. ASSUME NEW q \in D
        PROVE  LET m == f[q]
               IN  /\ u[m].first # Nil => /\ u[u[m].first].up = m /\ u[u[m].first].prev = Nil
                                          /\ ~IsAttr(u, u[m].first)
                   /\ u[m].last # Nil => /\ u[u[m].last].up = m /\ u[u[m].last].next = Nil
                                         /\ ~IsAttr(u, u[m].last)
                   /\ u[m].props # Nil => /\ u[u[m].props].up = m /\ u[u[m].props].prev = Nil
                                          /\ IsAttr(u, u[m].props)
    <3> DEFINE m == f[q]
    <3>1. q \in Cell
      BY <1>1
    <3>2. ASSUME u[m].first # Nil
          PROVE  u[u[m].first].up = m /\ u[u[m].first].prev = Nil /\ ~IsAttr(u, u[m].first)
      <4> DEFINE x == t[q].first
      <4>1. x \in D /\ u[m].first = f[x] /\ x # Nil
        BY <1>1, <1>3, <1>4, <3>2
      <4>2. t[x].up = q /\ t[x].prev = Nil /\ ~IsAttr(t, x)
        BY <1>1, <3>1, <4>1 DEF Ended
      <4> HIDE DEF x
      <4> QED
        BY <1>3, <1>4, <4>1, <4>2 DEF IsAttr
    <3>3. ASSUME u[m].last # Nil
          PROVE  u[u[m].last].up = m /\ u[u[m].last].next = Nil /\ ~IsAttr(u, u[m].last)
      <4> DEFINE x == t[q].last
      <4>1. x \in D /\ u[m].last = f[x] /\ x # Nil
        BY <1>1, <1>3, <1>4, <3>3
      <4>2. t[x].up = q /\ t[x].next = Nil /\ ~IsAttr(t, x)
        BY <1>1, <3>1, <4>1 DEF Ended
      <4> HIDE DEF x
      <4> QED
        BY <1>3, <1>4, <4>1, <4>2 DEF IsAttr
    <3>4. ASSUME u[m].props # Nil
          PROVE  u[u[m].props].up = m /\ u[u[m].props].prev = Nil /\ IsAttr(u, u[m].props)
      <4> DEFINE x == t[q].props
      <4>1. x \in D /\ u[m].props = f[x] /\ x # Nil
        BY <1>1, <1>3, <1>4, <3>4
      <4>2. t[x].up = q /\ t[x].prev = Nil /\ IsAttr(t, x)
        BY <1>1, <3>1, <4>1 DEF Ended
      <4> HIDE DEF x
      <4> QED
        BY <1>3, <1>4, <4>1, <4>2 DEF IsAttr
    <3> QED
      BY <3>2, <3>3, <3>4
  <2> QED
    BY <1>2, <2>1, <2>2 DEF Ended
<1>11. Placed(u)
  <2> DEFINE P(m) == /\ u[m].prev = Nil => IF IsAttr(u, m) THEN u[u[m].up].props = m
                                           ELSE u[u[m].up].first = m
                     /\ u[m].next = Nil /\ ~IsAttr(u, m) => u[u[m].up].last = m
                     /\ u[u[m].up].kind \in ParentKind
                     /\ IsAttr(u, m) => u[u[m].up].kind = "element"
                     /\ u[m].doc = u[u[m].up].doc
  <2>1. ASSUME NEW m \in Cell \ R, u[m].up # Nil
        PROVE  P(m)
    <3>1. u[m] = t[m] /\ u[t[m].up] = t[t[m].up] /\ t[m].up # Nil
      BY <1>2, <1>5, <2>1
    <3> QED
      BY <1>1, <3>1 DEF Placed, IsAttr
  <2>2. ASSUME NEW q \in D, u[f[q]].up # Nil
        PROVE  P(f[q])
    <3> DEFINE m == f[q]
               x == t[q].up
    <3>1. x \in D /\ u[m].up = f[x] /\ q \in Cell /\ x # Nil /\ q # n
      BY <1>1, <1>3, <1>4, <2>2
    <3>2. t[q].prev \in D \cup {Nil} /\ t[q].next \in D \cup {Nil}
      BY <1>6, <3>1
    <3>3. /\ t[q].prev = Nil => IF IsAttr(t, q) THEN t[x].props = q ELSE t[x].first = q
          /\ t[q].next = Nil /\ ~IsAttr(t, q) => t[x].last = q
          /\ t[x].kind \in ParentKind /\ (IsAttr(t, q) => t[x].kind = "element")
      BY <1>1, <3>1 DEF Placed
    <3> HIDE DEF x
    <3>4. /\ u[m].prev = Nil => t[q].prev = Nil
          /\ u[m].next = Nil => t[q].next = Nil
      BY <1>2, <1>3, <1>4, <3>2
    <3>5. /\ u[f[x]].props = CopyOf(f, t[x].props) /\ u[f[x]].first = CopyOf(f, t[x].first)
          /\ u[f[x]].last = CopyOf(f, t[x].last) /\ u[f[x]].kind = t[x].kind
          /\ u[f[x]].doc = Nil /\ u[m].doc = Nil /\ IsAttr(u, m) = IsAttr(t, q)
          /\ CopyOf(f, q) = m
      BY <1>3, <1>4, <3>1 DEF IsAttr
    <3> HIDE DEF m
    <3>6. P(m)
      BY <3>1, <3>3, <3>4, <3>5
    <3> QED
      BY <3>6 DEF m
  <2>3. \A m \in Cell : u[m].up # Nil => P(m)
    <3> HIDE DEF P
    <3> QED
      BY <1>2, <2>1, <2>2
  <2> QED
    BY <2>3 DEF Placed
<1>12. Named(u)
  <2> SUFFICES ASSUME NEW a \in Cell, NEW b \in Cell, IsAttr(u, a), IsAttr(u, b),
                      u[a].up # Nil, u[a].up = u[b].up, u[a].name = u[b].name
               PROVE  a = b
    BY DEF Named
  <2>1. \A m \in R : u[m].up \in R \cup {Nil}
    BY <1>2, <1>3, <1>4
  <2>2. \A m \in Cell \ R : u[m].up \in (Cell \ R) \cup {Nil}
    BY <1>2, <1>5
  <2>3. CASE a \in R /\ b \in R
    <3>1. PICK x \in D : a = f[x]
      BY <1>2, <2>3
    <3>2. PICK y \in D : b = f[y]
      BY <1>2, <2>3
    <3>3. /\ t[x].up \in D /\ t[y].up \in D /\ f[t[x].up] = f[t[y].up]
          /\ t[x].name = t[y].name /\ IsAttr(t, x) /\ IsAttr(t, y)
      BY <1>3, <1>4, <3>1, <3>2 DEF IsAttr
    <3>4. t[x].up = t[y].up /\ t[x].up # Nil /\ x \in Cell /\ y \in Cell
      BY <1>1, <3>3
    <3> QED
      BY <1>1, <3>1, <3>2, <3>3, <3>4 DEF Named
  <2>4. CASE a \notin R /\ b \notin R
    BY <1>1, <1>2, <2>4 DEF Named, IsAttr
  <2> QED
    BY <2>1, <2>2, <2>3, <2>4
\* A walk that comes round among copies does among what they are copies of.
<1>13. UpEnds(u)
  <2> SUFFICES ASSUME NEW S \in SUBSET Cell, S # {}, \A m \in S : u[m].up \in S
               PROVE  FALSE
    BY DEF UpEnds
  <2>1. CASE S \cap R = {}
    <3>1. \A m \in S : t[m].up \in S
      BY <1>2, <2>1
    <3> QED
      BY <1>1, <3>1 DEF UpEnds
  <2>2. CASE S \cap R # {}
    <3> DEFINE Q == {m \in D : f[m] \in S}
    <3>1. Q \in SUBSET Cell /\ Q # {}
      BY <1>1, <1>2, <2>2
    <3>2. \A m \in Q : t[m].up \in Q
      BY <1>1, <1>3, <1>4
    <3> HIDE DEF Q
    <3> QED
      BY <1>1, <3>1, <3>2 DEF UpEnds
  <2> QED
    BY <2>1, <2>2
<1>14. NextEnds(u)
  <2> SUFFICES ASSUME NEW S \in SUBSET Cell, S # {}, \A m \in S : u[m].next \in S
               PROVE  FALSE
    BY DEF NextEnds
  <2>1. CASE S \cap R = {}
    <3>1. \A m \in S : t[m].next \in S
      BY <1>2, <2>1
    <3> QED
      BY <1>1, <3>1 DEF NextEnds
  <2>2. CASE S \cap R # {}
    <3> DEFINE Q == {m \in D : f[m] \in S}
    <3>1. Q \in SUBSET Cell /\ Q # {}
      BY <1>1, <1>2, <2>2
    <3>2. \A m \in Q : t[m].next \in Q
      BY <1>1, <1>3, <1>4
    <3> HIDE DEF Q
    <3> QED
      BY <1>1, <3>1, <3>2 DEF NextEnds
  <2> QED
    BY <2>1, <2>2
<1> QED
  BY <1>7, <1>8, <1>9, <1>10, <1>11, <1>12, <1>13, <1>14 DEF Well, Linked

\* xmlCopyNode keeps what there is, and adds a copy.
LEMMA CopyNodeKeeps ==
  ASSUME NEW t, Well(t), NEW n \in Node, Used(t, n), ~IsAttr(t, n), NEW deep \in BOOLEAN,
         NEW f \in [(IF deep THEN Subtree(t, n) ELSE {n}) -> {m \in Node : ~Used(t, m)}],
         IsInjective(f), NEW u, u = CopyNode(t, n, deep, f)
  PROVE  Well(u)
<1> DEFINE D == IF deep THEN Subtree(t, n) ELSE {n}
<1>1. /\ Typed(t) /\ Sorted(t) /\ UpEnds(t) /\ n \in Cell /\ Nil \notin Cell /\ n \notin Doc
      /\ t[n].kind \in NodeKind /\ t[n].kind \in Kind /\ t[n].name = "none"
  BY Cells DEF Well, Sorted, NodeKind, IsAttr
<1>2. /\ n \in Subtree(t, n) /\ Subtree(t, n) \subseteq Node
      /\ \A m \in Cell : t[m].up \in Subtree(t, n) => m \in Subtree(t, n)
      /\ \A m \in Subtree(t, n) \ {n} : t[m].up \in Subtree(t, n)
      /\ t[n].up \notin Subtree(t, n)
  BY <1>1, SubtreeFacts
<1>3. /\ D \in SUBSET Node /\ n \in D /\ f \in [D -> Node] /\ DOMAIN f = D
      /\ \A m \in D : f[m] \in Node /\ ~Used(t, f[m])
      /\ \A m, q \in D : f[m] = f[q] => m = q
  BY <1>2 DEF IsInjective
<1>4. Nil \notin D /\ D \subseteq Cell /\ \A m \in D : f[m] \in Cell
  BY <1>1, <1>3, Cells
<1>5. Range(f) = {f[m] : m \in D}
  BY <1>3 DEF Range
<1>6. CASE ~deep
  <2>1. D = {n}
    BY <1>6
  <2>2. u = [c \in Cell |-> IF c \notin Range(f) THEN t[c] ELSE Fresh(t[n].kind, t[n].name)]
    BY <1>6 DEF CopyNode
  <2> DEFINE v == f[n]
             r == Fresh(t[n].kind, t[n].name)
  <2>3. v \in Node /\ v \in Cell /\ ~Used(t, v) /\ Range(f) = {v}
    BY <1>3, <1>4, <1>5, <2>1
  <2>4. /\ r \in CellState /\ r.kind = t[n].kind /\ r.name = "none" /\ r.up = Nil /\ r.first = Nil
        /\ r.last = Nil /\ r.next = Nil /\ r.prev = Nil /\ r.props = Nil
    BY <1>1, FreshIs
  <2> HIDE DEF v, r
  <2>5. u[v] = r /\ \A m \in Cell \ {v} : u[m] = t[m]
    BY <2>2, <2>3 DEF r
  <2>6. Typed(u)
    <3>1. \A m \in Cell : u[m] \in CellState
      BY <1>1, <2>4, <2>5, Types
    <3>2. u = [c \in Cell |-> u[c]]
      BY <2>2
    <3> QED
      BY <3>1, <3>2 DEF Typed
  <2>7. /\ Used(u, v) /\ u[v].kind \in NodeKind /\ (u[v].name # "none" <=> IsAttr(u, v))
        /\ v \notin Doc
    BY <1>1, <2>3, <2>4, <2>5, Cells DEF Used, IsAttr
  <2>8. /\ u[v].up = Nil /\ u[v].first = Nil /\ u[v].last = Nil /\ u[v].next = Nil
        /\ u[v].prev = Nil /\ u[v].props = Nil
    BY <2>4, <2>5
  <2> QED
    BY <2>3, <2>5, <2>6, <2>7, <2>8, Born
<1>7. CASE deep
  <2>1. D = Subtree(t, n)
    BY <1>7
  <2> DEFINE src(c) == CHOOSE m \in DOMAIN f : f[m] = c
             To(m) == IF m \in DOMAIN f THEN f[m] ELSE Nil
             Like(r) == [r EXCEPT !.up = To(@), !.first = To(@), !.last = To(@),
                                  !.next = To(@), !.prev = To(@), !.props = To(@),
                                  !.doc = Nil]
  <2>2. u = [c \in Cell |-> IF c \notin Range(f) THEN t[c]
                           ELSE IF deep THEN Like(t[src(c)]) ELSE Fresh(t[n].kind, t[n].name)]
    BY Zenon DEF CopyNode
  <2>3. \A m \in D : src(f[m]) = m
    <3> SUFFICES ASSUME NEW m \in D PROVE src(f[m]) = m
      OBVIOUS
    <3>1. src(f[m]) \in D /\ f[src(f[m])] = f[m]
      BY <1>3
    <3> QED
      BY <1>3, <3>1
  <2>4. \A q : To(q) = CopyOf(f, q)
    BY DEF CopyOf
  <2>5. \A m \in D : u[f[m]] = Like(t[m])
    <3> HIDE DEF src, Like
    <3> QED
      BY <1>4, <1>5, <1>7, <2>2, <2>3
  <2>6. \A m \in Cell : (\A q \in D : m # f[q]) => u[m] = t[m]
    <3> HIDE DEF src, Like
    <3> QED
      BY <1>5, <2>2
  <2>7. u = [c \in Cell |-> u[c]]
    BY <2>2
  <2>8. ASSUME NEW m \in D
        PROVE  /\ u[f[m]] \in CellState
               /\ u[f[m]].kind = t[m].kind /\ u[f[m]].name = t[m].name /\ u[f[m]].doc = Nil
               /\ u[f[m]].up = CopyOf(f, t[m].up) /\ u[f[m]].first = CopyOf(f, t[m].first)
               /\ u[f[m]].last = CopyOf(f, t[m].last) /\ u[f[m]].next = CopyOf(f, t[m].next)
               /\ u[f[m]].prev = CopyOf(f, t[m].prev) /\ u[f[m]].props = CopyOf(f, t[m].props)
    <3> DEFINE a == CopyOf(f, t[m].up)
               b == CopyOf(f, t[m].first)
               c == CopyOf(f, t[m].last)
               d == CopyOf(f, t[m].next)
               e == CopyOf(f, t[m].prev)
               g == CopyOf(f, t[m].props)
    <3>1. t[m] \in CellState
      BY <1>1, <1>4, Types
    <3>2. \A q : CopyOf(f, q) \in Node \cup {Nil}
      BY <1>3 DEF CopyOf
    <3>3. u[f[m]] = [t[m] EXCEPT !.up = a, !.first = b, !.last = c, !.next = d,
                                 !.prev = e, !.props = g, !.doc = Nil]
      BY <2>4, <2>5, <3>1, ZenonT(60) DEF CellState, CopyOf
    <3>4. /\ a \in Cell \cup {Nil} /\ b \in Node \cup {Nil} /\ c \in Node \cup {Nil}
          /\ d \in Node \cup {Nil} /\ e \in Node \cup {Nil} /\ g \in Node \cup {Nil}
      BY <3>2, Cells
    <3> HIDE DEF a, b, c, d, e, g
    <3>5. /\ u[f[m]].kind = t[m].kind /\ u[f[m]].name = t[m].name /\ u[f[m]].doc = Nil
          /\ u[f[m]].up = a /\ u[f[m]].first = b /\ u[f[m]].last = c /\ u[f[m]].next = d
          /\ u[f[m]].prev = e /\ u[f[m]].props = g
      BY <3>1, <3>3 DEF CellState
    <3>6. u[f[m]] \in CellState
      BY <3>1, <3>3, <3>4, ZenonT(60) DEF CellState
    <3> QED
      BY <3>5, <3>6 DEF a, b, c, d, e, g
  <2> HIDE DEF src, To, Like
  <2>9. Typed(u)
    <3>1. \A m \in Cell : u[m] \in CellState
      BY <1>1, <2>6, <2>8, Types
    <3> QED
      BY <2>7, <3>1 DEF Typed
  <2>10. \A m \in D : Used(t, m)
    <3>1. \A m \in D \ {n} : t[m].up # Nil
      BY <1>2, <1>4, <2>1
    <3> QED
      BY <1>1, <1>4, <3>1 DEF Sorted, Unused, Fresh
  <2>11. /\ t[n].up \notin D /\ \A m \in D \ {n} : t[m].up \in D
         /\ \A m \in Cell : t[m].up \in D => m \in D
    BY <1>2, <2>1
  <2>12. \A m \in D :
           /\ u[f[m]].kind = t[m].kind /\ u[f[m]].name = t[m].name /\ u[f[m]].doc = Nil
           /\ u[f[m]].up = CopyOf(f, t[m].up) /\ u[f[m]].first = CopyOf(f, t[m].first)
           /\ u[f[m]].last = CopyOf(f, t[m].last) /\ u[f[m]].next = CopyOf(f, t[m].next)
           /\ u[f[m]].prev = CopyOf(f, t[m].prev) /\ u[f[m]].props = CopyOf(f, t[m].props)
    BY <2>8
  <2> HIDE DEF D
  <2>13. Whole(t, D, n)
    BY <1>3, <2>10, <2>11 DEF Whole
  <2>14. Names(t, D, f)
    BY <1>3 DEF Names
  <2>15. Alike(t, D, f, u)
    BY <2>6, <2>12 DEF Alike
  <2> QED
    BY <2>9, <2>13, <2>14, <2>15, Copied
<1> QED
  BY <1>6, <1>7

-----------------------------------------------------------------------------
(***************************************************************************)
(* The methods                                                             *)
(***************************************************************************)
\* A cell of a kind, in no tree
LEMMA NewCell ==
  ASSUME NEW t, Well(t), NEW n \in Node, ~Used(t, n), NEW k \in NodeKind \ {"attribute"}
  PROVE  LET u == [t EXCEPT ![n] = Fresh(k, "none")]
         IN  /\ Well(u) /\ u[n] = Fresh(k, "none") /\ u[n].kind = k
             /\ \A m \in Cell \ {n} : u[m] = t[m]
<1>1. /\ Typed(t) /\ n \in Cell /\ n \notin Doc /\ k \in Kind /\ k \in NodeKind
      /\ k # "free" /\ k # "attribute"
  BY Cells DEF Well, NodeKind, Kind
<1> DEFINE r == Fresh(k, "none")
           w == [t EXCEPT ![n] = r]
<1>2. /\ r \in CellState /\ r.kind = k /\ r.name = "none" /\ r.up = Nil /\ r.first = Nil
      /\ r.last = Nil /\ r.next = Nil /\ r.prev = Nil /\ r.props = Nil
  BY <1>1, FreshIs
<1> HIDE DEF r
<1>3. w \in [Cell -> CellState] /\ w[n] = r /\ \A m \in Cell \ {n} : w[m] = t[m]
  BY <1>1, <1>2 DEF Typed
<1>4. [t EXCEPT ![n] = Fresh(k, "none")] = w
  BY DEF r
<1> HIDE DEF w
<1>5. /\ Used(w, n) /\ w[n].kind \in NodeKind /\ (w[n].name # "none" <=> IsAttr(w, n))
      /\ Typed(w)
  BY <1>1, <1>2, <1>3 DEF Used, IsAttr, Typed
<1>6. /\ w[n].up = Nil /\ w[n].first = Nil /\ w[n].last = Nil /\ w[n].next = Nil
      /\ w[n].prev = Nil /\ w[n].props = Nil
  BY <1>2, <1>3
<1>7. Well(w)
  BY <1>1, <1>3, <1>5, <1>6, Born
<1> QED
  BY <1>2, <1>3, <1>4, <1>7 DEF r

\* A new document
LEMMA NewDocument ==
  ASSUME NEW t, Well(t), NEW d \in Doc, ~Used(t, d)
  PROVE  LET u == [t EXCEPT ![d] = FreshDocument(d)]
         IN  Well(u) /\ u[d] = FreshDocument(d) /\ \A m \in Cell \ {d} : u[m] = t[m]
<1>1. Typed(t) /\ d \in Cell /\ d \notin Node
  BY Cells DEF Well
<1> DEFINE r == FreshDocument(d)
           w == [t EXCEPT ![d] = r]
<1>2. /\ r \in CellState /\ r.kind = "document" /\ r.name = "none" /\ r.up = Nil /\ r.first = Nil
      /\ r.last = Nil /\ r.next = Nil /\ r.prev = Nil /\ r.props = Nil /\ r.doc = d
  BY FreshDocumentIs
<1> HIDE DEF r
<1>3. w \in [Cell -> CellState] /\ w[d] = r /\ \A m \in Cell \ {d} : w[m] = t[m]
  BY <1>1, <1>2 DEF Typed
<1>4. [t EXCEPT ![d] = FreshDocument(d)] = w
  BY DEF r
<1> HIDE DEF w
<1>5. /\ Used(w, d) /\ w[d].kind = "document" /\ w[d].doc = d
      /\ (w[d].name # "none" <=> IsAttr(w, d)) /\ Typed(w)
  BY <1>1, <1>2, <1>3 DEF Used, IsAttr, Typed
<1>6. /\ w[d].up = Nil /\ w[d].first = Nil /\ w[d].last = Nil /\ w[d].next = Nil
      /\ w[d].prev = Nil /\ w[d].props = Nil
  BY <1>2, <1>3
<1>7. Well(w)
  BY <1>1, <1>3, <1>5, <1>6, Born
<1> QED
  BY <1>3, <1>4, <1>7 DEF r

\* Live cells are the used ones.
LEMMA LiveIs ==
  ASSUME Well(tree)
  PROVE  /\ \A n \in Live : n \in Cell /\ Used(tree, n)
         /\ \A n \in Cell : Used(tree, n) => n \in Live
         /\ \A n \in Free : n \in Node /\ n \in Cell /\ ~Used(tree, n)
         /\ \A d \in Doc : tree[d] = Unused => ~Used(tree, d)
BY Cells DEF Well, Sorted, Live, Free, Used, Unused, Fresh

\* Each method keeps the tree well.
LEMMA NodeInitializeKeeps ==
  ASSUME Well(tree), NEW n \in Node, NodeInitialize(n)
  PROVE  Well(tree')
<1> DEFINE t == [tree EXCEPT ![n] = Fresh("element", "none")]
<1>1. n \in Free /\ tree' \in {t} \cup {SetContent(t, n, v) : v \in Free \ {n}}
  BY DEF NodeInitialize
<1>2. n \in Cell /\ ~Used(tree, n) /\ "element" \in NodeKind \ {"attribute"}
  BY <1>1, LiveIs DEF NodeKind, Kind, Document
<1>3. Well(t) /\ t[n].kind = "element" /\ \A m \in Cell \ {n} : t[m] = tree[m]
  BY <1>2, NewCell
<1> HIDE DEF t
<1>4. CASE tree' = t
  BY <1>3, <1>4
<1>5. ASSUME NEW v \in Free \ {n}, tree' = SetContent(t, n, v)
      PROVE  Well(tree')
  <2>1. v \in Node \cup {Nil} /\ Used(t, n) /\ ~Used(t, v)
    BY <1>3, LiveIs DEF Used
  <2> QED
    BY <1>2, <1>3, <1>5, <2>1, SetContentKeeps
<1> QED
  BY <1>1, <1>4, <1>5

LEMMA DocumentInitializeKeeps ==
  ASSUME Well(tree), NEW d \in Doc, DocumentInitialize(d)
  PROVE  Well(tree')
<1>1. ~Used(tree, d) /\ tree' = [tree EXCEPT ![d] = FreshDocument(d)]
  BY LiveIs DEF DocumentInitialize
<1> QED
  BY <1>1, NewDocument

LEMMA ChildSetKeeps ==
  ASSUME Well(tree), NEW p \in Cell, NEW c \in Node, ChildSet(p, c)
  PROVE  Well(tree')
<1>1. /\ p \in Live /\ c \in Live \cap Node /\ Unlinked(tree, c) /\ c \notin Upwards(tree, p)
      /\ tree[p].kind \in {"element", "document"}
      /\ tree[c].kind = "attribute" => tree[p].kind = "element"
      /\ tree' = AddChild(tree, p, c)
  BY DEF ChildSet, HandedOver
<1>2. MayJoin(tree, p, c)
  BY <1>1, LiveIs DEF MayJoin, ParentKind, IsAttr
<1> QED
  BY <1>1, <1>2, AddChildKeeps

LEMMA SiblingSetKeeps ==
  ASSUME Well(tree), NEW s \in Cell, NEW c \in Node, SiblingSet(s, c)
  PROVE  Well(tree')
<1>1. /\ s \in Live /\ c \in Live \cap Node /\ Unlinked(tree, c) /\ c \notin Upwards(tree, s)
      /\ s # c /\ tree[s].kind \notin {"attribute"} \cup Document
      /\ tree[c].kind \notin {"attribute"} \cup Document
      /\ tree' = AddSibling(tree, s, c)
  BY DEF SiblingSet, HandedOver, IsContent
<1>2. /\ Used(tree, s) /\ Used(tree, c) /\ ~IsAttr(tree, s) /\ ~IsAttr(tree, c)
  BY <1>1, LiveIs DEF IsAttr
<1>3. s \in Node
  BY <1>1, <1>2, Cells DEF Well, Sorted, Document
<1> QED
  BY <1>1, <1>2, <1>3, AddSiblingKeeps

LEMMA ContentKeeps ==
  ASSUME Well(tree), NEW n \in Cell
  PROVE  /\ \A v \in Node : ContentAdd(n, v) => Well(tree')
         /\ \A v \in Node \cup {Nil} : ContentSet(n, v) => Well(tree')
<1>1. ASSUME NEW v \in Node, ContentAdd(n, v)
      PROVE  Well(tree')
  <2>1. n \in Live /\ v \in Free /\ tree' = AddContent(tree, n, v)
    BY <1>1 DEF ContentAdd
  <2> QED
    BY <2>1, LiveIs, AddContentKeeps
<1>2. ASSUME NEW v \in Node \cup {Nil}, ContentSet(n, v)
      PROVE  Well(tree')
  <2>1. n \in Live /\ v \in Free \cup {Nil} /\ tree' = SetContent(tree, n, v)
    BY <1>2 DEF ContentSet
  <2>2. Used(tree, n) /\ (v # Nil => ~Used(tree, v))
    BY <2>1, LiveIs
  <2> QED
    BY <2>1, <2>2, SetContentKeeps
<1> QED
  BY <1>1, <1>2

LEMMA PropertyUnsetKeeps ==
  ASSUME Well(tree), NEW n \in Node, NEW name \in AttrName, PropertyUnset(n, name)
  PROVE  Well(tree')
<1> DEFINE same == {a \in Attributes(tree, n) : tree[a].name = name}
           a == PropertyGet(n, name)
<1>1. a # Nil /\ tree' = RemoveProp(tree, a)
  BY DEF PropertyUnset
<1>2. a \in same
  BY <1>1 DEF PropertyGet
<1>3. a \in Cell /\ tree[a].kind = "attribute"
  BY <1>2 DEF Attributes
<1> HIDE DEF a
<1>4. a \in Node /\ Used(tree, a)
  BY <1>3, Cells DEF Well, Sorted, Used
<1> QED
  BY <1>1, <1>4, RemovePropKeeps

LEMMA SetPropStep ==
  ASSUME Well(tree), NEW n \in Live, NEW a \in Free, NEW v \in Free \ {a},
         NEW name \in AttrName \cup {"xml:base", "xml:lang"},
         tree' = SetProp(tree, n, name, a, v)
  PROVE  Well(tree')
<1>1. name # "none"
  BY TreeAssumption
<1>2. n \in Cell /\ Used(tree, n) /\ a \in Node /\ ~Used(tree, a) /\ v \in Node /\ ~Used(tree, v)
  BY LiveIs
<1> QED
  BY <1>1, <1>2, SetPropKeeps

LEMMA RemoveKeeps ==
  ASSUME Well(tree), NEW n \in Node, Remove(n)
  PROVE  Well(tree')
<1>1. Used(tree, n) /\ tree' = Unlink(tree, n)
  BY LiveIs DEF Remove
<1> QED
  BY <1>1, UnlinkKeeps

LEMMA RootSetKeeps ==
  ASSUME Well(tree), NEW d \in Doc, NEW n \in Node, RootSet(d, n)
  PROVE  Well(tree')
<1>1. Used(tree, d) /\ tree[n].kind = "element" /\ tree' = SetRootElement(tree, d, n)
  BY LiveIs DEF RootSet
<1> QED
  BY <1>1, SetRootElementKeeps

LEMMA CopyKeeps ==
  ASSUME Well(tree), NEW n \in Node, NEW deep \in BOOLEAN, Copy(n, deep)
  PROVE  Well(tree')
<1>1. n \in Live /\ IsContent(n)
  BY DEF Copy
<1>2. PICK f \in [(IF deep THEN Subtree(tree, n) ELSE {n}) -> Free] :
             IsInjective(f) /\ tree' = CopyNode(tree, n, deep, f)
  BY DEF Copy
<1>3. Used(tree, n) /\ ~IsAttr(tree, n)
  BY <1>1, LiveIs DEF IsContent, IsAttr
<1>4. Free = {m \in Node : ~Used(tree, m)}
  BY LiveIs, Cells DEF Free, Well, Sorted
<1> QED
  BY <1>2, <1>3, <1>4, CopyNodeKeeps

\* A document as the parser leaves it
LEMMA InitWell == Init => Well(tree)
<1> SUFFICES ASSUME NEW d \in Doc, NEW r \in Node, NEW x \in Node, NEW k \in Leaf,
                    NEW beside \in BOOLEAN, r # x,
                    LET root(t) == [t EXCEPT ![d] = FreshDocument(d), ![r] = Fresh("element", "none")]
                        leaf(t) == [t EXCEPT ![x] = Fresh(k, "none")]
                        none    == [c \in Cell |-> Unused]
                    IN  tree = IF beside THEN AddChild(leaf(AddChild(root(none), d, r)), d, x)
                               ELSE AddChild(leaf(AddChild(root(none), d, r)), r, x)
             PROVE  Well(tree)
  BY ZenonT(40) DEF Init
<1> DEFINE none == [c \in Cell |-> Unused]
           one == [none EXCEPT ![d] = FreshDocument(d)]
           two == [one EXCEPT ![r] = Fresh("element", "none")]
           three == AddChild(two, d, r)
           four == [three EXCEPT ![x] = Fresh(k, "none")]
<1>1. /\ d \in Cell /\ r \in Cell /\ x \in Cell /\ d # r /\ d # x /\ d # Nil /\ Nil \notin Cell
      /\ d \notin Node
      /\ "element" \in NodeKind \ {"attribute"} /\ k \in NodeKind \ {"attribute"}
  BY Cells, LeafAssumption DEF NodeKind, Kind, Document
<1>2. tree = IF beside THEN AddChild(four, d, x) ELSE AddChild(four, r, x)
  OBVIOUS
<1>3. Well(none) /\ \A m \in Cell : ~Used(none, m)
  <2>1. /\ Unused \in CellState /\ Unused.kind = "free" /\ Unused.name = "none"
        /\ Unused.up = Nil /\ Unused.first = Nil /\ Unused.last = Nil /\ Unused.next = Nil
        /\ Unused.prev = Nil /\ Unused.props = Nil
    BY FreshIs DEF Unused
  <2>2. none \in [Cell -> CellState] /\ \A m \in Cell : none[m] = Unused
    BY <2>1
  <2> HIDE DEF none
  <2>3. Typed(none) /\ Sorted(none) /\ Named(none)
    <3>1. Typed(none) /\ Named(none)
      BY <2>1, <2>2 DEF Typed, Named, IsAttr
    <3>2. Sorted(none)
      BY <2>1, <2>2 DEF Sorted, Used, IsAttr
    <3> QED
      BY <3>1, <3>2
  <2>4. Linked(none)
    BY <2>1, <2>2 DEF Linked, Inside, Chained, Ended, Placed
  <2>5. UpEnds(none) /\ NextEnds(none)
    BY <2>1, <2>2, <1>1 DEF UpEnds, NextEnds
  <2> QED
    BY <2>1, <2>2, <2>3, <2>4, <2>5 DEF Well, Used
<1> HIDE DEF none
<1>4. /\ Well(one) /\ one[d] = FreshDocument(d) /\ ~Used(one, r) /\ ~Used(one, x)
  <2>1. ~Used(none, d)
    BY <1>1, <1>3
  <2>2. /\ Well(one) /\ one[d] = FreshDocument(d)
        /\ \A m \in Cell \ {d} : one[m] = none[m]
    BY <1>3, <2>1, NewDocument
  <2> HIDE DEF one
  <2> QED
    BY <1>1, <1>3, <2>2 DEF Used
<1>5. one[d].kind = "document" /\ Used(one, d)
  BY <1>4, FreshDocumentIs DEF Used
<1> HIDE DEF one
<1>6. Well(two) /\ MayJoin(two, d, r) /\ two[r].kind = "element"
  <2>1. /\ Typed(two) /\ two[r] = Fresh("element", "none")
        /\ \A m \in Cell \ {r} : two[m] = one[m]
    BY <1>1, <1>4, FreshCell DEF Well, NodeKind
  <2>2. one[d].kind \in ParentKind
    BY <1>5 DEF ParentKind
  <2> HIDE DEF two
  <2> QED
    BY <1>1, <1>4, <1>5, <2>1, <2>2, NewJoins
<1>7. two[d].kind = "document" /\ ~Used(two, x)
  BY <1>1, <1>4, <1>5 DEF Used
<1> HIDE DEF two
<1>8. /\ Well(three) /\ three[d].kind = "document" /\ three[r].kind = "element"
      /\ ~Used(three, x)
  <2>1. ~IsAttr(two, r) /\ two[r].kind # "text"
    BY <1>6 DEF IsAttr
  <2> QED
    BY <1>1, <1>6, <1>7, <2>1, AddContentNodeKeeps DEF Used
<1> HIDE DEF three
<1>9. ASSUME NEW p \in {d, r}
      PROVE  Well(AddChild(four, p, x))
  <2>1. /\ Typed(four) /\ four[x] = Fresh(k, "none")
        /\ \A m \in Cell \ {x} : four[m] = three[m]
    BY <1>1, <1>8, FreshCell DEF Well, NodeKind
  <2>2. p \in Cell /\ Used(three, p) /\ three[p].kind \in ParentKind
    BY <1>1, <1>8 DEF Used, ParentKind
  <2> HIDE DEF four
  <2>3. Well(four) /\ MayJoin(four, p, x)
    BY <1>1, <1>8, <2>1, <2>2, NewJoins
  <2> QED
    BY <2>3, AddChildKeeps
<1> QED
  BY <1>2, <1>9

\* Every step
LEMMA NextWell ==
  ASSUME Well(tree), [Next]_tree
  PROVE  Well(tree')
<1>1. ASSUME NEW n \in Node, NodeInitialize(n) \/ Remove(n)
      PROVE  Well(tree')
  BY <1>1, NodeInitializeKeeps, RemoveKeeps
<1>2. ASSUME NEW d \in Doc, DocumentInitialize(d)
      PROVE  Well(tree')
  BY <1>2, DocumentInitializeKeeps
<1>3. ASSUME NEW p \in Cell, NEW c \in Node, ChildSet(p, c) \/ SiblingSet(p, c)
      PROVE  Well(tree')
  BY <1>3, ChildSetKeeps, SiblingSetKeeps
<1>4. ASSUME NEW n \in Cell, NEW v \in Node, ContentAdd(n, v)
      PROVE  Well(tree')
  BY <1>4, ContentKeeps
<1>5. ASSUME NEW n \in Cell, NEW v \in Node \cup {Nil}, ContentSet(n, v)
      PROVE  Well(tree')
  BY <1>5, ContentKeeps
<1>6. ASSUME NEW n \in Node, NEW name \in AttrName, PropertyUnset(n, name)
      PROVE  Well(tree')
  BY <1>6, PropertyUnsetKeeps
<1>7. ASSUME NEW n, NEW a \in Node, NEW v \in Node, NEW name \in AttrName,
             PropertySet(n, name, a, v)
      PROVE  Well(tree')
  <2>1. n \in Live /\ a \in Free /\ v \in Free \ {a} /\ tree' = SetProp(tree, n, name, a, v)
    BY <1>7 DEF PropertySet
  <2> QED
    BY <2>1, SetPropStep
<1>8. ASSUME NEW d \in Doc, NEW a \in Node, NEW v \in Node, NEW name \in AttrName,
             DocumentPropertySet(d, name, a, v)
      PROVE  Well(tree')
  BY <1>7, <1>8 DEF DocumentPropertySet
<1>9. ASSUME NEW n \in Node, NEW a \in Node, NEW v \in Node, BaseSet(n, a, v) \/ LangSet(n, a, v)
      PROVE  Well(tree')
  <2>1. PICK name \in {"xml:base", "xml:lang"} :
               n \in Live /\ a \in Free /\ v \in Free \ {a} /\ tree' = SetProp(tree, n, name, a, v)
    BY <1>9 DEF BaseSet, LangSet
  <2> QED
    BY <2>1, SetPropStep
<1>10. ASSUME NEW d \in Doc, NEW n \in Node, RootSet(d, n)
       PROVE  Well(tree')
  BY <1>10, RootSetKeeps
<1>11. ASSUME NEW n \in Node, NEW deep \in BOOLEAN, Copy(n, deep)
       PROVE  Well(tree')
  BY <1>11, CopyKeeps
<1>12. CASE UNCHANGED tree
  BY <1>12
<1> QED
  BY <1>1, <1>2, <1>3, <1>4, <1>5, <1>6, <1>7, <1>8, <1>9, <1>10, <1>11, <1>12 DEF Next

\* The inductive invariant: after any sequence of method calls the tree is well.
THEOREM TreesStayWell == Spec => []Well(tree)
<1>1. Well(tree) /\ [Next]_tree => Well(tree)'
  BY NextWell DEF Well, Typed, Sorted, Linked, Inside, Chained, Ended, Placed, Named,
                  UpEnds, NextEnds, Used, IsAttr
<1> QED
  BY <1>1, InitWell, PTL DEF Spec

-----------------------------------------------------------------------------
(***************************************************************************)
(* What the links, the answers and the walks are in a well-linked tree     *)
(***************************************************************************)
LEMMA WellIsTyped == Well(tree) => TypeOK
<1> SUFFICES ASSUME Well(tree) PROVE TypeOK
  OBVIOUS
<1>1. Typed(tree) /\ Sorted(tree)
  BY DEF Well
<1>2. ASSUME NEW c \in Live
      PROVE  /\ (tree[c].kind \in Document) = (c \in Doc)
             /\ (tree[c].name # "none") = (tree[c].kind = "attribute")
  <2>1. c \in Cell /\ Used(tree, c)
    BY LiveIs
  <2>2. c \in Doc => tree[c].kind \in Document
    BY <1>1, <2>1 DEF Sorted, Document
  <2>3. c \in Node => tree[c].kind \notin Document
    BY <1>1, <2>1 DEF Sorted, NodeKind
  <2>4. (tree[c].name # "none") = (tree[c].kind = "attribute")
    BY <1>1, <2>1 DEF Sorted, IsAttr
  <2> QED
    BY <2>1, <2>2, <2>3, <2>4, Cells
<1> QED
  BY <1>1, <1>2 DEF Typed, CellState, TypeOK

LEMMA WellIsLinked == Well(tree) => WellLinked
<1> SUFFICES ASSUME Well(tree) PROVE WellLinked
  OBVIOUS
<1>1. /\ Typed(tree) /\ Inside(tree) /\ Chained(tree) /\ Ended(tree) /\ Placed(tree)
      /\ Named(tree) /\ UpEnds(tree) /\ NextEnds(tree)
  BY DEF Well, Linked
<1>2. Live \subseteq Cell /\ \A n \in Cell : Used(tree, n) => n \in Live
  BY LiveIs
<1>3. Acyclic(Up) /\ Acyclic(After)
  <2>1. ASSUME NEW S \in (SUBSET Live) \ {{}}
        PROVE  (\E n \in S : tree[n].up \notin S) /\ (\E n \in S : tree[n].next \notin S)
    BY <1>1, <1>2 DEF UpEnds, NextEnds
  <2>2. \A S \in (SUBSET Live) \ {{}} : \E n \in S : Up(n) \notin S
    BY <2>1 DEF Up
  <2>3. \A S \in (SUBSET Live) \ {{}} : \E n \in S : After(n) \notin S
    BY <2>1 DEF After
  <2> QED
    BY <2>2, <2>3 DEF Acyclic
<1>4. ASSUME NEW n \in Live
      PROVE  LET r == tree[n]
                 isAttr == r.kind = "attribute"
             IN  /\ {r.up, r.first, r.last, r.next, r.prev, r.props} \subseteq Live \cup {Nil}
                 /\ r.next # Nil => /\ tree[r.next].prev = n /\ tree[r.next].up = r.up
                                    /\ (tree[r.next].kind = "attribute") = isAttr
                 /\ r.prev # Nil => tree[r.prev].next = n
                 /\ r.first # Nil => Up(r.first) = n /\ tree[r.first].prev = Nil
                 /\ r.last # Nil => Up(r.last) = n /\ tree[r.last].next = Nil
                 /\ r.props # Nil => Up(r.props) = n /\ tree[r.props].prev = Nil
                 /\ r.up # Nil /\ r.prev = Nil =>
                      n = IF isAttr THEN tree[r.up].props ELSE tree[r.up].first
                 /\ r.up # Nil /\ r.next = Nil => isAttr \/ n = tree[r.up].last
                 /\ \A a, b \in Attributes(tree, n) : tree[a].name = tree[b].name => a = b
  <2> DEFINE r == tree[n]
  <2>1. n \in Cell /\ n # Nil
    BY <1>2, Cells
  <2>2. {r.up, r.first, r.last, r.next, r.prev, r.props} \subseteq Live \cup {Nil}
    <3>1. {r.up, r.first, r.last, r.next, r.prev, r.props} \subseteq Cell \cup {Nil}
      BY <1>1, <2>1, Types, Cells
    <3> QED
      BY <1>1, <1>2, <2>1, <3>1 DEF Inside
  <2>3. r.next # Nil => /\ tree[r.next].prev = n /\ tree[r.next].up = r.up
                        /\ (tree[r.next].kind = "attribute") = (r.kind = "attribute")
    BY <1>1, <2>1 DEF Chained, IsAttr
  <2>4. r.prev # Nil => tree[r.prev].next = n
    BY <1>1, <2>1 DEF Chained
  <2>5. /\ r.first # Nil => Up(r.first) = n /\ tree[r.first].prev = Nil
        /\ r.last # Nil => Up(r.last) = n /\ tree[r.last].next = Nil
        /\ r.props # Nil => Up(r.props) = n /\ tree[r.props].prev = Nil
    BY <1>1, <2>1 DEF Ended, Up
  <2>6. /\ r.up # Nil /\ r.prev = Nil =>
             n = IF r.kind = "attribute" THEN tree[r.up].props ELSE tree[r.up].first
        /\ r.up # Nil /\ r.next = Nil => r.kind = "attribute" \/ n = tree[r.up].last
    BY <1>1, <2>1 DEF Placed, IsAttr
  <2>7. \A a, b \in Attributes(tree, n) : tree[a].name = tree[b].name => a = b
    BY <1>1, <2>1 DEF Named, IsAttr, Attributes
  <2> QED
    BY <2>2, <2>3, <2>4, <2>5, <2>6, <2>7
<1> QED
  BY <1>3, <1>4 DEF WellLinked

\* Up to the top of its tree a node finds cells in its document.
LEMMA WellIsTold == Well(tree) => DocumentTold
<1> SUFFICES ASSUME Well(tree), NEW n \in Live \cap Node
             PROVE  /\ Up(n) # Nil => tree[n].doc = tree[Up(n)].doc
                    /\ Upwards(tree, n) \cap Doc # {} => DocGet(n) \in Upwards(tree, n) /\ Dumps(n)
  BY DEF DocumentTold
<1>1. Typed(tree) /\ Sorted(tree) /\ Inside(tree) /\ Placed(tree) /\ UpEnds(tree)
  BY DEF Well, Linked
<1>2. n \in Cell /\ Used(tree, n)
  BY LiveIs
<1>3. Up(n) # Nil => tree[n].doc = tree[Up(n)].doc
  BY <1>1, <1>2 DEF Placed, Up
<1>4. ASSUME NEW d \in Upwards(tree, n) \cap Doc
      PROVE  tree[n].doc = d
  <2> DEFINE A == {m \in Cell : tree[m].doc = tree[n].doc /\ Used(tree, m)}
  <2>1. n \in A /\ A \in SUBSET Cell
    BY <1>2
  <2>2. \A m \in A : tree[m].up \in A \cup {Nil}
    BY <1>1, Types DEF Placed, Inside
  <2> HIDE DEF A
  <2>3. d \in A
    BY <1>1, <1>2, <2>1, <2>2, UpwardsFacts
  <2>4. d \in Cell /\ Used(tree, d) /\ tree[d].doc = tree[n].doc
    BY <2>3 DEF A
  <2> QED
    BY <1>1, <2>4 DEF Sorted
<1>5. DocGet(n) = tree[n].doc
  <2>1. tree[n].kind \in NodeKind
    BY <1>1, <1>2 DEF Sorted
  <2> QED
    BY <2>1 DEF DocGet, NodeKind
<1> QED
  BY <1>3, <1>4, <1>5, Cells DEF Dumps

\* What the methods return for a cell that is used, whatever its kind
LEMMA GetIs ==
  ASSUME Well(tree), NEW n \in Live
  PROVE  /\ n \in Cell /\ n # Nil
         /\ ChildGet(n) = tree[n].first
         /\ LastGet(n) = IF tree[n].kind = "attribute" THEN Nil ELSE tree[n].last
         /\ NextGet(n) = tree[n].next
<1>1. Typed(tree) /\ Sorted(tree) /\ Ended(tree) /\ Placed(tree)
  BY DEF Well, Linked
<1>2. n \in Cell /\ n # Nil /\ Used(tree, n)
  BY LiveIs, Cells
<1>3. /\ tree[n].first \in Cell \cup {Nil} /\ tree[n].last \in Cell \cup {Nil}
      /\ tree[n].props \in Cell \cup {Nil}
  BY <1>1, <1>2, Types, Cells
<1>4. /\ tree[n].first # Nil => tree[n].kind \in ParentKind
      /\ tree[n].last # Nil => tree[n].kind \in ParentKind
      /\ tree[n].props # Nil => tree[n].kind = "element"
  BY <1>1, <1>2, <1>3 DEF Ended, Placed
<1>5. tree[n].kind \in Document => tree[n].next = Nil
  BY <1>1, <1>2, Cells DEF Sorted, NodeKind
<1>6. ParentKind \subseteq Container \cup {"attribute"} /\ "attribute" \notin Container
  BY DEF ParentKind, Container, Document
<1>7. tree[n].kind \in Document \/ tree[n].kind \notin Document
  OBVIOUS
<1>8. ChildGet(n) = tree[n].first
  BY <1>4, <1>6 DEF ChildGet
<1>9. LastGet(n) = IF tree[n].kind = "attribute" THEN Nil ELSE tree[n].last
  BY <1>4, <1>6 DEF LastGet
<1>10. NextGet(n) = tree[n].next
  BY <1>5 DEF NextGet
<1> QED
  BY <1>2, <1>8, <1>9, <1>10

\* The copy of an attribute is a record.
LEMMA CopyPropIs ==
  ASSUME Typed(tree), Inside(tree), NEW n \in Cell, tree[n].props # Nil
  PROVE  LET r == CopyProp(tree[n].props)
         IN  r # Nil /\ r = [tree[tree[n].props] EXCEPT !.next = Nil, !.prev = Nil]
<1> DEFINE a == tree[n].props
<1>1. tree[a] \in CellState
  BY Types, Cells
<1>2. [tree[a] EXCEPT !.next = Nil, !.prev = Nil] \in CellState
  BY <1>1 DEF CellState
<1> QED
  BY <1>2, NilAssumption DEF CopyProp

LEMMA WellAnswers == Well(tree) => AnswersAgree
<1> SUFFICES ASSUME Well(tree) PROVE AnswersAgree
  OBVIOUS
<1>1. Typed(tree) /\ Sorted(tree) /\ Ended(tree) /\ Inside(tree)
  BY DEF Well, Linked
<1>2. ASSUME NEW n \in Live
      PROVE  /\ HasChild(n) = (ChildGet(n) # Nil)
             /\ HasLast(n) = (LastGet(n) # Nil)
             /\ HasNext(n) = (NextGet(n) # Nil)
             /\ HasPrev(n) = (PrevGet(n) # Nil)
             /\ HasParent(n) = (ParentGet(n) # Nil)
             /\ HasProperties(n) = (PropertiesGet(n) # Nil)
             /\ IsElement(tree[n].kind) => HasProperties(n) = ~PropertiesCrashes(n)
             /\ Dumps(n) = TellsBase(n) /\ DebugDumps(n) = TellsBase(n)
  <2>1. HasProperties(n) => CopyProp(tree[n].props) # Nil
    BY <1>1, LiveIs, CopyPropIs DEF HasProperties
  <2>2. HasProperties(n) = (PropertiesGet(n) # Nil)
    BY <2>1 DEF HasProperties, PropertiesGet
  <2>3. IsElement(tree[n].kind) => HasProperties(n) = ~PropertiesCrashes(n)
    BY DEF HasProperties, PropertiesCrashes, IsElement
  <2> QED
    BY <2>2, <2>3
    DEF HasChild, ChildGet, HasLast, LastGet, HasNext, NextGet, HasPrev, PrevGet, HasParent,
        ParentGet, Dumps, TellsBase, DebugDumps
<1>3. ASSUME NEW d \in Doc \cap Live
      PROVE  /\ DocumentHasChild(d) = HasChild(d) /\ DocumentHasLast(d) = HasLast(d)
             /\ DocumentHasNext(d) = HasNext(d) /\ DocumentHasPrev(d) = HasPrev(d)
             /\ DocumentHasParent(d) = HasParent(d)
  <2>1. /\ tree[d].kind = "document" /\ tree[d].up = Nil /\ tree[d].next = Nil
        /\ tree[d].prev = Nil
    BY <1>1, LiveIs DEF Sorted
  <2>2. "document" \in Document /\ "document" \in Container /\ "document" \in Parentless
    BY DEF Document, Container, Parentless
  <2> QED
    BY <2>1, <2>2 DEF DocumentHasChild, HasChild, DocumentHasLast, HasLast, DocumentHasNext,
         HasNext, DocumentHasPrev, HasPrev, DocumentHasParent, HasParent
<1>4. ASSUME NEW a \in {m \in Live : IsAttribute(tree[m].kind)}
      PROVE  LET r == tree[a]
             IN  /\ AttrChild(r) = ChildGet(a) /\ AttrHasLast(r) = AttrHasChild(r)
                 /\ AttrNext(r) = NextGet(a) /\ AttrDoc(r) = DocGet(a)
                 /\ LastGet(a) = Nil /\ ParentGet(a) = Nil /\ PrevGet(a) = NextGet(a)
  <2>1. a \in Cell /\ tree[a].kind = "attribute"
    BY LiveIs DEF IsAttribute
  <2>2. "attribute" \notin Document /\ "attribute" \notin Container /\ "attribute" \in Parentless
    BY DEF Document, Container, Parentless
  <2>3. /\ tree[a].first \in Node \cup {Nil} /\ tree[a].last \in Node \cup {Nil}
    BY <1>1, <2>1, Types
  <2>4. tree[a].first # Nil <=> tree[a].last # Nil
    <3>1. /\ tree[a].first # Nil => /\ tree[a].first \in Cell /\ tree[tree[a].first].up = a
                                    /\ ~IsAttr(tree, tree[a].first)
          /\ tree[a].last # Nil => /\ tree[a].last \in Cell /\ tree[tree[a].last].up = a
                                   /\ ~IsAttr(tree, tree[a].last)
      BY <1>1, <2>1, <2>3, Cells DEF Ended
    <3> QED
      BY <2>1, <3>1, ChildEnds
  <2> QED
    BY <2>1, <2>2, <2>4 DEF AttrChild, ChildGet, AttrHasLast, AttrHasChild, AttrNext, NextGet,
         AttrDoc, DocGet, LastGet, ParentGet, PrevGet
<1>5. ASSUME NEW k \in Kind
      PROVE  Answers(k) = CASE k = "cdata" -> {"cdata", "text"}
                            [] k = "entity_decl" -> {}
                            [] OTHER -> {k}
  <2>1. Answers(k) = IF k = "cdata" THEN {"cdata", "text"} ELSE IF k = "entity_decl" THEN {} ELSE {k}
    BY DEF Kind, Answers, IsAttribute, IsAttributeDecl, IsCdata, IsComment, IsDocbookDoc,
         IsDoctype, IsDocument, IsDtd, IsElement, IsElementDecl, IsEntity, IsEntityRef,
         IsFragment, IsHtmlDoc, IsNamespace, IsNotation, IsPi, IsText, IsXincludeEnd,
         IsXincludeStart
  <2> QED
    BY <2>1
<1>6. IsInjective(TypeName)
  <2> SUFFICES ASSUME NEW j \in Kind \ {"docb_document"}, NEW k \in Kind \ {"docb_document"},
                      TypeName[j] = TypeName[k]
               PROVE  j = k
    BY DEF IsInjective, TypeName
  <2> DEFINE Name(m) == IF m = "document" THEN "document_xml"
                        ELSE IF m = "html_document" THEN "document_html"
                        ELSE IF m = "element_decl" THEN "elem_decl" ELSE m
  <2>1. TypeName[j] = Name(j) /\ TypeName[k] = Name(k)
    BY DEF TypeName
  <2> QED
    BY <2>1 DEF Kind
<1> QED
  BY <1>2, <1>3, <1>4, <1>5, <1>6 DEF AnswersAgree

\* The walks of the methods are walks along next.
LEMMA WalksAre ==
  ASSUME Well(tree), NEW n \in Live
  PROVE  Walk(n) = Below(tree, n)
<1> DEFINE l == NextLink(tree)
<1>1. l \in Links /\ Ends(l) /\ \A m \in Cell : l[m] = tree[m].next
  BY LinkTypes DEF NextLink, Well
<1>2. n \in Cell /\ ChildGet(n) = tree[n].first
  BY GetIs
<1>3. \A m \in Cell : NextGet(m) = tree[m].next
  <2> SUFFICES ASSUME NEW m \in Cell PROVE NextGet(m) = tree[m].next
    OBVIOUS
  <2>1. CASE Used(tree, m)
    BY <2>1, LiveIs, GetIs
  <2>2. CASE ~Used(tree, m)
    <3>1. tree[m].kind \notin Document
      BY <2>2 DEF Used, Document
    <3> QED
      BY <3>1 DEF NextGet
  <2> QED
    BY <2>1, <2>2
<1>4. tree[n].first \in Cell \cup {Nil} /\ Reach(l, tree[n].first) = Below(tree, n)
  BY <1>2, Types, Cells, WalkIs DEF Well
<1> HIDE DEF l
<1> DEFINE g == [m \in Cell \cup {Nil} |-> Reach(l, m)]
<1>5. ASSUME NEW h
      PROVE  (h = [m \in Cell \cup {Nil} |-> IF m = Nil THEN {} ELSE {m} \cup h[NextGet(m)]])
             <=> h = g
  <2>1. [m \in Cell \cup {Nil} |-> IF m = Nil THEN {} ELSE {m} \cup h[NextGet(m)]]
          = [m \in Cell \cup {Nil} |-> IF m = Nil THEN {} ELSE {m} \cup h[l[m]]]
    BY <1>1, <1>3
  <2>2. (h = [m \in Cell \cup {Nil} |-> IF m = Nil THEN {} ELSE {m} \cup h[l[m]]]) <=> h = g
    BY <1>1, Collects
  <2> QED
    BY <2>1, <2>2
<1>6. g[tree[n].first] = Below(tree, n)
  BY <1>4
<1> HIDE DEF g
<1>7. Walk(n) = g[ChildGet(n)]
  BY <1>5, Zenon DEF Walk
<1> QED
  BY <1>2, <1>6, <1>7

\* From an attribute, next and prev lead to all of its element, and no others.
LEMMA AttrWalkIs ==
  ASSUME Well(tree), NEW n \in Cell, NEW a \in Attributes(tree, n)
  PROVE  AttrWalk(a) = Attributes(tree, n)
<1> DEFINE l == NextLink(tree)
           k == PrevLink(tree)
<1>1. /\ l \in Links /\ Ends(l) /\ \A m \in Cell : l[m] = tree[m].next
      /\ k \in Links /\ Ends(k) /\ \A m \in Cell : k[m] = tree[m].prev
  BY LinkTypes, PrevLinkEnds DEF NextLink, PrevLink, Well, Linked
<1> HIDE DEF l, k
<1> DEFINE A == Attributes(tree, n)
           F == Reach(l, a)
           B == Reach(k, a)
<1>2. /\ A \in SUBSET Cell /\ a \in A /\ Nil \notin Cell
      /\ \A m \in A : m \in Cell /\ tree[m].up = n /\ IsAttr(tree, m)
  BY Cells DEF Attributes, IsAttr
<1>3. \A m \in A : tree[m].next \in A \cup {Nil} /\ tree[m].prev \in A \cup {Nil}
  BY <1>2, Neighbours, Cells DEF Attributes, IsAttr
<1>4. \A m \in A : tree[m].prev = Nil => m = tree[n].props
  BY <1>2, Cells DEF Placed, Well, Linked
<1>5. \A m \in A : tree[m].prev # Nil => tree[tree[m].prev].next = m
  BY <1>2, Neighbours
<1> HIDE DEF A
<1>6. Within(l, A) /\ Within(k, A)
  BY <1>1, <1>2, <1>3 DEF Within
<1>7. /\ a \in F /\ F \subseteq A /\ Within(l, F)
      /\ a \in B /\ B \subseteq A /\ Within(k, B)
      /\ \A S \in SUBSET Cell : a \in S /\ Within(k, S) => B \subseteq S
  BY <1>1, <1>2, <1>6, ReachFacts
<1> HIDE DEF F, B
<1>8. \A m \in B : m = a \/ tree[m].next \in B
  <2> DEFINE S == {m \in B : m = a \/ tree[m].next \in B}
  <2>1. S \in SUBSET Cell /\ a \in S
    BY <1>2, <1>7
  <2>2. ASSUME NEW m \in S PROVE k[m] \in S \cup {Nil}
    <3>1. m \in B /\ m \in A /\ m \in Cell /\ k[m] = tree[m].prev /\ k[m] \in B \cup {Nil}
      BY <1>1, <1>2, <1>7, <2>2 DEF Within
    <3> QED
      BY <1>5, <3>1
  <2>3. Within(k, S)
    BY <2>2 DEF Within
  <2>4. B \subseteq S
    <3> HIDE DEF S
    <3> QED
      BY <1>7, <2>1, <2>3
  <2> QED
    BY <2>4
<1>9. tree[n].props \in B
  <2>1. B \in SUBSET Cell /\ B # {} /\ \A m \in B : tree[m].prev \in B \cup {Nil}
    BY <1>1, <1>2, <1>7 DEF Within
  <2>2. PICK m \in B : tree[m].prev = Nil
    BY <2>1, ChainEnds
  <2> QED
    BY <1>4, <1>7, <2>2
<1>10. A \subseteq F \cup B
  <2> DEFINE S == A \ (F \cup B)
  <2> SUFFICES ASSUME S # {} PROVE FALSE
    OBVIOUS
  <2>1. ASSUME NEW m \in S PROVE tree[m].prev \in S \cup {Nil}
    <3> SUFFICES ASSUME tree[m].prev \in F \cup B PROVE FALSE
      BY <1>3
    <3>1. /\ m \in A /\ tree[m].prev \in A /\ tree[m].prev # Nil /\ tree[tree[m].prev].next = m
          /\ m # Nil
      BY <1>2, <1>5, <1>7
    <3>2. tree[m].prev \in F => m \in F
      BY <1>1, <1>2, <1>7, <3>1 DEF Within
    <3>3. tree[m].prev \in B => m \in F \cup B
      BY <1>7, <1>8, <3>1, <3>2
    <3> QED
      BY <3>2, <3>3
  <2>2. S \in SUBSET Cell
    BY <1>2
  <2> HIDE DEF S
  <2>3. PICK m \in S : tree[m].prev = Nil
    BY <2>1, <2>2, ChainEnds
  <2> QED
    BY <1>4, <1>9, <2>3 DEF S
<1>11. AttrWalk(a) = Reach(l, a) \cup Reach(k, a)
  <2> DEFINE g == [m \in Cell \cup {Nil} |-> Reach(l, m)]
             q == [m \in Cell \cup {Nil} |-> Reach(k, m)]
  <2>1. ASSUME NEW h
        PROVE  (h = [m \in Cell \cup {Nil} |-> IF m = Nil THEN {} ELSE {m} \cup h[AttrNext(tree[m])]])
               <=> h = g
    <3>1. [m \in Cell \cup {Nil} |-> IF m = Nil THEN {} ELSE {m} \cup h[AttrNext(tree[m])]]
            = [m \in Cell \cup {Nil} |-> IF m = Nil THEN {} ELSE {m} \cup h[l[m]]]
      BY <1>1 DEF AttrNext
    <3> QED
      BY <1>1, <3>1, Collects
  <2>2. ASSUME NEW h
        PROVE  (h = [m \in Cell \cup {Nil} |-> IF m = Nil THEN {} ELSE {m} \cup h[AttrPrev(tree[m])]])
               <=> h = q
    <3>1. [m \in Cell \cup {Nil} |-> IF m = Nil THEN {} ELSE {m} \cup h[AttrPrev(tree[m])]]
            = [m \in Cell \cup {Nil} |-> IF m = Nil THEN {} ELSE {m} \cup h[k[m]]]
      BY <1>1 DEF AttrPrev
    <3> QED
      BY <1>1, <3>1, Collects
  <2>3. g[a] = Reach(l, a) /\ q[a] = Reach(k, a)
    BY <1>2
  <2> HIDE DEF g, q
  <2>4. AttrWalk(a) = g[a] \cup q[a]
    BY <2>1, <2>2, Zenon DEF AttrWalk
  <2> QED
    BY <2>3, <2>4
<1> QED
  BY <1>7, <1>10, <1>11 DEF F, B, A

\* [] finds the one attribute of a name.
LEMMA PropertyGetIs ==
  ASSUME Well(tree), NEW n \in Live, NEW a \in Attributes(tree, n)
  PROVE  PropertyGet(n, tree[a].name) = a
<1> DEFINE same == {m \in Attributes(tree, n) : tree[m].name = tree[a].name}
<1>1. n \in Cell /\ n # Nil /\ Named(tree)
  BY LiveIs, Cells DEF Well
<1>2. a \in same
  OBVIOUS
<1>3. \A m \in same : m = a
  BY <1>1 DEF Named, IsAttr, Attributes
<1>4. same # {} /\ (CHOOSE m \in same : TRUE) = a
  BY <1>2, <1>3
<1> HIDE DEF same
<1> QED
  BY <1>4 DEF PropertyGet, same

LEMMA WellWalks == Well(tree) => WalksAgree
<1> DEFINE Found(n) ==
             {PropertyGet(n, name) : name \in {tree[a].name : a \in Attributes(tree, n)}}
<1> SUFFICES ASSUME Well(tree), NEW n \in Live
    PROVE  /\ {m \in Live : ParentGet(m) = n} \subseteq Walk(n)
           /\ \A m \in Walk(n) : ParentGet(m) \in {n, Nil}
           /\ LastGet(n) # Nil => LastGet(n) \in Walk(n) /\ ~HasNext(LastGet(n))
           /\ n \in Doc => /\ DocumentChild(n) = ChildGet(n) /\ DocumentLast(n) = LastGet(n)
                           /\ {m \in Walk(n) : tree[m].kind = "element"} = {} <=> RootGet(n) = Nil
                           /\ RootGet(n) \in Walk(n) \cup {Nil}
           /\ \A a \in Attributes(tree, n) :
                LET r == tree[a]
                IN  /\ AttrWalk(a) = Found(n)
                    /\ AttrParent(r) = n /\ AttrValue(r) = AttrChild(r)
                    /\ AttrHasLast(r) => ~HasNext(AttrLast(r))
                    /\ AttrHasNext(r) => AttrPrev(tree[AttrNext(r)]) = a
           /\ HasProperties(n) =>
                LET r == PropertiesGet(n)
                IN  /\ AttrParent(r) = n /\ AttrValue(r) = AttrChild(r)
                    /\ AttrDoc(r) = DocGet(n) /\ ~AttrHasNext(r) /\ ~AttrHasPrev(r)
  BY DEF WalksAgree
<1>1. Typed(tree) /\ Sorted(tree) /\ Ended(tree) /\ Chained(tree) /\ Placed(tree) /\ Inside(tree)
  BY DEF Well, Linked
<1>2. /\ n \in Cell /\ n # Nil /\ ChildGet(n) = tree[n].first
      /\ LastGet(n) = IF tree[n].kind = "attribute" THEN Nil ELSE tree[n].last
  BY GetIs
<1>3. Walk(n) = Below(tree, n)
  BY WalksAre
<1>4. {m \in Live : ParentGet(m) = n} \subseteq Walk(n)
  <2> SUFFICES ASSUME NEW m \in Live, ParentGet(m) = n PROVE m \in Below(tree, n)
    BY <1>3
  <2>1. tree[m].kind # "attribute" /\ tree[m].up = n
    BY <1>2 DEF ParentGet, Parentless
  <2> QED
    BY <2>1, LiveIs DEF Below
<1>5. \A m \in Walk(n) : ParentGet(m) \in {n, Nil}
  BY <1>3 DEF Below, ParentGet
<1>6. ASSUME NEW p \in Cell, tree[p].last # Nil
      PROVE  /\ tree[p].last \in Below(tree, p)
             /\ ~HasNext(tree[p].last)
  <2>1. tree[p].last \in Cell
    BY <1>1, <1>6, Types, Cells
  <2>2. /\ tree[tree[p].last].up = p /\ tree[tree[p].last].next = Nil
        /\ tree[tree[p].last].kind # "attribute"
    BY <1>1, <1>6 DEF Ended, IsAttr
  <2> QED
    BY <2>1, <2>2 DEF Below, HasNext
<1>7. LastGet(n) # Nil => LastGet(n) \in Walk(n) /\ ~HasNext(LastGet(n))
  BY <1>2, <1>3, <1>6
<1>8. ASSUME n \in Doc
      PROVE  /\ DocumentChild(n) = ChildGet(n) /\ DocumentLast(n) = LastGet(n)
             /\ {m \in Walk(n) : tree[m].kind = "element"} = {} <=> RootGet(n) = Nil
             /\ RootGet(n) \in Walk(n) \cup {Nil}
  <2>1. tree[n].kind = "document"
    BY <1>1, <1>8, LiveIs DEF Sorted
  <2>2. DocumentChild(n) = ChildGet(n) /\ DocumentLast(n) = LastGet(n)
    BY <1>2, <2>1 DEF DocumentChild, DocumentLast
  <2> DEFINE r == RootGet(n)
  <2>3. IF \E m \in Below(tree, n) : tree[m].kind = "element"
        THEN r \in Below(tree, n) /\ tree[r].kind = "element"
        ELSE r = Nil
    BY <1>2, RootElementIs DEF RootGet
  <2>4. Nil \notin Below(tree, n)
    BY Cells DEF Below
  <2> HIDE DEF r
  <2>5. /\ {m \in Below(tree, n) : tree[m].kind = "element"} = {} <=> r = Nil
        /\ r \in Below(tree, n) \cup {Nil}
    BY <2>3, <2>4
  <2> QED
    BY <1>3, <2>2, <2>5 DEF r
<1>9. Found(n) = Attributes(tree, n)
  <2> DEFINE A == Attributes(tree, n)
             P(name) == PropertyGet(n, name)
  <2>1. \A a \in A : P(tree[a].name) = a
    BY PropertyGetIs
  <2> HIDE DEF A, P
  <2>2. A = {P(name) : name \in {tree[a].name : a \in A}}
    BY <2>1
  <2> QED
    BY <2>2 DEF A, P
<1> HIDE DEF Found
<1>10. ASSUME NEW a \in Attributes(tree, n)
       PROVE  LET r == tree[a]
              IN  /\ AttrWalk(a) = Found(n)
                  /\ AttrParent(r) = n /\ AttrValue(r) = AttrChild(r)
                  /\ AttrHasLast(r) => ~HasNext(AttrLast(r))
                  /\ AttrHasNext(r) => AttrPrev(tree[AttrNext(r)]) = a
  <2> DEFINE r == tree[a]
  <2>1. a \in Cell /\ a # Nil /\ tree[a].up = n
    BY Cells DEF Attributes
  <2>2. AttrWalk(a) = Found(n)
    BY <1>2, <1>9, AttrWalkIs
  <2>3. AttrParent(r) = n /\ AttrHasParent(r)
    BY <1>2, <2>1 DEF AttrParent, AttrHasParent
  <2>4. PropertyGet(n, r.name) = a
    BY PropertyGetIs
  <2>5. AttrValue(r) = AttrChild(r)
    BY <2>1, <2>3, <2>4 DEF AttrValue, AttrChild
  <2>6. AttrHasLast(r) => ~HasNext(AttrLast(r))
    BY <1>6, <2>1 DEF AttrHasLast, AttrLast
  <2>7. AttrHasNext(r) => AttrPrev(tree[AttrNext(r)]) = a
    BY <1>1, <2>1 DEF AttrHasNext, AttrPrev, AttrNext, Chained
  <2> QED
    BY <2>2, <2>3, <2>5, <2>6, <2>7
<1>11. ASSUME HasProperties(n)
       PROVE  LET r == PropertiesGet(n)
              IN  /\ AttrParent(r) = n /\ AttrValue(r) = AttrChild(r)
                  /\ AttrDoc(r) = DocGet(n) /\ ~AttrHasNext(r) /\ ~AttrHasPrev(r)
  <2> DEFINE a == tree[n].props
             r == PropertiesGet(n)
  <2>1. a # Nil /\ tree[n].kind = "element"
    BY <1>11 DEF HasProperties
  <2>2. a \in Cell /\ tree[a].up = n /\ IsAttr(tree, a)
    BY <1>1, <1>2, <2>1, Types, Cells DEF Ended
  <2>3. a \in Attributes(tree, n) /\ tree[a] \in CellState
    BY <1>1, <2>2, Types DEF Attributes, IsAttr
  <2>4. r = [tree[a] EXCEPT !.next = Nil, !.prev = Nil]
    BY <2>1 DEF PropertiesGet, CopyProp
  <2>5. /\ r.next = Nil /\ r.prev = Nil /\ r.up = n /\ r.name = tree[a].name
        /\ r.first = tree[a].first /\ r.doc = tree[a].doc
    BY <2>2, <2>3, <2>4 DEF CellState
  <2>6. tree[a].doc = tree[n].doc
    BY <1>1, <1>2, <2>2 DEF Placed
  <2>7. DocGet(n) = tree[n].doc
    BY <2>1 DEF DocGet, Document
  <2>8. PropertyGet(n, r.name) = a
    BY <2>3, <2>5, PropertyGetIs
  <2> HIDE DEF r
  <2>9. AttrParent(r) = n /\ AttrHasParent(r) /\ AttrDoc(r) = DocGet(n) /\ ~AttrHasNext(r) /\ ~AttrHasPrev(r)
    BY <1>2, <2>5, <2>6, <2>7 DEF AttrParent, AttrHasParent, AttrDoc, AttrHasNext, AttrHasPrev
  <2>10. AttrValue(r) = AttrChild(r)
    BY <2>1, <2>5, <2>8, <2>9 DEF AttrValue, AttrChild
  <2> QED
    BY <2>9, <2>10 DEF r
<1> QED
  BY <1>4, <1>5, <1>7, <1>8, <1>10, <1>11

-----------------------------------------------------------------------------
(***************************************************************************)
(* Theorems                                                                *)
(***************************************************************************)
\* The links have their types, a document's cell holds a document, and attributes have
\* names and nothing else has: whatever methods are called (ruby_xml_node.c,
\* ruby_xml_document.c).
THEOREM TypesCorrect == Spec => []TypeOK
BY TreesStayWell, WellIsTyped, PTL

\* After any sequence of child=, sibling=, <<, root=, content=, []=, base=, lang=, remove!
\* and copy the links make trees, in trees of any size: nothing freed is linked,
\* siblings are chained both ways between the ends their parent knows, and no
\* element has an attribute twice.
THEOREM LinksStayWell == Spec => []WellLinked
BY TreesStayWell, WellIsLinked, PTL

\* Each predicate (child?, next?, prev?, parent?, properties?, ...) answers as the
\* method it is about, though each has its own list of kinds; properties? tells where
\* properties would crash; a document answers as a node does; and an attribute as a
\* node agrees with XML::Attr in child, next and doc, but not in last, parent and prev.
THEOREM AnswersAlwaysAgree == Spec => []AnswersAgree
BY TreesStayWell, WellAnswers, PTL

\* The walk from child along next meets what calls a node its parent and ends at last;
\* next and prev lead from each attribute to all that [] finds, and each tells its own
\* value, as does the copy that properties makes.
THEOREM WalksAlwaysAgree == Spec => []WalksAgree
BY TreesStayWell, WellWalks, PTL

\* However it was moved, copied or made, a node in a document's tree tells that
\* document.
THEOREM DocumentAlwaysTold == Spec => []DocumentTold
BY TreesStayWell, WellIsTold, PTL
=============================================================================
