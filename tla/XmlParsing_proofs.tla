-------------------------- MODULE XmlParsing_proofs --------------------------
(***************************************************************************)
(* For all numbers of parsers, contexts and documents, and all depths of   *)
(* parses within parses: xmlCleanupParser is called when the last object   *)
(* that is counted is freed, in whatever order the collector takes them;   *)
(* a parser that can be used, and a parse that goes on, has its context;   *)
(* and each document is owned by one object or by one parse.               *)
(*                                                                         *)
(* The first is inductive with the types: each step that makes a counted   *)
(* object counts it, and each step that frees one counts off no more than  *)
(* that one; a parse that goes on has a parser, which is counted.  The     *)
(* last is not inductive: it needs that parses that go on have contexts of *)
(* their own, and that an owner is held as long as the objects beside it.  *)
(***************************************************************************)
EXTENDS XmlParsing, FiniteSetTheorems, SequenceTheorems, TLAPS

Base == TypeOK /\ ContextsKept

IInv == Base /\ CleanedUpLast

-----------------------------------------------------------------------------
(***************************************************************************)
(* Cardinalities                                                           *)
(***************************************************************************)
\* A set that has got one element more, at the most.
LEMMA Grown ==
  ASSUME NEW S, IsFiniteSet(S), NEW x, NEW T, T \subseteq S \cup {x}
  PROVE  Cardinality(T) \in Nat /\ Cardinality(T) <= Cardinality(S) + 1
<1>1. Cardinality(S) \in Nat
  BY FS_CardinalityType
<1>2. /\ IsFiniteSet(S \cup {x})
      /\ Cardinality(S \cup {x}) = Cardinality(S) \/ Cardinality(S \cup {x}) = Cardinality(S) + 1
  BY FS_AddElement
<1>3. IsFiniteSet(T) /\ Cardinality(T) <= Cardinality(S \cup {x})
  BY <1>2, FS_Subset
<1>4. Cardinality(T) \in Nat
  BY <1>3, FS_CardinalityType
<1> QED
  BY <1>1, <1>2, <1>3, <1>4

\* A set that has lost one element.
LEMMA Shrunk ==
  ASSUME NEW S, IsFiniteSet(S), NEW x \in S
  PROVE  Cardinality(S \ {x}) \in Nat /\ Cardinality(S \ {x}) = Cardinality(S) - 1
BY FS_RemoveElement, FS_CardinalityType

\* The objects that are counted are finitely many.
LEMMA Finite ==
  ASSUME TypeOK
  PROVE  /\ IsFiniteSet(Existing(parser)) /\ Cardinality(Existing(parser)) \in Nat
         /\ IsFiniteSet(Made) /\ Cardinality(Made) \in Nat
         /\ IsFiniteSet(Owning) /\ Cardinality(Owning) \in Nat
<1>1. /\ Existing(parser) \in SUBSET Parser
      /\ Made \in SUBSET Context
      /\ Owning \in SUBSET Document
  BY DEF TypeOK, Existing, Made, Owning
<1> QED
  BY <1>1, FS_Subset, FS_CardinalityType, ParsingAssumption

-----------------------------------------------------------------------------
(***************************************************************************)
(* Types                                                                   *)
(***************************************************************************)
\* A stack without its top, and a set that contains what is on it.
LEMMA StackIn ==
  ASSUME NEW S, stack \in Seq(S), NEW T, Range(stack) \subseteq T
  PROVE  /\ stack \in Seq(T)
         /\ stack # <<>> => Front(stack) \in Seq(S) /\ Last(stack) \in S
<1>1. /\ Len(stack) \in Nat /\ DOMAIN stack = 1..Len(stack)
      /\ \A i \in 1..Len(stack) : stack[i] \in S /\ stack[i] \in T
  BY DEF Range
<1>2. stack \in [1..Len(stack) -> T]
  BY <1>1
<1>3. stack \in Seq(T)
  BY <1>1, <1>2, SeqDef
<1>4. ASSUME stack # <<>>
      PROVE  Front(stack) \in Seq(S) /\ Last(stack) \in S
  <2>1. Len(stack) \in 1..Len(stack)
    BY <1>1, <1>4
  <2>2. \A i \in 1..(Len(stack) - 1) : stack[i] \in S
    BY <1>1
  <2> QED
    BY <1>1, <2>1, <2>2, SubSeqProperties DEF Front, Last
<1> QED
  BY <1>3, <1>4

\* Fewer elements.
LEMMA Fewer ==
  ASSUME NEW S, IsFiniteSet(S), NEW T, T \subseteq S
  PROVE  Cardinality(T) \in Nat /\ Cardinality(T) <= Cardinality(S)
BY FS_Subset, FS_CardinalityType

\* Of the parses that go on: the one begun last, the others, and one more.
LEMMA Stacked ==
  ASSUME NEW S, stack \in Seq(S)
  PROVE  /\ Range(stack) \subseteq S
         /\ stack # <<>> => /\ Last(stack) \in Range(stack)
                            /\ Range(Front(stack)) \subseteq Range(stack)
         /\ \A p : Range(Append(stack, p)) \subseteq Range(stack) \cup {p}
<1>1. /\ Len(stack) \in Nat /\ DOMAIN stack = 1..Len(stack)
      /\ \A i \in 1..Len(stack) : stack[i] \in S
  OBVIOUS
<1>2. Range(stack) \subseteq S
  BY <1>1 DEF Range
<1>3. ASSUME stack # <<>>
      PROVE  Last(stack) \in Range(stack) /\ Range(Front(stack)) \subseteq Range(stack)
  <2>1. Len(stack) \in 1..Len(stack)
    BY <1>1, <1>3
  <2>2. Front(stack) = [i \in 1..(Len(stack) - 1) |-> stack[i]]
    BY <1>1, <2>1, SubSeqProperties DEF Front
  <2> QED
    BY <1>1, <2>1, <2>2 DEF Last, Range
<1>4. ASSUME NEW p
      PROVE  Range(Append(stack, p)) \subseteq Range(stack) \cup {p}
  <2>1. /\ DOMAIN Append(stack, p) = 1..(Len(stack) + 1)
        /\ \A i \in 1..(Len(stack) + 1) :
             Append(stack, p)[i] = IF i <= Len(stack) THEN stack[i] ELSE p
    BY <1>1
  <2> QED
    BY <1>1, <2>1 DEF Range
<1> QED
  BY <1>2, <1>3, <1>4

\* XML::Parser.new
LEMMA ParserNewBase == Base /\ ParserNew => Base'
<1> SUFFICES ASSUME Base, ParserNew PROVE Base'
  OBVIOUS
<1>1. PICK p \in New(parser) :
        /\ parser' = [parser EXCEPT ![p] = [type |-> "null", ctxt |-> Nil]]
        /\ held' = held \cup {p}
  BY DEF ParserNew
<1>2. [type |-> "null", ctxt |-> Nil] \in ParserState
  BY DEF ParserState
<1>3. /\ parser' \in [Parser -> ParserState \cup {Nil}]
      /\ Existing(parser)' = Existing(parser) \cup {p}
      /\ p \in Parser /\ p \notin Existing(parser)
  BY <1>1, <1>2, ParsingAssumption DEF Base, TypeOK, Existing, New
<1>4. UNCHANGED <<context, document, live, stack, early>> /\ count' = count + 1
  BY DEF ParserNew
<1>5. Range(stack) \subseteq Existing(parser) /\ stack' \in Seq(Existing(parser)')
  BY <1>3, <1>4, Stacked, StackIn DEF Base, TypeOK
<1>6. TypeOK'
  BY <1>1, <1>3, <1>4, <1>5 DEF Base, TypeOK, Existing, New
<1>7. ContextsKept'
  <2>1. \A q \in Parser : q # p => parser'[q] = parser[q]
    BY <1>1 DEF Base, TypeOK
  <2>2. parser'[p].ctxt = Nil
    BY <1>1, <1>3 DEF Base, TypeOK
  <2> QED
    BY <1>1, <1>3, <1>4, <1>5, <2>1, <2>2 DEF Base, TypeOK, ContextsKept, Existing, New, Made
<1> QED
  BY <1>6, <1>7 DEF Base

\* parser.filename = and string =
LEMMA SourceSetBase ==
  ASSUME NEW p \in Parser, NEW type \in {"file", "string"},
         Base, SourceSet(p, type)
  PROVE  Base'
<1>1. PICK c \in New(context), ctxt \in {"ready", "null"} :
        /\ parser' = [parser EXCEPT ![p] = [type |-> type, ctxt |-> c]]
        /\ context' = [context EXCEPT ![c] = ContextNew3(ctxt)]
  BY DEF SourceSet
<1>2. [type |-> type, ctxt |-> c] \in ParserState /\ c \in Context /\ c \notin Existing(context)
  BY <1>1 DEF ParserState, Base, TypeOK, New, Existing
<1>3. ContextNew3(ctxt) \in ContextState
  BY <1>1 DEF ContextNew3, ContextState
<1>4. /\ parser' \in [Parser -> ParserState \cup {Nil}]
      /\ Existing(parser)' = Existing(parser)
      /\ context' \in [Context -> ContextState \cup {Nil}]
      /\ Existing(context)' = Existing(context) \cup {c}
      /\ \A d \in Context \ {c} : context'[d] = context[d]
      /\ \A q \in Parser \ {p} : parser'[q] = parser[q]
      /\ parser'[p].ctxt = c /\ context'[c] = ContextNew3(ctxt)
  <2>1. p \in Existing(parser)
    BY DEF SourceSet
  <2> QED
    BY <1>1, <1>2, <1>3, <2>1, ParsingAssumption DEF Base, TypeOK, Existing, New
<1>5. UNCHANGED <<document, live, held, stack, early>> /\ count' = count + 1
  BY DEF SourceSet
<1>6. Range(stack) \subseteq Existing(parser) /\ p \notin Range(stack)
  BY Stacked DEF Base, TypeOK, SourceSet
<1>7. TypeOK'
  BY <1>4, <1>5 DEF Base, TypeOK, Existing, New
<1>8. ContextsKept'
  <2>1. Made \subseteq Made' /\ \A d \in Made : context'[d] = context[d]
    BY <1>2, <1>4 DEF Made, Existing, New, Base, TypeOK
  <2>2. ASSUME NEW q \in (held \cap Parser)' PROVE parser'[q].ctxt \in Existing(context)' \cup {Nil}
    BY <1>4, <1>5 DEF Base, ContextsKept
  <2>3. ASSUME NEW q \in Range(stack)' PROVE parser'[q].ctxt \in Made' /\ context'[parser'[q].ctxt].doc \in Doc
    <3>1. q \in Range(stack) /\ q \in Parser /\ q # p
      BY <1>5, <1>6 DEF Existing, New, Base, TypeOK
    <3> QED
      BY <1>4, <2>1, <3>1 DEF Base, ContextsKept
  <2> QED
    BY <2>2, <2>3 DEF ContextsKept
<1> QED
  BY <1>7, <1>8 DEF Base

\* A context that is used stays one that can be used.
LEMMA ContextChanges ==
  ASSUME Base, NEW c \in Made, NEW r \in ContextState,
         context' = [context EXCEPT ![c] = r],
         r.ctxt # "null", r.doc = context[c].doc \/ r.doc \in Doc
  PROVE  /\ context' \in [Context -> ContextState \cup {Nil}]
         /\ Existing(context)' = Existing(context) /\ Made' = Made
         /\ \A d \in Made : context[d].doc \in Doc => context'[d].doc \in Doc
<1>1. c \in Context /\ c \in Existing(context) /\ r # Nil
  BY ParsingAssumption DEF Made, Existing, New, Base, TypeOK
<1>2. /\ context' \in [Context -> ContextState \cup {Nil}]
      /\ context'[c] = r
      /\ \A d \in Context : d # c => context'[d] = context[d]
      /\ Existing(context)' = Existing(context)
  BY <1>1 DEF Base, TypeOK, Existing, New
<1>3. Made' = Made
  BY <1>1, <1>2 DEF Made, Existing, New, Base, TypeOK
<1>4. \A d \in Made : context[d].doc \in Doc => context'[d].doc \in Doc
  BY <1>1, <1>2 DEF Made, Existing, New, Base, TypeOK
<1> QED
  BY <1>2, <1>3, <1>4

\* parser.parse, when it begins
LEMMA ParseBeginsBase ==
  ASSUME NEW p \in Parser, Base, ParseBegins(p)
  PROVE  Base' /\ Made' = Made
<1> DEFINE c == parser[p].ctxt
<1>1. p \in Existing(parser) /\ c \in Made /\ context[c] \in ContextState /\ context[c].ctxt = "ready"
  BY DEF ParseBegins, Base, ContextsKept, TypeOK, Made, Existing, New
<1>2. PICK d \in Doc \ live :
        /\ live' = live \cup {d}
        /\ context' = [context EXCEPT ![c] = [@ EXCEPT !.ctxt = "parsing", !.doc = d]]
  BY DEF ParseBegins
<1> DEFINE r == [context[c] EXCEPT !.ctxt = "parsing", !.doc = d]
<1>3. r \in ContextState /\ r.ctxt = "parsing" /\ r.doc = d
  BY <1>1 DEF ContextState
<1>4. context' = [context EXCEPT ![c] = r]
  BY <1>1, <1>2 DEF Base, TypeOK
<1>5. /\ context' \in [Context -> ContextState \cup {Nil}]
      /\ Existing(context)' = Existing(context) /\ Made' = Made
      /\ \A e \in Made : context[e].doc \in Doc => context'[e].doc \in Doc
      /\ context'[c].doc \in Doc
  <2>1. c \in DOMAIN context
    BY <1>1 DEF Made, Existing
  <2> HIDE DEF r, c
  <2> QED
    BY <1>1, <1>3, <1>4, <2>1, ContextChanges
<1>6. /\ UNCHANGED <<parser, document, held, count, early>>
      /\ stack' = Append(stack, p)
  BY DEF ParseBegins
<1>7. stack' \in Seq(Existing(parser)') /\ Range(stack') \subseteq Range(stack) \cup {p}
  BY <1>1, <1>6, Stacked, AppendProperties DEF Base, TypeOK
<1>8. TypeOK'
  BY <1>2, <1>5, <1>6, <1>7 DEF Base, TypeOK, Existing, New
<1>9. ContextsKept'
  BY <1>1, <1>5, <1>6, <1>7 DEF Base, ContextsKept
<1> QED
  BY <1>5, <1>8, <1>9 DEF Base

\* Of the end of a parse: its parser goes from the stack, and its context is as
\* the end left it.
LEMMA ParseEnds ==
  ASSUME Base, stack # <<>>, NEW state \in {"parsed", "failed"},
         context' = [context EXCEPT ![TopContext].ctxt = state],
         stack' = Front(stack), UNCHANGED <<parser, early>>
  PROVE  /\ TopContext \in Made /\ context[TopContext].doc \in Doc
         /\ context' \in [Context -> ContextState \cup {Nil}]
         /\ Existing(context)' = Existing(context) /\ Made' = Made
         /\ stack' \in Seq(Existing(parser))
         /\ \A q \in Range(stack') : parser[q].ctxt \in Made' /\ context'[parser[q].ctxt].doc \in Doc
<1> DEFINE c == TopContext
<1> DEFINE r == [context[c] EXCEPT !.ctxt = state]
<1>1. /\ Last(stack) \in Range(stack) /\ Range(stack') \subseteq Range(stack)
      /\ Range(stack) \subseteq Existing(parser)
  BY Stacked DEF Base, TypeOK
<1>2. c \in Made /\ context[c].doc \in Doc /\ context[c] \in ContextState
  BY <1>1 DEF TopContext, Base, ContextsKept, TypeOK, Made, Existing, New
<1>3. r \in ContextState /\ r.ctxt = state /\ r.doc = context[c].doc
  BY <1>2 DEF ContextState
<1>4. context' = [context EXCEPT ![c] = r]
  BY <1>2 DEF Base, TypeOK
<1>5. /\ context' \in [Context -> ContextState \cup {Nil}]
      /\ Existing(context)' = Existing(context) /\ Made' = Made
      /\ \A d \in Made : context[d].doc \in Doc => context'[d].doc \in Doc
  <2> HIDE DEF r, c
  <2> QED
    BY <1>2, <1>3, <1>4, ContextChanges
<1>6. stack' \in Seq(Existing(parser))
  BY <1>1, StackIn DEF Base, TypeOK
<1>7. \A q \in Range(stack') : parser[q].ctxt \in Made' /\ context'[parser[q].ctxt].doc \in Doc
  BY <1>1, <1>5 DEF Base, ContextsKept
<1> QED
  BY <1>2, <1>5, <1>6, <1>7

\* The parse has a document.
LEMMA ParseSucceedsBase == Base /\ ParseSucceeds => Base' /\ Made' = Made
<1> SUFFICES ASSUME Base, ParseSucceeds PROVE Base' /\ Made' = Made
  OBVIOUS
<1>1. PICK w \in New(document) :
        /\ document' = [document EXCEPT ![w] = [doc |-> context[TopContext].doc, owns |-> TRUE]]
        /\ held' = held \cup {w}
  BY DEF ParseSucceeds
<1>2. UNCHANGED <<parser, live, early>> /\ count' = count + 1
  BY DEF ParseSucceeds
<1>3. /\ context[TopContext].doc \in Doc
      /\ context' \in [Context -> ContextState \cup {Nil}]
      /\ Existing(context)' = Existing(context) /\ Made' = Made
      /\ stack' \in Seq(Existing(parser))
      /\ \A q \in Range(stack') : parser[q].ctxt \in Made' /\ context'[parser[q].ctxt].doc \in Doc
  BY <1>2, ParseEnds DEF ParseSucceeds
<1>4. /\ document' \in [Document -> DocumentState \cup {Nil}]
      /\ Existing(document)' = Existing(document) \cup {w}
      /\ w \in Document
  <2>1. [doc |-> context[TopContext].doc, owns |-> TRUE] \in DocumentState
    BY <1>3 DEF DocumentState
  <2>2. w \in Document /\ document \in [Document -> DocumentState \cup {Nil}]
    BY <1>1 DEF Base, TypeOK, New
  <2>3. [doc |-> context[TopContext].doc, owns |-> TRUE] # Nil
    BY <2>1, ParsingAssumption
  <2>4. /\ document' \in [Document -> DocumentState \cup {Nil}]
        /\ document'[w] = [doc |-> context[TopContext].doc, owns |-> TRUE]
        /\ \A o \in Document \ {w} : document'[o] = document[o]
    BY <1>1, <2>1, <2>2
  <2> QED
    BY <2>2, <2>3, <2>4 DEF Existing, New
<1>5. TypeOK'
  BY <1>1, <1>2, <1>3, <1>4 DEF Base, TypeOK, Existing, New
<1>6. ContextsKept'
  BY <1>1, <1>2, <1>3, <1>4, ParsingAssumption DEF Base, ContextsKept
<1> QED
  BY <1>3, <1>5, <1>6 DEF Base

\* The parse has none.
LEMMA ParseFailsBase == Base /\ ParseFails => Base' /\ Made' = Made
<1> SUFFICES ASSUME Base, ParseFails PROVE Base' /\ Made' = Made
  OBVIOUS
<1>1. /\ UNCHANGED <<parser, document, held, count, early>>
      /\ live' \in SUBSET live
  BY DEF ParseFails
<1>2. /\ context' \in [Context -> ContextState \cup {Nil}]
      /\ Existing(context)' = Existing(context) /\ Made' = Made
      /\ stack' \in Seq(Existing(parser))
      /\ \A q \in Range(stack') : parser[q].ctxt \in Made' /\ context'[parser[q].ctxt].doc \in Doc
  BY <1>1, ParseEnds DEF ParseFails
<1>3. TypeOK'
  BY <1>1, <1>2 DEF Base, TypeOK, Existing, New
<1>4. ContextsKept'
  BY <1>1, <1>2 DEF Base, ContextsKept
<1> QED
  BY <1>2, <1>3, <1>4 DEF Base

\* XML::Document.new, node.doc and context.doc: one more object for a document.
LEMMA DocumentObject ==
  ASSUME Base, NEW w \in New(document), NEW r \in DocumentState,
         document' = [document EXCEPT ![w] = r], held' = held \cup {w},
         live' \in SUBSET Doc, count' \in Nat,
         UNCHANGED <<parser, context, stack, early>>
  PROVE  Base' /\ Made' = Made /\ Existing(document)' = Existing(document) \cup {w}
<1>1. w \in Document /\ document \in [Document -> DocumentState \cup {Nil}] /\ r # Nil
  BY ParsingAssumption DEF Base, TypeOK, New
<1>2. /\ document' \in [Document -> DocumentState \cup {Nil}]
      /\ document'[w] = r /\ \A o \in Document \ {w} : document'[o] = document[o]
  BY <1>1
<1>3. Existing(document)' = Existing(document) \cup {w}
  BY <1>1, <1>2 DEF Existing, New
<1>4. Made' = Made /\ Existing(parser)' = Existing(parser) /\ Existing(context)' = Existing(context)
  BY DEF Made, Existing, New
<1>5. TypeOK'
  BY <1>1, <1>2, <1>3, <1>4 DEF Base, TypeOK
<1>6. ContextsKept'
  BY <1>1, <1>4, ParsingAssumption DEF Base, ContextsKept
<1> QED
  BY <1>3, <1>4, <1>5, <1>6 DEF Base

LEMMA DocumentInitializeBase == Base /\ DocumentInitialize => Base' /\ Made' = Made
<1> SUFFICES ASSUME Base, DocumentInitialize PROVE Base' /\ Made' = Made
  OBVIOUS
<1>1. PICK w \in New(document), d \in Doc \ live :
        /\ document' = [document EXCEPT ![w] = [doc |-> d, owns |-> TRUE]]
        /\ live' = live \cup {d} /\ held' = held \cup {w}
  BY DEF DocumentInitialize
<1>2. [doc |-> d, owns |-> TRUE] \in DocumentState
  BY <1>1 DEF DocumentState
<1>3. live' \in SUBSET Doc /\ count' \in Nat
  BY <1>1 DEF Base, TypeOK, DocumentInitialize
<1> QED
  BY <1>1, <1>2, <1>3, DocumentObject DEF DocumentInitialize

LEMMA ContextDocGetBase ==
  ASSUME NEW c \in Context, Base, ContextDocGet(c)
  PROVE  Base' /\ Made' = Made
<1>1. PICK w \in New(document) :
        /\ document' = [document EXCEPT ![w] = [doc |-> context[c].doc, owns |-> FALSE]]
        /\ held' = held \cup {w}
  BY DEF ContextDocGet
<1>2. context[c].doc \in Doc
  <2>1. PICK o \in Existing(document) : document[o] = [doc |-> context[c].doc, owns |-> TRUE]
    BY DEF ContextDocGet, OwnersOf
  <2>2. document[o] \in DocumentState
    BY <2>1 DEF Base, TypeOK, Existing, New
  <2> QED
    BY <2>1, <2>2 DEF DocumentState
<1>3. [doc |-> context[c].doc, owns |-> FALSE] \in DocumentState
  BY <1>2 DEF DocumentState
<1>4. live' \in SUBSET Doc /\ count' \in Nat
  BY DEF Base, TypeOK, ContextDocGet
<1> QED
  BY <1>1, <1>3, <1>4, DocumentObject DEF ContextDocGet

LEMMA NodeDocBase ==
  ASSUME NEW w \in Document, Base, NodeDoc(w)
  PROVE  Base' /\ Made' = Made
<1>1. PICK other \in New(document) :
        /\ document' = [document EXCEPT ![other] = [doc |-> document[w].doc, owns |-> FALSE]]
        /\ held' = held \cup {other}
  BY DEF NodeDoc
<1>2. [doc |-> document[w].doc, owns |-> FALSE] \in DocumentState
  BY DEF DocumentState, NodeDoc, Base, TypeOK, Existing, New
<1>3. live' \in SUBSET Doc /\ count' \in Nat
  BY DEF Base, TypeOK, NodeDoc
<1> QED
  BY <1>1, <1>2, <1>3, DocumentObject DEF NodeDoc

\* parser.parser_context, and the program's letting go
LEMMA OthersBase ==
  ASSUME Base,
         \/ \E p \in Parser : ParserContextGet(p)
         \/ \E o \in Parser \cup Context \cup Document : Drop(o)
         \/ UNCHANGED vars
  PROVE  Base' /\ UNCHANGED <<Existing(parser), Made, Owning, count, early>>
<1>1. UNCHANGED <<parser, context, document, live, stack, count, early>>
  BY DEF ParserContextGet, Drop, vars
<1>2. UNCHANGED <<Existing(parser), Existing(context), Existing(document), Made, Owning>>
  BY <1>1 DEF Existing, New, Made, Owning
<1>3. held' \subseteq held \/ \E c \in Existing(context) : held' = held \cup {c}
  <2>1. ASSUME NEW p \in Parser, ParserContextGet(p)
        PROVE  \E c \in Existing(context) : held' = held \cup {c}
    <3>1. parser[p].ctxt \in Existing(context) /\ held' = held \cup {parser[p].ctxt}
      BY <2>1 DEF ParserContextGet, Base, ContextsKept
    <3> QED
      BY <3>1
  <2>2. ASSUME ~ \E p \in Parser : ParserContextGet(p) PROVE held' \subseteq held
    BY <2>2 DEF Drop, vars
  <2> QED
    BY <2>1, <2>2
<1>4. ContextsKept'
  BY <1>1, <1>2, <1>3, ParsingAssumption DEF Base, ContextsKept, Existing, TypeOK
<1>5. TypeOK'
  BY <1>1, <1>2, <1>3 DEF Base, TypeOK
<1> QED
  BY <1>1, <1>2, <1>4, <1>5 DEF Base

\* The collector takes a parser, a context or an object of a document.  What is
\* reached stays.
LEMMA ReachedStays ==
  ASSUME Base
  PROVE  /\ held \subseteq Reached /\ Range(stack) \subseteq Reached
         /\ \A p \in (held \cap Parser) \cup Range(stack) : parser[p].ctxt \in Reached \cup {Nil}
<1>1. Range(stack) \subseteq Existing(parser)
  BY Stacked DEF Base, TypeOK
<1>2. held \cap Parser \subseteq Existing(parser)
  BY ParsingAssumption DEF Base, TypeOK, Existing
<1> QED
  BY <1>1, <1>2 DEF Reached, ParserMark

LEMMA ParserFreeBase ==
  ASSUME NEW p \in Existing(parser) \ Reached, Base, ParserFree(p), count' \in Nat
  PROVE  Base' /\ Made' = Made /\ Owning' = Owning /\ Existing(parser)' = Existing(parser) \ {p}
<1>1. /\ parser' = [parser EXCEPT ![p] = Nil]
      /\ UNCHANGED <<context, document, live, held, stack>>
      /\ early' \in BOOLEAN
  BY DEF ParserFree, CleansUp, Base, TypeOK
<1>2. /\ parser' \in [Parser -> ParserState \cup {Nil}]
      /\ parser'[p] = Nil /\ \A q \in Parser \ {p} : parser'[q] = parser[q]
      /\ p \in Parser
  BY <1>1 DEF Base, TypeOK, Existing
<1>3. /\ UNCHANGED <<Existing(context), Existing(document), Made, Owning>>
      /\ Existing(parser)' = Existing(parser) \ {p}
  BY <1>1, <1>2 DEF Existing, New, Made, Owning, Base, TypeOK
<1>4. p \notin held /\ p \notin Range(stack) /\ Range(stack) \subseteq Existing(parser)
  BY ReachedStays, Stacked DEF Base, TypeOK
<1>5. stack' \in Seq(Existing(parser)')
  BY <1>1, <1>3, <1>4, StackIn DEF Base, TypeOK
<1>6. TypeOK'
  BY <1>1, <1>2, <1>3, <1>4, <1>5 DEF Base, TypeOK
<1>7. ContextsKept'
  BY <1>1, <1>2, <1>3, <1>4 DEF Base, ContextsKept, Existing, TypeOK
<1> QED
  BY <1>3, <1>6, <1>7 DEF Base

LEMMA ContextFreeBase ==
  ASSUME NEW c \in Existing(context) \ Reached, Base, ContextFree(c), count' \in Nat
  PROVE  /\ Base' /\ Owning' = Owning /\ Existing(parser)' = Existing(parser)
         /\ Made' = Made \ {c}
<1>1. /\ context' = [context EXCEPT ![c] = Nil]
      /\ UNCHANGED <<parser, document, live, held, stack>>
      /\ early' \in BOOLEAN
  BY DEF ContextFree, CleansUp, Base, TypeOK
<1>2. /\ context' \in [Context -> ContextState \cup {Nil}]
      /\ context'[c] = Nil /\ \A d \in Context \ {c} : context'[d] = context[d]
      /\ c \in Context
  BY <1>1 DEF Base, TypeOK, Existing
<1>3. /\ UNCHANGED <<Existing(parser), Existing(document), Owning>>
      /\ Existing(context)' = Existing(context) \ {c}
      /\ Made' = Made \ {c}
  BY <1>1, <1>2 DEF Existing, New, Made, Owning, Base, TypeOK
<1>4. c \notin held /\ c # Nil
  BY <1>2, ReachedStays, ParsingAssumption
<1>5. \A p \in (held \cap Parser) \cup Range(stack) : parser[p].ctxt # c
  BY <1>4, ReachedStays
<1>6. TypeOK'
  BY <1>1, <1>2, <1>3, <1>4 DEF Base, TypeOK
<1>7. ContextsKept'
  BY <1>1, <1>2, <1>3, <1>5 DEF Base, ContextsKept, Made, Existing, TypeOK
<1> QED
  BY <1>3, <1>6, <1>7 DEF Base

LEMMA DocumentFreeBase ==
  ASSUME NEW w \in Existing(document) \ Reached, Base, DocumentFree(w), count' \in Nat
  PROVE  /\ Base' /\ Made' = Made /\ Existing(parser)' = Existing(parser)
         /\ Owning' = Owning \ {w}
<1>1. /\ document' = [document EXCEPT ![w] = Nil]
      /\ UNCHANGED <<parser, context, held, stack>>
      /\ live' \subseteq live /\ early' \in BOOLEAN
  BY DEF DocumentFree, CleansUp, Base, TypeOK
<1>2. /\ document' \in [Document -> DocumentState \cup {Nil}]
      /\ document'[w] = Nil /\ \A o \in Document \ {w} : document'[o] = document[o]
      /\ w \in Document
  BY <1>1 DEF Base, TypeOK, Existing
<1>3. /\ UNCHANGED <<Existing(parser), Existing(context), Made>>
      /\ Existing(document)' = Existing(document) \ {w}
      /\ Owning' = Owning \ {w}
  BY <1>1, <1>2 DEF Existing, New, Made, Owning, Base, TypeOK
<1>4. w \notin held
  BY ReachedStays
<1>5. TypeOK'
  BY <1>1, <1>2, <1>3, <1>4 DEF Base, TypeOK
<1>6. ContextsKept'
  BY <1>1, <1>3 DEF Base, ContextsKept
<1> QED
  BY <1>3, <1>5, <1>6 DEF Base

-----------------------------------------------------------------------------
(***************************************************************************)
(* Counting                                                                *)
(***************************************************************************)
Counted == Cardinality(Existing(parser)) + Cardinality(Made) + Cardinality(Owning)

\* When the count has come to nothing, nothing is in use.
LEMMA NothingInUse ==
  ASSUME TypeOK', count' >= Counted', count' = 0, stack' = stack,
         NEW C, \A c \in C : context[c].ctxt # "null" => c \in Made',
         NEW D, \A w \in D : document[w].owns => w \in Owning'
  PROVE  ~InUse(C, D)
<1>1. Existing(parser)' \in SUBSET Parser /\ Made' \in SUBSET Context /\ Owning' \in SUBSET Document
  BY DEF TypeOK, Existing, Made, Owning
<1>2. /\ IsFiniteSet(Existing(parser)') /\ Cardinality(Existing(parser)') \in Nat
      /\ IsFiniteSet(Made') /\ Cardinality(Made') \in Nat
      /\ IsFiniteSet(Owning') /\ Cardinality(Owning') \in Nat
  BY <1>1, FS_Subset, FS_CardinalityType, ParsingAssumption
<1>3. Cardinality(Existing(parser)') = 0 /\ Cardinality(Made') = 0 /\ Cardinality(Owning') = 0
  BY <1>2 DEF Counted
<1>4. Existing(parser)' = {} /\ Made' = {} /\ Owning' = {}
  BY <1>2, <1>3, FS_EmptySet
<1>5. stack \in Seq({})
  BY <1>4 DEF TypeOK
<1>6. stack = <<>>
  BY <1>5
<1> QED
  BY <1>4, <1>6 DEF InUse

LEMMA ParserFreeSafe ==
  ASSUME NEW p \in Existing(parser) \ Reached, IInv, ParserFree(p)
  PROVE  IInv'
<1>1. /\ Cardinality(Existing(parser) \ {p}) \in Nat
      /\ Cardinality(Existing(parser) \ {p}) = Cardinality(Existing(parser)) - 1
      /\ Cardinality(Made) \in Nat /\ Cardinality(Owning) \in Nat
      /\ Cardinality(Existing(parser)) \in Nat
  BY Finite, Shrunk DEF IInv, Base
<1>2. count \in Nat /\ count >= Counted /\ count' = count - 1
  BY DEF IInv, Base, TypeOK, CleanedUpLast, Counted, ParserFree
<1>3. count' \in Nat
  BY <1>1, <1>2 DEF Counted
<1>4. Base' /\ Made' = Made /\ Owning' = Owning /\ Existing(parser)' = Existing(parser) \ {p}
  BY <1>3, ParserFreeBase DEF IInv
<1>5. count' >= Counted'
  BY <1>1, <1>2, <1>4 DEF Counted
<1>6. ~early'
  <2>1. count' = 0 => ~InUse(Existing(context), Existing(document))
    <3>1. \A c \in Existing(context) : context[c].ctxt # "null" => c \in Made'
      BY <1>4 DEF Made
    <3>2. \A w \in Existing(document) : document[w].owns => w \in Owning'
      BY <1>4 DEF Owning
    <3> QED
      BY <1>4, <1>5, <3>1, <3>2, NothingInUse DEF Base, ParserFree
  <2> QED
    BY <2>1 DEF ParserFree, CleansUp, IInv, CleanedUpLast
<1> QED
  BY <1>4, <1>5, <1>6 DEF IInv, CleanedUpLast, Counted

LEMMA ContextFreeSafe ==
  ASSUME NEW c \in Existing(context) \ Reached, IInv, ContextFree(c)
  PROVE  IInv'
<1>1. /\ c \in Made => /\ Cardinality(Made \ {c}) \in Nat
                       /\ Cardinality(Made \ {c}) = Cardinality(Made) - 1
      /\ Cardinality(Made) \in Nat /\ Cardinality(Owning) \in Nat
      /\ Cardinality(Existing(parser)) \in Nat
  BY Finite, Shrunk DEF IInv, Base
<1>2. /\ count \in Nat /\ count >= Counted
      /\ c \in Made => count' = count - 1
      /\ c \notin Made => count' = count
  BY DEF IInv, Base, TypeOK, CleanedUpLast, Counted, ContextFree, Made
<1>3. count' \in Nat
  BY <1>1, <1>2 DEF Counted
<1>4. Base' /\ Owning' = Owning /\ Existing(parser)' = Existing(parser) /\ Made' = Made \ {c}
  BY <1>3, ContextFreeBase DEF IInv
<1>5. count' >= Counted'
  <2>1. CASE c \in Made
    BY <1>1, <1>2, <1>4, <2>1 DEF Counted
  <2>2. CASE c \notin Made
    <3>1. Made' = Made
      BY <1>4, <2>2
    <3> QED
      BY <1>1, <1>2, <1>4, <3>1, <2>2 DEF Counted
  <2> QED
    BY <2>1, <2>2
<1>6. ~early'
  <2>1. count' = 0 => ~InUse(Existing(context) \ {c}, Existing(document))
    <3>1. \A d \in Existing(context) \ {c} : context[d].ctxt # "null" => d \in Made'
      BY <1>4 DEF Made
    <3>2. \A w \in Existing(document) : document[w].owns => w \in Owning'
      BY <1>4 DEF Owning
    <3> QED
      BY <1>4, <1>5, <3>1, <3>2, NothingInUse DEF Base, ContextFree
  <2> QED
    BY <2>1 DEF ContextFree, CleansUp, IInv, CleanedUpLast
<1> QED
  BY <1>4, <1>5, <1>6 DEF IInv, CleanedUpLast, Counted

LEMMA DocumentFreeSafe ==
  ASSUME NEW w \in Existing(document) \ Reached, IInv, DocumentFree(w)
  PROVE  IInv'
<1>1. /\ w \in Owning => /\ Cardinality(Owning \ {w}) \in Nat
                         /\ Cardinality(Owning \ {w}) = Cardinality(Owning) - 1
      /\ Cardinality(Made) \in Nat /\ Cardinality(Owning) \in Nat
      /\ Cardinality(Existing(parser)) \in Nat
  BY Finite, Shrunk DEF IInv, Base
<1>2. /\ count \in Nat /\ count >= Counted
      /\ w \in Owning => count' = count - 1
      /\ w \notin Owning => count' = count
  BY DEF IInv, Base, TypeOK, CleanedUpLast, Counted, DocumentFree, Owning
<1>3. count' \in Nat
  BY <1>1, <1>2 DEF Counted
<1>4. Base' /\ Made' = Made /\ Existing(parser)' = Existing(parser) /\ Owning' = Owning \ {w}
  BY <1>3, DocumentFreeBase DEF IInv
<1>5. count' >= Counted'
  <2>1. CASE w \in Owning
    BY <1>1, <1>2, <1>4, <2>1 DEF Counted
  <2>2. CASE w \notin Owning
    <3>1. Owning' = Owning
      BY <1>4, <2>2
    <3> QED
      BY <1>1, <1>2, <1>4, <3>1, <2>2 DEF Counted
  <2> QED
    BY <2>1, <2>2
<1>6. ~early'
  <2>1. count' = 0 => ~InUse(Existing(context), Existing(document) \ {w})
    <3>1. \A d \in Existing(context) : context[d].ctxt # "null" => d \in Made'
      BY <1>4 DEF Made
    <3>2. \A o \in Existing(document) \ {w} : document[o].owns => o \in Owning'
      BY <1>4 DEF Owning
    <3> QED
      BY <1>4, <1>5, <3>1, <3>2, NothingInUse DEF Base, DocumentFree
  <2> QED
    BY <2>1 DEF DocumentFree, CleansUp, IInv, CleanedUpLast
<1> QED
  BY <1>4, <1>5, <1>6 DEF IInv, CleanedUpLast, Counted

\* A step that puts no more than one object among the counted ones, and counts it.
LEMMA CountedOne ==
  ASSUME IInv, NEW x, count' = count + 1, early' = early,
         \/ /\ Existing(parser)' \subseteq Existing(parser) \cup {x}
            /\ Made' = Made /\ Owning' = Owning
         \/ /\ Made' \subseteq Made \cup {x}
            /\ Existing(parser)' = Existing(parser) /\ Owning' = Owning
         \/ /\ Owning' \subseteq Owning \cup {x}
            /\ Existing(parser)' = Existing(parser) /\ Made' = Made
  PROVE  CleanedUpLast'
<1>1. /\ IsFiniteSet(Existing(parser)) /\ Cardinality(Existing(parser)) \in Nat
      /\ IsFiniteSet(Made) /\ Cardinality(Made) \in Nat
      /\ IsFiniteSet(Owning) /\ Cardinality(Owning) \in Nat
  BY Finite DEF IInv, Base
<1>2. count \in Nat /\ count >= Counted /\ ~early'
  BY DEF IInv, Base, TypeOK, CleanedUpLast, Counted
<1>3. CASE /\ Existing(parser)' \subseteq Existing(parser) \cup {x}
           /\ Made' = Made /\ Owning' = Owning
  <2>1. /\ Cardinality(Existing(parser)') \in Nat
        /\ Cardinality(Existing(parser)') <= Cardinality(Existing(parser)) + 1
    BY <1>1, <1>3, Grown
  <2> QED
    BY <1>1, <1>2, <1>3, <2>1 DEF CleanedUpLast, Counted
<1>4. CASE /\ Made' \subseteq Made \cup {x}
           /\ Existing(parser)' = Existing(parser) /\ Owning' = Owning
  <2>1. Cardinality(Made') \in Nat /\ Cardinality(Made') <= Cardinality(Made) + 1
    BY <1>1, <1>4, Grown
  <2> QED
    BY <1>1, <1>2, <1>4, <2>1 DEF CleanedUpLast, Counted
<1>5. CASE /\ Owning' \subseteq Owning \cup {x}
           /\ Existing(parser)' = Existing(parser) /\ Made' = Made
  <2>1. Cardinality(Owning') \in Nat /\ Cardinality(Owning') <= Cardinality(Owning) + 1
    BY <1>1, <1>5, Grown
  <2> QED
    BY <1>1, <1>2, <1>5, <2>1 DEF CleanedUpLast, Counted
<1> QED
  BY <1>3, <1>4, <1>5

\* A step that puts none among them.
LEMMA CountedNone ==
  ASSUME IInv, UNCHANGED <<Existing(parser), Made, Owning, count, early>>
  PROVE  CleanedUpLast'
BY DEF IInv, CleanedUpLast

\* Each step keeps the invariant.
LEMMA StepKeeps == IInv /\ [Next]_vars => IInv'
<1> SUFFICES ASSUME IInv, [Next]_vars PROVE IInv'
  OBVIOUS
<1> USE DEF IInv
<1>1. CASE ParserNew
  <2>1. PICK p \in New(parser) : parser' = [parser EXCEPT ![p] = [type |-> "null", ctxt |-> Nil]]
    BY <1>1 DEF ParserNew
  <2>2. Existing(parser)' \subseteq Existing(parser) \cup {p}
    BY <2>1 DEF Base, TypeOK, Existing, New
  <2>3. Made' = Made /\ Owning' = Owning /\ count' = count + 1 /\ early' = early
    BY <1>1 DEF ParserNew, Made, Owning, Existing, New
  <2> QED
    BY <1>1, <2>2, <2>3, ParserNewBase, CountedOne
<1>2. ASSUME NEW p \in Parser, FilenameSet(p) \/ StrSet(p) PROVE IInv'
  <2>1. PICK type \in {"file", "string"} : SourceSet(p, type)
    BY <1>2 DEF FilenameSet, StrSet
  <2>2. Base'
    BY <2>1, SourceSetBase
  <2>3. PICK c \in New(context), ctxt \in {"ready", "null"} :
          /\ parser' = [parser EXCEPT ![p] = [type |-> type, ctxt |-> c]]
          /\ context' = [context EXCEPT ![c] = ContextNew3(ctxt)]
    BY <2>1 DEF SourceSet
  <2>4. Existing(parser)' \subseteq Existing(parser) /\ p \in Existing(parser)
    BY <2>1, <2>3 DEF SourceSet, Base, TypeOK, Existing, New
  <2>5. Existing(parser) \subseteq Existing(parser)'
    <3>1. [type |-> type, ctxt |-> c] \in ParserState
      BY <2>3 DEF ParserState, New, Base, TypeOK
    <3>2. [type |-> type, ctxt |-> c] # Nil
      BY <3>1, ParsingAssumption
    <3> QED
      BY <2>3, <3>2 DEF Base, TypeOK, Existing, New
  <2>6. Made' \subseteq Made \cup {c}
    BY <2>3 DEF Base, TypeOK, Made, Existing, New
  <2>7. Owning' = Owning /\ count' = count + 1 /\ early' = early
    BY <2>1 DEF SourceSet, Owning, Existing, New
  <2> QED
    BY <2>2, <2>4, <2>5, <2>6, <2>7, CountedOne
<1>3. ASSUME NEW p \in Parser, ParseBegins(p) PROVE IInv'
  <2>1. Base' /\ Made' = Made
    BY <1>3, ParseBeginsBase
  <2>2. UNCHANGED <<Existing(parser), Owning, count, early>>
    BY <1>3 DEF ParseBegins, Owning, Existing, New
  <2> QED
    BY <2>1, <2>2, CountedNone
<1>4. CASE ParseSucceeds
  <2>1. Base' /\ Made' = Made
    BY <1>4, ParseSucceedsBase
  <2>2. PICK w \in New(document) :
          document' = [document EXCEPT ![w] = [doc |-> context[TopContext].doc, owns |-> TRUE]]
    BY <1>4 DEF ParseSucceeds
  <2>3. Owning' \subseteq Owning \cup {w}
    BY <2>2 DEF Base, TypeOK, Owning, Existing, New
  <2>4. Existing(parser)' = Existing(parser) /\ count' = count + 1 /\ early' = early
    BY <1>4 DEF ParseSucceeds, Existing, New
  <2> QED
    BY <2>1, <2>3, <2>4, CountedOne
<1>5. CASE ParseFails
  <2>1. Base' /\ Made' = Made
    BY <1>5, ParseFailsBase
  <2>2. UNCHANGED <<Existing(parser), Owning, count, early>>
    BY <1>5 DEF ParseFails, Owning, Existing, New
  <2> QED
    BY <2>1, <2>2, CountedNone
<1>6. CASE DocumentInitialize
  <2>1. Base' /\ Made' = Made
    BY <1>6, DocumentInitializeBase
  <2>2. PICK w \in New(document), d \in Doc \ live :
          document' = [document EXCEPT ![w] = [doc |-> d, owns |-> TRUE]]
    BY <1>6 DEF DocumentInitialize
  <2>3. Owning' \subseteq Owning \cup {w}
    BY <2>2 DEF Base, TypeOK, Owning, Existing, New
  <2>4. Existing(parser)' = Existing(parser) /\ count' = count + 1 /\ early' = early
    BY <1>6 DEF DocumentInitialize, Existing, New
  <2> QED
    BY <2>1, <2>3, <2>4, CountedOne
<1>7. ASSUME NEW c \in Context, ContextDocGet(c) PROVE IInv'
  <2>1. Base' /\ Made' = Made
    BY <1>7, ContextDocGetBase
  <2>2. PICK w \in New(document) :
          document' = [document EXCEPT ![w] = [doc |-> context[c].doc, owns |-> FALSE]]
    BY <1>7 DEF ContextDocGet
  <2>3. UNCHANGED <<Existing(parser), count, early>>
    BY <1>7 DEF ContextDocGet, Existing, New
  <2>4. Owning' = Owning
    <3>1. w \in Document /\ document[w] = Nil
      BY <2>2 DEF New, Base, TypeOK
    <3>2. document'[w] = [doc |-> context[c].doc, owns |-> FALSE]
      BY <2>2, <3>1 DEF Base, TypeOK
    <3>3. \A o \in Document \ {w} : document'[o] = document[o]
      BY <2>2 DEF Base, TypeOK
    <3> QED
      BY <2>2, <3>1, <3>2, <3>3 DEF Base, TypeOK, Owning, Existing, New
  <2> QED
    BY <2>1, <2>3, <2>4, CountedNone
<1>8. ASSUME NEW w \in Document, NodeDoc(w) PROVE IInv'
  <2>1. Base' /\ Made' = Made
    BY <1>8, NodeDocBase
  <2>2. PICK o \in New(document) :
          document' = [document EXCEPT ![o] = [doc |-> document[w].doc, owns |-> FALSE]]
    BY <1>8 DEF NodeDoc
  <2>3. Owning' \subseteq Owning \cup {o}
    BY <2>2 DEF Base, TypeOK, Owning, Existing, New
  <2>4. Existing(parser)' = Existing(parser) /\ count' = count + 1 /\ early' = early
    BY <1>8 DEF NodeDoc, Existing, New
  <2> QED
    BY <2>1, <2>3, <2>4, CountedOne
<1>9. CASE Collect
  BY <1>9, ParserFreeSafe, ContextFreeSafe, DocumentFreeSafe DEF Collect
<1>10. ASSUME \/ \E p \in Parser : ParserContextGet(p)
              \/ \E o \in Parser \cup Context \cup Document : Drop(o)
              \/ UNCHANGED vars
       PROVE  IInv'
  BY <1>10, OthersBase, CountedNone
<1> QED
  BY <1>1, <1>2, <1>3, <1>4, <1>5, <1>6, <1>7, <1>8, <1>9, <1>10 DEF Next

\* At first there is nothing.
LEMMA InitKeeps == Init => IInv
<1> SUFFICES ASSUME Init PROVE IInv
  OBVIOUS
<1>1. Existing(parser) = {} /\ Existing(context) = {} /\ Existing(document) = {}
  BY DEF Init, Existing, New
<1>2. Made = {} /\ Owning = {}
  BY <1>1 DEF Made, Owning
<1>3. Range(stack) = {} /\ stack \in Seq(Existing(parser))
  BY DEF Init, Range
<1>4. Base
  BY <1>1, <1>2, <1>3 DEF Init, Base, TypeOK, ContextsKept
<1>5. Cardinality(Existing(parser)) = 0 /\ Cardinality(Made) = 0 /\ Cardinality(Owning) = 0
  BY <1>1, <1>2, FS_EmptySet
<1>6. count = 0 /\ ~early
  BY DEF Init
<1>7. CleanedUpLast
  BY <1>5, <1>6 DEF CleanedUpLast
<1> QED
  BY <1>4, <1>7 DEF IInv

LEMMA Invariant == Spec => []IInv
BY InitKeeps, StepKeeps, PTL DEF Spec

-----------------------------------------------------------------------------
(***************************************************************************)
(* Documents                                                               *)
(***************************************************************************)
\* The parsers that the program can get at, and the document of a parse
Roots == (held \cap Parser) \cup Range(stack)
DocOf(p) == context[parser[p].ctxt].doc

\* No two parsers share a context, and none parses within its own parse: so the
\* end of a parse is no other's.
ParsesApart ==
  /\ \A p, q \in Roots : p # q => parser[p].ctxt # parser[q].ctxt \/ parser[p].ctxt = Nil
  /\ \A i, j \in DOMAIN stack : stack[i] = stack[j] => i = j
  /\ \A p \in Range(stack) : context[parser[p].ctxt].ctxt = "parsing"

\* A document that is allocated belongs to one object or to one parse.
OneEach ==
  /\ \A w \in Owning : document[w].doc \in live
  /\ \A v, w \in Owning : document[v].doc = document[w].doc => v = w
  /\ \A p \in Range(stack) : DocOf(p) \in live
  /\ \A p, q \in Range(stack) : DocOf(p) = DocOf(q) => p = q
  /\ \A w \in Owning, p \in Range(stack) : document[w].doc # DocOf(p)
  /\ \A d \in live : \/ \E w \in Owning : document[w].doc = d
                     \/ \E p \in Range(stack) : DocOf(p) = d

\* With each object for a document the program holds the one that owns it.
OwnerHeld ==
  \A w \in held \cap Document : \E o \in held \cap Owning : document[o].doc = document[w].doc

Owned == ParsesApart /\ OneEach /\ OwnerHeld

\* A stack on which nothing occurs twice keeps that when it loses its top, and
\* when it gets something that is not on it.
LEMMA StackEnds ==
  ASSUME NEW S, stack \in Seq(S), stack # <<>>,
         \A i, j \in DOMAIN stack : stack[i] = stack[j] => i = j
  PROVE  /\ Last(stack) \in Range(stack)
         /\ Range(Front(stack)) = Range(stack) \ {Last(stack)}
         /\ \A i, j \in DOMAIN Front(stack) : Front(stack)[i] = Front(stack)[j] => i = j
<1>1. Len(stack) \in Nat /\ DOMAIN stack = 1..Len(stack)
  OBVIOUS
<1>2. Len(stack) \in 1..Len(stack)
  BY <1>1
<1>3. Front(stack) = [i \in 1..(Len(stack) - 1) |-> stack[i]]
  BY <1>1, <1>2, SubSeqProperties DEF Front
<1>4. Last(stack) = stack[Len(stack)]
  BY DEF Last
<1>5. 1..(Len(stack) - 1) = (1..Len(stack)) \ {Len(stack)}
  BY <1>1
<1> QED
  BY <1>1, <1>2, <1>3, <1>4, <1>5 DEF Range

LEMMA StackGrows ==
  ASSUME NEW S, stack \in Seq(S), NEW p, p \notin Range(stack),
         \A i, j \in DOMAIN stack : stack[i] = stack[j] => i = j
  PROVE  /\ Range(Append(stack, p)) = Range(stack) \cup {p}
         /\ \A i, j \in DOMAIN Append(stack, p) :
              Append(stack, p)[i] = Append(stack, p)[j] => i = j
<1>1. Len(stack) \in Nat /\ DOMAIN stack = 1..Len(stack)
  OBVIOUS
<1>2. /\ DOMAIN Append(stack, p) = 1..(Len(stack) + 1)
      /\ \A i \in 1..Len(stack) : Append(stack, p)[i] = stack[i]
      /\ Append(stack, p)[Len(stack) + 1] = p
  BY <1>1
<1>3. 1..(Len(stack) + 1) = (1..Len(stack)) \cup {Len(stack) + 1}
  BY <1>1
<1> QED
  BY <1>1, <1>2, <1>3 DEF Range

\* The parsers that the program can get at are there, and so are their contexts.
LEMMA RootsThere ==
  ASSUME Base
  PROVE  /\ Roots \subseteq Existing(parser) /\ Range(stack) \subseteq Roots
         /\ Roots \subseteq Parser /\ Roots \cap Parser \subseteq Reached
         /\ \A p \in Roots : /\ parser[p].ctxt \in Existing(context) \cup {Nil}
                             /\ parser[p].ctxt \in Reached \cup {Nil}
         /\ \A p \in Range(stack) : parser[p].ctxt \in Made /\ DocOf(p) \in Doc
<1>1. Range(stack) \subseteq Existing(parser)
  BY Stacked DEF Base, TypeOK
<1>2. held \cap Parser \subseteq Existing(parser) /\ Existing(parser) \subseteq Parser
  BY ParsingAssumption DEF Base, TypeOK, Existing
<1>3. \A p \in Roots : parser[p].ctxt \in Existing(context) \cup {Nil}
  BY DEF Base, ContextsKept, Roots, Made
<1> QED
  BY <1>1, <1>2, <1>3, ReachedStays DEF Roots, DocOf, Base, ContextsKept

\* What is done to neither parsers nor parses keeps parses apart ...
LEMMA ApartStays ==
  ASSUME ParsesApart, UNCHANGED <<parser, stack>>, Roots' \subseteq Roots,
         \A p \in Range(stack) : context'[parser[p].ctxt].ctxt = context[parser[p].ctxt].ctxt
  PROVE  ParsesApart'
BY DEF ParsesApart, Roots

\* ... and what is done to neither documents nor their objects, owners.
LEMMA EachStays ==
  ASSUME TypeOK, OneEach, OwnerHeld, UNCHANGED <<document, live, stack>>,
         held' \cap Document = held \cap Document,
         \A p \in Range(stack) : DocOf(p)' = DocOf(p)
  PROVE  OneEach' /\ OwnerHeld'
<1>1. Owning' = Owning /\ Range(stack)' = Range(stack) /\ Owning \subseteq Document
  BY DEF Owning, Existing, New, TypeOK
<1>2. held' \cap Owning = held \cap Owning
  BY <1>1
<1>3. OwnerHeld'
  BY <1>1, <1>2 DEF OwnerHeld
<1>4. OneEach'
  BY <1>1 DEF OneEach
<1> QED
  BY <1>3, <1>4

\* XML::Parser.new
LEMMA ParserNewOwned ==
  ASSUME Base, Owned, ParserNew
  PROVE  Owned'
<1>1. PICK p \in New(parser) :
        /\ parser' = [parser EXCEPT ![p] = [type |-> "null", ctxt |-> Nil]]
        /\ held' = held \cup {p}
  BY DEF ParserNew
<1>2. UNCHANGED <<context, document, live, stack>>
  BY DEF ParserNew
<1>3. /\ p \in Parser /\ p \notin Roots /\ parser'[p].ctxt = Nil
      /\ \A q \in Parser \ {p} : parser'[q] = parser[q]
  BY <1>1, RootsThere DEF Base, TypeOK, New, Existing
<1>4. Roots' = Roots \cup {p} /\ Range(stack)' = Range(stack)
  BY <1>1, <1>2, <1>3 DEF Roots
<1>5. \A q \in Roots : parser'[q] = parser[q]
  BY <1>3, RootsThere
<1>6. ParsesApart'
  BY <1>2, <1>3, <1>4, <1>5, RootsThere DEF Owned, ParsesApart
<1>7. held' \cap Document = held \cap Document
  BY <1>1, <1>3, ParsingAssumption
<1>8. \A q \in Range(stack) : DocOf(q)' = DocOf(q)
  BY <1>2, <1>5, RootsThere DEF DocOf
<1> QED
  BY <1>2, <1>6, <1>7, <1>8, EachStays DEF Owned, Base

\* parser.filename = and string =: the context is a new one.
LEMMA SourceSetOwned ==
  ASSUME NEW p \in Parser, NEW type, Base, Owned, SourceSet(p, type)
  PROVE  Owned'
<1>1. PICK c \in New(context), ctxt \in {"ready", "null"} :
        /\ parser' = [parser EXCEPT ![p] = [type |-> type, ctxt |-> c]]
        /\ context' = [context EXCEPT ![c] = ContextNew3(ctxt)]
  BY DEF SourceSet
<1>2. UNCHANGED <<document, live, held, stack>> /\ p \notin Range(stack)
  BY DEF SourceSet
<1>3. /\ c \in Context /\ c \notin Existing(context)
      /\ \A d \in Existing(context) : context'[d] = context[d]
      /\ parser'[p].ctxt = c
      /\ \A q \in Parser \ {p} : parser'[q] = parser[q]
  BY <1>1 DEF Base, TypeOK, New, Existing
<1>4. Roots' = Roots /\ Range(stack)' = Range(stack)
  BY <1>2 DEF Roots
<1>5. \A q \in Range(stack) : /\ parser'[q] = parser[q]
                              /\ context'[parser'[q].ctxt] = context[parser[q].ctxt]
  BY <1>2, <1>3, RootsThere DEF Made
<1>6. \A q \in Roots : q # p => parser'[q] = parser[q] /\ parser[q].ctxt # c
  BY <1>3, RootsThere, ParsingAssumption
<1>7. ParsesApart'
  BY <1>2, <1>3, <1>4, <1>5, <1>6 DEF Owned, ParsesApart
<1>8. \A q \in Range(stack) : DocOf(q)' = DocOf(q)
  BY <1>5 DEF DocOf
<1> QED
  BY <1>2, <1>7, <1>8, EachStays DEF Owned, Base

\* parser.parse, when it begins: the document is a new one.
LEMMA ParseBeginsOwned ==
  ASSUME NEW p \in Parser, Base, Owned, ParseBegins(p)
  PROVE  Owned'
<1> DEFINE c == parser[p].ctxt
<1>1. PICK d \in Doc \ live :
        /\ live' = live \cup {d}
        /\ context' = [context EXCEPT ![c] = [@ EXCEPT !.ctxt = "parsing", !.doc = d]]
  BY DEF ParseBegins
<1>2. /\ UNCHANGED <<parser, document, held>> /\ stack' = Append(stack, p)
      /\ p \in Roots /\ c # Nil /\ context[c].ctxt = "ready"
  BY DEF ParseBegins, Roots
<1>3. /\ c \in Context /\ context'[c].ctxt = "parsing" /\ context'[c].doc = d
      /\ \A e \in Context \ {c} : context'[e] = context[e]
  <2>1. c \in Existing(context)
    BY <1>2, RootsThere
  <2>2. c \in Context /\ context[c] \in ContextState
    BY <2>1 DEF Existing, New, Base, TypeOK
  <2>3. context'[c] = [context[c] EXCEPT !.ctxt = "parsing", !.doc = d]
    BY <1>1, <2>2 DEF Base, TypeOK
  <2>4. \A e \in Context \ {c} : context'[e] = context[e]
    BY <1>1 DEF Base, TypeOK
  <2> HIDE DEF c
  <2> QED
    BY <2>2, <2>3, <2>4 DEF ContextState
<1>4. p \notin Range(stack)
  BY <1>2 DEF Owned, ParsesApart
<1>5. /\ Range(stack') = Range(stack) \cup {p}
      /\ \A i, j \in DOMAIN stack' : stack'[i] = stack'[j] => i = j
  BY <1>2, <1>4, StackGrows DEF Owned, ParsesApart, Base, TypeOK
<1>6. \A q \in Range(stack) : parser[q].ctxt \in Context \ {c}
  <2>1. \A q \in Range(stack) : parser[q].ctxt \in Made
    BY RootsThere
  <2>2. \A q \in Range(stack) : parser[q].ctxt # c
    BY <1>2 DEF Owned, ParsesApart
  <2> QED
    BY <2>1, <2>2 DEF Made, Existing, New, Base, TypeOK
<1>7. \A q \in Range(stack) : DocOf(q)' = DocOf(q) /\ context'[parser[q].ctxt].ctxt = "parsing"
  BY <1>2, <1>3, <1>6 DEF DocOf, Owned, ParsesApart
<1>8. DocOf(p)' = d
  BY <1>2, <1>3 DEF DocOf
<1>9. Roots' = Roots
  BY <1>2, <1>5 DEF Roots
<1>10. ParsesApart'
  BY <1>2, <1>3, <1>5, <1>7, <1>9 DEF Owned, ParsesApart
<1>11. Owning' = Owning
  BY <1>2 DEF Owning, Existing, New
<1>12. OneEach'
  <2>1. \A w \in Owning : document[w].doc \in live /\ document[w].doc # d
    BY <1>1 DEF Owned, OneEach
  <2>2. \A q \in Range(stack) : DocOf(q)' \in live /\ DocOf(q)' # d
    BY <1>1, <1>7 DEF Owned, OneEach
  <2>3. \A q \in Range(stack)' : DocOf(q)' \in live'
    BY <1>1, <1>5, <1>8, <2>2
  <2>4. \A q, r \in Range(stack)' : DocOf(q)' = DocOf(r)' => q = r
    BY <1>5, <1>7, <1>8, <2>2 DEF Owned, OneEach
  <2>5. \A w \in Owning, q \in Range(stack)' : document[w].doc # DocOf(q)'
    BY <1>5, <1>7, <1>8, <2>1 DEF Owned, OneEach
  <2>6. \A e \in live' : \/ \E w \in Owning : document[w].doc = e
                         \/ \E q \in Range(stack)' : DocOf(q)' = e
    BY <1>1, <1>5, <1>7, <1>8 DEF Owned, OneEach
  <2>7. \A v, w \in Owning : document[v].doc = document[w].doc => v = w
    BY DEF Owned, OneEach
  <2> QED
    BY <1>1, <1>2, <1>11, <2>1, <2>3, <2>4, <2>5, <2>6, <2>7 DEF OneEach
<1>13. OwnerHeld'
  BY <1>2, <1>11 DEF Owned, OwnerHeld
<1> QED
  BY <1>10, <1>12, <1>13 DEF Owned

\* The end of a parse concerns no other.
LEMMA EndsApart ==
  ASSUME Base, Owned, stack # <<>>, NEW state,
         context' = [context EXCEPT ![TopContext].ctxt = state],
         stack' = Front(stack), UNCHANGED parser, held' \cap Parser = held \cap Parser
  PROVE  /\ ParsesApart'
         /\ Last(stack) \in Range(stack) /\ DocOf(Last(stack)) = context[TopContext].doc
         /\ Range(stack)' = Range(stack) \ {Last(stack)}
         /\ \A p \in Range(stack)' : DocOf(p)' = DocOf(p)
<1>1. /\ Last(stack) \in Range(stack)
      /\ Range(stack') = Range(stack) \ {Last(stack)}
      /\ \A i, j \in DOMAIN stack' : stack'[i] = stack'[j] => i = j
  BY StackEnds DEF Owned, ParsesApart, Base, TypeOK
<1>2. \A p \in Range(stack') : parser[p].ctxt \in Context /\ parser[p].ctxt # TopContext
  <2>1. \A p \in Range(stack) : parser[p].ctxt \in Made /\ p \in Roots
    BY RootsThere
  <2>2. Made \subseteq Context
    BY DEF Made, Existing, Base, TypeOK
  <2>3. Nil \notin Context
    BY ParsingAssumption
  <2> QED
    BY <1>1, <2>1, <2>2, <2>3 DEF Owned, ParsesApart, TopContext
<1>3. \A p \in Range(stack') : context'[parser[p].ctxt] = context[parser[p].ctxt]
  BY <1>2 DEF Base, TypeOK
<1>4. Roots' \subseteq Roots
  BY <1>1 DEF Roots
<1>5. ParsesApart'
  <2>1. \A p, q \in Roots' : p # q => parser'[p].ctxt # parser'[q].ctxt \/ parser'[p].ctxt = Nil
    BY <1>4 DEF Owned, ParsesApart
  <2>2. ASSUME NEW p \in Range(stack')
        PROVE  context'[parser'[p].ctxt].ctxt = "parsing"
    <3>1. context[parser[p].ctxt].ctxt = "parsing"
      BY <1>1 DEF Owned, ParsesApart
    <3>2. parser'[p] = parser[p] /\ context'[parser[p].ctxt] = context[parser[p].ctxt]
      BY <1>3
    <3> QED
      BY <3>1, <3>2
  <2> QED
    BY <1>1, <2>1, <2>2 DEF ParsesApart
<1> QED
  BY <1>1, <1>3, <1>5 DEF DocOf, TopContext

\* The parse has a document: an object takes it over.
LEMMA ParseSucceedsOwned ==
  ASSUME Base, Owned, ParseSucceeds
  PROVE  Owned'
<1> DEFINE p == Last(stack)
<1>1. PICK w \in New(document) :
        /\ document' = [document EXCEPT ![w] = [doc |-> context[TopContext].doc, owns |-> TRUE]]
        /\ held' = held \cup {w}
  BY DEF ParseSucceeds
<1>2. UNCHANGED <<parser, live>>
  BY DEF ParseSucceeds
<1>3. /\ w \in Document /\ w \notin Owning /\ w \notin held
      /\ document'[w] = [doc |-> context[TopContext].doc, owns |-> TRUE]
      /\ \A v \in Document \ {w} : document'[v] = document[v]
  BY <1>1, ParsingAssumption DEF Base, TypeOK, New, Existing, Owning
<1>4. held' \cap Parser = held \cap Parser
  BY <1>1, <1>3, ParsingAssumption
<1>5. /\ ParsesApart'
      /\ p \in Range(stack) /\ DocOf(p) = context[TopContext].doc
      /\ Range(stack)' = Range(stack) \ {p}
      /\ \A q \in Range(stack)' : DocOf(q)' = DocOf(q)
  <2>1. \E state : context' = [context EXCEPT ![TopContext].ctxt = state]
    BY DEF ParseSucceeds
  <2> QED
    BY <1>2, <1>4, <2>1, EndsApart DEF ParseSucceeds
<1> HIDE DEF p
<1>6. /\ Owning' = Owning \cup {w} /\ document'[w].doc = DocOf(p)
      /\ \A v \in Owning : document'[v] = document[v]
  <2>1. DocOf(p) \in Doc
    BY <1>5, RootsThere
  <2>2. document'[w] \in DocumentState
    BY <1>3, <1>5, <2>1 DEF DocumentState
  <2>3. document'[w] # Nil /\ DOMAIN document' = Document /\ DOMAIN document = Document
    BY <1>1, <2>2, ParsingAssumption DEF Base, TypeOK
  <2> QED
    BY <1>3, <1>5, <2>3 DEF Owning, Existing, New
<1>7. OneEach'
  <2>1. \A v \in Owning' : document'[v].doc \in live'
    BY <1>2, <1>5, <1>6 DEF Owned, OneEach
  <2>2. \A u, v \in Owning' : document'[u].doc = document'[v].doc => u = v
    BY <1>5, <1>6 DEF Owned, OneEach
  <2>3. \A q \in Range(stack)' : DocOf(q)' \in live'
    BY <1>2, <1>5 DEF Owned, OneEach
  <2>4. \A q, r \in Range(stack)' : DocOf(q)' = DocOf(r)' => q = r
    BY <1>5 DEF Owned, OneEach
  <2>5. \A v \in Owning', q \in Range(stack)' : document'[v].doc # DocOf(q)'
    BY <1>5, <1>6 DEF Owned, OneEach
  <2>6. \A e \in live' : \/ \E v \in Owning' : document'[v].doc = e
                         \/ \E q \in Range(stack)' : DocOf(q)' = e
    <3> SUFFICES ASSUME NEW e \in live
                 PROVE  \/ \E v \in Owning' : document'[v].doc = e
                        \/ \E q \in Range(stack)' : DocOf(q)' = e
      BY <1>2
    <3>1. CASE e = DocOf(p)
      BY <1>6, <3>1
    <3>2. CASE \E v \in Owning : document[v].doc = e
      BY <1>6, <3>2
    <3>3. CASE e # DocOf(p) /\ \E q \in Range(stack) : DocOf(q) = e
      BY <1>5, <3>3
    <3> QED
      BY <3>1, <3>2, <3>3 DEF Owned, OneEach
  <2> QED
    BY <2>1, <2>2, <2>3, <2>4, <2>5, <2>6 DEF OneEach
<1>8. OwnerHeld'
  <2>1. \A v \in held' \cap Document : v = w \/ (v \in held \cap Document /\ v # w)
    BY <1>1, <1>3
  <2> QED
    BY <1>1, <1>3, <1>6, <2>1 DEF Owned, OwnerHeld
<1> QED
  BY <1>5, <1>7, <1>8 DEF Owned

\* The parse has none, and what libxml2 had allocated is freed.
LEMMA ParseFailsOwned ==
  ASSUME Base, Owned, ParseFails
  PROVE  Owned'
<1> DEFINE p == Last(stack)
<1>1. UNCHANGED <<parser, document, held>> /\ live' = live \ {context[TopContext].doc}
  BY DEF ParseFails
<1>2. /\ ParsesApart'
      /\ p \in Range(stack) /\ DocOf(p) = context[TopContext].doc
      /\ Range(stack)' = Range(stack) \ {p}
      /\ \A q \in Range(stack)' : DocOf(q)' = DocOf(q)
  <2>1. \E state : context' = [context EXCEPT ![TopContext].ctxt = state]
    BY DEF ParseFails
  <2> QED
    BY <1>1, <2>1, EndsApart DEF ParseFails
<1> HIDE DEF p
<1>3. Owning' = Owning
  BY <1>1 DEF Owning, Existing, New
<1>4. OneEach'
  <2>1. \A v \in Owning : document[v].doc \in live'
    BY <1>1, <1>2 DEF Owned, OneEach
  <2>2. \A q \in Range(stack)' : DocOf(q)' \in live'
    BY <1>1, <1>2 DEF Owned, OneEach
  <2>3. \A q, r \in Range(stack)' : DocOf(q)' = DocOf(r)' => q = r
    BY <1>2 DEF Owned, OneEach
  <2>4. \A v \in Owning, q \in Range(stack)' : document[v].doc # DocOf(q)'
    BY <1>2 DEF Owned, OneEach
  <2>5. \A e \in live' : \/ \E v \in Owning : document[v].doc = e
                         \/ \E q \in Range(stack)' : DocOf(q)' = e
    BY <1>1, <1>2 DEF Owned, OneEach
  <2>6. \A u, v \in Owning : document[u].doc = document[v].doc => u = v
    BY DEF Owned, OneEach
  <2> QED
    BY <1>1, <1>3, <2>1, <2>2, <2>3, <2>4, <2>5, <2>6 DEF OneEach
<1>5. OwnerHeld'
  BY <1>1, <1>3 DEF Owned, OwnerHeld
<1> QED
  BY <1>2, <1>4, <1>5 DEF Owned

\* One more object for a document, when no parse is concerned: it owns a document
\* that was not there, or does not own one of which the program holds the owner.
LEMMA ObjectOwned ==
  ASSUME Base, Owned, NEW w \in New(document), NEW r \in DocumentState,
         document' = [document EXCEPT ![w] = r], held' = held \cup {w},
         UNCHANGED <<parser, context, stack>>,
         \/ r.owns /\ r.doc \notin live /\ live' = live \cup {r.doc}
         \/ /\ ~r.owns /\ live' = live
            /\ \E o \in held \cap Owning : document[o].doc = r.doc
  PROVE  Owned'
<1>1. /\ w \in Document /\ w \notin Owning /\ w \notin held
      /\ document'[w] = r /\ r # Nil
      /\ \A v \in Document \ {w} : document'[v] = document[v]
      /\ DOMAIN document' = Document /\ DOMAIN document = Document
  BY ParsingAssumption DEF Base, TypeOK, New, Existing, Owning
<1>2. Roots' \subseteq Roots
  BY <1>1, ParsingAssumption DEF Roots
<1>3. ParsesApart'
  BY <1>2, ApartStays DEF Owned
<1>4. \A q \in Range(stack) : DocOf(q)' = DocOf(q) /\ DocOf(q) \in live
  BY DEF DocOf, Owned, OneEach
<1>5. Owning' = IF r.owns THEN Owning \cup {w} ELSE Owning
  BY <1>1 DEF Owning, Existing, New
<1>6. \A v \in Owning : v # w /\ document'[v] = document[v]
  BY <1>1 DEF Owning, Existing, New
<1>7. CASE r.owns /\ r.doc \notin live /\ live' = live \cup {r.doc}
  <2>1. Owning' = Owning \cup {w}
    BY <1>5, <1>7
  <2>2. OneEach'
    <3>1. \A v \in Owning' : document'[v].doc \in live'
      BY <1>1, <1>6, <1>7, <2>1 DEF Owned, OneEach
    <3>2. \A u, v \in Owning' : document'[u].doc = document'[v].doc => u = v
      BY <1>1, <1>6, <1>7, <2>1 DEF Owned, OneEach
    <3>3. \A q \in Range(stack) : DocOf(q)' \in live'
      BY <1>4, <1>7
    <3>4. \A q, s \in Range(stack) : DocOf(q)' = DocOf(s)' => q = s
      BY <1>4 DEF Owned, OneEach
    <3>5. \A v \in Owning', q \in Range(stack) : document'[v].doc # DocOf(q)'
      BY <1>1, <1>4, <1>6, <1>7, <2>1 DEF Owned, OneEach
    <3>6. \A e \in live' : \/ \E v \in Owning' : document'[v].doc = e
                           \/ \E q \in Range(stack) : DocOf(q)' = e
      BY <1>1, <1>4, <1>6, <1>7, <2>1 DEF Owned, OneEach
    <3> QED
      BY <3>1, <3>2, <3>3, <3>4, <3>5, <3>6 DEF OneEach
  <2>3. OwnerHeld'
    <3>1. \A v \in held' \cap Document : v = w \/ (v \in held \cap Document /\ v # w)
      BY <1>1
    <3> QED
      BY <1>1, <1>6, <2>1, <3>1 DEF Owned, OwnerHeld
  <2> QED
    BY <1>3, <2>2, <2>3 DEF Owned
<1>8. CASE /\ ~r.owns /\ live' = live
           /\ \E o \in held \cap Owning : document[o].doc = r.doc
  <2>1. Owning' = Owning
    BY <1>5, <1>8
  <2>2. OneEach'
    BY <1>4, <1>6, <1>8, <2>1 DEF Owned, OneEach
  <2>3. OwnerHeld'
    <3>1. \A v \in held' \cap Document : v = w \/ (v \in held \cap Document /\ v # w)
      BY <1>1
    <3> QED
      BY <1>1, <1>6, <1>8, <2>1, <3>1 DEF Owned, OwnerHeld
  <2> QED
    BY <1>3, <2>2, <2>3 DEF Owned
<1> QED
  BY <1>7, <1>8

LEMMA DocumentInitializeOwned ==
  ASSUME Base, Owned, DocumentInitialize
  PROVE  Owned'
<1>1. PICK w \in New(document), d \in Doc \ live :
        /\ document' = [document EXCEPT ![w] = [doc |-> d, owns |-> TRUE]]
        /\ live' = live \cup {d} /\ held' = held \cup {w}
  BY DEF DocumentInitialize
<1>2. [doc |-> d, owns |-> TRUE] \in DocumentState
  BY <1>1 DEF DocumentState
<1> QED
  BY <1>1, <1>2, ObjectOwned DEF DocumentInitialize

LEMMA ContextDocGetOwned ==
  ASSUME NEW c \in Context, Base, Owned, ContextDocGet(c)
  PROVE  Owned'
<1>1. PICK w \in New(document) :
        /\ document' = [document EXCEPT ![w] = [doc |-> context[c].doc, owns |-> FALSE]]
        /\ held' = held \cup {w}
  BY DEF ContextDocGet
<1>2. PICK o \in held \cap Owning : document[o].doc = context[c].doc
  BY DEF ContextDocGet, OwnersOf, Owning
<1>3. [doc |-> context[c].doc, owns |-> FALSE] \in DocumentState
  BY <1>2 DEF Owning, Existing, New, Base, TypeOK, DocumentState
<1> QED
  BY <1>1, <1>2, <1>3, ObjectOwned DEF ContextDocGet

LEMMA NodeDocOwned ==
  ASSUME NEW w \in Document, Base, Owned, NodeDoc(w)
  PROVE  Owned'
<1>1. PICK o \in New(document) :
        /\ document' = [document EXCEPT ![o] = [doc |-> document[w].doc, owns |-> FALSE]]
        /\ held' = held \cup {o}
  BY DEF NodeDoc
<1>2. w \in held \cap Owning
  BY DEF NodeDoc, Owning
<1>3. [doc |-> document[w].doc, owns |-> FALSE] \in DocumentState
  BY <1>2 DEF Owning, Existing, New, Base, TypeOK, DocumentState
<1> QED
  BY <1>1, <1>2, <1>3, ObjectOwned DEF NodeDoc

\* The collector: nothing that is taken is a parse's, or an owner that is held.
LEMMA CollectOwned ==
  ASSUME Base, Owned, Collect
  PROVE  Owned'
<1>1. /\ held \subseteq Reached /\ Range(stack) \subseteq Roots /\ Roots \subseteq Parser \cap Reached
      /\ \A p \in Roots : parser[p].ctxt \in Reached \cup {Nil}
      /\ \A p \in Range(stack) : parser[p].ctxt \in Made
  BY RootsThere, ReachedStays
<1>2. ASSUME NEW p \in Existing(parser) \ Reached, ParserFree(p) PROVE Owned'
  <2>1. /\ parser' = [parser EXCEPT ![p] = Nil]
        /\ UNCHANGED <<context, document, live, held, stack>>
    BY <1>2 DEF ParserFree
  <2>2. \A q \in Roots : parser'[q] = parser[q]
    BY <1>1, <2>1 DEF Base, TypeOK
  <2>3. Roots' = Roots
    BY <2>1 DEF Roots
  <2>4. ParsesApart'
    BY <1>1, <2>1, <2>2, <2>3 DEF Owned, ParsesApart
  <2>5. \A q \in Range(stack) : DocOf(q)' = DocOf(q)
    BY <1>1, <2>1, <2>2 DEF DocOf
  <2> QED
    BY <2>1, <2>4, <2>5, EachStays DEF Owned, Base
<1>3. ASSUME NEW c \in Existing(context) \ Reached, ContextFree(c) PROVE Owned'
  <2>1. /\ context' = [context EXCEPT ![c] = Nil]
        /\ UNCHANGED <<parser, document, live, held, stack>>
    BY <1>3 DEF ContextFree
  <2>2. \A q \in Range(stack) : context'[parser[q].ctxt] = context[parser[q].ctxt]
    <3>1. c # Nil
      BY ParsingAssumption DEF Existing, Base, TypeOK
    <3>2. \A q \in Range(stack) : parser[q].ctxt \in Context \ {c}
      BY <1>1, <3>1 DEF Made, Existing, Base, TypeOK
    <3> QED
      BY <2>1, <3>2 DEF Base, TypeOK
  <2>3. Roots' = Roots
    BY <2>1 DEF Roots
  <2>4. ParsesApart'
    BY <2>1, <2>2, <2>3, ApartStays DEF Owned
  <2>5. \A q \in Range(stack) : DocOf(q)' = DocOf(q)
    BY <2>1, <2>2 DEF DocOf
  <2> QED
    BY <2>1, <2>4, <2>5, EachStays DEF Owned, Base
<1>4. ASSUME NEW w \in Existing(document) \ Reached, DocumentFree(w) PROVE Owned'
  <2>1. /\ document' = [document EXCEPT ![w] = Nil]
        /\ UNCHANGED <<parser, context, held, stack>>
        /\ live' = IF document[w].owns THEN live \ {document[w].doc} ELSE live
    BY <1>4 DEF DocumentFree
  <2>2. Roots' = Roots
    BY <2>1 DEF Roots
  <2>3. ParsesApart'
    BY <2>1, <2>2, ApartStays DEF Owned
  <2>4. /\ Owning' = Owning \ {w} /\ w \notin held
        /\ \A v \in Owning' : document'[v] = document[v]
        /\ \A v \in held \cap Document : document'[v] = document[v]
    BY <1>1, <2>1 DEF Owning, Existing, New, Base, TypeOK
  <2>5. \A q \in Range(stack) : DocOf(q)' = DocOf(q)
    BY <2>1 DEF DocOf
  <2>6. OwnerHeld'
    BY <2>1, <2>4 DEF Owned, OwnerHeld
  <2>7. w \in Owning => /\ live' = live \ {document[w].doc}
                         /\ \A v \in Owning' : document[v].doc # document[w].doc
                         /\ \A q \in Range(stack) : DocOf(q) # document[w].doc
    BY <2>1, <2>4 DEF Owned, OneEach, Owning
  <2>8. w \notin Owning => live' = live
    BY <2>1 DEF Owning
  <2>9. \A v \in Owning' : document'[v].doc \in live'
    BY <2>4, <2>7, <2>8 DEF Owned, OneEach
  <2>10. \A q \in Range(stack) : DocOf(q)' \in live'
    BY <2>5, <2>7, <2>8 DEF Owned, OneEach
  <2>11. \A e \in live' : \/ \E v \in Owning' : document'[v].doc = e
                          \/ \E q \in Range(stack) : DocOf(q)' = e
    <3> SUFFICES ASSUME NEW e \in live'
                 PROVE  \/ \E v \in Owning' : document'[v].doc = e
                        \/ \E q \in Range(stack) : DocOf(q)' = e
      OBVIOUS
    <3>1. e \in live /\ (w \in Owning => e # document[w].doc)
      BY <2>7, <2>8
    <3>2. CASE \E q \in Range(stack) : DocOf(q) = e
      BY <2>5, <3>2
    <3>3. CASE \E v \in Owning : document[v].doc = e
      BY <2>4, <3>1, <3>3
    <3> QED
      BY <3>1, <3>2, <3>3 DEF Owned, OneEach
  <2>12. OneEach'
    BY <2>1, <2>4, <2>5, <2>9, <2>10, <2>11 DEF Owned, OneEach
  <2> QED
    BY <2>3, <2>6, <2>12 DEF Owned
<1> QED
  BY <1>2, <1>3, <1>4 DEF Collect

\* The program lets go of an object: of the owner last.
LEMMA DropOwned ==
  ASSUME NEW o, Base, Owned, Drop(o)
  PROVE  Owned'
<1>1. UNCHANGED <<parser, context, document, live, stack>> /\ held' = held \ {o}
  BY DEF Drop
<1>2. Roots' \subseteq Roots
  BY <1>1 DEF Roots
<1>3. ParsesApart'
  BY <1>1, <1>2, ApartStays DEF Owned
<1>4. Owning' = Owning /\ \A q \in Range(stack) : DocOf(q)' = DocOf(q)
  BY <1>1 DEF Owning, Existing, New, DocOf
<1>5. OneEach'
  BY <1>1, <1>4 DEF Owned, OneEach
<1>6. OwnerHeld'
  <2> SUFFICES ASSUME NEW w \in held \cap Document, w # o
               PROVE  \E v \in (held \ {o}) \cap Owning : document[v].doc = document[w].doc
    BY <1>1, <1>4 DEF OwnerHeld
  <2>1. PICK v \in held \cap Owning : document[v].doc = document[w].doc
    BY DEF Owned, OwnerHeld
  <2>2. v # o
    <3> SUFFICES ASSUME v = o PROVE FALSE
      OBVIOUS
    <3>1. o \in Document /\ document[o].owns
      BY <2>1 DEF Owning, Existing, Base, TypeOK
    <3> QED
      BY <2>1, <3>1 DEF Drop
  <2> QED
    BY <2>1, <2>2
<1> QED
  BY <1>3, <1>5, <1>6 DEF Owned

\* Each step keeps documents owned.
LEMMA OwnedKept == Base /\ Owned /\ [Next]_vars => Owned'
<1> SUFFICES ASSUME Base, Owned, [Next]_vars PROVE Owned'
  OBVIOUS
<1>1. ASSUME NEW p \in Parser, FilenameSet(p) \/ StrSet(p) PROVE Owned'
  BY <1>1, SourceSetOwned DEF FilenameSet, StrSet
<1>2. ASSUME NEW p \in Parser, ParserContextGet(p) PROVE Owned'
  <2>1. /\ UNCHANGED <<parser, context, document, live, stack>>
        /\ held' = held \cup {parser[p].ctxt}
        /\ parser[p].ctxt \in Existing(context)
    BY <1>2 DEF ParserContextGet, Base, ContextsKept
  <2>2. parser[p].ctxt \in Context
    BY <2>1 DEF Existing, Base, TypeOK
  <2>3. held' \cap Document = held \cap Document /\ held' \cap Parser = held \cap Parser
    BY <2>1, <2>2, ParsingAssumption
  <2>4. Roots' = Roots
    BY <2>1, <2>3 DEF Roots
  <2>5. \A q \in Range(stack) : DocOf(q)' = DocOf(q)
    BY <2>1 DEF DocOf
  <2> QED
    BY <2>1, <2>3, <2>4, <2>5, ApartStays, EachStays DEF Owned, Base
<1>3. ASSUME UNCHANGED vars PROVE Owned'
  <2>1. UNCHANGED <<parser, context, document, live, held, stack>>
    BY <1>3 DEF vars
  <2>2. Roots' = Roots /\ \A q \in Range(stack) : DocOf(q)' = DocOf(q)
    BY <2>1 DEF Roots, DocOf
  <2> QED
    BY <2>1, <2>2, ApartStays, EachStays DEF Owned, Base
<1> QED
  BY <1>1, <1>2, <1>3, ParserNewOwned, ParseBeginsOwned,
     ParseSucceedsOwned, ParseFailsOwned, DocumentInitializeOwned, ContextDocGetOwned,
     NodeDocOwned, CollectOwned, DropOwned
  DEF Next, vars

-----------------------------------------------------------------------------
(***************************************************************************)
(* Theorems                                                                *)
(***************************************************************************)
\* The tables of objects keep their types, and each parse that goes on is of a
\* parser that is there.
THEOREM TypesCorrect == Spec => []TypeOK
<1>1. IInv => TypeOK
  BY DEF IInv, Base
<1> QED
  BY <1>1, Invariant, PTL

\* In whatever order the collector frees parsers, contexts and documents, and
\* however parses are nested or fail, ruby_xml_parser_count comes to zero, and
\* xmlCleanupParser is called, only when none of them is in use.
THEOREM CleanupIsLast == Spec => []CleanedUpLast
<1>1. IInv => CleanedUpLast
  BY DEF IInv
<1> QED
  BY <1>1, Invariant, PTL

\* The collector never takes the context of a parser that the program can use,
\* nor that of a parse that goes on, however parses are nested.
THEOREM ContextsAreKept == Spec => []ContextsKept
<1>1. IInv => ContextsKept
  BY DEF IInv, Base
<1> QED
  BY <1>1, Invariant, PTL

\* A document has exactly one owner or is being parsed by exactly one parse, and
\* what the program holds for a document leads to one that is there: through
\* parses within parses, failures, and the collector at any time.
THEOREM DocumentsAreOwned == Spec => []DocumentsOwned
<1>1. Init => Owned
  BY DEF Init, Owned, ParsesApart, OneEach, OwnerHeld, Roots, Range, Owning, Existing, New
<1>2. IInv /\ Owned => DocumentsOwned
  <2> SUFFICES ASSUME Base, Owned PROVE DocumentsOwned
    BY DEF IInv
  <2>1. ASSUME NEW w \in Existing(document), document[w].owns \/ w \in held
        PROVE  document[w].doc \in live
    <3>1. w \in Document
      BY DEF Existing, Base, TypeOK
    <3> QED
      BY <2>1, <3>1 DEF Owned, OneEach, OwnerHeld, Owning
  <2>2. ASSUME NEW d \in live
        PROVE  Cardinality(OwnersOf(d)) +
               Cardinality({i \in DOMAIN stack : context[parser[stack[i]].ctxt].doc = d}) = 1
    <3> DEFINE owners == OwnersOf(d)
               parses == {i \in DOMAIN stack : context[parser[stack[i]].ctxt].doc = d}
    <3>1. owners = {w \in Owning : document[w].doc = d}
      <4>1. \A w \in Existing(document) :
              document[w] = [doc |-> d, owns |-> TRUE] <=> document[w].owns /\ document[w].doc = d
        BY DEF Existing, New, Base, TypeOK, DocumentState
      <4> QED
        BY <4>1 DEF OwnersOf, Owning
    <3>2. \A i \in DOMAIN stack : stack[i] \in Range(stack)
      BY DEF Range
    <3>3. CASE \E w \in Owning : document[w].doc = d
      <4>1. PICK w \in Owning : document[w].doc = d
        BY <3>3
      <4>2. owners = {w}
        BY <3>1, <4>1 DEF Owned, OneEach
      <4>3. parses = {}
        BY <3>2, <4>1 DEF Owned, OneEach, DocOf
      <4>4. Cardinality(owners) = 1 /\ Cardinality(parses) = 0
        BY <4>2, <4>3, FS_Singleton, FS_EmptySet
      <4> QED
        BY <4>4
    <3>4. CASE \E p \in Range(stack) : DocOf(p) = d
      <4>1. PICK i \in DOMAIN stack : DocOf(stack[i]) = d
        BY <3>4 DEF Range
      <4>2. parses = {i}
        BY <3>2, <4>1 DEF Owned, OneEach, ParsesApart, DocOf
      <4>3. owners = {}
        BY <3>1, <3>2, <4>1 DEF Owned, OneEach
      <4>4. Cardinality(owners) = 0 /\ Cardinality(parses) = 1
        BY <4>2, <4>3, FS_Singleton, FS_EmptySet
      <4> QED
        BY <4>4
    <3> QED
      BY <3>3, <3>4 DEF Owned, OneEach
  <2> QED
    BY <2>1, <2>2 DEF DocumentsOwned
<1>3. IInv /\ Owned /\ [Next]_vars => Owned'
  BY OwnedKept DEF IInv
<1> QED
  BY <1>1, <1>2, <1>3, Invariant, PTL DEF Spec
=============================================================================
