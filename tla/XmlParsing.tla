----------------------------- MODULE XmlParsing -----------------------------
(***************************************************************************)
(* XML::Parser, XML::Parser::Context and the documents they make           *)
(* (ruby_xml_parser.c, ruby_xml_parser_context.c, ruby_xml_document.c):    *)
(* which object frees what, and the count by which the last one of them    *)
(* calls xmlCleanupParser.                                                 *)
(*                                                                         *)
(* A parse may call back into the program, to report an error or to ask    *)
(* for a document (XmlInputs); so the program may run in the middle of a   *)
(* parse, and may leave it by an exception.  The collector frees at any    *)
(* time any one of the objects that cannot be reached.                     *)
(*                                                                         *)
(* The program is taken to keep these rules, which the extension leaves    *)
(* to it: it parses a source once, and not one that could not be opened;   *)
(* it does not set the source of a parser in the middle of its parse; it   *)
(* asks a context for its document when the parse has succeeded, and for   *)
(* no node; it keeps the document that parse returned while it holds       *)
(* another object for it.                                                  *)
(***************************************************************************)
EXTENDS Naturals, Sequences, FiniteSets, SequencesExt

CONSTANTS
  Parser, Context, Document, \* the Ruby objects there can be
  Doc,                       \* libxml2's documents
  Nil,
  MaxCount, MaxDepth         \* bounds of the count and of parses in parses

ParserState   == [type : {"null", "file", "string"}, ctxt : Context \cup {Nil}]
ContextState  == [ctxt : {"null", "ready", "parsing", "parsed", "failed"},
                  doc : Doc \cup {Nil}]
DocumentState == [doc : Doc, owns : BOOLEAN]

ASSUME ParsingAssumption ==
  /\ IsFiniteSet(Parser) /\ IsFiniteSet(Context) /\ IsFiniteSet(Document)
  /\ Parser \cap Context = {} /\ Parser \cap Document = {} /\ Context \cap Document = {}
  /\ Nil \notin Parser \cup Context \cup Document \cup Doc
  /\ Nil \notin ParserState \cup ContextState \cup DocumentState
  /\ MaxCount \in Nat /\ MaxDepth \in Nat

VARIABLES
  parser,  \* of a parser the type of its source and its context, or Nil
  context, \* of a context its state and document, or Nil
  document,\* of a document object the document and whether it owns it, or Nil
  live,    \* the documents that are allocated
  held,    \* the objects that the program refers to
  stack,   \* the parsers whose parse goes on, innermost last
  count,   \* ruby_xml_parser_count
  early    \* has xmlCleanupParser been called while something was in use?

vars == <<parser, context, document, live, held, stack, count, early>>

New(table) == {o \in DOMAIN table : table[o] = Nil}
Existing(table) == DOMAIN table \ New(table)

(***************************************************************************)
(* Parsers and their sources                                               *)
(***************************************************************************)
\* XML::Parser.new
ParserNew ==
  \E p \in New(parser) :
    /\ count < MaxCount
    /\ parser' = [parser EXCEPT ![p] = [type |-> "null", ctxt |-> Nil]]
    /\ held' = held \cup {p}
    /\ count' = count + 1
    /\ UNCHANGED <<context, document, live, stack, early>>

\* parser_context_new3, and the context that libxml2 makes for the source, or NULL
ContextNew3(ctxt) == [ctxt |-> ctxt, doc |-> Nil]

\* A parser whose source is of another type is left alone.  What could not be
\* made, for a file that is not there or an empty string, is left in place.
SourceSet(p, type) ==
  /\ p \in held /\ p \in Existing(parser)
  /\ p \notin Range(stack)
  /\ parser[p].type \in {"null", type}
  /\ \E c \in New(context), ctxt \in {"ready", "null"} :
       /\ parser' = [parser EXCEPT ![p] = [type |-> type, ctxt |-> c]]
       /\ context' = [context EXCEPT ![c] = ContextNew3(ctxt)]
  /\ count < MaxCount /\ count' = count + 1
  /\ UNCHANGED <<document, live, held, stack, early>>

\* parser.filename = raises an exception after a failure, string = does not look
\* for one, and no more does io =, which is like string = here.
FilenameSet(p) == SourceSet(p, "file")
StrSet(p)      == SourceSet(p, "string")

\* parser.parser_context
ParserContextGet(p) ==
  /\ p \in held /\ p \in Existing(parser)
  /\ parser[p].ctxt \notin held \cup {Nil}
  /\ held' = held \cup {parser[p].ctxt}
  /\ UNCHANGED <<parser, context, document, live, stack, count, early>>

(***************************************************************************)
(* Parsing                                                                 *)
(***************************************************************************)
\* parser.parse begins: libxml2 makes the document.  Without a source nothing
\* happens.
ParseBegins(p) ==
  /\ p \in held /\ p \in Existing(parser) /\ parser[p].ctxt # Nil
  /\ context[parser[p].ctxt].ctxt = "ready"
  /\ Len(stack) < MaxDepth
  /\ \E d \in Doc \ live :
       /\ live' = live \cup {d}
       /\ context' = [context EXCEPT ![parser[p].ctxt] =
                        [@ EXCEPT !.ctxt = "parsing", !.doc = d]]
  /\ stack' = Append(stack, p)
  /\ UNCHANGED <<parser, document, held, count, early>>

TopContext == parser[Last(stack)].ctxt

\* The document is well-formed: an object owns it.
ParseSucceeds ==
  /\ stack # <<>> /\ count < MaxCount
  /\ \E w \in New(document) :
       /\ document' = [document EXCEPT ![w] = [doc |-> context[TopContext].doc, owns |-> TRUE]]
       /\ held' = held \cup {w}
  /\ context' = [context EXCEPT ![TopContext].ctxt = "parsed"]
  /\ stack' = Front(stack)
  /\ count' = count + 1
  /\ UNCHANGED <<parser, live, early>>

\* It is not, or could not be read at all: it is freed, and ParseError raised.
\* The context still points to it.  An exception in a callback leaves the parse
\* likewise; then nobody frees the document, and nobody gets at it any more.
ParseFails ==
  /\ stack # <<>>
  /\ live' = live \ {context[TopContext].doc}
  /\ context' = [context EXCEPT ![TopContext].ctxt = "failed"]
  /\ stack' = Front(stack)
  /\ UNCHANGED <<parser, document, held, count, early>>

(***************************************************************************)
(* Documents                                                               *)
(***************************************************************************)
\* XML::Document.new
DocumentInitialize ==
  /\ count < MaxCount /\ count' = count + 1
  /\ \E w \in New(document), d \in Doc \ live :
       /\ document' = [document EXCEPT ![w] = [doc |-> d, owns |-> TRUE]]
       /\ live' = live \cup {d}
       /\ held' = held \cup {w}
  /\ UNCHANGED <<parser, context, stack, early>>

OwnersOf(d) == {w \in Existing(document) : document[w] = [doc |-> d, owns |-> TRUE]}

\* An object that does not own the document, document_new4: context.doc
ContextDocGet(c) ==
  /\ c \in held /\ c \in Existing(context) /\ context[c].ctxt = "parsed"
  /\ OwnersOf(context[c].doc) \cap held # {}
  /\ \E w \in New(document) :
       /\ document' = [document EXCEPT ![w] = [doc |-> context[c].doc, owns |-> FALSE]]
       /\ held' = held \cup {w}
  /\ UNCHANGED <<parser, context, live, stack, count, early>>

\* node.doc, of a node of w: document_new counts the object, and then is_ptr is set.
NodeDoc(w) ==
  /\ w \in held /\ w \in Existing(document) /\ document[w].owns
  /\ count < MaxCount /\ count' = count + 1
  /\ \E other \in New(document) :
       /\ document' = [document EXCEPT ![other] = [doc |-> document[w].doc, owns |-> FALSE]]
       /\ held' = held \cup {other}
  /\ UNCHANGED <<parser, context, live, stack, early>>

(***************************************************************************)
(* The collector                                                           *)
(***************************************************************************)
ParserMarkNothing(p) == {}  \* mutant of ParserMark: the context is not marked
ParserMark(p) == {parser[p].ctxt} \ {Nil}

Reached ==
  LET roots == held \cup Range(stack)
  IN  roots \cup UNION {ParserMark(p) : p \in roots \cap Existing(parser)}

\* Contexts and documents of libxml2 that objects still are to use or to free
InUse(contexts, documents) ==
  \/ \E c \in contexts : context[c].ctxt # "null"
  \/ \E w \in documents : document[w].owns
  \/ stack # <<>>

CleansUp(contexts, documents) ==
  early' = (early \/ (count' = 0 /\ InUse(contexts, documents)))

ParserFree(p) ==
  /\ parser' = [parser EXCEPT ![p] = Nil]
  /\ count' = count - 1
  /\ CleansUp(Existing(context), Existing(document))
  /\ UNCHANGED <<context, document, live, held, stack>>

\* A context that could not be made is not counted off.
ContextFree(c) ==
  /\ context' = [context EXCEPT ![c] = Nil]
  /\ count' = IF context[c].ctxt # "null" THEN count - 1 ELSE count
  /\ CleansUp(Existing(context) \ {c}, Existing(document))
  /\ UNCHANGED <<parser, document, live, held, stack>>

DocumentFreeCounts(w) ==  \* mutant of DocumentFree: each object is counted off
  /\ document' = [document EXCEPT ![w] = Nil]
  /\ live' = IF document[w].owns THEN live \ {document[w].doc} ELSE live
  /\ count' = count - 1
  /\ CleansUp(Existing(context), Existing(document) \ {w})
  /\ UNCHANGED <<parser, context, held, stack>>

DocumentFreeAlways(w) ==  \* mutant of DocumentFree: is_ptr is not looked at
  /\ document' = [document EXCEPT ![w] = Nil]
  /\ live' = live \ {document[w].doc}
  /\ count' = IF document[w].owns THEN count - 1 ELSE count
  /\ CleansUp(Existing(context), Existing(document) \ {w})
  /\ UNCHANGED <<parser, context, held, stack>>

DocumentFree(w) ==
  /\ document' = [document EXCEPT ![w] = Nil]
  /\ live' = IF document[w].owns THEN live \ {document[w].doc} ELSE live
  /\ count' = IF document[w].owns THEN count - 1 ELSE count
  /\ CleansUp(Existing(context), Existing(document) \ {w})
  /\ UNCHANGED <<parser, context, held, stack>>

Collect ==
  \/ \E p \in Existing(parser) \ Reached : ParserFree(p)
  \/ \E c \in Existing(context) \ Reached : ContextFree(c)
  \/ \E w \in Existing(document) \ Reached : DocumentFree(w)

\* The program lets go of an object; the owner of a document is the last.
Drop(o) ==
  /\ o \in held
  /\ o \in Document /\ document[o].owns =>
       \A w \in (held \cap Document) \ {o} : document[w].doc # document[o].doc
  /\ held' = held \ {o}
  /\ UNCHANGED <<parser, context, document, live, stack, count, early>>

Init ==
  /\ parser = [p \in Parser |-> Nil]
  /\ context = [c \in Context |-> Nil]
  /\ document = [w \in Document |-> Nil]
  /\ live = {} /\ held = {} /\ stack = <<>> /\ count = 0 /\ early = FALSE

Next ==
  \/ ParserNew \/ ParseSucceeds \/ ParseFails \/ DocumentInitialize \/ Collect
  \/ \E p \in Parser :
       FilenameSet(p) \/ StrSet(p) \/ ParserContextGet(p) \/ ParseBegins(p)
  \/ \E c \in Context : ContextDocGet(c)
  \/ \E w \in Document : NodeDoc(w)
  \/ \E o \in Parser \cup Context \cup Document : Drop(o)

Spec == Init /\ [][Next]_vars

\* The contexts that could be made, and the objects that own a document
Made   == {c \in Existing(context) : context[c].ctxt # "null"}
Owning == {w \in Existing(document) : document[w].owns}

(***************************************************************************)
(* Properties                                                              *)
(***************************************************************************)
\* Types of the variables; the parses that go on are of parsers that exist.
TypeOK ==
  /\ parser \in [Parser -> ParserState \cup {Nil}]
  /\ context \in [Context -> ContextState \cup {Nil}]
  /\ document \in [Document -> DocumentState \cup {Nil}]
  /\ live \subseteq Doc
  /\ held \subseteq Existing(parser) \cup Existing(context) \cup Existing(document)
  /\ stack \in Seq(Existing(parser))
  /\ count \in Nat /\ early \in BOOLEAN

\* xmlCleanupParser is not called while an object has a context or a document
\* still to use or to free, in whatever order the objects are freed, and with
\* all the ways by which an object is counted that is not counted off.
CleanedUpLast ==
  /\ ~early
  /\ count >= Cardinality(Existing(parser)) + Cardinality(Made) + Cardinality(Owning)

\* A document has one owner, or is being parsed, and each object that the
\* program holds for a document leads to one that is there.
DocumentsOwned ==
  /\ \A w \in Existing(document) : document[w].owns \/ w \in held => document[w].doc \in live
  /\ \A d \in live :
       Cardinality(OwnersOf(d)) +
       Cardinality({i \in DOMAIN stack : context[parser[stack[i]].ctxt].doc = d}) = 1

\* The collector may come in the middle of a parse, of parses in it, or between
\* the setting of a source and the parse: a parser that the program can use has
\* the context that was made for it still, and a parse that goes on has a context
\* that could be made and a document.  Only the parser's mark function sees to it.
ContextsKept ==
  /\ \A p \in held \cap Parser : parser[p].ctxt \in Existing(context) \cup {Nil}
  /\ \A p \in Range(stack) :
       parser[p].ctxt \in Made /\ context[parser[p].ctxt].doc \in Doc
=============================================================================
