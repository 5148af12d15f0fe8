------------------------------ MODULE XmlInputs ------------------------------
(***************************************************************************)
(* XML::InputCallbacks and XML::SaxParser (ruby_xml_input_cbg.c,           *)
(* ruby_xml_sax_parser.c): the schemes for which a class of the program    *)
(* answers, the contexts from which libxml2 reads the answers, and the     *)
(* handlers that a parse calls.                                            *)
(*                                                                         *)
(* Both call back into the program in the middle of a parse: a class is    *)
(* asked for a document, a handler is told of an event.  The program may   *)
(* then do what it may do at any time: change the schemes and the          *)
(* handlers, parse again, or raise an exception, which leaves the parse    *)
(* without a word to libxml2.  So parses form a stack, and the program     *)
(* runs when the stack is empty or its top is in a callback.               *)
(*                                                                         *)
(* Names and files are not spelt out: Begins and Takes say what the        *)
(* comparisons of prefixes come to.  The program is taken to choose its    *)
(* schemes so that no two of them begin a file or each other.  It keeps    *)
(* the filename, the string and the handler of external subsets of a SAX   *)
(* parser itself, since the parser does not mark them for the collector.   *)
(***************************************************************************)
EXTENDS Naturals, Sequences, FiniteSets, SequencesExt

CONSTANTS
  Name,    \* schemes
  File,    \* names of files
  Begins,  \* of a scheme, the files whose names begin with it in any case
  Takes,   \* of a string for remove_scheme, the schemes that it begins with
  Class,   \* classes of the program that answer document_query
  Answer,  \* what they answer, and its length
  Length,
  Sax,     \* XML::SaxParser objects
  Event,   \* the kinds of events, by the name of their handler
  Proc,    \* blocks
  Nil,
  MaxSchemes, MaxDepth, \* bounds: of the list of schemes and of the stack
  MaxRead               \* the length that libxml2 asks for at a time

ASSUME InputsAssumption ==
  /\ Begins \in [Name -> SUBSET File]
  /\ \A m, n \in Name : Takes[m] = {m} /\ (m # n => Begins[m] \cap Begins[n] = {})
  /\ Length \in [Answer -> Nat]
  /\ Nil \notin Class \cup File \cup Proc \cup Answer
  /\ MaxSchemes \in Nat /\ MaxDepth \in Nat /\ MaxRead \in Nat

VARIABLES
  registered, \* has XML::InputCallbacks.register been called?
  schemes,    \* the list from first_scheme
  sax,        \* of each SAX parser its filename, whether it has a string, its handlers
  alive,      \* the blocks that exist
  kept,       \* the blocks that the program refers to
  stack       \* the parses, innermost last

vars == <<registered, schemes, sax, alive, kept, stack>>

\* A parse: the parser, what it is doing, the class asked for its document, if
\* any, the context the document is read from, and what libxml2 got of it.
Parse == [sax : Sax, at : {"query", "read", "handler"}, class : Class \cup {Nil},
          answer : Answer \cup {Nil}, bpos : Nat, remaining : Nat,
          got : Seq(Answer \X Nat)]

Top == Last(stack)

SetTop(parse) == stack' = [stack EXCEPT ![Len(stack)] = parse]

\* The program runs.
ProgramRuns == stack # <<>> => Top.at \in {"query", "handler"}

(***************************************************************************)
(* XML::InputCallbacks                                                     *)
(***************************************************************************)
\* XML::InputCallbacks.register
RegisterInputCallbacks ==
  /\ ProgramRuns
  /\ registered' = TRUE
  /\ UNCHANGED <<schemes, sax, alive, kept, stack>>

\* add_scheme: at the end of the list
AddSchemeFirst(name, class) ==  \* mutant of AddScheme: at its head
  /\ ProgramRuns
  /\ Len(schemes) < MaxSchemes
  /\ schemes' = <<[name |-> name, class |-> class]>> \o schemes
  /\ UNCHANGED <<registered, sax, alive, kept, stack>>

AddScheme(name, class) ==
  /\ ProgramRuns
  /\ Len(schemes) < MaxSchemes
  /\ schemes' = Append(schemes, [name |-> name, class |-> class])
  /\ UNCHANGED <<registered, sax, alive, kept, stack>>

\* remove_scheme: the first scheme that the string begins with
RemoveScheme(string) ==
  /\ ProgramRuns
  /\ \E i \in DOMAIN schemes :
       /\ schemes[i].name \in Takes[string]
       /\ \A j \in 1..(i - 1) : schemes[j].name \notin Takes[string]
       /\ schemes' = RemoveAt(schemes, i)
  /\ UNCHANGED <<registered, sax, alive, kept, stack>>

Matching(file) == {i \in DOMAIN schemes : file \in Begins[schemes[i].name]}

IcMatch(file) == Matching(file) # {}

\* The class that ic_open asks, if any: that of the first scheme that matches.
IcOpen(file) ==
  {schemes[i].class : i \in {k \in Matching(file) : \A j \in Matching(file) : k <= j}}

\* ic_open goes on when the class has answered, with a copy of the answer.
Answered(answer) ==
  /\ stack # <<>> /\ Top.at = "query"
  /\ SetTop([Top EXCEPT !.at = "read", !.answer = answer, !.bpos = 0,
                        !.remaining = Length[answer]])
  /\ UNCHANGED <<registered, schemes, sax, alive, kept>>

\* ic_read, asked for len characters
IcReadAgain(len) ==  \* mutant of IcRead: bpos is not moved
  /\ stack # <<>> /\ Top.at = "read" /\ Top.answer # Nil
  /\ LET ret_len == IF len >= Top.remaining THEN Top.remaining ELSE len
     IN  SetTop([Top EXCEPT !.remaining = @ - ret_len,
                            !.got = @ \o [i \in 1..ret_len |-> <<Top.answer, Top.bpos + i>>]])
  /\ UNCHANGED <<registered, schemes, sax, alive, kept>>

IcRead(len) ==
  /\ stack # <<>> /\ Top.at = "read" /\ Top.answer # Nil
  /\ LET ret_len == IF len >= Top.remaining THEN Top.remaining ELSE len
     IN  SetTop([Top EXCEPT !.remaining = @ - ret_len,
                            !.bpos = @ + ret_len,
                            !.got = @ \o [i \in 1..ret_len |-> <<Top.answer, Top.bpos + i>>]])
  /\ UNCHANGED <<registered, schemes, sax, alive, kept>>

\* ic_close: the parse ends, at the end of the document or at an error.
IcClose ==
  /\ stack # <<>> /\ Top.at = "read"
  /\ stack' = Front(stack)
  /\ UNCHANGED <<registered, schemes, sax, alive, kept>>

(***************************************************************************)
(* XML::SaxParser                                                          *)
(***************************************************************************)
\* sax.filename = string, sax.string = string
SaxFilenameSet(s, file) ==
  /\ ProgramRuns
  /\ sax' = [sax EXCEPT ![s].filename = file]
  /\ UNCHANGED <<registered, schemes, alive, kept, stack>>

SaxStrSet(s) ==
  /\ ProgramRuns
  /\ sax' = [sax EXCEPT ![s].str = TRUE]
  /\ UNCHANGED <<registered, schemes, alive, kept, stack>>

\* sax.on_...: a block, or none
SetHandler(s, event, proc) ==
  /\ ProgramRuns
  /\ proc \in kept \cup {Nil}
  /\ sax' = [sax EXCEPT ![s].handlers[event] = proc]
  /\ UNCHANGED <<registered, schemes, alive, kept, stack>>

\* sax.parse: the filename comes before the string, which is opened with no
\* callback; without both nothing is parsed.
SaxParse(s) ==
  LET file == sax[s].filename
      Push(at, class) ==
        stack' = Append(stack, [sax |-> s, at |-> at, class |-> class, answer |-> Nil,
                                bpos |-> 0, remaining |-> 0, got |-> <<>>])
  IN  /\ ProgramRuns
      /\ Len(stack) < MaxDepth
      /\ \/ /\ file # Nil /\ registered /\ IcMatch(file)
            /\ \E class \in IcOpen(file) : Push("query", class)
         \/ /\ file # Nil /\ ~(registered /\ IcMatch(file))
            /\ Push("read", Nil)
         \/ /\ file = Nil /\ sax[s].str
            /\ Push("read", Nil)
      /\ UNCHANGED <<registered, schemes, sax, alive, kept>>

\* An event of a parse: the handler of the moment is called, if there is one.
Happens(event) ==
  /\ stack # <<>> /\ Top.at = "read"
  /\ sax[Top.sax].handlers[event] # Nil
  /\ SetTop([Top EXCEPT !.at = "handler"])
  /\ UNCHANGED <<registered, schemes, sax, alive, kept>>

HandlerReturns ==
  /\ stack # <<>> /\ Top.at = "handler"
  /\ SetTop([Top EXCEPT !.at = "read"])
  /\ UNCHANGED <<registered, schemes, sax, alive, kept>>

\* An exception in a callback leaves the parse, and its context is never freed.
CallbackRaises ==
  /\ stack # <<>> /\ Top.at \in {"query", "handler"}
  /\ stack' = Front(stack)
  /\ UNCHANGED <<registered, schemes, sax, alive, kept>>

(***************************************************************************)
(* The program's blocks and the collector                                  *)
(***************************************************************************)
BlockMade(proc) ==
  /\ ProgramRuns
  /\ proc \notin alive
  /\ alive' = alive \cup {proc} /\ kept' = kept \cup {proc}
  /\ UNCHANGED <<registered, schemes, sax, stack>>

\* The blocks that the mark function of a SAX parser marks.
SaxMarkNoComment(s) ==  \* mutant of SaxMark: the handler of comments forgotten
  {sax[s].handlers[e] : e \in Event \ {"externalSubset", "comment"}}

SaxMark(s) == {sax[s].handlers[e] : e \in Event \ {"externalSubset"}}

\* What only the program keeps alive
Unmarked(s) == {sax[s].handlers[e] : e \in Event \cap {"externalSubset"}}

BlockDropped(proc) ==
  /\ ProgramRuns
  /\ proc \in kept
  /\ \A s \in Sax : proc \notin Unmarked(s)
  /\ kept' = kept \ {proc}
  /\ UNCHANGED <<registered, schemes, sax, alive, stack>>

Collect ==
  /\ alive' = alive \cap (kept \cup UNION {SaxMark(s) : s \in Sax})
  /\ alive' # alive
  /\ UNCHANGED <<registered, schemes, sax, kept, stack>>

Init ==
  /\ registered = FALSE
  /\ schemes = <<>>
  /\ sax = [s \in Sax |-> [filename |-> Nil, str |-> FALSE,
                           handlers |-> [e \in Event |-> Nil]]]
  /\ alive = {} /\ kept = {}
  /\ stack = <<>>

Next ==
  \/ RegisterInputCallbacks \/ IcClose \/ HandlerReturns \/ CallbackRaises \/ Collect
  \/ \E name \in Name : RemoveScheme(name) \/ \E class \in Class : AddScheme(name, class)
  \/ \E answer \in Answer : Answered(answer)
  \/ \E len \in 1..MaxRead : IcRead(len)
  \/ \E event \in Event : Happens(event)
  \/ \E proc \in Proc : BlockMade(proc) \/ BlockDropped(proc)
  \/ \E s \in Sax :
       \/ SaxStrSet(s) \/ SaxParse(s)
       \/ \E file \in File : SaxFilenameSet(s, file)
       \/ \E event \in Event, proc \in Proc \cup {Nil} : SetHandler(s, event, proc)

Spec == Init /\ [][Next]_vars

(***************************************************************************)
(* Properties                                                              *)
(***************************************************************************)
\* Types of the variables.
TypeOK ==
  /\ registered \in BOOLEAN
  /\ schemes \in Seq([name : Name, class : Class])
  /\ sax \in [Sax -> [filename : File \cup {Nil}, str : BOOLEAN,
                      handlers : [Event -> Proc \cup {Nil}]]]
  /\ kept \subseteq alive /\ alive \subseteq Proc
  /\ stack \in Seq(Parse)

\* The list of schemes that all share is a queue for each of them, whatever the
\* callbacks change while a parse is between its steps.
Places(name) == {i \in DOMAIN schemes : schemes[i].name = name}

InOrder(places) ==
  CHOOSE f \in [1..Cardinality(places) -> places] :
    Range(f) = places /\ \A j, k \in DOMAIN f : j < k => f[j] < f[k]

Queue(name) ==
  LET place == InOrder(Places(name))
  IN  [k \in DOMAIN place |-> schemes[place[k]].class]

Registry == INSTANCE XmlSchemes WITH
  queue <- [name \in Name |-> Queue(name)],
  asked <- [i \in DOMAIN stack |-> stack[i].class]

ImplementsRegistry == Registry!Spec

\* Each parse gets the answer to its own question, from the beginning, nothing
\* twice and nothing left out, however parses are nested and cut short.
Served(parse) ==
  parse.answer # Nil =>
    /\ parse.got = [k \in 1..Len(parse.got) |-> <<parse.answer, k>>]
    /\ Len(parse.got) + parse.remaining = Length[parse.answer]

ServedInOrder == \A i \in DOMAIN stack : Served(stack[i])

\* A handler that an event would be told to has not been collected.
HandlersAlive ==
  \A s \in Sax : \A e \in Event : sax[s].handlers[e] \in alive \cup {Nil}
=============================================================================
