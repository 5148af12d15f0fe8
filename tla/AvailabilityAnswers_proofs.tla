----------------------- MODULE AvailabilityAnswers_proofs -----------------------
(***************************************************************************)
(* Proofs about the answers of Availability: that a yes and a no of        *)
(* has_header?, has_library? and has_function? mean what they say, that    *)
(* macros and headers belong together, and that all of it implements       *)
(* AvailabilityContract.                                                   *)
(*                                                                         *)
(* The argument follows one request.  The compiler's verdict is about      *)
(* lists that do not change until it is used (Believed); what the probe    *)
(* needs is on them (Pushed); when a second probe runs, the first had no   *)
(* reason but its own to fail (Refused, Vain).                             *)
(***************************************************************************)
EXTENDS AvailabilityScopes_proofs

-----------------------------------------------------------------------------
(* The course of a request                                                 *)

Probing == pc \notin {"idle", "start"}

\* A request that is in progress has no answer.
Unanswered == pc # "idle" => ret = "none"

\* What can_link? returned is the exit status of the command line that the lists
\* still give: nobody changes a list between the compiler's run and the use of
\* its verdict.  (With $debug a success is not reported.)
Believed ==
  /\ linked => pc \in {"ensure", "probed"} /\ ProbeLinks
  /\ pc \in {"ensure", "probed"} /\ ProbeLinks => linked \/ Debug

\* What the running probe is to try is on the lists.
Pushed ==
  Probing =>
    /\ call.op = "header" => /\ call.arg \in ToSet(attr["headers"])
                             /\ ProbeDirs(at) \subseteq ToSet(attr["includes"])
    /\ call.op = "library" => call.arg \in ToSet(attr["loaded_libs"])

\* Would this form of probe for the requested function link now?
FunctionLinks(form) ==
  CanLink(form, call.fn, attr["headers"], ToSet(attr["includes"]),
          ToSet(attr["loaded_libs"]), libraryPaths)

\* simple_reference is tried with the lists that simple_call has failed with.
Refused ==
  call.op \in {"library", "function"} /\ at # 0 => Debug \/ ~FunctionLinks("call")

\* The lists without what the running probe has pushed, and whether they are
\* usable.
Base(a) == ToSet(attr[a]) \ InFlight(a)

Usable ==
  /\ \A h \in Base("headers") : Found(h, Base("includes"))
  /\ \A l \in Base("loaded_libs") : Linkable(l, libraryPaths)

\* Where the lists are usable, the probes that came before this one have failed
\* because the header is neither in the search path nor where they looked.
Vain ==
  Probing /\ call.op = "header" /\ Usable =>
    \A j \in 0 .. at - 1 : Debug \/ ~Found(call.arg, Base("includes") \cup ProbeDirs(j))

\* A step begins, ends or interrupts a request, stays outside of one, or is one
\* of the steps of its probes.
LEMMA CourseOfRequest ==
  ASSUME TypeOK, [Next]_vars
  PROVE  \/ pc' \in {"idle", "start"} /\ linked' = FALSE /\ at' = 0
         \/ TryHeader \/ TryLibrary \/ TryFunction \/ TryNextPath \/ TryReference
         \/ CreateSource \/ Link \/ RemoveTempFiles
         \/ UNCHANGED vars
<1>1. CASE Client
  BY <1>1 DEF Client, CallHeader, CallLibrary, CallFunction, Start, OpenBlock, CloseBlock,
     AbandonBlocks, TypeOK
<1>2. CASE HeaderAlreadyLoaded \/ LibraryAlreadyLoaded \/ HeaderFound \/ HeaderNotFound
           \/ FunctionAnswered \/ LibraryAnswered
  BY <1>2 DEF HeaderAlreadyLoaded, LibraryAlreadyLoaded, HeaderFound, HeaderNotFound,
     FunctionAnswered, LibraryAnswered, ReturnHeader, Return
<1>3. CASE Raise
  BY <1>3 DEF Raise
<1> QED
  BY <1>1, <1>2, <1>3 DEF Next, Step

LEMMA UnansweredStep ==
  ASSUME TypeOK, Unanswered, [Next]_vars
  PROVE  Unanswered'
<1>1. CASE Client \/ Raise
  BY <1>1 DEF Unanswered, Client, CallHeader, CallLibrary, CallFunction, Start, OpenBlock,
     CloseBlock, AbandonBlocks, Raise
<1>2. CASE HeaderAlreadyLoaded \/ LibraryAlreadyLoaded \/ HeaderFound \/ HeaderNotFound
           \/ FunctionAnswered \/ LibraryAnswered
  BY <1>2 DEF Unanswered, HeaderAlreadyLoaded, LibraryAlreadyLoaded, HeaderFound,
     HeaderNotFound, FunctionAnswered, LibraryAnswered, ReturnHeader, Return
<1>3. CASE TryHeader \/ TryLibrary \/ TryFunction \/ TryNextPath \/ TryReference
           \/ CreateSource \/ Link \/ RemoveTempFiles
  BY <1>3 DEF Unanswered, TryHeader, TryLibrary, TryFunction, TryNextPath, TryReference,
     CreateSource, Link, RemoveTempFiles
<1>4. CASE UNCHANGED vars
  BY <1>4 DEF Unanswered, vars
<1> QED
  BY <1>1, <1>2, <1>3, <1>4 DEF Next, Step

\* The command line depends on the lists and the probe alone.
LEMMA SameProbe ==
  ASSUME UNCHANGED <<attr, libraryPaths, call>>
  PROVE  /\ \A form : FunctionLinks(form)' = FunctionLinks(form)
         /\ at' = at => ProbeLinks' = ProbeLinks
BY DEF FunctionLinks, ProbeLinks, ProbeForm, ProbeName

LEMMA BelievedStep ==
  ASSUME TypeOK, Believed, [Next]_vars
  PROVE  Believed'
<1>1. CASE pc' \in {"idle", "start"} /\ linked' = FALSE
  BY <1>1 DEF Believed
<1>2. CASE TryHeader \/ TryLibrary \/ TryFunction \/ TryNextPath \/ TryReference \/ CreateSource
  <2>1. pc' \in {"create", "link"} /\ linked' = FALSE
    BY <1>2 DEF TryHeader, TryLibrary, TryFunction, TryNextPath, TryReference, CreateSource,
       Believed
  <2> QED
    BY <2>1 DEF Believed
<1>3. CASE Link \/ RemoveTempFiles \/ UNCHANGED vars
  <2>1. ProbeLinks' = ProbeLinks
    BY <1>3, SameProbe DEF Link, RemoveTempFiles, vars
  <2>2. ProbeLinks \in BOOLEAN
    BY DEF ProbeLinks, CanLink
  <2>3. CASE Link
    BY <2>1, <2>2, <2>3, ClientAssumption DEF Link, Believed
  <2>4. CASE RemoveTempFiles
    BY <2>1, <2>4 DEF RemoveTempFiles, Believed
  <2>5. CASE UNCHANGED vars
    BY <2>1, <2>5 DEF vars, Believed
  <2> QED
    BY <1>3, <2>3, <2>4, <2>5
<1> QED
  BY <1>1, <1>2, <1>3, CourseOfRequest

\* The lists when a probe begins with the next search path.
LEMMA NextPathLists ==
  ASSUME TypeOK, TryNextPath
  PROVE  /\ ToSet(attr'["headers"]) = (ToSet(attr["headers"]) \ {call.arg}) \cup {call.arg}
         /\ ToSet(attr'["includes"]) = (ToSet(attr["includes"]) \ ProbeDirs(at)) \cup ProbeDirs(at)'
         /\ ToSet(attr'["loaded_libs"]) = ToSet(attr["loaded_libs"])
         /\ call' = call /\ call.op = "header" /\ call.arg \in Header
         /\ at \in Nat /\ at' = at + 1 /\ pc = "probed" /\ pc' = "create" /\ ~linked
         /\ libraryPaths' = libraryPaths
<1> DEFINE popped == PopProbe(attr, at)
<1>1. /\ pc = "probed" /\ pc' = "create" /\ ~linked
      /\ call' = call /\ call.op = "header" /\ call.arg \in Header
      /\ at' = at + 1 /\ at \in Nat /\ at < Len(call.paths)
      /\ attr' = PushProbe(popped, at + 1) /\ IsLists(attr)
      /\ libraryPaths' = libraryPaths
  BY DEF TryNextPath, TypeOK
<1>2. call.paths[at + 1] \in Dir
  <2>1. call.paths \in Seq(Dir) /\ Len(call.paths) \in Nat
    BY LenProperties DEF TypeOK, Request
  <2> QED
    BY <1>1, <2>1, ElementOfSeq
<1>3. /\ IsLists(popped)
      /\ ToSet(popped["headers"]) = ToSet(attr["headers"]) \ {call.arg}
      /\ ToSet(popped["includes"]) = ToSet(attr["includes"]) \ ProbeDirs(at)
      /\ popped["loaded_libs"] = attr["loaded_libs"]
  BY <1>1, PopProbeProperties
<1> HIDE DEF popped
<1>4. /\ ToSet(attr'["headers"]) = ToSet(popped["headers"]) \cup {call.arg}
      /\ ToSet(attr'["includes"]) = ToSet(popped["includes"]) \cup ProbeDirs(at + 1)
      /\ attr'["loaded_libs"] = popped["loaded_libs"]
  <2>1. at + 1 \in Nat
    BY <1>1
  <2> QED
    BY <1>1, <1>2, <1>3, <2>1, PushProbeProperties
<1>5. ProbeDirs(at)' = ProbeDirs(at + 1)
  BY <1>1 DEF ProbeDirs
<1> QED
  BY <1>1, <1>3, <1>4, <1>5

LEMMA PushedStep ==
  ASSUME TypeOK, Pushed, [Next]_vars
  PROVE  Pushed'
<1> USE DEF Probing
<1>1. CASE pc' \in {"idle", "start"}
  BY <1>1 DEF Pushed
<1>2. CASE TryHeader
  <2>1. /\ attr' = PushProbe(attr, 0) /\ IsLists(attr)
        /\ call' = call /\ call.op = "header" /\ call.arg \in Header /\ at' = 0
    BY <1>2 DEF TryHeader, TypeOK
  <2>2. ToSet(PushProbe(attr, 0)["headers"]) = ToSet(attr["headers"]) \cup {call.arg}
    BY <2>1, PushProbeProperties
  <2>3. ProbeDirs(at)' = {}
    BY <2>1 DEF ProbeDirs
  <2> QED
    BY <2>1, <2>2, <2>3 DEF Pushed
<1>3. CASE TryNextPath
  BY <1>3, NextPathLists DEF Pushed
<1>4. CASE TryLibrary
  <2>1. /\ attr' = Push(attr, "loaded_libs", call.arg) /\ IsLists(attr)
        /\ call' = call /\ call.op = "library" /\ call.arg \in Lib
    BY <1>4 DEF TryLibrary, TypeOK
  <2> QED
    BY <2>1, PushLibrary DEF Pushed
<1>5. CASE TryFunction
  BY <1>5 DEF TryFunction, Pushed
<1>6. CASE TryReference \/ CreateSource \/ Link \/ RemoveTempFiles \/ UNCHANGED vars
  <2>1. UNCHANGED <<attr, call>> /\ (call.op = "header" => at' = at) /\ (Probing' => Probing)
    BY <1>6 DEF TryReference, CreateSource, Link, RemoveTempFiles, vars
  <2>2. call.op = "header" => ProbeDirs(at)' = ProbeDirs(at)
    BY <2>1 DEF ProbeDirs
  <2> QED
    BY <2>1, <2>2 DEF Pushed
<1> QED
  BY <1>1, <1>2, <1>3, <1>4, <1>5, <1>6, CourseOfRequest

LEMMA RefusedStep ==
  ASSUME TypeOK, Believed, Refused, [Next]_vars
  PROVE  Refused'
<1>1. CASE at' = 0
  BY <1>1 DEF Refused
<1>2. CASE TryHeader \/ TryNextPath
  BY <1>2 DEF TryHeader, TryNextPath, Refused
<1>3. CASE TryLibrary \/ TryFunction
  BY <1>1, <1>3 DEF TryLibrary, TryFunction, TypeOK
<1>4. CASE TryReference
  <2>1. UNCHANGED <<attr, libraryPaths, call>> /\ pc = "probed" /\ ~linked /\ at = 0
        /\ call.op \in {"library", "function"}
    BY <1>4 DEF TryReference
  <2>2. ProbeLinks = FunctionLinks("call")
    BY <2>1 DEF ProbeLinks, FunctionLinks, ProbeForm, ProbeName
  <2>3. FunctionLinks("call")' = FunctionLinks("call")
    BY <2>1, SameProbe
  <2> QED
    BY <2>1, <2>2, <2>3 DEF Believed, Refused
<1>5. CASE CreateSource \/ Link \/ RemoveTempFiles \/ UNCHANGED vars
  <2>1. UNCHANGED <<attr, libraryPaths, call, at>>
    BY <1>5 DEF CreateSource, Link, RemoveTempFiles, vars
  <2>2. FunctionLinks("call")' = FunctionLinks("call")
    BY <2>1, SameProbe
  <2> QED
    BY <2>1, <2>2 DEF Refused
<1> QED
  BY <1>1, <1>2, <1>3, <1>4, <1>5, CourseOfRequest

\* The one header the preprocessor obeys is on the list.
LEMMA IncludedListed ==
  ASSUME NEW S, NEW s \in Seq(S)
  PROVE  Included(s) \subseteq ToSet(s)
<1>1. s # << >> => 1 \in DOMAIN s
  BY EmptySeq, LenProperties
<1> QED
  BY <1>1 DEF Included, ToSet

\* Where the lists are usable, a header probe fails because the header is neither
\* in the search path nor in the directory that is tried.
LEMMA HeaderProbeFails ==
  ASSUME TypeOK, Believed, Pushed, Usable, pc = "probed", call.op = "header", ~linked
  PROVE  Debug \/ ~Found(call.arg, Base("includes") \cup ProbeDirs(at))
<1> SUFFICES ASSUME Found(call.arg, Base("includes") \cup ProbeDirs(at))
             PROVE  Debug
  OBVIOUS
<1>1. /\ Base("headers") = ToSet(attr["headers"]) \ {call.arg}
      /\ Base("includes") = ToSet(attr["includes"]) \ ProbeDirs(at)
      /\ Base("loaded_libs") = ToSet(attr["loaded_libs"])
  BY HeaderInFlight DEF Base
<1>2. ToSet(attr["includes"]) = Base("includes") \cup ProbeDirs(at)
  BY <1>1 DEF Pushed, Probing
<1>3. \A h \in ToSet(attr["headers"]) : Found(h, ToSet(attr["includes"]))
  BY <1>1, <1>2, SearchMonotonic DEF Usable
<1>4. Included(attr["headers"]) \subseteq ToSet(attr["headers"])
  <2>1. attr["headers"] \in Seq(Item)
    BY ThreeLists DEF TypeOK, IsLists
  <2> QED
    BY <2>1, IncludedListed
<1>5. \A l \in ToSet(attr["loaded_libs"]) : Linkable(l, libraryPaths)
  BY <1>1 DEF Usable
<1>6. ProbeForm = "include" /\ ProbeName = call.arg
  BY DEF ProbeForm, ProbeName
<1>7. Compiles("include", call.arg, attr["headers"], ToSet(attr["includes"]))
  BY <1>2, <1>3, <1>4 DEF Compiles
<1>8. ProbeLinks
  BY <1>5, <1>6, <1>7 DEF ProbeLinks, CanLink
<1> QED
  BY <1>8 DEF Believed

LEMMA VainStep ==
  ASSUME TypeOK, Believed, Pushed, Vain, [Next]_vars
  PROVE  Vain'
<1> USE DEF Probing
<1>1. CASE pc' \in {"idle", "start"}
  BY <1>1 DEF Vain
<1>2. CASE TryHeader
  <2>1. 0 .. at' - 1 = {}
    BY <1>2 DEF TryHeader, TypeOK
  <2> QED
    BY <2>1 DEF Vain
<1>3. CASE TryNextPath
  <2>1. /\ call' = call /\ call.op = "header" /\ at' = at + 1 /\ at \in Nat
        /\ pc = "probed" /\ pc' = "create" /\ ~linked /\ libraryPaths' = libraryPaths
    BY <1>3, NextPathLists
  <2>2. /\ Base("headers") = ToSet(attr["headers"]) \ {call.arg}
        /\ Base("includes") = ToSet(attr["includes"]) \ ProbeDirs(at)
        /\ Base("loaded_libs") = ToSet(attr["loaded_libs"])
    BY <2>1, HeaderInFlight DEF Base
  <2>3. /\ InFlight("headers")' = {call.arg}
        /\ InFlight("loaded_libs")' = {}
        /\ InFlight("includes")' = ProbeDirs(at)'
    BY <2>1 DEF InFlight, ProbeDirs
  <2>4. /\ Base("headers")' = Base("headers")
        /\ Base("includes")' \subseteq Base("includes")
        /\ Base("loaded_libs")' = Base("loaded_libs")
    <3>1. /\ ToSet(attr["headers"])' = (ToSet(attr["headers"]) \ {call.arg}) \cup {call.arg}
          /\ ToSet(attr["includes"])' = (ToSet(attr["includes"]) \ ProbeDirs(at)) \cup ProbeDirs(at)'
          /\ ToSet(attr["loaded_libs"])' = ToSet(attr["loaded_libs"])
      BY <1>3, NextPathLists
    <3> QED
      BY <2>2, <2>3, <3>1 DEF Base
  <2>5. \A j : ProbeDirs(j)' = ProbeDirs(j)
    BY <2>1 DEF ProbeDirs
  <2>6. Usable' => Usable
    BY <2>1, <2>4, SearchMonotonic DEF Usable
  <2>7. ASSUME Usable', NEW j \in 0 .. at, ~Debug
        PROVE  ~Found(call.arg, Base("includes")' \cup ProbeDirs(j))
    <3>1. ~Found(call.arg, Base("includes") \cup ProbeDirs(j))
      <4>1. CASE j = at
        BY <2>1, <2>6, <2>7, <4>1, HeaderProbeFails
      <4>2. CASE j \in 0 .. at - 1
        BY <2>1, <2>6, <2>7, <4>2 DEF Vain
      <4> QED
        BY <2>1, <4>1, <4>2
    <3>2. Base("includes")' \cup ProbeDirs(j) \subseteq Base("includes") \cup ProbeDirs(j)
      BY <2>4
    <3> QED
      BY <3>1, <3>2, SearchMonotonic
  <2>8. 0 .. at' - 1 = 0 .. at
    BY <2>1
  <2> QED
    BY <2>1, <2>5, <2>7, <2>8 DEF Vain
<1>4. CASE TryLibrary \/ TryFunction \/ TryReference
  BY <1>4 DEF TryLibrary, TryFunction, TryReference, Vain
<1>5. CASE CreateSource \/ Link \/ RemoveTempFiles \/ UNCHANGED vars
  <2>1. UNCHANGED <<attr, libraryPaths, call, at>> /\ (Probing' <=> Probing)
    BY <1>5 DEF CreateSource, Link, RemoveTempFiles, vars
  <2>2. \A a \in Attribute : Probing => Base(a)' = Base(a)
    BY <2>1, ThreeLists DEF Base, InFlight
  <2>3. \A j : ProbeDirs(j)' = ProbeDirs(j)
    BY <2>1 DEF ProbeDirs
  <2> QED
    BY <2>1, <2>2, <2>3, ThreeLists DEF Vain, Usable
<1> QED
  BY <1>1, <1>2, <1>3, <1>4, <1>5, CourseOfRequest

Course == Unanswered /\ Believed /\ Pushed /\ Refused /\ Vain

LEMMA CourseStep ==
  ASSUME TypeOK, Course, [Next]_vars
  PROVE  Course'
BY UnansweredStep, BelievedStep, PushedStep, RefusedStep, VainStep DEF Course

LEMMA CourseInit == Init => Course
BY DEF Init, Course, Unanswered, Believed, Pushed, Refused, Vain, Probing

-----------------------------------------------------------------------------
(* Answers                                                                 *)

\* An answer is there because it has been given just now, or nothing happens.
LEMMA AnswersAreGiven ==
  ASSUME Unanswered, [Next]_vars, ret' \in {"true", "false"}
  PROVE  \/ HeaderAlreadyLoaded \/ HeaderFound \/ HeaderNotFound
         \/ LibraryAlreadyLoaded \/ LibraryAnswered \/ FunctionAnswered
         \/ UNCHANGED vars
<1>1. ~(Client \/ Raise)
  BY DEF Client, CallHeader, CallLibrary, CallFunction, Start, OpenBlock, CloseBlock,
     AbandonBlocks, Raise
<1>2. ~(TryHeader \/ TryLibrary \/ TryFunction \/ TryNextPath \/ TryReference
          \/ CreateSource \/ Link \/ RemoveTempFiles)
  BY DEF Unanswered, TryHeader, TryLibrary, TryFunction, TryNextPath, TryReference,
     CreateSource, Link, RemoveTempFiles
<1> QED
  BY <1>1, <1>2 DEF Next, Step

\* A probe for a function that has linked proves what a yes claims.
LEMMA FunctionLinked ==
  ASSUME TypeOK, Believed, linked, call.op \in {"library", "function"}
  PROVE  LibsLink /\ Defined(call.fn, ToSet(attr["loaded_libs"]), ToSet(attr["headers"]))
<1>1. /\ ProbeLinks
      /\ ProbeForm \in {"call", "reference"} /\ ProbeName = call.fn
  BY DEF Believed, ProbeForm, ProbeName
<1>2. Included(attr["headers"]) \subseteq ToSet(attr["headers"])
  <2>1. attr["headers"] \in Seq(Item)
    BY ThreeLists DEF TypeOK, IsLists
  <2> QED
    BY <2>1, IncludedListed
<1>3. Defined(call.fn, ToSet(attr["loaded_libs"]), Included(attr["headers"]))
  BY <1>1 DEF ProbeLinks, CanLink
<1>4. LibsLink
  BY <1>1 DEF ProbeLinks, CanLink, LibsLink
<1> QED
  BY <1>2, <1>3, <1>4 DEF Defined

\* Where headers and libraries are usable, and no function exists in headers
\* alone, one of the two probes for a function that is defined links: simple_call
\* where the function is not declared, simple_reference where it is.
LEMMA OneFormLinks ==
  ASSUME TypeOK, Inline = {}, Healthy,
         Defined(call.fn, ToSet(attr["loaded_libs"]), ToSet(attr["headers"]))
  PROVE  FunctionLinks("call") \/ FunctionLinks("reference")
<1> DEFINE included == Included(attr["headers"])
<1>1. included \subseteq ToSet(attr["headers"])
  <2>1. attr["headers"] \in Seq(Item)
    BY ThreeLists DEF TypeOK, IsLists
  <2> QED
    BY <2>1, IncludedListed
<1>2. \A h \in included : Found(h, ToSet(attr["includes"]))
  BY <1>1 DEF Healthy, HeadersFound
<1>3. \A l \in ToSet(attr["loaded_libs"]) : Linkable(l, libraryPaths)
  BY DEF Healthy, LibsLink
<1>4. Defined(call.fn, ToSet(attr["loaded_libs"]), included)
  BY DEF Defined
<1>5. CASE Declared(call.fn, included)
  <2>1. Compiles("reference", call.fn, attr["headers"], ToSet(attr["includes"]))
    BY <1>2, <1>5 DEF Compiles
  <2> QED
    BY <1>3, <1>4, <2>1 DEF FunctionLinks, CanLink
<1>6. CASE ~Declared(call.fn, included)
  <2>1. Compiles("call", call.fn, attr["headers"], ToSet(attr["includes"]))
    BY <1>2, <1>6 DEF Compiles
  <2> QED
    BY <1>3, <1>4, <2>1 DEF FunctionLinks, CanLink
<1> QED
  BY <1>5, <1>6

\* So a no, which follows two failures, is right as well.
LEMMA FunctionRefused ==
  ASSUME TypeOK, Course, Inline = {}, ~Debug, pc = "probed", ~linked, at = 1,
         call.op \in {"library", "function"}, Healthy
  PROVE  ~Defined(call.fn, ToSet(attr["loaded_libs"]), ToSet(attr["headers"]))
<1>1. ~FunctionLinks("call")
  BY DEF Course, Refused
<1>2. ~FunctionLinks("reference")
  <2>1. ProbeLinks = FunctionLinks("reference")
    BY DEF ProbeLinks, FunctionLinks, ProbeForm, ProbeName
  <2> QED
    BY <2>1 DEF Course, Believed
<1> QED
  BY <1>1, <1>2, OneFormLinks

LEMMA FunctionStep ==
  ASSUME TypeOK, Course, FunctionAnswered
  PROVE  /\ ret' \in {"true", "false"} /\ (ret' = "true" <=> linked)
         /\ UNCHANGED <<attr, libraryPaths, call>>
         /\ pc = "probed" /\ call.op = "function" /\ (linked \/ at = 1)
         /\ FunctionYes' /\ (Inline = {} /\ ~Debug => FunctionAnswer')
<1>1. /\ ret' \in {"true", "false"} /\ (ret' = "true" <=> linked)
      /\ UNCHANGED <<attr, libraryPaths, call>>
      /\ pc = "probed" /\ call.op = "function" /\ (linked \/ at = 1)
  BY DEF FunctionAnswered, Return
<1>2. linked => LibsLink /\ Defined(call.fn, ToSet(attr["loaded_libs"]), ToSet(attr["headers"]))
  BY <1>1, FunctionLinked DEF Course
<1>3. FunctionYes'
  BY <1>1, <1>2 DEF FunctionYes, LibsLink
<1>4. ASSUME Inline = {}, ~Debug
      PROVE  FunctionAnswer'
  <2>1. Healthy' <=> Healthy
    BY <1>1 DEF Healthy, HeadersFound, LibsLink
  <2>2. ~linked /\ Healthy =>
          ~Defined(call.fn, ToSet(attr["loaded_libs"]), ToSet(attr["headers"]))
    BY <1>1, <1>4, FunctionRefused
  <2> QED
    BY <1>1, <1>2, <2>1, <2>2 DEF FunctionAnswer
<1> QED
  BY <1>1, <1>3, <1>4

\* A yes of has_function? is true of every machine and every client, whatever
\* exceptions have left on the lists: every library on them links, and the function
\* is in one of them, in the C library or in a header.
THEOREM FunctionsAreThere == Spec => []FunctionYes
<1>1. Init => FunctionYes
  BY DEF Init, FunctionYes
<1>2. TypeOK /\ Course /\ FunctionYes /\ [Next]_vars => Course' /\ FunctionYes'
  <2> SUFFICES ASSUME TypeOK, Course, FunctionYes, [Next]_vars PROVE FunctionYes'
    BY CourseStep
  <2> SUFFICES ASSUME call'.op = "function", ret' = "true" PROVE FunctionYes'
    BY DEF FunctionYes
  <2>1. CASE FunctionAnswered
    BY <2>1, FunctionStep
  <2>2. CASE UNCHANGED vars
    BY <2>2 DEF FunctionYes, LibsLink, vars
  <2>3. ~(HeaderAlreadyLoaded \/ HeaderFound \/ HeaderNotFound \/ LibraryAlreadyLoaded
            \/ LibraryAnswered)
    BY DEF HeaderAlreadyLoaded, HeaderFound, HeaderNotFound, LibraryAlreadyLoaded,
       LibraryAnswered, ReturnHeader, Return
  <2> QED
    BY <2>1, <2>2, <2>3, AnswersAreGiven DEF Course
<1> QED
  BY <1>1, <1>2, CourseInit, TypeCorrect, PTL DEF Spec

\* Where the lists are usable, has_function? says yes if and only if the function
\* can be called.  Two conditions are the code's own: header_include_string joins
\* the #include lines so that the compiler obeys only the first, which would hide
\* a function that exists in headers alone; and with $debug no success is reported.
THEOREM FunctionAnswersAreRight ==
  ASSUME Inline = {}, ~Debug
  PROVE  Spec => []FunctionAnswer
<1>1. Init => FunctionAnswer
  BY DEF Init, FunctionAnswer
<1>2. TypeOK /\ Course /\ FunctionAnswer /\ [Next]_vars => Course' /\ FunctionAnswer'
  <2> SUFFICES ASSUME TypeOK, Course, FunctionAnswer, [Next]_vars PROVE FunctionAnswer'
    BY CourseStep
  <2> SUFFICES ASSUME call'.op = "function", ret' \in {"true", "false"}
               PROVE  FunctionAnswer'
    BY DEF FunctionAnswer
  <2>1. CASE FunctionAnswered
    BY <2>1, FunctionStep
  <2>2. CASE UNCHANGED vars
    BY <2>2 DEF FunctionAnswer, Healthy, HeadersFound, LibsLink, vars
  <2>3. ~(HeaderAlreadyLoaded \/ HeaderFound \/ HeaderNotFound \/ LibraryAlreadyLoaded
            \/ LibraryAnswered)
    BY DEF HeaderAlreadyLoaded, HeaderFound, HeaderNotFound, LibraryAlreadyLoaded,
       LibraryAnswered, ReturnHeader, Return
  <2> QED
    BY <2>1, <2>2, <2>3, AnswersAreGiven DEF Course
<1> QED
  BY <1>1, <1>2, CourseInit, TypeCorrect, PTL DEF Spec

\* A probe for a header that has linked has found it.
LEMMA HeaderLinked ==
  ASSUME TypeOK, Believed, linked, call.op = "header"
  PROVE  Found(call.arg, ToSet(attr["includes"]))
BY DEF Believed, ProbeLinks, CanLink, Compiles, ProbeForm, ProbeName

\* After the last probe has failed, the header is nowhere the client named.
LEMMA HeaderNowhere ==
  ASSUME TypeOK, Course, ~Debug, HeaderNotFound, Usable
  PROVE  ~Found(call.arg, Base("includes") \cup ToSet(call.paths))
<1>1. /\ pc = "probed" /\ call.op = "header" /\ ~linked /\ at = Len(call.paths)
      /\ at \in Nat /\ call.paths \in Seq(Dir)
  BY DEF HeaderNotFound, TypeOK, Request
<1>2. ASSUME NEW j \in 0 .. at
      PROVE  ~Found(call.arg, Base("includes") \cup ProbeDirs(j))
  <2>1. CASE j = at
    BY <1>1, <2>1, HeaderProbeFails DEF Course
  <2>2. CASE j \in 0 .. at - 1
    BY <1>1, <2>2 DEF Course, Vain, Probing
  <2> QED
    BY <1>1, <2>1, <2>2
<1>3. ~Found(call.arg, Base("includes"))
  <2>1. 0 \in 0 .. at /\ ProbeDirs(0) = {}
    BY <1>1 DEF ProbeDirs
  <2>2. ~Found(call.arg, Base("includes") \cup ProbeDirs(0))
    BY <1>2, <2>1
  <2>3. Base("includes") \cup ProbeDirs(0) = Base("includes")
    BY <2>1
  <2> QED
    BY <2>2, <2>3
<1>4. ASSUME NEW d \in ToSet(call.paths) PROVE d \notin HeaderDirs[call.arg]
  <2>1. PICK j \in 1 .. at : d = call.paths[j]
    BY <1>1, LenProperties DEF ToSet
  <2>2. j \in 0 .. at /\ ProbeDirs(j) = {d}
    BY <1>1, <2>1 DEF ProbeDirs
  <2>3. ~Found(call.arg, Base("includes") \cup ProbeDirs(j))
    BY <1>2, <2>2
  <2> QED
    BY <2>2, <2>3 DEF Found
<1> QED
  BY <1>3, <1>4 DEF Found

LEMMA HeaderStep ==
  ASSUME TypeOK, Course, ~Debug, HeaderAlreadyLoaded \/ HeaderFound \/ HeaderNotFound
  PROVE  HeaderAnswer'
<1>1. call' = call /\ libraryPaths' = libraryPaths
  BY DEF HeaderAlreadyLoaded, HeaderFound, HeaderNotFound, ReturnHeader, Return
<1>2. CASE HeaderAlreadyLoaded
  <2>1. /\ ret' = "true" /\ call.arg \in ToSet(attr["headers"]) /\ call.arg \in Header
        /\ attr' = IF call.keep THEN Push(attr, "headers", call.arg) ELSE attr
        /\ IsLists(attr)
    BY <1>2 DEF HeaderAlreadyLoaded, ReturnHeader, Return, TypeOK
  <2>2. call.arg \in ToSet(attr'["headers"])
    <3>1. "headers" \in Attribute /\ call.arg \in ItemsOf("headers")
      BY <2>1, ThreeLists
    <3>2. call.arg \in ToSet(Push(attr, "headers", call.arg)["headers"])
      BY <2>1, <3>1, PushProperties
    <3> QED
      BY <2>1, <3>2
  <2>3. Healthy' => Found(call.arg, ToSet(attr'["includes"]))
    BY <2>2 DEF Healthy, HeadersFound
  <2> QED
    BY <1>1, <2>1, <2>3, SearchMonotonic DEF HeaderAnswer
<1>3. CASE HeaderFound
  <2>1. ret' = "true" /\ linked /\ call.op = "header"
    BY <1>3 DEF HeaderFound, ReturnHeader, Return
  <2>2. Found(call.arg, ToSet(attr["includes"]))
    BY <2>1, HeaderLinked DEF Course
  <2>3. Found(call.arg, ToSet(attr'["includes"]))
    <3>1. ProbeDirs(at) \subseteq ToSet(attr["includes"])
      BY <1>3 DEF HeaderFound, Course, Pushed, Probing
    <3> QED
      BY <1>3, <2>2, <3>1, FoundLists
  <2> QED
    BY <1>1, <2>1, <2>3, SearchMonotonic DEF HeaderAnswer
<1>4. CASE HeaderNotFound
  <2>1. /\ ret' = "false" /\ pc = "probed" /\ call.op = "header"
        /\ attr' = PopProbe(attr, at) /\ IsLists(attr) /\ at \in Nat
    BY <1>4 DEF HeaderNotFound, Return, TypeOK
  <2>2. \A a \in Attribute : ToSet(attr'[a]) = Base(a)
    BY <2>1, ThreeLists, PopProbeProperties, HeaderInFlight DEF Base
  <2>3. Healthy' => Usable
    BY <1>1, <2>2, ThreeLists DEF Healthy, HeadersFound, LibsLink, Usable
  <2>4. Healthy' => ~Found(call.arg, ToSet(attr'["includes"]) \cup ToSet(call.paths))
    BY <1>4, <2>2, <2>3, ThreeLists, HeaderNowhere
  <2> QED
    BY <1>1, <2>1, <2>4 DEF HeaderAnswer
<1> QED
  BY <1>2, <1>3, <1>4

\* Where the lists are usable, has_header? and include_header say yes if and only
\* if the header is in the search path or in a directory passed along, for every
\* machine and every client, whatever exceptions have left on the lists.
THEOREM HeaderAnswersAreRight ==
  ASSUME ~Debug
  PROVE  Spec => []HeaderAnswer
<1>1. Init => HeaderAnswer
  BY DEF Init, HeaderAnswer
<1>2. TypeOK /\ Course /\ HeaderAnswer /\ [Next]_vars => Course' /\ HeaderAnswer'
  <2> SUFFICES ASSUME TypeOK, Course, HeaderAnswer, [Next]_vars PROVE HeaderAnswer'
    BY CourseStep
  <2> SUFFICES ASSUME call'.op = "header", ret' \in {"true", "false"}
               PROVE  HeaderAnswer'
    BY DEF HeaderAnswer
  <2>1. CASE HeaderAlreadyLoaded \/ HeaderFound \/ HeaderNotFound
    BY <2>1, HeaderStep
  <2>2. CASE UNCHANGED vars
    BY <2>2 DEF HeaderAnswer, Healthy, HeadersFound, LibsLink, vars
  <2>3. ~(LibraryAlreadyLoaded \/ LibraryAnswered \/ FunctionAnswered)
    BY DEF LibraryAlreadyLoaded, LibraryAnswered, FunctionAnswered, Return
  <2> QED
    BY <2>1, <2>2, <2>3, AnswersAreGiven DEF Course
<1> QED
  BY <1>1, <1>2, CourseInit, TypeCorrect, PTL DEF Spec

\* Of a client that asks has_library? without search paths: the paths that came
\* with the request, if any, are on @library_paths.
PathsRegistered == call.op = "library" => ToSet(call.paths) \subseteq libraryPaths

LEMMA PathsRegisteredStep ==
  ASSUME LibraryPathLists \subseteq {<< >>}, PathsRegistered, [Next]_vars
  PROVE  PathsRegistered'
<1>1. ToSet(<< >>) = {}
  BY DEF ToSet
<1>2. ASSUME NEW l \in Lib, NEW f \in Func, NEW paths \in PathLists,
             CallLibrary(TRUE, l, f, paths)
      PROVE  PathsRegistered'
  BY <1>2 DEF CallLibrary, Start, PathsRegistered
<1>3. ASSUME NEW l \in Lib, NEW f \in Func, NEW paths \in LibraryPathLists,
             CallLibrary(FALSE, l, f, paths)
      PROVE  PathsRegistered'
  BY <1>1, <1>3 DEF CallLibrary, Start, PathsRegistered
<1>4. ASSUME NEW keep \in BOOLEAN, NEW h \in Header, NEW paths \in PathLists,
             CallHeader(keep, h, paths)
      PROVE  PathsRegistered'
  BY <1>4 DEF CallHeader, Start, PathsRegistered
<1>5. ASSUME NEW f \in Func, CallFunction(f)
      PROVE  PathsRegistered'
  BY <1>5 DEF CallFunction, Start, PathsRegistered
<1>6. CASE UNCHANGED <<call, libraryPaths>>
  BY <1>6 DEF PathsRegistered
<1>7. CASE CloseBlock \/ AbandonBlocks \/ Raise \/ (\E a \in Attribute : \E x \in ItemsOf(a) : OpenBlock(a, x))
  BY <1>6, <1>7 DEF CloseBlock, AbandonBlocks, Raise, OpenBlock
<1>8. CASE Step \/ UNCHANGED vars
  BY <1>6, <1>8 DEF Step, vars, HeaderAlreadyLoaded, TryHeader, LibraryAlreadyLoaded,
     TryLibrary, TryFunction, CreateSource, Link, RemoveTempFiles, HeaderFound,
     TryNextPath, HeaderNotFound, TryReference, FunctionAnswered, LibraryAnswered,
     ReturnHeader, Return
<1> QED
  BY <1>2, <1>3, <1>4, <1>5, <1>7, <1>8 DEF Next, Client

\* The lists after LibraryAnswered.
LEMMA LibraryLists ==
  ASSUME TypeOK, Pushed, LibraryAnswered
  PROVE  /\ ToSet(attr'["loaded_libs"]) = (ToSet(attr["loaded_libs"]) \ {call.arg})
              \cup (IF linked /\ call.keep THEN {call.arg} ELSE {})
         /\ attr'["headers"] = attr["headers"]
         /\ attr'["includes"] = attr["includes"]
         /\ call.arg \in ToSet(attr["loaded_libs"])
         /\ call' = call /\ libraryPaths' = libraryPaths
         /\ pc = "probed" /\ call.op = "library" /\ (linked \/ at = 1)
         /\ ret' \in {"true", "false"} /\ (ret' = "true" <=> linked)
<1> DEFINE popped == Pop(attr, "loaded_libs", call.arg)
<1>1. /\ pc = "probed" /\ call.op = "library" /\ call.arg \in Lib
      /\ attr' = IF linked /\ call.keep THEN Push(popped, "loaded_libs", call.arg)
                 ELSE popped
      /\ IsLists(attr)
  BY DEF LibraryAnswered, TypeOK
<1>2. /\ IsLists(popped)
      /\ ToSet(popped["loaded_libs"]) = ToSet(attr["loaded_libs"]) \ {call.arg}
      /\ popped["headers"] = attr["headers"]
      /\ popped["includes"] = attr["includes"]
  BY <1>1, PopLibrary
<1> HIDE DEF popped
<1>3. /\ ToSet(Push(popped, "loaded_libs", call.arg)["loaded_libs"])
           = ToSet(popped["loaded_libs"]) \cup {call.arg}
      /\ Push(popped, "loaded_libs", call.arg)["headers"] = popped["headers"]
      /\ Push(popped, "loaded_libs", call.arg)["includes"] = popped["includes"]
  BY <1>1, <1>2, PushLibrary
<1>4. call.arg \in ToSet(attr["loaded_libs"])
  BY <1>1 DEF Pushed, Probing
<1>5. /\ call' = call /\ libraryPaths' = libraryPaths
      /\ linked \/ at = 1
      /\ ret' \in {"true", "false"} /\ (ret' = "true" <=> linked)
  BY DEF LibraryAnswered, Return
<1>6. CASE linked /\ call.keep
  BY <1>1, <1>2, <1>3, <1>4, <1>5, <1>6
<1>7. CASE ~(linked /\ call.keep)
  BY <1>1, <1>2, <1>4, <1>5, <1>7
<1> QED
  BY <1>6, <1>7

\* After both probes have failed, the library does not link or does not help.
LEMMA LibraryRefused ==
  ASSUME TypeOK, Course, Inline = {}, ~Debug, LibraryAnswered, ~linked, Usable
  PROVE  ~(/\ Linkable(call.arg, libraryPaths)
           /\ Defined(call.fn, ToSet(attr["loaded_libs"]), ToSet(attr["headers"])))
<1> SUFFICES ASSUME Linkable(call.arg, libraryPaths),
                    Defined(call.fn, ToSet(attr["loaded_libs"]), ToSet(attr["headers"]))
             PROVE  FALSE
  OBVIOUS
<1>1. pc = "probed" /\ call.op = "library" /\ at = 1
  BY LibraryLists DEF Course
<1>2. /\ Base("headers") = ToSet(attr["headers"])
      /\ Base("includes") = ToSet(attr["includes"])
      /\ Base("loaded_libs") = ToSet(attr["loaded_libs"]) \ {call.arg}
  BY <1>1, LibraryInFlight DEF Base
<1>3. Healthy
  BY <1>2 DEF Usable, Healthy, HeadersFound, LibsLink
<1> QED
  BY <1>1, <1>3, FunctionRefused

LEMMA LibraryStep ==
  ASSUME TypeOK, Course, PathsRegistered, Inline = {}, ~Debug, ~Windows,
         LibraryAlreadyLoaded \/ LibraryAnswered
  PROVE  LibraryAnswer'
<1>1. CASE LibraryAlreadyLoaded
  <2>1. /\ call.arg \in ToSet(attr["loaded_libs"]) /\ call.arg \in Lib
        /\ attr' = IF call.keep THEN Push(attr, "loaded_libs", call.arg) ELSE attr
        /\ IsLists(attr) /\ call' = call /\ ret' = "true"
    BY <1>1 DEF LibraryAlreadyLoaded, Return, TypeOK
  <2>2. call.arg \in ToSet(Push(attr, "loaded_libs", call.arg)["loaded_libs"])
    BY <2>1, PushLibrary
  <2>3. call.arg \in ToSet(attr'["loaded_libs"])
    BY <2>1, <2>2
  <2> QED
    BY <2>1, <2>3 DEF LibraryAnswer
<1>2. CASE LibraryAnswered
  <2>1. /\ ToSet(attr'["loaded_libs"]) \cup {call.arg} = ToSet(attr["loaded_libs"])
        /\ ~linked => call.arg \notin ToSet(attr'["loaded_libs"])
        /\ attr'["headers"] = attr["headers"]
        /\ attr'["includes"] = attr["includes"]
        /\ call' = call /\ libraryPaths' = libraryPaths
        /\ pc = "probed" /\ call.op = "library"
        /\ ret' \in {"true", "false"} /\ (ret' = "true" <=> linked)
    BY <1>2, LibraryLists DEF Course
  <2>2. libraryPaths \cup ToSet(call.paths) = libraryPaths
    BY <2>1 DEF PathsRegistered
  <2>3. CASE linked
    <3>1. LibsLink /\ Defined(call.fn, ToSet(attr["loaded_libs"]), ToSet(attr["headers"]))
      BY <2>1, <2>3, FunctionLinked DEF Course
    <3>2. Linkable(call.arg, libraryPaths)
      BY <2>1, <3>1 DEF LibsLink
    <3> QED
      BY <2>1, <2>2, <2>3, <3>1, <3>2 DEF LibraryAnswer
  <2>4. CASE ~linked
    <3>1. Healthy' => Usable
      <4>1. /\ Base("headers") = ToSet(attr["headers"])
            /\ Base("includes") = ToSet(attr["includes"])
            /\ Base("loaded_libs") = ToSet(attr["loaded_libs"]) \ {call.arg}
        BY <2>1, LibraryInFlight DEF Base
      <4> QED
        BY <2>1, <4>1 DEF Healthy, HeadersFound, LibsLink, Usable
    <3>2. Healthy' => ~(/\ Linkable(call.arg, libraryPaths)
                        /\ Defined(call.fn, ToSet(attr["loaded_libs"]), ToSet(attr["headers"])))
      BY <1>2, <2>4, <3>1, LibraryRefused
    <3> QED
      BY <2>1, <2>2, <2>4, <3>2 DEF LibraryAnswer
  <2> QED
    BY <2>3, <2>4
<1> QED
  BY <1>1, <1>2

\* Where the lists are usable, has_library? and include_library say yes if and
\* only if the library links and the function is there.  Two more conditions are
\* the code's own: has_library? leaves its search paths unused, and on Windows a
\* library is never probed.
THEOREM LibraryAnswersAreRight ==
  ASSUME Inline = {}, ~Debug, ~Windows, LibraryPathLists \subseteq {<< >>}
  PROVE  Spec => []LibraryAnswer
<1>1. Init => LibraryAnswer /\ PathsRegistered
  BY DEF Init, LibraryAnswer, PathsRegistered
<1>2. TypeOK /\ Course /\ PathsRegistered /\ LibraryAnswer /\ [Next]_vars
        => Course' /\ PathsRegistered' /\ LibraryAnswer'
  <2> SUFFICES ASSUME TypeOK, Course, PathsRegistered, LibraryAnswer, [Next]_vars
               PROVE  LibraryAnswer'
    BY CourseStep, PathsRegisteredStep
  <2> SUFFICES ASSUME call'.op = "library", ret' \in {"true", "false"}
               PROVE  LibraryAnswer'
    BY DEF LibraryAnswer
  <2>1. CASE LibraryAlreadyLoaded \/ LibraryAnswered
    BY <2>1, LibraryStep
  <2>2. CASE UNCHANGED vars
    BY <2>2 DEF LibraryAnswer, Healthy, HeadersFound, LibsLink, vars
  <2>3. ~(HeaderAlreadyLoaded \/ HeaderFound \/ HeaderNotFound \/ FunctionAnswered)
    BY DEF HeaderAlreadyLoaded, HeaderFound, HeaderNotFound, FunctionAnswered,
       ReturnHeader, Return
  <2> QED
    BY <2>1, <2>2, <2>3, AnswersAreGiven DEF Course
<1> QED
  BY <1>1, <1>2, CourseInit, TypeCorrect, PTL DEF Spec

-----------------------------------------------------------------------------
(* Macros                                                                  *)

\* What joins the lists for good when a header has been found.
LEMMA HeaderJoins ==
  ASSUME TypeOK, Scoped, HeaderFound
  PROVE  /\ Settled("headers")' = Settled("headers") \cup (IF call.keep THEN {call.arg} ELSE {})
         /\ Settled("includes")' = Settled("includes") \cup ProbeDirs(at)
         /\ Settled("loaded_libs")' = Settled("loaded_libs")
<1>1. pc = "probed" /\ call.op = "header"
  BY DEF HeaderFound
<1>2. /\ InFlight("headers") = {call.arg}
      /\ InFlight("loaded_libs") = {}
      /\ InFlight("includes") = ProbeDirs(at)
  BY <1>1, HeaderInFlight
<1>3. ProbeDirs(at) \subseteq ToSet(attr["includes"])
  BY <1>2, ThreeLists DEF Scoped
<1>4. /\ ToSet(attr'["headers"])
           = (ToSet(attr["headers"]) \ {call.arg}) \cup (IF call.keep THEN {call.arg} ELSE {})
      /\ ToSet(attr'["includes"]) = ToSet(attr["includes"])
      /\ ToSet(attr'["loaded_libs"]) = ToSet(attr["loaded_libs"])
  BY <1>3, FoundLists
<1>5. \A a \in Attribute : InFlight(a)' = {} /\ BlockArgs(a)' = BlockArgs(a)
  BY DEF HeaderFound, ReturnHeader, Return, InFlight, BlockArgs
<1>6. call.keep => BlockArgs("headers") = {}
  BY <1>1 DEF Scoped, BlockArgs
<1>7. BlockArgs("includes") \cap ProbeDirs(at) = {}
  BY <1>2, ThreeLists DEF Scoped
<1>8. Settled("headers")' = Settled("headers") \cup (IF call.keep THEN {call.arg} ELSE {})
  <2>1. CASE call.keep
    BY <1>2, <1>4, <1>5, <1>6, <2>1, ThreeLists DEF Settled
  <2>2. CASE ~call.keep
    BY <1>2, <1>4, <1>5, <2>2, ThreeLists DEF Settled
  <2> QED
    BY <2>1, <2>2
<1>9. Settled("includes")' = Settled("includes") \cup ProbeDirs(at)
  BY <1>2, <1>3, <1>4, <1>5, <1>7, ThreeLists DEF Settled
<1>10. Settled("loaded_libs")' = Settled("loaded_libs")
  BY <1>2, <1>4, <1>5, ThreeLists DEF Settled
<1> QED
  BY <1>8, <1>9, <1>10

\* And when a library has been answered for.
LEMMA LibraryJoins ==
  ASSUME TypeOK, Scoped, Pushed, LibraryAnswered
  PROVE  /\ Settled("headers")' = Settled("headers")
         /\ Settled("includes")' = Settled("includes")
         /\ Settled("loaded_libs")'
              = Settled("loaded_libs") \cup (IF linked /\ call.keep THEN {call.arg} ELSE {})
<1>1. pc = "probed" /\ call.op = "library"
  BY DEF LibraryAnswered
<1>2. /\ InFlight("headers") = {}
      /\ InFlight("loaded_libs") = {call.arg}
      /\ InFlight("includes") = {}
  BY <1>1, LibraryInFlight
<1>3. /\ ToSet(attr'["loaded_libs"]) = (ToSet(attr["loaded_libs"]) \ {call.arg})
           \cup (IF linked /\ call.keep THEN {call.arg} ELSE {})
      /\ attr'["headers"] = attr["headers"]
      /\ attr'["includes"] = attr["includes"]
  BY LibraryLists
<1>4. \A a \in Attribute : InFlight(a)' = {} /\ BlockArgs(a)' = BlockArgs(a)
  BY DEF LibraryAnswered, Return, InFlight, BlockArgs
<1>5. call.keep => BlockArgs("loaded_libs") = {}
  BY <1>1 DEF Scoped, BlockArgs
<1>6. Settled("headers")' = Settled("headers") /\ Settled("includes")' = Settled("includes")
  BY <1>2, <1>3, <1>4, ThreeLists DEF Settled
<1>7. CASE linked /\ call.keep
  BY <1>2, <1>3, <1>4, <1>5, <1>6, <1>7, ThreeLists DEF Settled
<1>8. CASE ~(linked /\ call.keep)
  BY <1>2, <1>3, <1>4, <1>6, <1>8, ThreeLists DEF Settled
<1> QED
  BY <1>7, <1>8

\* Only HeaderFound adds to the headers that calls have established, and only
\* ReturnHeader to the macros.
LEMMA HeadersJoin ==
  ASSUME TypeOK, Scoped, Pushed, ~Overlap, ~Faults, [Next]_vars
  PROVE  \/ Settled("headers")' = Settled("headers") /\ defines' = defines
         \/ /\ HeaderAlreadyLoaded
            /\ Settled("headers")' = Settled("headers")
            /\ defines' = defines \cup {MacroOf[call.arg]}
         \/ /\ HeaderFound
            /\ Settled("headers")' \subseteq Settled("headers") \cup {call.arg}
            /\ defines' = defines \cup {MacroOf[call.arg]}
<1>1. Steady => Settled("headers")' = Settled("headers")
  BY ThreeLists DEF Steady
<1>2. CASE Client
  BY <1>1, <1>2, ClientSteady DEF Client, CallHeader, CallLibrary, CallFunction, Start,
     OpenBlock, CloseBlock, AbandonBlocks
<1>3. CASE TryHeader \/ TryLibrary \/ TryFunction \/ TryNextPath \/ TryReference
           \/ CreateSource \/ Link \/ RemoveTempFiles
  <2>1. defines' = defines
    BY <1>3 DEF TryHeader, TryLibrary, TryFunction, TryNextPath, TryReference,
       CreateSource, Link, RemoveTempFiles
  <2> QED
    BY <1>1, <1>3, <2>1, ProbeSteady
<1>4. CASE HeaderNotFound \/ FunctionAnswered
  BY <1>1, <1>4, OtherAnswersSteady DEF HeaderNotFound, FunctionAnswered
<1>5. CASE HeaderAlreadyLoaded
  <2>1. defines' = defines \cup {MacroOf[call.arg]}
    BY <1>5 DEF HeaderAlreadyLoaded, ReturnHeader
  <2> QED
    BY <1>1, <1>5, <2>1, OtherAnswersSteady
<1>6. CASE HeaderFound
  BY <1>6, HeaderJoins DEF HeaderFound, ReturnHeader
<1>7. CASE LibraryAnswered
  BY <1>7, LibraryJoins DEF LibraryAnswered
<1>8. CASE LibraryAlreadyLoaded
  <2>1. /\ attr' = IF call.keep THEN Push(attr, "loaded_libs", call.arg) ELSE attr
        /\ call.arg \in Lib /\ IsLists(attr) /\ defines' = defines
        /\ pc = "start" /\ pc' = "idle" /\ blocks' = blocks
    BY <1>8 DEF LibraryAlreadyLoaded, Return, TypeOK
  <2>2. Push(attr, "loaded_libs", call.arg)["headers"] = attr["headers"]
    BY <2>1, PushLibrary
  <2>3. \A a \in Attribute : InFlight(a) = {} /\ InFlight(a)' = {} /\ BlockArgs(a)' = BlockArgs(a)
    BY <2>1 DEF InFlight, BlockArgs
  <2> QED
    BY <2>1, <2>2, <2>3, ThreeLists DEF Settled
<1>9. CASE UNCHANGED vars
  <2>1. Settled("headers")' = Settled("headers")
    BY <1>9 DEF vars, Settled, InFlight, BlockArgs
  <2> QED
    BY <1>9, <2>1 DEF vars
<1>10. ~Raise
  BY DEF Raise
<1> QED
  BY <1>2, <1>3, <1>4, <1>5, <1>6, <1>7, <1>8, <1>9, <1>10 DEF Next, Step

\* What calls have put on @headers exists, or the options declare it; and a
\* client does not ask for a header that only its own block has pushed.
Real(h) == HeaderDirs[h] # {} \/ h \in ToSet(Options["headers"])

HeadersReal ==
  /\ \A h \in Settled("headers") : Real(h)
  /\ pc = "start" /\ call.op = "header" => call.arg \notin BlockArgs("headers")

LEMMA NotAskedInBlock ==
  ASSUME TypeOK, ~Overlap, [Next]_vars, HeadersReal, pc' = "start", call'.op = "header"
  PROVE  call'.arg \notin BlockArgs("headers")'
<1>1. ASSUME NEW keep \in BOOLEAN, NEW h \in Header, NEW paths \in PathLists,
             CallHeader(keep, h, paths)
      PROVE  call'.arg \notin BlockArgs("headers")'
  BY <1>1 DEF CallHeader, Start, BlockArgs
<1>2. CASE UNCHANGED vars
  BY <1>2 DEF HeadersReal, BlockArgs, vars
<1>3. ~(Step \/ Raise)
  BY DEF Step, Raise, HeaderAlreadyLoaded, TryHeader, LibraryAlreadyLoaded,
     TryLibrary, TryFunction, CreateSource, Link, RemoveTempFiles, HeaderFound,
     TryNextPath, HeaderNotFound, TryReference, FunctionAnswered, LibraryAnswered,
     ReturnHeader, Return
<1>4. ASSUME NEW op, NEW keep, NEW arg, NEW fn, NEW paths, Start(op, keep, arg, fn, paths)
      PROVE  op = "header"
  BY <1>4 DEF Start
<1>5. \A keep, l, f, paths : ~CallLibrary(keep, l, f, paths)
  BY <1>4 DEF CallLibrary
<1>6. \A f : ~CallFunction(f)
  BY <1>4 DEF CallFunction
<1>7. ~(CloseBlock \/ AbandonBlocks \/ \E a \in Attribute : \E x \in ItemsOf(a) : OpenBlock(a, x))
  BY DEF OpenBlock, CloseBlock, AbandonBlocks, TypeOK
<1> QED
  BY <1>1, <1>2, <1>3, <1>5, <1>6, <1>7 DEF Next, Client

\* A header that gets its macro exists.
LEMMA MacroStep ==
  ASSUME TypeOK, Scoped, Course, HeadersReal, ~Overlap, ~Faults, [Next]_vars
  PROVE  /\ HeadersReal'
         /\ \/ defines' = defines
            \/ call.arg \in Header /\ Real(call.arg) /\ defines' = defines \cup {MacroOf[call.arg]}
<1>1. CASE Settled("headers")' = Settled("headers") /\ defines' = defines
  BY <1>1, NotAskedInBlock DEF HeadersReal
<1>2. CASE HeaderAlreadyLoaded /\ Settled("headers")' = Settled("headers")
           /\ defines' = defines \cup {MacroOf[call.arg]}
  <2>1. /\ pc = "start" /\ call.op = "header" /\ call.arg \in Header
        /\ call.arg \in ToSet(attr["headers"])
    BY <1>2 DEF HeaderAlreadyLoaded, TypeOK
  <2>2. InFlight("headers") = {}
    BY <2>1, NothingInFlight, ThreeLists
  <2>3. call.arg \in Settled("headers")
    BY <2>1, <2>2 DEF HeadersReal, Settled
  <2> QED
    BY <1>2, <2>1, <2>3, NotAskedInBlock DEF HeadersReal
<1>3. CASE HeaderFound /\ Settled("headers")' \subseteq Settled("headers") \cup {call.arg}
           /\ defines' = defines \cup {MacroOf[call.arg]}
  <2>1. call.op = "header" /\ linked /\ call.arg \in Header
    BY <1>3 DEF HeaderFound, TypeOK
  <2>2. Real(call.arg)
    BY <2>1, HeaderLinked DEF Course, Found, Real
  <2> QED
    BY <1>3, <2>1, <2>2, NotAskedInBlock DEF HeadersReal
<1> QED
  BY <1>1, <1>2, <1>3, HeadersJoin DEF Course

\* For a client that hands over nothing a list already holds, where no exception
\* interrupts a probe: a HAVE_ macro stands for a header that exists on the machine
\* or that the options declare loaded.
THEOREM MacrosAreTrue ==
  ASSUME ~Overlap, ~Faults
  PROVE  Spec => []MacrosTrue
<1>1. Init => HeadersReal /\ MacrosTrue
  <2> SUFFICES ASSUME Init PROVE HeadersReal /\ MacrosTrue
    OBVIOUS
  <2>1. InFlight("headers") = {} /\ BlockArgs("headers") = {}
    BY DEF Init, InFlight, BlockArgs
  <2> QED
    BY <2>1 DEF Init, HeadersReal, MacrosTrue, Settled, Real
<1>2. TypeOK /\ Scoped /\ [Next]_vars => Scoped'
  BY ScopedStep
<1>3. TypeOK /\ Scoped /\ Course /\ HeadersReal /\ MacrosTrue /\ [Next]_vars
        => Course' /\ HeadersReal' /\ MacrosTrue'
  BY CourseStep, MacroStep DEF MacrosTrue, Real
<1> QED
  BY <1>1, <1>2, <1>3, CourseInit, ScopedInit, TypeCorrect, PTL DEF Spec

\* For the same client: each header that a call has put on @headers has its macro.
THEOREM MacrosAreComplete ==
  ASSUME ~Overlap, ~Faults
  PROVE  Spec => []MacrosComplete
<1>1. Init => MacrosComplete
  <2> SUFFICES ASSUME Init PROVE MacrosComplete
    OBVIOUS
  <2>1. InFlight("headers") = {} /\ BlockArgs("headers") = {}
    BY DEF Init, InFlight, BlockArgs
  <2> QED
    BY <2>1 DEF Init, MacrosComplete, Settled
<1>2. TypeOK /\ Scoped /\ [Next]_vars => Scoped'
  BY ScopedStep
<1>3. TypeOK /\ Scoped /\ Course /\ MacrosComplete /\ [Next]_vars
        => Course' /\ MacrosComplete'
  BY CourseStep, HeadersJoin DEF Course, MacrosComplete
<1> QED
  BY <1>1, <1>2, <1>3, CourseInit, ScopedInit, TypeCorrect, PTL DEF Spec

-----------------------------------------------------------------------------
(* The contract                                                            *)

\* The contract's operators on the toolchain are those of the model.
LEMMA SameToolchain ==
  /\ \A s : Contract!ToSet(s) = ToSet(s)
  /\ \A h, D : Contract!Found(h, D) = Found(h, D)
  /\ \A l, D : Contract!Linkable(l, D) = Linkable(l, D)
  /\ \A f, L, H : Contract!Defined(f, L, H) = Defined(f, L, H)
BY DEF Contract!ToSet, ToSet, Contract!Found, Found, Contract!Linkable, Linkable,
   Contract!Defined, Defined

LEMMA ContractInit == Init => Contract!Init
<1> SUFFICES ASSUME Init PROVE Contract!Init
  OBVIOUS
<1>1. \A a \in Attribute : InFlight(a) = {} /\ BlockArgs(a) = {}
  BY DEF Init, InFlight, BlockArgs
<1>2. \A a \in Attribute : Settled(a) = ToSet(Options[a])
  BY <1>1 DEF Init, Settled
<1>3. [a \in Attribute |-> Settled(a)] = [a \in Contract!Attribute |-> Contract!ToSet(Options[a])]
  BY <1>2, SameToolchain DEF Contract!Attribute, Attribute
<1> QED
  BY <1>3 DEF Init, Contract!Init

\* A request is asked.
LEMMA Asked ==
  ASSUME Steady, NEW op, NEW keep, NEW arg, NEW fn, NEW paths,
         Start(op, keep, arg, fn, paths),
         libraryPaths' = IF op = "library" /\ keep THEN libraryPaths \cup ToSet(paths)
                         ELSE libraryPaths
  PROVE  Contract!Ask(op, keep, arg, fn, paths)
BY SameToolchain DEF Start, Steady, Contract!Ask

\* A yes, of a request for something available, adds what it keeps.
LEMMA Confirmed ==
  ASSUME pc # "idle", Contract!Available, NEW gained \in Contract!Gains, Return("true"),
         Settled("headers")' = Settled("headers")
           \cup (IF call.op = "header" /\ call.keep THEN {call.arg} ELSE {}),
         Settled("loaded_libs")' = Settled("loaded_libs")
           \cup (IF call.op = "library" /\ call.keep THEN {call.arg} ELSE {}),
         Settled("includes")' = Settled("includes") \cup gained,
         defines' = IF call.op = "header" THEN defines \cup {MacroOf[call.arg]} ELSE defines
  PROVE  Contract!Confirm
<1> DEFINE known == [a \in Attribute |-> Settled(a)]
           headers == IF call.op = "header" /\ call.keep THEN {call.arg} ELSE {}
           libs == IF call.op = "library" /\ call.keep THEN {call.arg} ELSE {}
<1>1. known' = [a \in Attribute |-> Settled(a)']
  OBVIOUS
<1>2. known' = [known EXCEPT !["headers"] = @ \cup headers,
                             !["loaded_libs"] = @ \cup libs,
                             !["includes"] = @ \cup gained]
  BY <1>1, ThreeLists
<1> QED
  BY <1>2 DEF Return, Contract!Confirm

\* A no, where it is due.
LEMMA Denied ==
  ASSUME pc # "idle", ~Contract!Available \/ ~Contract!Healthy, Return("false"), Steady,
         defines' = defines
  PROVE  Contract!Deny
BY DEF Return, Steady, Contract!Deny
\* What the contract calls visible is on the lists, the running probe's own
\* pushes apart.
LEMMA InSight ==
  ASSUME Scoped
  PROVE  \A a \in Attribute : Contract!Visible(a) = Base(a)
BY DEF Contract!Visible, Scoped, Settled, BlockArgs, Base

LEMMA SameHealth ==
  ASSUME Scoped
  PROVE  Contract!Healthy <=> Usable
BY InSight, SameToolchain, ThreeLists DEF Contract!Healthy, Usable

\* What the contract calls available, in terms of the lists.
LEMMA AvailableMeans ==
  ASSUME Scoped
  PROVE  /\ call.op = "header" =>
              (Contract!Available <=>
                 \/ call.arg \in Base("headers")
                 \/ Found(call.arg, Base("includes") \cup ToSet(call.paths)))
         /\ call.op = "library" =>
              (Contract!Available <=>
                 \/ call.arg \in Base("loaded_libs")
                 \/ /\ Linkable(call.arg, libraryPaths \cup ToSet(call.paths))
                    /\ Defined(call.fn, Base("loaded_libs") \cup {call.arg}, Base("headers")))
         /\ call.op = "function" =>
              (Contract!Available <=>
                 Defined(call.fn, Base("loaded_libs"), Base("headers")))
<1>1. /\ Contract!Visible("headers") = Base("headers")
      /\ Contract!Visible("includes") = Base("includes")
      /\ Contract!Visible("loaded_libs") = Base("loaded_libs")
  BY InSight, ThreeLists
<1> QED
  BY <1>1, SameToolchain DEF Contract!Available

\* A step that only a probe sees.
LEMMA Stutters ==
  ASSUME Steady, UNCHANGED <<libraryPaths, defines, blocks, call, ret>>,
         (pc' # "idle") = (pc # "idle")
  PROVE  UNCHANGED Contract!vars
BY DEF Steady, Contract!vars

\* The answers about headers.
LEMMA HeaderFulfils ==
  ASSUME TypeOK, Scoped, Course, ~Debug,
         HeaderAlreadyLoaded \/ HeaderFound \/ HeaderNotFound
  PROVE  Contract!Confirm \/ Contract!Deny
<1>1. CASE HeaderAlreadyLoaded
  <2>1. /\ pc = "start" /\ call.op = "header" /\ call.arg \in ToSet(attr["headers"])
        /\ Return("true") /\ defines' = defines \cup {MacroOf[call.arg]}
    BY <1>1 DEF HeaderAlreadyLoaded, ReturnHeader
  <2>2. call.arg \in Base("headers")
    BY <2>1, NothingInFlight, ThreeLists DEF Base
  <2>3. Contract!Available
    BY <2>1, <2>2, AvailableMeans
  <2>4. {} \in Contract!Gains
    BY <2>2, InSight, ThreeLists DEF Contract!Gains
  <2>5. call.keep => call.arg \in Settled("headers")
    <3>1. call.keep => BlockArgs("headers") = {}
      BY <2>1 DEF Scoped, BlockArgs
    <3> QED
      BY <2>2, <3>1 DEF Base, Settled
  <2>6. Steady
    BY <1>1, OtherAnswersSteady
  <2> QED
    BY <2>1, <2>3, <2>4, <2>5, <2>6, ThreeLists, Confirmed DEF Steady
<1>2. CASE HeaderFound
  <2>1. /\ pc = "probed" /\ call.op = "header" /\ linked /\ call.arg \in Header
        /\ Return("true") /\ defines' = defines \cup {MacroOf[call.arg]}
        /\ at \in Nat /\ at <= Len(call.paths) /\ call.paths \in Seq(Dir)
    BY <1>2 DEF HeaderFound, ReturnHeader, TypeOK, Request
  <2>2. /\ Base("headers") = ToSet(attr["headers"]) \ {call.arg}
        /\ Base("includes") = ToSet(attr["includes"]) \ ProbeDirs(at)
    BY <2>1, HeaderInFlight DEF Base
  <2>3. Found(call.arg, Base("includes") \cup ProbeDirs(at))
    <3>1. Found(call.arg, ToSet(attr["includes"]))
      BY <2>1, HeaderLinked DEF Course
    <3>2. ToSet(attr["includes"]) \subseteq Base("includes") \cup ProbeDirs(at)
      BY <2>2
    <3> QED
      BY <3>1, <3>2, SearchMonotonic
  <2>4. at # 0 => at \in DOMAIN call.paths /\ call.paths[at] \in ToSet(call.paths)
    BY <2>1, LenProperties DEF ToSet
  <2>5. Contract!Available
    <3>1. ProbeDirs(at) \subseteq ToSet(call.paths)
      BY <2>4 DEF ProbeDirs
    <3>2. Base("includes") \cup ProbeDirs(at) \subseteq Base("includes") \cup ToSet(call.paths)
      BY <3>1
    <3> QED
      BY <2>1, <2>3, <3>2, SearchMonotonic, AvailableMeans
  <2>6. ProbeDirs(at) \in Contract!Gains
    <3>1. call.arg \notin Contract!Visible("headers")
      BY <2>2, InSight, ThreeLists
    <3>2. CASE ~Contract!Healthy
      BY <2>1, <2>4, <3>1, <3>2, SameToolchain DEF Contract!Gains, ProbeDirs
    <3>3. CASE Contract!Healthy
      <4>1. \A j \in 0 .. at - 1 : ~Found(call.arg, Base("includes") \cup ProbeDirs(j))
        BY <2>1, <3>3, SameHealth DEF Course, Vain, Probing
      <4>2. Contract!Visible("includes") = Base("includes")
        BY InSight, ThreeLists
      <4>3. CASE at = 0
        <5>1. ProbeDirs(at) = {}
          BY <4>3 DEF ProbeDirs
        <5>2. Base("includes") \cup ProbeDirs(at) = Base("includes")
          BY <5>1
        <5>3. Contract!Found(call.arg, Contract!Visible("includes"))
          BY <2>3, <4>2, <5>2, SameToolchain
        <5> QED
          BY <2>1, <3>1, <3>3, <5>1, <5>3 DEF Contract!Gains
      <4>4. CASE at # 0
        <5>1. ~Found(call.arg, Base("includes"))
          <6>1. 0 \in 0 .. at - 1 /\ ProbeDirs(0) = {}
            BY <2>1, <4>4 DEF ProbeDirs
          <6>2. ~Found(call.arg, Base("includes") \cup ProbeDirs(0))
            BY <4>1, <6>1
          <6>3. Base("includes") \cup ProbeDirs(0) = Base("includes")
            BY <6>1
          <6> QED
            BY <6>2, <6>3
        <5>2. call.paths[at] \in HeaderDirs[call.arg]
          BY <2>3, <4>4, <5>1 DEF Found, ProbeDirs
        <5>3. ASSUME NEW m \in 1 .. at - 1
              PROVE  call.paths[m] \notin HeaderDirs[call.arg]
          <6>1. m \in 0 .. at - 1 /\ ProbeDirs(m) = {call.paths[m]}
            BY <2>1, <5>3 DEF ProbeDirs
          <6>2. ~Found(call.arg, Base("includes") \cup ProbeDirs(m))
            BY <4>1, <6>1
          <6> QED
            BY <6>1, <6>2 DEF Found
        <5>4. ProbeDirs(at) = {call.paths[at]}
          BY <4>4 DEF ProbeDirs
        <5>5. ~Contract!Found(call.arg, Contract!Visible("includes"))
          BY <4>2, <5>1, SameToolchain
        <5> QED
          BY <2>1, <2>4, <3>1, <3>3, <4>4, <5>2, <5>3, <5>4, <5>5 DEF Contract!Gains
      <4> QED
        BY <4>3, <4>4
    <3> QED
      BY <3>2, <3>3
  <2> QED
    BY <1>2, <2>1, <2>5, <2>6, HeaderJoins, Confirmed
<1>3. CASE HeaderNotFound
  <2>1. /\ pc = "probed" /\ call.op = "header" /\ Return("false") /\ defines' = defines
    BY <1>3 DEF HeaderNotFound
  <2>2. call.arg \notin Base("headers")
    BY <2>1, HeaderInFlight DEF Base
  <2>3. Usable => ~Contract!Available
    BY <1>3, <2>1, <2>2, AvailableMeans, HeaderNowhere
  <2>4. Steady
    BY <1>3, OtherAnswersSteady
  <2> QED
    BY <2>1, <2>3, <2>4, SameHealth, Denied
<1> QED
  BY <1>1, <1>2, <1>3

\* The answers about functions.
LEMMA FunctionFulfils ==
  ASSUME TypeOK, Scoped, Course, Inline = {}, ~Debug, FunctionAnswered
  PROVE  Contract!Confirm \/ Contract!Deny
<1>1. /\ pc = "probed" /\ call.op = "function" /\ (linked \/ at = 1)
      /\ Return(IF linked THEN "true" ELSE "false") /\ defines' = defines
  BY DEF FunctionAnswered
<1>2. /\ Base("headers") = ToSet(attr["headers"])
      /\ Base("includes") = ToSet(attr["includes"])
      /\ Base("loaded_libs") = ToSet(attr["loaded_libs"])
  BY <1>1, FunctionInFlight, ThreeLists DEF Base
<1>3. Steady
  BY OtherAnswersSteady
<1>4. CASE linked
  <2>1. Contract!Available
    BY <1>1, <1>2, <1>4, FunctionLinked, AvailableMeans DEF Course
  <2>2. {} \in Contract!Gains
    BY <1>1 DEF Contract!Gains
  <2> QED
    BY <1>1, <1>3, <1>4, <2>1, <2>2, ThreeLists, Confirmed DEF Steady
<1>5. CASE ~linked
  <2>1. Usable => Healthy
    BY <1>2 DEF Usable, Healthy, HeadersFound, LibsLink
  <2>2. Usable => ~Contract!Available
    BY <1>1, <1>2, <1>5, <2>1, FunctionRefused, AvailableMeans
  <2> QED
    BY <1>1, <1>3, <1>5, <2>2, SameHealth, Denied
<1> QED
  BY <1>4, <1>5

\* The answers about libraries.
LEMMA LibraryFulfils ==
  ASSUME TypeOK, Scoped, Course, PathsRegistered, Inline = {}, ~Debug, ~Windows,
         LibraryAlreadyLoaded \/ LibraryAnswered
  PROVE  Contract!Confirm \/ Contract!Deny
<1>1. call.op = "library" /\ defines' = defines
  BY DEF LibraryAlreadyLoaded, LibraryAnswered
<1>2. {} \in Contract!Gains
  BY <1>1 DEF Contract!Gains
<1>3. CASE LibraryAlreadyLoaded
  <2>1. pc = "start" /\ call.arg \in ToSet(attr["loaded_libs"]) /\ Return("true")
    BY <1>3 DEF LibraryAlreadyLoaded
  <2>2. call.arg \in Base("loaded_libs")
    BY <2>1, NothingInFlight, ThreeLists DEF Base
  <2>3. call.keep => call.arg \in Settled("loaded_libs")
    <3>1. call.keep => BlockArgs("loaded_libs") = {}
      BY <2>1 DEF Scoped, BlockArgs
    <3> QED
      BY <2>2, <3>1 DEF Base, Settled
  <2>4. Steady
    BY <1>3, OtherAnswersSteady
  <2>5. Contract!Available
    BY <1>1, <2>2, AvailableMeans
  <2> QED
    BY <1>1, <1>2, <2>1, <2>3, <2>4, <2>5, ThreeLists, Confirmed DEF Steady
<1>4. CASE LibraryAnswered
  <2>1. /\ pc = "probed" /\ Return(IF linked THEN "true" ELSE "false")
        /\ call.arg \in ToSet(attr["loaded_libs"])
    BY <1>4, LibraryLists DEF LibraryAnswered, Course
  <2>2. /\ Base("headers") = ToSet(attr["headers"])
        /\ Base("loaded_libs") = ToSet(attr["loaded_libs"]) \ {call.arg}
    BY <1>1, <2>1, LibraryInFlight DEF Base
  <2>3. Base("loaded_libs") \cup {call.arg} = ToSet(attr["loaded_libs"])
    BY <2>1, <2>2
  <2>4. libraryPaths \cup ToSet(call.paths) = libraryPaths
    BY <1>1 DEF PathsRegistered
  <2>5. CASE linked
    <3>1. LibsLink /\ Defined(call.fn, ToSet(attr["loaded_libs"]), ToSet(attr["headers"]))
      BY <1>1, <2>5, FunctionLinked DEF Course
    <3>2. Contract!Available
      BY <1>1, <2>1, <2>2, <2>3, <2>4, <3>1, AvailableMeans DEF LibsLink
    <3> QED
      BY <1>1, <1>2, <1>4, <2>1, <2>5, <3>2, LibraryJoins, Confirmed DEF Course
  <2>6. CASE ~linked
    <3>1. Usable => ~Contract!Available
      BY <1>1, <1>4, <2>2, <2>3, <2>4, <2>6, LibraryRefused, AvailableMeans
    <3>2. Steady
      BY <1>4, <2>6, LibraryJoins, ThreeLists DEF Steady, Course
    <3> QED
      BY <1>1, <2>1, <2>6, <3>1, <3>2, SameHealth, Denied
  <2> QED
    BY <2>5, <2>6
<1> QED
  BY <1>3, <1>4

\* The client's requests and blocks are those of the contract.
LEMMA ClientFulfils ==
  ASSUME TypeOK, Scoped, ~Overlap, ~Faults, Client
  PROVE  Contract!Next
<1>1. Steady
  BY ClientSteady
<1>2. ASSUME NEW keep \in BOOLEAN, NEW h \in Header, NEW paths \in PathLists,
             CallHeader(keep, h, paths)
      PROVE  Contract!Next
  <2>1. Contract!Ask("header", keep, h, Main, paths)
    BY <1>1, <1>2, Asked DEF CallHeader
  <2> QED
    BY <2>1 DEF Contract!Next
<1>3. ASSUME NEW l \in Lib, NEW f \in Func, NEW paths \in PathLists,
             CallLibrary(TRUE, l, f, paths)
      PROVE  Contract!Next
  <2>1. Contract!Ask("library", TRUE, l, f, paths)
    BY <1>1, <1>3, Asked DEF CallLibrary
  <2> QED
    BY <2>1 DEF Contract!Next
<1>4. ASSUME NEW l \in Lib, NEW f \in Func, NEW paths \in LibraryPathLists,
             CallLibrary(FALSE, l, f, paths)
      PROVE  Contract!Next
  <2>1. Contract!Ask("library", FALSE, l, f, paths)
    BY <1>1, <1>4, Asked DEF CallLibrary
  <2> QED
    BY <2>1 DEF Contract!Next
<1>5. ASSUME NEW f \in Func, CallFunction(f)
      PROVE  Contract!Next
  <2>1. Contract!Ask("function", FALSE, f, f, << >>)
    BY <1>1, <1>5, Asked DEF CallFunction
  <2> QED
    BY <2>1 DEF Contract!Next
<1>6. ASSUME NEW a \in Attribute, NEW x \in ItemsOf(a), OpenBlock(a, x)
      PROVE  Contract!Next
  <2>1. Contract!OpenBlock(a, x)
    BY <1>1, <1>6 DEF OpenBlock, Steady, Contract!OpenBlock
  <2>2. a \in Contract!Attribute /\ x \in Contract!ItemsOf(a)
    BY <1>6 DEF Attribute, ItemsOf, Contract!Attribute, Contract!ItemsOf
  <2> QED
    BY <2>1, <2>2 DEF Contract!Next
<1>7. CASE CloseBlock
  <2>1. Contract!CloseBlock
    BY <1>1, <1>7 DEF CloseBlock, Steady, Contract!CloseBlock, Front, Contract!Front
  <2> QED
    BY <2>1 DEF Contract!Next
<1>8. ~AbandonBlocks
  BY DEF AbandonBlocks
<1> QED
  BY <1>2, <1>3, <1>4, <1>5, <1>6, <1>7, <1>8 DEF Client

LEMMA ContractStep ==
  ASSUME TypeOK, Scoped, Course, PathsRegistered, ~Overlap, ~Faults, ~Debug, ~Windows,
         Inline = {}, [Next]_vars
  PROVE  [Contract!Next]_(Contract!vars)
<1>1. CASE Client
  BY <1>1, ClientFulfils
<1>2. CASE TryHeader \/ TryLibrary \/ TryFunction \/ TryNextPath \/ TryReference
           \/ CreateSource \/ Link \/ RemoveTempFiles
  <2>1. /\ UNCHANGED <<libraryPaths, defines, blocks, call, ret>>
        /\ pc # "idle" /\ pc' # "idle"
    BY <1>2 DEF TryHeader, TryLibrary, TryFunction, TryNextPath, TryReference,
       CreateSource, Link, RemoveTempFiles
  <2> QED
    BY <1>2, <2>1, ProbeSteady, Stutters
<1>3. CASE HeaderAlreadyLoaded \/ HeaderFound \/ HeaderNotFound
  BY <1>3, HeaderFulfils DEF Contract!Next
<1>4. CASE FunctionAnswered
  BY <1>4, FunctionFulfils DEF Contract!Next
<1>5. CASE LibraryAlreadyLoaded \/ LibraryAnswered
  BY <1>5, LibraryFulfils DEF Contract!Next
<1>6. ~Raise
  BY DEF Raise
<1>7. CASE UNCHANGED vars
  <2>1. Steady
    BY <1>7 DEF vars, Steady, Settled, InFlight, BlockArgs
  <2> QED
    BY <1>7, <2>1, Stutters DEF vars
<1> QED
  BY <1>1, <1>2, <1>3, <1>4, <1>5, <1>6, <1>7 DEF Next, Step

\* The safety part of the contract, for every machine and every client that hands
\* over nothing a list already holds: each request is answered in one step from
\* what is installed, with exactly the changes that belong to the answer; what
\* probes push and pop is never seen; and a directory joins the search path only
\* if it is the first of those passed along that holds the header.
THEOREM FulfilsContract ==
  ASSUME ~Overlap, ~Faults, ~Debug, ~Windows, Inline = {}, LibraryPathLists \subseteq {<< >>}
  PROVE  Spec => Contract!Init /\ [][Contract!Next]_(Contract!vars)
<1>1. Init => Contract!Init /\ PathsRegistered
  BY ContractInit DEF Init, PathsRegistered
<1>2. TypeOK /\ Scoped /\ [Next]_vars => Scoped'
  BY ScopedStep
<1>3. TypeOK /\ Course /\ PathsRegistered /\ [Next]_vars => Course' /\ PathsRegistered'
  BY CourseStep, PathsRegisteredStep
<1>4. TypeOK /\ Scoped /\ Course /\ PathsRegistered /\ [Next]_vars
        => [Contract!Next]_(Contract!vars)
  BY ContractStep
<1> QED
  BY <1>1, <1>2, <1>3, <1>4, CourseInit, ScopedInit, TypeCorrect, PTL DEF Spec
=============================================================================
