---------------------------- MODULE Availability ----------------------------
(***************************************************************************)
(* Mkrf::Availability (lib/mkrf/availability.rb): the lists of headers,    *)
(* libraries and directories a configuration has established, and the      *)
(* calls that extend them by compiling probe programs.                     *)
(*                                                                         *)
(* A call is a request followed by the steps of its probes: push what is   *)
(* being tried on a list (with_stackable_attribute), write temp_source.c,  *)
(* run the compiler, delete the temporary files, take the pushed item back *)
(* and decide.  The steps are apart because an exception may end a call    *)
(* between them and because a client may open with_headers,                *)
(* with_loaded_libs and with_includes blocks around its calls.             *)
(*                                                                         *)
(* A list is a sequence without repetitions: the first occurrence of each  *)
(* element, in order.  A repetition is never told apart: `Array#-` takes   *)
(* every occurrence, `include?` looks for one, and the first occurrence    *)
(* decides the order.                                                      *)
(***************************************************************************)
EXTENDS Toolchain, SequencesExt

CONSTANTS
  Macro,            \* names of preprocessor constants
  MacroOf,          \* MacroOf[h]: "HAVE_" and the header's name in capitals
  Options,          \* initial lists: [headers, loaded_libs, includes]
  InitLibraryPaths, \* initial @library_paths
  PathLists,        \* the search paths clients pass to include_ calls and to
                    \* has_header?
  LibraryPathLists, \* the search paths clients pass to has_library?
  MaxBlocks,        \* bound on the nesting of a client's with_ blocks
  Overlap,          \* may clients hand over items a list already holds?
  Faults,           \* may file or process operations raise exceptions?
  Debug,            \* $debug
  Windows           \* RUBY_PLATFORM =~ /mswin/

Attribute == {"headers", "loaded_libs", "includes"}

Item == Header \cup Lib \cup Dir

ItemsOf(a) == CASE a = "headers"     -> Header
                [] a = "loaded_libs" -> Lib
                [] a = "includes"    -> Dir

ASSUME ClientAssumption ==
  /\ MacroOf \in [Header -> Macro]
  /\ InitLibraryPaths \subseteq Dir
  /\ PathLists \subseteq Seq(Dir)
  /\ LibraryPathLists \subseteq Seq(Dir)
  /\ MaxBlocks \in Nat
  /\ Overlap \in BOOLEAN
  /\ Faults \in BOOLEAN
  /\ Debug \in BOOLEAN
  /\ Windows \in BOOLEAN

\* Well-formed values of the three lists.
IsLists(lists) ==
  /\ lists \in [Attribute -> Seq(Item)]
  /\ \A a \in Attribute : lists[a] \in Seq(ItemsOf(a)) /\ IsInjective(lists[a])

ASSUME OptionsAssumption == IsLists(Options)

VARIABLES
  attr,         \* @headers, @loaded_libs and @includes
  libraryPaths, \* @library_paths
  defines,      \* @defines
  blocks,       \* the client's open with_ blocks, outermost first
  call,         \* the call in progress, or the last one
  pc,           \* where that call is
  at,           \* which of its probes is being tried
  linked,       \* what can_link? returned
  ret,          \* what it returned, until the client's next step
  tempFiles     \* the temporary files in the working directory

vars == <<attr, libraryPaths, defines, blocks, call, pc, at, linked, ret,
          tempFiles>>

Request == [op: {"none", "header", "library", "function"}, keep: BOOLEAN,
            arg: Item \cup Func, fn: Func, paths: Seq(Dir)]

Block == [attr: Attribute, arg: Item]

TempFile == {"temp_source.c", "temp_executable"}

\* Types, and that no list holds an element twice.
TypeOK ==
  /\ IsLists(attr)
  /\ libraryPaths \subseteq Dir
  /\ defines \subseteq Macro
  /\ blocks \in Seq(Block)
  /\ \A k \in DOMAIN blocks : blocks[k].arg \in ItemsOf(blocks[k].attr)
  /\ call \in Request
  /\ call.op = "header" => call.arg \in Header
  /\ call.op = "library" => call.arg \in Lib
  /\ pc \in {"idle", "start", "create", "link", "ensure", "probed"}
  /\ pc # "idle" => call.op # "none"
  /\ at \in Nat
  /\ call.op = "header" => at <= Len(call.paths)
  /\ pc \in {"idle", "start"} => at = 0 /\ linked = FALSE
  /\ linked \in BOOLEAN
  /\ ret \in {"none", "true", "false", "raised"}
  /\ tempFiles \subseteq TempFile

-----------------------------------------------------------------------------
(* Lists and the stackable attributes                                      *)

\* list << x, and list + [x]
Add(s, x) == IF x \in ToSet(s) THEN s ELSE Append(s, x)

\* list - [x]
Without(s, x) ==
  IF x \in ToSet(s) THEN RemoveAt(s, CHOOSE k \in DOMAIN s : s[k] = x) ELSE s

\* The two halves of with_stackable_attribute, around the block's `yield`.
\* Nothing remembers the list's value before the push: the pop subtracts.
Push(lists, a, x) == [lists EXCEPT ![a] = Add(@, x)]
PopLast(lists, a, x) == [lists EXCEPT ![a] = Front(@)]  \* mutant of Pop
Pop(lists, a, x)  == [lists EXCEPT ![a] = Without(@, x)]

\* What the i-th probe of has_header? pushes and pops: header_can_link? alone
\* for i = 0, inside with_includes for the i-th search path.
PushProbe(lists, i) ==
  IF i = 0
  THEN Push(lists, "headers", call.arg)
  ELSE Push(Push(lists, "includes", call.paths[i]), "headers", call.arg)

PopProbeHeader(lists, i) == Pop(lists, "headers", call.arg)  \* mutant of PopProbe

PopProbe(lists, i) ==
  IF i = 0
  THEN Pop(lists, "headers", call.arg)
  ELSE Pop(Pop(lists, "headers", call.arg), "includes", call.paths[i])

BlockArgs(a) ==
  {blocks[k].arg : k \in {n \in DOMAIN blocks : blocks[n].attr = a}}

-----------------------------------------------------------------------------
(* Clients                                                                 *)

Start(op, keep, arg, fn, paths) ==
  /\ pc = "idle"
  /\ call' = [op |-> op, keep |-> keep, arg |-> arg, fn |-> fn, paths |-> paths]
  /\ pc' = "start"
  /\ at' = 0
  /\ linked' = FALSE
  /\ ret' = "none"
  /\ UNCHANGED <<attr, defines, blocks, tempFiles>>

\* include_header (keep) and has_header?.  A client that avoids overlaps passes
\* search paths that are not searched already, does not ask for a header it
\* has pushed itself, and extends the lists only outside its with_ blocks.
CallHeader(keep, h, paths) ==
  /\ Overlap \/ /\ ToSet(paths) \cap ToSet(attr["includes"]) = {}
                /\ h \notin BlockArgs("headers")
                /\ keep => blocks = << >>
  /\ Start("header", keep, h, Main, paths)
  /\ UNCHANGED libraryPaths

\* include_library (keep) and has_library?.  include_library puts its search
\* paths on @library_paths whatever becomes of the library.
CallLibrary(keep, l, f, paths) ==
  /\ Overlap \/ (keep => blocks = << >>)
  /\ Start("library", keep, l, f, paths)
  /\ libraryPaths' = IF keep THEN libraryPaths \cup ToSet(paths) ELSE libraryPaths

\* has_function?
CallFunction(f) ==
  /\ Start("function", FALSE, f, f, << >>)
  /\ UNCHANGED libraryPaths

\* A client's with_headers, with_loaded_libs or with_includes block.
OpenBlock(a, x) ==
  /\ pc = "idle"
  /\ Len(blocks) < MaxBlocks
  /\ Overlap \/ x \notin ToSet(attr[a])
  /\ attr' = Push(attr, a, x)
  /\ blocks' = Append(blocks, [attr |-> a, arg |-> x])
  /\ ret' = "none"
  /\ UNCHANGED <<libraryPaths, defines, call, pc, at, linked, tempFiles>>

CloseBlock ==
  /\ pc = "idle"
  /\ blocks # << >>
  /\ attr' = Pop(attr, blocks[Len(blocks)].attr, blocks[Len(blocks)].arg)
  /\ blocks' = Front(blocks)
  /\ ret' = "none"
  /\ UNCHANGED <<libraryPaths, defines, call, pc, at, linked, tempFiles>>

\* The client leaves blocks by an exception or a `break`:
\* with_stackable_attribute has no `ensure`, so nothing is popped.
AbandonBlocks ==
  /\ Faults
  /\ pc = "idle"
  /\ \E n \in 0 .. Len(blocks) - 1 : blocks' = SubSeq(blocks, 1, n)
  /\ ret' = "none"
  /\ UNCHANGED <<attr, libraryPaths, defines, call, pc, at, linked, tempFiles>>

-----------------------------------------------------------------------------
(* The steps of a call                                                     *)

Return(value) ==
  /\ pc' = "idle"
  /\ ret' = value
  /\ at' = 0
  /\ linked' = FALSE
  /\ UNCHANGED <<libraryPaths, blocks, call, tempFiles>>

\* Mutant of ReturnHeader: the header goes on the list of directories.
ReturnHeaderMislaid(lists) ==
  /\ Return("true")
  /\ defines' = defines \cup {MacroOf[call.arg]}
  /\ attr' = IF call.keep THEN Push(lists, "includes", call.arg) ELSE lists

\* Mutant of ReturnHeader: include_header does not define the macro.
ReturnHeaderUndefined(lists) ==
  /\ Return("true")
  /\ defines' = IF call.keep THEN defines ELSE defines \cup {MacroOf[call.arg]}
  /\ attr' = IF call.keep THEN Push(lists, "headers", call.arg) ELSE lists

\* The answer of has_header? is yes: define the macro; include_header keeps
\* the header.
ReturnHeader(lists) ==
  /\ Return("true")
  /\ defines' = defines \cup {MacroOf[call.arg]}
  /\ attr' = IF call.keep THEN Push(lists, "headers", call.arg) ELSE lists

\* header_already_loaded?
HeaderAlreadyLoaded ==
  /\ pc = "start" /\ call.op = "header"
  /\ call.arg \in ToSet(attr["headers"])
  /\ ReturnHeader(attr)

\* Mutant of TryHeader: the macro is defined before the probe has run.
TryHeaderDefining ==
  /\ pc = "start" /\ call.op = "header"
  /\ call.arg \notin ToSet(attr["headers"])
  /\ attr' = PushProbe(attr, 0)
  /\ defines' = defines \cup {MacroOf[call.arg]}
  /\ pc' = "create"
  /\ UNCHANGED <<libraryPaths, blocks, call, at, linked, ret, tempFiles>>

\* header_can_link? in the default search path
TryHeader ==
  /\ pc = "start" /\ call.op = "header"
  /\ call.arg \notin ToSet(attr["headers"])
  /\ attr' = PushProbe(attr, 0)
  /\ pc' = "create"
  /\ UNCHANGED <<libraryPaths, defines, blocks, call, at, linked, ret, tempFiles>>

\* library_already_loaded?, and the platform where a library is never probed
LibraryAlreadyLoaded ==
  /\ pc = "start" /\ call.op = "library"
  /\ call.arg \in ToSet(attr["loaded_libs"]) \/ Windows
  /\ attr' = IF call.keep THEN Push(attr, "loaded_libs", call.arg) ELSE attr
  /\ Return("true")
  /\ UNCHANGED defines

\* Mutant of TryLibrary: has_function? outside with_loaded_libs.
TryLibraryUnloaded ==
  /\ pc = "start" /\ call.op = "library"
  /\ call.arg \notin ToSet(attr["loaded_libs"]) /\ ~Windows
  /\ pc' = "create"
  /\ UNCHANGED <<attr, libraryPaths, defines, blocks, call, at, linked, ret,
                 tempFiles>>

\* found_library?: has_function? with the library on the list
TryLibrary ==
  /\ pc = "start" /\ call.op = "library"
  /\ call.arg \notin ToSet(attr["loaded_libs"]) /\ ~Windows
  /\ attr' = Push(attr, "loaded_libs", call.arg)
  /\ pc' = "create"
  /\ UNCHANGED <<libraryPaths, defines, blocks, call, at, linked, ret, tempFiles>>

TryFunction ==
  /\ pc = "start" /\ call.op = "function"
  /\ pc' = "create"
  /\ UNCHANGED <<attr, libraryPaths, defines, blocks, call, at, linked, ret,
                 tempFiles>>

\* can_link?: write the probe program ...
CreateSource ==
  /\ pc = "create"
  /\ tempFiles' = tempFiles \cup {"temp_source.c"}
  /\ pc' = "link"
  /\ UNCHANGED <<attr, libraryPaths, defines, blocks, call, at, linked, ret>>

ProbeForm == IF call.op = "header" THEN "include"
             ELSE IF at = 0 THEN "call" ELSE "reference"

ProbeName == IF call.op = "header" THEN call.arg ELSE call.fn

\* Mutant of ProbeLinks: the probe is compiled and not linked.
ProbeCompiles == Compiles(ProbeForm, ProbeName, attr["headers"],
                          ToSet(attr["includes"]))

ProbeLinks == CanLink(ProbeForm, ProbeName, attr["headers"],
                      ToSet(attr["includes"]), ToSet(attr["loaded_libs"]),
                      libraryPaths)

\* ... run the compiler: the value of silence_command_line.  With $debug,
\* `yield and return` returns nil when the command succeeds, and runs it a
\* second time when it fails.
Link ==
  /\ pc = "link"
  /\ tempFiles' = IF ProbeLinks THEN tempFiles \cup {"temp_executable"} ELSE tempFiles
  /\ linked' = (ProbeLinks /\ ~Debug)
  /\ pc' = "ensure"
  /\ UNCHANGED <<attr, libraryPaths, defines, blocks, call, at, ret>>

\* ... and delete both files in the `ensure` clause.
RemoveTempFiles ==
  /\ pc = "ensure"
  /\ tempFiles' = tempFiles \ TempFile
  /\ pc' = "probed"
  /\ UNCHANGED <<attr, libraryPaths, defines, blocks, call, at, linked, ret>>

\* Mutant of HeaderFound: header_found_in_paths? does not keep the directory.
HeaderFoundPathDropped ==
  /\ pc = "probed" /\ call.op = "header"
  /\ linked
  /\ ReturnHeader(PopProbe(attr, at))

\* The header was found: by its search path if at # 0, which
\* header_found_in_paths? then keeps.
HeaderFound ==
  /\ pc = "probed" /\ call.op = "header"
  /\ linked
  /\ LET popped == PopProbe(attr, at)
     IN  ReturnHeader(IF at = 0 THEN popped
                      ELSE Push(popped, "includes", call.paths[at]))

\* Mutant of TryNextPath: the search does not advance.
TryNextPathAgain ==
  /\ pc = "probed" /\ call.op = "header"
  /\ ~linked /\ at < Len(call.paths)
  /\ attr' = PushProbe(PopProbe(attr, at), at)
  /\ pc' = "create"
  /\ UNCHANGED <<libraryPaths, defines, blocks, call, at, linked, ret, tempFiles>>

TryNextPath ==
  /\ pc = "probed" /\ call.op = "header"
  /\ ~linked /\ at < Len(call.paths)
  /\ at' = at + 1
  /\ attr' = PushProbe(PopProbe(attr, at), at + 1)
  /\ pc' = "create"
  /\ UNCHANGED <<libraryPaths, defines, blocks, call, linked, ret, tempFiles>>

\* Mutant of HeaderNotFound: the search may end before the last path.
HeaderNotFoundEarly ==
  /\ pc = "probed" /\ call.op = "header"
  /\ ~linked
  /\ attr' = PopProbe(attr, at)
  /\ Return("false")
  /\ UNCHANGED defines

HeaderNotFound ==
  /\ pc = "probed" /\ call.op = "header"
  /\ ~linked /\ at = Len(call.paths)
  /\ attr' = PopProbe(attr, at)
  /\ Return("false")
  /\ UNCHANGED defines

\* has_function?: simple_call has failed, try simple_reference
TryReference ==
  /\ pc = "probed" /\ call.op \in {"library", "function"}
  /\ ~linked /\ at = 0
  /\ at' = 1
  /\ pc' = "create"
  /\ UNCHANGED <<attr, libraryPaths, defines, blocks, call, linked, ret, tempFiles>>

\* Mutant of FunctionAnswered: the answer of simple_call alone.
FunctionAnsweredByCall ==
  /\ pc = "probed" /\ call.op = "function"
  /\ Return(IF linked THEN "true" ELSE "false")
  /\ UNCHANGED <<attr, defines>>

FunctionAnswered ==
  /\ pc = "probed" /\ call.op = "function"
  /\ linked \/ at = 1
  /\ Return(IF linked THEN "true" ELSE "false")
  /\ UNCHANGED <<attr, defines>>

\* include_library keeps the library it has found
LibraryAnswered ==
  /\ pc = "probed" /\ call.op = "library"
  /\ linked \/ at = 1
  /\ LET popped == Pop(attr, "loaded_libs", call.arg)
     IN  attr' = IF linked /\ call.keep THEN Push(popped, "loaded_libs", call.arg)
                 ELSE popped
  /\ Return(IF linked THEN "true" ELSE "false")
  /\ UNCHANGED defines

\* Mutant of Raise: can_link? without its `ensure`.
RaiseLeavingFiles ==
  /\ Faults
  /\ pc \in {"create", "link"}
  /\ \E n \in 0 .. Len(blocks) : blocks' = SubSeq(blocks, 1, n)
  /\ pc' = "idle"
  /\ ret' = "raised"
  /\ at' = 0
  /\ linked' = FALSE
  /\ UNCHANGED <<attr, libraryPaths, defines, call, tempFiles>>

\* Writing the source or running the compiler raises (no space, an interrupt
\* or a timeout).  can_link? deletes its files on the way out; no list is
\* popped.  The client rescues the exception around any of its open blocks.
Raise ==
  /\ Faults
  /\ pc \in {"create", "link"}
  /\ tempFiles' = tempFiles \ TempFile
  /\ \E n \in 0 .. Len(blocks) : blocks' = SubSeq(blocks, 1, n)
  /\ pc' = "idle"
  /\ ret' = "raised"
  /\ at' = 0
  /\ linked' = FALSE
  /\ UNCHANGED <<attr, libraryPaths, defines, call>>

-----------------------------------------------------------------------------
(* Specification                                                           *)

Init ==
  /\ attr = Options
  /\ libraryPaths = InitLibraryPaths
  /\ defines = {}
  /\ blocks = << >>
  /\ call = [op |-> "none", keep |-> FALSE, arg |-> Main, fn |-> Main, paths |-> << >>]
  /\ pc = "idle"
  /\ at = 0
  /\ linked = FALSE
  /\ ret = "none"
  /\ tempFiles = {}

Client ==
  \/ \E keep \in BOOLEAN, h \in Header, paths \in PathLists : CallHeader(keep, h, paths)
  \/ \E l \in Lib, f \in Func, paths \in PathLists : CallLibrary(TRUE, l, f, paths)
  \/ \E l \in Lib, f \in Func, paths \in LibraryPathLists : CallLibrary(FALSE, l, f, paths)
  \/ \E f \in Func : CallFunction(f)
  \/ \E a \in Attribute : \E x \in ItemsOf(a) : OpenBlock(a, x)
  \/ CloseBlock
  \/ AbandonBlocks

Step ==
  \/ HeaderAlreadyLoaded \/ TryHeader
  \/ LibraryAlreadyLoaded \/ TryLibrary
  \/ TryFunction
  \/ CreateSource \/ Link \/ RemoveTempFiles
  \/ HeaderFound \/ TryNextPath \/ HeaderNotFound
  \/ TryReference \/ FunctionAnswered \/ LibraryAnswered

Next == Client \/ Step \/ Raise

\* A call runs to its end: the interpreter is sequential, and the compiler it
\* waits for is taken to exit.
Spec == Init /\ [][Next]_vars /\ WF_vars(Step)
-----------------------------------------------------------------------------
(* Properties                                                              *)

\* What a list holds apart from what is pushed for the time of a block or of
\* the probe that is running.
InFlight(a) ==
  IF pc \in {"idle", "start"} THEN {}
  ELSE CASE a = "headers"     -> IF call.op = "header" THEN {call.arg} ELSE {}
         [] a = "loaded_libs" -> IF call.op = "library" THEN {call.arg} ELSE {}
         [] a = "includes"    -> IF call.op = "header" /\ at > 0
                                 THEN {call.paths[at]} ELSE {}

Settled(a) == ToSet(attr[a]) \ (BlockArgs(a) \cup InFlight(a))

HeadersFound == \A h \in ToSet(attr["headers"]) : Found(h, ToSet(attr["includes"]))
LibsLink     == \A l \in ToSet(attr["loaded_libs"]) : Linkable(l, libraryPaths)
Healthy      == HeadersFound /\ LibsLink

\* Everything the lists say is available is available to the next probe and
\* to the build: between calls, outside with_ blocks, each header in @headers
\* is found in @includes and each library in @loaded_libs links.  One stale
\* entry makes every later probe fail.
StillUsable == pc = "idle" /\ blocks = << >> => Healthy

\* has_function? answers whether the function can be called with the headers
\* and the libraries that are loaded, where all of these are usable.
FunctionAnswer ==
  call.op = "function" /\ ret \in {"true", "false"} /\ Healthy =>
    (ret = "true" <=>
       Defined(call.fn, ToSet(attr["loaded_libs"]), ToSet(attr["headers"])))

\* A yes of has_function? is true whatever exceptions have left on the lists:
\* all the libraries link, and one of them defines the function.
FunctionYes ==
  call.op = "function" /\ ret = "true" =>
    LibsLink /\ Defined(call.fn, ToSet(attr["loaded_libs"]), ToSet(attr["headers"]))

\* has_header? and include_header answer whether the header is found in the
\* search path or in a directory passed along, where the lists are usable.
HeaderAnswer ==
  call.op = "header" /\ ret \in {"true", "false"} /\ Healthy =>
    (ret = "true" <=>
       Found(call.arg, ToSet(attr["includes"]) \cup ToSet(call.paths)))

\* has_library? and include_library answer whether the library links in the
\* search path or in a directory passed along and provides the function
\* (itself or with what is loaded), where the lists are usable.
LibraryAnswer ==
  call.op = "library" /\ ret \in {"true", "false"} /\ Healthy =>
    (ret = "true" <=>
       \/ call.arg \in ToSet(attr["loaded_libs"])
       \/ /\ Linkable(call.arg, libraryPaths \cup ToSet(call.paths))
          /\ Defined(call.fn, ToSet(attr["loaded_libs"]) \cup {call.arg},
                     ToSet(attr["headers"])))

\* A HAVE_ macro is defined only for a header that was really found (or that
\* the options declare loaded).
MacrosTrue ==
  \A m \in defines : \E h \in Header :
    MacroOf[h] = m /\ (HeaderDirs[h] # {} \/ h \in ToSet(Options["headers"]))

\* Each header a call has put on @headers has its macro: the sources compile
\* against what the probes saw.
MacrosComplete ==
  \A h \in Settled("headers") \ ToSet(Options["headers"]) : MacroOf[h] \in defines

\* Whatever a call ends with - an answer or an exception - it leaves no
\* temporary file behind.
NoStrayTempFiles == pc \notin {"link", "ensure"} => tempFiles = {}

\* Of a client that avoids overlaps: what its blocks and the running probe have
\* pushed is on the lists once, for one reason; the directories still to be
\* tried are not searched yet; and nothing is kept inside a block.
Scoped ==
  /\ IsInjective(blocks)
  /\ \A a \in Attribute :
       /\ BlockArgs(a) \cup InFlight(a) \subseteq ToSet(attr[a])
       /\ BlockArgs(a) \cap InFlight(a) = {}
  /\ pc # "idle" /\ call.op = "header" =>
       (ToSet(call.paths) \ InFlight("includes")) \cap ToSet(attr["includes"]) = {}
  /\ pc # "idle" /\ call.keep => blocks = << >>

\* What calls have established needs nothing that will be popped, and a probe
\* that linked would link again.
Grounded ==
  /\ \A h \in Settled("headers") : Found(h, Settled("includes"))
  /\ \A l \in Settled("loaded_libs") : Linkable(l, libraryPaths)
  /\ linked => pc \in {"ensure", "probed"} /\ ProbeLinks

\* A step never takes away what an earlier call has established.
NothingLost ==
  [][\A a \in Attribute : Settled(a) \subseteq Settled(a)']_vars

\* Every call ends: the search over the paths advances.
EveryCallEnds == pc # "idle" ~> pc = "idle"

\* The calls and the blocks implement AvailabilityContract: what the probes
\* push and pop is never seen, and an answer comes with exactly the changes
\* that belong to it.
Contract == INSTANCE AvailabilityContract WITH
  known <- [a \in Attribute |-> Settled(a)],
  busy  <- pc # "idle"

ImplementsContract == Contract!Spec
=============================================================================
