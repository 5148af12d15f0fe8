------------------------- MODULE AvailabilityContract -------------------------
(***************************************************************************)
(* What Mkrf::Availability promises, without probes: a request is answered *)
(* in one step from what is installed on the machine.  A header or library *)
(* that is kept joins the lists for good, the search path gains a          *)
(* directory only when a header needs it, a denied request changes         *)
(* nothing, and what a with_ block adds is there for the time of the block *)
(* and no longer.                                                          *)
(***************************************************************************)
EXTENDS Toolchain, SequencesExt

CONSTANTS Macro, MacroOf, Options, InitLibraryPaths, PathLists,
          LibraryPathLists, MaxBlocks

Attribute == {"headers", "loaded_libs", "includes"}

ItemsOf(a) == CASE a = "headers"     -> Header
                [] a = "loaded_libs" -> Lib
                [] a = "includes"    -> Dir

VARIABLES
  known,        \* what calls have established, for each attribute
  libraryPaths, \* where libraries are searched
  defines,      \* the macros to compile with
  blocks,       \* the open with_ blocks, outermost first
  call,         \* the request in progress, or the last one
  busy,         \* is a request in progress?
  ret           \* the answer to the last one

vars == <<known, libraryPaths, defines, blocks, call, busy, ret>>

\* What is in sight: the lists and the additions of the open blocks.
Visible(a) ==
  known[a] \cup {blocks[k].arg : k \in {n \in DOMAIN blocks : blocks[n].attr = a}}

Healthy ==
  /\ \A h \in Visible("headers") : Found(h, Visible("includes"))
  /\ \A l \in Visible("loaded_libs") : Linkable(l, libraryPaths)

Available ==
  CASE call.op = "header" ->
         \/ call.arg \in Visible("headers")
         \/ Found(call.arg, Visible("includes") \cup ToSet(call.paths))
    [] call.op = "library" ->
         \/ call.arg \in Visible("loaded_libs")
         \/ /\ Linkable(call.arg, libraryPaths \cup ToSet(call.paths))
            /\ Defined(call.fn, Visible("loaded_libs") \cup {call.arg},
                       Visible("headers"))
    [] call.op = "function" ->
         Defined(call.fn, Visible("loaded_libs"), Visible("headers"))

\* The directories a header may make the search path grow by: the first of
\* those passed along that holds it, if the search path does not.  (Where an
\* entry in sight is unusable, the one that mends it may join too.)
Gains ==
  IF call.op # "header" \/ call.arg \in Visible("headers") THEN {{}}
  ELSE IF ~Healthy THEN {{}} \cup {{d} : d \in ToSet(call.paths)}
  ELSE IF Found(call.arg, Visible("includes")) THEN {{}}
  ELSE LET holds(k) == call.paths[k] \in HeaderDirs[call.arg]
       IN  {{call.paths[k]} :
              k \in {n \in DOMAIN call.paths : holds(n) /\ \A m \in 1 .. n - 1 : ~holds(m)}}

-----------------------------------------------------------------------------
Ask(op, keep, arg, fn, paths) ==
  /\ ~busy
  /\ busy' = TRUE
  /\ call' = [op |-> op, keep |-> keep, arg |-> arg, fn |-> fn, paths |-> paths]
  /\ ret' = "none"
  /\ libraryPaths' = IF op = "library" /\ keep
                     THEN libraryPaths \cup ToSet(paths) ELSE libraryPaths
  /\ UNCHANGED <<known, defines, blocks>>

Confirm ==
  /\ busy
  /\ Available
  /\ \E gained \in Gains : known' = [known EXCEPT
       !["headers"]     = @ \cup IF call.op = "header" /\ call.keep
                                 THEN {call.arg} ELSE {},
       !["loaded_libs"] = @ \cup IF call.op = "library" /\ call.keep
                                 THEN {call.arg} ELSE {},
       !["includes"]    = @ \cup gained]
  /\ defines' = IF call.op = "header" THEN defines \cup {MacroOf[call.arg]}
                ELSE defines
  /\ busy' = FALSE
  /\ ret' = "true"
  /\ UNCHANGED <<libraryPaths, blocks, call>>

\* A request may also be denied while an unusable entry is in sight: nothing
\* compiles then.
Deny ==
  /\ busy
  /\ ~Available \/ ~Healthy
  /\ busy' = FALSE
  /\ ret' = "false"
  /\ UNCHANGED <<known, libraryPaths, defines, blocks, call>>

OpenBlock(a, x) ==
  /\ ~busy
  /\ Len(blocks) < MaxBlocks
  /\ blocks' = Append(blocks, [attr |-> a, arg |-> x])
  /\ ret' = "none"
  /\ UNCHANGED <<known, libraryPaths, defines, call, busy>>

CloseBlock ==
  /\ ~busy
  /\ blocks # << >>
  /\ blocks' = Front(blocks)
  /\ ret' = "none"
  /\ UNCHANGED <<known, libraryPaths, defines, call, busy>>

Init ==
  /\ known = [a \in Attribute |-> ToSet(Options[a])]
  /\ libraryPaths = InitLibraryPaths
  /\ defines = {}
  /\ blocks = << >>
  /\ call = [op |-> "none", keep |-> FALSE, arg |-> Main, fn |-> Main, paths |-> << >>]
  /\ busy = FALSE
  /\ ret = "none"

Next ==
  \/ \E keep \in BOOLEAN, h \in Header, paths \in PathLists :
       Ask("header", keep, h, Main, paths)
  \/ \E l \in Lib, f \in Func, paths \in PathLists : Ask("library", TRUE, l, f, paths)
  \/ \E l \in Lib, f \in Func, paths \in LibraryPathLists :
       Ask("library", FALSE, l, f, paths)
  \/ \E f \in Func : Ask("function", FALSE, f, f, << >>)
  \/ Confirm
  \/ Deny
  \/ \E a \in Attribute : \E x \in ItemsOf(a) : OpenBlock(a, x)
  \/ CloseBlock

Spec == Init /\ [][Next]_vars /\ WF_vars(Confirm \/ Deny)
=============================================================================
