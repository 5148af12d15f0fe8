----------------------- MODULE AvailabilityScopes_proofs -----------------------
(***************************************************************************)
(* Proofs about what blocks and probes push on the lists of Availability:  *)
(* that no temporary file outlives its probe, that nothing a call has      *)
(* established is lost, and that the lists stay usable.                    *)
(***************************************************************************)
EXTENDS Availability_proofs

-----------------------------------------------------------------------------
(* Temporary files                                                         *)

\* can_link?'s `ensure` clause: no temporary file is left once a probe is over,
\* whether it ended with an answer or with an exception.
THEOREM NoFileOutlivesItsProbe == Spec => []NoStrayTempFiles
<1>1. Init => NoStrayTempFiles
  BY DEF Init, NoStrayTempFiles
<1>2. TypeOK /\ NoStrayTempFiles /\ [Next]_vars => NoStrayTempFiles'
  <2> SUFFICES ASSUME TypeOK, NoStrayTempFiles, [Next]_vars
               PROVE  NoStrayTempFiles'
    OBVIOUS
  <2>1. tempFiles \subseteq TempFile
    BY DEF TypeOK
  <2> USE DEF NoStrayTempFiles
  <2>2. CASE Client
    BY <2>2 DEF Client, CallHeader, CallLibrary, CallFunction, Start, OpenBlock,
                CloseBlock, AbandonBlocks
  <2>3. CASE CreateSource \/ Link
    BY <2>3 DEF CreateSource, Link
  <2>4. CASE RemoveTempFiles \/ Raise
    BY <2>1, <2>4 DEF RemoveTempFiles, Raise
  <2>5. CASE HeaderAlreadyLoaded \/ LibraryAlreadyLoaded \/ FunctionAnswered
             \/ LibraryAnswered \/ HeaderFound \/ HeaderNotFound
    BY <2>5 DEF HeaderAlreadyLoaded, LibraryAlreadyLoaded, FunctionAnswered,
                LibraryAnswered, HeaderFound, HeaderNotFound, ReturnHeader, Return
  <2>6. CASE TryHeader \/ TryLibrary \/ TryFunction \/ TryNextPath \/ TryReference
    BY <2>6 DEF TryHeader, TryLibrary, TryFunction, TryNextPath, TryReference
  <2>7. CASE UNCHANGED vars
    BY <2>7 DEF vars
  <2> QED
    BY <2>2, <2>3, <2>4, <2>5, <2>6, <2>7 DEF Next, Step
<1> QED
  BY <1>1, <1>2, TypeCorrect, PTL DEF Spec

-----------------------------------------------------------------------------
(* What is in flight                                                       *)

\* The lists are the three that exist.
LEMMA ThreeLists ==
  /\ Attribute = {"headers", "loaded_libs", "includes"}
  /\ ItemsOf("headers") = Header
  /\ ItemsOf("loaded_libs") = Lib
  /\ ItemsOf("includes") = Dir
BY DEF Attribute, ItemsOf

\* A request that has not begun to probe, or is over, has nothing in flight.
LEMMA NothingInFlight ==
  pc \in {"idle", "start"} => \A a \in Attribute : InFlight(a) = {}
BY DEF InFlight

\* A header probe has its header in flight, and the search path it tries.
LEMMA HeaderInFlight ==
  ASSUME TypeOK, pc \notin {"idle", "start"}, call.op = "header"
  PROVE  /\ InFlight("headers") = {call.arg}
         /\ InFlight("loaded_libs") = {}
         /\ InFlight("includes") = ProbeDirs(at)
BY DEF TypeOK, InFlight, ProbeDirs

\* A library probe has its library in flight.
LEMMA LibraryInFlight ==
  ASSUME pc \notin {"idle", "start"}, call.op = "library"
  PROVE  /\ InFlight("headers") = {}
         /\ InFlight("loaded_libs") = {call.arg}
         /\ InFlight("includes") = {}
BY DEF InFlight

\* A function probe has nothing.
LEMMA FunctionInFlight ==
  ASSUME call.op = "function"
  PROVE  \A a \in Attribute : InFlight(a) = {}
BY DEF InFlight, Attribute

\* A push takes nothing away.
LEMMA PushGrows ==
  ASSUME NEW lists, IsLists(lists), NEW a \in Attribute, NEW x \in ItemsOf(a)
  PROVE  /\ IsLists(Push(lists, a, x))
         /\ \A b \in Attribute : ToSet(lists[b]) \subseteq ToSet(Push(lists, a, x)[b])
BY PushProperties

\* A library is pushed on @loaded_libs alone.
LEMMA PushLibrary ==
  ASSUME NEW lists, IsLists(lists), NEW l \in Lib
  PROVE  /\ IsLists(Push(lists, "loaded_libs", l))
         /\ ToSet(Push(lists, "loaded_libs", l)["loaded_libs"])
              = ToSet(lists["loaded_libs"]) \cup {l}
         /\ Push(lists, "loaded_libs", l)["headers"] = lists["headers"]
         /\ Push(lists, "loaded_libs", l)["includes"] = lists["includes"]
<1>1. /\ "loaded_libs" \in Attribute /\ l \in ItemsOf("loaded_libs")
      /\ "headers" \in Attribute \ {"loaded_libs"}
      /\ "includes" \in Attribute \ {"loaded_libs"}
  BY ThreeLists
<1>2. /\ IsLists(Push(lists, "loaded_libs", l))
      /\ ToSet(Push(lists, "loaded_libs", l)["loaded_libs"])
              = ToSet(lists["loaded_libs"]) \cup {l}
      /\ \A b \in Attribute \ {"loaded_libs"} : Push(lists, "loaded_libs", l)[b] = lists[b]
  BY <1>1, PushProperties
<1> QED
  BY <1>1, <1>2

\* A header on @headers alone.
LEMMA PushHeader ==
  ASSUME NEW lists, IsLists(lists), NEW h \in Header
  PROVE  /\ IsLists(Push(lists, "headers", h))
         /\ ToSet(Push(lists, "headers", h)["headers"]) = ToSet(lists["headers"]) \cup {h}
         /\ Push(lists, "headers", h)["loaded_libs"] = lists["loaded_libs"]
         /\ Push(lists, "headers", h)["includes"] = lists["includes"]
<1>1. /\ "headers" \in Attribute /\ h \in ItemsOf("headers")
      /\ "loaded_libs" \in Attribute \ {"headers"}
      /\ "includes" \in Attribute \ {"headers"}
  BY ThreeLists
<1>2. /\ IsLists(Push(lists, "headers", h))
      /\ ToSet(Push(lists, "headers", h)["headers"]) = ToSet(lists["headers"]) \cup {h}
      /\ \A b \in Attribute \ {"headers"} : Push(lists, "headers", h)[b] = lists[b]
  BY <1>1, PushProperties
<1> QED
  BY <1>1, <1>2

\* And popped from there.
LEMMA PopLibrary ==
  ASSUME NEW lists, IsLists(lists), NEW l
  PROVE  /\ IsLists(Pop(lists, "loaded_libs", l))
         /\ ToSet(Pop(lists, "loaded_libs", l)["loaded_libs"])
              = ToSet(lists["loaded_libs"]) \ {l}
         /\ Pop(lists, "loaded_libs", l)["headers"] = lists["headers"]
         /\ Pop(lists, "loaded_libs", l)["includes"] = lists["includes"]
<1>1. /\ "loaded_libs" \in Attribute
      /\ "headers" \in Attribute \ {"loaded_libs"}
      /\ "includes" \in Attribute \ {"loaded_libs"}
  BY ThreeLists
<1>2. /\ IsLists(Pop(lists, "loaded_libs", l))
      /\ ToSet(Pop(lists, "loaded_libs", l)["loaded_libs"])
              = ToSet(lists["loaded_libs"]) \ {l}
      /\ \A b \in Attribute \ {"loaded_libs"} : Pop(lists, "loaded_libs", l)[b] = lists[b]
  BY <1>1, PopProperties
<1> QED
  BY <1>1, <1>2

-----------------------------------------------------------------------------
(* The steps of a call respect the scopes                                  *)

\* What calls have established stays, and nothing joins it.
Keeps  == \A a \in Attribute : Settled(a) \subseteq Settled(a)'
Steady == \A a \in Attribute : Settled(a)' = Settled(a)

\* The end of a request: if it leaves on the lists what was settled and what
\* blocks have pushed, and the probe's own pushes are gone or kept for good,
\* the scopes are in order.
LEMMA ReturnScopes ==
  ASSUME TypeOK, Scoped, NEW value, Return(value),
         \A a \in Attribute : ToSet(attr[a]) \ InFlight(a) \subseteq ToSet(attr'[a])
  PROVE  Scoped' /\ Keeps
<1>1. pc' = "idle" /\ blocks' = blocks
  BY DEF Return
<1>2. \A a \in Attribute : InFlight(a)' = {}
  BY <1>1 DEF InFlight
<1>3. \A a \in Attribute : BlockArgs(a)' = BlockArgs(a)
  BY <1>1 DEF BlockArgs
<1>4. Scoped'
  BY <1>1, <1>2, <1>3 DEF Scoped
<1>5. Keeps
  BY <1>2, <1>3 DEF Keeps, Settled
<1> QED
  BY <1>4, <1>5

\* A push of what was not on the list is in flight, and in no block's way.
LEMMA TryHeaderScopes ==
  ASSUME TypeOK, Scoped, TryHeader
  PROVE  Scoped' /\ Steady
<1>1. /\ pc = "start" /\ pc' = "create"
      /\ call' = call /\ call.op = "header" /\ call.arg \in Header
      /\ call.arg \notin ToSet(attr["headers"])
      /\ blocks' = blocks /\ at' = 0
  BY DEF TryHeader, TypeOK
<1>2. /\ ToSet(attr'["headers"]) = ToSet(attr["headers"]) \cup {call.arg}
      /\ ToSet(attr'["includes"]) = ToSet(attr["includes"])
      /\ ToSet(attr'["loaded_libs"]) = ToSet(attr["loaded_libs"])
  <2>1. IsLists(attr) /\ attr' = PushProbe(attr, 0) /\ ProbeDirs(0) = {}
    BY DEF TryHeader, TypeOK, ProbeDirs
  <2>2. /\ ToSet(PushProbe(attr, 0)["headers"]) = ToSet(attr["headers"]) \cup {call.arg}
        /\ ToSet(PushProbe(attr, 0)["includes"]) = ToSet(attr["includes"]) \cup ProbeDirs(0)
        /\ PushProbe(attr, 0)["loaded_libs"] = attr["loaded_libs"]
    BY <1>1, <2>1, PushProbeProperties
  <2> QED
    BY <2>1, <2>2
<1>3. \A a \in Attribute : InFlight(a) = {} /\ BlockArgs(a)' = BlockArgs(a)
  BY <1>1, NothingInFlight DEF BlockArgs
<1>4. /\ InFlight("headers")' = {call.arg}
      /\ InFlight("loaded_libs")' = {}
      /\ InFlight("includes")' = {}
  BY <1>1 DEF InFlight
<1>5. Scoped'
  BY <1>1, <1>2, <1>3, <1>4, ThreeLists DEF Scoped
<1>6. Steady
  BY <1>1, <1>2, <1>3, <1>4, ThreeLists DEF Steady, Settled
<1> QED
  BY <1>5, <1>6

LEMMA TryLibraryScopes ==
  ASSUME TypeOK, Scoped, TryLibrary
  PROVE  Scoped' /\ Steady
<1>1. /\ pc = "start" /\ pc' = "create"
      /\ call' = call /\ call.op = "library" /\ call.arg \in Lib
      /\ call.arg \notin ToSet(attr["loaded_libs"])
      /\ blocks' = blocks
  BY DEF TryLibrary, TypeOK
<1>2. /\ ToSet(attr'["loaded_libs"]) = ToSet(attr["loaded_libs"]) \cup {call.arg}
      /\ attr'["headers"] = attr["headers"]
      /\ attr'["includes"] = attr["includes"]
  BY <1>1, PushLibrary DEF TryLibrary, TypeOK
<1>3. \A a \in Attribute : InFlight(a) = {} /\ BlockArgs(a)' = BlockArgs(a)
  BY <1>1, NothingInFlight DEF BlockArgs
<1>4. /\ InFlight("headers")' = {}
      /\ InFlight("loaded_libs")' = {call.arg}
      /\ InFlight("includes")' = {}
  BY <1>1 DEF InFlight
<1>5. Scoped'
  BY <1>1, <1>2, <1>3, <1>4, ThreeLists DEF Scoped
<1>6. Steady
  BY <1>1, <1>2, <1>3, <1>4, ThreeLists DEF Steady, Settled
<1> QED
  BY <1>5, <1>6

\* The next search path takes the place of the last one.
LEMMA TryNextPathScopes ==
  ASSUME TypeOK, Scoped, TryNextPath
  PROVE  Scoped' /\ Steady
<1> DEFINE popped == PopProbe(attr, at)
           p == call.paths[at + 1]
<1>1. /\ pc = "probed" /\ pc' = "create"
      /\ call' = call /\ call.op = "header" /\ call.arg \in Header
      /\ blocks' = blocks /\ at' = at + 1 /\ at \in Nat /\ at < Len(call.paths)
      /\ attr' = PushProbe(popped, at + 1)
  BY DEF TryNextPath, TypeOK
<1>2. p \in Dir /\ p \in ToSet(call.paths)
  <2>1. call.paths \in Seq(Dir)
    BY DEF TypeOK, Request
  <2>2. at + 1 \in 1 .. Len(call.paths) /\ DOMAIN call.paths = 1 .. Len(call.paths)
    BY <1>1, <2>1, LenProperties
  <2> QED
    BY <2>1, <2>2, ElementOfSeq DEF ToSet
<1>3. /\ IsLists(popped)
      /\ ToSet(popped["headers"]) = ToSet(attr["headers"]) \ {call.arg}
      /\ ToSet(popped["includes"]) = ToSet(attr["includes"]) \ ProbeDirs(at)
      /\ popped["loaded_libs"] = attr["loaded_libs"]
  BY <1>1, PopProbeProperties DEF TypeOK
<1> HIDE DEF popped
<1>4. /\ at + 1 # 0 /\ at + 1 \in Nat
      /\ ProbeDirs(at + 1) = {p}
  BY <1>1 DEF ProbeDirs
<1>5. /\ ToSet(attr'["headers"]) = ToSet(popped["headers"]) \cup {call.arg}
      /\ ToSet(attr'["includes"]) = ToSet(popped["includes"]) \cup {p}
      /\ attr'["loaded_libs"] = popped["loaded_libs"]
  <2>1. /\ ToSet(PushProbe(popped, at + 1)["headers"]) = ToSet(popped["headers"]) \cup {call.arg}
        /\ ToSet(PushProbe(popped, at + 1)["includes"])
             = ToSet(popped["includes"]) \cup ProbeDirs(at + 1)
        /\ PushProbe(popped, at + 1)["loaded_libs"] = popped["loaded_libs"]
    BY <1>1, <1>2, <1>3, <1>4, PushProbeProperties
  <2> QED
    BY <1>1, <1>4, <2>1
<1>6. /\ InFlight("headers") = {call.arg}
      /\ InFlight("loaded_libs") = {}
      /\ InFlight("includes") = ProbeDirs(at)
  BY <1>1, HeaderInFlight
<1>7. /\ InFlight("headers")' = {call.arg}
      /\ InFlight("loaded_libs")' = {}
      /\ InFlight("includes")' = {p}
  BY <1>1 DEF InFlight
<1>8. \A a \in Attribute : BlockArgs(a)' = BlockArgs(a)
  BY <1>1 DEF BlockArgs
<1> HIDE DEF p
<1>9. p \in ProbeDirs(at) \/ p \notin ToSet(attr["includes"])
  BY <1>1, <1>2, <1>6 DEF Scoped
<1>10. Scoped'
  <2>1. \A a \in Attribute :
          /\ BlockArgs(a)' \cup InFlight(a)' \subseteq ToSet(attr'[a])
          /\ BlockArgs(a)' \cap InFlight(a)' = {}
    BY <1>3, <1>5, <1>6, <1>7, <1>8, <1>9, ThreeLists DEF Scoped
  <2>2. (ToSet(call'.paths) \ InFlight("includes")') \cap ToSet(attr'["includes"]) = {}
    BY <1>1, <1>3, <1>5, <1>6, <1>7 DEF Scoped
  <2> QED
    BY <1>1, <2>1, <2>2 DEF Scoped
<1>11. Steady
  BY <1>3, <1>5, <1>6, <1>7, <1>8, <1>9, ThreeLists DEF Steady, Settled
<1> QED
  BY <1>10, <1>11

LEMMA StepScopes ==
  ASSUME TypeOK, Scoped, Step
  PROVE  Scoped' /\ Keeps
<1> DEFINE Held(a) == ToSet(attr[a])
<1>1. /\ IsLists(attr)
      /\ call.op = "header" => call.arg \in Header
      /\ call.op = "library" => call.arg \in Lib
      /\ at \in Nat /\ call.paths \in Seq(Dir) /\ Len(call.paths) \in Nat
      /\ call.op = "header" => at <= Len(call.paths)
      /\ \A i \in 1 .. Len(call.paths) : call.paths[i] \in Dir /\ call.paths[i] \in ToSet(call.paths)
  BY LenProperties, ElementOfSeq DEF TypeOK, Request, ToSet
<1>2. ASSUME UNCHANGED <<attr, blocks, call>>,
             \A a \in Attribute : InFlight(a)' = InFlight(a),
             pc # "idle"
      PROVE  Scoped' /\ Keeps
  <2>1. \A a \in Attribute : BlockArgs(a)' = BlockArgs(a)
    BY <1>2 DEF BlockArgs
  <2>2. \A a \in Attribute : Settled(a)' = Settled(a)
    BY <1>2, <2>1 DEF Settled
  <2> QED
    BY <1>2, <2>1, <2>2, ThreeLists DEF Scoped, Keeps
<1>3. CASE CreateSource \/ Link \/ RemoveTempFiles
  <2>1. /\ UNCHANGED <<attr, blocks, call, at>>
        /\ pc \notin {"idle", "start"} /\ pc' \notin {"idle", "start"}
    BY <1>3 DEF CreateSource, Link, RemoveTempFiles
  <2>2. \A a \in Attribute : InFlight(a)' = InFlight(a)
    BY <2>1, ThreeLists DEF InFlight
  <2> QED
    BY <1>2, <2>1, <2>2
<1>4. CASE TryFunction \/ TryReference
  BY <1>2, <1>4, ThreeLists DEF TryFunction, TryReference, InFlight
<1>5. CASE FunctionAnswered
  BY <1>5, ReturnScopes DEF FunctionAnswered
<1>6. CASE HeaderAlreadyLoaded
  <2>1. /\ attr' = IF call.keep THEN Push(attr, "headers", call.arg) ELSE attr
        /\ call.arg \in ItemsOf("headers")
        /\ Return("true")
    BY <1>1, <1>6, ThreeLists DEF HeaderAlreadyLoaded, ReturnHeader
  <2>2. CASE call.keep
    <3>1. "headers" \in Attribute /\ IsLists(attr) /\ call.arg \in ItemsOf("headers")
      BY <1>1, <2>1, ThreeLists
    <3>2. \A a \in Attribute : ToSet(attr[a]) \subseteq ToSet(Push(attr, "headers", call.arg)[a])
      BY <3>1, PushGrows
    <3> QED
      BY <2>1, <2>2, <3>2, ReturnScopes
  <2>3. CASE ~call.keep
    BY <2>1, <2>3, ReturnScopes
  <2> QED
    BY <2>2, <2>3
<1>7. CASE LibraryAlreadyLoaded
  <2>1. /\ attr' = IF call.keep THEN Push(attr, "loaded_libs", call.arg) ELSE attr
        /\ call.arg \in Lib
        /\ Return("true")
    BY <1>1, <1>7 DEF LibraryAlreadyLoaded
  <2>2. \A a \in Attribute : Held(a) \subseteq ToSet(attr'[a])
    BY <1>1, <2>1, ThreeLists, PushLibrary
  <2> QED
    BY <2>1, <2>2, ReturnScopes
<1>8. CASE TryHeader
  BY <1>8, TryHeaderScopes DEF Steady, Keeps
<1>9. CASE TryLibrary
  BY <1>9, TryLibraryScopes DEF Steady, Keeps
<1>10. CASE TryNextPath
  BY <1>10, TryNextPathScopes DEF Steady, Keeps
<1>11. CASE HeaderFound
  <2> DEFINE popped == PopProbe(attr, at)
             kept == IF at = 0 THEN popped ELSE Push(popped, "includes", call.paths[at])
  <2>1. /\ call.op = "header" /\ pc = "probed"
        /\ attr' = IF call.keep THEN Push(kept, "headers", call.arg) ELSE kept
        /\ Return("true")
    BY <1>11 DEF HeaderFound, ReturnHeader
  <2>2. /\ IsLists(popped)
        /\ \A a \in Attribute : Held(a) \ InFlight(a) \subseteq ToSet(popped[a])
    BY <1>1, <2>1, ThreeLists, PopProbeProperties, HeaderInFlight
  <2> HIDE DEF popped
  <2>3. /\ IsLists(kept)
        /\ \A a \in Attribute : ToSet(popped[a]) \subseteq ToSet(kept[a])
    <3>1. at # 0 => call.paths[at] \in ItemsOf("includes")
      BY <1>1, <2>1, ThreeLists
    <3> QED
      BY <2>2, <3>1, ThreeLists, PushProperties
  <2> HIDE DEF kept
  <2>4. \A a \in Attribute : ToSet(kept[a]) \subseteq ToSet(attr'[a])
    <3>1. call.arg \in ItemsOf("headers")
      BY <1>1, <2>1, ThreeLists
    <3> QED
      BY <2>1, <2>3, <3>1, ThreeLists, PushProperties
  <2>5. \A a \in Attribute : Held(a) \ InFlight(a) \subseteq ToSet(attr'[a])
    BY <2>2, <2>3, <2>4
  <2> QED
    BY <2>1, <2>5, ReturnScopes
<1>12. CASE HeaderNotFound
  <2>1. /\ call.op = "header" /\ pc = "probed"
        /\ attr' = PopProbe(attr, at)
        /\ Return("false")
    BY <1>12 DEF HeaderNotFound
  <2>2. \A a \in Attribute : Held(a) \ InFlight(a) \subseteq ToSet(attr'[a])
    BY <1>1, <2>1, ThreeLists, PopProbeProperties, HeaderInFlight
  <2> QED
    BY <2>1, <2>2, ReturnScopes
<1>13. CASE LibraryAnswered
  <2> DEFINE popped == Pop(attr, "loaded_libs", call.arg)
  <2>1. /\ call.op = "library" /\ pc = "probed"
        /\ attr' = IF linked /\ call.keep THEN Push(popped, "loaded_libs", call.arg)
                   ELSE popped
        /\ \E value \in {"true", "false"} : Return(value)
    BY <1>13 DEF LibraryAnswered
  <2>2. /\ IsLists(popped)
        /\ \A a \in Attribute : Held(a) \ InFlight(a) \subseteq ToSet(popped[a])
    <3>1. /\ IsLists(popped)
          /\ ToSet(popped["loaded_libs"]) = Held("loaded_libs") \ {call.arg}
          /\ popped["headers"] = attr["headers"]
          /\ popped["includes"] = attr["includes"]
      BY <1>1, PopLibrary
    <3>2. InFlight("loaded_libs") = {call.arg}
      BY <2>1, LibraryInFlight
    <3> HIDE DEF popped
    <3> QED
      BY <3>1, <3>2, ThreeLists
  <2> HIDE DEF popped
  <2>3. \A a \in Attribute : ToSet(popped[a]) \subseteq ToSet(attr'[a])
    <3>1. call.arg \in Lib
      BY <1>1, <2>1
    <3> QED
      BY <2>1, <2>2, <3>1, ThreeLists, PushLibrary
  <2>4. \A a \in Attribute : Held(a) \ InFlight(a) \subseteq ToSet(attr'[a])
    BY <2>2, <2>3
  <2> QED
    BY <2>1, <2>4, ReturnScopes
<1> QED
  BY <1>3, <1>4, <1>5, <1>6, <1>7, <1>8, <1>9, <1>10, <1>11, <1>12, <1>13 DEF Step

-----------------------------------------------------------------------------
(* Careful clients respect the scopes                                      *)

\* Leaving blocks takes their arguments out of the scopes, and no others.
LEMMA LeavingBlocks ==
  ASSUME TypeOK, IsInjective(blocks), NEW n \in 0 .. Len(blocks),
         blocks' = SubSeq(blocks, 1, n)
  PROVE  /\ IsInjective(blocks')
         /\ \A a \in Attribute : BlockArgs(a)' \subseteq BlockArgs(a)
<1>1. /\ DOMAIN blocks = 1 .. Len(blocks) /\ Len(blocks) \in Nat
      /\ DOMAIN blocks' = 1 .. n
      /\ \A k \in 1 .. n : k \in 1 .. Len(blocks) /\ blocks'[k] = blocks[k]
  BY BlockPrefix, LenProperties DEF TypeOK
<1>2. IsInjective(blocks')
  BY <1>1 DEF IsInjective
<1>3. \A a \in Attribute : BlockArgs(a)' \subseteq BlockArgs(a)
  BY <1>1 DEF BlockArgs
<1> QED
  BY <1>2, <1>3

\* An exception leaves on the lists what was in flight or in its blocks.
LEMMA UnwindingScopes ==
  ASSUME TypeOK, Scoped, UNCHANGED attr, pc' = "idle",
         NEW n \in 0 .. Len(blocks), blocks' = SubSeq(blocks, 1, n)
  PROVE  Scoped' /\ Keeps
<1>1. /\ IsInjective(blocks')
      /\ \A a \in Attribute : BlockArgs(a)' \subseteq BlockArgs(a)
  BY LeavingBlocks DEF Scoped
<1>2. \A a \in Attribute : InFlight(a)' = {}
  BY DEF InFlight
<1>3. Scoped'
  BY <1>1, <1>2 DEF Scoped
<1>4. Keeps
  BY <1>1, <1>2 DEF Keeps, Settled
<1> QED
  BY <1>3, <1>4

LEMMA OpenBlockScopes ==
  ASSUME TypeOK, Scoped, ~Overlap,
         NEW a \in Attribute, NEW x \in ItemsOf(a), OpenBlock(a, x)
  PROVE  Scoped' /\ Steady
<1> DEFINE b == [attr |-> a, arg |-> x]
           n == Len(blocks)
<1>1. /\ pc = "idle" /\ pc' = "idle"
      /\ x \notin ToSet(attr[a])
      /\ IsLists(attr) /\ attr' = Push(attr, a, x)
      /\ blocks \in Seq(Block) /\ blocks' = Append(blocks, b)
  BY DEF OpenBlock, TypeOK
<1>2. /\ ToSet(attr'[a]) = ToSet(attr[a]) \cup {x}
      /\ \A c \in Attribute \ {a} : attr'[c] = attr[c]
  BY <1>1, PushProperties
<1>3. b \in Block /\ b.attr = a /\ b.arg = x
  BY ItemsAreItems DEF Block
<1> HIDE DEF b
<1>4. /\ n \in Nat /\ DOMAIN blocks = 1 .. n /\ DOMAIN blocks' = 1 .. n + 1
      /\ \A k \in 1 .. n : blocks'[k] = blocks[k]
      /\ blocks'[n + 1] = b
  BY <1>1, <1>3, AppendProperties, LenProperties
<1> HIDE DEF n
<1>5. x \notin BlockArgs(a)
  BY <1>1 DEF Scoped
<1>6. \A k \in 1 .. n : blocks[k] # b
  BY <1>3, <1>4, <1>5 DEF BlockArgs
<1>7. IsInjective(blocks')
  BY <1>4, <1>6 DEF Scoped, IsInjective
<1>8. /\ BlockArgs(a)' = BlockArgs(a) \cup {x}
      /\ \A c \in Attribute \ {a} : BlockArgs(c)' = BlockArgs(c)
  BY <1>3, <1>4 DEF BlockArgs
<1>9. \A c \in Attribute : InFlight(c) = {} /\ InFlight(c)' = {}
  BY <1>1 DEF InFlight
<1>10. Scoped'
  BY <1>1, <1>2, <1>7, <1>8, <1>9 DEF Scoped
<1>11. Steady
  BY <1>1, <1>2, <1>8, <1>9 DEF Steady, Settled
<1> QED
  BY <1>10, <1>11

LEMMA CloseBlockScopes ==
  ASSUME TypeOK, Scoped, CloseBlock
  PROVE  Scoped' /\ Steady
<1>1. PICK n \in Nat \ {0} : n = Len(blocks)
  BY EmptySeq, LenProperties DEF CloseBlock, TypeOK
<1>2. /\ pc = "idle" /\ pc' = "idle"
      /\ blocks \in Seq(Block) /\ DOMAIN blocks = 1 .. n
      /\ blocks' = SubSeq(blocks, 1, n - 1)
      /\ n \in 1 .. n /\ n - 1 \in 0 .. Len(blocks)
      /\ IsLists(attr) /\ attr' = Pop(attr, blocks[n].attr, blocks[n].arg)
  BY <1>1, LenProperties DEF CloseBlock, TypeOK, Front
<1>3. PICK a \in Attribute, x \in Item : blocks[n] = [attr |-> a, arg |-> x]
  <2>1. blocks[n] \in Block
    BY <1>1, <1>2, ElementOfSeq
  <2> QED
    BY <2>1 DEF Block
<1>4. /\ ToSet(attr'[a]) = ToSet(attr[a]) \ {x}
      /\ \A c \in Attribute \ {a} : attr'[c] = attr[c]
  <2>1. attr' = Pop(attr, a, x)
    BY <1>2, <1>3
  <2> QED
    BY <1>2, <2>1, PopProperties
<1>5. /\ IsInjective(blocks')
      /\ \A c \in Attribute : BlockArgs(c)' \subseteq BlockArgs(c)
      /\ \A c \in Attribute : BlockArgs(c) \subseteq BlockArgs(c)' \cup (IF c = a THEN {x} ELSE {})
  <2>1. DOMAIN blocks' = 1 .. n - 1 /\ \A k \in 1 .. n - 1 : blocks'[k] = blocks[k]
    BY <1>2, BlockPrefix DEF TypeOK
  <2>2. \A k \in 1 .. n : k = n \/ k \in 1 .. n - 1
    BY <1>1
  <2>3. ASSUME NEW c \in Attribute, NEW k \in 1 .. n, blocks[k].attr = c
        PROVE  blocks[k].arg \in BlockArgs(c)' \cup (IF c = a THEN {x} ELSE {})
    <3>1. CASE k = n
      BY <1>3, <2>3, <3>1
    <3>2. CASE k \in 1 .. n - 1
      BY <2>1, <2>3, <3>2 DEF BlockArgs
    <3> QED
      BY <2>2, <3>1, <3>2
  <2>4. \A c \in Attribute : BlockArgs(c) \subseteq BlockArgs(c)' \cup (IF c = a THEN {x} ELSE {})
    BY <1>2, <2>3 DEF BlockArgs
  <2> QED
    BY <1>2, <2>4, LeavingBlocks DEF Scoped
<1>6. x \in BlockArgs(a)
  BY <1>2, <1>3 DEF BlockArgs
<1>7. x \notin BlockArgs(a)'
  <2>1. DOMAIN blocks' = 1 .. n - 1 /\ \A k \in 1 .. n - 1 : blocks'[k] = blocks[k]
    BY <1>2, BlockPrefix DEF TypeOK
  <2>2. ASSUME NEW k \in 1 .. n - 1, blocks[k].attr = a, blocks[k].arg = x
        PROVE  FALSE
    <3>1. k \in 1 .. n /\ k # n /\ blocks[k] \in Block
      BY <1>1, <1>2, ElementOfSeq
    <3>2. blocks[k] = blocks[n]
      BY <1>3, <2>2, <3>1 DEF Block
    <3> QED
      BY <1>2, <3>1, <3>2 DEF Scoped, IsInjective
  <2> QED
    BY <2>1, <2>2 DEF BlockArgs
<1>8. \A c \in Attribute : InFlight(c) = {} /\ InFlight(c)' = {}
  BY <1>2 DEF InFlight
<1>9. Scoped'
  <2>1. ASSUME NEW c \in Attribute
        PROVE  /\ BlockArgs(c)' \cup InFlight(c)' \subseteq ToSet(attr'[c])
               /\ BlockArgs(c)' \cap InFlight(c)' = {}
    <3>1. BlockArgs(c)' \subseteq ToSet(attr[c]) /\ InFlight(c)' = {}
      BY <1>5, <1>8 DEF Scoped
    <3>2. CASE c = a
      BY <1>4, <1>7, <3>1, <3>2
    <3>3. CASE c # a
      BY <1>4, <3>1, <3>3
    <3> QED
      BY <3>2, <3>3
  <2> QED
    BY <1>2, <1>5, <2>1 DEF Scoped
<1>10. Steady
  <2> SUFFICES ASSUME NEW c \in Attribute
               PROVE  Settled(c)' = Settled(c)
    BY DEF Steady
  <2>1. CASE c = a
    BY <1>4, <1>5, <1>6, <1>8, <2>1 DEF Settled
  <2>2. CASE c # a
    BY <1>4, <1>5, <1>8, <2>2 DEF Settled
  <2> QED
    BY <2>1, <2>2
<1> QED
  BY <1>9, <1>10

\* A request begins with nothing in flight and leaves the lists alone.
LEMMA StartScopes ==
  ASSUME TypeOK, Scoped, NEW op, NEW keep \in BOOLEAN, NEW arg, NEW fn, NEW paths,
         Start(op, keep, arg, fn, paths), keep => blocks = << >>,
         op = "header" => ToSet(paths) \cap ToSet(attr["includes"]) = {}
  PROVE  Scoped' /\ Steady
<1>1. /\ UNCHANGED <<attr, blocks>>
      /\ pc = "idle" /\ pc' = "start"
      /\ call'.op = op /\ call'.keep = keep /\ call'.paths = paths
  BY DEF Start
<1>2. \A a \in Attribute : InFlight(a) = {} /\ InFlight(a)' = {}
  BY <1>1 DEF InFlight
<1>3. \A a \in Attribute : BlockArgs(a)' = BlockArgs(a)
  BY <1>1 DEF BlockArgs
<1>4. InFlight("includes")' = {}
  BY <1>2, ThreeLists
<1>5. Scoped'
  BY <1>1, <1>2, <1>3, <1>4 DEF Scoped
<1>6. Steady
  BY <1>1, <1>2, <1>3 DEF Steady, Settled
<1> QED
  BY <1>5, <1>6

LEMMA ClientScopes ==
  ASSUME TypeOK, Scoped, ~Overlap, Client \/ Raise
  PROVE  Scoped' /\ Keeps
<1>1. ASSUME NEW keep \in BOOLEAN, NEW h, NEW paths, CallHeader(keep, h, paths)
      PROVE  Scoped' /\ Keeps
  BY <1>1, StartScopes DEF CallHeader, Steady, Keeps
<1>2. ASSUME NEW keep \in BOOLEAN, NEW l, NEW f, NEW paths, CallLibrary(keep, l, f, paths)
      PROVE  Scoped' /\ Keeps
  BY <1>2, StartScopes DEF CallLibrary, Steady, Keeps
<1>3. ASSUME NEW f, CallFunction(f)
      PROVE  Scoped' /\ Keeps
  BY <1>3, StartScopes DEF CallFunction, Steady, Keeps
<1>4. CASE CloseBlock
  BY <1>4, CloseBlockScopes DEF Steady, Keeps
<1>5. CASE AbandonBlocks
  <2>1. PICK n \in 0 .. Len(blocks) - 1 : blocks' = SubSeq(blocks, 1, n)
    BY <1>5 DEF AbandonBlocks
  <2>2. n \in 0 .. Len(blocks)
    BY LenProperties DEF TypeOK
  <2>3. UNCHANGED attr /\ pc' = "idle"
    BY <1>5 DEF AbandonBlocks
  <2> QED
    BY <2>1, <2>2, <2>3, UnwindingScopes
<1>6. CASE Raise
  BY <1>6, UnwindingScopes DEF Raise
<1>7. ASSUME NEW a \in Attribute, NEW x \in ItemsOf(a), OpenBlock(a, x)
      PROVE  Scoped' /\ Keeps
  BY <1>7, OpenBlockScopes DEF Steady, Keeps
<1> QED
  BY <1>1, <1>2, <1>3, <1>4, <1>5, <1>6, <1>7 DEF Client

-----------------------------------------------------------------------------
(* Nothing is lost                                                         *)

\* The invariant behind the next theorems, and what each step does to what
\* calls have established.
LEMMA ScopedStep ==
  ASSUME TypeOK, Scoped, ~Overlap, [Next]_vars
  PROVE  Scoped' /\ Keeps
<1>1. CASE Client \/ Raise
  BY <1>1, ClientScopes
<1>2. CASE Step
  BY <1>2, StepScopes
<1>3. CASE UNCHANGED vars
  <2>1. \A a \in Attribute : InFlight(a)' = InFlight(a) /\ BlockArgs(a)' = BlockArgs(a)
    BY <1>3, ThreeLists DEF vars, InFlight, BlockArgs
  <2> QED
    BY <1>3, <2>1, ThreeLists DEF vars, Scoped, Keeps, Settled
<1> QED
  BY <1>1, <1>2, <1>3 DEF Next

LEMMA ScopedInit == Init => Scoped
<1> SUFFICES ASSUME Init
             PROVE  Scoped
  OBVIOUS
<1>1. blocks = << >> /\ pc = "idle"
  BY DEF Init
<1>2. \A a \in Attribute : InFlight(a) = {} /\ BlockArgs(a) = {}
  BY <1>1 DEF InFlight, BlockArgs
<1> QED
  BY <1>1, <1>2 DEF Scoped, IsInjective

\* For a client that hands over nothing a list already holds: what its blocks and
\* the running probe have pushed is on the lists once, for one reason, so that the
\* subtraction that ends a block or a probe takes away just that.
THEOREM ScopesAreKept ==
  ASSUME ~Overlap
  PROVE  Spec => []Scoped
<1>1. TypeOK /\ Scoped /\ [Next]_vars => Scoped'
  BY ScopedStep
<1> QED
  BY <1>1, ScopedInit, TypeCorrect, PTL DEF Spec

\* For a client that hands over nothing a list already holds, with any nesting
\* of blocks, any machine and any exceptions: with_stackable_attribute's
\* subtraction never takes away what an earlier call has put on a list.
THEOREM NothingIsLost ==
  ASSUME ~Overlap
  PROVE  Spec => NothingLost
<1>1. TypeOK /\ Scoped /\ [Next]_vars => Scoped'
  BY ScopedStep
<1>2. TypeOK /\ Scoped /\ [Next]_vars =>
        [\A a \in Attribute : Settled(a) \subseteq Settled(a)']_vars
  BY ScopedStep DEF Keeps
<1> QED
  BY <1>1, <1>2, ScopedInit, TypeCorrect, PTL DEF Spec, NothingLost

-----------------------------------------------------------------------------
(* The lists stay usable                                                   *)

\* What the client declares available when it creates the instance is.
OptionsUsable ==
  /\ \A h \in ToSet(Options["headers"]) : Found(h, ToSet(Options["includes"]))
  /\ \A l \in ToSet(Options["loaded_libs"]) : Linkable(l, InitLibraryPaths)

\* A wider search path finds what a narrower one finds.
LEMMA SearchMonotonic ==
  /\ \A h, D, E : D \subseteq E /\ Found(h, D) => Found(h, E)
  /\ \A l, D, E : D \subseteq E /\ Linkable(l, D) => Linkable(l, E)
BY DEF Found, Linkable

\* Where nothing joins the lists and no probe has just linked, what was
\* grounded stays so.
LEMMA SteadyGrounded ==
  ASSUME Grounded, Steady, libraryPaths \subseteq libraryPaths', linked' = FALSE
  PROVE  Grounded'
<1>1. /\ Settled("headers")' = Settled("headers")
      /\ Settled("loaded_libs")' = Settled("loaded_libs")
      /\ Settled("includes")' = Settled("includes")
  BY ThreeLists DEF Steady
<1> QED
  BY <1>1, SearchMonotonic DEF Grounded

\* A request whose probe left no trace on the lists.
LEMMA ReturnSteady ==
  ASSUME NEW value, Return(value),
         \A a \in Attribute : ToSet(attr'[a]) = ToSet(attr[a]) \ InFlight(a)
  PROVE  Steady
<1>1. pc' = "idle" /\ blocks' = blocks
  BY DEF Return
<1>2. \A a \in Attribute : InFlight(a)' = {} /\ BlockArgs(a)' = BlockArgs(a)
  BY <1>1 DEF InFlight, BlockArgs
<1> QED
  BY <1>2 DEF Steady, Settled

\* The steps between the request and its answer.
LEMMA ProbeSteady ==
  ASSUME TypeOK, Scoped,
         TryHeader \/ TryLibrary \/ TryFunction \/ TryNextPath \/ TryReference
           \/ CreateSource \/ Link \/ RemoveTempFiles
  PROVE  Steady /\ UNCHANGED libraryPaths
<1>1. ASSUME UNCHANGED <<attr, blocks, call>>,
             \A a \in Attribute : InFlight(a)' = InFlight(a)
      PROVE  Steady
  <2>1. \A a \in Attribute : BlockArgs(a)' = BlockArgs(a)
    BY <1>1 DEF BlockArgs
  <2> QED
    BY <1>1, <2>1 DEF Steady, Settled
<1>2. CASE TryHeader
  BY <1>2, TryHeaderScopes DEF TryHeader
<1>3. CASE TryLibrary
  BY <1>3, TryLibraryScopes DEF TryLibrary
<1>4. CASE TryNextPath
  BY <1>4, TryNextPathScopes DEF TryNextPath
<1>5. CASE TryFunction \/ TryReference
  <2>1. UNCHANGED <<attr, blocks, call, libraryPaths>>
    BY <1>5 DEF TryFunction, TryReference
  <2>2. \A a \in Attribute : InFlight(a)' = InFlight(a)
    BY <1>5, ThreeLists DEF TryFunction, TryReference, InFlight
  <2> QED
    BY <1>1, <2>1, <2>2
<1>6. CASE CreateSource \/ Link \/ RemoveTempFiles
  <2>1. /\ UNCHANGED <<attr, blocks, call, at, libraryPaths>>
        /\ pc \notin {"idle", "start"} /\ pc' \notin {"idle", "start"}
    BY <1>6 DEF CreateSource, Link, RemoveTempFiles
  <2>2. \A a \in Attribute : InFlight(a)' = InFlight(a)
    BY <2>1, ThreeLists DEF InFlight
  <2> QED
    BY <1>1, <2>1, <2>2
<1> QED
  BY <1>2, <1>3, <1>4, <1>5, <1>6

LEMMA ProbeGrounded ==
  ASSUME TypeOK, Scoped, Grounded,
         TryHeader \/ TryLibrary \/ TryFunction \/ TryNextPath \/ TryReference
           \/ CreateSource \/ Link \/ RemoveTempFiles
  PROVE  Grounded'
<1>1. Steady /\ UNCHANGED libraryPaths
  BY ProbeSteady
<1>2. CASE TryHeader \/ TryLibrary \/ TryFunction \/ TryNextPath \/ TryReference
  <2>1. linked' = FALSE
    BY <1>2 DEF TryHeader, TryLibrary, TryFunction, TryNextPath, TryReference, TypeOK
  <2> QED
    BY <1>1, <2>1, SteadyGrounded
<1>3. CASE CreateSource \/ Link \/ RemoveTempFiles
  <2>1. UNCHANGED <<attr, call, at, libraryPaths>>
    BY <1>3 DEF CreateSource, Link, RemoveTempFiles
  <2>2. /\ Settled("headers")' = Settled("headers")
        /\ Settled("loaded_libs")' = Settled("loaded_libs")
        /\ Settled("includes")' = Settled("includes")
    BY <1>1, ThreeLists DEF Steady
  <2>3. ProbeLinks' = ProbeLinks
    BY <2>1 DEF ProbeLinks, ProbeForm, ProbeName
  <2>4. linked' => pc' \in {"ensure", "probed"} /\ ProbeLinks
    BY <1>3 DEF CreateSource, Link, RemoveTempFiles, Grounded
  <2> QED
    BY <2>1, <2>2, <2>3, <2>4 DEF Grounded
<1> QED
  BY <1>2, <1>3

\* The lists after HeaderFound: what the probe has pushed on @includes stays.
LEMMA FoundLists ==
  ASSUME TypeOK, HeaderFound, ProbeDirs(at) \subseteq ToSet(attr["includes"])
  PROVE  /\ ToSet(attr'["headers"])
              = (ToSet(attr["headers"]) \ {call.arg}) \cup (IF call.keep THEN {call.arg} ELSE {})
         /\ ToSet(attr'["includes"]) = ToSet(attr["includes"])
         /\ ToSet(attr'["loaded_libs"]) = ToSet(attr["loaded_libs"])
<1> DEFINE popped == PopProbe(attr, at)
           kept == IF at = 0 THEN popped ELSE Push(popped, "includes", call.paths[at])
<1>1. /\ pc = "probed" /\ call.op = "header" /\ call.arg \in Header /\ linked
      /\ attr' = IF call.keep THEN Push(kept, "headers", call.arg) ELSE kept
      /\ IsLists(attr) /\ at \in Nat
  BY DEF HeaderFound, ReturnHeader, TypeOK
<1>2. at # 0 => call.paths[at] \in Dir
  <2>1. call.paths \in Seq(Dir) /\ at <= Len(call.paths) /\ Len(call.paths) \in Nat
    BY <1>1, LenProperties DEF TypeOK, Request
  <2> QED
    BY <1>1, <2>1, ElementOfSeq
<1>3. /\ IsLists(popped)
      /\ ToSet(popped["headers"]) = ToSet(attr["headers"]) \ {call.arg}
      /\ ToSet(popped["includes"]) = ToSet(attr["includes"]) \ ProbeDirs(at)
      /\ popped["loaded_libs"] = attr["loaded_libs"]
  BY <1>1, PopProbeProperties
<1> HIDE DEF popped
<1>4. /\ IsLists(kept)
      /\ ToSet(kept["headers"]) = ToSet(popped["headers"])
      /\ ToSet(kept["includes"]) = ToSet(popped["includes"]) \cup ProbeDirs(at)
      /\ kept["loaded_libs"] = popped["loaded_libs"]
  <2>1. CASE at = 0
    BY <1>3, <2>1 DEF ProbeDirs
  <2>2. CASE at # 0
    <3>1. /\ "includes" \in Attribute /\ call.paths[at] \in ItemsOf("includes")
          /\ "headers" \in Attribute \ {"includes"}
          /\ "loaded_libs" \in Attribute \ {"includes"}
      BY <1>2, <2>2, ThreeLists
    <3>2. /\ IsLists(Push(popped, "includes", call.paths[at]))
          /\ ToSet(Push(popped, "includes", call.paths[at])["includes"])
               = ToSet(popped["includes"]) \cup {call.paths[at]}
          /\ \A b \in Attribute \ {"includes"} :
               Push(popped, "includes", call.paths[at])[b] = popped[b]
      BY <1>3, <3>1, PushProperties
    <3> QED
      BY <2>2, <3>1, <3>2 DEF ProbeDirs
  <2> QED
    BY <2>1, <2>2
<1> HIDE DEF kept
<1>5. /\ ToSet(attr'["headers"]) = ToSet(kept["headers"]) \cup (IF call.keep THEN {call.arg} ELSE {})
      /\ attr'["includes"] = kept["includes"]
      /\ attr'["loaded_libs"] = kept["loaded_libs"]
  <2>1. /\ "headers" \in Attribute /\ call.arg \in ItemsOf("headers")
        /\ "includes" \in Attribute \ {"headers"}
        /\ "loaded_libs" \in Attribute \ {"headers"}
    BY <1>1, ThreeLists
  <2>2. /\ ToSet(Push(kept, "headers", call.arg)["headers"]) = ToSet(kept["headers"]) \cup {call.arg}
        /\ \A b \in Attribute \ {"headers"} : Push(kept, "headers", call.arg)[b] = kept[b]
    BY <1>4, <2>1, PushProperties
  <2> QED
    BY <1>1, <2>1, <2>2
<1> QED
  BY <1>3, <1>4, <1>5

\* A header that joins the list was found where the list will look for it.
LEMMA HeaderFoundGrounded ==
  ASSUME TypeOK, Scoped, Grounded, HeaderFound
  PROVE  Grounded'
<1>1. pc = "probed" /\ call.op = "header" /\ linked
  BY DEF HeaderFound
<1>2. /\ InFlight("headers") = {call.arg}
      /\ InFlight("loaded_libs") = {}
      /\ InFlight("includes") = ProbeDirs(at)
  BY <1>1, HeaderInFlight
<1>3. ProbeDirs(at) \subseteq ToSet(attr["includes"])
  BY <1>2, ThreeLists DEF Scoped
<1>4. /\ ToSet(attr'["headers"])
           = (ToSet(attr["headers"]) \ {call.arg}) \cup (IF call.keep THEN {call.arg} ELSE {})
      /\ ToSet(attr'["includes"]) = ToSet(attr["includes"])
      /\ ToSet(attr'["loaded_libs"]) = ToSet(attr["loaded_libs"])
  BY <1>3, FoundLists
<1>5. /\ \A a \in Attribute : InFlight(a)' = {} /\ BlockArgs(a)' = BlockArgs(a)
      /\ libraryPaths' = libraryPaths /\ linked' = FALSE
  BY DEF HeaderFound, ReturnHeader, Return, InFlight, BlockArgs
<1>6. Found(call.arg, ToSet(attr["includes"]))
  BY <1>1 DEF Grounded, ProbeLinks, CanLink, Compiles, ProbeForm, ProbeName
<1>7. Settled("includes") \subseteq Settled("includes")'
  BY <1>4, <1>5, ThreeLists DEF Settled
<1>8. Settled("loaded_libs")' = Settled("loaded_libs")
  BY <1>2, <1>4, <1>5, ThreeLists DEF Settled
<1>9. \A h \in Settled("headers")' : Found(h, Settled("includes")')
  <2>1. CASE call.keep
    <3>1. \A a \in Attribute : BlockArgs(a) = {}
      BY <1>1, <2>1 DEF Scoped, BlockArgs
    <3>2. /\ Settled("headers")' = Settled("headers") \cup {call.arg}
          /\ Settled("includes")' = ToSet(attr["includes"])
      BY <1>2, <1>4, <1>5, <2>1, <3>1, ThreeLists DEF Settled
    <3> QED
      BY <1>6, <1>7, <3>2, SearchMonotonic DEF Grounded
  <2>2. CASE ~call.keep
    <3>1. Settled("headers")' = Settled("headers")
      BY <1>2, <1>4, <1>5, <2>2, ThreeLists DEF Settled
    <3> QED
      BY <1>7, <3>1, SearchMonotonic DEF Grounded
  <2> QED
    BY <2>1, <2>2
<1> QED
  BY <1>5, <1>8, <1>9 DEF Grounded

\* A library that joins the list has linked.
LEMMA LibraryAnsweredGrounded ==
  ASSUME TypeOK, Scoped, Grounded, LibraryAnswered
  PROVE  Grounded'
<1> DEFINE popped == Pop(attr, "loaded_libs", call.arg)
<1>1. /\ pc = "probed" /\ call.op = "library" /\ call.arg \in Lib
      /\ attr' = IF linked /\ call.keep THEN Push(popped, "loaded_libs", call.arg)
                 ELSE popped
      /\ IsLists(attr)
      /\ \E value \in {"true", "false"} : Return(value)
  BY DEF LibraryAnswered, TypeOK
<1>2. /\ IsLists(popped)
      /\ ToSet(popped["loaded_libs"]) = ToSet(attr["loaded_libs"]) \ {call.arg}
      /\ popped["headers"] = attr["headers"]
      /\ popped["includes"] = attr["includes"]
  BY <1>1, PopLibrary
<1> HIDE DEF popped
<1>3. /\ InFlight("headers") = {}
      /\ InFlight("loaded_libs") = {call.arg}
      /\ InFlight("includes") = {}
  BY <1>1, LibraryInFlight
<1>4. CASE linked /\ call.keep
  <2>1. /\ ToSet(attr'["loaded_libs"]) = ToSet(popped["loaded_libs"]) \cup {call.arg}
        /\ attr'["headers"] = popped["headers"]
        /\ attr'["includes"] = popped["includes"]
    BY <1>1, <1>2, <1>4, PushLibrary
  <2>2. /\ \A a \in Attribute : InFlight(a)' = {} /\ BlockArgs(a)' = BlockArgs(a)
        /\ libraryPaths' = libraryPaths /\ linked' = FALSE
    BY <1>1 DEF Return, InFlight, BlockArgs
  <2>3. /\ Settled("headers")' = Settled("headers")
        /\ Settled("includes")' = Settled("includes")
        /\ Settled("loaded_libs")' \subseteq Settled("loaded_libs") \cup {call.arg}
    BY <1>2, <1>3, <2>1, <2>2, ThreeLists DEF Settled
  <2>4. call.arg \in ToSet(attr["loaded_libs"])
    BY <1>3, ThreeLists DEF Scoped
  <2>5. Linkable(call.arg, libraryPaths)
    BY <1>4, <2>4 DEF Grounded, ProbeLinks, CanLink
  <2> QED
    BY <2>2, <2>3, <2>5 DEF Grounded
<1>5. CASE ~(linked /\ call.keep)
  <2>1. \A a \in Attribute : ToSet(attr'[a]) = ToSet(attr[a]) \ InFlight(a)
    BY <1>1, <1>2, <1>3, <1>5, ThreeLists
  <2>2. libraryPaths' = libraryPaths /\ linked' = FALSE
    BY <1>1 DEF Return
  <2> QED
    BY <1>1, <2>1, <2>2, ReturnSteady, SteadyGrounded
<1> QED
  BY <1>4, <1>5

\* The other answers leave the lists as the request has found them.
LEMMA OtherAnswersSteady ==
  ASSUME TypeOK,
         HeaderAlreadyLoaded \/ (LibraryAlreadyLoaded /\ ~Windows) \/ HeaderNotFound
           \/ FunctionAnswered
  PROVE  Steady
<1>1. ASSUME NEW value, Return(value),
             \A a \in Attribute : ToSet(attr'[a]) = ToSet(attr[a]) \ InFlight(a)
      PROVE  Steady
  BY <1>1, ReturnSteady
<1>2. CASE HeaderAlreadyLoaded
  <2>1. /\ pc = "start" /\ call.arg \in Header /\ call.arg \in ToSet(attr["headers"])
        /\ IsLists(attr)
        /\ attr' = IF call.keep THEN Push(attr, "headers", call.arg) ELSE attr
        /\ Return("true")
    BY <1>2 DEF HeaderAlreadyLoaded, ReturnHeader, TypeOK
  <2>2. /\ ToSet(Push(attr, "headers", call.arg)["headers"]) = ToSet(attr["headers"]) \cup {call.arg}
        /\ Push(attr, "headers", call.arg)["loaded_libs"] = attr["loaded_libs"]
        /\ Push(attr, "headers", call.arg)["includes"] = attr["includes"]
    BY <2>1, PushHeader
  <2>3. \A a \in Attribute : ToSet(Push(attr, "headers", call.arg)[a]) = ToSet(attr[a])
    BY <2>1, <2>2, ThreeLists
  <2>4. \A a \in Attribute : InFlight(a) = {}
    BY <2>1, NothingInFlight
  <2> QED
    BY <1>1, <2>1, <2>3, <2>4
<1>3. CASE LibraryAlreadyLoaded /\ ~Windows
  <2>1. /\ pc = "start" /\ call.arg \in Lib /\ call.arg \in ToSet(attr["loaded_libs"])
        /\ IsLists(attr)
        /\ attr' = IF call.keep THEN Push(attr, "loaded_libs", call.arg) ELSE attr
        /\ Return("true")
    BY <1>3 DEF LibraryAlreadyLoaded, TypeOK
  <2>2. \A a \in Attribute : ToSet(Push(attr, "loaded_libs", call.arg)[a]) = ToSet(attr[a])
    <3>1. call.arg \in Lib /\ IsLists(attr)
      BY <2>1
    <3>2. /\ ToSet(Push(attr, "loaded_libs", call.arg)["loaded_libs"])
               = ToSet(attr["loaded_libs"]) \cup {call.arg}
          /\ Push(attr, "loaded_libs", call.arg)["headers"] = attr["headers"]
          /\ Push(attr, "loaded_libs", call.arg)["includes"] = attr["includes"]
      BY <3>1, PushLibrary
    <3> QED
      BY <2>1, <3>2, ThreeLists
  <2>3. \A a \in Attribute : InFlight(a) = {}
    BY <2>1, NothingInFlight
  <2> QED
    BY <1>1, <2>1, <2>2, <2>3
<1>4. CASE HeaderNotFound
  <2>1. /\ pc = "probed" /\ call.op = "header" /\ IsLists(attr) /\ at \in Nat
        /\ attr' = PopProbe(attr, at)
        /\ Return("false")
    BY <1>4 DEF HeaderNotFound, TypeOK
  <2>2. \A a \in Attribute : ToSet(attr'[a]) = ToSet(attr[a]) \ InFlight(a)
    BY <2>1, ThreeLists, PopProbeProperties, HeaderInFlight
  <2> QED
    BY <1>1, <2>1, <2>2
<1>5. CASE FunctionAnswered
  <2>1. \A a \in Attribute : InFlight(a) = {} /\ attr'[a] = attr[a]
    BY <1>5, FunctionInFlight DEF FunctionAnswered
  <2>2. \E value \in {"true", "false"} : Return(value)
    BY <1>5 DEF FunctionAnswered
  <2> QED
    BY <1>1, <2>1, <2>2
<1> QED
  BY <1>2, <1>3, <1>4, <1>5

LEMMA OtherAnswersGrounded ==
  ASSUME TypeOK, Scoped, Grounded, ~Windows,
         HeaderAlreadyLoaded \/ LibraryAlreadyLoaded \/ HeaderNotFound \/ FunctionAnswered
  PROVE  Grounded'
<1>1. Steady
  BY OtherAnswersSteady
<1>2. libraryPaths' = libraryPaths /\ linked' = FALSE
  BY DEF HeaderAlreadyLoaded, LibraryAlreadyLoaded, HeaderNotFound, FunctionAnswered,
     ReturnHeader, Return
<1> QED
  BY <1>1, <1>2, SteadyGrounded

\* A client's own actions leave what calls have established.
LEMMA ClientSteady ==
  ASSUME TypeOK, Scoped, ~Overlap, ~Faults, Client
  PROVE  Steady
<1>1. ASSUME NEW keep \in BOOLEAN, NEW h, NEW paths, CallHeader(keep, h, paths)
      PROVE  Steady
  BY <1>1, StartScopes DEF CallHeader
<1>2. ASSUME NEW keep \in BOOLEAN, NEW l, NEW f, NEW paths, CallLibrary(keep, l, f, paths)
      PROVE  Steady
  BY <1>2, StartScopes DEF CallLibrary
<1>3. ASSUME NEW f, CallFunction(f)
      PROVE  Steady
  BY <1>3, StartScopes DEF CallFunction
<1>4. ASSUME NEW a \in Attribute, NEW x \in ItemsOf(a), OpenBlock(a, x)
      PROVE  Steady
  BY <1>4, OpenBlockScopes
<1>5. CASE CloseBlock
  BY <1>5, CloseBlockScopes
<1>6. ~AbandonBlocks
  BY DEF AbandonBlocks
<1> QED
  BY <1>1, <1>2, <1>3, <1>4, <1>5, <1>6 DEF Client

LEMMA ClientGrounded ==
  ASSUME TypeOK, Scoped, Grounded, ~Overlap, ~Faults, Client
  PROVE  Grounded'
<1>1. Steady
  BY ClientSteady
<1>2. libraryPaths \subseteq libraryPaths' /\ linked' = FALSE
  BY DEF Client, CallHeader, CallLibrary, CallFunction, Start, OpenBlock, CloseBlock,
     AbandonBlocks, TypeOK
<1> QED
  BY <1>1, <1>2, SteadyGrounded

LEMMA GroundedStep ==
  ASSUME TypeOK, Scoped, Grounded, ~Overlap, ~Faults, ~Windows, [Next]_vars
  PROVE  Grounded'
<1>1. CASE Client
  BY <1>1, ClientGrounded
<1>2. CASE Step
  BY <1>2, ProbeGrounded, HeaderFoundGrounded, LibraryAnsweredGrounded,
     OtherAnswersGrounded DEF Step
<1>3. ~Raise
  BY DEF Raise
<1>4. CASE UNCHANGED vars
  <2>1. \A a \in Attribute : InFlight(a)' = InFlight(a) /\ BlockArgs(a)' = BlockArgs(a)
    BY <1>4, ThreeLists DEF vars, InFlight, BlockArgs
  <2>2. /\ Settled("headers")' = Settled("headers")
        /\ Settled("loaded_libs")' = Settled("loaded_libs")
        /\ Settled("includes")' = Settled("includes")
    BY <1>4, <2>1, ThreeLists DEF vars, Settled
  <2>3. ProbeLinks' = ProbeLinks
    BY <1>4 DEF vars, ProbeLinks, ProbeForm, ProbeName
  <2> QED
    BY <1>4, <2>2, <2>3 DEF vars, Grounded
<1> QED
  BY <1>1, <1>2, <1>3, <1>4 DEF Next

LEMMA GroundedInit ==
  ASSUME OptionsUsable, Init
  PROVE  Grounded
<1>1. \A a \in Attribute : InFlight(a) = {} /\ BlockArgs(a) = {}
  BY DEF Init, InFlight, BlockArgs
<1>2. \A a \in Attribute : Settled(a) = ToSet(Options[a])
  BY <1>1 DEF Init, Settled
<1> QED
  BY <1>2, ThreeLists DEF Init, OptionsUsable, Grounded

\* For a client that hands over nothing a list already holds, where no exception
\* interrupts a probe: even while a block is open or a probe runs, what earlier
\* calls have established is found without what the block or the probe has pushed.
THEOREM NothingBorrowed ==
  ASSUME ~Overlap, ~Faults, ~Windows, OptionsUsable
  PROVE  Spec => []Grounded
<1>1. TypeOK /\ Scoped /\ [Next]_vars => Scoped'
  BY ScopedStep
<1>2. TypeOK /\ Scoped /\ Grounded /\ [Next]_vars => Grounded'
  BY GroundedStep
<1>3. Init => Grounded
  BY GroundedInit
<1> QED
  BY <1>1, <1>2, <1>3, ScopedInit, TypeCorrect, PTL DEF Spec

\* For a client that hands over nothing a list already holds, where no
\* exception interrupts a probe: between calls and outside blocks, every header
\* on @headers is found in @includes and every library on @loaded_libs links,
\* whatever is installed and whatever was asked for in between.
THEOREM ListsStayUsable ==
  ASSUME ~Overlap, ~Faults, ~Windows, OptionsUsable
  PROVE  Spec => []StillUsable
<1>1. TypeOK /\ Scoped /\ [Next]_vars => Scoped'
  BY ScopedStep
<1>2. TypeOK /\ Scoped /\ Grounded /\ [Next]_vars => Grounded'
  BY GroundedStep
<1>3. Init => Grounded
  BY GroundedInit
<1>4. Grounded => StillUsable
  <2> SUFFICES ASSUME Grounded, pc = "idle", blocks = << >>
               PROVE  Healthy
    BY DEF StillUsable
  <2>1. \A a \in Attribute : Settled(a) = ToSet(attr[a])
    BY DEF Settled, InFlight, BlockArgs
  <2> QED
    BY <2>1, ThreeLists DEF Grounded, Healthy, HeadersFound, LibsLink
<1> QED
  BY <1>1, <1>2, <1>3, <1>4, ScopedInit, TypeCorrect, PTL DEF Spec
=============================================================================
