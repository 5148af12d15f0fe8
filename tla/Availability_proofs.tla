-------------------------- MODULE Availability_proofs --------------------------
(***************************************************************************)
(* Proofs about Availability for every machine, every client and every     *)
(* bound: type correctness.                                                *)
(***************************************************************************)
EXTENDS Availability, SequenceTheorems, TLAPS

-----------------------------------------------------------------------------
(* Lists                                                                   *)

\* `list << x` adds x to what the list holds and keeps it free of repetitions.
LEMMA AddProperties ==
  ASSUME NEW S, NEW s \in Seq(S), NEW x \in S, IsInjective(s)
  PROVE  /\ Add(s, x) \in Seq(S)
         /\ IsInjective(Add(s, x))
         /\ ToSet(Add(s, x)) = ToSet(s) \cup {x}
<1>1. CASE x \in ToSet(s)
  BY <1>1 DEF Add
<1>2. CASE x \notin ToSet(s)
  <2>1. Add(s, x) = Append(s, x)
    BY <1>2 DEF Add
  <2> DEFINE t == Append(s, x)
  <2>2. /\ t \in Seq(S)
        /\ Len(t) = Len(s) + 1
        /\ \A i \in 1 .. Len(s) : t[i] = s[i]
        /\ t[Len(s) + 1] = x
        /\ Len(s) \in Nat
        /\ DOMAIN s = 1 .. Len(s)
        /\ DOMAIN t = 1 .. Len(s) + 1
    BY AppendProperties, LenProperties
  <2> HIDE DEF t
  <2>3. \A i \in 1 .. Len(s) : s[i] # x
    BY <1>2, <2>2 DEF ToSet
  <2>4. IsInjective(t)
    BY <2>2, <2>3 DEF IsInjective
  <2>5. ToSet(t) = ToSet(s) \cup {x}
    BY <2>2 DEF ToSet
  <2> QED
    BY <2>1, <2>2, <2>4, <2>5 DEF t
<1> QED
  BY <1>1, <1>2

\* Taking away the i-th element keeps the others, in order.
LEMMA RemoveAtProperties ==
  ASSUME NEW S, NEW s \in Seq(S), NEW i \in 1 .. Len(s)
  PROVE  /\ RemoveAt(s, i) \in Seq(S)
         /\ Len(RemoveAt(s, i)) = Len(s) - 1
         /\ \A k \in 1 .. i - 1 : RemoveAt(s, i)[k] = s[k]
         /\ \A k \in i .. Len(s) - 1 : RemoveAt(s, i)[k] = s[k + 1]
<1> DEFINE n == Len(s)
           u == SubSeq(s, 1, i - 1)
           v == SubSeq(s, i + 1, n)
<1>1. n \in Nat /\ i \in Int /\ 1 <= i /\ i <= n
  BY LenProperties
<1>2. \A k \in 1 .. n : s[k] \in S
  BY ElementOfSeq
<1> HIDE DEF n
<1>3. /\ u \in Seq(S)
      /\ Len(u) = i - 1
      /\ \A k \in 1 .. i - 1 : u[k] = s[k]
  <2>1. \A k \in 1 .. i - 1 : s[k] \in S
    BY <1>1, <1>2
  <2>2. /\ u \in Seq(S)
        /\ Len(u) = IF 1 <= i - 1 THEN (i - 1) - 1 + 1 ELSE 0
        /\ \A k \in 1 .. (i - 1) - 1 + 1 : u[k] = s[1 + k - 1]
    BY <1>1, <2>1, SubSeqProperties
  <2> HIDE DEF u
  <2> QED
    BY <1>1, <2>2
<1>4. /\ v \in Seq(S)
      /\ Len(v) = n - i
      /\ \A k \in 1 .. n - i : v[k] = s[i + k]
  <2>1. \A k \in i + 1 .. n : s[k] \in S
    BY <1>1, <1>2
  <2>2. /\ v \in Seq(S)
        /\ Len(v) = IF i + 1 <= n THEN n - (i + 1) + 1 ELSE 0
        /\ \A k \in 1 .. n - (i + 1) + 1 : v[k] = s[(i + 1) + k - 1]
    BY <1>1, <2>1, SubSeqProperties
  <2> HIDE DEF v
  <2> QED
    BY <1>1, <2>2
<1> HIDE DEF u, v
<1>5. /\ u \o v \in Seq(S)
      /\ Len(u \o v) = Len(u) + Len(v)
      /\ \A k \in 1 .. Len(u) + Len(v) :
           (u \o v)[k] = IF k <= Len(u) THEN u[k] ELSE v[k - Len(u)]
  BY <1>3, <1>4, ConcatProperties
<1>6. RemoveAt(s, i) = u \o v
  BY DEF RemoveAt, u, v, n
<1>7. \A k \in 1 .. i - 1 : (u \o v)[k] = s[k]
  BY <1>1, <1>3, <1>4, <1>5
<1>8. \A k \in i .. n - 1 : (u \o v)[k] = s[k + 1]
  <2> SUFFICES ASSUME NEW k \in i .. n - 1
               PROVE  (u \o v)[k] = s[k + 1]
    OBVIOUS
  <2>1. /\ k \in 1 .. (i - 1) + (n - i)
        /\ ~ (k <= i - 1)
        /\ k - (i - 1) \in 1 .. n - i
        /\ i + (k - (i - 1)) = k + 1
    BY <1>1
  <2>2. (u \o v)[k] = v[k - (i - 1)]
    BY <2>1, <1>3, <1>4, <1>5
  <2> QED
    BY <2>1, <2>2, <1>4
<1>9. Len(u \o v) = n - 1
  BY <1>1, <1>3, <1>4, <1>5
<1> QED
  BY <1>5, <1>6, <1>7, <1>8, <1>9 DEF n

\* `list - [x]` takes x away and nothing else.
LEMMA WithoutProperties ==
  ASSUME NEW S, NEW s \in Seq(S), NEW x, IsInjective(s)
  PROVE  /\ Without(s, x) \in Seq(S)
         /\ IsInjective(Without(s, x))
         /\ ToSet(Without(s, x)) = ToSet(s) \ {x}
<1>1. CASE x \notin ToSet(s)
  BY <1>1 DEF Without
<1>2. CASE x \in ToSet(s)
  <2>1. PICK n \in Nat : n = Len(s) /\ DOMAIN s = 1 .. n
    BY LenProperties
  <2> DEFINE i == CHOOSE k \in DOMAIN s : s[k] = x
             t == RemoveAt(s, i)
  <2>2. Without(s, x) = t
    BY <1>2 DEF Without
  <2>3. i \in 1 .. n /\ s[i] = x
    BY <1>2, <2>1 DEF ToSet
  <2> HIDE DEF i
  <2>4. /\ t \in Seq(S)
        /\ Len(t) = n - 1
        /\ \A k \in 1 .. i - 1 : t[k] = s[k]
        /\ \A k \in i .. n - 1 : t[k] = s[k + 1]
    BY <2>1, <2>3, RemoveAtProperties
  <2> HIDE DEF t
  <2>5. DOMAIN t = 1 .. n - 1
    BY <2>4, LenProperties
  <2>6. \A j, k \in 1 .. n : s[j] = s[k] => j = k
    BY <2>1 DEF IsInjective
  <2> DEFINE from(k) == IF k < i THEN k ELSE k + 1
  <2>7. \A k \in 1 .. n - 1 : from(k) \in 1 .. n /\ from(k) # i /\ t[k] = s[from(k)]
    BY <2>3, <2>4
  <2>8. \A j, k \in 1 .. n - 1 : from(j) = from(k) => j = k
    BY <2>3
  <2>9. \A k \in 1 .. n : k # i => \E j \in 1 .. n - 1 : from(j) = k
    <3> SUFFICES ASSUME NEW k \in 1 .. n, k # i
                 PROVE  \E j \in 1 .. n - 1 : from(j) = k
      OBVIOUS
    <3>1. CASE k < i
      BY <3>1, <2>3
    <3>2. CASE k > i
      <4>1. k - 1 \in 1 .. n - 1 /\ from(k - 1) = k
        BY <3>2, <2>3
      <4> QED
        BY <4>1
    <3> QED
      BY <3>1, <3>2, <2>3
  <2> HIDE DEF from
  <2>10. IsInjective(t)
    BY <2>5, <2>6, <2>7, <2>8 DEF IsInjective
  <2>11. ToSet(t) = ToSet(s) \ {x}
    <3>1. ToSet(s) = {s[k] : k \in 1 .. n} /\ ToSet(t) = {t[k] : k \in 1 .. n - 1}
      BY <2>1, <2>5 DEF ToSet
    <3>2. ASSUME NEW k \in 1 .. n - 1
          PROVE  t[k] \in ToSet(s) \ {x}
      <4>1. from(k) \in 1 .. n /\ from(k) # i /\ t[k] = s[from(k)]
        BY <2>7
      <4>2. s[from(k)] # x
        BY <4>1, <2>3, <2>6
      <4> QED
        BY <3>1, <4>1, <4>2
    <3>3. ASSUME NEW k \in 1 .. n, s[k] # x
          PROVE  s[k] \in ToSet(t)
      <4>1. PICK j \in 1 .. n - 1 : from(j) = k
        BY <2>3, <2>9, <3>3
      <4> QED
        BY <2>7, <3>1, <4>1
    <3> QED
      BY <3>1, <3>2, <3>3
  <2> QED
    BY <2>2, <2>4, <2>10, <2>11
<1> QED
  BY <1>1, <1>2

-----------------------------------------------------------------------------
(* The stackable attributes                                                *)

LEMMA ItemsAreItems == \A a \in Attribute : ItemsOf(a) \subseteq Item
BY DEF Attribute, ItemsOf, Item

\* Entering with_stackable_attribute adds x to its list and leaves the other
\* lists alone.
LEMMA PushProperties ==
  ASSUME NEW lists, IsLists(lists), NEW a \in Attribute, NEW x \in ItemsOf(a)
  PROVE  /\ IsLists(Push(lists, a, x))
         /\ ToSet(Push(lists, a, x)[a]) = ToSet(lists[a]) \cup {x}
         /\ \A b \in Attribute \ {a} : Push(lists, a, x)[b] = lists[b]
<1>1. lists \in [Attribute -> Seq(Item)]
  BY DEF IsLists
<1>2. \A b \in Attribute : lists[b] \in Seq(ItemsOf(b)) /\ IsInjective(lists[b])
  BY DEF IsLists
<1>3. /\ Push(lists, a, x)[a] = Add(lists[a], x)
      /\ \A b \in Attribute \ {a} : Push(lists, a, x)[b] = lists[b]
  BY <1>1 DEF Push
<1>4. /\ Add(lists[a], x) \in Seq(ItemsOf(a))
      /\ IsInjective(Add(lists[a], x))
      /\ ToSet(Add(lists[a], x)) = ToSet(lists[a]) \cup {x}
  BY <1>2, AddProperties
<1>5. Add(lists[a], x) \in Seq(Item)
  BY <1>1, <1>2, AddProperties, ItemsAreItems
<1>6. Push(lists, a, x) \in [Attribute -> Seq(Item)]
  BY <1>1, <1>5 DEF Push
<1>7. \A b \in Attribute : /\ Push(lists, a, x)[b] \in Seq(ItemsOf(b))
                           /\ IsInjective(Push(lists, a, x)[b])
  BY <1>2, <1>3, <1>4
<1> QED
  BY <1>3, <1>4, <1>6, <1>7 DEF IsLists

\* Leaving it takes x from its list and leaves the other lists alone.
LEMMA PopProperties ==
  ASSUME NEW lists, IsLists(lists), NEW a \in Attribute, NEW x
  PROVE  /\ IsLists(Pop(lists, a, x))
         /\ ToSet(Pop(lists, a, x)[a]) = ToSet(lists[a]) \ {x}
         /\ \A b \in Attribute \ {a} : Pop(lists, a, x)[b] = lists[b]
<1>1. lists \in [Attribute -> Seq(Item)]
  BY DEF IsLists
<1>2. \A b \in Attribute : lists[b] \in Seq(ItemsOf(b)) /\ IsInjective(lists[b])
  BY DEF IsLists
<1>3. /\ Pop(lists, a, x)[a] = Without(lists[a], x)
      /\ \A b \in Attribute \ {a} : Pop(lists, a, x)[b] = lists[b]
  BY <1>1 DEF Pop
<1>4. /\ Without(lists[a], x) \in Seq(ItemsOf(a))
      /\ IsInjective(Without(lists[a], x))
      /\ ToSet(Without(lists[a], x)) = ToSet(lists[a]) \ {x}
  BY <1>2, WithoutProperties
<1>5. Without(lists[a], x) \in Seq(Item)
  BY <1>1, <1>2, WithoutProperties
<1>6. Pop(lists, a, x) \in [Attribute -> Seq(Item)]
  BY <1>1, <1>5 DEF Pop
<1>7. \A b \in Attribute : /\ Pop(lists, a, x)[b] \in Seq(ItemsOf(b))
                           /\ IsInjective(Pop(lists, a, x)[b])
  BY <1>2, <1>3, <1>4
<1> QED
  BY <1>3, <1>4, <1>6, <1>7 DEF IsLists

\* The directory the i-th probe of has_header? adds to the search path.
ProbeDirs(i) == IF i = 0 THEN {} ELSE {call.paths[i]}

\* What a probe pushes, it pushes on @headers and, when it tries a search
\* path, on @includes.
LEMMA PushProbeProperties ==
  ASSUME NEW lists, IsLists(lists), NEW i \in Nat,
         call.arg \in Header, i # 0 => call.paths[i] \in Dir
  PROVE  /\ IsLists(PushProbe(lists, i))
         /\ ToSet(PushProbe(lists, i)["headers"]) = ToSet(lists["headers"]) \cup {call.arg}
         /\ ToSet(PushProbe(lists, i)["includes"]) = ToSet(lists["includes"]) \cup ProbeDirs(i)
         /\ PushProbe(lists, i)["loaded_libs"] = lists["loaded_libs"]
<1> DEFINE inner == Push(lists, "includes", call.paths[i])
<1>1. /\ "headers" \in Attribute \ {"includes"}
      /\ "includes" \in Attribute \ {"headers"}
      /\ "loaded_libs" \in Attribute \ {"headers", "includes"}
      /\ ItemsOf("headers") = Header
      /\ ItemsOf("includes") = Dir
  BY DEF Attribute, ItemsOf
<1>2. CASE i = 0
  BY <1>1, <1>2, PushProperties DEF PushProbe, ProbeDirs
<1>3. CASE i # 0
  <2>1. /\ IsLists(inner)
        /\ ToSet(inner["includes"]) = ToSet(lists["includes"]) \cup {call.paths[i]}
        /\ inner["headers"] = lists["headers"]
        /\ inner["loaded_libs"] = lists["loaded_libs"]
    <3>1. "includes" \in Attribute /\ call.paths[i] \in ItemsOf("includes")
      BY <1>1, <1>3
    <3>2. /\ IsLists(inner)
          /\ ToSet(inner["includes"]) = ToSet(lists["includes"]) \cup {call.paths[i]}
          /\ \A b \in Attribute \ {"includes"} : inner[b] = lists[b]
      BY <3>1, PushProperties
    <3> QED
      BY <1>1, <3>2
  <2> HIDE DEF inner
  <2>2. /\ IsLists(Push(inner, "headers", call.arg))
        /\ ToSet(Push(inner, "headers", call.arg)["headers"])
             = ToSet(inner["headers"]) \cup {call.arg}
        /\ Push(inner, "headers", call.arg)["includes"] = inner["includes"]
        /\ Push(inner, "headers", call.arg)["loaded_libs"] = inner["loaded_libs"]
    <3>1. "headers" \in Attribute /\ call.arg \in ItemsOf("headers")
      BY <1>1
    <3> QED
      BY <1>1, <2>1, <3>1, PushProperties
  <2>3. PushProbe(lists, i) = Push(inner, "headers", call.arg)
    BY <1>3 DEF PushProbe, inner
  <2> QED
    BY <1>3, <2>1, <2>2, <2>3 DEF ProbeDirs
<1> QED
  BY <1>2, <1>3

\* And that is what it takes back.
LEMMA PopProbeProperties ==
  ASSUME NEW lists, IsLists(lists), NEW i \in Nat
  PROVE  /\ IsLists(PopProbe(lists, i))
         /\ ToSet(PopProbe(lists, i)["headers"]) = ToSet(lists["headers"]) \ {call.arg}
         /\ ToSet(PopProbe(lists, i)["includes"]) = ToSet(lists["includes"]) \ ProbeDirs(i)
         /\ PopProbe(lists, i)["loaded_libs"] = lists["loaded_libs"]
<1> DEFINE inner == Pop(lists, "headers", call.arg)
<1>1. /\ "headers" \in Attribute \ {"includes"}
      /\ "includes" \in Attribute \ {"headers"}
      /\ "loaded_libs" \in Attribute \ {"headers", "includes"}
  BY DEF Attribute
<1>2. /\ IsLists(inner)
      /\ ToSet(inner["headers"]) = ToSet(lists["headers"]) \ {call.arg}
      /\ inner["includes"] = lists["includes"]
      /\ inner["loaded_libs"] = lists["loaded_libs"]
  BY <1>1, PopProperties
<1> HIDE DEF inner
<1>3. CASE i = 0
  BY <1>2, <1>3 DEF PopProbe, ProbeDirs, inner
<1>4. CASE i # 0
  <2>1. /\ IsLists(Pop(inner, "includes", call.paths[i]))
        /\ ToSet(Pop(inner, "includes", call.paths[i])["includes"])
             = ToSet(inner["includes"]) \ {call.paths[i]}
        /\ Pop(inner, "includes", call.paths[i])["headers"] = inner["headers"]
        /\ Pop(inner, "includes", call.paths[i])["loaded_libs"] = inner["loaded_libs"]
    BY <1>1, <1>2, PopProperties
  <2>2. PopProbe(lists, i) = Pop(inner, "includes", call.paths[i])
    BY <1>4 DEF PopProbe, inner
  <2> QED
    BY <1>2, <1>4, <2>1, <2>2 DEF ProbeDirs
<1> QED
  BY <1>3, <1>4

-----------------------------------------------------------------------------
(* Type correctness                                                        *)

\* Leaving with_ blocks leaves well-formed ones.
LEMMA BlockPrefix ==
  ASSUME blocks \in Seq(Block),
         \A k \in DOMAIN blocks : blocks[k].arg \in ItemsOf(blocks[k].attr),
         NEW n \in 0 .. Len(blocks)
  PROVE  /\ SubSeq(blocks, 1, n) \in Seq(Block)
         /\ DOMAIN SubSeq(blocks, 1, n) = 1 .. n
         /\ \A k \in 1 .. n : SubSeq(blocks, 1, n)[k] = blocks[k]
         /\ \A k \in 1 .. n : SubSeq(blocks, 1, n)[k].arg
                                \in ItemsOf(SubSeq(blocks, 1, n)[k].attr)
<1> DEFINE t == SubSeq(blocks, 1, n)
<1>1. Len(blocks) \in Nat /\ DOMAIN blocks = 1 .. Len(blocks) /\ n \in Nat
  BY LenProperties
<1>2. \A k \in 1 .. n : k \in 1 .. Len(blocks) /\ blocks[k] \in Block
  BY <1>1, ElementOfSeq
<1>3. /\ t \in Seq(Block)
      /\ Len(t) = IF 1 <= n THEN n - 1 + 1 ELSE 0
      /\ \A k \in 1 .. n - 1 + 1 : t[k] = blocks[1 + k - 1]
  BY <1>1, <1>2, SubSeqProperties
<1> HIDE DEF t
<1>4. Len(t) = n /\ DOMAIN t = 1 .. n
  BY <1>1, <1>3, LenProperties
<1>5. \A k \in 1 .. n : t[k] = blocks[k]
  BY <1>1, <1>3
<1> QED
  BY <1>1, <1>2, <1>3, <1>4, <1>5 DEF t

\* The part of TypeOK about the lists is stated of the next state first; the
\* rest follows from each action's own assignments.
LEMMA TypeInit == Init => TypeOK
<1> SUFFICES ASSUME Init
             PROVE  TypeOK
  OBVIOUS
<1>1. IsLists(attr)
  BY OptionsAssumption DEF Init
<1>2. /\ libraryPaths \subseteq Dir
      /\ defines \subseteq Macro
      /\ tempFiles \subseteq TempFile
  BY ClientAssumption DEF Init
<1>3. blocks \in Seq(Block) /\ \A k \in DOMAIN blocks : blocks[k].arg \in ItemsOf(blocks[k].attr)
  BY DEF Init
<1>4. Main \in Item \cup Func
  BY ToolchainAssumption
<1>5. call \in Request /\ call.op = "none"
  BY <1>4, ToolchainAssumption DEF Init, Request
<1> QED
  BY <1>1, <1>2, <1>3, <1>5 DEF Init, TypeOK

LEMMA TypeCalls ==
  ASSUME TypeOK, Client
  PROVE  TypeOK'
<1>1. ASSUME NEW keep \in BOOLEAN, NEW h \in Header, NEW paths \in PathLists,
             CallHeader(keep, h, paths)
      PROVE  TypeOK'
  <2>1. call' \in Request /\ call'.op = "header" /\ call'.arg = h /\ call'.paths = paths
    BY <1>1, ToolchainAssumption, ClientAssumption DEF CallHeader, Start, Request, Item
  <2>2. at' = 0 /\ at' <= Len(call'.paths)
    <3>1. Len(paths) \in Nat
      BY ClientAssumption, LenProperties
    <3> QED
      BY <1>1, <2>1, <3>1 DEF CallHeader, Start
  <2>3. /\ pc' = "start" /\ linked' = FALSE /\ ret' = "none"
        /\ UNCHANGED <<attr, libraryPaths, defines, blocks, tempFiles>>
    BY <1>1 DEF CallHeader, Start
  <2> QED
    BY <2>1, <2>2, <2>3 DEF TypeOK
<1>2. ASSUME NEW keep \in BOOLEAN, NEW l \in Lib, NEW f \in Func,
             NEW paths \in PathLists \cup LibraryPathLists,
             CallLibrary(keep, l, f, paths)
      PROVE  TypeOK'
  <2>1. call' \in Request /\ call'.op = "library" /\ call'.arg = l
    BY <1>2, ClientAssumption DEF CallLibrary, Start, Request, Item
  <2>2. ToSet(paths) \subseteq Dir
    BY ClientAssumption, ElementOfSeq, LenProperties DEF ToSet
  <2> QED
    BY <1>2, <2>1, <2>2 DEF TypeOK, CallLibrary, Start
<1>3. ASSUME NEW f \in Func, CallFunction(f)
      PROVE  TypeOK'
  <2>1. call' \in Request /\ call'.op = "function"
    BY <1>3 DEF CallFunction, Start, Request
  <2> QED
    BY <1>3, <2>1 DEF TypeOK, CallFunction, Start
<1>4. ASSUME NEW a \in Attribute, NEW x \in ItemsOf(a), OpenBlock(a, x)
      PROVE  TypeOK'
  <2>1. IsLists(attr')
    BY <1>4, PushProperties DEF TypeOK, OpenBlock
  <2> DEFINE b == [attr |-> a, arg |-> x]
  <2>2. b \in Block
    BY ItemsAreItems DEF Block
  <2>3. blocks \in Seq(Block) /\ blocks' = Append(blocks, b)
    BY <1>4 DEF TypeOK, OpenBlock
  <2> HIDE DEF b
  <2>4. /\ blocks' \in Seq(Block)
        /\ DOMAIN blocks = 1 .. Len(blocks)
        /\ DOMAIN blocks' = 1 .. Len(blocks) + 1
        /\ Len(blocks) \in Nat
        /\ \A k \in 1 .. Len(blocks) : blocks'[k] = blocks[k]
        /\ blocks'[Len(blocks) + 1] = b
    BY <2>2, <2>3, AppendProperties, LenProperties
  <2>5. \A k \in DOMAIN blocks' : blocks'[k].arg \in ItemsOf(blocks'[k].attr)
    BY <2>4 DEF TypeOK, b
  <2> QED
    BY <1>4, <2>1, <2>4, <2>5 DEF TypeOK, OpenBlock
<1>5. ASSUME NEW n \in 0 .. Len(blocks), blocks' = SubSeq(blocks, 1, n)
      PROVE  /\ blocks' \in Seq(Block)
             /\ \A k \in DOMAIN blocks' : blocks'[k].arg \in ItemsOf(blocks'[k].attr)
  BY <1>5, BlockPrefix DEF TypeOK
<1>6. CASE CloseBlock
  <2>1. Len(blocks) \in Nat /\ Len(blocks) # 0 /\ blocks \in Seq(Block)
    BY <1>6, EmptySeq, LenProperties DEF TypeOK, CloseBlock
  <2>2. blocks' = SubSeq(blocks, 1, Len(blocks) - 1) /\ Len(blocks) - 1 \in 0 .. Len(blocks)
    BY <1>6, <2>1 DEF CloseBlock, Front
  <2>3. blocks[Len(blocks)].attr \in Attribute
    <3>1. Len(blocks) \in 1 .. Len(blocks)
      BY <2>1
    <3>2. blocks[Len(blocks)] \in Block
      BY <2>1, <3>1, ElementOfSeq
    <3> QED
      BY <3>2 DEF Block
  <2>4. IsLists(attr')
    BY <1>6, <2>3, PopProperties DEF TypeOK, CloseBlock
  <2> QED
    BY <1>5, <1>6, <2>2, <2>4 DEF TypeOK, CloseBlock
<1>7. CASE AbandonBlocks
  <2>1. PICK n \in 0 .. Len(blocks) - 1 : blocks' = SubSeq(blocks, 1, n)
    BY <1>7 DEF AbandonBlocks
  <2>2. n \in 0 .. Len(blocks)
    BY LenProperties DEF TypeOK
  <2> QED
    BY <1>5, <1>7, <2>1, <2>2 DEF TypeOK, AbandonBlocks
<1> QED
  BY <1>1, <1>2, <1>3, <1>4, <1>6, <1>7 DEF Client

\* The lists that the steps of a call build are well-formed.
LEMMA TypeSteps ==
  ASSUME TypeOK, Step
  PROVE  TypeOK'
<1> USE DEF TypeOK
<1>1. /\ IsLists(attr)
      /\ call.op = "header" => call.arg \in ItemsOf("headers")
      /\ call.op = "library" => call.arg \in ItemsOf("loaded_libs")
      /\ Attribute = {"headers", "loaded_libs", "includes"}
      /\ ItemsOf("includes") = Dir
  BY DEF ItemsOf, Attribute
<1>2. call.op = "header" => \A i \in 1 .. Len(call.paths) : call.paths[i] \in Dir
  BY ElementOfSeq DEF Request
<1>3. call.paths \in Seq(Dir) /\ Len(call.paths) \in Nat
  BY LenProperties DEF Request
<1>4. ASSUME NEW value \in {"true", "false"}, Return(value),
             IsLists(attr'), defines' \subseteq Macro
      PROVE  TypeOK'
  <2>1. 0 <= Len(call.paths) /\ 0 \in Nat
    BY <1>3
  <2>2. at' = 0 /\ pc' = "idle" /\ linked' = FALSE /\ ret' = value
    BY <1>4 DEF Return
  <2>3. UNCHANGED <<libraryPaths, blocks, call, tempFiles>>
    BY <1>4 DEF Return
  <2> QED
    BY <1>4, <2>1, <2>2, <2>3
<1>5. ASSUME NEW lists, IsLists(lists), call.op = "header", ReturnHeader(lists)
      PROVE  TypeOK'
  <2>1. IsLists(attr')
    BY <1>1, <1>5, PushProperties DEF ReturnHeader
  <2>2. defines' \subseteq Macro
    BY <1>5, ClientAssumption DEF ReturnHeader
  <2> QED
    BY <1>4, <1>5, <2>1, <2>2 DEF ReturnHeader
<1>6. CASE HeaderAlreadyLoaded
  BY <1>1, <1>5, <1>6 DEF HeaderAlreadyLoaded
<1>7. CASE TryHeader
  <2>1. IsLists(attr')
    BY <1>1, <1>7, PushProbeProperties DEF TryHeader
  <2> QED
    BY <1>7, <2>1 DEF TryHeader
<1>8. CASE LibraryAlreadyLoaded
  <2>1. IsLists(attr')
    <3>1. "loaded_libs" \in Attribute /\ call.arg \in ItemsOf("loaded_libs")
      BY <1>1, <1>8 DEF LibraryAlreadyLoaded
    <3> QED
      BY <1>1, <1>8, <3>1, PushProperties DEF LibraryAlreadyLoaded
  <2> QED
    BY <1>4, <1>8, <2>1 DEF LibraryAlreadyLoaded
<1>9. CASE TryLibrary
  <2>1. IsLists(attr')
    <3>1. "loaded_libs" \in Attribute /\ call.arg \in ItemsOf("loaded_libs")
      BY <1>1, <1>9 DEF TryLibrary
    <3> QED
      BY <1>1, <1>9, <3>1, PushProperties DEF TryLibrary
  <2> QED
    BY <1>9, <2>1 DEF TryLibrary
<1>10. CASE TryFunction
  BY <1>10 DEF TryFunction
<1>11. CASE CreateSource
  BY <1>11 DEF CreateSource, TempFile
<1>12. CASE Link
  <2>1. linked' \in BOOLEAN
    BY <1>12 DEF Link
  <2>2. tempFiles' \subseteq TempFile
    BY <1>12 DEF Link, TempFile
  <2> QED
    BY <1>12, <2>1, <2>2 DEF Link
<1>13. CASE RemoveTempFiles
  BY <1>13 DEF RemoveTempFiles
<1>14. CASE HeaderFound
  <2> DEFINE popped == PopProbe(attr, at)
             kept == IF at = 0 THEN popped ELSE Push(popped, "includes", call.paths[at])
  <2>1. IsLists(popped)
    BY <1>1, PopProbeProperties
  <2>2. call.op = "header" /\ ReturnHeader(kept)
    BY <1>14 DEF HeaderFound
  <2> HIDE DEF popped
  <2>3. IsLists(kept)
    <3>1. CASE at = 0
      BY <2>1, <3>1
    <3>2. CASE at # 0
      <4>1. call.paths[at] \in ItemsOf("includes")
        BY <1>1, <1>2, <1>3, <2>2, <3>2
      <4> QED
        BY <1>1, <2>1, <3>2, <4>1, PushProperties
    <3> QED
      BY <3>1, <3>2
  <2> HIDE DEF kept
  <2> QED
    BY <1>5, <2>2, <2>3
<1>15. CASE TryNextPath
  <2> DEFINE popped == PopProbe(attr, at)
  <2>1. IsLists(popped)
    BY <1>1, PopProbeProperties
  <2>2. /\ call.op = "header" /\ call.arg \in Header
        /\ at + 1 \in Nat /\ at + 1 <= Len(call.paths)
        /\ attr' = PushProbe(popped, at + 1)
    BY <1>3, <1>15 DEF TryNextPath
  <2> HIDE DEF popped
  <2>3. call.paths[at + 1] \in Dir
    BY <1>2, <1>3, <2>2
  <2>4. IsLists(attr')
    BY <2>1, <2>2, <2>3, PushProbeProperties
  <2> QED
    BY <1>15, <2>2, <2>4 DEF TryNextPath
<1>16. CASE HeaderNotFound
  <2>1. IsLists(attr')
    BY <1>1, <1>16, PopProbeProperties DEF HeaderNotFound
  <2> QED
    BY <1>4, <1>16, <2>1 DEF HeaderNotFound
<1>17. CASE TryReference
  BY <1>17 DEF TryReference
<1>18. CASE FunctionAnswered
  BY <1>4, <1>1, <1>18 DEF FunctionAnswered
<1>19. CASE LibraryAnswered
  <2> DEFINE popped == Pop(attr, "loaded_libs", call.arg)
  <2>1. IsLists(popped)
    BY <1>1, PopProperties
  <2>2. /\ call.op = "library"
        /\ attr' = IF linked /\ call.keep THEN Push(popped, "loaded_libs", call.arg)
                   ELSE popped
    BY <1>19 DEF LibraryAnswered
  <2> HIDE DEF popped
  <2>3. IsLists(attr')
    <3>1. "loaded_libs" \in Attribute /\ call.arg \in ItemsOf("loaded_libs")
      BY <1>1, <2>2
    <3> QED
      BY <2>1, <2>2, <3>1, PushProperties
  <2> QED
    BY <1>4, <1>19, <2>3 DEF LibraryAnswered
<1> QED
  BY <1>6, <1>7, <1>8, <1>9, <1>10, <1>11, <1>12, <1>13, <1>14, <1>15, <1>16,
     <1>17, <1>18, <1>19 DEF Step

\* The variables of a session always have the values the code can give them;
\* in particular no list ever holds an element twice.
THEOREM TypeCorrect == Spec => []TypeOK
<1>1. TypeOK /\ [Next]_vars => TypeOK'
  <2> SUFFICES ASSUME TypeOK, [Next]_vars
               PROVE  TypeOK'
    OBVIOUS
  <2>1. CASE Client
    BY <2>1, TypeCalls
  <2>2. CASE Step
    BY <2>2, TypeSteps
  <2>3. CASE Raise
    <3>1. PICK n \in 0 .. Len(blocks) : blocks' = SubSeq(blocks, 1, n)
      BY <2>3 DEF Raise
    <3>2. /\ blocks' \in Seq(Block)
          /\ \A k \in DOMAIN blocks' : blocks'[k].arg \in ItemsOf(blocks'[k].attr)
      BY <3>1, BlockPrefix DEF TypeOK
    <3>3. call.op = "header" => 0 <= Len(call.paths)
      BY LenProperties DEF TypeOK, Request
    <3> QED
      BY <2>3, <3>2, <3>3 DEF TypeOK, Raise
  <2>4. CASE UNCHANGED vars
    BY <2>4 DEF TypeOK, vars
  <2> QED
    BY <2>1, <2>2, <2>3, <2>4 DEF Next
<1> QED
  BY <1>1, TypeInit, PTL DEF Spec
=============================================================================
