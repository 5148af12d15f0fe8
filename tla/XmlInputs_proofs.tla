-------------------------- MODULE XmlInputs_proofs --------------------------
(***************************************************************************)
(* For all schemes, answers, parsers, events, and depths of parses within  *)
(* parses: what a parse has got is the beginning of the answer to its      *)
(* question, and no handler is collected that an event may call.           *)
(*                                                                         *)
(* The first rests on Aligned: the place at which ic_read goes on is the   *)
(* number of characters libxml2 has got, and none before the answer.  The  *)
(* second rests on Keeps: what the mark function leaves out is kept by the *)
(* program.                                                                *)
(*                                                                         *)
(* And XmlInputs implements XmlSchemes.  The queue of a scheme is read off *)
(* the list by the one enumeration of its places in increasing order:      *)
(* Enumerable says that there is one, which each change of the list keeps, *)
(* and OneOrder that there is no other.                                    *)
(***************************************************************************)
EXTENDS XmlInputs, SequenceTheorems, FiniteSetTheorems, WellFoundedInduction, TLAPS

Aligned(parse) ==
  /\ parse.bpos = Len(parse.got)
  /\ parse.at = "query" => parse.got = <<>> /\ parse.answer = Nil

Good == {parse \in Parse : Aligned(parse) /\ Served(parse)}

Keeps == \A s \in Sax : Unmarked(s) \subseteq kept \cup {Nil}

IInv == TypeOK /\ stack \in Seq(Good) /\ Keeps /\ HandlersAlive

-----------------------------------------------------------------------------
(***************************************************************************)
(* The stack                                                               *)
(***************************************************************************)
\* What is known of the top of a stack.
LEMMA TopOf ==
  ASSUME NEW S, stack \in Seq(S), stack # <<>>
  PROVE  Top \in S
BY DEF Top, Last

\* SetTop keeps the others.
LEMMA TopSet ==
  ASSUME NEW S, NEW parse \in S, stack \in Seq(S), stack # <<>>, SetTop(parse)
  PROVE  stack' \in Seq(S)
BY DEF SetTop

\* Front keeps the others.
LEMMA Popped ==
  ASSUME NEW S, stack \in Seq(S), stack # <<>>
  PROVE  Front(stack) \in Seq(S)
<1>1. Len(stack) \in Nat \ {0} /\ DOMAIN stack = 1..Len(stack)
  OBVIOUS
<1>2. \A i \in 1..(Len(stack) - 1) : stack[i] \in S
  BY <1>1
<1> QED
  BY <1>1, <1>2, SubSeqProperties DEF Front

\* A stack of good parses is one of parses, and each of them is served.
LEMMA GoodStack ==
  ASSUME stack \in Seq(Good)
  PROVE  stack \in Seq(Parse) /\ ServedInOrder
<1>1. Good \subseteq Parse
  BY DEF Good
<1>2. \A i \in DOMAIN stack : Served(stack[i])
  BY DEF Good
<1> QED
  BY <1>1, <1>2, SeqMonotonic DEF ServedInOrder

-----------------------------------------------------------------------------
(***************************************************************************)
(* The steps of a parse keep it good.                                      *)
(***************************************************************************)
\* ic_open goes on: nothing has been got of the answer yet.
LEMMA AnsweredGood ==
  ASSUME NEW answer \in Answer, stack \in Seq(Good), Answered(answer)
  PROVE  stack' \in Seq(Good)
<1> DEFINE parse == [Top EXCEPT !.at = "read", !.answer = answer, !.bpos = 0,
                                !.remaining = Length[answer]]
<1>1. Top \in Parse /\ Aligned(Top) /\ Top.at = "query" /\ stack # <<>>
  BY TopOf DEF Good, Answered
<1>2. Length[answer] \in Nat
  BY InputsAssumption
<1>3. parse \in Parse
  BY <1>1, <1>2 DEF Parse
<1>4. /\ parse.at = "read" /\ parse.answer = answer /\ parse.bpos = 0
      /\ parse.remaining = Length[answer] /\ parse.got = <<>>
  BY <1>1 DEF Parse, Aligned
<1>5. Aligned(parse)
  BY <1>4 DEF Aligned
<1>6. parse.got = [k \in 1..Len(parse.got) |-> <<parse.answer, k>>]
  BY <1>4
<1>7. Served(parse)
  BY <1>2, <1>4, <1>6 DEF Served
<1>8. parse \in Good
  BY <1>3, <1>5, <1>7 DEF Good
<1>9. SetTop(parse)
  BY DEF Answered
<1> QED
  BY <1>1, <1>8, <1>9, TopSet

\* The characters of an answer that come after the first ones.
LEMMA Extended ==
  ASSUME NEW answer \in Answer, NEW got \in Seq(Answer \X Nat), NEW n \in Nat,
         got = [k \in 1..Len(got) |-> <<answer, k>>],
         NEW more, more = [i \in 1..n |-> <<answer, Len(got) + i>>]
  PROVE  /\ got \o more \in Seq(Answer \X Nat)
         /\ Len(got \o more) = Len(got) + n
         /\ got \o more = [k \in 1..Len(got \o more) |-> <<answer, k>>]
<1>1. Len(got) \in Nat
  OBVIOUS
<1>2. more \in Seq(Answer \X Nat) /\ Len(more) = n
  BY <1>1
<1>3. /\ got \o more \in Seq(Answer \X Nat)
      /\ Len(got \o more) = Len(got) + n
  BY <1>2, ConcatProperties
<1>4. ASSUME NEW i \in 1..(Len(got) + n)
      PROVE  (got \o more)[i] = <<answer, i>>
  <2>1. CASE i <= Len(got)
    <3>1. i \in 1..Len(got)
      BY <1>1, <2>1
    <3>2. (got \o more)[i] = got[i]
      BY <1>1, <1>2, <3>1
    <3> QED
      BY <3>1, <3>2
  <2>2. CASE i > Len(got)
    <3>1. i - Len(got) \in 1..n /\ Len(got) + (i - Len(got)) = i
      BY <1>1, <2>2
    <3>2. (got \o more)[i] = more[i - Len(got)]
      BY <1>1, <1>2, <2>2
    <3>3. more[i - Len(got)] = <<answer, Len(got) + (i - Len(got))>>
      BY <3>1
    <3> QED
      BY <3>1, <3>2, <3>3
  <2> QED
    BY <1>1, <2>1, <2>2
<1>5. got \o more = [k \in 1..(Len(got) + n) |-> <<answer, k>>]
  BY <1>1, <1>2, <1>3, <1>4
<1> QED
  BY <1>3, <1>5

\* ic_read appends the characters that come next.
LEMMA IcReadGood ==
  ASSUME NEW len \in Nat, stack \in Seq(Good), IcRead(len)
  PROVE  stack' \in Seq(Good)
<1> DEFINE n == IF len >= Top.remaining THEN Top.remaining ELSE len
           more == [i \in 1..n |-> <<Top.answer, Top.bpos + i>>]
           parse == [Top EXCEPT !.remaining = @ - n, !.bpos = @ + n, !.got = @ \o more]
<1>1. /\ Top \in Parse /\ Aligned(Top) /\ Served(Top)
      /\ Top.at = "read" /\ Top.answer # Nil /\ stack # <<>>
  BY TopOf DEF Good, IcRead
<1>2. /\ Top.answer \in Answer /\ Top.bpos \in Nat /\ Top.remaining \in Nat
      /\ Top.got \in Seq(Answer \X Nat) /\ Len(Top.got) \in Nat
  BY <1>1 DEF Parse
<1>3. n \in Nat /\ Top.remaining - n \in Nat
  BY <1>2
<1> HIDE DEF n
<1>4. /\ Top.got = [k \in 1..Len(Top.got) |-> <<Top.answer, k>>]
      /\ Len(Top.got) + Top.remaining = Length[Top.answer]
      /\ Top.bpos = Len(Top.got)
  BY <1>1 DEF Served, Aligned
<1>5. more = [i \in 1..n |-> <<Top.answer, Len(Top.got) + i>>]
  BY <1>4
<1> HIDE DEF more
<1> DEFINE got == Top.got
           all == got \o more
<1>6. /\ all \in Seq(Answer \X Nat)
      /\ Len(all) = Len(Top.got) + n
      /\ all = [k \in 1..Len(all) |-> <<Top.answer, k>>]
  <2>1. /\ got \in Seq(Answer \X Nat) /\ more = [i \in 1..n |-> <<Top.answer, Len(got) + i>>]
        /\ got = [k \in 1..Len(got) |-> <<Top.answer, k>>]
    BY <1>2, <1>4, <1>5
  <2> HIDE DEF got
  <2>2. /\ all \in Seq(Answer \X Nat)
        /\ Len(all) = Len(got) + n
        /\ all = [k \in 1..Len(all) |-> <<Top.answer, k>>]
    BY <1>2, <1>3, <2>1, Extended
  <2> QED
    BY <2>2 DEF got
<1> HIDE DEF all
<1>7. /\ parse.at = "read" /\ parse.answer = Top.answer
      /\ parse.remaining = Top.remaining - n /\ parse.bpos = Top.bpos + n
      /\ parse.got = all
  BY <1>1 DEF Parse, all
<1>8. parse \in Parse
  <2>1. Top.bpos + n \in Nat
    BY <1>2, <1>3
  <2> QED
    BY <1>1, <1>3, <1>6, <2>1 DEF Parse, all
<1>9. Aligned(parse)
  BY <1>4, <1>6, <1>7 DEF Aligned
<1>10. Len(all) + (Top.remaining - n) = Length[Top.answer]
  <2>1. Len(Top.got) + Top.remaining = Length[Top.answer]
    BY <1>4
  <2>2. Len(all) = Len(Top.got) + n
    BY <1>6
  <2> QED
    BY <1>2, <1>3, <2>1, <2>2
<1>11. Served(parse)
  BY <1>6, <1>7, <1>10 DEF Served
<1>12. parse \in Good
  BY <1>8, <1>9, <1>11 DEF Good
<1>13. SetTop(parse)
  BY DEF IcRead, n, more
<1> QED
  BY <1>1, <1>12, <1>13, TopSet

\* Of the other steps of a parse, each changes at the most what its top is
\* doing.
LEMMA CallbackGood ==
  ASSUME stack \in Seq(Good), (\E event \in Event : Happens(event)) \/ HandlerReturns
  PROVE  stack' \in Seq(Good)
<1>1. PICK at \in {"handler", "read"} : /\ SetTop([Top EXCEPT !.at = at])
                                       /\ stack # <<>>
  BY DEF Happens, HandlerReturns
<1>2. Top \in Parse /\ Aligned(Top) /\ Served(Top)
  BY <1>1, TopOf DEF Good
<1> DEFINE parse == [Top EXCEPT !.at = at]
<1>3. /\ parse \in Parse /\ parse.at = at /\ parse.answer = Top.answer
      /\ parse.remaining = Top.remaining /\ parse.bpos = Top.bpos
      /\ parse.got = Top.got
  BY <1>2 DEF Parse
<1>4. Aligned(parse) /\ Served(parse)
  BY <1>2, <1>3 DEF Aligned, Served
<1> QED
  BY <1>1, <1>3, <1>4, TopSet DEF Good

\* A parse begins with nothing.
LEMMA SaxParseGood ==
  ASSUME TypeOK, stack \in Seq(Good), NEW s \in Sax, SaxParse(s)
  PROVE  stack' \in Seq(Good)
<1> DEFINE parse(at, class) ==
             [sax |-> s, at |-> at, class |-> class, answer |-> Nil,
              bpos |-> 0, remaining |-> 0, got |-> <<>>]
<1>1. PICK at \in {"query", "read"}, class \in Class \cup {Nil} :
        stack' = Append(stack, parse(at, class))
  <2>1. \A file \in File : IcOpen(file) \subseteq Class
    <3> DEFINE S == [name : Name, class : Class]
    <3>1. schemes \in Seq(S)
      BY DEF TypeOK
    <3> HIDE DEF S
    <3>2. \A i \in DOMAIN schemes : schemes[i] \in S
      BY <3>1
    <3>3. \A i \in DOMAIN schemes : schemes[i].class \in Class
      BY <3>2 DEF S
    <3> QED
      BY <3>3 DEF IcOpen, Matching
  <2>2. sax[s].filename \in File \cup {Nil}
    BY DEF TypeOK
  <2> QED
    BY <2>1, <2>2 DEF SaxParse
<1>2. parse(at, class) \in Parse
  BY DEF Parse
<1>3. Aligned(parse(at, class)) /\ Served(parse(at, class))
  BY DEF Aligned, Served
<1>4. parse(at, class) \in Good
  BY <1>2, <1>3 DEF Good
<1> QED
  BY <1>1, <1>4

-----------------------------------------------------------------------------
(***************************************************************************)
(* The invariant                                                           *)
(***************************************************************************)
\* Every step keeps the parses good.
LEMMA NextGood ==
  ASSUME IInv, [Next]_vars
  PROVE  stack' \in Seq(Good)
<1> USE DEF IInv
<1>1. ASSUME IcClose \/ CallbackRaises
      PROVE  stack' \in Seq(Good)
  BY <1>1, Popped DEF IcClose, CallbackRaises
<1>2. ASSUME NEW answer \in Answer, Answered(answer)
      PROVE  stack' \in Seq(Good)
  BY <1>2, AnsweredGood
<1>3. ASSUME NEW len \in 1..MaxRead, IcRead(len)
      PROVE  stack' \in Seq(Good)
  BY <1>3, IcReadGood
<1>4. ASSUME NEW event \in Event, Happens(event)
      PROVE  stack' \in Seq(Good)
  BY <1>4, CallbackGood
<1>5. ASSUME NEW s \in Sax, SaxParse(s)
      PROVE  stack' \in Seq(Good)
  BY <1>5, SaxParseGood
<1>6. ASSUME HandlerReturns
      PROVE  stack' \in Seq(Good)
  BY <1>6, CallbackGood
<1>7. CASE UNCHANGED stack
  BY <1>7
<1> QED
  BY <1>1, <1>2, <1>3, <1>4, <1>5, <1>6, <1>7
  DEF Next, vars, RegisterInputCallbacks, Collect, RemoveScheme, AddScheme, BlockMade,
      BlockDropped, SaxStrSet, SaxFilenameSet, SetHandler

\* The first states.
LEMMA InitHolds == Init => IInv
<1> SUFFICES ASSUME Init
             PROVE  IInv
  OBVIOUS
<1>1. stack \in Seq(Parse) /\ stack \in Seq(Good) /\ schemes \in Seq([name : Name, class : Class])
  BY EmptySeq DEF Init
<1>2. TypeOK
  BY <1>1 DEF Init, TypeOK
<1> QED
  BY <1>1, <1>2 DEF Init, IInv, Keeps, Unmarked, HandlersAlive

\* Types: those of the stack are among what NextGood says.
LEMMA NextTyped ==
  ASSUME IInv, [Next]_vars
  PROVE  TypeOK'
<1> USE DEF IInv, TypeOK
<1>1. stack' \in Seq(Parse)
  BY NextGood, SeqMonotonic DEF Good
<1>2. ASSUME NEW name \in Name, NEW class \in Class, AddScheme(name, class)
      PROVE  TypeOK'
  BY <1>1, <1>2 DEF AddScheme
<1>3. ASSUME NEW name \in Name, RemoveScheme(name)
      PROVE  TypeOK'
  <2>1. PICK i \in DOMAIN schemes : schemes' = RemoveAt(schemes, i)
    BY <1>3 DEF RemoveScheme
  <2> DEFINE S == [name : Name, class : Class]
  <2>a. schemes \in Seq(S)
    OBVIOUS
  <2> HIDE DEF S
  <2>2. /\ i \in 1..Len(schemes) /\ Len(schemes) \in Nat
        /\ \A j \in 1..Len(schemes) : schemes[j] \in S
    BY <2>a
  <2>3. SubSeq(schemes, 1, i - 1) \in Seq(S) /\ SubSeq(schemes, i + 1, Len(schemes)) \in Seq(S)
    BY <2>2, SubSeqProperties
  <2>4. schemes' \in Seq(S)
    BY <2>1, <2>3, ConcatProperties DEF RemoveAt
  <2> QED
    BY <1>1, <1>3, <2>4 DEF RemoveScheme, S
<1>4. ASSUME NEW s \in Sax, NEW file \in File, SaxFilenameSet(s, file)
      PROVE  TypeOK'
  BY <1>1, <1>4 DEF SaxFilenameSet
<1>5. ASSUME NEW s \in Sax, SaxStrSet(s)
      PROVE  TypeOK'
  BY <1>1, <1>5 DEF SaxStrSet
<1>6. ASSUME NEW s \in Sax, NEW event \in Event, NEW proc \in Proc \cup {Nil},
             SetHandler(s, event, proc)
      PROVE  TypeOK'
  BY <1>1, <1>6 DEF SetHandler
<1>7. ASSUME NEW proc \in Proc, BlockMade(proc) \/ BlockDropped(proc)
      PROVE  TypeOK'
  BY <1>1, <1>7 DEF BlockMade, BlockDropped
<1>8. ASSUME Collect
      PROVE  TypeOK'
  BY <1>1, <1>8 DEF Collect
<1>9. ASSUME RegisterInputCallbacks
      PROVE  TypeOK'
  BY <1>1, <1>9 DEF RegisterInputCallbacks
<1>10. ASSUME UNCHANGED <<registered, schemes, sax, alive, kept>>
       PROVE  TypeOK'
  BY <1>1, <1>10
<1> QED
  BY <1>2, <1>3, <1>4, <1>5, <1>6, <1>7, <1>8, <1>9, <1>10
  DEF Next, vars, IcClose, CallbackRaises, HandlerReturns, Answered, IcRead, Happens, SaxParse

\* Blocks: who keeps or marks them.
LEMMA NextKeeps ==
  ASSUME IInv, [Next]_vars
  PROVE  Keeps' /\ HandlersAlive'
<1> USE DEF IInv, TypeOK, Keeps, HandlersAlive, Unmarked
<1>1. ASSUME NEW s \in Sax, NEW event \in Event, NEW proc \in Proc \cup {Nil},
             SetHandler(s, event, proc)
      PROVE  Keeps' /\ HandlersAlive'
  <2>1. /\ proc \in kept \cup {Nil} /\ kept' = kept /\ alive' = alive
        /\ \A r \in Sax, e \in Event : sax'[r].handlers[e] \in {proc, sax[r].handlers[e]}
    BY <1>1 DEF SetHandler
  <2> QED
    BY <2>1
<1>2. ASSUME NEW proc \in Proc, BlockMade(proc)
      PROVE  Keeps' /\ HandlersAlive'
  BY <1>2 DEF BlockMade
<1>3. ASSUME NEW proc \in Proc, BlockDropped(proc)
      PROVE  Keeps' /\ HandlersAlive'
  BY <1>3 DEF BlockDropped
<1>4. ASSUME Collect
      PROVE  Keeps' /\ HandlersAlive'
  <2>1. Keeps'
    BY <1>4 DEF Collect
  <2>2. ASSUME NEW s \in Sax, NEW e \in Event
        PROVE  sax[s].handlers[e] \in kept \cup {Nil} \cup SaxMark(s)
    BY DEF SaxMark
  <2> QED
    BY <1>4, <2>1, <2>2 DEF Collect
<1>5. ASSUME NEW s \in Sax, NEW file \in File, SaxFilenameSet(s, file)
      PROVE  Keeps' /\ HandlersAlive'
  <2>1. /\ kept' = kept /\ alive' = alive
        /\ \A r \in Sax : sax'[r].handlers = sax[r].handlers
    BY <1>5 DEF SaxFilenameSet
  <2> QED
    BY <2>1
<1>6. ASSUME NEW s \in Sax, SaxStrSet(s)
      PROVE  Keeps' /\ HandlersAlive'
  <2>1. /\ kept' = kept /\ alive' = alive
        /\ \A r \in Sax : sax'[r].handlers = sax[r].handlers
    BY <1>6 DEF SaxStrSet
  <2> QED
    BY <2>1
<1>7. ASSUME UNCHANGED <<sax, alive, kept>>
      PROVE  Keeps' /\ HandlersAlive'
  BY <1>7
<1> QED
  BY <1>1, <1>2, <1>3, <1>4, <1>5, <1>6, <1>7
  DEF Next, vars, RegisterInputCallbacks, AddScheme, RemoveScheme, IcClose, CallbackRaises,
      HandlerReturns, Answered, IcRead, Happens, SaxParse

\* The invariant holds.
LEMMA Invariance == Spec => []IInv
<1>1. IInv /\ [Next]_vars => IInv'
  BY NextGood, NextTyped, NextKeeps DEF IInv
<1> QED
  BY InitHolds, <1>1, PTL DEF Spec

-----------------------------------------------------------------------------
\* The variables have their types.
THEOREM TypesCorrect == Spec => []TypeOK
<1>1. IInv => TypeOK
  BY DEF IInv
<1> QED
  BY Invariance, <1>1, PTL

\* ic_open, ic_read, ic_close and the callbacks of a parse within a parse:
\* each parse has got the beginning of the answer to its own question.
THEOREM AnswersServedInOrder == Spec => []ServedInOrder
<1>1. IInv => ServedInOrder
  BY GoodStack DEF IInv
<1> QED
  BY Invariance, <1>1, PTL

\* ruby_xml_sax_parser_mark: no handler that an event may call is collected, if
\* the program keeps those that the function leaves out.
THEOREM HandlersStayAlive == Spec => []HandlersAlive
<1>1. IInv => HandlersAlive
  BY DEF IInv
<1> QED
  BY Invariance, <1>1, PTL

-----------------------------------------------------------------------------
(***************************************************************************)
(* The list of schemes as queues                                           *)
(***************************************************************************)
\* f enumerates the set I of places in increasing order.
Enumerates(f, n, I) ==
  /\ n \in Nat /\ f \in [1..n -> I] /\ Range(f) = I
  /\ \A j, k \in 1..n : j < k => f[j] < f[k]

\* Each scheme has its places in order.  That InOrder chooses something is
\* preserved by each change of the list.
Enumerable == \A name \in Name : \E n, f : Enumerates(f, n, Places(name))

\* The least of the numbers in a set.
LEMMA Least ==
  ASSUME NEW D \in SUBSET Nat, D # {}
  PROVE  \E k \in D : \A j \in D : k <= j
<1>1. PICK k \in D : \A j \in D : ~ (<<j, k>> \in OpToRel(<, Nat))
  BY NatLessThanWellFounded, WFMin
<1>2. \A j \in D : ~(j < k)
  BY <1>1 DEF OpToRel
<1> QED
  BY <1>2

\* There is one enumeration in increasing order.
LEMMA OneOrder ==
  ASSUME NEW I \in SUBSET Nat, NEW n \in Nat, NEW f \in [1..n -> I], NEW g \in [1..n -> I],
         Enumerates(f, n, I), Enumerates(g, n, I)
  PROVE  f = g
<1> DEFINE D == {k \in 1..n : f[k] # g[k]}
<1>1. \A j, k \in 1..n : j < k => f[j] < f[k] /\ g[j] < g[k]
  BY DEF Enumerates
<1>2. \A i \in I : (\E k \in 1..n : f[k] = i) /\ (\E k \in 1..n : g[k] = i)
  BY DEF Enumerates, Range
<1>3. \A k \in 1..n : k \in Nat /\ f[k] \in I /\ g[k] \in I /\ f[k] \in Nat /\ g[k] \in Nat
  <2>1. \A k \in 1..n : k \in Nat /\ f[k] \in I /\ g[k] \in I
    OBVIOUS
  <2>2. \A i \in I : i \in Nat
    OBVIOUS
  <2> QED
    BY <2>1, <2>2
<1>4. SUFFICES D = {}
  <2>1. D = {} => \A k \in 1..n : f[k] = g[k]
    OBVIOUS
  <2> HIDE DEF D
  <2> QED
    BY <2>1
<1>5. SUFFICES ASSUME D # {} PROVE FALSE
  OBVIOUS
<1>6. D \in SUBSET Nat
  BY <1>3
<1>7. PICK k \in D : \A j \in D : k <= j
  <2> HIDE DEF D
  <2> QED
    BY <1>5, <1>6, Least
<1>8. k \in 1..n /\ f[k] # g[k]
  OBVIOUS
<1>9. \A j \in 1..n : j < k => f[j] = g[j]
  BY <1>3, <1>7, <1>8
<1> HIDE DEF D
<1>10. CASE f[k] < g[k]
  <2>1. PICK j \in 1..n : g[j] = f[k]
    BY <1>2, <1>3, <1>8
  <2>2. j < k
    <3>1. j # k /\ ~(k < j)
      BY <1>1, <1>3, <1>8, <1>10, <2>1
    <3> QED
      BY <1>3, <1>8, <3>1
  <2>3. f[j] < f[k] /\ f[j] = g[j]
    BY <1>1, <1>8, <1>9, <2>2
  <2> QED
    BY <1>3, <1>8, <2>1, <2>3
<1>11. CASE g[k] < f[k]
  <2>1. PICK j \in 1..n : f[j] = g[k]
    BY <1>2, <1>3, <1>8
  <2>2. j < k
    <3>1. j # k /\ ~(k < j)
      BY <1>1, <1>3, <1>8, <1>11, <2>1
    <3> QED
      BY <1>3, <1>8, <3>1
  <2>3. g[j] < g[k] /\ f[j] = g[j]
    BY <1>1, <1>8, <1>9, <2>2
  <2> QED
    BY <1>3, <1>8, <2>1, <2>3
<1> QED
  BY <1>3, <1>8, <1>10, <1>11

\* InOrder is that enumeration.
LEMMA InOrderIs ==
  ASSUME NEW I \in SUBSET Nat, NEW n \in Nat, NEW f \in [1..n -> I], Enumerates(f, n, I)
  PROVE  InOrder(I) = f
<1>1. f \in Bijection(1..n, I)
  <2>1. /\ n \in Nat /\ f \in [1..n -> I] /\ \A j, k \in 1..n : j < k => f[j] < f[k]
        /\ \A i \in I : \E k \in 1..n : f[k] = i
    BY DEF Enumerates, Range
  <2>2. ASSUME NEW j \in 1..n, NEW k \in 1..n, f[j] = f[k]
        PROVE  j = k
    <3>1. j \in Nat /\ k \in Nat /\ f[j] \in Nat
      <4>1. \A i \in 1..n : i \in Nat /\ f[i] \in I
        OBVIOUS
      <4>2. \A i \in I : i \in Nat
        OBVIOUS
      <4> QED
        BY <4>1, <4>2
    <3>2. ~(j < k) /\ ~(k < j)
      BY <2>1, <2>2, <3>1
    <3> QED
      BY <3>1, <3>2
  <2> QED
    BY <2>1, <2>2 DEF Bijection, Injection, Surjection, IsInjective
<1>2. Cardinality(I) = n
  BY <1>1, FS_CountingElements DEF ExistsBijection, Enumerates
<1>3. \A g : (/\ g \in [1..Cardinality(I) -> I] /\ Range(g) = I
              /\ \A j, k \in DOMAIN g : j < k => g[j] < g[k]) <=> Enumerates(g, n, I)
  BY <1>2 DEF Enumerates
<1>4. InOrder(I) \in [1..n -> I] /\ Enumerates(InOrder(I), n, I)
  <2>1. f \in [1..Cardinality(I) -> I]
    BY <1>2 DEF Enumerates
  <2> QED
    BY <1>2, <1>3, <2>1 DEF InOrder
<1> QED
  BY <1>4, OneOrder

\* What enumerates the places of a scheme gives its queue.
LEMMA QueueIs ==
  ASSUME NEW name, NEW n \in Nat, NEW f \in [1..n -> Places(name)], Enumerates(f, n, Places(name)),
         TypeOK
  PROVE  Queue(name) = [k \in 1..n |-> schemes[f[k]].class]
<1>1. Places(name) \in SUBSET Nat
  BY DEF Places, TypeOK
<1>2. InOrder(Places(name)) = f
  BY <1>1, InOrderIs
<1> QED
  BY <1>2 DEF Queue

\* The same in the next state.
LEMMA QueueIsNext ==
  ASSUME NEW name, NEW n \in Nat, NEW f \in [1..n -> Places(name)'], Enumerates(f, n, Places(name)'),
         TypeOK'
  PROVE  Queue(name)' = [k \in 1..n |-> schemes'[f[k]].class]
<1>1. Places(name)' \in SUBSET Nat
  BY DEF Places, TypeOK
<1>2. InOrder(Places(name)') = f
  BY <1>1, InOrderIs
<1> QED
  BY <1>2 DEF Queue

\* add_scheme appends to the queue of its scheme and leaves the others alone.
LEMMA AddSchemeQueues ==
  ASSUME TypeOK, TypeOK', Enumerable, NEW name \in Name, NEW class \in Class, AddScheme(name, class)
  PROVE  /\ Enumerable'
         /\ Queue(name)' = Append(Queue(name), class)
         /\ \A m \in Name \ {name} : Queue(m)' = Queue(m)
<1> DEFINE L == Len(schemes) + 1
<1>1. /\ Len(schemes) \in Nat /\ DOMAIN schemes = 1..Len(schemes)
      /\ Len(schemes') = L /\ DOMAIN schemes' = 1..L
      /\ \A i \in 1..Len(schemes) : schemes'[i] = schemes[i]
      /\ schemes'[L] = [name |-> name, class |-> class]
  BY DEF AddScheme, TypeOK
<1>2. ASSUME NEW m \in Name \ {name}
      PROVE  Places(m)' = Places(m) /\ \A i \in Places(m) : schemes'[i] = schemes[i]
  BY <1>1 DEF Places
<1>3. /\ Places(name)' = Places(name) \cup {L}
      /\ \A i \in Places(name) : schemes'[i] = schemes[i] /\ i \in Nat /\ i < L
  BY <1>1 DEF Places
<1>4. ASSUME NEW m \in Name \ {name}
      PROVE  /\ \E n, f : Enumerates(f, n, Places(m)')
             /\ Queue(m)' = Queue(m)
  <2>1. PICK n, f : Enumerates(f, n, Places(m))
    BY DEF Enumerable
  <2>2. n \in Nat /\ f \in [1..n -> Places(m)]
    BY <2>1 DEF Enumerates
  <2>3. Queue(m) = [k \in 1..n |-> schemes[f[k]].class]
    BY <2>1, <2>2, QueueIs
  <2>4. Queue(m)' = [k \in 1..n |-> schemes'[f[k]].class]
    BY <1>2, <2>1, <2>2, QueueIsNext
  <2> QED
    BY <1>2, <2>1, <2>2, <2>3, <2>4
<1>5. /\ \E n, f : Enumerates(f, n, Places(name)')
      /\ Queue(name)' = Append(Queue(name), class)
  <2>1. PICK n, f : Enumerates(f, n, Places(name))
    BY DEF Enumerable
  <2>2. n \in Nat /\ f \in [1..n -> Places(name)]
    BY <2>1 DEF Enumerates
  <2> DEFINE g == [k \in 1..(n + 1) |-> IF k = n + 1 THEN L ELSE f[k]]
  <2>3. /\ n + 1 \in Nat /\ \A k \in 1..(n + 1) : k # n + 1 => k \in 1..n
        /\ n + 1 \in 1..(n + 1) /\ \A k \in 1..n : k \in 1..(n + 1) /\ k # n + 1
    BY <2>2
  <2>4. g \in [1..(n + 1) -> Places(name)']
    BY <1>3, <2>2, <2>3
  <2>5. g[n + 1] = L /\ \A k \in 1..n : g[k] = f[k]
    BY <2>3
  <2>6. DOMAIN g = 1..(n + 1)
    OBVIOUS
  <2> HIDE DEF g
  <2>7. Range(g) = Places(name)'
    <3>1. \A i \in Places(name) : \E k \in 1..n : f[k] = i
      BY <2>1 DEF Enumerates, Range
    <3>2. Range(g) \subseteq Places(name)'
      BY <2>4 DEF Range
    <3>3. \A i \in Places(name) : \E k \in 1..(n + 1) : g[k] = i
      BY <2>3, <2>5, <3>1
    <3>4. \A i \in Places(name)' : \E k \in 1..(n + 1) : g[k] = i
      BY <1>3, <2>3, <2>5, <3>3
    <3> QED
      BY <2>6, <3>2, <3>4 DEF Range
  <2>8. \A j, k \in 1..(n + 1) : j < k => g[j] < g[k]
    <3> SUFFICES ASSUME NEW j \in 1..(n + 1), NEW k \in 1..(n + 1), j < k PROVE g[j] < g[k]
      OBVIOUS
    <3>1. j \in 1..n
      BY <2>2
    <3>2. CASE k = n + 1
      <4>1. f[j] \in Places(name)
        BY <2>2, <3>1
      <4> QED
        BY <1>3, <2>5, <3>1, <3>2, <4>1
    <3>3. CASE k # n + 1
      BY <2>1, <2>3, <2>5, <3>1, <3>3 DEF Enumerates
    <3> QED
      BY <3>2, <3>3
  <2>9. Enumerates(g, n + 1, Places(name)')
    BY <2>3, <2>4, <2>7, <2>8 DEF Enumerates
  <2>10. Queue(name) = [k \in 1..n |-> schemes[f[k]].class]
    BY <2>1, <2>2, QueueIs
  <2>11. Queue(name)' = [k \in 1..(n + 1) |-> schemes'[g[k]].class]
    BY <2>3, <2>4, <2>9, QueueIsNext
  <2>12. \A k \in 1..n : schemes'[g[k]].class = schemes[f[k]].class
    BY <1>3, <2>2, <2>5
  <2>13. schemes'[g[n + 1]].class = class
    BY <1>1, <2>5
  <2>14. Queue(name)' = Append(Queue(name), class)
    <3> DEFINE q == [k \in 1..n |-> schemes[f[k]].class]
    <3>1. q \in Seq({schemes[f[k]].class : k \in 1..n}) /\ Len(q) = n
      BY <2>2
    <3>2. Append(q, class) = [k \in 1..(n + 1) |-> IF k = n + 1 THEN class ELSE q[k]]
      BY <2>2, <3>1
    <3>3. \A k \in 1..(n + 1) :
            schemes'[g[k]].class = IF k = n + 1 THEN class ELSE q[k]
      BY <2>3, <2>12, <2>13
    <3> QED
      BY <2>10, <2>11, <3>2, <3>3
  <2> QED
    BY <2>9, <2>14
<1> QED
  BY <1>4, <1>5 DEF Enumerable

\* RemoveAt closes the gap.
LEMMA Removed ==
  ASSUME NEW S, NEW s \in Seq(S), NEW i \in 1..Len(s)
  PROVE  /\ Len(RemoveAt(s, i)) = Len(s) - 1
         /\ \A j \in 1..(Len(s) - 1) : RemoveAt(s, i)[j] = IF j < i THEN s[j] ELSE s[j + 1]
<1>1. Len(s) \in Nat /\ i \in Nat /\ 1 <= i /\ i <= Len(s)
  OBVIOUS
<1> DEFINE a == SubSeq(s, 1, i - 1)
           b == SubSeq(s, i + 1, Len(s))
<1>2. /\ a \in Seq(S) /\ Len(a) = i - 1
      /\ \A j \in 1..(i - 1) : a[j] = s[j]
  BY <1>1, SubSeqProperties
<1>3. /\ b \in Seq(S) /\ Len(b) = Len(s) - i
      /\ \A j \in 1..(Len(s) - i) : b[j] = s[i + j]
  BY <1>1, SubSeqProperties
<1> HIDE DEF a, b
<1>4. /\ Len(a \o b) = Len(a) + Len(b)
      /\ \A j \in 1..(Len(a) + Len(b)) : (a \o b)[j] = IF j <= Len(a) THEN a[j] ELSE b[j - Len(a)]
  BY <1>2, <1>3, ConcatProperties
<1>5. ASSUME NEW j \in 1..(Len(s) - 1)
      PROVE  (a \o b)[j] = IF j < i THEN s[j] ELSE s[j + 1]
  <2>1. CASE j < i
    BY <1>1, <1>2, <1>3, <1>4, <2>1
  <2>2. CASE ~(j < i)
    <3>1. (a \o b)[j] = b[j - (i - 1)] /\ j - (i - 1) \in 1..(Len(s) - i)
      BY <1>1, <1>2, <1>3, <1>4, <2>2
    <3>2. i + (j - (i - 1)) = j + 1
      BY <1>1
    <3> QED
      BY <1>3, <2>2, <3>1, <3>2
  <2> QED
    BY <2>1, <2>2
<1>6. (i - 1) + (Len(s) - i) = Len(s) - 1
  BY <1>1
<1>7. Len(a \o b) = Len(s) - 1
  BY <1>2, <1>3, <1>4, <1>6
<1>8. RemoveAt(s, i) = a \o b
  BY DEF RemoveAt, a, b
<1> QED
  BY <1>5, <1>7, <1>8

\* A sequence is the function of its elements.
LEMMA SeqIs ==
  ASSUME NEW S, NEW q \in Seq(S)
  PROVE  q = [k \in 1..Len(q) |-> q[k]]
<1>1. q \in [1..Len(q) -> S]
  BY LenProperties
<1> QED
  BY <1>1

\* The tail of a sequence, as a function.
LEMMA TailIs ==
  ASSUME NEW S, NEW q \in Seq(S), q # <<>>
  PROVE  Tail(q) = [k \in 1..(Len(q) - 1) |-> q[k + 1]]
<1>1. /\ Tail(q) \in Seq(S) /\ Len(Tail(q)) = Len(q) - 1
      /\ \A k \in 1..Len(Tail(q)) : Tail(q)[k] = q[k + 1]
  BY HeadTailProperties
<1>2. Tail(q) = [k \in 1..Len(Tail(q)) |-> Tail(q)[k]]
  BY <1>1, SeqIs
<1> QED
  BY <1>1, <1>2

\* remove_scheme takes the head of the queue of its scheme and leaves the others
\* alone.
LEMMA RemoveSchemeQueues ==
  ASSUME TypeOK, TypeOK', Enumerable, NEW name \in Name, RemoveScheme(name)
  PROVE  /\ Enumerable'
         /\ Queue(name) # <<>> /\ Queue(name)' = Tail(Queue(name))
         /\ \A m \in Name \ {name} : Queue(m)' = Queue(m)
<1> DEFINE L == Len(schemes)
<1>1. PICK i \in 1..L :
        /\ schemes[i].name = name
        /\ \A j \in 1..(i - 1) : schemes[j].name # name
        /\ schemes' = RemoveAt(schemes, i)
  <2>1. Takes[name] = {name}
    BY InputsAssumption
  <2>2. DOMAIN schemes = 1..L
    BY DEF TypeOK
  <2> QED
    BY <2>1, <2>2 DEF RemoveScheme
<1>2. /\ L \in Nat /\ DOMAIN schemes = 1..L
      /\ DOMAIN schemes' = 1..(L - 1) /\ L - 1 \in Nat
      /\ \A j \in 1..(L - 1) : schemes'[j] = IF j < i THEN schemes[j] ELSE schemes[j + 1]
  <2>1. /\ Len(schemes') = L - 1
        /\ \A j \in 1..(L - 1) : schemes'[j] = IF j < i THEN schemes[j] ELSE schemes[j + 1]
    BY <1>1, Removed DEF TypeOK
  <2>2. L \in Nat /\ DOMAIN schemes = 1..L /\ DOMAIN schemes' = 1..Len(schemes')
    BY DEF TypeOK
  <2> QED
    BY <1>1, <2>1, <2>2
\* where a place goes
<1> DEFINE down(j) == IF j < i THEN j ELSE j - 1
<1>3. ASSUME NEW m \in Name, NEW j \in Places(m), j # i
      PROVE  down(j) \in Places(m)' /\ schemes'[down(j)] = schemes[j]
  <2>1. j \in 1..L /\ schemes[j].name = m
    BY <1>2 DEF Places
  <2>2. CASE j < i
    <3>1. down(j) = j /\ j \in 1..(L - 1)
      BY <1>1, <1>2, <2>1, <2>2
    <3> QED
      BY <1>2, <2>1, <2>2, <3>1 DEF Places
  <2>3. CASE ~(j < i)
    <3>1. down(j) = j - 1 /\ j - 1 \in 1..(L - 1) /\ ~(j - 1 < i) /\ (j - 1) + 1 = j
      BY <1>1, <1>2, <1>3, <2>1, <2>3
    <3> QED
      BY <1>2, <2>1, <3>1 DEF Places
  <2> QED
    BY <2>2, <2>3
<1>4. ASSUME NEW m \in Name, NEW h \in Places(m)'
      PROVE  \E j \in Places(m) \ {i} : down(j) = h
  <2>1. h \in 1..(L - 1) /\ schemes'[h].name = m
    BY <1>2 DEF Places
  <2>2. CASE h < i
    <3>1. h \in 1..L /\ h # i /\ schemes[h].name = m
      BY <1>1, <1>2, <2>1, <2>2
    <3> QED
      BY <1>2, <2>2, <3>1 DEF Places
  <2>3. CASE ~(h < i)
    <3>1. h + 1 \in 1..L /\ h + 1 # i /\ schemes[h + 1].name = m /\ ~(h + 1 < i) /\ (h + 1) - 1 = h
      BY <1>1, <1>2, <2>1, <2>3
    <3> QED
      BY <1>2, <3>1 DEF Places
  <2> QED
    BY <2>2, <2>3
<1>5. \A j, k \in 1..L : j < k /\ j # i /\ k # i => down(j) < down(k)
  BY <1>1, <1>2
<1>6. \A m \in Name : \A j \in Places(m) : j \in 1..L
  BY <1>2 DEF Places
<1> HIDE DEF down
<1>7. ASSUME NEW m \in Name \ {name}
      PROVE  /\ \E n, f : Enumerates(f, n, Places(m)')
             /\ Queue(m)' = Queue(m)
  <2>1. PICK n, f : Enumerates(f, n, Places(m))
    BY DEF Enumerable
  <2>2. n \in Nat /\ f \in [1..n -> Places(m)]
    BY <2>1 DEF Enumerates
  <2>3. i \notin Places(m)
    BY <1>1 DEF Places
  <2> DEFINE g == [k \in 1..n |-> down(f[k])]
  <2>4. \A k \in 1..n : f[k] \in Places(m) /\ f[k] # i
    BY <2>2, <2>3
  <2>5. g \in [1..n -> Places(m)'] /\ DOMAIN g = 1..n /\ \A k \in 1..n : g[k] = down(f[k])
    BY <1>3, <2>4
  <2> HIDE DEF g
  <2>6. Range(g) = Places(m)'
    <3>1. \A j \in Places(m) : \E k \in 1..n : f[k] = j
      BY <2>1 DEF Enumerates, Range
    <3>2. \A h \in Places(m)' : \E k \in 1..n : g[k] = h
      BY <1>4, <2>5, <3>1
    <3> QED
      BY <2>5, <3>2 DEF Range
  <2>7. \A j, k \in 1..n : j < k => g[j] < g[k]
    BY <1>5, <1>6, <2>1, <2>4, <2>5 DEF Enumerates
  <2>8. Enumerates(g, n, Places(m)')
    BY <2>2, <2>5, <2>6, <2>7 DEF Enumerates
  <2>9. Queue(m) = [k \in 1..n |-> schemes[f[k]].class]
    BY <2>1, <2>2, QueueIs
  <2>10. Queue(m)' = [k \in 1..n |-> schemes'[g[k]].class]
    BY <2>2, <2>5, <2>8, QueueIsNext
  <2>11. \A k \in 1..n : schemes'[g[k]] = schemes[f[k]]
    BY <1>3, <2>4, <2>5
  <2> QED
    BY <2>8, <2>9, <2>10, <2>11
<1>8. /\ \E n, f : Enumerates(f, n, Places(name)')
      /\ Queue(name) # <<>> /\ Queue(name)' = Tail(Queue(name))
  <2>1. PICK n, f : Enumerates(f, n, Places(name))
    BY DEF Enumerable
  <2>2. n \in Nat /\ f \in [1..n -> Places(name)]
    BY <2>1 DEF Enumerates
  <2>3. /\ \A k \in 1..n : f[k] \in Places(name) /\ f[k] \in 1..L
        /\ \A j \in Places(name) : \E k \in 1..n : f[k] = j
        /\ \A j, k \in 1..n : j < k => f[j] < f[k]
    BY <1>6, <2>1, <2>2 DEF Enumerates, Range
  <2>4. i \in Places(name) /\ \A j \in Places(name) : ~(j < i)
    <3>1. \A j \in 1..L : j < i => j \in 1..(i - 1)
      BY <1>1, <1>2
    <3> QED
      BY <1>1, <1>2, <1>6, <3>1 DEF Places
  <2>5. n >= 1 /\ 1 \in 1..n /\ f[1] = i /\ n - 1 \in Nat
    <3>1. PICK k \in 1..n : f[k] = i
      BY <2>3, <2>4
    <3>2. n >= 1 /\ 1 \in 1..n /\ n - 1 \in Nat
      BY <2>2, <3>1
    <3>3. ~(1 < k)
      BY <2>3, <2>4, <3>1, <3>2
    <3>4. k = 1
      BY <2>2, <3>1, <3>3
    <3> QED
      BY <3>1, <3>2, <3>4
  <2>6. \A k \in 1..(n - 1) : k + 1 \in 1..n /\ 1 < k + 1 /\ k \in 1..n
    BY <2>2
  <2> DEFINE g == [k \in 1..(n - 1) |-> down(f[k + 1])]
  <2>7. \A k \in 1..(n - 1) : f[k + 1] \in Places(name) /\ f[k + 1] # i /\ f[k + 1] \in 1..L
    <3>1. \A k \in 1..(n - 1) : i < f[k + 1]
      BY <2>3, <2>5, <2>6
    <3> QED
      BY <1>1, <2>3, <2>6, <3>1
  <2>8. /\ g \in [1..(n - 1) -> Places(name)'] /\ DOMAIN g = 1..(n - 1)
        /\ \A k \in 1..(n - 1) : g[k] = down(f[k + 1])
    BY <1>3, <2>7
  <2> HIDE DEF g
  <2>9. Range(g) = Places(name)'
    <3>1. \A j \in Places(name) \ {i} : \E k \in 1..(n - 1) : f[k + 1] = j
      <4> SUFFICES ASSUME NEW j \in Places(name) \ {i}
                   PROVE  \E k \in 1..(n - 1) : f[k + 1] = j
        OBVIOUS
      <4>1. PICK k \in 1..n : f[k] = j
        BY <2>3
      <4>2. k # 1
        BY <2>5, <4>1
      <4>3. k - 1 \in 1..(n - 1) /\ (k - 1) + 1 = k
        BY <2>2, <4>2
      <4> QED
        BY <4>1, <4>3
    <3>2. \A h \in Places(name)' : \E k \in 1..(n - 1) : g[k] = h
      BY <1>4, <2>8, <3>1
    <3> QED
      BY <2>8, <3>2 DEF Range
  <2>10. \A j, k \in 1..(n - 1) : j < k => g[j] < g[k]
    <3> SUFFICES ASSUME NEW j \in 1..(n - 1), NEW k \in 1..(n - 1), j < k PROVE g[j] < g[k]
      OBVIOUS
    <3>1. j + 1 < k + 1 /\ j + 1 \in 1..n /\ k + 1 \in 1..n
      BY <2>6
    <3>2. f[j + 1] < f[k + 1]
      BY <2>3, <3>1
    <3> QED
      BY <1>5, <2>7, <2>8, <3>2
  <2>11. Enumerates(g, n - 1, Places(name)')
    BY <2>5, <2>8, <2>9, <2>10 DEF Enumerates
  <2>12. Queue(name) = [k \in 1..n |-> schemes[f[k]].class]
    BY <2>1, <2>2, QueueIs
  <2>13. Queue(name)' = [k \in 1..(n - 1) |-> schemes'[g[k]].class]
    BY <2>5, <2>8, <2>11, QueueIsNext
  <2>14. \A k \in 1..(n - 1) : schemes'[g[k]].class = schemes[f[k + 1]].class
    BY <1>3, <2>7, <2>8
  <2>15. Queue(name) # <<>> /\ Queue(name)' = Tail(Queue(name))
    <3> DEFINE q == [k \in 1..n |-> schemes[f[k]].class]
    <3>1. q \in Seq({schemes[f[k]].class : k \in 1..n}) /\ Len(q) = n
      BY <2>2
    <3>2. \A k \in 1..(n - 1) : q[k + 1] = schemes[f[k + 1]].class
      BY <2>6
    <3>3. Queue(name) = q
      BY <2>12
    <3> HIDE DEF q
    <3>4. q # <<>>
      BY <2>5, <3>1
    <3>5. Tail(q) = [k \in 1..(n - 1) |-> q[k + 1]]
      BY <2>2, <2>5, <3>1, <3>4, TailIs
    <3>6. Queue(name)' = Tail(q)
      BY <2>13, <2>14, <3>2, <3>5
    <3> QED
      BY <3>3, <3>4, <3>6
  <2> QED
    BY <2>11, <2>15
<1> QED
  BY <1>7, <1>8 DEF Enumerable

-----------------------------------------------------------------------------
(***************************************************************************)
(* XmlInputs implements XmlSchemes                                         *)
(***************************************************************************)
Asked == [i \in DOMAIN stack |-> stack[i].class]

\* What is done to the top of the stack leaves the class asked alone ...
LEMMA TopAsked ==
  ASSUME stack \in Seq(Parse), stack # <<>>, NEW parse, parse.class = Top.class, SetTop(parse)
  PROVE  Asked' = Asked
<1>1. Len(stack) \in 1..Len(stack) /\ DOMAIN stack = 1..Len(stack)
  OBVIOUS
<1>2. stack' = [stack EXCEPT ![Len(stack)] = parse] /\ parse.class = stack[Len(stack)].class
  BY DEF SetTop, Top, Last
<1>3. DOMAIN stack' = DOMAIN stack /\ \A i \in DOMAIN stack : stack'[i].class = stack[i].class
  BY <1>1, <1>2
<1> QED
  BY <1>3 DEF Asked

\* ... and the end of a parse takes the last one off.
LEMMA FrontAsked ==
  ASSUME stack \in Seq(Parse), stack # <<>>, stack' = Front(stack)
  PROVE  Asked # <<>> /\ Asked' = Front(Asked)
<1> DEFINE n == Len(stack)
<1>1. n \in Nat /\ n \in 1..n /\ DOMAIN stack = 1..n /\ n - 1 \in Nat
  OBVIOUS
<1>2. stack' = [i \in 1..(n - 1) |-> stack[i]]
  BY <1>1, SubSeqProperties DEF Front
<1>3. Asked' = [i \in 1..(n - 1) |-> stack[i].class]
  BY <1>2 DEF Asked
<1>4. Asked \in Seq({stack[i].class : i \in 1..n}) /\ Len(Asked) = n /\ Asked # <<>>
  BY <1>1 DEF Asked
<1>5. Front(Asked) = [i \in 1..(n - 1) |-> Asked[i]]
  BY <1>1, <1>4, SubSeqProperties DEF Front
<1>6. \A i \in 1..(n - 1) : Asked[i] = stack[i].class
  BY <1>1 DEF Asked
<1> QED
  BY <1>3, <1>4, <1>5, <1>6

\* A parse begins: its class is asked last.
LEMMA PushAsked ==
  ASSUME stack \in Seq(Parse), NEW parse \in Parse, stack' = Append(stack, parse)
  PROVE  Asked' = Append(Asked, parse.class)
<1> DEFINE n == Len(stack)
<1>1. n \in Nat /\ DOMAIN stack = 1..n
  OBVIOUS
<1>2. stack' = [i \in 1..(n + 1) |-> IF i = n + 1 THEN parse ELSE stack[i]]
  <2>1. /\ stack' \in Seq(Parse) /\ Len(stack') = n + 1
        /\ \A i \in 1..n : stack'[i] = stack[i]
        /\ stack'[n + 1] = parse
    BY AppendProperties
  <2>2. stack' = [i \in 1..(n + 1) |-> stack'[i]]
    BY <2>1, SeqIs
  <2>3. \A i \in 1..(n + 1) : stack'[i] = IF i = n + 1 THEN parse ELSE stack[i]
    BY <1>1, <2>1
  <2> QED
    BY <2>2, <2>3
<1>3. Asked' = [i \in 1..(n + 1) |-> IF i = n + 1 THEN parse.class ELSE stack[i].class]
  <2>1. \A i \in 1..(n + 1) : stack'[i].class = IF i = n + 1 THEN parse.class ELSE stack[i].class
    BY <1>2
  <2>2. DOMAIN stack' = 1..(n + 1)
    BY <1>2
  <2> QED
    BY <2>1, <2>2 DEF Asked
<1>4. Asked \in Seq({stack[i].class : i \in 1..n}) /\ Len(Asked) = n
  BY <1>1 DEF Asked
<1>5. Append(Asked, parse.class) = [i \in 1..(n + 1) |-> IF i = n + 1 THEN parse.class ELSE Asked[i]]
  BY <1>1, <1>4
<1>6. \A i \in 1..(n + 1) : i # n + 1 => Asked[i] = stack[i].class
  BY <1>1 DEF Asked
<1> QED
  BY <1>3, <1>5, <1>6

\* Each entry of the list names a scheme and a class.
LEMMA SchemesNamed ==
  ASSUME TypeOK
  PROVE  /\ DOMAIN schemes = 1..Len(schemes) /\ Len(schemes) \in Nat
         /\ \A i \in DOMAIN schemes : schemes[i].name \in Name /\ schemes[i].class \in Class
<1> DEFINE R == [name : Name, class : Class]
<1>0. schemes \in Seq(R)
  BY DEF TypeOK
<1>1. DOMAIN schemes = 1..Len(schemes) /\ Len(schemes) \in Nat
  BY <1>0
<1>2. \A i \in 1..Len(schemes) : schemes[i] \in R
  <2> HIDE DEF R
  <2> QED
    BY <1>0
<1>3. \A r \in R : r.name \in Name /\ r.class \in Class
  OBVIOUS
<1> QED
  BY <1>1, <1>2, <1>3

\* ic_open asks the head of the queue of the scheme that the file is of.
LEMMA AnsweringIs ==
  ASSUME TypeOK, Enumerable, NEW file \in File
  PROVE  Registry!Answering(file) = IF registered THEN IcOpen(file) ELSE {}
<1> DEFINE q == [name \in Name |-> Queue(name)]
<1>1. ASSUME NEW m \in Name, file \in Begins[m]
      PROVE  /\ Matching(file) = Places(m)
             /\ Queue(m) # <<>> <=> Places(m) # {}
             /\ Queue(m) # <<>> => IcOpen(file) = {Head(Queue(m))}
  <2>1. /\ DOMAIN schemes = 1..Len(schemes) /\ Len(schemes) \in Nat
        /\ \A i \in DOMAIN schemes : schemes[i].name \in Name
    BY SchemesNamed
  <2>2. \A i \in DOMAIN schemes : file \in Begins[schemes[i].name] <=> schemes[i].name = m
    <3>1. \A k \in Name : k # m => file \notin Begins[k]
      BY <1>1, InputsAssumption
    <3> QED
      BY <1>1, <2>1, <3>1
  <2>3. Matching(file) = Places(m)
    BY <2>2 DEF Matching, Places
  <2>4. PICK n, f : Enumerates(f, n, Places(m))
    BY DEF Enumerable
  <2>5. n \in Nat /\ f \in [1..n -> Places(m)]
    BY <2>4 DEF Enumerates
  <2>6. Queue(m) = [k \in 1..n |-> schemes[f[k]].class]
    BY <2>4, <2>5, QueueIs
  <2>7. /\ \A k \in 1..n : f[k] \in Places(m)
        /\ \A j \in Places(m) : \E k \in 1..n : f[k] = j
        /\ \A j, k \in 1..n : j < k => f[j] < f[k]
        /\ \A j \in Places(m) : j \in Nat
    BY <2>1, <2>4, <2>5 DEF Enumerates, Range, Places
  <2>8. Queue(m) \in Seq({schemes[f[k]].class : k \in 1..n}) /\ Len(Queue(m)) = n
    BY <2>5, <2>6
  <2>9. Queue(m) # <<>> <=> 1 \in 1..n
    BY <2>5, <2>8
  <2>10. Places(m) # {} <=> 1 \in 1..n
    BY <2>5, <2>7
  <2>11. ASSUME 1 \in 1..n
         PROVE  IcOpen(file) = {Head(Queue(m))}
    <3>1. f[1] \in Places(m) /\ \A j \in Places(m) : f[1] <= j
      <4>1. \A k \in 1..n : k = 1 \/ 1 < k
        BY <2>5
      <4>2. \A k \in 1..n : f[1] <= f[k]
        BY <2>7, <2>11, <4>1
      <4> QED
        BY <2>7, <2>11, <4>2
    <3>2. {k \in Places(m) : \A j \in Places(m) : k <= j} = {f[1]}
      BY <2>7, <3>1
    <3>3. IcOpen(file) = {schemes[f[1]].class}
      BY <2>3, <3>2 DEF IcOpen
    <3>4. Head(Queue(m)) = schemes[f[1]].class
      BY <2>6, <2>8, <2>11
    <3> QED
      BY <3>3, <3>4
  <2> QED
    BY <2>3, <2>9, <2>10, <2>11
<1>2. \A n \in Name : q[n] = Queue(n)
  OBVIOUS
<1>3. {Head(q[n]) : n \in {m \in Name : file \in Begins[m] /\ q[m] # <<>>}} = IcOpen(file)
  <2> HIDE DEF q
  <2>1. CASE \E m \in Name : file \in Begins[m] /\ Queue(m) # <<>>
    <3>1. PICK m \in Name : file \in Begins[m] /\ Queue(m) # <<>>
      BY <2>1
    <3>2. \A k \in Name : k # m => file \notin Begins[k]
      BY <3>1, InputsAssumption
    <3>3. {k \in Name : file \in Begins[k] /\ q[k] # <<>>} = {m}
      BY <1>2, <3>1, <3>2
    <3> QED
      BY <1>1, <1>2, <3>1, <3>3
  <2>2. CASE \A m \in Name : file \in Begins[m] => Queue(m) = <<>>
    <3>1. Matching(file) = {}
      <4> SUFFICES ASSUME NEW i \in Matching(file) PROVE FALSE
        OBVIOUS
      <4>1. schemes[i].name \in Name /\ file \in Begins[schemes[i].name]
        BY SchemesNamed DEF Matching
      <4> QED
        BY <1>1, <2>2, <4>1
    <3>2. IcOpen(file) = {}
      BY <3>1 DEF IcOpen
    <3>3. {k \in Name : file \in Begins[k] /\ q[k] # <<>>} = {}
      BY <1>2, <2>2
    <3> QED
      BY <3>2, <3>3
  <2> QED
    BY <2>1, <2>2
<1> QED
  BY <1>3 DEF Registry!Answering

\* Nothing changes for what is open: the schemes' queues and the classes asked
\* stay as they are.
LEMMA QuietStep ==
  ASSUME UNCHANGED <<registered, schemes>>, Asked' = Asked
  PROVE  [Registry!Next]_<<registered, [name \in Name |-> Queue(name)], Asked>>
<1>1. \A name \in Name : Queue(name)' = Queue(name)
  BY DEF Queue, Places
<1> QED
  BY <1>1

\* The two changes of the list.
LEMMA ListStep ==
  ASSUME TypeOK, TypeOK', Enumerable,
         NEW name \in Name, RemoveScheme(name) \/ \E class \in Class : AddScheme(name, class)
  PROVE  Enumerable' /\ Registry!Next
<1> DEFINE q == [m \in Name |-> Queue(m)]
<1>1. CASE RemoveScheme(name)
  <2>1. /\ Enumerable'
        /\ Queue(name) # <<>> /\ Queue(name)' = Tail(Queue(name))
        /\ \A m \in Name \ {name} : Queue(m)' = Queue(m)
    BY <1>1, RemoveSchemeQueues
  <2>2. [m \in Name |-> Queue(m)'] = [q EXCEPT ![name] = Tail(@)] /\ q[name] # <<>>
    BY <2>1
  <2>3. registered' = registered /\ Asked' = Asked
    BY <1>1 DEF RemoveScheme, Asked
  <2>4. Registry!Withdraw(name)
    BY <2>2, <2>3 DEF Registry!Withdraw, Asked
  <2> QED
    BY <2>1, <2>4 DEF Registry!Next
<1>2. ASSUME NEW class \in Class, AddScheme(name, class)
      PROVE  Enumerable' /\ Registry!Next
  <2>1. /\ Enumerable'
        /\ Queue(name)' = Append(Queue(name), class)
        /\ \A m \in Name \ {name} : Queue(m)' = Queue(m)
    BY <1>2, AddSchemeQueues
  <2>2. [m \in Name |-> Queue(m)'] = [q EXCEPT ![name] = Append(@, class)]
    BY <2>1
  <2>3. registered' = registered /\ Asked' = Asked
    BY <1>2 DEF AddScheme, Asked
  <2>4. Registry!Add(name, class)
    BY <2>2, <2>3 DEF Registry!Add, Asked
  <2> QED
    BY <2>1, <2>4 DEF Registry!Next
<1> QED
  BY <1>1, <1>2

\* A parse opens its file, or its string.
LEMMA OpenStep ==
  ASSUME TypeOK, Enumerable, NEW s \in Sax, SaxParse(s)
  PROVE  Registry!Next
<1> DEFINE file == sax[s].filename
           parse(at, class) ==
             [sax |-> s, at |-> at, class |-> class, answer |-> Nil,
              bpos |-> 0, remaining |-> 0, got |-> <<>>]
<1>1. stack \in Seq(Parse) /\ file \in File \cup {Nil}
  BY DEF TypeOK
<1>2. registered' = registered /\ \A m \in Name : Queue(m)' = Queue(m)
  BY DEF SaxParse, Queue, Places
<1>3. ASSUME NEW at \in {"query", "read"}, NEW class \in Class \cup {Nil},
             stack' = Append(stack, parse(at, class))
      PROVE  Asked' = Append(Asked, class)
  <2>1. parse(at, class) \in Parse /\ parse(at, class).class = class
    BY DEF Parse
  <2> HIDE DEF parse
  <2> QED
    BY <1>1, <1>3, <2>1, PushAsked
<1>4. CASE file # Nil /\ registered /\ IcMatch(file)
  <2>0. PICK f \in File : f = file
    BY <1>1, <1>4
  <2>1. PICK class \in IcOpen(file) : stack' = Append(stack, parse("query", class))
    BY <1>4, InputsAssumption DEF SaxParse
  <2>2. class \in Class
    BY <2>1, SchemesNamed DEF IcOpen, Matching
  <2>3. Asked' = Append(Asked, class)
    BY <1>3, <2>1, <2>2
  <2>4. class \in Registry!Answering(f)
    BY <1>4, <2>0, <2>1, AnsweringIs
  <2>5. Registry!Open(f)
    BY <1>2, <2>3, <2>4 DEF Registry!Open, Asked
  <2> QED
    BY <2>5 DEF Registry!Next
<1>5. CASE file # Nil /\ ~(registered /\ IcMatch(file))
  <2>0. PICK f \in File : f = file
    BY <1>1, <1>5
  <2>1. stack' = Append(stack, parse("read", Nil))
    BY <1>5 DEF SaxParse
  <2>2. Asked' = Append(Asked, Nil)
    BY <1>3, <2>1
  <2>3. Registry!Answering(f) = {}
    BY <1>5, <2>0, AnsweringIs DEF IcOpen, IcMatch
  <2>4. Registry!Open(f)
    BY <1>2, <2>2, <2>3 DEF Registry!Open, Asked
  <2> QED
    BY <2>4 DEF Registry!Next
<1>6. CASE file = Nil
  <2>1. stack' = Append(stack, parse("read", Nil))
    BY <1>6 DEF SaxParse
  <2>2. Asked' = Append(Asked, Nil)
    BY <1>3, <2>1
  <2>3. Registry!OpenString
    BY <1>2, <2>2 DEF Registry!OpenString, Asked
  <2> QED
    BY <2>3 DEF Registry!Next
<1> QED
  BY <1>4, <1>5, <1>6

\* A parse ends, or is left.
LEMMA CloseStep ==
  ASSUME TypeOK, IcClose \/ CallbackRaises
  PROVE  Registry!Next
<1>1. stack # <<>> /\ stack' = Front(stack) /\ UNCHANGED <<registered, schemes>>
  BY DEF IcClose, CallbackRaises
<1>2. Asked # <<>> /\ Asked' = Front(Asked)
  BY <1>1, FrontAsked DEF TypeOK
<1>3. \A m \in Name : Queue(m)' = Queue(m)
  BY <1>1 DEF Queue, Places
<1>4. Registry!Close
  BY <1>1, <1>2, <1>3 DEF Registry!Close, Asked, Front, Registry!Front
<1> QED
  BY <1>4 DEF Registry!Next

\* In between, a parse and its class stay on the stack.
LEMMA ParseStep ==
  ASSUME TypeOK, \/ \E answer \in Answer : Answered(answer)
                 \/ \E len \in 1..MaxRead : IcRead(len)
                 \/ HandlerReturns
                 \/ \E event \in Event : Happens(event)
  PROVE  UNCHANGED <<registered, schemes>> /\ Asked' = Asked
<1>1. UNCHANGED <<registered, schemes>> /\ stack # <<>>
  BY DEF Answered, IcRead, HandlerReturns, Happens
<1>2. stack \in Seq(Parse) /\ Top \in Parse
  BY <1>1, TopOf DEF TypeOK
<1>3. PICK parse : parse.class = Top.class /\ SetTop(parse)
  <2>1. ASSUME NEW answer \in Answer, Answered(answer)
        PROVE  \E parse : parse.class = Top.class /\ SetTop(parse)
    BY <1>2, <2>1 DEF Answered, Parse
  <2>2. ASSUME NEW len \in 1..MaxRead, IcRead(len)
        PROVE  \E parse : parse.class = Top.class /\ SetTop(parse)
    <3> DEFINE ret_len == IF len >= Top.remaining THEN Top.remaining ELSE len
               parse == [Top EXCEPT !.remaining = @ - ret_len,
                                    !.bpos = @ + ret_len,
                                    !.got = @ \o [i \in 1..ret_len |-> <<Top.answer, Top.bpos + i>>]]
    <3>1. SetTop(parse)
      BY <2>2 DEF IcRead
    <3>2. parse.class = Top.class
      BY <1>2 DEF Parse
    <3> HIDE DEF parse
    <3> QED
      BY <3>1, <3>2
  <2>3. ASSUME HandlerReturns
        PROVE  \E parse : parse.class = Top.class /\ SetTop(parse)
    BY <1>2, <2>3 DEF HandlerReturns, Parse
  <2>4. ASSUME NEW event \in Event, Happens(event)
        PROVE  \E parse : parse.class = Top.class /\ SetTop(parse)
    BY <1>2, <2>4 DEF Happens, Parse
  <2> QED
    BY <2>1, <2>2, <2>3, <2>4
<1> QED
  BY <1>1, <1>2, <1>3, TopAsked

\* Every step is one of the registry's, or none.
LEMMA RegistryStep ==
  ASSUME TypeOK, TypeOK', Enumerable, [Next]_vars
  PROVE  /\ Enumerable'
         /\ [Registry!Next]_<<registered, [name \in Name |-> Queue(name)], Asked>>
<1>1. ASSUME NEW name \in Name, RemoveScheme(name) \/ \E class \in Class : AddScheme(name, class)
      PROVE  Enumerable' /\ Registry!Next
  BY <1>1, ListStep
<1>2. ASSUME UNCHANGED schemes
      PROVE  Enumerable'
  BY <1>2 DEF Enumerable, Places
<1>3. CASE RegisterInputCallbacks
  <2>1. UNCHANGED schemes /\ registered' = TRUE /\ Asked' = Asked
    BY <1>3 DEF RegisterInputCallbacks, Asked
  <2>2. \A m \in Name : Queue(m)' = Queue(m)
    BY <2>1 DEF Queue, Places
  <2>3. Registry!Register
    BY <2>1, <2>2 DEF Registry!Register, Asked
  <2> QED
    BY <1>2, <2>1, <2>3 DEF Registry!Next
<1>4. ASSUME NEW s \in Sax, SaxParse(s)
      PROVE  Enumerable' /\ Registry!Next
  BY <1>2, <1>4, OpenStep DEF SaxParse
<1>5. CASE IcClose \/ CallbackRaises
  BY <1>2, <1>5, CloseStep DEF IcClose, CallbackRaises
<1>6. CASE \/ \E answer \in Answer : Answered(answer)
           \/ \E len \in 1..MaxRead : IcRead(len)
           \/ HandlerReturns
           \/ \E event \in Event : Happens(event)
  BY <1>2, <1>6, ParseStep, QuietStep
<1>7. CASE UNCHANGED <<registered, schemes, stack>>
  BY <1>2, <1>7, QuietStep DEF Asked
<1> QED
  BY <1>1, <1>3, <1>4, <1>5, <1>6, <1>7
  DEF Next, vars, Collect, BlockMade, BlockDropped, SaxStrSet, SaxFilenameSet, SetHandler

\* At first nothing is registered and nothing is open.
LEMMA RegistryInit == Init => Registry!Init /\ Enumerable
<1> SUFFICES ASSUME Init PROVE Registry!Init /\ Enumerable
  OBVIOUS
<1>1. TypeOK
  BY InitHolds DEF IInv
<1>2. registered = FALSE /\ schemes = <<>> /\ stack = <<>>
  BY DEF Init
<1>3. \A name \in Name : Places(name) = {}
  BY <1>2 DEF Places
<1>4. ASSUME NEW name \in Name
      PROVE  Enumerates(<<>>, 0, Places(name)) /\ Queue(name) = <<>>
  <2>1. Enumerates(<<>>, 0, Places(name)) /\ <<>> \in [1..0 -> Places(name)]
    BY <1>3 DEF Enumerates, Range
  <2>2. Queue(name) = [k \in 1..0 |-> schemes[<<>>[k]].class]
    BY <1>1, <2>1, QueueIs
  <2> QED
    BY <2>1, <2>2
<1>5. [i \in DOMAIN stack |-> stack[i].class] = <<>>
  BY <1>2
<1> QED
  BY <1>2, <1>4, <1>5 DEF Registry!Init, Enumerable

\* XML::InputCallbacks: whatever callbacks change in the middle of parses, the
\* one list of schemes is a queue of classes for each scheme, and each file that
\* is opened asks the head of the queue of its scheme, or no class.
THEOREM ImplementsSchemes == Spec => ImplementsRegistry
<1>1. TypeOK /\ TypeOK' /\ Enumerable /\ [Next]_vars
        => /\ Enumerable'
           /\ [Registry!Next]_<<registered, [name \in Name |-> Queue(name)], Asked>>
  BY RegistryStep
<1> QED
  BY <1>1, RegistryInit, TypesCorrect, PTL
  DEF Spec, ImplementsRegistry, Registry!Spec, Asked
=============================================================================
