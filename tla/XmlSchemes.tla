----------------------------- MODULE XmlSchemes -----------------------------
(***************************************************************************)
(* What XML::InputCallbacks promises: classes queue up for a scheme, the   *)
(* class that has been there longest answers for the files of the scheme,  *)
(* add_scheme puts one at the end of the queue of its scheme, and          *)
(* remove_scheme takes the first one from the queue of its scheme, and     *)
(* does nothing to the other schemes.  A file without a class is not       *)
(* asked for.                                                              *)
(***************************************************************************)
EXTENDS Sequences, SequencesExt

CONSTANTS
  Name,   \* the schemes
  File,   \* the names of files that are opened
  Begins, \* of a scheme, the files that belong to it
  Class,  \* the classes that answer for schemes
  Nil

VARIABLES
  registered, \* are the callbacks registered?  Without, no class is asked.
  queue,      \* of each scheme, the classes that wait to answer
  asked       \* for what is open, innermost last, the class asked for it, or Nil

Answering(f) ==
  IF registered
  THEN {Head(queue[n]) : n \in {m \in Name : f \in Begins[m] /\ queue[m] # <<>>}}
  ELSE {}

Register ==
  /\ registered' = TRUE
  /\ UNCHANGED <<queue, asked>>

Add(n, class) ==
  /\ queue' = [queue EXCEPT ![n] = Append(@, class)]
  /\ UNCHANGED <<registered, asked>>

Withdraw(n) ==
  /\ queue[n] # <<>>
  /\ queue' = [queue EXCEPT ![n] = Tail(@)]
  /\ UNCHANGED <<registered, asked>>

Open(f) ==
  /\ \/ \E class \in Answering(f) : asked' = Append(asked, class)
     \/ Answering(f) = {} /\ asked' = Append(asked, Nil)
  /\ UNCHANGED <<registered, queue>>

OpenString ==
  /\ asked' = Append(asked, Nil)
  /\ UNCHANGED <<registered, queue>>

Close ==
  /\ asked # <<>>
  /\ asked' = Front(asked)
  /\ UNCHANGED <<registered, queue>>

Init == registered = FALSE /\ queue = [n \in Name |-> <<>>] /\ asked = <<>>

Next ==
  \/ \E n \in Name : Withdraw(n) \/ \E class \in Class : Add(n, class)
  \/ \E f \in File : Open(f)
  \/ Register \/ OpenString \/ Close

Spec == Init /\ [][Next]_<<registered, queue, asked>>
=============================================================================
