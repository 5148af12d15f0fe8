----------------------------- MODULE MCXmlInputs -----------------------------
(***************************************************************************)
(* A scheme with a file, a scheme without one and a file of no scheme, two  *)
(* classes, answers of two characters, one SAX parser with the handler that *)
(* is not marked and one that is, and a parse within a parse.               *)
(***************************************************************************)
EXTENDS XmlInputs, TLC

CONSTANTS deb, zip, debFile, plainFile

MCBegins == deb :> {debFile} @@ zip :> {}
MCTakes  == deb :> {deb} @@ zip :> {zip}
MCLength == [answer \in Answer |-> 2]
=============================================================================
