---------------------------- MODULE MCXmlParsing ----------------------------
(***************************************************************************)
(* Two parsers and contexts, so that one is freed while another is in use; *)
(* a parse within a parse; three objects for two documents, so that one of *)
(* them has several.  All counted at once come to MaxCount; what is        *)
(* counted and never counted off uses the count up, too.                   *)
(***************************************************************************)
EXTENDS XmlParsing, TLC

Symmetry == Permutations(Parser) \cup Permutations(Context)
              \cup Permutations(Document) \cup Permutations(Doc)
=============================================================================
