--------------------------- MODULE MCAvailability ---------------------------
(***************************************************************************)
(* A small machine for TLC: three headers of which one is installed        *)
(* nowhere and one outside the default search path; three libraries, one   *)
(* in a directory of its own and one missing; a declared function, one     *)
(* that only a library has, one that nothing has.                          *)
(***************************************************************************)
EXTENDS Availability

CONSTANTS stdio, xml, fake,      \* headers
          z, xml2, bogus,        \* libraries
          main, inflate, parse, blah, putc, \* functions
          sys, inc, opt, alt     \* directories

MCHeader == {stdio, xml, fake}
MCLib    == {z, xml2, bogus}
MCFunc   == {main, inflate, parse, blah}
MCDir    == {sys, inc, opt, alt}

MCHeaderDirs == stdio :> {inc} @@ xml :> {opt} @@ fake :> {}
MCLibDirs    == z :> {sys} @@ xml2 :> {opt} @@ bogus :> {}
MCExports    == z :> {inflate} @@ xml2 :> {parse} @@ bogus :> {}
MCDeclares   == stdio :> {inflate} @@ xml :> {} @@ fake :> {}
MCRuntime    == {main}

MCMacro   == {"HAVE_STDIO_H", "HAVE_XML_H", "HAVE_FAKE_H"}
MCMacroOf == stdio :> "HAVE_STDIO_H" @@ xml :> "HAVE_XML_H" @@ fake :> "HAVE_FAKE_H"

\* Defaults of Availability.new: no headers, a library, an include directory.
MCOptions == [headers |-> << >>, loaded_libs |-> << >>, includes |-> <<inc>>]

\* A smaller machine, for the runs with blocks and with exceptions: one header
\* in the default search path, one outside, which declares the function of a
\* library in a directory of its own, and a library that is missing.
SmallHeader == {stdio, xml}
SmallLib    == {xml2, bogus}
SmallFunc   == {main, parse}

SmallHeaderDirs == [h \in SmallHeader |-> MCHeaderDirs[h]]
SmallLibDirs    == [l \in SmallLib |-> MCLibDirs[l]]
SmallExports    == [l \in SmallLib |-> MCExports[l]]
SmallDeclares   == stdio :> {} @@ xml :> {parse}
SmallMacroOf    == [h \in SmallHeader |-> MCMacroOf[h]]

SmallPathLists == {<< >>, <<alt, opt>>}

MCPathLists == {<< >>, <<opt>>, <<alt, opt>>}
MCNoPaths   == {<< >>}
MCOnePath   == {<< >>, <<opt>>}

\* A header with a function that is defined in the header itself (putc as an
\* inline function).
InlineFunc     == {main, putc}
InlineExports  == [l \in SmallLib |-> {}]
InlineDeclares == stdio :> {} @@ xml :> {putc}
InlineOnly     == {putc}
=============================================================================
