------------------------------ MODULE Toolchain ------------------------------
(***************************************************************************)
(* The C toolchain as Mkrf::Availability meets it: `system(link_command)`  *)
(* compiles temp_source.c with the -I directories of @includes and links   *)
(* it with the -L directories of @library_paths and the libraries of       *)
(* @loaded_libs.  Compiler and linker are not part of the repository; what *)
(* is installed on the machine is a parameter, and CanLink says when the   *)
(* command line the code builds exits with status 0.                       *)
(*                                                                         *)
(* Libraries are shared objects, so their place on the command line is of  *)
(* no consequence, and a call of an undeclared function compiles (C89).    *)
(***************************************************************************)
EXTENDS Naturals, Sequences

CONSTANTS
  Header,     \* names a header can be asked for by
  Lib,        \* names a library can be asked for by
  Func,       \* function names
  Dir,        \* directories
  SysDir,     \* the directory compiler and linker search unasked
  HeaderDirs, \* HeaderDirs[h]: the directories that hold header h
  LibDirs,    \* LibDirs[l]: the directories that hold library l
  Exports,    \* Exports[l]: the functions library l defines
  Declares,   \* Declares[h]: the functions header h declares with parameters
  Inline,     \* functions that exist only in the headers that declare them
  Runtime,    \* functions every program links with: main and the C library
  Main        \* "main", which each probe defines itself

ASSUME ToolchainAssumption ==
  /\ SysDir \in Dir
  /\ HeaderDirs \in [Header -> SUBSET Dir]
  /\ LibDirs \in [Lib -> SUBSET Dir]
  /\ Exports \in [Lib -> SUBSET Func]
  /\ Declares \in [Header -> SUBSET Func]
  /\ Inline \subseteq Func
  /\ Runtime \subseteq Func
  /\ Main \in Runtime

-----------------------------------------------------------------------------
(* What a search finds *)

\* `#include <h>` succeeds with -I for each directory of dirs.
Found(h, dirs) == HeaderDirs[h] \cap (dirs \cup {SysDir}) # {}

\* `-l l` succeeds with -L for each directory of dirs.
Linkable(l, dirs) == LibDirs[l] \cap (dirs \cup {SysDir}) # {}

\* A function some library of libs defines, or some included header.
Defined(f, libs, included) ==
  \/ f \in Runtime
  \/ \E l \in libs : f \in Exports[l]
  \/ f \in Inline /\ \E h \in included : f \in Declares[h]

Declared(f, included) == \E h \in included : f \in Declares[h]

-----------------------------------------------------------------------------
(* The probe programs                                                      *)

Forms == {"include", "call", "reference"}

\* The headers whose `#include` the preprocessor obeys.
\* header_include_string joins the directives with a backslash and an n, not
\* with a newline, so the generated file has them all on one line and what
\* follows the first is ignored (with a warning, which is silenced).
Included(headers) == IF headers = << >> THEN {} ELSE {headers[1]}

\* simple_include, simple_call and simple_reference.  A call without
\* arguments is refused where a declaration with parameters is in sight; a
\* reference is refused where there is no declaration at all.
Compiles(form, name, headers, dirs) ==
  LET included == Included(headers)
  IN  /\ \A h \in included : Found(h, dirs)
      /\ CASE form = "include"   -> Found(name, dirs)
           [] form = "call"      -> ~Declared(name, included)
           [] form = "reference" -> name = Main \/ Declared(name, included)

\* The exit status of link_command for one probe program.  Every loaded
\* library is on the command line, whatever the probe asks for.
CanLink(form, name, headers, dirs, libs, libdirs) ==
  /\ Compiles(form, name, headers, dirs)
  /\ \A l \in libs : Linkable(l, libdirs)
  /\ form = "include" \/ Defined(name, libs, Included(headers))

=============================================================================
