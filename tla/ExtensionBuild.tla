--------------------------- MODULE ExtensionBuild ---------------------------
(***************************************************************************)
(* Building one extension: the outer rake of setup_extension               *)
(* (lib/mkrf/rakehelper.rb), the configuration script it runs (a           *)
(* Mkrf::Generator, lib/mkrf/generator.rb) and the inner rake that runs    *)
(* the generated Rakefile.                                                 *)
(*                                                                         *)
(* rake decides by file times: a file task acts if its file is missing or  *)
(* a prerequisite is newer.  A time is a Nat, 0 that of a missing file;    *)
(* every write takes a new one, so a time also names the text that was     *)
(* written.  The developer edits, removes and cleans between builds, never *)
(* during one; a kill ends all processes between any two of their steps.   *)
(***************************************************************************)
EXTENDS Naturals, FiniteSets

CONSTANTS
  Source,   \* the extension's C files
  Probe,    \* temp_source.c, which the pattern "*.c" matches too
  MaxClock, \* bound on the file times at which the developer edits or cleans,
            \* or has a configuration run
  ByHand,   \* does the developer also run mkrf_conf.rb and rake in the
            \* extension's directory?
  Kills     \* may the processes be killed?

ASSUME BuildAssumption ==
  /\ Probe \notin Source
  /\ Source \cap {"header", "conf"} = {} /\ Probe \notin {"header", "conf"}
  /\ MaxClock \in Nat
  /\ ByHand \in BOOLEAN
  /\ Kills \in BOOLEAN

VARIABLES
  clock,     \* the latest file time
  stamp,     \* times of C files, the header and mkrf_conf.rb
  defective, \* the files whose text does not compile, or aborts
  rakefile,  \* the generated Rakefile: its time, and the mkrf_conf.rb it was
             \* generated from, 0 while it is empty
  object,    \* object files: time and content
  so,        \* the shared object in the extension's directory
  lib,       \* its copy in lib
  listed,    \* the C files the outer rake took for prerequisites when it began
  job,       \* what runs: the outer rake, mkrf_conf.rb alone, rake alone
  pc,        \* where it is
  outcome    \* how the outer rake ended, until the developer's next step

vars == <<clock, stamp, defective, rakefile, object, so, lib, listed, job, pc,
          outcome>>

CFile == Source \cup {Probe}
Text  == Source \cup {"header", "conf"}  \* what the developer writes

\* A compiled C file: the texts of the file, of the header and of the
\* configuration (which sets CFLAGS and INCLUDES) that went into it.
Compiled == [of: CFile, source: Nat, header: Nat, conf: Nat]

\* Types of the variables.
TypeOK ==
  /\ clock \in Nat
  /\ stamp \in [Text \cup {Probe} -> Nat]
  /\ defective \subseteq Text
  /\ rakefile \in [time: Nat, conf: Nat]
  /\ object \in [CFile -> [time: Nat, is: Compiled]]
  /\ so \in [time: Nat, parts: SUBSET Compiled]
  /\ lib \in [whole: BOOLEAN, parts: SUBSET Compiled]
  /\ listed \subseteq CFile
  /\ job \in {"build", "conf", "rake"}
  /\ pc \in {"idle", "configure", "probe", "open", "write", "depend", "make",
             "copy", "copying"}
  /\ outcome \in {"none", "ok", "failed", "unlinked", "killed"}

Exists(c) == stamp[c] > 0

CFilesListed == Source  \* mutant of CFiles: file names instead of a pattern

\* What the pattern "*.c" matches.
CFiles == {c \in CFile : Exists(c)}

NoObject(c) == [time |-> 0, is |-> [of |-> c, source |-> 0, header |-> 0, conf |-> 0]]

NoCopy == [whole |-> FALSE, parts |-> {}]

-----------------------------------------------------------------------------
(* The developer                                                           *)

Act == pc = "idle" /\ outcome' = "none"

Edit(f) ==
  /\ Act
  /\ clock < MaxClock
  /\ clock' = clock + 1
  /\ stamp' = [stamp EXCEPT ![f] = clock + 1]
  /\ defective' \in {defective \cup {f}, defective \ {f}}
  /\ UNCHANGED <<rakefile, object, so, lib, listed, job, pc>>

Remove(s) ==
  /\ Act
  /\ \E t \in Source \ {s} : Exists(t)
  /\ stamp' = [stamp EXCEPT ![s] = 0]
  /\ defective' = defective \ {s}
  /\ UNCHANGED <<clock, rakefile, object, so, lib, listed, job, pc>>

\* `rake clean` with the patterns of setup_clean: the products, the copy in
\* lib among them, and the Rakefile where the project lists it
\* (examples/trivial does).
Clean ==
  /\ Act
  /\ clock < MaxClock
  /\ object' = [c \in CFile |-> NoObject(c)]
  /\ so' = [time |-> 0, parts |-> {}]
  /\ lib' = NoCopy
  /\ rakefile' \in {rakefile, [time |-> 0, conf |-> 0]}
  /\ UNCHANGED <<clock, stamp, defective, listed, job, pc>>

Run(what, first) ==
  /\ Act
  /\ first = "configure" => clock <= MaxClock
  /\ job' = what
  /\ listed' = IF what = "build" THEN CFiles ELSE {}
  /\ pc' = first
  /\ UNCHANGED <<clock, stamp, defective, rakefile, object, so, lib>>

\* Mutant of StartBuild: an existing Rakefile is not generated again.
StartBuildConfigured ==
  Run("build", IF rakefile.time = 0 THEN "configure" ELSE "depend")

\* The extension's task of setup_extension.  Its first prerequisite is the
\* Rakefile, which depends on mkrf_conf.rb; its second always acts, since one
\* of its own prerequisites, "lib", is a task without a file, whose time is
\* now.  So rake runs in the extension's directory every time.
StartBuild ==
  Run("build", IF rakefile.time < stamp["conf"] THEN "configure" ELSE "depend")

\* The developer runs mkrf_conf.rb, or rake on the Rakefile that is there.
StartByHand ==
  /\ ByHand
  /\ \/ Run("conf", "configure")
     \/ rakefile.time > 0 /\ Run("rake", "make")

-----------------------------------------------------------------------------
(* mkrf_conf.rb: the constructor of Generator                              *)

Goto(next) == pc' = next /\ UNCHANGED <<listed, job, outcome>>

\* An `sh` or `ruby` that fails raises, and rake stops.
Fail ==
  /\ pc' = "idle"
  /\ outcome' = IF job = "build" THEN "failed" ELSE outcome
  /\ UNCHANGED <<listed, job>>

\* The configuration block probes (can_link?): temp_source.c is written ...
WriteProbe ==
  /\ pc = "configure"
  /\ clock' = clock + 1
  /\ stamp' = [stamp EXCEPT ![Probe] = clock + 1]
  /\ Goto("probe")
  /\ UNCHANGED <<defective, rakefile, object, so, lib>>

\* Mutant of RemoveProbe: can_link? keeps its source.
KeepProbe ==
  /\ pc = "probe"
  /\ IF "conf" \in defective THEN Fail ELSE Goto("open")
  /\ UNCHANGED <<clock, stamp, defective, rakefile, object, so, lib>>

\* ... and removed.  A defective configuration ends here, with abort! or with
\* an exception: the process fails before it touches the Rakefile.
RemoveProbe ==
  /\ pc = "probe"
  /\ stamp' = [stamp EXCEPT ![Probe] = 0]
  /\ IF "conf" \in defective THEN Fail ELSE Goto("open")
  /\ UNCHANGED <<clock, defective, rakefile, object, so, lib>>

\* write_rakefile opens the file with "w+", which empties it ...
OpenRakefile ==
  /\ pc = "open"
  /\ clock' = clock + 1
  /\ rakefile' = [time |-> clock + 1, conf |-> 0]
  /\ Goto("write")
  /\ UNCHANGED <<stamp, defective, object, so, lib>>

\* ... and then writes rakefile_contents.
WriteRakefile ==
  /\ pc = "write"
  /\ rakefile' = [rakefile EXCEPT !.conf = stamp["conf"]]
  /\ Goto(IF job = "conf" THEN "idle" ELSE "depend")
  /\ UNCHANGED <<clock, stamp, defective, object, so, lib>>

\* Back in the outer rake, which invokes the prerequisites of the shared object
\* as the FileList matched them when it began: one that has gone since has no
\* task that could make it.
Prerequisites ==
  /\ pc = "depend"
  /\ IF \A c \in listed : Exists(c) THEN Goto("make") ELSE Fail
  /\ UNCHANGED <<clock, stamp, defective, rakefile, object, so, lib>>

-----------------------------------------------------------------------------
(* rake in the extension's directory: the generated Rakefile               *)

Stale(c) == Exists(c) /\ object[c].time < stamp[c]

\* An empty Rakefile has no default task.
NoDefaultTask ==
  /\ pc = "make"
  /\ rakefile.conf = 0
  /\ Fail
  /\ UNCHANGED <<clock, stamp, defective, rakefile, object, so, lib>>

\* Mutant of Compile: the object is written elsewhere.
CompileElsewhere(c) ==
  /\ pc = "make"
  /\ rakefile.conf > 0
  /\ Stale(c)
  /\ {c, "header"} \cap defective = {}
  /\ Goto("make")
  /\ UNCHANGED <<clock, stamp, defective, rakefile, object, so, lib>>

\* The rule for object files.  An object depends on its source alone.
Compile(c) ==
  /\ pc = "make"
  /\ rakefile.conf > 0
  /\ Stale(c)
  /\ {c, "header"} \cap defective = {}
  /\ clock' = clock + 1
  /\ object' = [object EXCEPT ![c] =
                  [time |-> clock + 1,
                   is |-> [of |-> c, source |-> stamp[c],
                           header |-> stamp["header"], conf |-> rakefile.conf]]]
  /\ Goto("make")
  /\ UNCHANGED <<stamp, defective, rakefile, so, lib>>

\* Mutant of CompileFails: the failure goes unnoticed.
CompileFailsUnnoticed(c) ==
  /\ pc = "make"
  /\ rakefile.conf > 0
  /\ Stale(c)
  /\ {c, "header"} \cap defective # {}
  /\ clock' = clock + 1
  /\ object' = [object EXCEPT ![c].time = clock + 1]
  /\ Goto("make")
  /\ UNCHANGED <<stamp, defective, rakefile, so, lib>>

\* The compiler leaves the old object or none.
CompileFails(c) ==
  /\ pc = "make"
  /\ rakefile.conf > 0
  /\ Stale(c)
  /\ {c, "header"} \cap defective # {}
  /\ object' \in {object, [object EXCEPT ![c].time = 0]}
  /\ Fail
  /\ UNCHANGED <<clock, stamp, defective, rakefile, so, lib>>

Made == Goto(IF job = "build" THEN "copy" ELSE "idle")

\* Mutant of Link: the names of the objects, not what they hold.
LinkNames ==
  /\ pc = "make"
  /\ rakefile.conf > 0
  /\ \A c \in CFile : ~Stale(c)
  /\ so.time = 0 \/ \E c \in CFiles : object[c].time > so.time
  /\ clock' = clock + 1
  /\ so' = [time |-> clock + 1, parts |-> CFiles]
  /\ Made
  /\ UNCHANGED <<stamp, defective, rakefile, object, lib>>

\* The file task of the extension.  It depends on the objects alone.
Link ==
  /\ pc = "make"
  /\ rakefile.conf > 0
  /\ \A c \in CFile : ~Stale(c)
  /\ so.time = 0 \/ \E c \in CFiles : object[c].time > so.time
  /\ clock' = clock + 1
  /\ so' = [time |-> clock + 1, parts |-> {object[c].is : c \in CFiles}]
  /\ Made
  /\ UNCHANGED <<stamp, defective, rakefile, object, lib>>

\* The linker refuses the objects, which compiled one by one: two of them define
\* a symbol, or none does.  (So it may with texts that are all right, while an
\* object is still that of an older header.)  It leaves the old shared object or
\* none, and rake stops before the copy.
LinkFails ==
  /\ pc = "make"
  /\ rakefile.conf > 0
  /\ \A c \in CFile : ~Stale(c)
  /\ so.time = 0 \/ \E c \in CFiles : object[c].time > so.time
  /\ so' \in {so, [time |-> 0, parts |-> {}]}
  /\ pc' = "idle"
  /\ outcome' = IF job = "build" THEN "unlinked" ELSE outcome
  /\ UNCHANGED <<clock, stamp, defective, rakefile, object, lib, listed, job>>

\* Mutant of NothingToDo: what has not been linked anew is not copied, as if
\* "lib" were a directory with a time.
NothingToCopy ==
  /\ pc = "make"
  /\ rakefile.conf > 0
  /\ \A c \in CFile : ~Stale(c)
  /\ so.time > 0 /\ \A c \in CFiles : object[c].time <= so.time
  /\ pc' = "idle"
  /\ outcome' = IF job = "build" THEN "ok" ELSE outcome
  /\ UNCHANGED <<clock, stamp, defective, rakefile, object, so, lib, listed, job>>

NothingToDo ==
  /\ pc = "make"
  /\ rakefile.conf > 0
  /\ \A c \in CFile : ~Stale(c)
  /\ so.time > 0 /\ \A c \in CFiles : object[c].time <= so.time
  /\ Made
  /\ UNCHANGED <<clock, stamp, defective, rakefile, object, so, lib>>

\* Back in setup_extension: `cp ext_so, "lib"` empties the copy ...
CopyBegins ==
  /\ pc = "copy"
  /\ lib' = NoCopy
  /\ Goto("copying")
  /\ UNCHANGED <<clock, stamp, defective, rakefile, object, so>>

\* ... and fills it.
CopyEnds ==
  /\ pc = "copying"
  /\ lib' = [whole |-> TRUE, parts |-> so.parts]
  /\ pc' = "idle"
  /\ outcome' = "ok"
  /\ UNCHANGED <<clock, stamp, defective, rakefile, object, so, listed, job>>

\* All processes end where they are.  (Compiler and linker take their
\* unfinished output with them.)
Kill ==
  /\ Kills
  /\ pc # "idle"
  /\ pc' = "idle"
  /\ outcome' = "killed"
  /\ UNCHANGED <<clock, stamp, defective, rakefile, object, so, lib, listed, job>>

-----------------------------------------------------------------------------
(* Specification                                                           *)

\* A fresh checkout, in which nothing has been built.
Init ==
  /\ clock = 1
  /\ stamp = [f \in Text \cup {Probe} |-> IF f = Probe THEN 0 ELSE 1]
  /\ defective = {}
  /\ rakefile = [time |-> 0, conf |-> 0]
  /\ object = [c \in CFile |-> NoObject(c)]
  /\ so = [time |-> 0, parts |-> {}]
  /\ lib = NoCopy
  /\ listed = {}
  /\ job = "build"
  /\ pc = "idle"
  /\ outcome = "none"

Developer ==
  \/ \E f \in Text : Edit(f)
  \/ \E s \in Source : Remove(s)
  \/ Clean
  \/ StartBuild
  \/ StartByHand

Step ==
  \/ WriteProbe \/ RemoveProbe \/ OpenRakefile \/ WriteRakefile
  \/ Prerequisites \/ NoDefaultTask
  \/ \E c \in CFile : Compile(c) \/ CompileFails(c)
  \/ Link \/ LinkFails \/ NothingToDo
  \/ CopyBegins \/ CopyEnds

Next == Developer \/ Step \/ Kill

\* Processes that run go on running; compilers exit.
Spec == Init /\ [][Next]_vars /\ WF_vars(Step)

-----------------------------------------------------------------------------
(* Properties                                                              *)

\* When the extension's task succeeds, lib holds a whole library in which every
\* C file is compiled from the text it has now - whatever was edited, removed,
\* cleaned, built by hand, failed or killed before.  (Nothing is promised for
\* headers and flags, which the rule of an object does not name.)
BuiltFromSources ==
  outcome = "ok" =>
    /\ lib.whole
    /\ \A s \in Source : Exists(s) =>
         \E p \in lib.parts : p.of = s /\ p.source = stamp[s]

\* When the extension's task succeeds, the Rakefile in force is the whole of
\* what the present mkrf_conf.rb generates: no abort! and no kill lets an older
\* configuration pass for the present one.
ConfiguredAsWritten == outcome = "ok" => rakefile.conf = stamp["conf"]

\* No probe program ever gets into the library, although temp_source.c matches
\* the generated pattern "*.c" and a kill leaves it behind: the Rakefile is
\* then still out of date, and the next configuration removes it.
NoProbeLinked == \A p \in so.parts \cup lib.parts : p.of # Probe

\* What the file times say is so.  A time is never ahead of the clock; an
\* object no older than its source was compiled from it, and a shared object
\* no older than that object contains it; a whole Rakefile no older than
\* mkrf_conf.rb was generated from it.  A build copies only what is up to date.
TimesTrue ==
  /\ \A f \in Text \cup {Probe} : stamp[f] <= clock
  /\ \A c \in CFile : object[c].time <= clock
  /\ so.time <= clock /\ rakefile.time <= clock
  /\ stamp["conf"] > 0

ObjectsTrue ==
  \A c \in CFile : Exists(c) /\ stamp[c] <= object[c].time =>
    /\ object[c].is.of = c /\ object[c].is.source = stamp[c]
    /\ object[c].time <= so.time => object[c].is \in so.parts

RakefileTrue ==
  rakefile.conf > 0 /\ stamp["conf"] <= rakefile.time => rakefile.conf = stamp["conf"]

Progress ==
  /\ pc = "write" \/ (pc \in {"depend", "make"} /\ job = "build") =>
       stamp["conf"] <= rakefile.time
  /\ pc \in {"copy", "copying"} =>
       /\ rakefile.conf = stamp["conf"]
       /\ \A c \in CFile : Exists(c) => stamp[c] <= object[c].time /\ object[c].time <= so.time

Consistent == TimesTrue /\ ObjectsTrue /\ RakefileTrue /\ Progress

\* Where nothing is run by hand, a probe program that exists is being compiled
\* now, or a kill has left it behind a Rakefile that is out of date.
ProbeContained ==
  /\ pc = "idle" /\ Exists(Probe) => rakefile.time < stamp["conf"]
  /\ pc \in {"configure", "probe"} => rakefile.time < stamp["conf"]
  /\ Exists(Probe) => pc \in {"idle", "configure", "probe"}
  /\ \A c \in CFile : object[c].is.of = c

\* The extension's task fails only when some text of the developer is wrong, or
\* at the linker.
FailsForAReason == outcome = "failed" => defective # {}

\* Every run ends.
RunsEnd == pc # "idle" ~> pc = "idle"
=============================================================================
