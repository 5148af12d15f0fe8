------------------------ MODULE ExtensionBuild_proofs ------------------------
(***************************************************************************)
(* What a successful build promises, for every set of C files and with any *)
(* sequence of edits, removals, cleans, runs by hand, failures and kills.  *)
(*                                                                         *)
(* The argument is the invariant Consistent: file times tell the truth     *)
(* about contents.  It holds because every write takes a new time, and     *)
(* because each product is written after what it is made from was read.    *)
(***************************************************************************)
EXTENDS ExtensionBuild, TLAPS

\* Names of files are distinct, as the assumptions say.
LEMMA Names ==
  /\ Probe \notin Text
  /\ "conf" \in Text /\ "header" \in Text
  /\ Source \subseteq CFile /\ Probe \in CFile
  /\ CFile \subseteq Text \cup {Probe}
  /\ "conf" \notin CFile /\ "header" \notin CFile
BY BuildAssumption DEF Text, CFile

-----------------------------------------------------------------------------
(* Type correctness                                                        *)

\* The developer's steps keep the types.
LEMMA DeveloperTypes ==
  ASSUME TypeOK, Developer
  PROVE  TypeOK'
<1> USE Names
<1>1. ASSUME NEW f \in Text, Edit(f) PROVE TypeOK'
  BY <1>1 DEF TypeOK, Edit, Act
<1>2. ASSUME NEW s \in Source, Remove(s) PROVE TypeOK'
  BY <1>2 DEF TypeOK, Remove, Act
<1>3. CASE Clean
  <2>1. object' \in [CFile -> [time: Nat, is: Compiled]]
    BY <1>3 DEF Clean, NoObject, Compiled
  <2>2. rakefile' \in [time: Nat, conf: Nat]
    BY <1>3 DEF TypeOK, Clean
  <2> QED
    BY <1>3, <2>1, <2>2 DEF TypeOK, Clean, Act, NoCopy
<1>4. ASSUME NEW what \in {"build", "conf", "rake"},
             NEW first \in {"configure", "depend", "make"},
             Run(what, first)
      PROVE  TypeOK'
  BY <1>4 DEF TypeOK, Run, Act, CFiles
<1>5. CASE StartBuild
  BY <1>4, <1>5 DEF StartBuild
<1>6. CASE StartByHand
  BY <1>4, <1>6 DEF StartByHand
<1> QED
  BY <1>1, <1>2, <1>3, <1>5, <1>6 DEF Developer

\* So do the steps of a run, and a kill.
LEMMA RunTypes ==
  ASSUME TypeOK, Step \/ Kill
  PROVE  TypeOK'
<1> USE Names
<1>1. CASE WriteProbe
  BY <1>1 DEF TypeOK, WriteProbe, Goto
<1>2. CASE RemoveProbe
  BY <1>2 DEF TypeOK, RemoveProbe, Goto, Fail
<1>3. CASE OpenRakefile
  BY <1>3 DEF TypeOK, OpenRakefile, Goto
<1>4. CASE WriteRakefile
  BY <1>4 DEF TypeOK, WriteRakefile, Goto
<1>5. CASE Prerequisites
  BY <1>5 DEF TypeOK, Prerequisites, Goto, Fail
<1>6. CASE NoDefaultTask
  BY <1>6 DEF TypeOK, NoDefaultTask, Fail
<1>7. ASSUME NEW c \in CFile, Compile(c) PROVE TypeOK'
  <2>1. [of |-> c, source |-> stamp[c], header |-> stamp["header"],
         conf |-> rakefile.conf] \in Compiled
    BY DEF TypeOK, Compiled
  <2>2. object' \in [CFile -> [time: Nat, is: Compiled]]
    BY <1>7, <2>1 DEF TypeOK, Compile
  <2> QED
    BY <1>7, <2>2 DEF TypeOK, Compile, Goto
<1>8. ASSUME NEW c \in CFile, CompileFails(c) PROVE TypeOK'
  <2>1. [object[c] EXCEPT !.time = 0] \in [time: Nat, is: Compiled]
    BY DEF TypeOK
  <2>2. object' \in [CFile -> [time: Nat, is: Compiled]]
    BY <1>8, <2>1 DEF TypeOK, CompileFails
  <2> QED
    BY <1>8, <2>2 DEF TypeOK, CompileFails, Fail
<1>9. CASE Link
  <2>1. {object[c].is : c \in CFiles} \subseteq Compiled
    BY DEF TypeOK, CFiles
  <2>2. so' \in [time: Nat, parts: SUBSET Compiled]
    BY <1>9, <2>1 DEF TypeOK, Link
  <2> QED
    BY <1>9, <2>2 DEF TypeOK, Link, Made, Goto
<1>10. CASE NothingToDo
  BY <1>10 DEF TypeOK, NothingToDo, Made, Goto
<1>11. CASE CopyBegins
  BY <1>11 DEF TypeOK, CopyBegins, NoCopy, Goto
<1>12. CASE CopyEnds
  BY <1>12 DEF TypeOK, CopyEnds
<1>13. CASE Kill
  BY <1>13 DEF TypeOK, Kill
<1>14. CASE LinkFails
  BY <1>14 DEF TypeOK, LinkFails
<1> QED
  BY <1>1, <1>2, <1>3, <1>4, <1>5, <1>6, <1>7, <1>8, <1>9, <1>10, <1>11, <1>12,
     <1>13, <1>14 DEF Step

\* Every state of a build is of the types TypeOK says.
THEOREM TypeCorrect == Spec => []TypeOK
<1>1. Init => TypeOK
  <2> SUFFICES ASSUME Init PROVE TypeOK
    OBVIOUS
  <2>1. object \in [CFile -> [time: Nat, is: Compiled]]
    BY DEF Init, NoObject, Compiled
  <2>2. stamp \in [Text \cup {Probe} -> Nat]
    BY DEF Init
  <2> QED
    BY <2>1, <2>2 DEF Init, TypeOK, NoCopy
<1>2. TypeOK /\ [Next]_vars => TypeOK'
  <2> SUFFICES ASSUME TypeOK, [Next]_vars PROVE TypeOK'
    OBVIOUS
  <2>1. CASE Developer
    BY <2>1, DeveloperTypes
  <2>2. CASE Step \/ Kill
    BY <2>2, RunTypes
  <2>3. CASE UNCHANGED vars
    BY <2>3 DEF TypeOK, vars
  <2> QED
    BY <2>1, <2>2, <2>3 DEF Next
<1> QED
  BY <1>1, <1>2, PTL DEF Spec

-----------------------------------------------------------------------------
(* File times tell the truth                                               *)

\* The developer writes with a new time, and only between runs.
LEMMA DeveloperConsistent ==
  ASSUME TypeOK, Consistent, Developer
  PROVE  Consistent'
<1> USE Names DEF Consistent
<1>1. ASSUME NEW f \in Text, Edit(f) PROVE Consistent'
  <2>1. /\ stamp' = [stamp EXCEPT ![f] = clock + 1] /\ clock' = clock + 1
        /\ pc = "idle" /\ UNCHANGED <<rakefile, object, so, lib, job, pc>>
    BY <1>1 DEF Edit, Act
  <2>2. TimesTrue'
    BY <2>1 DEF TypeOK, TimesTrue
  <2>3. ObjectsTrue'
    BY <2>1 DEF TypeOK, TimesTrue, ObjectsTrue, Exists
  <2>4. RakefileTrue'
    BY <2>1 DEF TypeOK, TimesTrue, RakefileTrue
  <2>5. Progress'
    BY <2>1 DEF Progress
  <2> QED
    BY <2>2, <2>3, <2>4, <2>5
<1>2. ASSUME NEW s \in Source, Remove(s) PROVE Consistent'
  <2>1. /\ stamp' = [stamp EXCEPT ![s] = 0] /\ s # "conf"
        /\ pc = "idle" /\ UNCHANGED <<clock, rakefile, object, so, lib, job, pc>>
    BY <1>2 DEF Remove, Act
  <2>2. TimesTrue'
    BY <2>1 DEF TypeOK, TimesTrue
  <2>3. ObjectsTrue'
    BY <2>1 DEF TypeOK, ObjectsTrue, Exists
  <2>4. RakefileTrue' /\ Progress'
    BY <2>1 DEF TypeOK, RakefileTrue, Progress
  <2> QED
    BY <2>2, <2>3, <2>4
<1>3. CASE Clean
  <2>1. /\ \A c \in CFile : object'[c].time = 0
        /\ so'.time = 0 /\ rakefile' \in {rakefile, [time |-> 0, conf |-> 0]}
        /\ pc = "idle" /\ UNCHANGED <<clock, stamp, job, pc>>
    BY <1>3 DEF Clean, Act, NoObject
  <2>2. TimesTrue'
    BY <2>1 DEF TypeOK, TimesTrue
  <2>3. ObjectsTrue'
    BY <2>1 DEF TypeOK, ObjectsTrue, Exists
  <2>4. RakefileTrue' /\ Progress'
    BY <2>1 DEF TypeOK, RakefileTrue, Progress
  <2> QED
    BY <2>2, <2>3, <2>4
<1>4. CASE StartBuild
  <2>1. /\ UNCHANGED <<clock, stamp, rakefile, object, so>>
        /\ pc' = IF rakefile.time < stamp["conf"] THEN "configure" ELSE "depend"
    BY <1>4 DEF StartBuild, Run
  <2>2. (TimesTrue /\ ObjectsTrue /\ RakefileTrue)'
    BY <2>1 DEF TimesTrue, ObjectsTrue, RakefileTrue, Exists
  <2>3. Progress'
    BY <2>1 DEF TypeOK, Progress
  <2> QED
    BY <2>2, <2>3
<1>5. CASE StartByHand
  <2>1. /\ UNCHANGED <<clock, stamp, rakefile, object, so>>
        /\ pc' = "configure" \/ (pc' = "make" /\ job' = "rake")
    BY <1>5 DEF StartByHand, Run
  <2>2. (TimesTrue /\ ObjectsTrue /\ RakefileTrue)'
    BY <2>1 DEF TimesTrue, ObjectsTrue, RakefileTrue, Exists
  <2>3. Progress'
    BY <2>1 DEF Progress
  <2> QED
    BY <2>2, <2>3
<1> QED
  BY <1>1, <1>2, <1>3, <1>4, <1>5 DEF Developer

\* A run writes each product after what it is made from.
LEMMA RunConsistent ==
  ASSUME TypeOK, Consistent, Step \/ Kill
  PROVE  Consistent'
<1> USE Names DEF Consistent
<1>1. CASE WriteProbe
  <2>1. /\ stamp' = [stamp EXCEPT ![Probe] = clock + 1] /\ clock' = clock + 1
        /\ pc' = "probe" /\ UNCHANGED <<rakefile, object, so>>
    BY <1>1 DEF WriteProbe, Goto
  <2>2. TimesTrue'
    BY <2>1 DEF TypeOK, TimesTrue
  <2>3. ObjectsTrue'
    BY <2>1 DEF TypeOK, TimesTrue, ObjectsTrue, Exists
  <2>4. RakefileTrue' /\ Progress'
    BY <2>1 DEF TypeOK, RakefileTrue, Progress
  <2> QED
    BY <2>2, <2>3, <2>4
<1>2. CASE RemoveProbe
  <2>1. /\ stamp' = [stamp EXCEPT ![Probe] = 0]
        /\ pc' \in {"open", "idle"} /\ UNCHANGED <<clock, rakefile, object, so>>
    BY <1>2 DEF RemoveProbe, Goto, Fail
  <2>2. TimesTrue'
    BY <2>1 DEF TypeOK, TimesTrue
  <2>3. ObjectsTrue'
    BY <2>1 DEF TypeOK, ObjectsTrue, Exists
  <2>4. RakefileTrue' /\ Progress'
    BY <2>1 DEF TypeOK, RakefileTrue, Progress
  <2> QED
    BY <2>2, <2>3, <2>4
<1>3. CASE OpenRakefile
  <2>1. /\ rakefile' = [time |-> clock + 1, conf |-> 0] /\ clock' = clock + 1
        /\ pc' = "write" /\ UNCHANGED <<stamp, object, so>>
    BY <1>3 DEF OpenRakefile, Goto
  <2>2. TimesTrue' /\ ObjectsTrue'
    BY <2>1 DEF TypeOK, TimesTrue, ObjectsTrue, Exists
  <2>3. RakefileTrue' /\ Progress'
    BY <2>1 DEF TypeOK, TimesTrue, RakefileTrue, Progress
  <2> QED
    BY <2>2, <2>3
<1>4. CASE WriteRakefile
  <2>1. /\ rakefile' = [rakefile EXCEPT !.conf = stamp["conf"]]
        /\ pc = "write" /\ pc' \in {"idle", "depend"}
        /\ UNCHANGED <<clock, stamp, object, so>>
    BY <1>4 DEF WriteRakefile, Goto
  <2>2. TimesTrue' /\ ObjectsTrue'
    BY <2>1 DEF TypeOK, TimesTrue, ObjectsTrue, Exists
  <2>3. RakefileTrue' /\ Progress'
    BY <2>1 DEF TypeOK, RakefileTrue, Progress
  <2> QED
    BY <2>2, <2>3
<1>5. CASE Prerequisites \/ NoDefaultTask \/ Kill
  <2>1. /\ pc' = "idle" \/ (pc = "depend" /\ pc' = "make" /\ job' = job)
        /\ UNCHANGED <<clock, stamp, rakefile, object, so>>
    BY <1>5 DEF Prerequisites, NoDefaultTask, Kill, Goto, Fail
  <2>2. (TimesTrue /\ ObjectsTrue /\ RakefileTrue)'
    BY <2>1 DEF TimesTrue, ObjectsTrue, RakefileTrue, Exists
  <2>3. Progress'
    BY <2>1 DEF Progress
  <2> QED
    BY <2>2, <2>3
<1>6. ASSUME NEW c \in CFile, Compile(c) PROVE Consistent'
  <2>1. /\ object' = [object EXCEPT ![c] =
             [time |-> clock + 1,
              is |-> [of |-> c, source |-> stamp[c],
                      header |-> stamp["header"], conf |-> rakefile.conf]]]
        /\ clock' = clock + 1
        /\ pc = "make" /\ pc' = "make" /\ UNCHANGED <<stamp, rakefile, so, job>>
    BY <1>6 DEF Compile, Goto
  <2>2. TimesTrue'
    BY <2>1 DEF TypeOK, TimesTrue
  <2>3. ObjectsTrue'
    BY <2>1 DEF TypeOK, TimesTrue, ObjectsTrue, Exists
  <2>4. RakefileTrue' /\ Progress'
    BY <2>1 DEF RakefileTrue, Progress
  <2> QED
    BY <2>2, <2>3, <2>4
<1>7. ASSUME NEW c \in CFile, CompileFails(c) PROVE Consistent'
  <2>1. /\ object' = object \/ object' = [object EXCEPT ![c].time = 0]
        /\ pc' = "idle" /\ UNCHANGED <<clock, stamp, rakefile, so>>
    BY <1>7 DEF CompileFails, Fail
  <2>2. TimesTrue'
    BY <2>1 DEF TypeOK, TimesTrue
  <2>3. ObjectsTrue'
    BY <2>1 DEF TypeOK, ObjectsTrue, Exists
  <2>4. RakefileTrue' /\ Progress'
    BY <2>1 DEF RakefileTrue, Progress
  <2> QED
    BY <2>2, <2>3, <2>4
<1>8. CASE Link
  <2>1. /\ so' = [time |-> clock + 1, parts |-> {object[c].is : c \in CFiles}]
        /\ clock' = clock + 1
        /\ \A c \in CFile : ~Stale(c)
        /\ rakefile.conf > 0 /\ pc = "make"
        /\ pc' = IF job = "build" THEN "copy" ELSE "idle"
        /\ UNCHANGED <<stamp, rakefile, object, job>>
    BY <1>8 DEF Link, Made, Goto
  <2>2. TimesTrue'
    BY <2>1 DEF TypeOK, TimesTrue
  <2>3. ObjectsTrue'
    BY <2>1 DEF TypeOK, TimesTrue, ObjectsTrue, Exists, CFiles
  <2>4. RakefileTrue'
    BY <2>1 DEF RakefileTrue
  <2>5. Progress'
    BY <2>1 DEF TypeOK, TimesTrue, RakefileTrue, Progress, Stale, Exists
  <2> QED
    BY <2>2, <2>3, <2>4, <2>5
<1>9. CASE NothingToDo
  <2>1. /\ \A c \in CFile : ~Stale(c)
        /\ \A c \in CFiles : object[c].time <= so.time
        /\ rakefile.conf > 0 /\ pc = "make"
        /\ pc' = IF job = "build" THEN "copy" ELSE "idle"
        /\ UNCHANGED <<clock, stamp, rakefile, object, so, job>>
    BY <1>9 DEF NothingToDo, Made, Goto
  <2>2. (TimesTrue /\ ObjectsTrue /\ RakefileTrue)'
    BY <2>1 DEF TimesTrue, ObjectsTrue, RakefileTrue, Exists
  <2>3. Progress'
    BY <2>1 DEF TypeOK, RakefileTrue, Progress, Stale, Exists, CFiles
  <2> QED
    BY <2>2, <2>3
<1>10. CASE CopyBegins \/ CopyEnds
  <2>1. /\ pc' = "idle" \/ (pc = "copy" /\ pc' = "copying")
        /\ UNCHANGED <<clock, stamp, rakefile, object, so>>
    BY <1>10 DEF CopyBegins, CopyEnds, Goto
  <2>2. (TimesTrue /\ ObjectsTrue /\ RakefileTrue)'
    BY <2>1 DEF TimesTrue, ObjectsTrue, RakefileTrue, Exists
  <2>3. Progress'
    BY <2>1 DEF Progress, Exists
  <2> QED
    BY <2>2, <2>3
<1>11. CASE LinkFails
  <2>1. /\ so' = so \/ so' = [time |-> 0, parts |-> {}]
        /\ pc' = "idle" /\ UNCHANGED <<clock, stamp, rakefile, object>>
    BY <1>11 DEF LinkFails
  <2>2. TimesTrue' /\ RakefileTrue' /\ Progress'
    BY <2>1 DEF TypeOK, TimesTrue, RakefileTrue, Progress
  <2>3. ObjectsTrue'
    BY <2>1 DEF TypeOK, ObjectsTrue, Exists
  <2> QED
    BY <2>2, <2>3
<1> QED
  BY <1>1, <1>2, <1>3, <1>4, <1>5, <1>6, <1>7, <1>8, <1>9, <1>10, <1>11 DEF Step

LEMMA UnchangedConsistent ==
  ASSUME Consistent, UNCHANGED vars
  PROVE  Consistent'
BY DEF Consistent, TimesTrue, ObjectsTrue, RakefileTrue, Progress, Exists, vars

\* No file is ever up to date by its time and out of date by its content: rake's
\* comparison of times decides rightly about sources and the configuration.
THEOREM TimesTellTheTruth == Spec => []Consistent
<1>1. Init => Consistent
  <2> SUFFICES ASSUME Init PROVE Consistent
    OBVIOUS
  <2>1. TimesTrue
    BY Names DEF Init, TimesTrue, NoObject
  <2>2. ObjectsTrue
    BY Names DEF Init, ObjectsTrue, Exists, NoObject
  <2>3. RakefileTrue /\ Progress
    BY DEF Init, RakefileTrue, Progress
  <2> QED
    BY <2>1, <2>2, <2>3 DEF Consistent
<1>2. TypeOK /\ Consistent /\ [Next]_vars => Consistent'
  BY DeveloperConsistent, RunConsistent, UnchangedConsistent DEF Next
<1> QED
  BY <1>1, <1>2, TypeCorrect, PTL DEF Spec

-----------------------------------------------------------------------------
(* A build that succeeds                                                   *)

Successful == BuiltFromSources /\ ConfiguredAsWritten

\* An outcome is reported between runs only.
Reported == outcome # "none" => pc = "idle"

LEMMA ReportedKept ==
  ASSUME Reported, [Next]_vars
  PROVE  Reported'
<1>1. CASE Developer \/ Kill
  BY <1>1 DEF Reported, Developer, Edit, Remove, Clean, StartBuild, StartByHand, Run,
     Act, Kill
<1>2. CASE Step
  BY <1>2 DEF Reported, Step, WriteProbe, RemoveProbe, OpenRakefile, WriteRakefile,
     Prerequisites, NoDefaultTask, Compile, CompileFails, Link, LinkFails, NothingToDo, Made,
     CopyBegins, CopyEnds, Goto, Fail
<1>3. CASE UNCHANGED vars
  BY <1>3 DEF Reported, vars
<1> QED
  BY <1>1, <1>2, <1>3 DEF Next

\* Only CopyEnds makes a build succeed, with all the promises kept.
LEMMA SuccessKept ==
  ASSUME TypeOK, Consistent, Reported, Successful, [Next]_vars
  PROVE  Successful'
<1> USE DEF Successful
<1>1. CASE outcome' # "ok"
  BY <1>1 DEF BuiltFromSources, ConfiguredAsWritten
<1>2. CASE CopyEnds
  <2>1. /\ pc = "copying" /\ lib'.whole = TRUE /\ lib'.parts = so.parts
        /\ UNCHANGED <<stamp, rakefile>>
    BY <1>2 DEF CopyEnds
  <2>2. ASSUME NEW s \in Source, Exists(s)
        PROVE  object[s].is \in so.parts /\ object[s].is.of = s
               /\ object[s].is.source = stamp[s]
    BY <2>1, <2>2, Names DEF Consistent, ObjectsTrue, Progress
  <2>3. BuiltFromSources'
    BY <2>1, <2>2 DEF BuiltFromSources, Exists
  <2>4. ConfiguredAsWritten'
    BY <2>1 DEF ConfiguredAsWritten, Consistent, Progress
  <2> QED
    BY <2>3, <2>4
<1>3. CASE Step /\ ~CopyEnds
  <2>1. pc # "idle"
    BY <1>3 DEF Step, WriteProbe, RemoveProbe, OpenRakefile, WriteRakefile,
       Prerequisites, NoDefaultTask, Compile, CompileFails, Link, LinkFails, NothingToDo,
       CopyBegins
  <2>2. outcome = "none"
    BY <2>1 DEF Reported
  <2>3. outcome' # "ok"
    BY <1>3, <2>2 DEF Step, WriteProbe, RemoveProbe, OpenRakefile, WriteRakefile,
       Prerequisites, NoDefaultTask, Compile, CompileFails, Link, LinkFails, NothingToDo, Made,
       CopyBegins, Goto, Fail
  <2> QED
    BY <2>3, <1>1
<1>4. CASE Developer \/ Kill
  <2>1. outcome' # "ok"
    BY <1>4 DEF Developer, Edit, Remove, Clean, StartBuild, StartByHand, Run, Act, Kill
  <2> QED
    BY <2>1, <1>1
<1>5. CASE UNCHANGED vars
  BY <1>5 DEF vars, BuiltFromSources, ConfiguredAsWritten, Exists
<1> QED
  BY <1>2, <1>3, <1>4, <1>5 DEF Next

\* The state of a fresh checkout satisfies all of it.
LEMMA InitSuccessful == Init => Reported /\ Successful
BY DEF Init, Reported, Successful, BuiltFromSources, ConfiguredAsWritten

\* After a successful build, each C file is in the library as it is written now.
THEOREM BuildsWhatIsWritten == Spec => []BuiltFromSources
<1>1. TypeOK /\ Consistent /\ Reported /\ Successful /\ [Next]_vars
        => Reported' /\ Successful'
  BY ReportedKept, SuccessKept
<1>2. Successful => BuiltFromSources
  BY DEF Successful
<1> QED
  BY <1>1, <1>2, InitSuccessful, TypeCorrect, TimesTellTheTruth, PTL DEF Spec

\* After a successful build, the Rakefile is that of the present mkrf_conf.rb.
THEOREM BuildsAsConfigured == Spec => []ConfiguredAsWritten
<1>1. TypeOK /\ Consistent /\ Reported /\ Successful /\ [Next]_vars
        => Reported' /\ Successful'
  BY ReportedKept, SuccessKept
<1>2. Successful => ConfiguredAsWritten
  BY DEF Successful
<1> QED
  BY <1>1, <1>2, InitSuccessful, TypeCorrect, TimesTellTheTruth, PTL DEF Spec

-----------------------------------------------------------------------------
(* Probe programs                                                          *)

\* Where nothing is run by hand, every step keeps probe programs contained.
LEMMA ProbeKept ==
  ASSUME ~ByHand, TypeOK, TimesTrue, ProbeContained, NoProbeLinked, [Next]_vars
  PROVE  ProbeContained' /\ NoProbeLinked'
<1> USE Names
<1>1. ASSUME NEW f \in Text, Edit(f) PROVE ProbeContained' /\ NoProbeLinked'
  BY <1>1 DEF Edit, Act, TypeOK, TimesTrue, ProbeContained, NoProbeLinked, Exists
<1>2. ASSUME NEW s \in Source, Remove(s) PROVE ProbeContained' /\ NoProbeLinked'
  BY <1>2 DEF Remove, Act, TypeOK, ProbeContained, NoProbeLinked, Exists
<1>3. CASE Clean
  BY <1>3 DEF Clean, Act, NoObject, NoCopy, TypeOK, TimesTrue, ProbeContained,
     NoProbeLinked, Exists
<1>4. CASE StartBuild
  BY <1>4 DEF StartBuild, Run, Act, TypeOK, ProbeContained, NoProbeLinked, Exists
<1>5. CASE StartByHand
  BY <1>5 DEF StartByHand
<1>6. CASE WriteProbe \/ RemoveProbe
  BY <1>6 DEF WriteProbe, RemoveProbe, Goto, Fail, TypeOK, ProbeContained,
     NoProbeLinked, Exists
<1>7. CASE OpenRakefile \/ WriteRakefile \/ Prerequisites \/ NoDefaultTask \/ NothingToDo
  BY <1>7 DEF OpenRakefile, WriteRakefile, Prerequisites, NoDefaultTask, NothingToDo,
     Made, Goto, Fail, TypeOK, ProbeContained, NoProbeLinked, Exists
<1>8. ASSUME NEW c \in CFile, Compile(c) PROVE ProbeContained' /\ NoProbeLinked'
  BY <1>8 DEF Compile, Goto, TypeOK, ProbeContained, NoProbeLinked, Exists
<1>9. ASSUME NEW c \in CFile, CompileFails(c) PROVE ProbeContained' /\ NoProbeLinked'
  BY <1>9 DEF CompileFails, Fail, TypeOK, ProbeContained, NoProbeLinked, Exists
<1>10. CASE Link
  <2>1. ~Exists(Probe)
    BY <1>10 DEF Link, ProbeContained
  <2>2. NoProbeLinked'
    BY <1>10, <2>1 DEF Link, CFiles, ProbeContained, NoProbeLinked
  <2>3. ProbeContained'
    BY <1>10, <2>1 DEF Link, Made, Goto, ProbeContained, Exists
  <2> QED
    BY <2>2, <2>3
<1>11. CASE CopyBegins \/ CopyEnds
  BY <1>11 DEF CopyBegins, CopyEnds, NoCopy, Goto, ProbeContained, NoProbeLinked, Exists
<1>12. CASE Kill
  BY <1>12 DEF Kill, ProbeContained, NoProbeLinked, Exists
<1>13. CASE UNCHANGED vars
  BY <1>13 DEF vars, ProbeContained, NoProbeLinked, Exists
<1>14. CASE LinkFails
  BY <1>14 DEF LinkFails, ProbeContained, NoProbeLinked, Exists
<1> QED
  BY <1>1, <1>2, <1>3, <1>4, <1>5, <1>6, <1>7, <1>8, <1>9, <1>10, <1>11, <1>12, <1>13,
     <1>14 DEF Next, Developer, Step

\* Unless something is run by hand, no probe program is ever linked into the
\* library, whatever is killed.
THEOREM ProbesStayOut == ASSUME ~ByHand PROVE Spec => []NoProbeLinked
<1>1. Init => ProbeContained /\ NoProbeLinked
  BY Names DEF Init, ProbeContained, NoProbeLinked, NoObject, NoCopy, Exists
<1>2. TypeOK /\ Consistent /\ ProbeContained /\ NoProbeLinked /\ [Next]_vars
        => ProbeContained' /\ NoProbeLinked'
  BY ProbeKept DEF Consistent
<1> QED
  BY <1>1, <1>2, TypeCorrect, TimesTellTheTruth, PTL DEF Spec

\* Unless something is run by hand, a probe program that exists is being compiled,
\* or a kill has left it behind a Rakefile that is out of date.
THEOREM ProbesAreContained == ASSUME ~ByHand PROVE Spec => []ProbeContained
<1>1. Init => ProbeContained /\ NoProbeLinked
  BY Names DEF Init, ProbeContained, NoProbeLinked, NoObject, NoCopy, Exists
<1>2. TypeOK /\ Consistent /\ ProbeContained /\ NoProbeLinked /\ [Next]_vars
        => ProbeContained' /\ NoProbeLinked'
  BY ProbeKept DEF Consistent
<1> QED
  BY <1>1, <1>2, TypeCorrect, TimesTellTheTruth, PTL DEF Spec

-----------------------------------------------------------------------------
(* A build that fails                                                      *)

\* What a kill alone could break: a probe program lives as long as its probe, a
\* Rakefile is empty only while it is written, and what the outer rake listed is
\* still there.  Without it a build could stop for want of a default task, or of
\* a file no rule can make, with nothing wrong in any text.
Undisturbed ==
  /\ Exists(Probe) => pc = "probe"
  /\ rakefile.time > 0 /\ pc # "write" => rakefile.conf > 0
  /\ listed \subseteq Source
  /\ pc # "idle" => \A c \in listed : Exists(c)

\* Without kills every step keeps that.
LEMMA UndisturbedKept ==
  ASSUME ~Kills, TypeOK, TimesTrue, Undisturbed, [Next]_vars
  PROVE  Undisturbed'
<1> USE Names DEF Undisturbed, Exists
<1>1. ASSUME NEW f \in Text, Edit(f) PROVE Undisturbed'
  BY <1>1 DEF Edit, Act, TypeOK
<1>2. ASSUME NEW s \in Source, Remove(s) PROVE Undisturbed'
  BY <1>2, BuildAssumption DEF Remove, Act, TypeOK
<1>3. CASE Clean
  BY <1>3 DEF Clean, Act
<1>4. CASE StartBuild
  <2>1. /\ pc = "idle" /\ listed' = CFiles /\ pc' \in {"configure", "depend"}
        /\ UNCHANGED <<stamp, rakefile>>
    BY <1>4 DEF StartBuild, Run, Act
  <2>2. CFiles \subseteq Source
    BY <2>1 DEF CFiles, CFile
  <2> QED
    BY <2>1, <2>2 DEF CFiles
<1>5. CASE StartByHand
  BY <1>5 DEF StartByHand, Run, Act
<1>6. CASE WriteProbe
  BY <1>6 DEF WriteProbe, Goto, TypeOK
<1>7. CASE RemoveProbe
  BY <1>7, BuildAssumption DEF RemoveProbe, Goto, Fail, TypeOK
<1>8. CASE OpenRakefile
  BY <1>8 DEF OpenRakefile, Goto, TypeOK
<1>9. CASE WriteRakefile
  BY <1>9 DEF WriteRakefile, Goto, TypeOK, TimesTrue
<1>10. CASE Prerequisites \/ NoDefaultTask \/ NothingToDo
  BY <1>10 DEF Prerequisites, NoDefaultTask, NothingToDo, Made, Goto, Fail
<1>11. ASSUME NEW c \in CFile, Compile(c) \/ CompileFails(c) PROVE Undisturbed'
  BY <1>11 DEF Compile, CompileFails, Goto, Fail
<1>12. CASE Link \/ LinkFails \/ CopyBegins \/ CopyEnds
  BY <1>12 DEF Link, LinkFails, CopyBegins, CopyEnds, Made, Goto
<1>13. CASE Kill
  BY <1>13 DEF Kill
<1>14. CASE UNCHANGED vars
  BY <1>14 DEF vars
<1> QED
  BY <1>1, <1>2, <1>3, <1>4, <1>5, <1>6, <1>7, <1>8, <1>9, <1>10, <1>11, <1>12, <1>13,
     <1>14 DEF Next, Developer, Step

\* Then the steps that fail a build are those that meet a defective text.
LEMMA ReasonKept ==
  ASSUME TypeOK, Consistent, Reported, Undisturbed, FailsForAReason, [Next]_vars
  PROVE  FailsForAReason'
<1> SUFFICES ASSUME outcome' = "failed" PROVE defective' # {}
  BY DEF FailsForAReason
<1>1. CASE Developer \/ Kill
  BY <1>1 DEF Developer, Edit, Remove, Clean, StartBuild, StartByHand, Run, Act, Kill
<1>2. CASE UNCHANGED vars
  BY <1>2 DEF FailsForAReason, vars
<1>3. CASE Step
  <2>1. pc # "idle" /\ outcome = "none" /\ defective' = defective
    BY <1>3 DEF Reported, Step, WriteProbe, RemoveProbe, OpenRakefile, WriteRakefile,
       Prerequisites, NoDefaultTask, Compile, CompileFails, Link, LinkFails, NothingToDo, CopyBegins,
       CopyEnds
  <2>2. CASE RemoveProbe
    BY <2>1, <2>2 DEF RemoveProbe, Goto
  <2>3. CASE Prerequisites
    BY <2>1, <2>3 DEF Prerequisites, Goto, Undisturbed
  <2>4. CASE NoDefaultTask
    <3>1. pc = "make" /\ rakefile.conf = 0 /\ job = "build"
      BY <2>1, <2>4 DEF NoDefaultTask, Fail
    <3>2. rakefile.time > 0
      BY <3>1 DEF TypeOK, Consistent, TimesTrue, Progress, Text
    <3> QED
      BY <3>1, <3>2 DEF Undisturbed
  <2>5. ASSUME NEW c \in CFile, CompileFails(c) PROVE defective # {}
    BY <2>5 DEF CompileFails
  <2>6. CASE WriteProbe \/ OpenRakefile \/ WriteRakefile \/ Link \/ LinkFails \/ NothingToDo
             \/ CopyBegins \/ CopyEnds \/ \E c \in CFile : Compile(c)
    BY <2>1, <2>6 DEF WriteProbe, OpenRakefile, WriteRakefile, Link, LinkFails, NothingToDo,
       Made, CopyBegins, CopyEnds, Compile, Goto
  <2> QED
    BY <1>3, <2>1, <2>2, <2>3, <2>4, <2>5, <2>6 DEF Step
<1> QED
  BY <1>1, <1>2, <1>3 DEF Next

\* Unless it is killed, the extension's task fails only when some text of the
\* developer is wrong, or at the linker.
THEOREM FailuresHaveReasons == ASSUME ~Kills PROVE Spec => []FailsForAReason
<1>1. Init => Reported /\ Undisturbed /\ FailsForAReason
  BY Names DEF Init, Reported, Undisturbed, FailsForAReason, Exists
<1>2. TypeOK /\ Consistent /\ Undisturbed /\ [Next]_vars => Undisturbed'
  BY UndisturbedKept DEF Consistent
<1>3. TypeOK /\ Consistent /\ Reported /\ Undisturbed /\ FailsForAReason /\ [Next]_vars
        => Reported' /\ FailsForAReason'
  BY ReportedKept, ReasonKept
<1> QED
  BY <1>1, <1>2, <1>3, TypeCorrect, TimesTellTheTruth, PTL DEF Spec
=============================================================================
