---------------------------- MODULE TxnLabProofs ----------------------------
(***************************************************************************)
(* Theorems about TxnLab, for every set of runs, failpoints, objects, keys *)
(* and configs: its types, what a run says about the failpoints it armed,  *)
(* that the control plane implements FaultCustody, and what a run leaves   *)
(* behind: its bundle, Chaos objects, images.                              *)
(***************************************************************************)
EXTENDS TxnLab, TLAPS
-----------------------------------------------------------------------------
(* Types *)

USE DEF Phases

\* A process that has not started is typed.
LEMMA InitRunType == InitRun \in RunStates
  BY DEF InitRun, RunStates, Stages, Verdicts, Codes

\* Leaving a phase keeps the type,
LEMMA LeftType ==
  ASSUME NEW x \in RunStates, NEW s \in Stages
  PROVE  Left(x, s) \in RunStates
<1> DEFINE nothing == <<>>
<1>1. nothing \in Seq(Actions)
  OBVIOUS
<1>2. [x EXCEPT !.pc = s, !.queue = nothing, !.done = {}, !.stage = "start"] \in RunStates
  <2> HIDE DEF nothing
  <2> QED BY <1>1 DEF RunStates
<1> QED BY <1>2 DEF Left

\* so does an exception or an interrupt,
LEMMA RaisedType ==
  ASSUME NEW x \in RunStates
  PROVE  Raised(x) \in RunStates /\ Interrupted(x) \in RunStates
<1>1. Left(x, "auto") \in RunStates /\ Left(x, "final") \in RunStates
  BY LeftType DEF Stages, CleanStages
<1> DEFINE a == Left(x, "auto")  f == Left(x, "final")
<1>2. /\ [a EXCEPT !.cleanupErr = TRUE] \in RunStates
      /\ [f EXCEPT !.error = "run", !.verdict = "INVALID"] \in RunStates
      /\ [f EXCEPT !.unwinding = TRUE] \in RunStates
  <2> HIDE DEF a, f
  <2> QED BY <1>1, ZenonT(60) DEF RunStates, Verdicts, a, f
<1> QED BY <1>2 DEF Raised, Interrupted

\* the next action of a phase,
LEMMA AdvancedType ==
  ASSUME NEW x \in RunStates, x.queue # <<>>
  PROVE  Advanced(x) \in RunStates
<1> DEFINE rest == Tail(x.queue)
<1>1. rest \in Seq(Actions)
  BY DEF RunStates
<1>2. [x EXCEPT !.queue = rest, !.done = {}, !.stage = "start"] \in RunStates
  <2> HIDE DEF rest
  <2> QED BY <1>1 DEF RunStates
<1> QED BY <1>2 DEF Advanced

\* and the next point of an action.
LEMMA ServedType ==
  ASSUME NEW x \in RunStates, x.queue # <<>>, NEW p \in Points
  PROVE  Served(x, p) \in RunStates
<1>1. [x EXCEPT !.done = @ \cup {p}] \in RunStates
  BY DEF RunStates
<1> QED BY <1>1, AdvancedType DEF Served

\* The next state of an invocation is typed when the record it takes is.
LEMMA SetType ==
  ASSUME TypeOK, NEW r \in Procs, NEW x \in RunStates, Set(r, x)
  PROVE  run' \in [Procs -> RunStates]
  BY DEF Set, TypeOK

\* A process that only goes on to another stage stays typed,
LEMMA GotoType ==
  ASSUME TypeOK, NEW r \in Procs, NEW s \in Stages, Goto(r, s)
  PROVE  run' \in [Procs -> RunStates]
<1>1. run[r] \in RunStates
  BY DEF TypeOK
<1>2. [run[r] EXCEPT !.pc = s] \in RunStates
  BY <1>1 DEF RunStates
<1> QED BY <1>2, SetType DEF Goto

\* and so does one that fails.
LEMMA FailType ==
  ASSUME TypeOK, NEW r \in Procs, NEW x \in RunStates, Fail(r) \/ FailFrom(r, x)
  PROVE  run' \in [Procs -> RunStates]
<1>1. run[r] \in RunStates
  BY DEF TypeOK
<1> QED BY <1>1, RaisedType, SetType DEF Fail, FailFrom

\* A request that is not answered changes the history and nothing else.
LEMMA MissedType ==
  ASSUME NEW x \in RunStates, NEW p \in Points
  PROVE  /\ Missed(x, p) \in RunStates /\ Missed(x, p).unanswered = x.unanswered \cup {p}
         /\ Missed(x, p).pc = x.pc /\ Missed(x, p).queue = x.queue /\ Missed(x, p).done = x.done
         /\ Missed(x, p).active = x.active /\ Missed(x, p).original = x.original
         /\ Missed(x, p).stage = x.stage /\ Missed(x, p).error = x.error
         /\ Missed(x, p).cleanupErr = x.cleanupErr /\ Missed(x, p).unwinding = x.unwinding
         /\ Missed(x, p).chaosCode = x.chaosCode
  BY DEF Missed, RunStates

\* What the requests do to the cluster is typed.
LEMMA EffectTypes ==
  ASSUME TypeOK
  PROVE  /\ \A p \in Points, r \in Procs : Armed(p, r) => armed' \in [Points -> Procs \cup {Nil}]
         /\ \A p \in Points : Disarmed(p) => armed' \in [Points -> Procs \cup {Nil}]
         /\ \A k, code : ChaosDeleted(k, code) => chaos' \in [Objects -> Keys \cup {Nil}]
         /\ \A m \in ImageMaps : Patched(m) => spec' \in ImageMaps
<1>1. \A p \in Points, r \in Procs : Armed(p, r) => armed' \in [Points -> Procs \cup {Nil}]
  BY DEF Armed, TypeOK
<1>2. \A p \in Points : Disarmed(p) => armed' \in [Points -> Procs \cup {Nil}]
  BY DEF Disarmed, TypeOK
<1>3. \A k, code : ChaosDeleted(k, code) => chaos' \in [Objects -> Keys \cup {Nil}]
  BY DEF ChaosDeleted, TypeOK
<1>4. \A m \in ImageMaps : Patched(m) => spec' \in ImageMaps
  BY DEF Patched, TypeOK, ImageMaps
<1> QED BY <1>1, <1>2, <1>3, <1>4

\* The action an invocation is executing.
LEMMA HeadType ==
  ASSUME TypeOK, NEW r \in Procs, run[r].queue # <<>>
  PROVE  /\ run[r] \in RunStates
         /\ Head(run[r].queue) \in Actions
         /\ Head(run[r].queue).points \subseteq Points
         /\ Head(run[r].queue).object \in Objects
<1>1. run[r] \in RunStates
  BY DEF TypeOK
<1>2. run[r].queue \in Seq(Actions)
  BY <1>1 DEF RunStates
<1>3. Head(run[r].queue) \in Actions
  BY <1>2
<1> QED BY <1>1, <1>3 DEF Actions, OneComponent

\* What a process reads of its experiment file.
LEMMA ConfigType ==
  ASSUME TypeOK, NEW r \in Procs
  PROVE  /\ Key(r) \in Keys
         /\ \A i \in 1..5 : ActionsFor(config[r], Phases[i]) \in Seq(Actions)
         /\ config[r].auto_cleanup \in BOOLEAN /\ config[r].cluster \in BOOLEAN
         /\ \A a : Selected(config[r], a) \in ImageMaps
<1>1. config[r] \in ConfigRecords
  BY ConstantsAssumption DEF TypeOK
<1>2. config[r].images \in ImageMaps
  BY <1>1 DEF ConfigRecords
<1>3. \A a : Selected(config[r], a) \in ImageMaps
  BY <1>2 DEF Selected, ImageMaps
<1> QED BY <1>1, <1>3 DEF ConfigRecords, Key, ActionsFor
-----------------------------------------------------------------------------
(* Type correctness: one lemma per group of actions *)

\* No process has started, nothing is armed.
LEMMA TypeInit == Init => TypeOK
<1> SUFFICES ASSUME Init PROVE TypeOK
  OBVIOUS
<1>1. config \in [Procs -> Configs]
  BY DEF Init
<1>2. run \in [Procs -> RunStates]
  BY InitRunType DEF Init
<1>3. rescue \in [Procs -> RescueStates]
  BY DEF Init, RescueStates, Codes
<1>4. spec \in ImageMaps /\ running \in ImageMaps
  BY ConstantsAssumption DEF Init
<1> QED BY <1>1, <1>2, <1>3, <1>4 DEF Init, TypeOK

\* The body of the try: gate, commands, phases, oracle.
LEMMA TypeTry ==
  ASSUME TypeOK, NEW r \in Procs,
         Start(r) \/ Preflight(r) \/ Work(r) \/ PhasesDone(r) \/ EvaluateOracle(r)
  PROVE  TypeOK'
<1>1. CASE Start(r)
  <2>1. run' \in [Procs -> RunStates]
    BY <1>1, GotoType DEF Start, Stages, TryStages, Terminal
  <2>2. bundles' \in [Keys -> SUBSET Files]
    <3> DEFINE fresh == {"directory"}
    <3>1. fresh \in SUBSET Files
      BY DEF Files
    <3>2. bundles' = bundles \/ bundles' = [bundles EXCEPT ![Key(r)] = fresh]
      BY <1>1 DEF Start
    <3> HIDE DEF fresh
    <3> QED BY <3>1, <3>2, ConfigType DEF TypeOK
  <2>3. before' \in [Procs -> ImageMaps \cup {Nil}]
    BY <1>1 DEF Start, TypeOK
  <2> QED BY <1>1, <2>1, <2>2, <2>3 DEF Start, TypeOK, cluster
<1>2. CASE Preflight(r)
  <2> DEFINE todo == ActionsFor(config[r], "prepare") \o ActionsFor(config[r], "arm")
                       \o ActionsFor(config[r], "workload") \o ActionsFor(config[r], "observe")
             x == [run[r] EXCEPT !.pc = "main", !.queue = todo]
  <2>1. /\ ActionsFor(config[r], "prepare") \in Seq(Actions) /\ ActionsFor(config[r], "arm") \in Seq(Actions)
        /\ ActionsFor(config[r], "workload") \in Seq(Actions) /\ ActionsFor(config[r], "observe") \in Seq(Actions)
    BY ConfigType
  <2>2. todo \in Seq(Actions)
    BY <2>1
  <2>3. x \in RunStates
    <3> HIDE DEF todo
    <3>1. run[r] \in RunStates
      BY DEF TypeOK
    <3> QED BY <2>2, <3>1 DEF RunStates, Stages, TryStages
  <2>4. run' \in [Procs -> RunStates]
    <3> HIDE DEF x
    <3>1. Set(r, x) \/ Fail(r)
      BY <1>2 DEF Preflight, x
    <3> QED BY <2>3, <3>1, SetType, FailType
  <2> QED BY <1>2, <2>4 DEF Preflight, TypeOK, cluster
<1>3. CASE Work(r)
  <2>1. run' \in [Procs -> RunStates]
    BY <1>3, HeadType, AdvancedType, SetType, FailType DEF Work, Executing
  <2> QED BY <1>3, <2>1 DEF Work, TypeOK, cluster
<1>4. CASE PhasesDone(r)
  <2>1. run' \in [Procs -> RunStates]
    BY <1>4, GotoType DEF PhasesDone, Stages, TryStages
  <2> QED BY <1>4, <2>1 DEF PhasesDone, TypeOK, cluster
<1>5. CASE EvaluateOracle(r)
  <2>1. \A v \in Verdicts : [run[r] EXCEPT !.pc = "final", !.verdict = v] \in RunStates
    <3>1. run[r] \in RunStates
      BY DEF TypeOK
    <3> QED BY <3>1 DEF RunStates, Stages, CleanStages
  <2>2. run' \in [Procs -> RunStates]
    BY <1>5, <2>1, SetType, FailType DEF EvaluateOracle, Verdicts
  <2> QED BY <1>5, <2>2 DEF EvaluateOracle, TypeOK, cluster
<1> QED BY <1>1, <1>2, <1>3, <1>4, <1>5

\* The actions on failpoints and Chaos objects.
LEMMA TypeFaults ==
  ASSUME TypeOK, NEW r \in Procs,
         ArmFailpoint(r) \/ DisarmFailpoint(r) \/ ApplyChaos(r) \/ DeleteChaos(r)
  PROVE  TypeOK'
<1>1. CASE ArmFailpoint(r)
  <2> PICK p \in Head(run[r].queue).points \ run[r].done :
           \/ Armed(p, r) /\ Set(r, Served(Recorded(run[r], p), p))
           \/ Unanswered(Armed(p, r), UNCHANGED armed) /\ FailFrom(r, Missed(run[r], p))
    BY <1>1 DEF ArmFailpoint
  <2>1. p \in Points /\ run[r].queue # <<>> /\ run[r] \in RunStates
    BY <1>1, HeadType DEF ArmFailpoint, Executing
  <2>2. Recorded(run[r], p) \in RunStates /\ Recorded(run[r], p).queue = run[r].queue
    BY <2>1 DEF Recorded, RunStates
  <2>3. run' \in [Procs -> RunStates]
    BY <2>1, <2>2, ServedType, SetType, FailType, MissedType
  <2>4. armed' \in [Points -> Procs \cup {Nil}]
    BY <2>1, EffectTypes DEF Unanswered, TypeOK
  <2> QED BY <1>1, <2>3, <2>4 DEF ArmFailpoint, TypeOK
<1>2. CASE DisarmFailpoint(r)
  <2> PICK p \in Head(run[r].queue).points \ run[r].done :
           \/ Disarmed(p) /\ Set(r, Served([run[r] EXCEPT !.active = @ \ {p}], p))
           \/ Unanswered(Disarmed(p), UNCHANGED armed) /\ Fail(r)
    BY <1>2 DEF DisarmFailpoint
  <2>1. p \in Points /\ run[r].queue # <<>> /\ run[r] \in RunStates
    BY <1>2, HeadType DEF DisarmFailpoint, Executing
  <2> DEFINE x == [run[r] EXCEPT !.active = @ \ {p}]
  <2>2. x \in RunStates /\ x.queue = run[r].queue
    BY <2>1 DEF RunStates
  <2>3. run' \in [Procs -> RunStates]
    <3>1. Set(r, Served(x, p)) \/ Fail(r)
      OBVIOUS
    <3> HIDE DEF x
    <3> QED BY <2>1, <2>2, <3>1, ServedType, SetType, FailType
  <2>4. armed' \in [Points -> Procs \cup {Nil}]
    BY <2>1, EffectTypes DEF Unanswered, TypeOK
  <2> QED BY <1>2, <2>3, <2>4 DEF DisarmFailpoint, TypeOK
<1>3. CASE ApplyChaos(r)
  <2>1. run' \in [Procs -> RunStates]
    BY <1>3, HeadType, AdvancedType, SetType, FailType DEF ApplyChaos, Executing
  <2>2. chaos' \in [Objects -> Keys \cup {Nil}]
    BY <1>3, ConfigType, HeadType DEF ApplyChaos, Unanswered, TypeOK
  <2> QED BY <1>3, <2>1, <2>2 DEF ApplyChaos, TypeOK
<1>4. CASE DeleteChaos(r)
  <2>1. run' \in [Procs -> RunStates]
    BY <1>4, HeadType, AdvancedType, SetType, FailType DEF DeleteChaos, Executing
  <2>2. chaos' \in [Objects -> Keys \cup {Nil}]
    BY <1>4, EffectTypes DEF DeleteChaos
  <2> QED BY <1>4, <2>1, <2>2 DEF DeleteChaos, TypeOK
<1> QED BY <1>1, <1>2, <1>3, <1>4

\* The actions on images.
LEMMA TypeImages ==
  ASSUME TypeOK, NEW r \in Procs, CaptureImages(r) \/ PatchImages(r) \/ WaitForImages(r)
  PROVE  TypeOK'
<1>1. CASE CaptureImages(r)
  <2> DEFINE x == [run[r] EXCEPT !.stage = "patch", !.original = Snapshot(run[r])]
  <2>1. Snapshot(run[r]) \in ImageMaps \cup {Nil}
    BY DEF Snapshot, TypeOK, RunStates
  <2>2. x \in RunStates
    <3> DEFINE s == Snapshot(run[r])
    <3>1. run[r] \in RunStates
      BY DEF TypeOK
    <3> HIDE DEF s
    <3> QED BY <2>1, <3>1 DEF RunStates, s
  <2>3. run' \in [Procs -> RunStates]
    <3>1. (Set(r, x) \/ Fail(r)) /\ run[r] \in RunStates
      BY <1>1 DEF CaptureImages, TypeOK
    <3> HIDE DEF x
    <3> QED BY <2>2, <3>1, SetType, FailType
  <2> QED BY <1>1, <2>3 DEF CaptureImages, TypeOK, cluster
<1>2. CASE PatchImages(r)
  <2>1. [run[r] EXCEPT !.stage = "rollout"] \in RunStates
    <3>1. run[r] \in RunStates
      BY DEF TypeOK
    <3> QED BY <3>1 DEF RunStates
  <2>2. run' \in [Procs -> RunStates]
    BY <1>2, <2>1, SetType, FailType DEF PatchImages
  <2>3. spec' \in ImageMaps
    BY <1>2, ConfigType, EffectTypes DEF PatchImages, Unanswered, TypeOK
  <2> QED BY <1>2, <2>2, <2>3 DEF PatchImages, TypeOK
<1>3. CASE WaitForImages(r)
  <2>1. run' \in [Procs -> RunStates]
    BY <1>3, HeadType, AdvancedType, SetType, FailType DEF WaitForImages, Executing
  <2> QED BY <1>3, <2>1 DEF WaitForImages, TypeOK, cluster
<1> QED BY <1>1, <1>2, <1>3

\* The configured cleanup and the first half of the automatic one.
LEMMA TypeCleanup ==
  ASSUME TypeOK, NEW r \in Procs,
         PreCleanup(r) \/ CleanupPhaseDone(r) \/ AutoDisarm(r) \/ ClearActive(r) \/ AutoDeleteChaos(r)
  PROVE  TypeOK'
<1>0. run[r] \in RunStates
  BY DEF TypeOK
<1>1. CASE PreCleanup(r)
  <2> PICK e \in BOOLEAN :
           Set(r, [run[r] EXCEPT !.cleanupErr = @ \/ e,
                     !.pc = IF config[r].auto_cleanup THEN "cleanup" ELSE "after",
                     !.queue = IF config[r].auto_cleanup THEN ActionsFor(config[r], "cleanup") ELSE <<>>])
    BY <1>1 DEF PreCleanup
  <2> DEFINE todo == IF config[r].auto_cleanup THEN ActionsFor(config[r], "cleanup") ELSE <<>>
             next == IF config[r].auto_cleanup THEN "cleanup" ELSE "after"
             failed == run[r].cleanupErr \/ e
             x == [run[r] EXCEPT !.cleanupErr = failed, !.pc = next, !.queue = todo]
  <2>1. todo \in Seq(Actions) /\ next \in Stages /\ failed \in BOOLEAN
    <3>1. ActionsFor(config[r], "cleanup") \in Seq(Actions) /\ <<>> \in Seq(Actions)
      BY ConfigType
    <3> QED BY <1>0, <3>1 DEF Stages, CleanStages, RunStates
  <2>2. x \in RunStates
    <3> HIDE DEF todo, next, failed
    <3> QED BY <1>0, <2>1 DEF RunStates
  <2>3. run' \in [Procs -> RunStates]
    <3>1. Set(r, x)
      OBVIOUS
    <3> HIDE DEF x
    <3> QED BY <2>2, <3>1, SetType
  <2> QED BY <1>1, <2>3 DEF PreCleanup, TypeOK, cluster
<1>2. CASE CleanupPhaseDone(r)
  <2>1. run' \in [Procs -> RunStates]
    BY <1>2, GotoType DEF CleanupPhaseDone, Stages, CleanStages
  <2> QED BY <1>2, <2>1 DEF CleanupPhaseDone, TypeOK, cluster
<1>3. CASE AutoDisarm(r)
  <2> PICK p \in run[r].active \ run[r].done :
           \/ Disarmed(p) /\ Set(r, [run[r] EXCEPT !.done = @ \cup {p}])
           \/ /\ Unanswered(Disarmed(p), UNCHANGED armed)
              /\ Set(r, [run[r] EXCEPT !.done = @ \cup {p}, !.unanswered = @ \cup {p}, !.cleanupErr = TRUE])
    BY <1>3 DEF AutoDisarm, Tracked
  <2>1. p \in Points
    BY <1>0 DEF RunStates
  <2>2. /\ [run[r] EXCEPT !.done = @ \cup {p}] \in RunStates
        /\ [run[r] EXCEPT !.done = @ \cup {p}, !.unanswered = @ \cup {p}, !.cleanupErr = TRUE] \in RunStates
    BY <1>0, <2>1 DEF RunStates
  <2>3. run' \in [Procs -> RunStates]
    BY <2>2, SetType
  <2>4. armed' \in [Points -> Procs \cup {Nil}]
    BY <2>1, EffectTypes DEF Unanswered, TypeOK
  <2> QED BY <1>3, <2>3, <2>4 DEF AutoDisarm, TypeOK
<1>4. CASE ClearActive(r)
  <2> DEFINE next == IF config[r].cluster THEN "autoChaos" ELSE "after"
  <2>1. next \in Stages
    BY DEF Stages, CleanStages
  <2>2. [run[r] EXCEPT !.active = {}, !.done = {}, !.pc = next] \in RunStates
    <3> HIDE DEF next
    <3> QED BY <1>0, <2>1 DEF RunStates
  <2>3. run' \in [Procs -> RunStates]
    BY <1>4, <2>2, SetType DEF ClearActive
  <2> QED BY <1>4, <2>3 DEF ClearActive, TypeOK, cluster
<1>5. CASE AutoDeleteChaos(r)
  <2> PICK code \in {"zero", "nonzero", "raised"} :
           /\ ChaosDeleted(Key(r), code)
           /\ Set(r, [run[r] EXCEPT !.pc = "autoImages", !.chaosCode = code,
                        !.cleanupErr = @ \/ code = "raised"])
    BY <1>5 DEF AutoDeleteChaos
  <2> DEFINE failed == run[r].cleanupErr \/ code = "raised"
             x == [run[r] EXCEPT !.pc = "autoImages", !.chaosCode = code, !.cleanupErr = failed]
  <2>1. failed \in BOOLEAN /\ code \in Codes
    BY <1>0 DEF Codes, RunStates
  <2>2. x \in RunStates
    <3> HIDE DEF failed
    <3> QED BY <1>0, <2>1 DEF RunStates, Stages, CleanStages
  <2>3. run' \in [Procs -> RunStates]
    <3>1. Set(r, x)
      OBVIOUS
    <3> HIDE DEF x
    <3> QED BY <2>2, <3>1, SetType
  <2>4. chaos' \in [Objects -> Keys \cup {Nil}]
    BY EffectTypes
  <2> QED BY <1>5, <2>3, <2>4 DEF AutoDeleteChaos, TypeOK
<1> QED BY <1>1, <1>2, <1>3, <1>4, <1>5

\* Its second half.
LEMMA TypeRestore ==
  ASSUME TypeOK, NEW r \in Procs, AutoRestore(r) \/ AutoWaitForImages(r) \/ AfterCleanup(r)
  PROVE  TypeOK'
<1>0. run[r] \in RunStates
  BY DEF TypeOK
<1>1. [run[r] EXCEPT !.pc = "after", !.cleanupErr = TRUE] \in RunStates
  BY <1>0 DEF RunStates, Stages, CleanStages
<1>2. CASE AutoRestore(r)
  <2>1. run' \in [Procs -> RunStates]
    BY <1>1, <1>2, GotoType, SetType DEF AutoRestore, Stages, CleanStages
  <2>2. run[r].original \in ImageMaps \cup {Nil}
    BY <1>0 DEF RunStates
  <2>3. spec' \in ImageMaps
    BY <1>2, <2>2, EffectTypes DEF AutoRestore, Unanswered, TypeOK
  <2> QED BY <1>2, <2>1, <2>3 DEF AutoRestore, TypeOK
<1>3. CASE AutoWaitForImages(r)
  <2>1. run' \in [Procs -> RunStates]
    BY <1>1, <1>3, GotoType, SetType DEF AutoWaitForImages, Stages, CleanStages
  <2> QED BY <1>3, <2>1 DEF AutoWaitForImages, TypeOK, cluster
<1>4. CASE AfterCleanup(r)
  <2> PICK e \in BOOLEAN :
           Set(r, [run[r] EXCEPT !.cleanupErr = @ \/ e,
                     !.pc = IF run[r].unwinding THEN "dead" ELSE "record"])
    BY <1>4 DEF AfterCleanup
  <2> DEFINE next == IF run[r].unwinding THEN "dead" ELSE "record"
             failed == run[r].cleanupErr \/ e
             x == [run[r] EXCEPT !.cleanupErr = failed, !.pc = next]
  <2>1. failed \in BOOLEAN /\ next \in Stages
    BY <1>0 DEF Stages, WriteStages, Terminal, RunStates
  <2>2. x \in RunStates
    <3> HIDE DEF failed, next
    <3> QED BY <1>0, <2>1 DEF RunStates
  <2>3. run' \in [Procs -> RunStates]
    <3>1. Set(r, x)
      OBVIOUS
    <3> HIDE DEF x
    <3> QED BY <2>2, <3>1, SetType
  <2> QED BY <1>4, <2>3 DEF AfterCleanup, TypeOK, cluster
<1> QED BY <1>2, <1>3, <1>4

\* What is written after it.
LEMMA TypeWrites ==
  ASSUME TypeOK, NEW r \in Procs,
         WriteRecord(r) \/ WritePromotion(r) \/ ImportRecord(r) \/ WriteManifest(r) \/ WriteIndex(r)
  PROVE  TypeOK'
<1>0. run[r] \in RunStates
  BY DEF TypeOK
<1>1. ASSUME NEW f \in Files, Write(r, f)
      PROVE  bundles' \in [Keys -> SUBSET Files]
  BY <1>1, ConfigType DEF Write, TypeOK
<1>2. {"record", "promotion", "manifest", "index"} \subseteq Files
  BY DEF Files
<1>3. {"promote", "import", "manifest", "index", "done"} \subseteq Stages
  BY DEF Stages, WriteStages, Terminal
<1>4. CASE WriteRecord(r)
  <2> DEFINE err == IF run[r].cleanupErr /\ run[r].error = "none" THEN "cleanup" ELSE run[r].error
             next == IF run[r].verdict = "RED" THEN "promote" ELSE "import"
             x == [run[r] EXCEPT !.error = err, !.pc = next]
  <2>1. err \in {"none", "run", "cleanup"} /\ next \in Stages
    BY <1>0, <1>3 DEF RunStates
  <2>2. x \in RunStates
    <3> HIDE DEF err, next
    <3> QED BY <1>0, <2>1 DEF RunStates
  <2>3. run' \in [Procs -> RunStates]
    <3>1. Set(r, x)
      BY <1>4 DEF WriteRecord
    <3> HIDE DEF x
    <3> QED BY <2>2, <3>1, SetType
  <2> QED BY <1>1, <1>2, <1>4, <2>3 DEF WriteRecord, TypeOK, cluster
<1>5. CASE ImportRecord(r)
  <2>1. \A i \in {"no", "yes", "failed"} : [run[r] EXCEPT !.pc = "manifest", !.imported = i] \in RunStates
    BY <1>0, <1>3 DEF RunStates
  <2>2. run' \in [Procs -> RunStates]
    BY <1>5, <2>1, SetType DEF ImportRecord
  <2> QED BY <1>5, <2>2 DEF ImportRecord, TypeOK, cluster
<1>6. CASE WritePromotion(r) \/ WriteManifest(r) \/ WriteIndex(r)
  <2>1. run' \in [Procs -> RunStates] /\ bundles' \in [Keys -> SUBSET Files]
    BY <1>1, <1>2, <1>3, <1>6, GotoType DEF WritePromotion, WriteManifest, WriteIndex
  <2> QED BY <1>6, <2>1 DEF WritePromotion, WriteManifest, WriteIndex, TypeOK, cluster
<1> QED BY <1>4, <1>5, <1>6

\* The failpoints of a config are failpoints of the cluster.
LEMMA ArmPointsType ==
  ASSUME TypeOK, NEW r \in Procs
  PROVE  ArmPoints(config[r]) \subseteq Points
<1>1. \A i \in 1..5 : ActionsFor(config[r], Phases[i]) \in Seq(Actions)
  BY ConfigType
<1>2. Enabled(config[r]) \subseteq Actions
  <2> SUFFICES ASSUME NEW i \in 1..5, NEW j \in DOMAIN ActionsFor(config[r], Phases[i])
               PROVE  ActionsFor(config[r], Phases[i])[j] \in Actions
    BY DEF Enabled
  <2> QED BY <1>1
<1> QED BY <1>2 DEF ArmPoints, Actions, OneComponent

\* The emergency cleanup.
LEMMA TypeRescue ==
  ASSUME TypeOK, NEW r \in Procs, Rescue(r)
  PROVE  TypeOK'
<1>0. rescue[r] \in RescueStates
  BY DEF TypeOK
<1> DEFINE typed(x) == SetRescue(r, x) => rescue' \in [Procs -> RescueStates]
<1>1. \A x \in RescueStates : typed(x)
  BY DEF SetRescue, TypeOK
<1>2. CASE BeginRescue(r)
  <2> DEFINE late == Quiet(r)
             x == [rescue[r] EXCEPT !.pc = "points", !.late = late]
  <2>1. late \in BOOLEAN
    BY DEF Quiet
  <2>2. x \in RescueStates
    <3> HIDE DEF late
    <3> QED BY <1>0, <2>1 DEF RescueStates
  <2>3. rescue' \in [Procs -> RescueStates]
    <3>1. SetRescue(r, x)
      BY <1>2 DEF BeginRescue
    <3> QED BY <1>1, <2>2, <3>1
  <2> QED BY <1>2, <2>3 DEF BeginRescue, TypeOK, cluster
<1>3. CASE RescueFailpoint(r)
  <2> PICK p \in ArmPoints(config[r]) \ rescue[r].done :
           \/ Disarmed(p) /\ SetRescue(r, [rescue[r] EXCEPT !.done = @ \cup {p}])
           \/ /\ Unanswered(Disarmed(p), UNCHANGED armed)
              /\ SetRescue(r, [rescue[r] EXCEPT !.done = @ \cup {p}, !.failed = TRUE])
    BY <1>3 DEF RescueFailpoint
  <2>1. p \in Points
    BY ArmPointsType
  <2>2. /\ [rescue[r] EXCEPT !.done = @ \cup {p}] \in RescueStates
        /\ [rescue[r] EXCEPT !.done = @ \cup {p}, !.failed = TRUE] \in RescueStates
    BY <1>0, <2>1 DEF RescueStates
  <2>3. rescue' \in [Procs -> RescueStates]
    BY <1>1, <2>2
  <2>4. armed' \in [Points -> Procs \cup {Nil}]
    BY <2>1, EffectTypes DEF Unanswered, TypeOK
  <2> QED BY <1>3, <2>3, <2>4 DEF RescueFailpoint, TypeOK
<1>4. CASE RescueChaos(r)
  <2> PICK code \in {"zero", "nonzero", "raised"} :
           /\ ChaosDeleted(Key(r), code)
           /\ SetRescue(r, [rescue[r] EXCEPT !.code = code,
                              !.pc = IF code = "raised" THEN "dead" ELSE "done"])
    BY <1>4 DEF RescueChaos
  <2> DEFINE next == IF code = "raised" THEN "dead" ELSE "done"
             x == [rescue[r] EXCEPT !.code = code, !.pc = next]
  <2>1. x \in RescueStates
    <3>1. next \in {"dead", "done"}
      OBVIOUS
    <3> HIDE DEF next
    <3> QED BY <1>0, <3>1 DEF RescueStates, Codes
  <2>2. rescue' \in [Procs -> RescueStates]
    <3>1. SetRescue(r, x)
      OBVIOUS
    <3> QED BY <1>1, <2>1, <3>1
  <2>3. chaos' \in [Objects -> Keys \cup {Nil}]
    BY EffectTypes
  <2> QED BY <1>4, <2>2, <2>3 DEF RescueChaos, TypeOK
<1> QED BY <1>2, <1>3, <1>4 DEF Rescue

\* Every step of every process, the operator's and the cluster's.
LEMMA TypeStep == TypeOK /\ [Next]_vars => TypeOK'
<1> SUFFICES ASSUME TypeOK, [Next]_vars PROVE TypeOK'
  OBVIOUS
<1>1. ASSUME NEW r \in Procs, Step(r) PROVE TypeOK'
  BY <1>1, TypeTry, TypeFaults, TypeImages, TypeCleanup, TypeRestore, TypeWrites DEF Step
<1>2. ASSUME NEW r \in Procs, Crash(r) PROVE TypeOK'
  <2>1. run' \in [Procs -> RunStates]
    BY <1>2, GotoType DEF Crash, Stages, Terminal
  <2> QED BY <1>2, <2>1 DEF Crash, TypeOK, cluster
<1>3. ASSUME NEW c \in Components, Rollout(c) PROVE TypeOK'
  <2>1. spec[c] \in Images \cup {Nil}
    BY DEF TypeOK, ImageMaps
  <2>2. running' \in ImageMaps
    BY <1>3, <2>1 DEF Rollout, TypeOK, ImageMaps
  <2>3. armed' \in [Points -> Procs \cup {Nil}]
    BY <1>3 DEF Rollout, TypeOK
  <2> QED BY <1>3, <2>2, <2>3 DEF Rollout, TypeOK
<1>4. CASE UNCHANGED vars
  BY <1>4 DEF vars, TypeOK
<1> QED BY <1>1, <1>2, <1>3, <1>4, TypeRescue DEF Next

\* Every variable keeps its type in every behaviour of the control plane.
THEOREM TypeCorrect == Spec => []TypeOK
  BY TypeInit, TypeStep, PTL DEF Spec
-----------------------------------------------------------------------------
(* What a run says about its failpoints.  OkMeansDisarmed and              *)
(* LeaksAreReported speak of a run that is over or cleaned up.  What       *)
(* carries them is an account of every failpoint a run holds, at every     *)
(* step: it is in active_failpoints and still ahead of the cleanup loop,   *)
(* or a request about it was not answered, and then the run carries a mark *)
(* of failure that it will report.                                         *)

Held(r) == {p \in Points : armed[p] = r}

\* The run has failed in a way its result or its death will show.
Marked(x) == x.error = "run" \/ x.unwinding \/ x.cleanupErr \/ x.pc = "dead"

\* The stages an automatic cleanup has already swept for.
Swept == {"autoChaos", "autoImages", "autoRollout", "after", "done"} \cup WriteStages

\* Loops start with nothing served.
LoopsFresh(x) ==
  /\ x.pc \notin {"main", "cleanup", "dead"} => x.queue = <<>>
  /\ x.pc \notin {"main", "cleanup", "auto", "dead"} => x.done = {}
  /\ x.pc \in {"main", "cleanup"} /\ x.queue = <<>> => x.done = {}

\* From the record on, a cleanup error is an error of the result, and no
\* interrupt is propagating.
MarksKept(x) ==
  /\ x.pc \in WriteStages \cup {"done"} => ~x.unwinding
  /\ x.pc \in {"promote", "import", "manifest", "index", "done"} /\ x.cleanupErr => x.error # "none"

\* A run with config c in state x accounts for the failpoints it holds.
Accounts(c, x, held) ==
  /\ held # {} => c.cluster
  /\ held \subseteq x.active \cup x.unanswered
  /\ x.pc = "auto" => held \cap x.done \subseteq x.unanswered
  /\ c.auto_cleanup /\ x.pc \in Swept => held \subseteq x.unanswered
  /\ x.unanswered # {} => Marked(x)
  /\ LoopsFresh(x)
  /\ MarksKept(x)

AllAccounted == \A r \in Procs : Accounts(config[r], run[r], Held(r))

IInv == TypeOK /\ AllAccounted
-----------------------------------------------------------------------------
(* Accounts under the moves an action is made of *)

\* Taking failpoints away never breaks an account.
LEMMA Shrinks ==
  ASSUME NEW c, NEW x, NEW held, NEW less, less \subseteq held, Accounts(c, x, held)
  PROVE  Accounts(c, x, less)
  BY DEF Accounts

\* One run moves to x; nobody else gains a failpoint.
LEMMA OneMoves ==
  ASSUME IInv, NEW r \in Procs, NEW x, Set(r, x), UNCHANGED config,
         \A s \in Procs \ {r} : Held(s)' \subseteq Held(s),
         Accounts(config[r], x, Held(r)')
  PROVE  AllAccounted'
<1> SUFFICES ASSUME NEW s \in Procs
             PROVE  Accounts(config[s], run'[s], Held(s)')
  BY DEF AllAccounted, Accounts
<1>1. run' = [run EXCEPT ![r] = x] /\ run \in [Procs -> RunStates]
  BY DEF Set, IInv, TypeOK
<1>2. CASE s = r
  BY <1>1, <1>2
<1>3. CASE s # r
  <2>1. run'[s] = run[s] /\ Accounts(config[s], run[s], Held(s))
    BY <1>1, <1>3 DEF IInv, AllAccounted
  <2> QED BY <1>3, <2>1, Shrinks
<1> QED BY <1>2, <1>3

\* No run moves; nobody gains a failpoint.
LEMMA NoneMoves ==
  ASSUME IInv, UNCHANGED <<config, run>>, \A s \in Procs : Held(s)' \subseteq Held(s)
  PROVE  AllAccounted'
<1> SUFFICES ASSUME NEW s \in Procs
             PROVE  Accounts(config[s], run[s], Held(s)')
  BY DEF AllAccounted, Accounts
<1> QED BY Shrinks DEF IInv, AllAccounted

\* An exception or an interrupt marks the run: x is its state, or that and a
\* request that was not answered.
LEMMA FailMoves ==
  ASSUME IInv, NEW r \in Procs, NEW x \in RunStates, FailFrom(r, x), UNCHANGED config,
         \A s \in Procs \ {r} : Held(s)' \subseteq Held(s),
         config[r].cluster \/ Held(r)' = {}, Held(r)' \subseteq x.active \cup x.unanswered
  PROVE  AllAccounted'
<1>2. Accounts(config[r], Raised(x), Held(r)')
  BY DEF Accounts, Raised, Left, Marked, LoopsFresh, MarksKept, RunStates, WriteStages, Swept
<1>3. Accounts(config[r], Interrupted(x), Held(r)')
  BY DEF Accounts, Interrupted, Left, Marked, LoopsFresh, MarksKept, RunStates, WriteStages, Swept
<1> QED BY <1>2, <1>3, OneMoves DEF FailFrom

\* The next action starts with nothing served,
LEMMA AdvanceAccounts ==
  ASSUME NEW c, NEW x \in RunStates, NEW held, x.pc \in {"main", "cleanup"}, Accounts(c, x, held)
  PROVE  Accounts(c, Advanced(x), held)
  BY DEF Accounts, Advanced, Marked, LoopsFresh, MarksKept, RunStates, WriteStages, Swept

\* and a served point changes no account of the attempt.
LEMMA ServeAccounts ==
  ASSUME NEW c, NEW x \in RunStates, NEW held, NEW p \in Points,
         x.pc \in {"main", "cleanup"}, x.queue # <<>>, Accounts(c, x, held)
  PROVE  Accounts(c, Served(x, p), held)
<1>1. Accounts(c, [x EXCEPT !.done = @ \cup {p}], held)
  BY DEF Accounts, Marked, LoopsFresh, MarksKept, RunStates, WriteStages, Swept
<1> QED BY <1>1, AdvanceAccounts DEF Served

\* Who holds what after a request about one failpoint.
LEMMA ArmedHeld ==
  ASSUME TypeOK, NEW p \in Points, NEW r \in Procs, Armed(p, r)
  PROVE  Held(r)' = Held(r) \cup {p} /\ \A s \in Procs \ {r} : Held(s)' \subseteq Held(s)
  BY DEF Armed, Held, TypeOK

\* Disarming a point takes it from whoever held it.
LEMMA DisarmedHeld ==
  ASSUME TypeOK, NEW p \in Points, Disarmed(p)
  PROVE  \A s \in Procs : Held(s)' = Held(s) \ {p}
  BY ConstantsAssumption DEF Disarmed, Held, TypeOK

\* Nobody holds more or less when nothing is armed or disarmed.
LEMMA SameHeld ==
  ASSUME UNCHANGED armed
  PROVE  \A s : Held(s)' = Held(s)
  BY DEF Held
-----------------------------------------------------------------------------
(* IInv is inductive: one lemma per group of actions *)

\* At first nobody holds anything.
LEMMA AccountsInit == Init => AllAccounted
<1> SUFFICES ASSUME Init, NEW r \in Procs PROVE Accounts(config[r], run[r], Held(r))
  BY DEF AllAccounted
<1>1. Held(r) = {}
  BY ConstantsAssumption DEF Held, Init
<1>2. run[r] = InitRun
  BY DEF Init
<1> QED BY <1>1, <1>2 DEF Accounts, InitRun, LoopsFresh, MarksKept, WriteStages, Swept

\* The body of the try touches no failpoint.
LEMMA AccountsTry ==
  ASSUME IInv, NEW r \in Procs,
         Start(r) \/ Preflight(r) \/ Work(r) \/ PhasesDone(r) \/ EvaluateOracle(r)
  PROVE  AllAccounted'
<1> DEFINE x == run[r]
<1>1. x \in RunStates /\ Accounts(config[r], x, Held(r))
  BY DEF IInv, TypeOK, AllAccounted
<1>2. UNCHANGED <<config, armed>>
  BY DEF Start, Preflight, Work, PhasesDone, EvaluateOracle, cluster
<1>3. \A s \in Procs : Held(s)' = Held(s)
  BY <1>2, SameHeld
<1>4. CASE Fail(r)
  <2>1. (Held(r) # {} => config[r].cluster) /\ Held(r) \subseteq x.active \cup x.unanswered
    BY <1>1 DEF Accounts
  <2> QED BY <1>1, <1>2, <1>3, <1>4, <2>1, FailMoves DEF Fail
<1>5. CASE Start(r)
  <2>1. ASSUME NEW s \in {"preflight", "refused"}, x.pc = "idle"
        PROVE  Accounts(config[r], [x EXCEPT !.pc = s], Held(r))
    BY <1>1, <2>1 DEF Accounts, Marked, LoopsFresh, MarksKept, RunStates, WriteStages, Swept
  <2> QED BY <1>2, <1>3, <1>5, <2>1, OneMoves DEF Start, Goto
<1>6. CASE Preflight(r)
  <2> DEFINE todo == ActionsFor(config[r], "prepare") \o ActionsFor(config[r], "arm")
                       \o ActionsFor(config[r], "workload") \o ActionsFor(config[r], "observe")
             y == [x EXCEPT !.pc = "main", !.queue = todo]
  <2>1. x.pc = "preflight" /\ (Set(r, y) \/ Fail(r))
    BY <1>6 DEF Preflight
  <2>2. Accounts(config[r], y, Held(r))
    <3> HIDE DEF todo
    <3> QED BY <1>1, <2>1 DEF Accounts, Marked, LoopsFresh, MarksKept, RunStates, WriteStages, Swept
  <2> HIDE DEF y
  <2> QED BY <1>2, <1>3, <1>4, <2>1, <2>2, OneMoves
<1>7. CASE Work(r)
  <2>1. x.pc \in {"main", "cleanup"} /\ (Set(r, Advanced(x)) \/ Fail(r))
    BY <1>7 DEF Work, Executing
  <2>2. Accounts(config[r], Advanced(x), Held(r))
    BY <1>1, <2>1, AdvanceAccounts
  <2> QED BY <1>2, <1>3, <1>4, <2>1, <2>2, OneMoves
<1>8. CASE PhasesDone(r)
  <2>1. Accounts(config[r], [x EXCEPT !.pc = "oracle"], Held(r))
    BY <1>1, <1>8 DEF PhasesDone, Accounts, Marked, LoopsFresh, MarksKept, RunStates, WriteStages, Swept
  <2> QED BY <1>2, <1>3, <1>8, <2>1, OneMoves DEF PhasesDone, Goto
<1>9. CASE EvaluateOracle(r)
  <2>1. ASSUME NEW v
        PROVE  Accounts(config[r], [x EXCEPT !.pc = "final", !.verdict = v], Held(r))
    BY <1>1, <1>9 DEF EvaluateOracle, Accounts, Marked, LoopsFresh, MarksKept, RunStates, WriteStages, Swept
  <2>2. Fail(r) \/ \E v : Set(r, [x EXCEPT !.pc = "final", !.verdict = v])
    BY <1>9 DEF EvaluateOracle
  <2> QED BY <1>2, <1>3, <1>4, <2>1, <2>2, OneMoves
<1> QED BY <1>5, <1>6, <1>7, <1>8, <1>9

\* An armed point is in the list before the step ends, or the run has failed.
LEMMA AccountsFaults ==
  ASSUME IInv, NEW r \in Procs, ArmFailpoint(r) \/ DisarmFailpoint(r)
  PROVE  AllAccounted'
<1> DEFINE x == run[r]
<1>1. x \in RunStates /\ Accounts(config[r], x, Held(r)) /\ TypeOK
  BY DEF IInv, TypeOK, AllAccounted
<1>2. /\ x.pc \in {"main", "cleanup"} /\ x.queue # <<>> /\ config[r].cluster
      /\ UNCHANGED config
  BY DEF ArmFailpoint, DisarmFailpoint, Executing, ClusterKinds
<1>3. CASE ArmFailpoint(r)
  <2> PICK p \in Head(x.queue).points \ x.done :
           \/ Armed(p, r) /\ Set(r, Served(Recorded(x, p), p))
           \/ Unanswered(Armed(p, r), UNCHANGED armed) /\ FailFrom(r, Missed(x, p))
    BY <1>3 DEF ArmFailpoint
  <2>1. p \in Points
    BY <1>1, <1>2, HeadType
  <2>2. CASE Unanswered(Armed(p, r), UNCHANGED armed) /\ FailFrom(r, Missed(x, p))
    <3>1. Armed(p, r) \/ UNCHANGED armed
      BY <2>2 DEF Unanswered
    <3>2. (\A s \in Procs \ {r} : Held(s)' \subseteq Held(s)) /\ Held(r)' \subseteq Held(r) \cup {p}
      BY <1>1, <2>1, <3>1, ArmedHeld, SameHeld
    <3> DEFINE y == Missed(x, p)
    <3>3. y \in RunStates /\ y.active = x.active /\ y.unanswered = x.unanswered \cup {p}
      BY <1>1, <2>1, MissedType
    <3>4. Held(r)' \subseteq y.active \cup y.unanswered
      BY <1>1, <3>2, <3>3 DEF Accounts
    <3>5. FailFrom(r, y)
      BY <2>2
    <3> HIDE DEF y
    <3> QED BY <1>2, <3>2, <3>3, <3>4, <3>5, FailMoves
  <2>3. CASE Armed(p, r) /\ Set(r, Served(Recorded(x, p), p))
    <3> DEFINE y == Recorded(x, p)
    <3>1. /\ Held(r)' = Held(r) \cup {p}
          /\ \A s \in Procs \ {r} : Held(s)' \subseteq Held(s)
      BY <1>1, <2>1, <2>3, ArmedHeld
    <3>2. y \in RunStates /\ y.pc = x.pc /\ y.queue = x.queue
      BY <1>1, <2>1 DEF Recorded, RunStates
    <3>3. Accounts(config[r], y, Held(r) \cup {p})
      BY <1>1, <1>2 DEF Recorded, Accounts, Marked, LoopsFresh, MarksKept, RunStates, WriteStages, Swept
    <3>4. Accounts(config[r], Served(y, p), Held(r)')
      <4> HIDE DEF y
      <4> QED BY <1>2, <2>1, <3>1, <3>2, <3>3, ServeAccounts
    <3> QED BY <1>2, <2>3, <3>1, <3>4, OneMoves
  <2> QED BY <2>2, <2>3
<1>4. CASE DisarmFailpoint(r)
  <2> PICK p \in Head(x.queue).points \ x.done :
           \/ Disarmed(p) /\ Set(r, Served([x EXCEPT !.active = @ \ {p}], p))
           \/ Unanswered(Disarmed(p), UNCHANGED armed) /\ Fail(r)
    BY <1>4 DEF DisarmFailpoint
  <2>1. p \in Points
    BY <1>1, <1>2, HeadType
  <2>2. CASE Fail(r)
    <3>1. Disarmed(p) \/ UNCHANGED armed
      BY <2>2 DEF Unanswered
    <3>2. \A s \in Procs : Held(s)' \subseteq Held(s)
      BY <1>1, <2>1, <3>1, DisarmedHeld, SameHeld
    <3>3. Held(r)' \subseteq x.active \cup x.unanswered
      BY <1>1, <3>2 DEF Accounts
    <3> QED BY <1>1, <1>2, <2>2, <3>2, <3>3, FailMoves DEF Fail
  <2>3. CASE Disarmed(p) /\ Set(r, Served([x EXCEPT !.active = @ \ {p}], p))
    <3> DEFINE y == [x EXCEPT !.active = @ \ {p}]
    <3>1. \A s \in Procs : Held(s)' = Held(s) \ {p}
      BY <1>1, <2>1, <2>3, DisarmedHeld
    <3>2. y \in RunStates /\ y.pc = x.pc /\ y.queue = x.queue
      BY <1>1, <2>1 DEF RunStates
    <3>3. Accounts(config[r], y, Held(r) \ {p})
      BY <1>1, <1>2 DEF Accounts, Marked, LoopsFresh, MarksKept, RunStates, WriteStages, Swept
    <3>4. Set(r, Served(y, p))
      BY <2>3
    <3>5. Accounts(config[r], Served(y, p), Held(r)')
      <4> HIDE DEF y
      <4> QED BY <1>2, <2>1, <3>1, <3>2, <3>3, ServeAccounts
    <3> HIDE DEF y
    <3> QED BY <1>2, <3>1, <3>4, <3>5, OneMoves
  <2> QED BY <2>2, <2>3
<1> QED BY <1>3, <1>4

\* Chaos objects and images touch no failpoint of the accounts.
LEMMA AccountsImages ==
  ASSUME IInv, NEW r \in Procs,
         ApplyChaos(r) \/ DeleteChaos(r) \/ CaptureImages(r) \/ PatchImages(r) \/ WaitForImages(r)
  PROVE  AllAccounted'
<1> DEFINE x == run[r]
<1>1. x \in RunStates /\ Accounts(config[r], x, Held(r))
  BY DEF IInv, TypeOK, AllAccounted
<1>2. x.pc \in {"main", "cleanup"} /\ x.queue # <<>> /\ config[r].cluster /\ UNCHANGED <<config, armed>>
  BY DEF ApplyChaos, DeleteChaos, CaptureImages, PatchImages, WaitForImages, Executing, ClusterKinds, cluster
<1>3. \A s \in Procs : Held(s)' = Held(s)
  BY <1>2, SameHeld
<1>4. CASE Fail(r)
  <2>1. Held(r) \subseteq x.active \cup x.unanswered
    BY <1>1 DEF Accounts
  <2> QED BY <1>1, <1>2, <1>3, <1>4, <2>1, FailMoves DEF Fail
<1>5. CASE Set(r, Advanced(x))
  BY <1>1, <1>2, <1>3, <1>5, AdvanceAccounts, OneMoves
<1>6. CASE Set(r, [x EXCEPT !.stage = "patch", !.original = Snapshot(x)])
  <2> DEFINE old == Snapshot(x)
             y == [x EXCEPT !.stage = "patch", !.original = old]
  <2>1. Accounts(config[r], y, Held(r))
    <3> HIDE DEF old
    <3> QED BY <1>1, <1>2 DEF Accounts, Marked, LoopsFresh, MarksKept, RunStates, WriteStages, Swept
  <2>2. Set(r, y)
    BY <1>6
  <2> HIDE DEF y
  <2> QED BY <1>2, <1>3, <2>1, <2>2, OneMoves
<1>7. CASE Set(r, [x EXCEPT !.stage = "rollout"])
  <2>1. Accounts(config[r], [x EXCEPT !.stage = "rollout"], Held(r))
    BY <1>1, <1>2 DEF Accounts, Marked, LoopsFresh, MarksKept, RunStates, WriteStages, Swept
  <2> QED BY <1>2, <1>3, <1>7, <2>1, OneMoves
<1> QED BY <1>4, <1>5, <1>6, <1>7 DEF ApplyChaos, DeleteChaos, CaptureImages, PatchImages, WaitForImages

\* The cleanup loop serves point by point; what is not served is ahead.
LEMMA AccountsCleanup ==
  ASSUME IInv, NEW r \in Procs,
         PreCleanup(r) \/ CleanupPhaseDone(r) \/ AutoDisarm(r) \/ ClearActive(r)
  PROVE  AllAccounted'
<1> DEFINE x == run[r]
<1>1. x \in RunStates /\ Accounts(config[r], x, Held(r)) /\ TypeOK
  BY DEF IInv, TypeOK, AllAccounted
<1>2. UNCHANGED config
  BY DEF PreCleanup, CleanupPhaseDone, AutoDisarm, ClearActive
<1>3. ASSUME UNCHANGED armed
      PROVE  \A s \in Procs : Held(s)' = Held(s)
  BY <1>3, SameHeld
<1>4. CASE PreCleanup(r)
  <2> PICK e \in BOOLEAN :
           Set(r, [x EXCEPT !.cleanupErr = @ \/ e,
                     !.pc = IF config[r].auto_cleanup THEN "cleanup" ELSE "after",
                     !.queue = IF config[r].auto_cleanup THEN ActionsFor(config[r], "cleanup") ELSE <<>>])
    BY <1>4 DEF PreCleanup
  <2> DEFINE todo == IF config[r].auto_cleanup THEN ActionsFor(config[r], "cleanup") ELSE <<>>
             next == IF config[r].auto_cleanup THEN "cleanup" ELSE "after"
             failed == x.cleanupErr \/ e
             y == [x EXCEPT !.cleanupErr = failed, !.pc = next, !.queue = todo]
  <2>1. /\ config[r].auto_cleanup => next = "cleanup"
        /\ ~config[r].auto_cleanup => next = "after" /\ todo = <<>>
        /\ failed \in BOOLEAN /\ (x.cleanupErr => failed)
    BY <1>1 DEF RunStates
  <2>2. x.pc = "final"
    BY <1>4 DEF PreCleanup
  <2>3. Accounts(config[r], y, Held(r))
    <3> HIDE DEF todo, next, failed
    <3> QED BY <1>1, <2>1, <2>2 DEF Accounts, Marked, LoopsFresh, MarksKept, RunStates, WriteStages, Swept
  <2>4. Set(r, y)
    OBVIOUS
  <2>5. UNCHANGED armed
    BY <1>4 DEF PreCleanup, cluster
  <2> HIDE DEF y
  <2> QED BY <1>2, <1>3, <2>3, <2>4, <2>5, OneMoves
<1>5. CASE CleanupPhaseDone(r)
  <2> DEFINE next == IF config[r].cluster THEN "auto" ELSE "after"
             y == [x EXCEPT !.pc = next]
  <2>1. x.pc = "cleanup" /\ x.queue = <<>> /\ UNCHANGED armed /\ Set(r, y)
    BY <1>5 DEF CleanupPhaseDone, Goto, cluster
  <2>2. next = "auto" \/ (next = "after" /\ Held(r) = {})
    BY <1>1 DEF Accounts
  <2>3. Accounts(config[r], y, Held(r))
    <3> HIDE DEF next
    <3> QED BY <1>1, <2>1, <2>2 DEF Accounts, Marked, LoopsFresh, MarksKept, RunStates, WriteStages, Swept
  <2> HIDE DEF y
  <2> QED BY <1>2, <1>3, <2>1, <2>3, OneMoves
<1>6. CASE AutoDisarm(r)
  <2> PICK p \in x.active \ x.done :
           \/ Disarmed(p) /\ Set(r, [x EXCEPT !.done = @ \cup {p}])
           \/ /\ Unanswered(Disarmed(p), UNCHANGED armed)
              /\ Set(r, [x EXCEPT !.done = @ \cup {p}, !.unanswered = @ \cup {p}, !.cleanupErr = TRUE])
    BY <1>6 DEF AutoDisarm, Tracked
  <2>1. p \in Points /\ x.pc = "auto"
    BY <1>1, <1>6 DEF AutoDisarm, RunStates
  <2>2. Accounts(config[r], [x EXCEPT !.done = @ \cup {p}], Held(r) \ {p})
    BY <1>1, <2>1 DEF Accounts, Marked, LoopsFresh, MarksKept, RunStates, WriteStages, Swept
  <2>3. Accounts(config[r], [x EXCEPT !.done = @ \cup {p}, !.unanswered = @ \cup {p}, !.cleanupErr = TRUE], Held(r))
    BY <1>1, <2>1 DEF Accounts, Marked, LoopsFresh, MarksKept, RunStates, WriteStages, Swept
  <2>4. CASE Disarmed(p) /\ Set(r, [x EXCEPT !.done = @ \cup {p}])
    <3>1. \A s \in Procs : Held(s)' = Held(s) \ {p}
      BY <1>1, <2>1, <2>4, DisarmedHeld
    <3> QED BY <1>2, <2>2, <2>4, <3>1, OneMoves
  <2>5. CASE /\ Unanswered(Disarmed(p), UNCHANGED armed)
             /\ Set(r, [x EXCEPT !.done = @ \cup {p}, !.unanswered = @ \cup {p}, !.cleanupErr = TRUE])
    <3>1. \A s \in Procs : Held(s)' \subseteq Held(s)
      BY <1>1, <2>1, <2>5, DisarmedHeld, SameHeld DEF Unanswered
    <3>2. Accounts(config[r], [x EXCEPT !.done = @ \cup {p}, !.unanswered = @ \cup {p}, !.cleanupErr = TRUE], Held(r)')
      BY <2>3, <3>1, Shrinks
    <3> QED BY <1>2, <2>5, <3>1, <3>2, OneMoves
  <2> QED BY <2>4, <2>5
<1>7. CASE ClearActive(r)
  <2> DEFINE next == IF config[r].cluster THEN "autoChaos" ELSE "after"
             y == [x EXCEPT !.active = {}, !.done = {}, !.pc = next]
  <2>1. x.pc = "auto" /\ x.active \subseteq x.done /\ UNCHANGED armed /\ Set(r, y)
    BY <1>7 DEF ClearActive, Tracked, cluster
  <2>2. next \in {"autoChaos", "after"} /\ Held(r) \subseteq x.unanswered
    BY <1>1, <2>1 DEF Accounts
  <2>3. Accounts(config[r], y, Held(r))
    <3> HIDE DEF next
    <3> QED BY <1>1, <2>1, <2>2 DEF Accounts, Marked, LoopsFresh, MarksKept, RunStates, WriteStages, Swept
  <2> HIDE DEF y
  <2> QED BY <1>2, <1>3, <2>1, <2>3, OneMoves
<1> QED BY <1>4, <1>5, <1>6, <1>7
\* After the loop a run without a mark of failure holds nothing,
LEMMA AccountsRestore ==
  ASSUME IInv, NEW r \in Procs,
         AutoDeleteChaos(r) \/ AutoRestore(r) \/ AutoWaitForImages(r) \/ AfterCleanup(r)
  PROVE  AllAccounted'
<1> DEFINE x == run[r]
<1>1. x \in RunStates /\ Accounts(config[r], x, Held(r))
  BY DEF IInv, TypeOK, AllAccounted
<1>2. UNCHANGED <<config, armed>>
  BY DEF AutoDeleteChaos, AutoRestore, AutoWaitForImages, AfterCleanup, cluster
<1>3. \A s \in Procs : Held(s)' = Held(s)
  BY <1>2, SameHeld
<1>4. CASE AutoDeleteChaos(r)
  <2> PICK code \in {"zero", "nonzero", "raised"} :
           Set(r, [x EXCEPT !.pc = "autoImages", !.chaosCode = code, !.cleanupErr = @ \/ code = "raised"])
    BY <1>4 DEF AutoDeleteChaos
  <2> DEFINE failed == x.cleanupErr \/ code = "raised"
             y == [x EXCEPT !.pc = "autoImages", !.chaosCode = code, !.cleanupErr = failed]
  <2>1. x.pc = "autoChaos" /\ failed \in BOOLEAN /\ (x.cleanupErr => failed)
    BY <1>1, <1>4 DEF AutoDeleteChaos, RunStates
  <2>2. Accounts(config[r], y, Held(r))
    <3> HIDE DEF failed
    <3> QED BY <1>1, <2>1 DEF Accounts, Marked, LoopsFresh, MarksKept, RunStates, WriteStages, Swept
  <2>3. Set(r, y)
    OBVIOUS
  <2> HIDE DEF y
  <2> QED BY <1>2, <1>3, <2>2, <2>3, OneMoves
<1>5. CASE AutoRestore(r) \/ AutoWaitForImages(r)
  <2>1. x.pc \in {"autoImages", "autoRollout"}
    BY <1>5 DEF AutoRestore, AutoWaitForImages
  <2>2. /\ Accounts(config[r], [x EXCEPT !.pc = "after"], Held(r))
        /\ Accounts(config[r], [x EXCEPT !.pc = "autoRollout"], Held(r))
        /\ Accounts(config[r], [x EXCEPT !.pc = "after", !.cleanupErr = TRUE], Held(r))
    BY <1>1, <2>1 DEF Accounts, Marked, LoopsFresh, MarksKept, RunStates, WriteStages, Swept
  <2>3. \/ Set(r, [x EXCEPT !.pc = "after"]) \/ Set(r, [x EXCEPT !.pc = "autoRollout"])
        \/ Set(r, [x EXCEPT !.pc = "after", !.cleanupErr = TRUE])
    BY <1>5 DEF AutoRestore, AutoWaitForImages, Goto
  <2> QED BY <1>2, <1>3, <2>2, <2>3, OneMoves
<1>6. CASE AfterCleanup(r)
  <2> PICK e \in BOOLEAN :
           Set(r, [x EXCEPT !.cleanupErr = @ \/ e, !.pc = IF x.unwinding THEN "dead" ELSE "record"])
    BY <1>6 DEF AfterCleanup
  <2> DEFINE next == IF x.unwinding THEN "dead" ELSE "record"
             failed == x.cleanupErr \/ e
             y == [x EXCEPT !.cleanupErr = failed, !.pc = next]
  <2>1. /\ x.pc = "after" /\ failed \in BOOLEAN /\ (x.cleanupErr => failed)
        /\ next = "dead" \/ (next = "record" /\ ~x.unwinding)
    BY <1>1, <1>6 DEF AfterCleanup, RunStates
  <2>2. Accounts(config[r], y, Held(r))
    <3> HIDE DEF failed, next
    <3> QED BY <1>1, <2>1 DEF Accounts, Marked, LoopsFresh, MarksKept, RunStates, WriteStages, Swept
  <2>3. Set(r, y)
    OBVIOUS
  <2> HIDE DEF y
  <2> QED BY <1>2, <1>3, <2>2, <2>3, OneMoves
<1> QED BY <1>4, <1>5, <1>6

\* and that is still so while it writes its evidence, or dies.
LEMMA AccountsWrites ==
  ASSUME IInv, NEW r \in Procs,
         WriteRecord(r) \/ WritePromotion(r) \/ ImportRecord(r) \/ WriteManifest(r) \/ WriteIndex(r)
         \/ Crash(r)
  PROVE  AllAccounted'
<1> DEFINE x == run[r]
<1>1. x \in RunStates /\ Accounts(config[r], x, Held(r))
  BY DEF IInv, TypeOK, AllAccounted
<1>2. UNCHANGED <<config, armed>>
  BY DEF WriteRecord, WritePromotion, ImportRecord, WriteManifest, WriteIndex, Crash, cluster
<1>3. \A s \in Procs : Held(s)' = Held(s)
  BY <1>2, SameHeld
<1>4. CASE WriteRecord(r)
  <2> DEFINE err == IF x.cleanupErr /\ x.error = "none" THEN "cleanup" ELSE x.error
             next == IF x.verdict = "RED" THEN "promote" ELSE "import"
             y == [x EXCEPT !.error = err, !.pc = next]
  <2>1. /\ x.pc = "record" /\ next \in {"promote", "import"}
        /\ x.error = "run" <=> err = "run"
        /\ x.cleanupErr => err # "none"
    BY <1>1, <1>4 DEF WriteRecord, RunStates
  <2>2. Accounts(config[r], y, Held(r))
    <3> HIDE DEF err, next
    <3> QED BY <1>1, <2>1 DEF Accounts, Marked, LoopsFresh, MarksKept, RunStates, WriteStages, Swept
  <2>3. Set(r, y)
    BY <1>4 DEF WriteRecord
  <2> HIDE DEF y
  <2> QED BY <1>2, <1>3, <2>2, <2>3, OneMoves
<1>5. CASE ImportRecord(r)
  <2>1. \A i : Accounts(config[r], [x EXCEPT !.pc = "manifest", !.imported = i], Held(r))
    BY <1>1, <1>5 DEF ImportRecord, Accounts, Marked, LoopsFresh, MarksKept, RunStates, WriteStages, Swept
  <2>2. \E i : Set(r, [x EXCEPT !.pc = "manifest", !.imported = i])
    BY <1>5 DEF ImportRecord
  <2> QED BY <1>2, <1>3, <2>1, <2>2, OneMoves
<1>6. CASE WritePromotion(r) \/ WriteManifest(r) \/ WriteIndex(r)
  <2>1. \/ x.pc = "promote" /\ Set(r, [x EXCEPT !.pc = "import"])
        \/ x.pc = "manifest" /\ Set(r, [x EXCEPT !.pc = "index"])
        \/ x.pc = "index" /\ Set(r, [x EXCEPT !.pc = "done"])
    BY <1>6 DEF WritePromotion, WriteManifest, WriteIndex, Goto
  <2>2. ASSUME NEW s \in {"import", "index", "done"}, x.pc \in {"promote", "manifest", "index"}
        PROVE  Accounts(config[r], [x EXCEPT !.pc = s], Held(r))
    BY <1>1, <2>2 DEF Accounts, Marked, LoopsFresh, MarksKept, RunStates, WriteStages, Swept
  <2> QED BY <1>2, <1>3, <2>1, <2>2, OneMoves
<1>7. CASE Crash(r)
  <2>1. Accounts(config[r], [x EXCEPT !.pc = "dead"], Held(r))
    BY <1>1 DEF Accounts, Marked, LoopsFresh, MarksKept, RunStates, WriteStages, Swept
  <2> QED BY <1>2, <1>3, <1>7, <2>1, OneMoves DEF Crash, Goto
<1> QED BY <1>4, <1>5, <1>6, <1>7

\* What others do to the cluster only takes failpoints away.
LEMMA AccountsOthers ==
  ASSUME IInv, (\E r \in Procs : Rescue(r)) \/ (\E c \in Components : Rollout(c))
  PROVE  AllAccounted'
<1>1. UNCHANGED <<config, run>>
  BY DEF Rescue, BeginRescue, RescueFailpoint, RescueChaos, Rollout, cluster
<1>2. \A s \in Procs : Held(s)' \subseteq Held(s)
  <2>1. CASE UNCHANGED armed
    BY <2>1, SameHeld
  <2>2. ASSUME NEW r \in Procs, RescueFailpoint(r)
        PROVE  \A s \in Procs : Held(s)' \subseteq Held(s)
    <3> PICK p \in ArmPoints(config[r]) : Disarmed(p) \/ UNCHANGED armed
      BY <2>2 DEF RescueFailpoint, Unanswered
    <3>1. p \in Points
      BY ArmPointsType DEF IInv
    <3> QED BY <3>1, DisarmedHeld, SameHeld DEF IInv
  <2>3. ASSUME NEW c \in Components, Rollout(c)
        PROVE  \A s \in Procs : Held(s)' \subseteq Held(s)
    BY <2>3, ConstantsAssumption DEF Rollout, Held, IInv, TypeOK
  <2> QED BY <2>1, <2>2, <2>3 DEF Rescue, BeginRescue, RescueChaos, cluster
<1> QED BY <1>1, <1>2, NoneMoves
-----------------------------------------------------------------------------
(* The theorems *)

\* The account of every run is kept by every step of every actor.
LEMMA IInvStep == IInv /\ [Next]_vars => IInv'
<1> SUFFICES ASSUME IInv, [Next]_vars PROVE IInv'
  OBVIOUS
<1>1. TypeOK'
  BY TypeStep DEF IInv
<1>2. ASSUME NEW r \in Procs, Step(r) PROVE AllAccounted'
  BY <1>2, AccountsTry, AccountsFaults, AccountsImages, AccountsCleanup, AccountsRestore, AccountsWrites
     DEF Step
<1>3. ASSUME UNCHANGED vars PROVE AllAccounted'
  <2>1. UNCHANGED <<config, run>> /\ \A s \in Procs : Held(s)' \subseteq Held(s)
    BY <1>3, SameHeld DEF vars
  <2> QED BY <2>1, NoneMoves
<1>4. AllAccounted'
  BY <1>2, <1>3, AccountsWrites, AccountsOthers DEF Next
<1> QED BY <1>1, <1>4 DEF IInv

\* In every state of every run: a failpoint it holds is in its list and ahead of the
\* cleanup loop, or a request about it was not answered, and the run has a mark of failure.
THEOREM Accounted == Spec => []IInv
<1>1. Init => IInv
  BY TypeInit, AccountsInit DEF IInv
<1> QED BY <1>1, IInvStep, PTL DEF Spec

\* A run that reports ok with automatic cleanup left no failpoint armed, for
\* any number of concurrent runs and under every failure.
THEOREM OkMeansDisarmedHolds == Spec => []OkMeansDisarmed
<1>1. IInv => OkMeansDisarmed
  <2> SUFFICES ASSUME IInv, NEW r \in Procs, Ok(r), config[r].auto_cleanup, NEW p \in Points, armed[p] = r
               PROVE  FALSE
    BY DEF OkMeansDisarmed
  <2>1. Accounts(config[r], run[r], Held(r)) /\ p \in Held(r)
    BY DEF IInv, AllAccounted, Held
  <2>2. Marked(run[r])
    BY <2>1 DEF Accounts, Ok, Swept
  <2> QED BY <2>1, <2>2 DEF Accounts, MarksKept, Marked, Ok, WriteStages
<1> QED BY <1>1, Accounted, PTL

\* After the loop of an automatic cleanup a failpoint of the run is still armed
\* only where a request about it was not answered, whatever ended the workload, and
\* the run reports it: for any number of concurrent runs and under every failure.
THEOREM LeaksAreReportedHolds == Spec => []LeaksAreReported
<1>1. IInv => LeaksAreReported
  <2> SUFFICES ASSUME IInv, NEW r \in Procs, NEW p \in Points, config[r].auto_cleanup, armed[p] = r,
                      run[r].pc \in Swept
               PROVE  /\ p \in run[r].unanswered
                      /\ run[r].cleanupErr \/ run[r].error # "none" \/ run[r].unwinding
    BY DEF LeaksAreReported, Swept
  <2>1. Accounts(config[r], run[r], Held(r)) /\ p \in Held(r)
    BY DEF IInv, AllAccounted, Held
  <2>2. p \in run[r].unanswered /\ Marked(run[r]) /\ run[r].pc # "dead"
    BY <2>1 DEF Accounts, Swept, WriteStages
  <2> QED BY <2>2 DEF Marked
<1> QED BY <1>1, Accounted, PTL
-----------------------------------------------------------------------------
(* The control plane implements FaultCustody, for every set of runs,       *)
(* failpoints and configs: the initial states map to the initial state,    *)
(* and every step under the inductive invariant maps to a step of the      *)
(* abstract specification or to a stutter.                                 *)

phase == [r \in Procs |-> PhaseOf(config[r], run[r])]

\* A move of one run moves its phase and no other.
LEMMA PhaseMoves ==
  ASSUME TypeOK, NEW r \in Procs, NEW x, Set(r, x), UNCHANGED config
  PROVE  phase' = [phase EXCEPT ![r] = PhaseOf(config[r], x)]
<1>1. run' = [run EXCEPT ![r] = x] /\ run \in [Procs -> RunStates]
  BY DEF Set, TypeOK
<1>2. \A s \in Procs : PhaseOf(config'[s], run'[s]) =
                         IF s = r THEN PhaseOf(config[r], x) ELSE PhaseOf(config[s], run[s])
  BY <1>1
<1> QED BY <1>2 DEF phase

OpenStages == TryStages \cup CleanStages \cup WriteStages

\* A run between its gate and its record may take failpoints.
LEMMA OpenPhase ==
  ASSUME NEW c, NEW x, x.pc \in OpenStages
  PROVE  PhaseOf(c, x) = "open"
  BY DEF OpenStages, PhaseOf, TryStages, CleanStages, WriteStages

\* A run that stays in the open stages keeps its phase.
LEMMA StaysOpen ==
  ASSUME TypeOK, NEW r \in Procs, NEW x, Set(r, x), UNCHANGED config,
         run[r].pc \in OpenStages, x.pc \in OpenStages
  PROVE  phase' = phase /\ phase[r] = "open"
<1>1. PhaseOf(config[r], run[r]) = "open" /\ PhaseOf(config[r], x) = "open"
  BY OpenPhase
<1>2. phase' = [phase EXCEPT ![r] = "open"] /\ phase[r] = "open"
  BY <1>1, PhaseMoves DEF phase
<1>3. phase = [s \in Procs |-> phase[s]]
  BY DEF phase
<1> QED BY <1>2, <1>3

\* A failure does not end that.
LEMMA FailStaysOpen ==
  ASSUME TypeOK, NEW r \in Procs, NEW x \in RunStates, Fail(r) \/ FailFrom(r, x),
         UNCHANGED config, run[r].pc \in OpenStages
  PROVE  phase' = phase /\ phase[r] = "open"
<1>1. run[r] \in RunStates
  BY DEF TypeOK
<1>2. \A y \in RunStates : Raised(y).pc \in OpenStages /\ Interrupted(y).pc \in OpenStages
  BY DEF Raised, Interrupted, Left, RunStates, OpenStages, CleanStages
<1> QED BY <1>1, <1>2, StaysOpen DEF Fail, FailFrom

\* Starting the next action, or the next pod of one, keeps the stage.
LEMMA SameStage ==
  ASSUME NEW x \in RunStates
  PROVE  /\ Advanced(x).pc = x.pc
         /\ \A p : Served(x, p).pc = x.pc /\ Served(Recorded(x, p), p).pc = x.pc
         /\ \A p : Served([x EXCEPT !.active = @ \ {p}], p).pc = x.pc
  BY DEF Advanced, Served, Recorded, RunStates
-----------------------------------------------------------------------------
(* Every action maps to an abstract step *)

\* A step that leaves the failpoints alone and keeps the run open stutters.
LEMMA QuietSteps ==
  ASSUME TypeOK, NEW r \in Procs,
         \/ Preflight(r) \/ Work(r) \/ ApplyChaos(r) \/ DeleteChaos(r)
         \/ CaptureImages(r) \/ PatchImages(r) \/ WaitForImages(r)
         \/ PhasesDone(r) \/ EvaluateOracle(r) \/ PreCleanup(r) \/ CleanupPhaseDone(r)
         \/ ClearActive(r) \/ AutoDeleteChaos(r) \/ AutoRestore(r) \/ AutoWaitForImages(r)
         \/ WriteRecord(r) \/ WritePromotion(r) \/ ImportRecord(r) \/ WriteManifest(r)
  PROVE  UNCHANGED Custody!vars
<1> DEFINE x == run[r]
<1>1. x \in RunStates
  BY DEF TypeOK
<1>2. UNCHANGED <<config, armed>> /\ x.pc \in OpenStages
  BY DEF Preflight, Work, ApplyChaos, DeleteChaos, CaptureImages, PatchImages, WaitForImages,
         PhasesDone, EvaluateOracle, PreCleanup, CleanupPhaseDone, ClearActive, AutoDeleteChaos,
         AutoRestore, AutoWaitForImages, WriteRecord, WritePromotion, ImportRecord, WriteManifest,
         Executing, cluster, OpenStages, TryStages, CleanStages, WriteStages
<1>3. SUFFICES phase' = phase
  BY <1>2 DEF Custody!vars, phase
<1>4. CASE Fail(r)
  BY <1>1, <1>2, <1>4, FailStaysOpen
<1>5. \A y : Set(r, y) /\ y.pc \in OpenStages => phase' = phase
  BY <1>2, StaysOpen
<1>6. CASE Set(r, Advanced(x))
  BY <1>1, <1>2, <1>5, <1>6, SameStage
<1>7. ASSUME NEW s \in OpenStages, Goto(r, s) PROVE phase' = phase
  <2>1. [x EXCEPT !.pc = s].pc = s
    BY <1>1 DEF RunStates
  <2> QED BY <1>5, <1>7, <2>1 DEF Goto
<1>8. CASE Preflight(r)
  <2> DEFINE todo == ActionsFor(config[r], "prepare") \o ActionsFor(config[r], "arm")
                       \o ActionsFor(config[r], "workload") \o ActionsFor(config[r], "observe")
             y == [x EXCEPT !.pc = "main", !.queue = todo]
  <2>1. Set(r, y) \/ Fail(r)
    BY <1>8 DEF Preflight
  <2>2. y.pc = "main"
    BY <1>1 DEF RunStates
  <2> QED BY <1>4, <1>5, <2>1, <2>2 DEF OpenStages, TryStages
<1>9. CASE CaptureImages(r) \/ PatchImages(r)
  <2>1. /\ [x EXCEPT !.stage = "patch", !.original = Snapshot(x)].pc = x.pc
        /\ [x EXCEPT !.stage = "rollout"].pc = x.pc
    BY <1>1 DEF RunStates
  <2> QED BY <1>2, <1>4, <1>5, <1>9, <2>1 DEF CaptureImages, PatchImages
<1>10. CASE EvaluateOracle(r)
  <2>1. \A v : [x EXCEPT !.pc = "final", !.verdict = v].pc = "final"
    BY <1>1 DEF RunStates
  <2>2. Fail(r) \/ \E v : Set(r, [x EXCEPT !.pc = "final", !.verdict = v])
    BY <1>10 DEF EvaluateOracle
  <2> QED BY <1>4, <1>5, <2>1, <2>2 DEF OpenStages, CleanStages
<1>11. CASE PreCleanup(r)
  <2> PICK e \in BOOLEAN :
           Set(r, [x EXCEPT !.cleanupErr = @ \/ e,
                     !.pc = IF config[r].auto_cleanup THEN "cleanup" ELSE "after",
                     !.queue = IF config[r].auto_cleanup THEN ActionsFor(config[r], "cleanup") ELSE <<>>])
    BY <1>11 DEF PreCleanup
  <2> DEFINE todo == IF config[r].auto_cleanup THEN ActionsFor(config[r], "cleanup") ELSE <<>>
             next == IF config[r].auto_cleanup THEN "cleanup" ELSE "after"
             failed == x.cleanupErr \/ e
             y == [x EXCEPT !.cleanupErr = failed, !.pc = next, !.queue = todo]
  <2>1. Set(r, y) /\ next \in OpenStages
    BY DEF OpenStages, CleanStages
  <2>2. y.pc = next
    <3> HIDE DEF todo, next, failed
    <3> QED BY <1>1 DEF RunStates
  <2> HIDE DEF next, y
  <2> QED BY <1>5, <2>1, <2>2
<1>12. CASE ClearActive(r)
  <2> DEFINE next == IF config[r].cluster THEN "autoChaos" ELSE "after"
             y == [x EXCEPT !.active = {}, !.done = {}, !.pc = next]
  <2>1. Set(r, y) /\ next \in OpenStages
    BY <1>12 DEF ClearActive, OpenStages, CleanStages
  <2>2. y.pc = next
    <3> HIDE DEF next
    <3> QED BY <1>1 DEF RunStates
  <2> HIDE DEF next, y
  <2> QED BY <1>5, <2>1, <2>2
<1>13. CASE AutoDeleteChaos(r)
  <2> PICK code \in {"zero", "nonzero", "raised"} :
           Set(r, [x EXCEPT !.pc = "autoImages", !.chaosCode = code, !.cleanupErr = @ \/ code = "raised"])
    BY <1>13 DEF AutoDeleteChaos
  <2> DEFINE failed == x.cleanupErr \/ code = "raised"
             y == [x EXCEPT !.pc = "autoImages", !.chaosCode = code, !.cleanupErr = failed]
  <2>1. Set(r, y)
    OBVIOUS
  <2>2. y.pc = "autoImages"
    <3> HIDE DEF failed
    <3> QED BY <1>1 DEF RunStates
  <2> HIDE DEF y
  <2> QED BY <1>5, <2>1, <2>2 DEF OpenStages, CleanStages
<1>14. CASE AutoRestore(r) \/ AutoWaitForImages(r)
  <2>1. [x EXCEPT !.pc = "after", !.cleanupErr = TRUE].pc = "after"
    BY <1>1 DEF RunStates
  <2>2. {"after", "autoRollout"} \subseteq OpenStages
    BY DEF OpenStages, CleanStages
  <2> QED BY <1>5, <1>7, <1>14, <2>1, <2>2 DEF AutoRestore, AutoWaitForImages
<1>15. CASE WriteRecord(r)
  <2> DEFINE err == IF x.cleanupErr /\ x.error = "none" THEN "cleanup" ELSE x.error
             next == IF x.verdict = "RED" THEN "promote" ELSE "import"
             y == [x EXCEPT !.error = err, !.pc = next]
  <2>1. Set(r, y) /\ next \in OpenStages
    BY <1>15 DEF WriteRecord, OpenStages, WriteStages
  <2>2. y.pc = next
    <3> HIDE DEF err, next
    <3> QED BY <1>1 DEF RunStates
  <2> HIDE DEF next, y
  <2> QED BY <1>5, <2>1, <2>2
<1>16. CASE ImportRecord(r)
  <2>1. \A i : [x EXCEPT !.pc = "manifest", !.imported = i].pc = "manifest"
    BY <1>1 DEF RunStates
  <2>2. \E i : Set(r, [x EXCEPT !.pc = "manifest", !.imported = i])
    BY <1>16 DEF ImportRecord
  <2> QED BY <1>5, <2>1, <2>2 DEF OpenStages, WriteStages
<1>17. CASE PhasesDone(r) \/ CleanupPhaseDone(r) \/ WritePromotion(r) \/ WriteManifest(r)
  <2>1. {"oracle", "auto", "after", "import", "index"} \subseteq OpenStages
    BY DEF OpenStages, TryStages, CleanStages, WriteStages
  <2> QED BY <1>7, <1>17, <2>1 DEF PhasesDone, CleanupPhaseDone, WritePromotion, WriteManifest
<1>18. CASE Work(r) \/ ApplyChaos(r) \/ DeleteChaos(r) \/ WaitForImages(r)
  BY <1>4, <1>6, <1>18 DEF Work, ApplyChaos, DeleteChaos, WaitForImages
<1> QED BY <1>8, <1>9, <1>10, <1>11, <1>12, <1>13, <1>14, <1>15, <1>16, <1>17, <1>18

\* What an instance's step is, with the substitution spelled out.
LEMMA LiftIs ==
  ASSUME TypeOK, NEW S \in SUBSET Points, phase' = phase,
         armed' = [p \in Points |-> IF p \in S THEN Nil ELSE armed[p]]
  PROVE  Custody!Next
  BY DEF Custody!Next, Custody!Lift, phase

\* A step that arms a point is a take of the custody,
LEMMA TakeIs ==
  ASSUME TypeOK, NEW r \in Procs, NEW p \in Points, phase[r] = "open", phase' = phase, Armed(p, r)
  PROVE  Custody!Next
  BY DEF Custody!Next, Custody!Take, Armed, phase

\* one that passes the gate opens,
LEMMA OpenIs ==
  ASSUME TypeOK, NEW r \in Procs, phase[r] = "new", phase' = [phase EXCEPT ![r] = "open"], UNCHANGED armed
  PROVE  Custody!Next
  BY DEF Custody!Next, Custody!Open, phase

\* and one that leaves the cleanup closes, clean only with nothing held.
LEMMA CloseIs ==
  ASSUME TypeOK, NEW r \in Procs, NEW end \in {"clean", "ended"}, phase[r] = "open",
         end = "clean" => Held(r) = {}, phase' = [phase EXCEPT ![r] = end], UNCHANGED armed
  PROVE  Custody!Next
<1>1. end = "clean" => \A p \in Points : armed[p] # r
  BY DEF Held
<1> QED BY <1>1 DEF Custody!Next, Custody!Close, phase

\* A lifted failpoint, or a request that did nothing.
LEMMA DisarmedIs ==
  ASSUME TypeOK, NEW p \in Points, phase' = phase, Disarmed(p) \/ UNCHANGED armed
  PROVE  Custody!Next
<1>1. armed = [q \in Points |-> armed[q]]
  BY DEF TypeOK
<1>2. CASE Disarmed(p)
  <2>1. armed' = [q \in Points |-> IF q \in {p} THEN Nil ELSE armed[q]]
    BY <1>1, <1>2 DEF Disarmed
  <2> QED BY <2>1, LiftIs
<1>3. CASE UNCHANGED armed
  <2> DEFINE none == {q \in Points : FALSE}
  <2>1. none \in SUBSET Points /\ armed' = [q \in Points |-> IF q \in none THEN Nil ELSE armed[q]]
    BY <1>1, <1>3
  <2> HIDE DEF none
  <2> QED BY <2>1, LiftIs
<1> QED BY <1>2, <1>3

\* Arming takes, disarming lifts.
LEMMA FaultSteps ==
  ASSUME TypeOK, NEW r \in Procs, ArmFailpoint(r) \/ DisarmFailpoint(r) \/ AutoDisarm(r)
  PROVE  Custody!Next
<1> DEFINE x == run[r]
<1>1. x \in RunStates
  BY DEF TypeOK
<1>2. UNCHANGED config /\ x.pc \in OpenStages
  BY DEF ArmFailpoint, DisarmFailpoint, AutoDisarm, Executing, OpenStages, TryStages, CleanStages
<1>3. CASE ArmFailpoint(r)
  <2> PICK p \in Head(x.queue).points \ x.done :
           \/ Armed(p, r) /\ Set(r, Served(Recorded(x, p), p))
           \/ Unanswered(Armed(p, r), UNCHANGED armed) /\ FailFrom(r, Missed(x, p))
    BY <1>3 DEF ArmFailpoint
  <2>1. p \in Points
    BY <1>3, HeadType DEF ArmFailpoint, Executing
  <2>2. phase' = phase /\ phase[r] = "open"
    BY <1>1, <1>2, <2>1, SameStage, StaysOpen, FailStaysOpen, MissedType
  <2> QED BY <2>1, <2>2, TakeIs, DisarmedIs DEF Unanswered
<1>4. CASE DisarmFailpoint(r)
  <2> PICK p \in Head(x.queue).points \ x.done :
           \/ Disarmed(p) /\ Set(r, Served([x EXCEPT !.active = @ \ {p}], p))
           \/ Unanswered(Disarmed(p), UNCHANGED armed) /\ Fail(r)
    BY <1>4 DEF DisarmFailpoint
  <2>1. p \in Points
    BY <1>4, HeadType DEF DisarmFailpoint, Executing
  <2> DEFINE y == Served([x EXCEPT !.active = @ \ {p}], p)
  <2>2. y.pc = x.pc
    BY <1>1, SameStage
  <2>3. Set(r, y) \/ Fail(r)
    OBVIOUS
  <2>4. phase' = phase
    <3> HIDE DEF y
    <3> QED BY <1>1, <1>2, <2>2, <2>3, StaysOpen, FailStaysOpen
  <2> QED BY <2>1, <2>4, DisarmedIs DEF Unanswered
<1>5. CASE AutoDisarm(r)
  <2> PICK p \in x.active \ x.done :
           \/ Disarmed(p) /\ Set(r, [x EXCEPT !.done = @ \cup {p}])
           \/ /\ Unanswered(Disarmed(p), UNCHANGED armed)
              /\ Set(r, [x EXCEPT !.done = @ \cup {p}, !.unanswered = @ \cup {p}, !.cleanupErr = TRUE])
    BY <1>5 DEF AutoDisarm, Tracked
  <2>1. p \in Points
    BY <1>1 DEF RunStates
  <2>2. /\ [x EXCEPT !.done = @ \cup {p}].pc = x.pc
        /\ [x EXCEPT !.done = @ \cup {p}, !.unanswered = @ \cup {p}, !.cleanupErr = TRUE].pc = x.pc
    BY <1>1 DEF RunStates
  <2>3. phase' = phase
    BY <1>2, <2>2, StaysOpen
  <2> QED BY <2>1, <2>3, DisarmedIs DEF Unanswered
<1> QED BY <1>3, <1>4, <1>5

\* A run opens, closes clean with nothing held, or ends without a promise.
LEMMA EndSteps ==
  ASSUME IInv, NEW r \in Procs, Start(r) \/ AfterCleanup(r) \/ WriteIndex(r) \/ Crash(r)
  PROVE  Custody!Next \/ UNCHANGED Custody!vars
<1> DEFINE x == run[r]
<1>1. x \in RunStates /\ TypeOK
  BY DEF IInv, TypeOK
<1>2. UNCHANGED <<config, armed>>
  BY DEF Start, AfterCleanup, WriteIndex, Crash, cluster
<1>3. ASSUME NEW s \in Stages, Goto(r, s)
      PROVE  phase' = [phase EXCEPT ![r] = PhaseOf(config[r], [x EXCEPT !.pc = s])]
  BY <1>1, <1>2, <1>3, PhaseMoves DEF Goto
<1>4. phase[r] = PhaseOf(config[r], x) /\ phase = [s \in Procs |-> phase[s]]
  BY DEF phase
<1>5. CASE Start(r)
  <2>1. phase[r] = "new"
    BY <1>4, <1>5 DEF Start, PhaseOf
  <2>2. /\ PhaseOf(config[r], [x EXCEPT !.pc = "preflight"]) = "open"
        /\ PhaseOf(config[r], [x EXCEPT !.pc = "refused"]) = "new"
    BY <1>1 DEF PhaseOf, RunStates
  <2>3. Goto(r, "preflight") \/ Goto(r, "refused")
    BY <1>5 DEF Start
  <2>4. phase' = [phase EXCEPT ![r] = "open"] \/ phase' = [phase EXCEPT ![r] = "new"]
    BY <1>3, <2>2, <2>3 DEF Stages, TryStages, Terminal
  <2>5. phase' = [phase EXCEPT ![r] = "open"] \/ phase' = phase
    BY <1>4, <2>1, <2>4
  <2> QED BY <1>1, <1>2, <2>1, <2>5, OpenIs DEF Custody!vars, phase
<1>6. CASE WriteIndex(r)
  <2> DEFINE end == PhaseOf(config[r], [x EXCEPT !.pc = "done"])
  <2>1. x.pc = "index" /\ phase' = [phase EXCEPT ![r] = end]
    BY <1>3, <1>6 DEF WriteIndex, Stages, Terminal
  <2>2. phase[r] = "open"
    BY <1>4, <2>1, OpenPhase DEF OpenStages, WriteStages
  <2>3. end = "ended" \/ (end = "clean" /\ x.error = "none" /\ config[r].auto_cleanup)
    BY <1>1 DEF PhaseOf, RunStates
  <2>4. end = "clean" => Held(r) = {}
    <3>1. Accounts(config[r], x, Held(r))
      BY DEF IInv, AllAccounted
    <3> QED BY <2>1, <2>3, <3>1 DEF Accounts, Marked, MarksKept, Swept, WriteStages
  <2> HIDE DEF end
  <2> QED BY <1>1, <1>2, <2>1, <2>2, <2>3, <2>4, CloseIs
<1>7. CASE Crash(r)
  <2>1. x.pc \in OpenStages
    BY <1>1, <1>7 DEF Crash, RunStates, Stages, OpenStages
  <2>2. phase[r] = "open"
    BY <1>4, <2>1, OpenPhase
  <2>3. PhaseOf(config[r], [x EXCEPT !.pc = "dead"]) = "ended"
    BY <1>1 DEF PhaseOf, RunStates
  <2>4. phase' = [phase EXCEPT ![r] = "ended"]
    BY <1>3, <1>7, <2>3 DEF Crash, Stages, Terminal
  <2> QED BY <1>1, <1>2, <2>2, <2>4, CloseIs
<1>8. CASE AfterCleanup(r)
  <2> PICK e \in BOOLEAN :
           Set(r, [x EXCEPT !.cleanupErr = @ \/ e, !.pc = IF x.unwinding THEN "dead" ELSE "record"])
    BY <1>8 DEF AfterCleanup
  <2> DEFINE next == IF x.unwinding THEN "dead" ELSE "record"
             failed == x.cleanupErr \/ e
             y == [x EXCEPT !.cleanupErr = failed, !.pc = next]
  <2>1. Set(r, y) /\ next \in {"dead", "record"}
    OBVIOUS
  <2>2. y.pc = next
    <3> HIDE DEF next, failed
    <3> QED BY <1>1 DEF RunStates
  <2>3. phase[r] = "open"
    BY <1>4, <1>8, OpenPhase DEF AfterCleanup, OpenStages, CleanStages
  <2>4. PhaseOf(config[r], y) \in {"open", "ended"}
    <3> HIDE DEF y, next
    <3> QED BY <2>1, <2>2 DEF PhaseOf
  <2>5. phase' = [phase EXCEPT ![r] = PhaseOf(config[r], y)]
    <3> HIDE DEF y
    <3> QED BY <1>1, <1>2, <2>1, PhaseMoves
  <2>6. phase' = phase \/ phase' = [phase EXCEPT ![r] = "ended"]
    BY <1>4, <2>3, <2>4, <2>5
  <2> QED BY <1>1, <1>2, <2>3, <2>6, CloseIs DEF Custody!vars, phase
<1> QED BY <1>5, <1>6, <1>7, <1>8
\* Emergency cleanups and rollouts only lift.
LEMMA OtherSteps ==
  ASSUME TypeOK, (\E r \in Procs : Rescue(r)) \/ (\E c \in Components : Rollout(c))
  PROVE  Custody!Next \/ UNCHANGED Custody!vars
<1>1. phase' = phase
  <2>1. UNCHANGED <<config, run>>
    BY DEF Rescue, BeginRescue, RescueFailpoint, RescueChaos, Rollout, cluster
  <2> QED BY <2>1 DEF phase
<1>2. CASE UNCHANGED armed
  BY <1>1, <1>2 DEF Custody!vars, phase
<1>3. ASSUME NEW r \in Procs, RescueFailpoint(r)
      PROVE  Custody!Next
  <2> PICK p \in ArmPoints(config[r]) : Disarmed(p) \/ UNCHANGED armed
    BY <1>3 DEF RescueFailpoint, Unanswered
  <2> QED BY <1>1, ArmPointsType, DisarmedIs
<1>4. ASSUME NEW c \in Components, Rollout(c)
      PROVE  Custody!Next
  <2> DEFINE hosted == {p \in Points : HostOf[p] = c}
  <2>1. hosted \in SUBSET Points /\ armed' = [p \in Points |-> IF p \in hosted THEN Nil ELSE armed[p]]
    BY <1>4 DEF Rollout
  <2> HIDE DEF hosted
  <2> QED BY <1>1, <2>1, LiftIs
<1> QED BY <1>2, <1>3, <1>4 DEF Rescue, BeginRescue, RescueChaos, cluster
-----------------------------------------------------------------------------
(* The theorems *)

\* The first states are first states of the custody.
LEMMA CustodyInit == Init => Custody!Init
<1> SUFFICES ASSUME Init PROVE Custody!Init
  OBVIOUS
<1>1. \A r \in Procs : PhaseOf(config[r], run[r]) = "new"
  BY DEF Init, InitRun, PhaseOf
<1>2. [r \in Procs |-> PhaseOf(config[r], run[r])] = [r \in Procs |-> "new"]
  BY <1>1
<1> QED BY <1>2 DEF Custody!Init, Init

\* Every step is a step of the custody or leaves it alone.
LEMMA CustodyStep == IInv /\ [Next]_vars => [Custody!Next]_Custody!vars
<1> SUFFICES ASSUME IInv, [Next]_vars
             PROVE  Custody!Next \/ UNCHANGED Custody!vars
  BY DEF Custody!vars
<1>0. TypeOK
  BY DEF IInv
<1>1. ASSUME NEW r \in Procs, Step(r)
      PROVE  Custody!Next \/ UNCHANGED Custody!vars
  BY <1>0, <1>1, QuietSteps, FaultSteps, EndSteps DEF Step
<1>2. ASSUME NEW r \in Procs, Crash(r)
      PROVE  Custody!Next \/ UNCHANGED Custody!vars
  BY <1>2, EndSteps
<1>3. ASSUME UNCHANGED vars
      PROVE  UNCHANGED Custody!vars
  BY <1>3 DEF vars, Custody!vars
<1> QED BY <1>0, <1>1, <1>2, <1>3, OtherSteps DEF Next

\* Every behaviour of the control plane is a behaviour of FaultCustody, for any
\* number of concurrent runs and under every failure.
THEOREM CustodyImplemented == Spec => CustodySpec
  BY CustodyInit, CustodyStep, Accounted, PTL DEF Spec, CustodySpec, Custody!Spec

\* Who closed clean holds nothing and takes nothing.
LEMMA CleanStays ==
  ASSUME TypeOK, Custody!CleanHoldsNothing, [Custody!Next]_Custody!vars
  PROVE  Custody!CleanHoldsNothing'
<1>1. phase = [r \in Procs |-> phase[r]] /\ armed = [p \in Points |-> armed[p]] /\ Nil \notin Procs
  BY ConstantsAssumption DEF TypeOK, phase
<1>2. \A r \in Procs : phase[r] = "clean" => \A p \in Points : armed[p] # r
  BY DEF Custody!CleanHoldsNothing, phase
<1>3. SUFFICES ASSUME NEW r \in Procs, NEW p \in Points, phase'[r] = "clean"
               PROVE  armed'[p] # r
  BY DEF Custody!CleanHoldsNothing, phase
<1>4. CASE phase' = phase /\ armed' = armed
  BY <1>2, <1>3, <1>4
<1>5. ASSUME NEW s \in Procs, phase' = [phase EXCEPT ![s] = "open"], armed' = armed
      PROVE  armed'[p] # r
  BY <1>1, <1>2, <1>3, <1>5
<1>6. ASSUME NEW s \in Procs, NEW q \in Points,
             phase[s] = "open", armed' = [armed EXCEPT ![q] = s], phase' = phase
      PROVE  armed'[p] # r
  BY <1>1, <1>2, <1>3, <1>6
<1>7. ASSUME NEW s \in Procs, NEW end \in {"clean", "ended"}, end = "clean" => \A q \in Points : armed[q] # s,
             phase' = [phase EXCEPT ![s] = end], armed' = armed
      PROVE  armed'[p] # r
  BY <1>1, <1>2, <1>3, <1>7
<1>8. ASSUME NEW S, armed' = [q \in Points |-> IF q \in S THEN Nil ELSE armed[q]], phase' = phase
      PROVE  armed'[p] # r
  BY <1>1, <1>2, <1>3, <1>8
<1> QED
  BY <1>4, <1>5, <1>6, <1>7, <1>8
     DEF Custody!Next, Custody!Open, Custody!Close, Custody!Take, Custody!Lift, Custody!vars, phase

\* What the custody is for: a run that closed with a promise holds no failpoint, then
\* and for ever after, whatever the other runs arm.
THEOREM CleanHoldsNothingHolds == Spec => []Custody!CleanHoldsNothing
<1>1. Init => Custody!CleanHoldsNothing
  <2> SUFFICES ASSUME Init PROVE Custody!CleanHoldsNothing
    OBVIOUS
  <2>1. phase = [r \in Procs |-> "new"]
    BY CustodyInit DEF Custody!Init, phase
  <2>2. \A r \in Procs : phase[r] # "clean"
    BY <2>1
  <2> QED BY <2>2 DEF Custody!CleanHoldsNothing, phase
<1>2. IInv /\ Custody!CleanHoldsNothing /\ [Next]_vars => Custody!CleanHoldsNothing'
  BY CustodyStep, CleanStays DEF IInv
<1> QED BY <1>1, <1>2, Accounted, PTL DEF Spec
-----------------------------------------------------------------------------
(***************************************************************************)
(* What a run leaves behind: its bundle, the Chaos objects with its label, *)
(* the images it switched, and what an emergency cleanup may find.  Run    *)
(* keys tie them together: a bundle directory is created once, so of the   *)
(* runs that share a key one at most ever works, and a label stands for    *)
(* one process.  The proofs see a step of a run through what it may do at  *)
(* most (Works, Writes), so that every invariant is carried over a few     *)
(* kinds of steps.                                                         *)
(***************************************************************************)
HIDE DEF Phases

Opened(r) == run[r].pc \notin {"idle", "refused"}
Working == TryStages \cup CleanStages
Orders(c, kind) == \E a \in Enabled(c) : a.kind = kind

\* The stages after the automatic deletion of Chaos objects.
AfterDeletion == {"autoImages", "autoRollout", "after", "done", "dead"} \cup WriteStages

\* The actions a run still has to do are actions of its experiment.
FromPlan(c, x) == \A j \in DOMAIN x.queue : x.queue[j] \in Enabled(c)

\* The files of a bundle follow the progress of the run that made it; what a
\* dead run left is any part of them but the index.
FilesMatch(x, files) ==
  /\ "directory" \in files
  /\ "index" \in files <=> x.pc = "done"
  /\ x.pc # "dead" =>
       /\ "record" \in files <=> x.pc \in {"promote", "import", "manifest", "index", "done"}
       /\ "promotion" \in files <=> x.pc \in {"import", "manifest", "index", "done"} /\ x.verdict = "RED"
       /\ "manifest" \in files <=> x.pc \in {"index", "done"}
  /\ x.pc = "promote" => x.verdict = "RED"

BundlesMatch ==
  /\ BundleExclusive
  /\ \A r \in Procs : Opened(r) => FilesMatch(run[r], bundles[Key(r)])
  /\ \A k \in Keys : bundles[k] # {} => \E r \in Procs : Opened(r) /\ Key(r) = k

\* What a run did to the cluster is what its experiment orders, behind its gate.
Traced(r) ==
  /\ FromPlan(config[r], run[r])
  /\ Opened(r) => GateOpen(config[r])
  /\ \A p \in Points : armed[p] = r => Opened(r) /\ p \in ArmPoints(config[r])
  /\ run[r].original # Nil => Opened(r) /\ Orders(config[r], "image_switch")

\* A label is that of a run that may have applied it.
Labelled ==
  \A o \in Objects : chaos[o] # Nil =>
    \E r \in Procs : Key(r) = chaos[o] /\ Opened(r) /\ Orders(config[r], "chaos_apply")

\* The automatic deletion comes once, and what it cleared stays clear.
Cleared(r) ==
  /\ run[r].chaosCode # "none" => run[r].pc \in AfterDeletion
  /\ run[r].chaosCode = "zero" => Owned(Key(r)) = {}

\* What a late emergency cleanup has lifted stays lifted: no run of its key is left.
Rescued(r) ==
  /\ rescue[r].pc = "idle" => rescue[r].done = {}
  /\ rescue[r].late /\ rescue[r].pc \in {"points", "done"} =>
       /\ Quiet(r)
       /\ ~rescue[r].failed => \A p \in rescue[r].done : armed[p] # r
       /\ rescue[r].pc = "done" => ArmPoints(config[r]) \subseteq rescue[r].done
       /\ rescue[r].pc = "done" /\ rescue[r].code = "zero" => Owned(Key(r)) = {}

EvidenceInv ==
  /\ TypeOK
  /\ BundlesMatch
  /\ Labelled
  /\ \A r \in Procs : Traced(r) /\ Cleared(r) /\ Rescued(r)
-----------------------------------------------------------------------------
(* What a step of a run may do *)

OnlyMoves(r) == \A s \in Procs \ {r} : run'[s] = run[s]

\* What the attempts and the cleanup of a run make of its state.
Progress(c, x, y) ==
  /\ x.pc \in Working /\ y.pc \in Working \cup {"record", "dead"}
  /\ x.pc \in AfterDeletion => y.pc \in AfterDeletion
  /\ FromPlan(c, x) => FromPlan(c, y)
  /\ y.original # Nil => x.original # Nil \/ Orders(c, "image_switch")

\* What they do to the cluster: its own faults come, anybody's may go.
Touches(r) ==
  /\ \A p \in Points : armed'[p] \in {armed[p], Nil} \/ (armed'[p] = r /\ p \in ArmPoints(config[r]))
  /\ \A o \in Objects : chaos'[o] \in {chaos[o], Nil} \/ (chaos'[o] = Key(r) /\ Orders(config[r], "chaos_apply"))

Works(r) ==
  /\ UNCHANGED <<config, rescue, bundles>>
  /\ OnlyMoves(r) /\ Progress(config[r], run[r], run'[r]) /\ Touches(r)
  /\ \/ run'[r].chaosCode = run[r].chaosCode /\ run[r].pc \notin AfterDeletion
     \/ run'[r].chaosCode = run[r].chaosCode /\ \A o \in Objects : chaos'[o] \in {chaos[o], Nil}
     \/ run'[r].pc = "autoImages" /\ (run'[r].chaosCode = "zero" => Owned(Key(r))' = {})

\* A process sets its own state only.
LEMMA SetMoves ==
  ASSUME TypeOK, NEW r \in Procs, NEW x, Set(r, x)
  PROVE  run'[r] = x /\ OnlyMoves(r)
  BY DEF Set, TypeOK, OnlyMoves

\* Going on to another stage changes nothing else of it.
LEMMA GotoMoves ==
  ASSUME TypeOK, NEW r \in Procs, NEW s, Goto(r, s)
  PROVE  run'[r] = [run[r] EXCEPT !.pc = s] /\ OnlyMoves(r)
  BY SetMoves DEF Goto

\* An exception, an interrupt and the next action of a phase.
LEMMA FailProgress ==
  ASSUME NEW c, NEW x \in RunStates, x.pc \in TryStages \cup {"cleanup"}
  PROVE  /\ Progress(c, x, Raised(x)) /\ Raised(x).chaosCode = x.chaosCode
         /\ Progress(c, x, Interrupted(x)) /\ Interrupted(x).chaosCode = x.chaosCode
<1>1. \A s : FromPlan(c, Left(x, s)) /\ Left(x, s).pc = s /\ Left(x, s).original = x.original
                /\ Left(x, s).chaosCode = x.chaosCode
  BY DEF Left, FromPlan, RunStates
<1>2. x.pc \notin AfterDeletion /\ x.pc \in Working
  BY DEF AfterDeletion, TryStages, WriteStages, Working, CleanStages
<1> QED
  BY <1>1, <1>2 DEF Raised, Interrupted, Left, FromPlan, Progress, RunStates, Working, CleanStages

\* The next action is one of the plan,
LEMMA AdvanceProgress ==
  ASSUME NEW c, NEW x \in RunStates, x.pc \in {"main", "cleanup"}, x.queue # <<>>
  PROVE  /\ Progress(c, x, Advanced(x)) /\ Advanced(x).chaosCode = x.chaosCode
         /\ FromPlan(c, x) => Head(x.queue) \in Enabled(c)
<1>1. x.queue \in Seq(Actions)
  BY DEF RunStates
<1>2. /\ Tail(x.queue) \in Seq(Actions) /\ Len(Tail(x.queue)) = Len(x.queue) - 1
      /\ \A j \in 1..(Len(x.queue) - 1) : Tail(x.queue)[j] = x.queue[j + 1]
      /\ Head(x.queue) = x.queue[1] /\ Len(x.queue) \in Nat \ {0}
  BY <1>1
<1>3. FromPlan(c, x) => \A j \in DOMAIN Tail(x.queue) : Tail(x.queue)[j] \in Enabled(c)
  BY <1>1, <1>2 DEF FromPlan
<1>4. FromPlan(c, x) => Head(x.queue) \in Enabled(c)
  BY <1>1, <1>2 DEF FromPlan
<1> DEFINE rest == Tail(x.queue)
           y == [x EXCEPT !.queue = rest, !.done = {}, !.stage = "start"]
<1>5. y.queue = rest /\ y.pc = x.pc /\ y.original = x.original /\ y.chaosCode = x.chaosCode
  BY DEF RunStates
<1>6. Advanced(x) = y
  BY DEF Advanced
<1> HIDE DEF y
<1>7. Progress(c, x, y)
  BY <1>3, <1>5 DEF Progress, FromPlan, AfterDeletion, WriteStages, Working, TryStages, CleanStages
<1> QED BY <1>4, <1>5, <1>6, <1>7

\* and serving a point changes nothing the bundle is about.
LEMMA ServeProgress ==
  ASSUME NEW c, NEW x \in RunStates, x.pc \in {"main", "cleanup"}, x.queue # <<>>, NEW p
  PROVE  Progress(c, x, Served(x, p)) /\ Served(x, p).chaosCode = x.chaosCode
<1>1. /\ Progress(c, x, [x EXCEPT !.done = @ \cup {p}])
      /\ [x EXCEPT !.done = @ \cup {p}].chaosCode = x.chaosCode
  BY DEF Progress, FromPlan, AfterDeletion, WriteStages, Working, TryStages, CleanStages, RunStates
<1> QED BY <1>1, AdvanceProgress DEF Served

\* A failure of the attempt is work like any other.
LEMMA FailWorks ==
  ASSUME TypeOK, NEW r \in Procs, Fail(r) \/ \E p \in Points : FailFrom(r, Missed(run[r], p)),
         run[r].pc \in TryStages \cup {"cleanup"}, Touches(r), UNCHANGED <<config, rescue, bundles>>
  PROVE  Works(r)
<1>1. run[r] \in RunStates /\ run[r].pc \notin AfterDeletion
  BY DEF TypeOK, AfterDeletion, TryStages, WriteStages
<1>2. PICK x \in RunStates :
        /\ FailFrom(r, x) /\ x.pc = run[r].pc /\ x.queue = run[r].queue
        /\ x.original = run[r].original /\ x.chaosCode = run[r].chaosCode
  BY <1>1, MissedType DEF Fail
<1>3. OnlyMoves(r) /\ run'[r] \in {Raised(x), Interrupted(x)}
  BY <1>2, SetMoves DEF FailFrom
<1>4. Progress(config[r], x, run'[r]) /\ run'[r].chaosCode = x.chaosCode
  BY <1>2, <1>3, FailProgress
<1>5. Progress(config[r], run[r], run'[r])
  BY <1>2, <1>4 DEF Progress, FromPlan
<1> QED BY <1>1, <1>2, <1>3, <1>4, <1>5 DEF Works

\* Requests that take something away, and steps that ask for nothing.
LEMMA Untouched ==
  ASSUME UNCHANGED <<armed, chaos>>, NEW r
  PROVE  Touches(r)
  BY DEF Touches

\* A deletion by label takes labels away; answered, it leaves none of its key.
LEMMA DeletionTouches ==
  ASSUME TypeOK, NEW k, NEW code, ChaosDeleted(k, code)
  PROVE  /\ \A o \in Objects : chaos'[o] \in {chaos[o], Nil}
         /\ k # Nil /\ code = "zero" => Owned(k)' = {}
  BY DEF ChaosDeleted, Owned

\* A disarmed point is nobody's.
LEMMA DisarmTouches ==
  ASSUME TypeOK, NEW p \in Points, Disarmed(p) \/ UNCHANGED armed
  PROVE  \A q \in Points : armed'[q] \in {armed[q], Nil}
  BY DEF Disarmed, TypeOK
-----------------------------------------------------------------------------
(* Each action of the attempts and of the cleanup is such a step *)

\* The body of the try, step by step, is work;
LEMMA WorksTry ==
  ASSUME TypeOK, NEW r \in Procs, Preflight(r) \/ Work(r) \/ PhasesDone(r) \/ EvaluateOracle(r)
  PROVE  Works(r)
<1> DEFINE x == run[r]
<1>1. /\ x \in RunStates /\ UNCHANGED <<config, rescue, bundles>> /\ Touches(r)
      /\ UNCHANGED <<armed, chaos>>
  BY Untouched DEF TypeOK, Preflight, Work, PhasesDone, EvaluateOracle, cluster
<1>2. CASE Fail(r)
  <2>1. x.pc \in TryStages \cup {"cleanup"}
    BY DEF Preflight, Work, PhasesDone, EvaluateOracle, Executing, TryStages
  <2> QED BY <1>1, <1>2, <2>1, FailWorks
<1>3. CASE Preflight(r)
  <2> DEFINE c == config[r]
             todo == ActionsFor(c, "prepare") \o ActionsFor(c, "arm")
                       \o ActionsFor(c, "workload") \o ActionsFor(c, "observe")
             y == [x EXCEPT !.pc = "main", !.queue = todo]
  <2>1. x.pc = "preflight" /\ (Set(r, y) \/ Fail(r))
    BY <1>3 DEF Preflight
  <2>2. \A i \in 1..5 : /\ ActionsFor(c, Phases[i]) \in Seq(Actions)
                        /\ \A j \in DOMAIN ActionsFor(c, Phases[i]) : ActionsFor(c, Phases[i])[j] \in Enabled(c)
    BY ConfigType DEF Enabled
  <2>3. \A j \in DOMAIN todo : todo[j] \in Enabled(c)
    <3> DEFINE a == ActionsFor(c, "prepare")  b == ActionsFor(c, "arm")
               d == ActionsFor(c, "workload")  e == ActionsFor(c, "observe")
    <3>1. todo = ((a \o b) \o d) \o e
      OBVIOUS
    <3>2. /\ a \in Seq(Actions) /\ b \in Seq(Actions) /\ d \in Seq(Actions) /\ e \in Seq(Actions)
          /\ \A j \in DOMAIN a : a[j] \in Enabled(c)
          /\ \A j \in DOMAIN b : b[j] \in Enabled(c)
          /\ \A j \in DOMAIN d : d[j] \in Enabled(c)
          /\ \A j \in DOMAIN e : e[j] \in Enabled(c)
      <4>1. Phases[1] = "prepare" /\ Phases[2] = "arm" /\ Phases[3] = "workload" /\ Phases[4] = "observe"
        BY DEF Phases
      <4> QED BY <2>2, <4>1
    <3> HIDE DEF a, b, d, e
    <3>3. a \o b \in Seq(Actions) /\ \A j \in DOMAIN (a \o b) : (a \o b)[j] \in Enabled(c)
      BY <3>2
    <3> DEFINE f == a \o b
    <3> HIDE DEF f
    <3>4. f \o d \in Seq(Actions) /\ \A j \in DOMAIN (f \o d) : (f \o d)[j] \in Enabled(c)
      BY <3>2, <3>3 DEF f
    <3> DEFINE g == f \o d
    <3> HIDE DEF g
    <3>5. \A j \in DOMAIN (g \o e) : (g \o e)[j] \in Enabled(c)
      BY <3>2, <3>4 DEF g
    <3> QED BY <3>1, <3>5 DEF f, g
  <2>4. Progress(c, x, y) /\ y.chaosCode = x.chaosCode
    <3> HIDE DEF todo
    <3>1. y.queue = todo /\ y.pc = "main" /\ y.original = x.original /\ y.chaosCode = x.chaosCode
      BY <1>1 DEF RunStates
    <3> QED BY <2>1, <2>3, <3>1 DEF Progress, FromPlan, AfterDeletion, WriteStages, Working, TryStages
  <2>5. x.pc \notin AfterDeletion
    BY <2>1 DEF AfterDeletion, WriteStages
  <2> HIDE DEF y
  <2> QED BY <1>1, <1>2, <2>1, <2>4, <2>5, SetMoves DEF Works
<1>4. CASE Work(r)
  <2>1. x.pc \in {"main", "cleanup"} /\ x.queue # <<>> /\ (Set(r, Advanced(x)) \/ Fail(r))
    BY <1>4 DEF Work, Executing
  <2>2. x.pc \notin AfterDeletion
    BY <2>1 DEF AfterDeletion, WriteStages
  <2> QED BY <1>1, <1>2, <2>1, <2>2, AdvanceProgress, SetMoves DEF Works
<1>5. CASE PhasesDone(r) \/ EvaluateOracle(r)
  <2>1. /\ x.pc \in {"main", "oracle"}
        /\ Fail(r) \/ Goto(r, "oracle") \/ \E v : Set(r, [x EXCEPT !.pc = "final", !.verdict = v])
    BY <1>5 DEF PhasesDone, EvaluateOracle
  <2>2. x.pc \notin AfterDeletion
    BY <2>1 DEF AfterDeletion, WriteStages
  <2>3. ASSUME NEW y, y = [x EXCEPT !.pc = "oracle"] \/ \E v : y = [x EXCEPT !.pc = "final", !.verdict = v]
        PROVE  Progress(config[r], x, y) /\ y.chaosCode = x.chaosCode
    BY <1>1, <2>1, <2>3 DEF RunStates, Progress, FromPlan, AfterDeletion, WriteStages, Working, TryStages, CleanStages
  <2>4. Fail(r) \/ (OnlyMoves(r) /\ Progress(config[r], x, run'[r]) /\ run'[r].chaosCode = x.chaosCode)
    <3>1. ASSUME NEW y, Set(r, y), y = [x EXCEPT !.pc = "oracle"] \/ \E v : y = [x EXCEPT !.pc = "final", !.verdict = v]
          PROVE  OnlyMoves(r) /\ Progress(config[r], x, run'[r]) /\ run'[r].chaosCode = x.chaosCode
      BY <2>3, <3>1, SetMoves
    <3> QED BY <2>1, <3>1 DEF Goto
  <2> QED BY <1>1, <1>2, <2>2, <2>4 DEF Works
<1> QED BY <1>3, <1>4, <1>5

\* so are the actions on failpoints and Chaos objects,
LEMMA WorksFaults ==
  ASSUME TypeOK, NEW r \in Procs, FromPlan(config[r], run[r]),
         ArmFailpoint(r) \/ DisarmFailpoint(r) \/ ApplyChaos(r) \/ DeleteChaos(r)
  PROVE  Works(r)
<1> DEFINE x == run[r]
           a == Head(x.queue)
<1>1. /\ x \in RunStates /\ UNCHANGED <<config, rescue, bundles>>
      /\ x.pc \in {"main", "cleanup"} /\ x.queue # <<>>
  BY DEF TypeOK, ArmFailpoint, DisarmFailpoint, ApplyChaos, DeleteChaos, Executing
<1>2. x.pc \notin AfterDeletion /\ x.pc \in TryStages \cup {"cleanup"}
  BY <1>1 DEF AfterDeletion, WriteStages, TryStages
<1>3. a \in Enabled(config[r]) /\ a.points \subseteq Points /\ a.object \in Objects
  BY <1>1, AdvanceProgress, HeadType
<1>4. \A p : \A y \in RunStates :
        y.pc = x.pc /\ y.queue = x.queue /\ y.original = x.original /\ y.chaosCode = x.chaosCode =>
          Progress(config[r], x, Served(y, p)) /\ Served(y, p).chaosCode = x.chaosCode
  <2> SUFFICES ASSUME NEW p, NEW y \in RunStates, y.pc = x.pc, y.queue = x.queue,
                      y.original = x.original, y.chaosCode = x.chaosCode
               PROVE  Progress(config[r], x, Served(y, p)) /\ Served(y, p).chaosCode = x.chaosCode
    OBVIOUS
  <2>1. Progress(config[r], y, Served(y, p)) /\ Served(y, p).chaosCode = y.chaosCode
    BY <1>1, ServeProgress
  <2> QED BY <2>1 DEF Progress, FromPlan
<1>5. CASE ArmFailpoint(r)
  <2> PICK p \in a.points :
           \/ Armed(p, r) /\ Set(r, Served(Recorded(x, p), p))
           \/ Unanswered(Armed(p, r), UNCHANGED armed) /\ FailFrom(r, Missed(x, p))
    BY <1>5 DEF ArmFailpoint
  <2>1. p \in Points /\ a.kind = "failpoint_arm" /\ UNCHANGED chaos
    BY <1>3, <1>5 DEF ArmFailpoint, Executing
  <2>2. p \in ArmPoints(config[r])
    BY <1>3, <2>1 DEF ArmPoints
  <2>3. Touches(r)
    BY <2>1, <2>2 DEF Touches, Armed, Unanswered, TypeOK
  <2>4. /\ Recorded(x, p) \in RunStates /\ Recorded(x, p).pc = x.pc /\ Recorded(x, p).queue = x.queue
        /\ Recorded(x, p).original = x.original /\ Recorded(x, p).chaosCode = x.chaosCode
    BY <1>1, <2>1 DEF Recorded, RunStates
  <2>5. CASE Armed(p, r) /\ Set(r, Served(Recorded(x, p), p))
    BY <1>1, <1>2, <1>4, <2>3, <2>4, <2>5, SetMoves DEF Works
  <2>6. CASE FailFrom(r, Missed(x, p))
    BY <1>1, <1>2, <2>1, <2>3, <2>6, FailWorks
  <2> QED BY <2>5, <2>6
<1>6. CASE DisarmFailpoint(r)
  <2> PICK p \in a.points :
           \/ Disarmed(p) /\ Set(r, Served([x EXCEPT !.active = @ \ {p}], p))
           \/ Unanswered(Disarmed(p), UNCHANGED armed) /\ Fail(r)
    BY <1>6 DEF DisarmFailpoint
  <2>1. p \in Points /\ UNCHANGED chaos
    BY <1>3, <1>6 DEF DisarmFailpoint
  <2>2. Touches(r)
    BY <2>1, DisarmTouches DEF Touches, Unanswered
  <2> DEFINE y == [x EXCEPT !.active = @ \ {p}]
  <2>3. /\ y \in RunStates /\ y.pc = x.pc /\ y.queue = x.queue
        /\ y.original = x.original /\ y.chaosCode = x.chaosCode
    BY <1>1 DEF RunStates
  <2>4. Set(r, Served(y, p)) \/ Fail(r)
    OBVIOUS
  <2> HIDE DEF y
  <2> QED BY <1>1, <1>2, <1>4, <2>2, <2>3, <2>4, SetMoves, FailWorks DEF Works
<1>7. CASE ApplyChaos(r)
  <2>1. /\ a.kind = "chaos_apply" /\ UNCHANGED armed
        /\ chaos' = [chaos EXCEPT ![a.object] = Key(r)] \/ UNCHANGED chaos
        /\ Set(r, Advanced(x)) \/ Fail(r)
    BY <1>7 DEF ApplyChaos, Executing, Unanswered
  <2>2. Touches(r)
    BY <1>3, <2>1 DEF Touches, Orders, TypeOK
  <2> QED BY <1>1, <1>2, <2>1, <2>2, AdvanceProgress, SetMoves, FailWorks DEF Works
<1>8. CASE DeleteChaos(r)
  <2>1. /\ UNCHANGED armed /\ \E code : ChaosDeleted(Key(r), code)
        /\ Set(r, Advanced(x)) \/ Fail(r)
    BY <1>8 DEF DeleteChaos
  <2>2. Touches(r)
    BY <2>1, DeletionTouches DEF Touches
  <2> QED BY <1>1, <1>2, <2>1, <2>2, AdvanceProgress, SetMoves, FailWorks DEF Works
<1> QED BY <1>5, <1>6, <1>7, <1>8

\* Steps that order nothing: faults only go, the plan stays the plan.
LEMMA MoveWorks ==
  ASSUME TypeOK, NEW r \in Procs, NEW y, Set(r, y), UNCHANGED <<config, rescue, bundles>>,
         run[r].pc \in Working, y.pc \in Working \cup {"record", "dead"},
         run[r].pc \in AfterDeletion => y.pc \in AfterDeletion,
         y.queue = run[r].queue \/ FromPlan(config[r], y),
         y.original = run[r].original, y.chaosCode = run[r].chaosCode,
         \A p \in Points : armed'[p] \in {armed[p], Nil},
         \A o \in Objects : chaos'[o] \in {chaos[o], Nil}
  PROVE  Works(r)
<1>1. OnlyMoves(r) /\ run'[r] = y
  BY SetMoves
<1>2. Progress(config[r], run[r], y) /\ Touches(r)
  BY DEF Progress, FromPlan, Touches
<1> QED BY <1>1, <1>2 DEF Works

\* those on images,
LEMMA WorksImages ==
  ASSUME TypeOK, NEW r \in Procs, FromPlan(config[r], run[r]),
         CaptureImages(r) \/ PatchImages(r) \/ WaitForImages(r)
  PROVE  Works(r)
<1> DEFINE x == run[r]
<1>1. /\ x \in RunStates /\ UNCHANGED <<config, rescue, bundles>> /\ Touches(r) /\ UNCHANGED <<armed, chaos>>
      /\ x.pc \in {"main", "cleanup"} /\ x.queue # <<>> /\ Head(x.queue).kind = "image_switch"
  BY Untouched DEF TypeOK, CaptureImages, PatchImages, WaitForImages, Executing, cluster
<1>2. x.pc \notin AfterDeletion /\ x.pc \in TryStages \cup {"cleanup"} /\ x.pc \in Working
  BY <1>1 DEF AfterDeletion, WriteStages, TryStages, CleanStages, Working
<1>3. CASE Fail(r)
  BY <1>1, <1>2, <1>3, FailWorks
<1>4. CASE Set(r, [x EXCEPT !.stage = "patch", !.original = Snapshot(x)])
  <2> DEFINE y == [x EXCEPT !.stage = "patch", !.original = Snapshot(x)]
  <2>1. Orders(config[r], "image_switch")
    BY <1>1, AdvanceProgress DEF Orders
  <2>2. y.pc = x.pc /\ y.queue = x.queue /\ y.chaosCode = x.chaosCode
    BY <1>1 DEF RunStates
  <2>3. Progress(config[r], x, y)
    BY <1>2, <2>1, <2>2 DEF Progress, FromPlan
  <2>4. OnlyMoves(r) /\ run'[r] = y
    BY <1>4, SetMoves
  <2> QED BY <1>1, <1>2, <2>2, <2>3, <2>4 DEF Works
<1>5. CASE Set(r, [x EXCEPT !.stage = "rollout"])
  <2> DEFINE y == [x EXCEPT !.stage = "rollout"]
  <2>1. y.pc = x.pc /\ y.queue = x.queue /\ y.chaosCode = x.chaosCode /\ y.original = x.original
    BY <1>1 DEF RunStates
  <2> HIDE DEF y
  <2> QED BY <1>1, <1>2, <1>5, <2>1, MoveWorks DEF y
<1>6. CASE Set(r, Advanced(x))
  BY <1>1, <1>2, <1>6, AdvanceProgress, SetMoves DEF Works
<1> QED BY <1>3, <1>4, <1>5, <1>6 DEF CaptureImages, PatchImages, WaitForImages

\* the configured cleanup,
LEMMA WorksCleanup ==
  ASSUME TypeOK, NEW r \in Procs,
         PreCleanup(r) \/ CleanupPhaseDone(r) \/ AutoDisarm(r) \/ ClearActive(r)
  PROVE  Works(r)
<1> DEFINE x == run[r]
<1>1. x \in RunStates /\ UNCHANGED <<config, rescue, bundles, chaos>>
  BY DEF TypeOK, PreCleanup, CleanupPhaseDone, AutoDisarm, ClearActive, cluster
<1>2. /\ x.pc \in {"final", "cleanup", "auto"} /\ x.pc \in Working /\ x.pc \notin AfterDeletion
      /\ \A s \in {"cleanup", "after", "auto", "autoChaos"} : s \in Working
  BY DEF PreCleanup, CleanupPhaseDone, AutoDisarm, ClearActive, Working, CleanStages, TryStages, AfterDeletion, WriteStages
<1>3. CASE PreCleanup(r)
  <2> PICK e \in BOOLEAN :
           Set(r, [x EXCEPT !.cleanupErr = @ \/ e,
                    !.pc = IF config[r].auto_cleanup THEN "cleanup" ELSE "after",
                    !.queue = IF config[r].auto_cleanup THEN ActionsFor(config[r], "cleanup") ELSE <<>>])
    BY <1>3 DEF PreCleanup
  <2> DEFINE next == IF config[r].auto_cleanup THEN "cleanup" ELSE "after"
             todo == IF config[r].auto_cleanup THEN ActionsFor(config[r], "cleanup") ELSE <<>>
             failed == x.cleanupErr \/ e
             y == [x EXCEPT !.cleanupErr = failed, !.pc = next, !.queue = todo]
  <2>1. Set(r, y)
    OBVIOUS
  <2>2. next \in {"cleanup", "after"}
    OBVIOUS
  <2>3. \A j \in DOMAIN todo : todo[j] \in Enabled(config[r])
    <3>1. "cleanup" = Phases[5] /\ 5 \in 1..5
      BY DEF Phases
    <3>2. \A j \in DOMAIN ActionsFor(config[r], "cleanup") :
             ActionsFor(config[r], "cleanup")[j] \in Enabled(config[r])
      BY <3>1 DEF Enabled
    <3> QED BY <3>2
  <2> HIDE DEF next, todo, failed
  <2>4. y.pc = next /\ y.queue = todo /\ y.original = x.original /\ y.chaosCode = x.chaosCode
    BY <1>1 DEF RunStates
  <2>5. UNCHANGED armed
    BY <1>3 DEF PreCleanup, cluster
  <2> HIDE DEF y
  <2> QED BY <1>1, <1>2, <2>1, <2>2, <2>3, <2>4, <2>5, MoveWorks DEF FromPlan
<1>4. CASE CleanupPhaseDone(r) \/ ClearActive(r)
  <2>1. UNCHANGED armed
    BY <1>4 DEF CleanupPhaseDone, ClearActive, cluster
  <2>2. \E s \in {"auto", "after", "autoChaos"} :
           Set(r, [x EXCEPT !.pc = s]) \/ Set(r, [x EXCEPT !.active = {}, !.done = {}, !.pc = s])
    BY <1>4 DEF CleanupPhaseDone, ClearActive, Goto
  <2> PICK s \in {"auto", "after", "autoChaos"} :
           Set(r, [x EXCEPT !.pc = s]) \/ Set(r, [x EXCEPT !.active = {}, !.done = {}, !.pc = s])
    BY <2>2
  <2>3. ASSUME NEW y, y = [x EXCEPT !.pc = s] \/ y = [x EXCEPT !.active = {}, !.done = {}, !.pc = s]
        PROVE  y.pc = s /\ y.queue = x.queue /\ y.original = x.original /\ y.chaosCode = x.chaosCode
    BY <1>1, <2>3 DEF RunStates
  <2>4. PICK y : Set(r, y) /\ y.pc = s /\ y.queue = x.queue /\ y.original = x.original /\ y.chaosCode = x.chaosCode
    BY <2>3
  <2> QED BY <1>1, <1>2, <2>1, <2>4, MoveWorks
<1>5. CASE AutoDisarm(r)
  <2> PICK p \in x.active \ x.done :
           \/ Disarmed(p) /\ Set(r, [x EXCEPT !.done = @ \cup {p}])
           \/ /\ Unanswered(Disarmed(p), UNCHANGED armed)
              /\ Set(r, [x EXCEPT !.done = @ \cup {p}, !.unanswered = @ \cup {p}, !.cleanupErr = TRUE])
    BY <1>5 DEF AutoDisarm, Tracked
  <2>1. p \in Points
    BY <1>1 DEF RunStates
  <2>2. \A q \in Points : armed'[q] \in {armed[q], Nil}
    BY <2>1, DisarmTouches DEF Unanswered
  <2>3. ASSUME NEW y, \/ y = [x EXCEPT !.done = @ \cup {p}]
                      \/ y = [x EXCEPT !.done = @ \cup {p}, !.unanswered = @ \cup {p}, !.cleanupErr = TRUE]
        PROVE  y.pc = x.pc /\ y.queue = x.queue /\ y.original = x.original /\ y.chaosCode = x.chaosCode
    BY <1>1, <2>3 DEF RunStates
  <2>4. PICK y : Set(r, y) /\ y.pc = x.pc /\ y.queue = x.queue /\ y.original = x.original /\ y.chaosCode = x.chaosCode
    BY <2>3
  <2> QED BY <1>1, <1>2, <2>2, <2>4, MoveWorks
<1> QED BY <1>3, <1>4, <1>5

\* and the automatic one.
LEMMA WorksRestore ==
  ASSUME TypeOK, NEW r \in Procs,
         AutoDeleteChaos(r) \/ AutoRestore(r) \/ AutoWaitForImages(r) \/ AfterCleanup(r)
  PROVE  Works(r)
<1> DEFINE x == run[r]
<1>1. x \in RunStates /\ UNCHANGED <<config, rescue, bundles, armed>>
  BY DEF TypeOK, AutoDeleteChaos, AutoRestore, AutoWaitForImages, AfterCleanup, cluster
<1>2. /\ x.pc \in {"autoChaos", "autoImages", "autoRollout", "after"} /\ x.pc \in Working
      /\ \A s \in {"autoImages", "autoRollout", "after", "record", "dead"} :
            s \in Working \cup {"record", "dead"} /\ s \in AfterDeletion
  BY DEF AutoDeleteChaos, AutoRestore, AutoWaitForImages, AfterCleanup, Working, CleanStages, TryStages, AfterDeletion, WriteStages
<1>3. CASE AutoDeleteChaos(r)
  <2> PICK code \in {"zero", "nonzero", "raised"} :
           /\ ChaosDeleted(Key(r), code)
           /\ Set(r, [x EXCEPT !.pc = "autoImages", !.chaosCode = code, !.cleanupErr = @ \/ code = "raised"])
    BY <1>3 DEF AutoDeleteChaos
  <2> DEFINE failed == x.cleanupErr \/ code = "raised"
             y == [x EXCEPT !.pc = "autoImages", !.chaosCode = code, !.cleanupErr = failed]
  <2>1. Set(r, y)
    OBVIOUS
  <2> HIDE DEF failed
  <2>2. y.pc = "autoImages" /\ y.queue = x.queue /\ y.original = x.original /\ y.chaosCode = code
    BY <1>1 DEF RunStates
  <2> HIDE DEF y
  <2>3. OnlyMoves(r) /\ run'[r] = y
    BY <2>1, SetMoves
  <2>4. Progress(config[r], x, y)
    BY <1>2, <2>2 DEF Progress, FromPlan
  <2>5. Touches(r) /\ (code = "zero" => Owned(Key(r))' = {})
    <3>1. Key(r) # Nil
      BY ConfigType, ConstantsAssumption
    <3>2. Touches(r)
      BY <1>1, DeletionTouches DEF Touches
    <3>3. \A k : k = Key(r) /\ code = "zero" => Owned(k)' = {}
      BY <3>1, DeletionTouches
    <3>4. Key(r)' = Key(r)
      BY <1>1 DEF Key
    <3> QED BY <3>2, <3>3, <3>4 DEF Owned
  <2> QED BY <1>1, <2>2, <2>3, <2>4, <2>5 DEF Works
<1>4. CASE AutoRestore(r) \/ AutoWaitForImages(r) \/ AfterCleanup(r)
  <2>1. UNCHANGED chaos
    BY <1>4 DEF AutoRestore, AutoWaitForImages, AfterCleanup, cluster
  <2> PICK s : /\ s \in {"autoRollout", "after", "record", "dead"}
               /\ \/ Set(r, [x EXCEPT !.pc = s])
                  \/ \E b : Set(r, [x EXCEPT !.pc = s, !.cleanupErr = b]) \/ Set(r, [x EXCEPT !.cleanupErr = b, !.pc = s])
    BY <1>4 DEF AutoRestore, AutoWaitForImages, AfterCleanup, Goto
  <2>3. ASSUME NEW y,
               \/ y = [x EXCEPT !.pc = s]
               \/ \E b : y = [x EXCEPT !.pc = s, !.cleanupErr = b] \/ y = [x EXCEPT !.cleanupErr = b, !.pc = s]
        PROVE  y.pc = s /\ y.queue = x.queue /\ y.original = x.original /\ y.chaosCode = x.chaosCode
    BY <1>1, <2>3 DEF RunStates
  <2>4. PICK y : Set(r, y) /\ y.pc = s /\ y.queue = x.queue /\ y.original = x.original /\ y.chaosCode = x.chaosCode
    BY <2>3
  <2> QED BY <1>1, <1>2, <2>1, <2>4, MoveWorks
<1> QED BY <1>3, <1>4
-----------------------------------------------------------------------------
(* Bundles *)

\* A run that works on its own bundle disturbs no other.
LEMMA OwnBundle ==
  ASSUME TypeOK, BundlesMatch, NEW r \in Procs, Opened(r), Opened(r)', OnlyMoves(r), UNCHANGED config,
         \A k \in Keys \ {Key(r)} : bundles'[k] = bundles[k],
         FilesMatch(run'[r], bundles'[Key(r)])
  PROVE  BundlesMatch'
<1>1. \A s \in Procs : (Opened(s)' <=> Opened(s)) /\ Key(s)' = Key(s) /\ Key(s) \in Keys
  BY ConfigType DEF OnlyMoves, Opened, Key
<1>2. BundleExclusive /\ BundleExclusive'
  BY <1>1 DEF BundlesMatch, BundleExclusive, Opened
<1>3. ASSUME NEW s \in Procs, Opened(s)'
      PROVE  FilesMatch(run'[s], bundles'[Key(s)'])
  <2>1. CASE s = r
    BY <1>1, <2>1
  <2>2. CASE s # r
    <3>1. Key(s) # Key(r)
      BY <1>1, <1>2, <1>3, <2>2 DEF BundleExclusive, Opened
    <3> QED BY <1>1, <1>3, <2>2, <3>1 DEF OnlyMoves, BundlesMatch
  <2> QED BY <2>1, <2>2
<1>4. ASSUME NEW k \in Keys, bundles'[k] # {}
      PROVE  \E s \in Procs : Opened(s)' /\ Key(s)' = k
  <2>1. CASE k = Key(r)
    BY <2>1, <1>1
  <2>2. CASE k # Key(r)
    BY <1>1, <1>4, <2>2 DEF BundlesMatch
  <2> QED BY <2>1, <2>2
<1> QED BY <1>2, <1>3, <1>4 DEF BundlesMatch, FilesMatch

\* Work, or a crash, writes to no bundle.
LEMMA BundlesWork ==
  ASSUME TypeOK, BundlesMatch, NEW r \in Procs, Works(r) \/ Crash(r)
  PROVE  BundlesMatch'
<1>1. /\ UNCHANGED <<config, bundles>> /\ OnlyMoves(r) /\ Opened(r) /\ Opened(r)' /\ run[r].pc # "done"
      /\ run'[r].pc \in Working \cup {"record", "dead"}
  <2>1. CASE Works(r)
    BY <2>1 DEF Works, Progress, Working, TryStages, CleanStages, Opened
  <2>2. CASE Crash(r)
    <3>1. OnlyMoves(r) /\ run'[r] = [run[r] EXCEPT !.pc = "dead"] /\ run[r] \in RunStates
      BY <2>2, GotoMoves DEF Crash, TypeOK
    <3>2. run'[r].pc = "dead"
      BY <3>1 DEF RunStates
    <3> QED BY <2>2, <3>1, <3>2 DEF Crash, Opened, Terminal
  <2> QED BY <2>1, <2>2
<1>2. FilesMatch(run[r], bundles[Key(r)])
  BY <1>1 DEF BundlesMatch
<1>3. run[r].pc \in Working \/ run'[r].pc = "dead"
  <2>1. CASE Works(r)
    BY <2>1 DEF Works, Progress
  <2>2. CASE Crash(r)
    <3>1. run'[r] = [run[r] EXCEPT !.pc = "dead"] /\ run[r] \in RunStates
      BY <2>2, GotoMoves DEF Crash, TypeOK
    <3> QED BY <3>1 DEF RunStates
  <2> QED BY <2>1, <2>2
<1>4. FilesMatch(run'[r], bundles'[Key(r)])
  BY <1>1, <1>2, <1>3 DEF FilesMatch, Working, TryStages, CleanStages
<1> QED BY <1>1, <1>4, OwnBundle

\* The directory is made by one run of a key; the others are refused.
LEMMA BundlesStart ==
  ASSUME TypeOK, BundlesMatch, NEW r \in Procs, Start(r)
  PROVE  BundlesMatch'
<1>1. run[r] \in RunStates /\ Key(r) \in Keys /\ UNCHANGED config /\ ~Opened(r)
  BY ConfigType DEF TypeOK, Start, Opened
<1>2. OnlyMoves(r) /\ \A s \in Procs : Key(s)' = Key(s)
  BY <1>1, GotoMoves DEF Start, Key
<1>3. CASE Goto(r, "preflight") /\ MayOpen(Key(r)) /\ bundles' = [bundles EXCEPT ![Key(r)] = {"directory"}]
  <2>1. run'[r] = [run[r] EXCEPT !.pc = "preflight"]
    BY <1>3, GotoMoves
  <2>2. run'[r].pc = "preflight" /\ bundles'[Key(r)] = {"directory"}
    BY <1>1, <1>3, <2>1 DEF RunStates, TypeOK
  <2>3. ASSUME NEW s \in Procs, Opened(s), Key(s) = Key(r) PROVE FALSE
    BY <1>3, <2>3 DEF MayOpen, BundlesMatch, FilesMatch
  <2>4. \A s \in Procs \ {r} : Opened(s)' <=> Opened(s)
    BY <1>2 DEF OnlyMoves, Opened
  <2>5. BundleExclusive'
    <3> SUFFICES ASSUME NEW s \in Procs, NEW t \in Procs, Key(s) = Key(t), Opened(s)', Opened(t)'
                 PROVE  s = t
      BY <1>2 DEF BundleExclusive, Opened
    <3>1. s # r /\ t # r => Opened(s) /\ Opened(t)
      BY <2>4
    <3>2. BundleExclusive
      BY DEF BundlesMatch
    <3> QED BY <2>3, <2>4, <3>1, <3>2 DEF BundleExclusive, Opened
  <2>6. ASSUME NEW s \in Procs, Opened(s)' PROVE FilesMatch(run'[s], bundles'[Key(s)'])
    <3>1. CASE s = r
      BY <1>2, <2>2, <3>1 DEF FilesMatch
    <3>2. CASE s # r
      <4>1. Opened(s) /\ Key(s) # Key(r) /\ Key(s) \in Keys
        BY <2>3, <2>4, <2>6, <3>2, ConfigType
      <4>2. bundles'[Key(s)] = bundles[Key(s)]
        BY <1>3, <4>1 DEF TypeOK
      <4> QED BY <1>2, <3>2, <4>1, <4>2 DEF OnlyMoves, BundlesMatch
    <3> QED BY <3>1, <3>2
  <2>7. ASSUME NEW k \in Keys, bundles'[k] # {} PROVE \E s \in Procs : Opened(s)' /\ Key(s)' = k
    <3>1. CASE k = Key(r)
      BY <1>2, <2>2, <3>1 DEF Opened
    <3>2. CASE k # Key(r)
      BY <1>1, <1>2, <1>3, <2>4, <2>7, <3>2 DEF TypeOK, BundlesMatch
    <3> QED BY <3>1, <3>2
  <2> QED BY <2>5, <2>6, <2>7 DEF BundlesMatch, FilesMatch
<1>4. CASE Goto(r, "refused") /\ UNCHANGED bundles
  <2>1. run'[r] = [run[r] EXCEPT !.pc = "refused"]
    BY <1>4, GotoMoves
  <2>2. \A s \in Procs : Opened(s)' <=> Opened(s)
    BY <1>1, <1>2, <2>1 DEF OnlyMoves, Opened, RunStates
  <2>3. \A s \in Procs : Opened(s) => run'[s] = run[s]
    BY <1>1, <1>2 DEF OnlyMoves
  <2>4. BundleExclusive'
    BY <1>2, <2>2 DEF BundlesMatch, BundleExclusive, Opened
  <2>5. \A s \in Procs : Opened(s)' => FilesMatch(run'[s], bundles'[Key(s)'])
    BY <1>2, <1>4, <2>2, <2>3 DEF BundlesMatch
  <2>6. \A k \in Keys : bundles'[k] # {} => \E s \in Procs : Opened(s)' /\ Key(s)' = k
    BY <1>2, <1>4, <2>2 DEF BundlesMatch
  <2> QED BY <2>4, <2>5, <2>6 DEF BundlesMatch, FilesMatch
<1> QED BY <1>3, <1>4 DEF Start

\* Nor does a step of somebody else.
LEMMA BundlesSame ==
  ASSUME BundlesMatch, UNCHANGED <<config, run, bundles>>
  PROVE  BundlesMatch'
  BY DEF BundlesMatch, BundleExclusive, FilesMatch, Opened, Key

\* What a step that writes evidence does besides its file.
Writes(r) ==
  /\ UNCHANGED <<config, rescue, armed, chaos>> /\ OnlyMoves(r)
  /\ run[r].pc \in WriteStages /\ run'[r].pc \in WriteStages \cup {"done"}
  /\ run'[r].queue = run[r].queue /\ run'[r].original = run[r].original
  /\ run'[r].chaosCode = run[r].chaosCode

\* The writes touch the bundle of their own run only.
LEMMA WritesSteps ==
  ASSUME TypeOK, BundlesMatch, NEW r \in Procs,
         WriteRecord(r) \/ WritePromotion(r) \/ ImportRecord(r) \/ WriteManifest(r) \/ WriteIndex(r)
  PROVE  Writes(r) /\ BundlesMatch'
<1> DEFINE x == run[r]
           files == bundles[Key(r)]
<1>1. x \in RunStates /\ UNCHANGED <<config, rescue, armed, chaos>> /\ Key(r) \in Keys
  BY ConfigType DEF TypeOK, WriteRecord, WritePromotion, ImportRecord, WriteManifest, WriteIndex, cluster
<1>2. x.pc \in WriteStages /\ Opened(r)
  BY DEF WriteRecord, WritePromotion, ImportRecord, WriteManifest, WriteIndex, Opened, WriteStages
<1>3. FilesMatch(x, files)
  BY <1>2 DEF BundlesMatch
<1>4. ASSUME NEW y, NEW new, Set(r, y), bundles' = [bundles EXCEPT ![Key(r)] = new],
             y.pc \in WriteStages \cup {"done"}, y.queue = x.queue, y.original = x.original,
             y.chaosCode = x.chaosCode, FilesMatch(y, new)
      PROVE  Writes(r) /\ BundlesMatch'
  <2>1. run'[r] = y /\ OnlyMoves(r)
    BY <1>4, SetMoves
  <2>2. Writes(r)
    BY <1>1, <1>2, <1>4, <2>1 DEF Writes
  <2>3. Opened(r)'
    BY <1>4, <2>1 DEF Opened, WriteStages
  <2>4. bundles'[Key(r)] = new /\ \A k \in Keys \ {Key(r)} : bundles'[k] = bundles[k]
    BY <1>1, <1>4 DEF TypeOK
  <2> QED BY <1>1, <1>2, <1>4, <2>1, <2>2, <2>3, <2>4, OwnBundle
<1>5. bundles = [bundles EXCEPT ![Key(r)] = files]
  BY <1>1 DEF TypeOK
<1>6. CASE WriteRecord(r)
  <2> DEFINE err == IF x.cleanupErr /\ x.error = "none" THEN "cleanup" ELSE x.error
             next == IF x.verdict = "RED" THEN "promote" ELSE "import"
             y == [x EXCEPT !.error = err, !.pc = next]
  <2>1. Set(r, y) /\ bundles' = [bundles EXCEPT ![Key(r)] = files \cup {"record"}] /\ x.pc = "record"
    BY <1>6 DEF WriteRecord, Write
  <2>2. next \in {"promote", "import"} /\ (next = "promote" <=> x.verdict = "RED")
    OBVIOUS
  <2> HIDE DEF err, next
  <2>3. /\ y.pc = next /\ y.queue = x.queue /\ y.original = x.original
        /\ y.chaosCode = x.chaosCode /\ y.verdict = x.verdict
    BY <1>1 DEF RunStates
  <2> HIDE DEF y
  <2>4. FilesMatch(y, files \cup {"record"})
    BY <1>3, <2>1, <2>2, <2>3 DEF FilesMatch
  <2> QED BY <1>4, <2>1, <2>2, <2>3, <2>4 DEF WriteStages
<1>7. CASE ImportRecord(r)
  <2> PICK i : Set(r, [x EXCEPT !.pc = "manifest", !.imported = i])
    BY <1>7 DEF ImportRecord
  <2> DEFINE y == [x EXCEPT !.pc = "manifest", !.imported = i]
  <2>1. x.pc = "import" /\ bundles' = [bundles EXCEPT ![Key(r)] = files]
    BY <1>5, <1>7 DEF ImportRecord
  <2>2. /\ y.pc = "manifest" /\ y.queue = x.queue /\ y.original = x.original
        /\ y.chaosCode = x.chaosCode /\ y.verdict = x.verdict
    BY <1>1 DEF RunStates
  <2>3. Set(r, y)
    OBVIOUS
  <2> HIDE DEF y
  <2>4. FilesMatch(y, files)
    BY <1>3, <2>1, <2>2 DEF FilesMatch
  <2> QED BY <1>4, <2>1, <2>2, <2>3, <2>4 DEF WriteStages
<1>8. CASE WritePromotion(r) \/ WriteManifest(r) \/ WriteIndex(r)
  <2> PICK s, f : /\ Set(r, [x EXCEPT !.pc = s]) /\ bundles' = [bundles EXCEPT ![Key(r)] = files \cup {f}]
                  /\ \/ x.pc = "promote" /\ s = "import" /\ f = "promotion"
                     \/ x.pc = "manifest" /\ s = "index" /\ f = "manifest"
                     \/ x.pc = "index" /\ s = "done" /\ f = "index"
    BY <1>8 DEF WritePromotion, WriteManifest, WriteIndex, Write, Goto
  <2> DEFINE y == [x EXCEPT !.pc = s]
  <2>1. /\ y.pc = s /\ y.queue = x.queue /\ y.original = x.original
        /\ y.chaosCode = x.chaosCode /\ y.verdict = x.verdict
    BY <1>1 DEF RunStates
  <2>2. Set(r, y)
    OBVIOUS
  <2> HIDE DEF y
  <2>3. FilesMatch(y, files \cup {f})
    BY <1>3, <2>1 DEF FilesMatch
  <2> QED BY <1>4, <2>1, <2>2, <2>3 DEF WriteStages
<1> QED BY <1>6, <1>7, <1>8

-----------------------------------------------------------------------------
(* Labels, gates and deletions *)

\* Who is at work, and whom an operator has cleaned up.
Others == \A r \in Procs : Traced(r) /\ Cleared(r) /\ Rescued(r)

\* Work keeps the traces: what carries the label of a key was applied under it.
LEMMA WorksTraced ==
  ASSUME TypeOK, BundlesMatch, Labelled, Others, NEW r \in Procs, Works(r)
  PROVE  Labelled' /\ Others'
<1>1. /\ UNCHANGED <<config, rescue>> /\ OnlyMoves(r) /\ Opened(r) /\ Opened(r)' /\ run[r].pc \notin Terminal
  BY DEF Works, Progress, Working, TryStages, CleanStages, Opened, Terminal
<1>2. \A s \in Procs : Key(s)' = Key(s) /\ (Opened(s)' <=> Opened(s)) /\ (s # r => run'[s] = run[s])
  BY <1>1 DEF OnlyMoves, Opened, Key
<1>3. /\ Progress(config[r], run[r], run'[r])
      /\ \A p \in Points : armed'[p] \in {armed[p], Nil} \/ (armed'[p] = r /\ p \in ArmPoints(config[r]))
      /\ \A o \in Objects : chaos'[o] \in {chaos[o], Nil} \/ (chaos'[o] = Key(r) /\ Orders(config[r], "chaos_apply"))
  BY DEF Works, Touches
<1>4. \A s \in Procs : Key(s) # Nil /\ s # Nil
  BY ConfigType, ConstantsAssumption
<1>5. Labelled'
  <2> SUFFICES ASSUME NEW o \in Objects, chaos'[o] # Nil
               PROVE  \E s \in Procs : Key(s) = chaos'[o] /\ Opened(s) /\ Orders(config[s], "chaos_apply")
    BY <1>1, <1>2 DEF Labelled, Orders
  <2> QED BY <1>1, <1>3 DEF Labelled
<1>6. ASSUME NEW s \in Procs PROVE Traced(s)'
  <2>1. Traced(s)
    BY DEF Others
  <2>2. \A p \in Points : armed'[p] = s => Opened(s)' /\ p \in ArmPoints(config[s])
    BY <1>1, <1>2, <1>3, <1>4, <2>1 DEF Traced
  <2>3. FromPlan(config[s], run'[s]) /\ (run'[s].original # Nil => Opened(s)' /\ Orders(config[s], "image_switch"))
    BY <1>1, <1>2, <1>3, <2>1 DEF Traced, Progress
  <2>4. Opened(s)' => GateOpen(config[s])
    BY <1>2, <2>1 DEF Traced
  <2>5. config'[s] = config[s]
    BY <1>1
  <2> QED BY <2>2, <2>3, <2>4, <2>5 DEF Traced, FromPlan
<1>7. ASSUME NEW s \in Procs, Key(s) # Key(r) \/ \A o \in Objects : chaos'[o] \in {chaos[o], Nil}
      PROVE  Owned(Key(s)) = {} => Owned(Key(s))' = {}
  BY <1>2, <1>3, <1>4, <1>7 DEF Owned
<1>8. ASSUME NEW s \in Procs PROVE Cleared(s)'
  <2>1. Cleared(s) /\ Cleared(r)
    BY DEF Others
  <2>2. CASE s = r
    <3>1. CASE run'[r].chaosCode = run[r].chaosCode /\ run[r].pc \notin AfterDeletion
      BY <2>1, <2>2, <3>1 DEF Cleared
    <3>2. CASE run'[r].chaosCode = run[r].chaosCode /\ \A o \in Objects : chaos'[o] \in {chaos[o], Nil}
      BY <1>3, <1>7, <2>1, <2>2, <3>2 DEF Cleared, Progress
    <3>3. CASE run'[r].pc = "autoImages" /\ (run'[r].chaosCode = "zero" => Owned(Key(r))' = {})
      BY <2>2, <3>3 DEF Cleared, AfterDeletion
    <3> QED BY <3>1, <3>2, <3>3 DEF Works
  <2>3. CASE s # r
    <3>1. run[s].chaosCode = "none" \/ Key(s) # Key(r)
      <4>1. run[s].pc \in AfterDeletion => Opened(s)
        BY DEF AfterDeletion, WriteStages, Opened
      <4> QED BY <1>1, <2>1, <2>3, <4>1 DEF Cleared, BundlesMatch, BundleExclusive, Opened
    <3> QED BY <1>2, <1>7, <2>1, <2>3, <3>1 DEF Cleared
  <2> QED BY <2>2, <2>3
<1>9. ASSUME NEW s \in Procs PROVE Rescued(s)'
  <2>1. Rescued(s) /\ rescue'[s] = rescue[s] /\ config'[s] = config[s] /\ Key(s)' = Key(s)
    BY <1>1, <1>2 DEF Others
  <2>2. CASE rescue[s].late /\ rescue[s].pc \in {"points", "done"}
    <3>1. Quiet(s) /\ Key(s) # Key(r) /\ s # r
      BY <1>1, <2>1, <2>2 DEF Rescued, Quiet
    <3>2. Quiet(s)'
      BY <1>1, <1>2, <3>1 DEF Quiet
    <3>3. rescue[s].done \subseteq Points
      BY DEF TypeOK, RescueStates
    <3>4. \A p \in rescue[s].done : armed[p] # s => armed'[p] # s
      BY <1>3, <1>4, <3>1, <3>3
    <3>5. Owned(Key(s)) = {} => Owned(Key(s))' = {}
      BY <1>7, <3>1
    <3> QED BY <2>1, <2>2, <3>2, <3>4, <3>5 DEF Rescued
  <2>3. CASE ~(rescue[s].late /\ rescue[s].pc \in {"points", "done"})
    BY <2>1, <2>3 DEF Rescued
  <2> QED BY <2>2, <2>3
<1> QED BY <1>5, <1>6, <1>8, <1>9 DEF Others

\* A step that moves one run on and leaves the cluster alone.
LEMMA MoveTraced ==
  ASSUME TypeOK, BundlesMatch, Labelled, Others, NEW r \in Procs,
         UNCHANGED <<config, rescue, armed, chaos>>, OnlyMoves(r), run[r].pc \notin Terminal,
         Opened(r) => Opened(r)', Opened(r)' => GateOpen(config[r]),
         run[r].pc \in AfterDeletion => run'[r].pc \in AfterDeletion,
         run'[r].queue = run[r].queue, run'[r].original = run[r].original,
         run'[r].chaosCode = run[r].chaosCode
  PROVE  Labelled' /\ Others'
<1>1. \A s \in Procs : Key(s)' = Key(s) /\ (Opened(s) => Opened(s)') /\ config'[s] = config[s]
  BY DEF OnlyMoves, Opened, Key
<1>2. Labelled'
  BY <1>1 DEF Labelled
<1>3. ASSUME NEW s \in Procs PROVE Traced(s)'
  <2>1. FromPlan(config'[s], run'[s]) /\ run'[s].original = run[s].original
    BY <1>1 DEF OnlyMoves, Others, Traced, FromPlan
  <2>2. Opened(s)' => GateOpen(config[s])
    BY DEF OnlyMoves, Others, Traced, Opened
  <2> QED BY <1>1, <2>1, <2>2 DEF Others, Traced
<1>4. ASSUME NEW s \in Procs PROVE Cleared(s)'
  BY <1>1 DEF OnlyMoves, Others, Cleared, Owned
<1>5. ASSUME NEW s \in Procs PROVE Rescued(s)'
  <2>1. Quiet(s) => Quiet(s)'
    BY <1>1 DEF OnlyMoves, Quiet
  <2> QED BY <1>1, <2>1 DEF Others, Rescued, Owned
<1> QED BY <1>2, <1>3, <1>4, <1>5 DEF Others

\* A run that starts has left nothing yet.
LEMMA StartTraced ==
  ASSUME TypeOK, BundlesMatch, Labelled, Others, NEW r \in Procs, Start(r)
  PROVE  Labelled' /\ Others'
<1>1. run[r].pc = "idle" /\ run[r] \in RunStates /\ UNCHANGED <<config, rescue, armed, chaos>>
  BY DEF Start, TypeOK, cluster
<1>2. PICK stage \in {"preflight", "refused"} :
         Goto(r, stage) /\ (stage = "preflight" => GateOpen(config[r]))
  BY DEF Start
<1>3. OnlyMoves(r) /\ run'[r] = [run[r] EXCEPT !.pc = stage]
  BY <1>2, GotoMoves
<1>4. /\ run'[r].pc = stage /\ run'[r].queue = run[r].queue
      /\ run'[r].original = run[r].original /\ run'[r].chaosCode = run[r].chaosCode
  BY <1>1, <1>3 DEF RunStates
<1>5. Opened(r)' => GateOpen(config[r])
  BY <1>2, <1>4 DEF Opened
<1>6. ~Opened(r) /\ run[r].pc \notin Terminal \cup AfterDeletion
  BY <1>1 DEF Opened, Terminal, AfterDeletion, WriteStages
<1> QED BY <1>1, <1>3, <1>4, <1>5, <1>6, MoveTraced

\* The writes change nothing in the cluster.
LEMMA WritesTraced ==
  ASSUME TypeOK, BundlesMatch, Labelled, Others, NEW r \in Procs, Writes(r)
  PROVE  Labelled' /\ Others'
<1>1. Opened(r) /\ run[r].pc \notin Terminal /\ run'[r].pc \in AfterDeletion
  BY DEF Writes, Opened, Terminal, AfterDeletion, WriteStages
<1>2. Opened(r)' /\ GateOpen(config[r])
  BY <1>1 DEF AfterDeletion, WriteStages, Opened, Others, Traced
<1> QED BY <1>1, <1>2, MoveTraced DEF Writes

\* A run that dies leaves its traces behind.
LEMMA CrashTraced ==
  ASSUME TypeOK, BundlesMatch, Labelled, Others, NEW r \in Procs, Crash(r)
  PROVE  Labelled' /\ Others'
<1>1. run[r].pc \notin Terminal /\ run[r].pc # "idle" /\ UNCHANGED <<config, rescue, armed, chaos>>
  BY DEF Crash, cluster
<1>2. OnlyMoves(r) /\ run'[r] = [run[r] EXCEPT !.pc = "dead"] /\ run[r] \in RunStates
  BY GotoMoves DEF Crash, TypeOK
<1>3. /\ run'[r].pc = "dead" /\ run'[r].queue = run[r].queue
      /\ run'[r].original = run[r].original /\ run'[r].chaosCode = run[r].chaosCode
  BY <1>2 DEF RunStates
<1>4. Opened(r) /\ Opened(r)' /\ GateOpen(config[r]) /\ "dead" \in AfterDeletion
  BY <1>1, <1>3 DEF Opened, Terminal, AfterDeletion, Others, Traced
<1> QED BY <1>1, <1>2, <1>3, <1>4, MoveTraced

\* A step that only takes faults away, of an operator or of a restarting pod.
LEMMA LiftTraced ==
  ASSUME TypeOK, BundlesMatch, Labelled, Others, UNCHANGED <<config, run>>,
         \A p \in Points : armed'[p] \in {armed[p], Nil},
         \A o \in Objects : chaos'[o] \in {chaos[o], Nil}
  PROVE  /\ Labelled'
         /\ \A s \in Procs : Traced(s)' /\ Cleared(s)'
         /\ \A s \in Procs : rescue'[s] = rescue[s] => Rescued(s)'
<1>1. \A s \in Procs : /\ Key(s)' = Key(s) /\ (Opened(s)' <=> Opened(s)) /\ config'[s] = config[s]
                       /\ (Quiet(s)' <=> Quiet(s)) /\ s # Nil /\ Key(s) # Nil
  BY ConfigType, ConstantsAssumption DEF Opened, Key, Quiet
<1>2. \A s \in Procs : Owned(Key(s)) = {} => Owned(Key(s))' = {}
  BY <1>1 DEF Owned
<1>3. Labelled'
  BY <1>1 DEF Labelled
<1>4. ASSUME NEW s \in Procs PROVE Traced(s)' /\ Cleared(s)'
  <2>1. Traced(s) /\ Cleared(s)
    BY DEF Others
  <2>2. Traced(s)'
    BY <1>1, <2>1 DEF Traced, FromPlan
  <2>3. Cleared(s)'
    BY <1>1, <1>2, <2>1 DEF Cleared
  <2> QED BY <2>2, <2>3
<1>5. ASSUME NEW s \in Procs, rescue'[s] = rescue[s] PROVE Rescued(s)'
  <2>1. Rescued(s) /\ rescue[s].done \subseteq Points
    BY DEF Others, TypeOK, RescueStates
  <2> QED BY <1>1, <1>2, <1>5, <2>1 DEF Rescued
<1> QED BY <1>3, <1>4, <1>5

\* An emergency cleanup only takes away.
LEMMA RescueTraced ==
  ASSUME TypeOK, BundlesMatch, Labelled, Others, NEW r \in Procs, Rescue(r)
  PROVE  BundlesMatch' /\ Labelled' /\ Others'
<1>1. rescue[r] \in RescueStates /\ UNCHANGED <<config, run, bundles>>
  BY DEF TypeOK, Rescue, BeginRescue, RescueFailpoint, RescueChaos
<1>2. /\ \A p \in Points : armed'[p] \in {armed[p], Nil}
      /\ \A o \in Objects : chaos'[o] \in {chaos[o], Nil}
  <2>1. CASE BeginRescue(r)
    BY <2>1 DEF BeginRescue, cluster
  <2>2. CASE RescueFailpoint(r)
    <3>1. PICK p \in Points : Disarmed(p) \/ UNCHANGED armed
      BY <2>2, ArmPointsType DEF RescueFailpoint, Unanswered
    <3> QED BY <2>2, <3>1, DisarmTouches DEF RescueFailpoint
  <2>3. CASE RescueChaos(r)
    BY <2>3, DeletionTouches DEF RescueChaos
  <2> QED BY <2>1, <2>2, <2>3 DEF Rescue
<1>3. \A y : SetRescue(r, y) => rescue'[r] = y /\ \A s \in Procs \ {r} : rescue'[s] = rescue[s]
  BY DEF SetRescue, TypeOK
<1>4. /\ Labelled'
      /\ \A s \in Procs : Traced(s)' /\ Cleared(s)'
      /\ \A s \in Procs : rescue'[s] = rescue[s] => Rescued(s)'
  BY <1>1, <1>2, LiftTraced
<1>5. /\ Key(r)' = Key(r) /\ config'[r] = config[r] /\ (Quiet(r)' <=> Quiet(r)) /\ Rescued(r)
      /\ Key(r) # Nil /\ r # Nil
  BY <1>1, ConfigType, ConstantsAssumption DEF Key, Quiet, Others
<1>6. Rescued(r)'
  <2>1. CASE BeginRescue(r)
    <3>1. /\ rescue'[r] = [rescue[r] EXCEPT !.pc = "points", !.late = Quiet(r)]
          /\ rescue[r].pc = "idle"
      BY <1>3, <2>1 DEF BeginRescue
    <3>2. /\ rescue'[r].pc = "points" /\ rescue'[r].late = Quiet(r)
          /\ rescue'[r].done = rescue[r].done
      BY <1>1, <3>1 DEF RescueStates
    <3>3. rescue'[r].done = {}
      BY <1>5, <3>1, <3>2 DEF Rescued
    <3> QED BY <1>5, <3>2, <3>3 DEF Rescued
  <2>2. CASE RescueFailpoint(r)
    <3> DEFINE Tried(p, failed) == [rescue[r] EXCEPT !.done = rescue[r].done \cup {p}, !.failed = failed]
    <3>1. PICK p \in Points, failed \in BOOLEAN :
             /\ SetRescue(r, Tried(p, failed)) /\ (failed \/ Disarmed(p)) /\ rescue[r].pc = "points"
             /\ rescue[r].failed => failed
      BY <1>1, <2>2, ArmPointsType, ZenonT(60) DEF RescueFailpoint, Unanswered, RescueStates
    <3> DEFINE y == Tried(p, failed)
    <3>2. rescue'[r] = y
      BY <1>3, <3>1
    <3>3. /\ y.pc = "points" /\ y.done = rescue[r].done \cup {p} /\ y.late = rescue[r].late
          /\ y.code = rescue[r].code /\ (~y.failed => ~rescue[r].failed /\ armed'[p] = Nil)
      BY <1>1, <3>1 DEF RescueStates, Disarmed, TypeOK
    <3>4. ~y.failed /\ y.late => \A q \in y.done : armed'[q] # r
      <4>1. rescue[r].done \subseteq Points
        BY <1>1 DEF RescueStates
      <4> QED BY <1>2, <1>5, <3>1, <3>3, <4>1 DEF Rescued
    <3> QED BY <1>5, <3>1, <3>2, <3>3, <3>4 DEF Rescued
  <2>3. CASE RescueChaos(r)
    <3>1. PICK code \in {"zero", "nonzero", "raised"} :
             /\ ChaosDeleted(Key(r), code)
             /\ SetRescue(r, [rescue[r] EXCEPT !.code = code,
                                !.pc = IF code = "raised" THEN "dead" ELSE "done"])
      BY <2>3 DEF RescueChaos
    <3> DEFINE stage == IF code = "raised" THEN "dead" ELSE "done"
               y == [rescue[r] EXCEPT !.code = code, !.pc = stage]
    <3>2. /\ rescue'[r].pc \in {"dead", "done"} /\ rescue'[r].code = code
          /\ rescue'[r].done = rescue[r].done /\ rescue'[r].failed = rescue[r].failed
          /\ rescue'[r].late = rescue[r].late
      <4>1. rescue'[r] = y /\ stage \in {"dead", "done"}
        BY <1>3, <3>1
      <4> HIDE DEF stage
      <4>2. /\ y.pc = stage /\ y.code = code /\ y.done = rescue[r].done
            /\ y.failed = rescue[r].failed /\ y.late = rescue[r].late
        BY <1>1 DEF RescueStates
      <4> QED BY <4>1, <4>2
    <3>3. code = "zero" => Owned(Key(r))' = {}
      <4>1. \A k : k = Key(r) /\ code = "zero" => Owned(k)' = {}
        BY <1>5, <3>1, DeletionTouches
      <4> QED BY <1>5, <4>1 DEF Owned
    <3>4. ArmPoints(config[r]) \subseteq rescue[r].done /\ rescue[r].pc = "points" /\ UNCHANGED armed
      BY <2>3 DEF RescueChaos
    <3> QED BY <1>5, <3>2, <3>3, <3>4 DEF Rescued
  <2> QED BY <2>1, <2>2, <2>3 DEF Rescue
<1>7. \A s \in Procs \ {r} : rescue'[s] = rescue[s]
  BY <1>3 DEF Rescue, BeginRescue, RescueFailpoint, RescueChaos
<1> QED BY <1>1, <1>4, <1>6, <1>7, BundlesSame DEF Others

\* A rollout forgets failpoints and nothing else.
LEMMA RolloutTraced ==
  ASSUME TypeOK, BundlesMatch, Labelled, Others, NEW c \in Components, Rollout(c)
  PROVE  BundlesMatch' /\ Labelled' /\ Others'
<1>1. /\ UNCHANGED <<config, run, rescue, bundles>>
      /\ \A p \in Points : armed'[p] \in {armed[p], Nil}
      /\ \A o \in Objects : chaos'[o] \in {chaos[o], Nil}
  BY DEF Rollout, TypeOK
<1> QED BY <1>1, LiftTraced, BundlesSame DEF Others
-----------------------------------------------------------------------------
(* The invariant *)

\* No bundle, no label, no image was touched at first.
LEMMA EvidenceInit == Init => EvidenceInv
<1> SUFFICES ASSUME Init PROVE EvidenceInv
  OBVIOUS
<1>1. TypeOK
  BY TypeInit
<1>2. \A r \in Procs : ~Opened(r) /\ run[r].queue = <<>> /\ run[r].original = Nil /\ run[r].chaosCode = "none"
  BY DEF Init, InitRun, Opened
<1>3. BundlesMatch
  BY <1>2 DEF Init, BundlesMatch, BundleExclusive, Opened
<1>4. Labelled
  BY DEF Init, Labelled
<1>5. ASSUME NEW r \in Procs PROVE Traced(r) /\ Cleared(r) /\ Rescued(r)
  BY <1>2, ConstantsAssumption DEF Init, Traced, FromPlan, Cleared, Rescued
<1> QED BY <1>1, <1>3, <1>4, <1>5 DEF EvidenceInv

\* One step, by the kinds of steps above.
LEMMA EvidenceStep == EvidenceInv /\ [Next]_vars => EvidenceInv'
<1> SUFFICES ASSUME EvidenceInv, [Next]_vars PROVE EvidenceInv'
  OBVIOUS
<1>1. TypeOK /\ BundlesMatch /\ Labelled /\ Others
  BY DEF EvidenceInv, Others
<1>2. TypeOK'
  BY <1>1, TypeStep
<1>3. ASSUME NEW r \in Procs, Step(r) PROVE BundlesMatch' /\ Labelled' /\ Others'
  <2>1. FromPlan(config[r], run[r])
    BY <1>1 DEF Others, Traced
  <2>2. CASE Start(r)
    BY <1>1, <2>2, BundlesStart, StartTraced
  <2>3. CASE WriteRecord(r) \/ WritePromotion(r) \/ ImportRecord(r) \/ WriteManifest(r) \/ WriteIndex(r)
    BY <1>1, <2>3, WritesSteps, WritesTraced
  <2>4. CASE Works(r)
    BY <1>1, <2>4, BundlesWork, WorksTraced
  <2> QED BY <1>1, <1>3, <2>1, <2>2, <2>3, <2>4,
             WorksTry, WorksFaults, WorksImages, WorksCleanup, WorksRestore DEF Step
<1>4. ASSUME NEW r \in Procs, Crash(r) PROVE BundlesMatch' /\ Labelled' /\ Others'
  BY <1>1, <1>4, BundlesWork, CrashTraced
<1>5. BundlesMatch' /\ Labelled' /\ Others'
  <2>1. CASE UNCHANGED vars
    <3>1. /\ UNCHANGED <<config, run, rescue, bundles>>
          /\ \A p \in Points : armed'[p] \in {armed[p], Nil}
          /\ \A o \in Objects : chaos'[o] \in {chaos[o], Nil}
      BY <2>1 DEF vars
    <3> QED BY <1>1, <3>1, LiftTraced, BundlesSame DEF Others
  <2> QED BY <1>1, <1>3, <1>4, <2>1, RescueTraced, RolloutTraced DEF Next
<1> QED BY <1>2, <1>5 DEF EvidenceInv, Others

\* The inductive invariant of the evidence holds in every behaviour.
THEOREM EvidenceInvHolds == Spec => []EvidenceInv
  BY EvidenceInit, EvidenceStep, PTL DEF Spec

\* Of the invocations that share a run key, in whatever order they are started
\* and killed, one at most ever gets past the creation of its bundle.
THEOREM BundleExclusiveHolds == Spec => []BundleExclusive
<1>1. EvidenceInv => BundleExclusive
  BY DEF EvidenceInv, BundlesMatch
<1> QED BY <1>1, EvidenceInvHolds, PTL

\* A testbed config without both flags never arms a failpoint, labels a Chaos
\* object or reaches an image switch, whatever the other runs do.
THEOREM UngatedRunsAreHarmlessHolds == Spec => []UngatedRunsAreHarmless
<1>1. EvidenceInv => UngatedRunsAreHarmless
  <2> SUFFICES ASSUME EvidenceInv, NEW r \in Procs, config[r].environment = "testbed",
                      ~(config[r].allow_mutation /\ config[r].cli_allow)
               PROVE  /\ \A p \in Points : armed[p] # r
                      /\ run[r].original = Nil
                      /\ (\A s \in Procs : Key(s) = Key(r) => s = r) => Owned(Key(r)) = {}
    BY DEF UngatedRunsAreHarmless
  <2>1. Traced(r) /\ Labelled /\ Key(r) # Nil
    BY ConfigType, ConstantsAssumption DEF EvidenceInv
  <2>2. ASSUME GateOpen(config[r])
        PROVE  \A a \in Enabled(config[r]) : a.kind \notin MutatingKinds
    BY <2>2 DEF GateOpen, MutationRequired
  <2>3. Opened(r) => \A kind \in MutatingKinds : ~Orders(config[r], kind)
    BY <2>1, <2>2 DEF Traced, Orders
  <2>4. {"failpoint_arm", "chaos_apply", "image_switch"} \subseteq MutatingKinds
    BY DEF MutatingKinds
  <2>5. \A p \in Points : armed[p] # r
    BY <2>1, <2>3, <2>4 DEF Traced, ArmPoints, Orders
  <2>6. run[r].original = Nil
    BY <2>1, <2>3, <2>4 DEF Traced
  <2>7. (\A s \in Procs : Key(s) = Key(r) => s = r) => Owned(Key(r)) = {}
    BY <2>1, <2>3, <2>4 DEF Labelled, Owned
  <2> QED BY <2>5, <2>6, <2>7
<1> QED BY <1>1, EvidenceInvHolds, PTL

\* A run that reports ok after an automatic cleanup whose deletion answered 0
\* has no Chaos object with its label, then and for ever after.
THEOREM ChaosGoneUnlessReportedHolds == Spec => []ChaosGoneUnlessReported
<1>1. EvidenceInv => ChaosGoneUnlessReported
  BY DEF EvidenceInv, Cleared, ChaosGoneUnlessReported
<1> QED BY <1>1, EvidenceInvHolds, PTL

\* An emergency cleanup begun after the last process of its key ended leaves
\* none of the faults of its run, unless it reports a failure.
THEOREM EmergencyClearsHolds == Spec => []EmergencyClears
<1>1. EvidenceInv => EmergencyClears
  <2> SUFFICES ASSUME EvidenceInv, NEW r \in Procs, rescue[r].pc = "done", rescue[r].late
               PROVE  /\ ~rescue[r].failed => \A p \in Points : armed[p] # r
                      /\ rescue[r].code = "zero" => Owned(Key(r)) = {}
    BY DEF EmergencyClears
  <2>1. Traced(r) /\ Rescued(r)
    BY DEF EvidenceInv
  <2> QED BY <2>1 DEF Traced, Rescued
<1> QED BY <1>1, EvidenceInvHolds, PTL

\* A bundle with its hash index is complete, has a promotion candidate exactly
\* for a RED verdict, and no later step of any invocation touches it.
THEOREM IndexedBundleIsFinalHolds == Spec => IndexedBundleIsFinal
<1> DEFINE verdicts(k) == {run'[r].verdict : r \in {s \in Procs : Key(s) = k /\ run'[s].pc = "done"}}
           Final == \A k \in Keys :
                      /\ "index" \in bundles[k] => bundles'[k] = bundles[k]
                      /\ "index" \in bundles'[k] =>
                           /\ {"record", "manifest"} \subseteq bundles'[k]
                           /\ "promotion" \in bundles'[k] <=> "RED" \in verdicts(k)
<1>1. EvidenceInv /\ EvidenceInv' /\ [Next]_vars => [Final]_vars
  <2> SUFFICES ASSUME EvidenceInv, EvidenceInv', Next, NEW k \in Keys
               PROVE  /\ "index" \in bundles[k] => bundles'[k] = bundles[k]
                      /\ "index" \in bundles'[k] =>
                           /\ {"record", "manifest"} \subseteq bundles'[k]
                           /\ "promotion" \in bundles'[k] <=> "RED" \in verdicts(k)
    OBVIOUS
  <2>1. BundlesMatch /\ BundlesMatch' /\ TypeOK
    BY DEF EvidenceInv
  <2>2. UNCHANGED config
    BY ZenonT(60) DEF Next, Step, Start, Preflight, Work, ArmFailpoint, DisarmFailpoint, ApplyChaos, DeleteChaos,
           CaptureImages, PatchImages, WaitForImages, PhasesDone, EvaluateOracle, PreCleanup,
           CleanupPhaseDone, AutoDisarm, ClearActive, AutoDeleteChaos, AutoRestore,
           AutoWaitForImages, AfterCleanup, WriteRecord, WritePromotion, ImportRecord,
           WriteManifest, WriteIndex, Crash, Rescue, BeginRescue, RescueFailpoint, RescueChaos, Rollout
  <2>3. ASSUME "index" \in bundles[k] PROVE bundles'[k] = bundles[k]
    <3>1. PICK s \in Procs : Opened(s) /\ Key(s) = k /\ FilesMatch(run[s], bundles[k])
      BY <2>1, <2>3 DEF BundlesMatch
    <3>2. run[s].pc = "done" /\ "directory" \in bundles[k]
      BY <2>3, <3>1 DEF FilesMatch
    <3>3. \A r \in Procs : Opened(r) /\ Key(r) = k => run[r].pc = "done"
      BY <2>1, <3>1, <3>2 DEF BundlesMatch, BundleExclusive, Opened
    <3>4. ASSUME NEW r \in Procs, Start(r) PROVE bundles'[k] = bundles[k]
      BY <2>1, <3>2, <3>4 DEF Start, MayOpen, TypeOK
    <3>5. ASSUME NEW r \in Procs, NEW f, Write(r, f), Opened(r), run[r].pc # "done" PROVE bundles'[k] = bundles[k]
      BY <2>1, <3>3, <3>5 DEF Write, TypeOK
    <3>6. ASSUME NEW r \in Procs, WriteRecord(r) \/ WritePromotion(r) \/ WriteManifest(r) \/ WriteIndex(r)
          PROVE  bundles'[k] = bundles[k]
      BY <3>5, <3>6 DEF WriteRecord, WritePromotion, WriteManifest, WriteIndex, Opened
    <3>7. \/ UNCHANGED bundles
          \/ \E r \in Procs : \/ Start(r) \/ WriteRecord(r) \/ WritePromotion(r)
                              \/ WriteManifest(r) \/ WriteIndex(r)
      BY ZenonT(60) DEF Next, Step, Preflight, Work, ArmFailpoint, DisarmFailpoint, ApplyChaos, DeleteChaos,
             CaptureImages, PatchImages, WaitForImages, PhasesDone, EvaluateOracle, PreCleanup,
             CleanupPhaseDone, AutoDisarm, ClearActive, AutoDeleteChaos, AutoRestore,
             AutoWaitForImages, AfterCleanup, ImportRecord, Crash, Rescue, BeginRescue,
             RescueFailpoint, RescueChaos, Rollout
    <3> QED BY <3>4, <3>6, <3>7
  <2>4. ASSUME "index" \in bundles'[k]
        PROVE  /\ {"record", "manifest"} \subseteq bundles'[k]
               /\ "promotion" \in bundles'[k] <=> "RED" \in verdicts(k)
    <3>1. \A r \in Procs : Key(r)' = Key(r)
      BY <2>2 DEF Key
    <3>2. PICK s \in Procs : Opened(s)' /\ Key(s) = k /\ FilesMatch(run'[s], bundles'[k])
      BY <2>1, <2>4, <3>1 DEF BundlesMatch
    <3>3. /\ run'[s].pc = "done" /\ {"record", "manifest"} \subseteq bundles'[k]
          /\ "promotion" \in bundles'[k] <=> run'[s].verdict = "RED"
      BY <2>4, <3>2 DEF FilesMatch
    <3>4. \A r \in Procs : Key(r) = k /\ run'[r].pc = "done" => r = s
      BY <2>1, <3>1, <3>2, <3>3 DEF BundlesMatch, BundleExclusive
    <3>5. "RED" \in verdicts(k) <=> run'[s].verdict = "RED"
      BY <3>2, <3>3, <3>4
    <3> QED BY <3>3, <3>5
  <2> QED BY <2>3, <2>4
<1> QED BY <1>1, EvidenceInvHolds, PTL DEF Spec, IndexedBundleIsFinal
-----------------------------------------------------------------------------
(* Images *)

\* A run that orders an image switch works on the cluster alone.
SwitchesAlone ==
  \A r, s \in Procs : Opened(r) /\ Opened(s) /\ Orders(config[r], "image_switch") => r = s

\* The stages after the automatic restoration of images, and those after the
\* record.
AfterRestoration == {"autoRollout", "after", "done"} \cup WriteStages
AfterRecord == {"promote", "import", "manifest", "index", "done"}

Faulted(x) == x.cleanupErr \/ x.error # "none"
Promises(c) == c.auto_cleanup /\ c.restore_images
Returned(b, s) == \A k \in Components : b[k] # Nil => s[k] = b[k]

\* What a run with config c in state x knows of the images: b are those it
\* found, s are those the spec names.
KeepsImages(c, x, b, s) ==
  /\ b \in ImageMaps
  /\ x.original \in {Nil, b}
  /\ x.original = Nil => s = b
  /\ x.original # Nil => c.cluster
  /\ x.pc \in AfterRestoration /\ Promises(c) /\ x.original # Nil => Returned(b, s) \/ Faulted(x)
  /\ x.pc \in AfterRecord /\ x.cleanupErr => x.error # "none"

ImagesInv ==
  \A r \in Procs :
    /\ run[r].stage # "start" => run[r].original # Nil
    /\ Opened(r) => KeepsImages(config[r], run[r], before[r], spec)

\* A step that leaves the images alone makes y of the state x of its run.
Carries(c, x, y) ==
  /\ y.original = x.original /\ y.stage \in {x.stage, "start"}
  /\ Faulted(x) => Faulted(y)
  /\ y.pc \in AfterRestoration =>
       x.pc \in AfterRestoration \/ ~Promises(c) \/ (x.original # Nil => Faulted(y) \/ ~c.cluster)
  /\ y.pc \in AfterRecord /\ y.cleanupErr =>
       y.error # "none" \/ (x.pc \in AfterRecord /\ x.cleanupErr /\ x.error = "none")

Carried(r) ==
  /\ UNCHANGED <<config, spec, before>>
  /\ OnlyMoves(r) /\ Carries(config[r], run[r], run'[r])

\* What a run knows of the images survives a step that leaves them alone.
LEMMA CarryKeeps ==
  ASSUME NEW c, NEW x, NEW y, NEW b, NEW s, Carries(c, x, y), KeepsImages(c, x, b, s)
  PROVE  KeepsImages(c, y, b, s)
BY DEF Carries, KeepsImages

\* The stages a run of the attempts or of the cleanup is in.
LEMMA Earlier ==
  ASSUME NEW x, x.pc \in {"preflight", "main", "oracle", "final", "cleanup", "auto", "autoChaos", "autoImages", "dead"}
  PROVE  x.pc \notin AfterRestoration /\ x.pc \notin AfterRecord
BY DEF AfterRestoration, AfterRecord, WriteStages

\* A failure is such a step,
LEMMA FailCarries ==
  ASSUME NEW c, NEW x \in RunStates, x.pc \in TryStages \cup {"cleanup"}
  PROVE  Carries(c, x, Raised(x)) /\ Carries(c, x, Interrupted(x))
<1>1. \A s : /\ Left(x, s).pc = s /\ Left(x, s).original = x.original /\ Left(x, s).stage = "start"
             /\ Left(x, s).cleanupErr = x.cleanupErr /\ Left(x, s).error = x.error
             /\ DOMAIN Left(x, s) = DOMAIN x
  BY DEF Left, RunStates
<1>2. "cleanupErr" \in DOMAIN x /\ "error" \in DOMAIN x /\ "verdict" \in DOMAIN x /\ "unwinding" \in DOMAIN x
  BY DEF RunStates
<1>3. ASSUME NEW s \in {"auto", "final"}, NEW y, y.pc = s, y.original = x.original, y.stage = "start",
             Faulted(x) => Faulted(y)
      PROVE  Carries(c, x, y)
  BY <1>3, Earlier DEF Carries
<1>4. Carries(c, x, Interrupted(x))
  <2> DEFINE e == Left(x, "final")
             y == [e EXCEPT !.unwinding = TRUE]
  <2>1. /\ e.pc = "final" /\ e.original = x.original /\ e.stage = "start" /\ e.cleanupErr = x.cleanupErr
        /\ e.error = x.error /\ DOMAIN e = DOMAIN x
    BY <1>1
  <2> HIDE DEF e
  <2>2. /\ y.pc = "final" /\ y.original = x.original /\ y.stage = "start" /\ y.cleanupErr = x.cleanupErr
        /\ y.error = x.error
    BY <1>2, <2>1
  <2> HIDE DEF y
  <2>3. Carries(c, x, y)
    BY <1>3, <2>2 DEF Faulted
  <2> QED  BY <2>3 DEF Interrupted, y, e
<1>5. Carries(c, x, Raised(x))
  <2>1. Raised(x).pc \in {"auto", "final"} /\ Raised(x).original = x.original /\ Raised(x).stage = "start"
        /\ Faulted(Raised(x))
    BY DEF Raised, Left, RunStates, Faulted
  <2> QED  BY <1>3, <2>1
<1> QED  BY <1>4, <1>5

\* of one run.
LEMMA FailCarried ==
  ASSUME TypeOK, NEW r \in Procs, Fail(r) \/ \E p \in Points : FailFrom(r, Missed(run[r], p)),
         run[r].pc \in TryStages \cup {"cleanup"}, UNCHANGED <<config, spec, before>>
  PROVE  Carried(r)
<1>1. run[r] \in RunStates  BY DEF TypeOK
<1>2. PICK x \in RunStates :
        /\ FailFrom(r, x) /\ x.pc = run[r].pc /\ x.original = run[r].original /\ x.stage = run[r].stage
        /\ x.cleanupErr = run[r].cleanupErr /\ x.error = run[r].error
  BY <1>1, MissedType DEF Fail
<1>3. OnlyMoves(r) /\ run'[r] \in {Raised(x), Interrupted(x)}  BY <1>2, SetMoves DEF FailFrom
<1>4. Carries(config[r], x, run'[r])  BY <1>2, <1>3, FailCarries
<1>5. Carries(config[r], run[r], run'[r])  BY <1>2, <1>4 DEF Carries, Faulted
<1> QED  BY <1>3, <1>5 DEF Carried

\* A step within the attempts or the cleanup.
LEMMA MoveCarried ==
  ASSUME TypeOK, NEW r \in Procs, NEW y, Set(r, y), UNCHANGED <<config, spec, before>>,
         y.pc \in {"preflight", "main", "oracle", "final", "cleanup", "auto", "autoChaos", "autoImages", "dead"},
         y.original = run[r].original, y.stage \in {run[r].stage, "start"},
         Faulted(run[r]) => Faulted(y)
  PROVE  Carried(r)
<1>1. OnlyMoves(r) /\ run'[r] = y  BY SetMoves
<1>2. Carries(config[r], run[r], y)  BY Earlier DEF Carries
<1> QED  BY <1>1, <1>2 DEF Carried

\* The next action of a phase, and the next pod.
LEMMA PhaseCarries ==
  ASSUME NEW x \in RunStates, NEW p
  PROVE  /\ Advanced(x).pc = x.pc /\ Advanced(x).original = x.original /\ Advanced(x).stage = "start"
         /\ Advanced(x).cleanupErr = x.cleanupErr /\ Advanced(x).error = x.error
         /\ Served(x, p).pc = x.pc /\ Served(x, p).original = x.original
         /\ Served(x, p).stage \in {x.stage, "start"}
         /\ Served(x, p).cleanupErr = x.cleanupErr /\ Served(x, p).error = x.error
BY DEF Advanced, Served, RunStates

\* The attempt leaves images alone but for its switch,
LEMMA CarriedTry ==
  ASSUME TypeOK, NEW r \in Procs,
         \/ Preflight(r) \/ Work(r) \/ PhasesDone(r) \/ EvaluateOracle(r)
         \/ ArmFailpoint(r) \/ DisarmFailpoint(r) \/ ApplyChaos(r) \/ DeleteChaos(r) \/ WaitForImages(r)
  PROVE  Carried(r)
<1> DEFINE x == run[r]
           Steps(y) == /\ y.pc \in {"main", "oracle", "final", "cleanup"} /\ y.original = x.original
                       /\ y.stage \in {x.stage, "start"} /\ y.cleanupErr = x.cleanupErr /\ y.error = x.error
<1>1. x \in RunStates  BY DEF TypeOK
<1>2. UNCHANGED <<config, spec, before>> /\ x.pc \in TryStages \cup {"cleanup"}
  BY DEF Preflight, Work, PhasesDone, EvaluateOracle, ArmFailpoint, DisarmFailpoint, ApplyChaos,
     DeleteChaos, WaitForImages, Executing, TryStages, cluster
<1>3. ASSUME NEW y, Set(r, y), Steps(y) PROVE Carried(r)
  <2> HIDE DEF x
  <2>1. Faulted(x) => Faulted(y)  BY <1>3 DEF Faulted
  <2> USE DEF x
  <2> QED  BY <1>2, <1>3, <2>1, MoveCarried
<1>4. Fail(r) \/ (\E p \in Points : FailFrom(r, Missed(x, p))) \/ \E y : Set(r, y) /\ Steps(y)
  <2>1. CASE Preflight(r)
    <3> DEFINE todo == ActionsFor(config[r], "prepare") \o ActionsFor(config[r], "arm")
                         \o ActionsFor(config[r], "workload") \o ActionsFor(config[r], "observe")
               y == [x EXCEPT !.pc = "main", !.queue = todo]
    <3>1. Set(r, y) \/ Fail(r)  BY <2>1 DEF Preflight
    <3>2. Steps(y)  BY <1>1 DEF RunStates
    <3> QED  BY <3>1, <3>2
  <2>2. CASE PhasesDone(r)
    <3>1. Set(r, [x EXCEPT !.pc = "oracle"])  BY <2>2 DEF PhasesDone, Goto
    <3>2. Steps([x EXCEPT !.pc = "oracle"])  BY <1>1 DEF RunStates
    <3> QED  BY <3>1, <3>2
  <2>3. CASE EvaluateOracle(r)
    <3>1. Fail(r) \/ \E v : Set(r, [x EXCEPT !.pc = "final", !.verdict = v])
      BY <2>3 DEF EvaluateOracle
    <3>2. \A v : Steps([x EXCEPT !.pc = "final", !.verdict = v])  BY <1>1 DEF RunStates
    <3> QED  BY <3>1, <3>2
  <2>4. CASE Work(r) \/ ApplyChaos(r) \/ DeleteChaos(r) \/ WaitForImages(r)
    <3>1. Fail(r) \/ (Set(r, Advanced(x)) /\ x.pc \in {"main", "cleanup"})
      BY <2>4 DEF Work, ApplyChaos, DeleteChaos, WaitForImages, Executing
    <3>2. x.pc \in {"main", "cleanup"} => Steps(Advanced(x))  BY <1>1, PhaseCarries
    <3> QED  BY <3>1, <3>2
  <2>5. ASSUME x.pc \in {"main", "cleanup"}, NEW e \in RunStates, NEW p, e.pc = x.pc, e.original = x.original,
               e.stage = x.stage, e.cleanupErr = x.cleanupErr, e.error = x.error
        PROVE  Steps(Served(e, p))
    BY <2>5, PhaseCarries
  <2>6. CASE ArmFailpoint(r)
    <3>1. PICK p \in Head(x.queue).points :
             FailFrom(r, Missed(x, p)) \/ Set(r, Served(Recorded(x, p), p))
      BY <2>6 DEF ArmFailpoint
    <3>2. x.pc \in {"main", "cleanup"} /\ x.queue # <<>>  BY <2>6 DEF ArmFailpoint, Executing
    <3>3. p \in Points  BY <1>1, <3>1, <3>2, HeadType
    <3>4. /\ Recorded(x, p) \in RunStates /\ Recorded(x, p).pc = x.pc /\ Recorded(x, p).original = x.original
          /\ Recorded(x, p).stage = x.stage /\ Recorded(x, p).cleanupErr = x.cleanupErr
          /\ Recorded(x, p).error = x.error
      BY <1>1, <3>3 DEF Recorded, RunStates
    <3> QED  BY <2>5, <3>1, <3>2, <3>3, <3>4
  <2>7. CASE DisarmFailpoint(r)
    <3>1. PICK p \in Head(x.queue).points : Fail(r) \/ Set(r, Served([x EXCEPT !.active = @ \ {p}], p))
      BY <2>7 DEF DisarmFailpoint
    <3>2. x.pc \in {"main", "cleanup"}  BY <2>7 DEF DisarmFailpoint, Executing
    <3> DEFINE e == [x EXCEPT !.active = @ \ {p}]
    <3>3. /\ e \in RunStates /\ e.pc = x.pc /\ e.original = x.original
          /\ e.stage = x.stage /\ e.cleanupErr = x.cleanupErr /\ e.error = x.error
      BY <1>1 DEF RunStates
    <3>4. Fail(r) \/ Set(r, Served(e, p))  BY <3>1
    <3> HIDE DEF e
    <3> QED  BY <2>5, <3>2, <3>3, <3>4
  <2> QED  BY <2>1, <2>2, <2>3, <2>4, <2>6, <2>7
<1> QED  BY <1>2, <1>3, <1>4, FailCarried

\* and the cleanup but for its restoration.
LEMMA CarriedCleanup ==
  ASSUME TypeOK, NEW r \in Procs, run[r].original # Nil => config[r].cluster,
         PreCleanup(r) \/ CleanupPhaseDone(r) \/ AutoDisarm(r) \/ ClearActive(r)
         \/ AutoDeleteChaos(r) \/ AutoWaitForImages(r) \/ AfterCleanup(r)
  PROVE  Carried(r)
<1> DEFINE x == run[r]
           c == config[r]
<1>1. x \in RunStates /\ UNCHANGED <<config, spec, before>>
  BY DEF TypeOK, PreCleanup, CleanupPhaseDone, AutoDisarm, ClearActive, AutoDeleteChaos, AutoWaitForImages,
     AfterCleanup, cluster
<1>2. ASSUME NEW y, Set(r, y), y.original = x.original, y.stage = x.stage, Faulted(x) => Faulted(y),
             \/ y.pc \in {"cleanup", "auto", "autoChaos", "autoImages", "dead"}
             \/ y.pc = "after" /\ (~Promises(c) \/ ~c.cluster \/ x.pc \in AfterRestoration)
             \/ y.pc = "record" /\ x.pc = "after"
      PROVE  Carried(r)
  <2>1. OnlyMoves(r) /\ run'[r] = y  BY <1>2, SetMoves
  <2>2. Carries(c, x, y)
    BY <1>2, Earlier DEF Carries, AfterRestoration, AfterRecord, WriteStages
  <2> QED  BY <1>1, <2>1, <2>2 DEF Carried
<1>3. CASE PreCleanup(r)
  <2> PICK e \in BOOLEAN :
           Set(r, [x EXCEPT !.cleanupErr = @ \/ e,
                    !.pc = IF c.auto_cleanup THEN "cleanup" ELSE "after",
                    !.queue = IF c.auto_cleanup THEN ActionsFor(c, "cleanup") ELSE <<>>])
    BY <1>3 DEF PreCleanup
  <2> DEFINE next == IF c.auto_cleanup THEN "cleanup" ELSE "after"
             todo == IF c.auto_cleanup THEN ActionsFor(c, "cleanup") ELSE <<>>
             failed == x.cleanupErr \/ e
             y == [x EXCEPT !.cleanupErr = failed, !.pc = next, !.queue = todo]
  <2>1. Set(r, y) /\ (x.cleanupErr => failed)
    OBVIOUS
  <2>2. next = "cleanup" \/ (next = "after" /\ ~Promises(c))
    BY DEF Promises
  <2> HIDE DEF todo, failed, next
  <2>3. /\ y.pc = next /\ y.original = x.original /\ y.stage = x.stage
        /\ y.cleanupErr = failed /\ y.error = x.error
    BY <1>1 DEF RunStates
  <2> HIDE DEF y
  <2>4. Faulted(x) => Faulted(y)
    BY <2>1, <2>3, Zenon DEF Faulted
  <2> QED  BY <1>2, <2>1, <2>2, <2>3, <2>4
<1>4. CASE CleanupPhaseDone(r) \/ ClearActive(r)
  <2> PICK s : /\ s \in {"auto", "autoChaos"} \/ (s = "after" /\ ~c.cluster)
               /\ Set(r, [x EXCEPT !.pc = s]) \/ Set(r, [x EXCEPT !.active = {}, !.done = {}, !.pc = s])
    BY <1>4 DEF CleanupPhaseDone, ClearActive, Goto
  <2>1. ASSUME NEW y, y = [x EXCEPT !.pc = s] \/ y = [x EXCEPT !.active = {}, !.done = {}, !.pc = s]
        PROVE  /\ y.pc = s /\ y.original = x.original /\ y.stage = x.stage
               /\ y.cleanupErr = x.cleanupErr /\ y.error = x.error
    BY <1>1, <2>1 DEF RunStates
  <2>2. PICK y : /\ Set(r, y) /\ y.pc = s /\ y.original = x.original /\ y.stage = x.stage
                 /\ y.cleanupErr = x.cleanupErr /\ y.error = x.error
    BY <2>1
  <2>3. Faulted(x) => Faulted(y)
    BY <2>2 DEF Faulted
  <2> QED  BY <1>2, <2>2, <2>3
<1>5. CASE AutoDisarm(r)
  <2>1. x.pc = "auto"
    BY <1>5 DEF AutoDisarm, Tracked
  <2> PICK p : \/ Set(r, [x EXCEPT !.done = @ \cup {p}])
               \/ Set(r, [x EXCEPT !.done = @ \cup {p}, !.unanswered = @ \cup {p}, !.cleanupErr = TRUE])
    BY <1>5 DEF AutoDisarm, Tracked
  <2>2. ASSUME NEW y, \/ y = [x EXCEPT !.done = @ \cup {p}]
                      \/ y = [x EXCEPT !.done = @ \cup {p}, !.unanswered = @ \cup {p}, !.cleanupErr = TRUE]
        PROVE  /\ y.pc = x.pc /\ y.original = x.original /\ y.stage = x.stage
               /\ y.cleanupErr = x.cleanupErr \/ y.cleanupErr = TRUE
               /\ y.error = x.error
    BY <1>1, <2>2 DEF RunStates
  <2>3. PICK y : /\ Set(r, y) /\ y.pc = x.pc /\ y.original = x.original /\ y.stage = x.stage
                 /\ y.cleanupErr = x.cleanupErr \/ y.cleanupErr = TRUE
                 /\ y.error = x.error
    BY <2>2
  <2>4. Faulted(x) => Faulted(y)
    BY <2>3 DEF Faulted
  <2> QED  BY <1>2, <2>1, <2>3, <2>4
<1>6. CASE AutoDeleteChaos(r) \/ AfterCleanup(r)
  <2> PICK s, b, code :
           /\ x.cleanupErr => b
           /\ b \in BOOLEAN
           /\ s \in {"autoImages", "dead"} \/ (s = "record" /\ x.pc = "after")
           /\ \/ Set(r, [x EXCEPT !.pc = s, !.chaosCode = code, !.cleanupErr = b])
              \/ Set(r, [x EXCEPT !.cleanupErr = b, !.pc = s])
    <3>1. CASE AutoDeleteChaos(r)
      <4> PICK code : Set(r, [x EXCEPT !.pc = "autoImages", !.chaosCode = code,
                               !.cleanupErr = @ \/ code = "raised"])
        BY <3>1 DEF AutoDeleteChaos
      <4> DEFINE b == x.cleanupErr \/ code = "raised"
      <4>1. b \in BOOLEAN /\ (x.cleanupErr => b)  BY <1>1 DEF RunStates
      <4>2. Set(r, [x EXCEPT !.pc = "autoImages", !.chaosCode = code, !.cleanupErr = b])  OBVIOUS
      <4> HIDE DEF b
      <4> QED  BY <4>1, <4>2
    <3>2. CASE AfterCleanup(r)
      <4> PICK e \in BOOLEAN :
               Set(r, [x EXCEPT !.cleanupErr = @ \/ e, !.pc = IF x.unwinding THEN "dead" ELSE "record"])
        BY <3>2 DEF AfterCleanup
      <4> DEFINE b == x.cleanupErr \/ e
                 s == IF x.unwinding THEN "dead" ELSE "record"
      <4>1. b \in BOOLEAN /\ (x.cleanupErr => b)  BY <1>1 DEF RunStates
      <4>2. s \in {"dead", "record"} /\ x.pc = "after"  BY <3>2 DEF AfterCleanup
      <4>3. Set(r, [x EXCEPT !.cleanupErr = b, !.pc = s])  OBVIOUS
      <4> HIDE DEF b, s
      <4> QED  BY <4>1, <4>2, <4>3
    <3> QED  BY <1>6, <3>1, <3>2
  <2>1. ASSUME NEW y, \/ y = [x EXCEPT !.pc = s, !.chaosCode = code, !.cleanupErr = b]
                      \/ y = [x EXCEPT !.cleanupErr = b, !.pc = s]
        PROVE  /\ y.pc = s /\ y.original = x.original /\ y.stage = x.stage
               /\ y.cleanupErr = b /\ y.error = x.error
    BY <1>1, <2>1 DEF RunStates
  <2>2. PICK y : /\ Set(r, y) /\ y.pc = s /\ y.original = x.original /\ y.stage = x.stage
                 /\ y.cleanupErr = b /\ y.error = x.error
    BY <2>1
  <2>3. Faulted(x) => Faulted(y)
    BY <2>2 DEF Faulted
  <2> QED  BY <1>2, <2>2, <2>3
<1>7. CASE AutoWaitForImages(r)
  <2>1. /\ x.pc \in AfterRestoration
        /\ Set(r, [x EXCEPT !.pc = "after"]) \/ Set(r, [x EXCEPT !.pc = "after", !.cleanupErr = TRUE])
    BY <1>7 DEF AutoWaitForImages, Goto, AfterRestoration
  <2>2. ASSUME NEW y, y = [x EXCEPT !.pc = "after"] \/ y = [x EXCEPT !.pc = "after", !.cleanupErr = TRUE]
        PROVE  /\ y.pc = "after" /\ y.original = x.original /\ y.stage = x.stage
               /\ y.cleanupErr = x.cleanupErr \/ y.cleanupErr = TRUE
               /\ y.error = x.error
    BY <1>1, <2>2 DEF RunStates
  <2>3. PICK y : /\ Set(r, y) /\ y.pc = "after" /\ y.original = x.original /\ y.stage = x.stage
                 /\ y.cleanupErr = x.cleanupErr \/ y.cleanupErr = TRUE
                 /\ y.error = x.error
    BY <2>1, <2>2
  <2>4. Faulted(x) => Faulted(y)
    BY <2>3 DEF Faulted
  <2> QED  BY <1>2, <2>1, <2>3, <2>4
<1> QED  BY <1>3, <1>4, <1>5, <1>6, <1>7

\* The evidence is written, or the process is killed.
LEMMA CarriedWrites ==
  ASSUME TypeOK, NEW r \in Procs,
         \/ WriteRecord(r) \/ WritePromotion(r) \/ ImportRecord(r) \/ WriteManifest(r) \/ WriteIndex(r)
         \/ Crash(r)
  PROVE  Carried(r)
<1> DEFINE x == run[r]
<1>1. x \in RunStates /\ UNCHANGED <<config, spec, before>>
  BY DEF TypeOK, WriteRecord, WritePromotion, ImportRecord, WriteManifest, WriteIndex, Crash, cluster
<1>2. CASE Crash(r)
  <2>1. Set(r, [x EXCEPT !.pc = "dead"])  BY <1>2 DEF Crash, Goto
  <2> DEFINE y == [x EXCEPT !.pc = "dead"]
  <2>2. y.pc = "dead" /\ y.original = x.original /\ y.stage = x.stage /\ y.cleanupErr = x.cleanupErr
        /\ y.error = x.error
    BY <1>1 DEF RunStates
  <2>3. Faulted(x) => Faulted(y)  BY <2>2 DEF Faulted
  <2> HIDE DEF y
  <2> QED  BY <1>1, <2>1, <2>2, <2>3, MoveCarried DEF y
<1>3. CASE WriteRecord(r)
  <2> DEFINE error == IF x.cleanupErr /\ x.error = "none" THEN "cleanup" ELSE x.error
             next == IF x.verdict = "RED" THEN "promote" ELSE "import"
             y == [x EXCEPT !.error = error, !.pc = next]
  <2>1. Set(r, y) /\ x.pc = "record"  BY <1>3 DEF WriteRecord
  <2>2. /\ next \in {"promote", "import"}
        /\ x.error # "none" => error # "none"
        /\ x.cleanupErr => error # "none"
    OBVIOUS
  <2> HIDE DEF error, next
  <2>3. y.pc = next /\ y.original = x.original /\ y.stage = x.stage /\ y.cleanupErr = x.cleanupErr
        /\ y.error = error
    BY <1>1 DEF RunStates
  <2> HIDE DEF y
  <2>4. Carries(config[r], x, y)
    BY <2>1, <2>2, <2>3 DEF Carries, Faulted, AfterRestoration, AfterRecord, WriteStages
  <2>5. OnlyMoves(r) /\ run'[r] = y  BY <2>1, SetMoves
  <2> QED  BY <1>1, <2>4, <2>5 DEF Carried
<1>4. CASE WritePromotion(r) \/ ImportRecord(r) \/ WriteManifest(r) \/ WriteIndex(r)
  <2>1. /\ x.pc \in AfterRecord
        /\ \E s \in {"import", "manifest", "index", "done"} :
             Set(r, [x EXCEPT !.pc = s]) \/ \E i : Set(r, [x EXCEPT !.pc = s, !.imported = i])
    <3>1. x.pc \in AfterRecord
      BY <1>4 DEF WritePromotion, ImportRecord, WriteManifest, WriteIndex, AfterRecord
    <3>2. CASE ImportRecord(r)
      <4>1. \E i : Set(r, [x EXCEPT !.pc = "manifest", !.imported = i])  BY <3>2 DEF ImportRecord
      <4> QED  BY <3>1, <4>1
    <3>3. CASE WritePromotion(r) \/ WriteManifest(r) \/ WriteIndex(r)
      <4>1. \E s \in {"import", "index", "done"} : Set(r, [x EXCEPT !.pc = s])
        BY <3>3 DEF WritePromotion, WriteManifest, WriteIndex, Goto
      <4> QED  BY <3>1, <4>1
    <3> QED  BY <1>4, <3>2, <3>3
  <2> PICK s \in {"import", "manifest", "index", "done"} :
           Set(r, [x EXCEPT !.pc = s]) \/ \E i : Set(r, [x EXCEPT !.pc = s, !.imported = i])
    BY <2>1
  <2>2. ASSUME NEW y, y = [x EXCEPT !.pc = s] \/ \E i : y = [x EXCEPT !.pc = s, !.imported = i]
        PROVE  /\ y.pc = s /\ y.original = x.original /\ y.stage = x.stage
               /\ y.cleanupErr = x.cleanupErr /\ y.error = x.error
    BY <1>1, <2>2 DEF RunStates
  <2>3. PICK y : /\ Set(r, y) /\ y.pc = s /\ y.original = x.original /\ y.stage = x.stage
                 /\ y.cleanupErr = x.cleanupErr /\ y.error = x.error
    BY <2>2
  <2>4. Carries(config[r], x, y)
    BY <2>1, <2>3 DEF Carries, Faulted, AfterRestoration, AfterRecord, WriteStages
  <2>5. OnlyMoves(r) /\ run'[r] = y  BY <2>3, SetMoves
  <2> QED  BY <1>1, <2>4, <2>5 DEF Carried
<1> QED  BY <1>2, <1>3, <1>4

-----------------------------------------------------------------------------
(* The images a run has switched *)

\* A step of one run that carries its state leaves all accounts as they are.
LEMMA CarriedImages ==
  ASSUME TypeOK, ImagesInv, NEW r \in Procs, Carried(r), Opened(r)
  PROVE  ImagesInv'
<1>1. \A s \in Procs \ {r} : run'[s] = run[s] /\ (Opened(s)' <=> Opened(s))
  BY DEF Carried, OnlyMoves, Opened
<1>2. ASSUME NEW s \in Procs
      PROVE  /\ run'[s].stage # "start" => run'[s].original # Nil
             /\ Opened(s)' => KeepsImages(config'[s], run'[s], before'[s], spec')
  <2>1. CASE s = r
    <3>1. KeepsImages(config[r], run[r], before[r], spec)  BY DEF ImagesInv
    <3>2. KeepsImages(config[r], run'[r], before[r], spec)  BY <3>1, CarryKeeps DEF Carried
    <3>3. run'[r].stage # "start" => run'[r].original # Nil  BY DEF Carried, Carries, ImagesInv
    <3> QED  BY <2>1, <3>2, <3>3 DEF Carried
  <2>2. CASE s # r  BY <1>1, <2>2 DEF Carried, ImagesInv
  <2> QED  BY <2>1, <2>2
<1> QED  BY <1>2 DEF ImagesInv

\* Steps that change no run, no image the spec names, and no history.
LEMMA SameImages ==
  ASSUME ImagesInv, UNCHANGED <<config, run, spec, before>>
  PROVE  ImagesInv'
BY DEF ImagesInv, Opened

\* The images a run finds are those the history remembers.
LEMMA StartImages ==
  ASSUME EvidenceInv, ImagesInv, NEW r \in Procs, Start(r)
  PROVE  ImagesInv'
<1>1. /\ TypeOK /\ run[r] \in RunStates /\ run[r].pc = "idle" /\ ~Opened(r)
      /\ UNCHANGED <<config, spec>>
  BY DEF EvidenceInv, TypeOK, Start, Opened, cluster
<1>2. run[r].original = Nil  BY <1>1 DEF EvidenceInv, Traced
<1>3. PICK s \in {"preflight", "refused"} :
        /\ Goto(r, s)
        /\ s = "preflight" => before' = [before EXCEPT ![r] = spec]
        /\ s = "refused" => UNCHANGED before
  BY DEF Start
<1>4. run'[r] = [run[r] EXCEPT !.pc = s] /\ OnlyMoves(r)  BY <1>1, <1>3, GotoMoves
<1>5. /\ run'[r].pc = s /\ run'[r].original = Nil /\ run'[r].stage = run[r].stage
      /\ run'[r].cleanupErr = run[r].cleanupErr
  BY <1>1, <1>2, <1>4 DEF RunStates
<1>6. run'[r].stage # "start" => run'[r].original # Nil  BY <1>2, <1>5 DEF ImagesInv
<1>7. \A o \in Procs \ {r} : before'[o] = before[o]  BY <1>1, <1>3 DEF TypeOK
<1>8. ASSUME Opened(r)' PROVE KeepsImages(config'[r], run'[r], before'[r], spec')
  <2>1. s = "preflight"  BY <1>5, <1>8 DEF Opened
  <2>2. before'[r] = spec /\ spec \in ImageMaps  BY <1>1, <1>3, <2>1 DEF TypeOK
  <2>3. run'[r].pc \notin AfterRestoration /\ run'[r].pc \notin AfterRecord
    BY <1>5, <2>1, Earlier
  <2> QED  BY <1>1, <1>5, <2>2, <2>3 DEF KeepsImages
<1>9. ASSUME NEW o \in Procs \ {r}
      PROVE  /\ run'[o].stage # "start" => run'[o].original # Nil
             /\ Opened(o)' => KeepsImages(config'[o], run'[o], before'[o], spec')
  BY <1>1, <1>4, <1>7 DEF OnlyMoves, Opened, ImagesInv
<1> QED  BY <1>6, <1>8, <1>9 DEF ImagesInv

\* A step of a run that switches images: the others have none open.
LEMMA SwitchImages ==
  ASSUME TypeOK, ImagesInv, SwitchesAlone, NEW r \in Procs, Opened(r), Orders(config[r], "image_switch"),
         OnlyMoves(r), UNCHANGED <<config, before>>,
         run'[r].stage # "start" => run'[r].original # Nil,
         KeepsImages(config[r], run'[r], before[r], spec')
  PROVE  ImagesInv'
<1>1. ASSUME NEW s \in Procs \ {r} PROVE ~Opened(s)' /\ run'[s] = run[s]
  BY DEF SwitchesAlone, OnlyMoves, Opened
<1> QED  BY <1>1 DEF ImagesInv

\* A capture, a switch and a restoration.
LEMMA SwitchStepImages ==
  ASSUME EvidenceInv, ImagesInv, SwitchesAlone, NEW r \in Procs,
         CaptureImages(r) \/ PatchImages(r) \/ AutoRestore(r)
  PROVE  ImagesInv'
<1> DEFINE x == run[r]
           c == config[r]
           b == before[r]
<1>1. /\ TypeOK /\ x \in RunStates /\ Traced(r) /\ FromPlan(c, x) /\ Opened(r)
      /\ UNCHANGED <<config, before>>
  BY DEF EvidenceInv, TypeOK, Traced, CaptureImages, PatchImages, AutoRestore, Executing, Opened, cluster
<1>2. KeepsImages(c, x, b, spec) /\ (x.stage # "start" => x.original # Nil)  BY <1>1 DEF ImagesInv
<1>3. CASE CaptureImages(r)
  <2>1. /\ x.pc \in {"main", "cleanup"} /\ x.queue # <<>> /\ Head(x.queue).kind = "image_switch"
        /\ UNCHANGED spec /\ c.cluster
    BY <1>3 DEF CaptureImages, Executing, cluster, ClusterKinds
  <2>2. Orders(c, "image_switch")  BY <1>1, <2>1, AdvanceProgress DEF Orders
  <2>3. CASE Fail(r)
    <3>1. x.pc \in TryStages \cup {"cleanup"}  BY <2>1 DEF TryStages
    <3> QED  BY <1>1, <2>1, <2>3, <3>1, FailCarried, CarriedImages
  <2>4. CASE Set(r, [x EXCEPT !.stage = "patch", !.original = Snapshot(x)])
    <3> DEFINE original == Snapshot(x)
               y == [x EXCEPT !.stage = "patch", !.original = original]
    <3>1. original = b /\ b # Nil  BY <1>2, ConstantsAssumption DEF Snapshot, KeepsImages
    <3>2. OnlyMoves(r) /\ run'[r] = y  BY <1>1, <2>4, SetMoves
    <3> HIDE DEF original
    <3>3. y.pc = x.pc /\ y.original = b  BY <1>1, <3>1 DEF RunStates
    <3> HIDE DEF y
    <3>4. y.pc \notin AfterRestoration /\ y.pc \notin AfterRecord  BY <2>1, <3>3, Earlier
    <3>5. KeepsImages(c, y, b, spec)  BY <1>2, <2>1, <3>1, <3>3, <3>4 DEF KeepsImages
    <3> QED  BY <1>1, <2>1, <2>2, <3>1, <3>2, <3>3, <3>5, SwitchImages
  <2> QED  BY <1>3, <2>3, <2>4 DEF CaptureImages
<1>4. CASE PatchImages(r)
  <2>1. /\ x.pc \in {"main", "cleanup"} /\ x.queue # <<>> /\ Head(x.queue).kind = "image_switch"
        /\ x.stage = "patch"
    BY <1>4 DEF PatchImages, Executing
  <2>2. Orders(c, "image_switch")  BY <1>1, <2>1, AdvanceProgress DEF Orders
  <2>3. x.original # Nil  BY <1>2, <2>1
  <2>4. Fail(r) \/ Set(r, [x EXCEPT !.stage = "rollout"])  BY <1>4 DEF PatchImages
  <2>5. PICK y : /\ Set(r, y) /\ y.original = x.original
                 /\ y.pc \in {"main", "cleanup", "auto", "final"}
    <3>1. CASE Fail(r)
      <4>1. Raised(x).original = x.original /\ Raised(x).pc \in {"auto", "final"}
        BY <1>1 DEF Raised, Left, RunStates
      <4>2. Interrupted(x).original = x.original /\ Interrupted(x).pc = "final"
        BY <1>1 DEF Interrupted, Left, RunStates
      <4> QED  BY <3>1, <4>1, <4>2 DEF Fail, FailFrom
    <3>2. CASE Set(r, [x EXCEPT !.stage = "rollout"])
      <4>1. [x EXCEPT !.stage = "rollout"].original = x.original /\ [x EXCEPT !.stage = "rollout"].pc = x.pc
        BY <1>1 DEF RunStates
      <4> QED  BY <2>1, <3>2, <4>1
    <3> QED  BY <2>4, <3>1, <3>2
  <2>6. OnlyMoves(r) /\ run'[r] = y  BY <1>1, <2>5, SetMoves
  <2>7. y.pc \notin AfterRestoration /\ y.pc \notin AfterRecord  BY <2>5, Earlier
  <2>8. KeepsImages(c, y, b, spec')  BY <1>2, <2>3, <2>5, <2>7 DEF KeepsImages
  <2> QED  BY <1>1, <2>2, <2>3, <2>5, <2>6, <2>8, SwitchImages
<1>5. CASE AutoRestore(r)
  <2>1. x.pc = "autoImages"  BY <1>5 DEF AutoRestore
  <2>2. CASE x.original # Nil /\ c.restore_images
    <3>1. Orders(c, "image_switch") /\ x.original = b
      BY <1>1, <1>2, <2>2 DEF Traced, KeepsImages
    <3>2. CASE Patched(b) /\ Goto(r, "autoRollout")
      <4>1. OnlyMoves(r) /\ run'[r] = [x EXCEPT !.pc = "autoRollout"]  BY <1>1, <3>2, GotoMoves
      <4>2. run'[r].pc = "autoRollout" /\ run'[r].original = b /\ run'[r].stage = x.stage
        BY <1>1, <3>1, <4>1 DEF RunStates
      <4>3. Returned(b, spec')  BY <3>2 DEF Patched, Returned
      <4>4. run'[r].pc \notin AfterRecord  BY <4>2 DEF AfterRecord
      <4>5. KeepsImages(c, run'[r], b, spec')
        BY <1>2, <2>2, <3>1, <4>2, <4>3, <4>4 DEF KeepsImages
      <4> QED  BY <1>1, <2>2, <3>1, <4>1, <4>2, <4>5, SwitchImages
    <3>3. CASE Set(r, [x EXCEPT !.pc = "after", !.cleanupErr = TRUE])
      <4> DEFINE y == [x EXCEPT !.pc = "after", !.cleanupErr = TRUE]
      <4>1. OnlyMoves(r) /\ run'[r] = y  BY <1>1, <3>3, SetMoves
      <4>2. y.pc = "after" /\ y.original = b /\ y.stage = x.stage /\ y.cleanupErr = TRUE
        BY <1>1, <3>1 DEF RunStates
      <4> HIDE DEF y
      <4>3. y.pc \notin AfterRecord /\ Faulted(y)  BY <4>2 DEF AfterRecord, Faulted
      <4>4. KeepsImages(c, y, b, spec')
        BY <1>2, <2>2, <3>1, <4>2, <4>3 DEF KeepsImages
      <4> QED  BY <1>1, <2>2, <3>1, <4>1, <4>2, <4>4, SwitchImages
    <3> QED  BY <1>5, <2>2, <3>1, <3>2, <3>3 DEF AutoRestore
  <2>3. CASE ~(x.original # Nil /\ c.restore_images)
    <3>1. Goto(r, "after") /\ UNCHANGED spec  BY <1>5, <2>3 DEF AutoRestore
    <3>2. OnlyMoves(r) /\ run'[r] = [x EXCEPT !.pc = "after"]  BY <1>1, <3>1, GotoMoves
    <3>3. /\ run'[r].pc = "after" /\ run'[r].original = x.original /\ run'[r].stage = x.stage
          /\ run'[r].cleanupErr = x.cleanupErr /\ run'[r].error = x.error
      BY <1>1, <3>2 DEF RunStates
    <3>4. run'[r].pc \notin AfterRecord  BY <3>3 DEF AfterRecord
    <3>5. Carries(c, x, run'[r])  BY <2>3, <3>3, <3>4 DEF Carries, Faulted, Promises
    <3> QED  BY <1>1, <3>1, <3>2, <3>5, CarriedImages DEF Carried
  <2> QED  BY <2>2, <2>3
<1> QED  BY <1>3, <1>4, <1>5

\* One step, while a run that switches images works alone.
LEMMA ImagesStep == EvidenceInv /\ ImagesInv /\ SwitchesAlone /\ [Next]_vars => ImagesInv'
<1> SUFFICES ASSUME EvidenceInv, ImagesInv, SwitchesAlone, [Next]_vars PROVE ImagesInv'
  OBVIOUS
<1>1. TypeOK  BY DEF EvidenceInv
<1>2. ASSUME NEW r \in Procs, Carried(r), run[r].pc \notin {"idle", "refused"} PROVE ImagesInv'
  BY <1>1, <1>2, CarriedImages DEF Opened
<1>3. ASSUME NEW r \in Procs, Step(r) \/ Crash(r) PROVE ImagesInv'
  <2>1. CASE Start(r)  BY <2>1, StartImages
  <2>2. CASE CaptureImages(r) \/ PatchImages(r) \/ AutoRestore(r)  BY <2>2, SwitchStepImages
  <2>3. CASE \/ Preflight(r) \/ Work(r) \/ PhasesDone(r) \/ EvaluateOracle(r)
             \/ ArmFailpoint(r) \/ DisarmFailpoint(r) \/ ApplyChaos(r) \/ DeleteChaos(r) \/ WaitForImages(r)
    <3>1. run[r].pc \notin {"idle", "refused"}
      BY <2>3 DEF Preflight, Work, PhasesDone, EvaluateOracle, ArmFailpoint, DisarmFailpoint, ApplyChaos,
         DeleteChaos, WaitForImages, Executing
    <3> QED  BY <1>1, <1>2, <2>3, <3>1, CarriedTry
  <2>4. CASE \/ PreCleanup(r) \/ CleanupPhaseDone(r) \/ AutoDisarm(r) \/ ClearActive(r)
             \/ AutoDeleteChaos(r) \/ AutoWaitForImages(r) \/ AfterCleanup(r)
    <3>1. run[r].pc \notin {"idle", "refused"}
      BY <2>4 DEF PreCleanup, CleanupPhaseDone, AutoDisarm, ClearActive, AutoDeleteChaos,
         AutoWaitForImages, AfterCleanup
    <3>2. run[r].original # Nil => config[r].cluster
      BY <3>1 DEF ImagesInv, Opened, KeepsImages
    <3> QED  BY <1>1, <1>2, <2>4, <3>1, <3>2, CarriedCleanup
  <2>5. CASE \/ WriteRecord(r) \/ WritePromotion(r) \/ ImportRecord(r) \/ WriteManifest(r) \/ WriteIndex(r)
             \/ Crash(r)
    <3>1. run[r].pc \notin {"idle", "refused"}
      BY <2>5 DEF WriteRecord, WritePromotion, ImportRecord, WriteManifest, WriteIndex, Crash, Terminal
    <3> QED  BY <1>1, <1>2, <2>5, <3>1, CarriedWrites
  <2> QED  BY <1>3, <2>1, <2>2, <2>3, <2>4, <2>5 DEF Step
<1>4. CASE (\E r \in Procs : Rescue(r)) \/ (\E c \in Components : Rollout(c)) \/ UNCHANGED vars
  <2>1. UNCHANGED <<config, run, spec, before>>
    BY <1>4 DEF Rescue, BeginRescue, RescueFailpoint, RescueChaos, Rollout, vars, cluster
  <2> QED  BY <2>1, SameImages
<1> QED  BY <1>3, <1>4 DEF Next

\* When a run that switches images works on the cluster alone, images are back
\* after it: a run that reports ok and restores images leaves every component
\* that had a baseImage at the image the run found.
THEOREM ImagesRestoredHolds == Spec /\ []SwitchesAlone => []ImagesRestored
<1>1. Init => ImagesInv
  <2> SUFFICES ASSUME Init, NEW r \in Procs PROVE run[r].stage = "start" /\ ~Opened(r)
    BY DEF ImagesInv
  <2> QED  BY DEF Init, InitRun, Opened
<1>2. ImagesInv => ImagesRestored
  <2> SUFFICES ASSUME ImagesInv, NEW r \in Procs, Ok(r), config[r].auto_cleanup, config[r].restore_images,
                      NEW c \in Components, before[r][c] # Nil
               PROVE  spec[c] = before[r][c]
    BY DEF ImagesRestored
  <2>1. run[r].pc = "done" /\ run[r].error = "none"  BY DEF Ok
  <2>2. KeepsImages(config[r], run[r], before[r], spec)  BY <2>1 DEF ImagesInv, Opened
  <2>3. ~Faulted(run[r])  BY <2>1, <2>2 DEF KeepsImages, Faulted, AfterRecord
  <2> QED  BY <2>1, <2>2, <2>3 DEF KeepsImages, Returned, Promises, AfterRestoration
<1> QED  BY <1>1, <1>2, ImagesStep, EvidenceInvHolds, PTL DEF Spec

=============================================================================
