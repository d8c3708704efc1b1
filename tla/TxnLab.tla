------------------------------- MODULE TxnLab -------------------------------
(***************************************************************************)
(* The experiment control plane of tools/txnlab: invocations of            *)
(* TxnLab.run (runner.py) and of TxnLab.emergency_cleanup against one      *)
(* TidbCluster, through the operations of kube.py.                         *)
(*                                                                         *)
(* An invocation r is a Python process; run[r] is its `self' together with *)
(* the locals of run().  The cluster is shared by every invocation: who    *)
(* last armed each HTTP failpoint (the cluster itself only knows armed or  *)
(* not), the run-key label of each Chaos object, and for each component    *)
(* the image its TidbCluster spec names and the image its pods run.        *)
(*                                                                         *)
(* A request to the cluster is answered, refused before it had an effect,  *)
(* or takes effect and is then lost (a timeout or a closed port-forward):  *)
(* the caller sees an exception in the last two cases.  `Faults' names the *)
(* failures the environment may produce.                                   *)
(***************************************************************************)
EXTENDS Naturals, Sequences, FiniteSets

CONSTANTS
  Procs,        \* invocations of `txnlab run'
  Points,       \* failpoints: a component, a pod and a failpoint name
  Objects,      \* Chaos Mesh objects, named by their manifests
  Components,   \* tidb, tikv, pd
  Images,       \* image references
  Keys,         \* run keys
  HostOf,       \* the component whose pod hosts a failpoint
  Configs,      \* experiment files an invocation may load
  InitSpecs,    \* image specs the cluster may start with
  Faults,       \* failures that may happen
  Rescuers,     \* invocations whose config an operator may clean up
  Nil

Phases == <<"prepare", "arm", "workload", "observe", "cleanup">>

\* The kinds that change the cluster: MUTATING_ACTIONS.
MutatingKinds ==
  {"sql", "failpoint_arm", "failpoint_disarm", "chaos_apply", "chaos_delete", "image_switch"}

\* wait_log, collect and sleep leave the cluster alone; so does a command
\* that declares read_only.
Kinds == MutatingKinds \cup {"command", "read_only_command", "observe"}

ImageMaps == [Components -> Images \cup {Nil}]

\* Failpoints of one component: the pods a failpoint action may select.
OneComponent == {S \in SUBSET Points : \A p, q \in S : HostOf[p] = HostOf[q]}

\* An enabled action of the TOML file: the failpoints it selects, its manifest, the
\* components an image_switch names, and whether it says that it mutates the cluster.
Actions ==
  [kind : Kinds, points : OneComponent, object : Objects,
   components : SUBSET Components, mutates : BOOLEAN]

\* plan[phase] is what actions_for(phase) returns: the enabled actions of the
\* phase in file order (a disabled action is skipped by every reader); images
\* holds the [images] table, Nil for a component it does not name.
ConfigRecords ==
  [environment : {"local", "testbed"}, cluster : BOOLEAN,
   allow_mutation : BOOLEAN, cli_allow : BOOLEAN,
   auto_cleanup : BOOLEAN, restore_images : BOOLEAN, auto_import : BOOLEAN,
   oracle : BOOLEAN, run_key : Keys, images : ImageMaps,
   plan : [{Phases[i] : i \in 1..5} -> Seq(Actions)]]

ASSUME ConstantsAssumption ==
  /\ Nil \notin Procs \cup Keys \cup Images \cup ImageMaps
  /\ HostOf \in [Points -> Components]
  /\ Configs \subseteq ConfigRecords
  /\ InitSpecs \subseteq ImageMaps
  /\ Rescuers \subseteq Procs
-----------------------------------------------------------------------------
VARIABLES
  config,    \* the experiment file of each invocation; never changes
  run,       \* the state of each invocation
  rescue,    \* the state of each `txnlab cleanup' invocation
  bundles,   \* files of the evidence bundle of each run key, with the directory itself
  armed,     \* who last armed a failpoint, Nil when it is not armed
  chaos,     \* run-key label of each Chaos object, Nil when it does not exist
  spec,      \* image each component's TidbCluster spec names, Nil: no baseImage
  running,   \* image each component's pods run
  before     \* history: the image spec when an invocation opened its bundle

cluster == <<armed, chaos, spec, running>>
vars == <<config, run, rescue, bundles, armed, chaos, spec, running, before>>

TryStages   == {"preflight", "main", "oracle"}
CleanStages == {"final", "cleanup", "auto", "autoChaos", "autoImages", "autoRollout", "after"}
WriteStages == {"record", "promote", "import", "manifest", "index"}
Terminal    == {"refused", "done", "dead"}
Stages      == {"idle"} \cup TryStages \cup CleanStages \cup WriteStages \cup Terminal
Verdicts    == {"INFO", "RED", "GREEN", "INVALID"}
Files       == {"directory", "record", "promotion", "manifest", "index"}
Codes       == {"none", "zero", "nonzero", "raised"}

RunStates ==
  [pc : Stages,
   queue : Seq(Actions),                        \* actions left in the phases being run
   done : SUBSET Points,                        \* pods already served by the current loop
   stage : {"start", "patch", "rollout"},       \* progress of an image_switch
   active : SUBSET Points,                      \* active_failpoints
   unanswered : SUBSET Points,                  \* history: see Missed
   original : ImageMaps \cup {Nil},             \* original_image_state
   verdict : Verdicts,
   error : {"none", "run", "cleanup"},
   cleanupErr : BOOLEAN,                        \* an entry of `cleanup' has an error key
   chaosCode : Codes,                           \* returncode the automatic deletion recorded
   unwinding : BOOLEAN,                         \* an interrupt runs `finally' and propagates
   imported : {"no", "yes", "failed"}]

RescueStates ==
  [pc : {"idle", "points", "done", "dead"}, done : SUBSET Points,
   failed : BOOLEAN, code : Codes, late : BOOLEAN]

TypeOK ==
  /\ config \in [Procs -> Configs]
  /\ run \in [Procs -> RunStates]
  /\ rescue \in [Procs -> RescueStates]
  /\ bundles \in [Keys -> SUBSET Files]
  /\ armed \in [Points -> Procs \cup {Nil}]
  /\ chaos \in [Objects -> Keys \cup {Nil}]
  /\ spec \in ImageMaps
  /\ running \in ImageMaps
  /\ before \in [Procs -> ImageMaps \cup {Nil}]
-----------------------------------------------------------------------------
(* config.py and the mutation gate *)

ActionsFor(c, phase) == c.plan[phase]

Enabled(c) == UNION {{ActionsFor(c, Phases[i])[j] : j \in DOMAIN ActionsFor(c, Phases[i])} : i \in 1..5}

\* Mutant of MutationRequired: the deletion and application of Chaos objects
\* are not thought of.
MutationRequiredNoChaos(c) ==
  /\ c.environment = "testbed"
  /\ \E a \in Enabled(c) :
       a.kind \in MutatingKinds \ {"chaos_apply", "chaos_delete"} \/ a.kind = "command" \/ a.mutates

MutationRequired(c) ==
  /\ c.environment = "testbed"
  /\ \E a \in Enabled(c) : a.kind \in MutatingKinds \/ a.kind = "command" \/ a.mutates

GateOpen(c) == MutationRequired(c) => c.allow_mutation /\ c.cli_allow

ClusterKinds == {"failpoint_arm", "failpoint_disarm", "chaos_apply", "chaos_delete", "image_switch"}

ValidConfig(c) ==
  /\ c.environment = "testbed" => c.cluster
  /\ (\E a \in Enabled(c) : a.kind \in ClusterKinds) => c.cluster
  /\ MutationRequired(c) => c.auto_cleanup
  /\ \A a \in Enabled(c) : a.kind \in {"failpoint_arm", "failpoint_disarm"} => a.points # {}

\* Mutant of ArmPoints: the wrong action kind is looked up.
DisarmPoints(c) == UNION {a.points : a \in {b \in Enabled(c) : b.kind = "failpoint_disarm"}}

\* The failpoints emergency_cleanup finds in a config.
ArmPoints(c) == UNION {a.points : a \in {b \in Enabled(c) : b.kind = "failpoint_arm"}}
-----------------------------------------------------------------------------
(* helpers over the state of one invocation *)

Key(r) == config[r].run_key
Set(r, x) == run' = [run EXCEPT ![r] = x]
Goto(r, stage) == Set(r, [run[r] EXCEPT !.pc = stage])

\* Leave the current action; its loop and rollout progress are gone.
Left(x, stage) == [x EXCEPT !.pc = stage, !.queue = <<>>, !.done = {}, !.stage = "start"]

\* Mutant of Raised: the handler rewrites the verdict and forgets the error.
RaisedNoError(x) ==
  IF x.pc = "cleanup"
  THEN [Left(x, "auto") EXCEPT !.cleanupErr = TRUE]
  ELSE [Left(x, "final") EXCEPT !.verdict = "INVALID"]

\* The exception handler of run() for the try block, of `finally' for the
\* configured cleanup phase.
Raised(x) ==
  IF x.pc = "cleanup"
  THEN [Left(x, "auto") EXCEPT !.cleanupErr = TRUE]
  ELSE [Left(x, "final") EXCEPT !.error = "run", !.verdict = "INVALID"]

\* KeyboardInterrupt is no Exception: `finally' runs, then it propagates.
Interrupted(x) == [Left(x, "final") EXCEPT !.unwinding = TRUE]

FailFrom(r, x) ==
  \/ Set(r, Raised(x))
  \/ /\ "interrupt" \in Faults
     /\ x.pc \in TryStages
     /\ Set(r, Interrupted(x))

Fail(r) == FailFrom(r, run[r])

\* The next action of the phase starts.
Advanced(x) == [x EXCEPT !.queue = Tail(@), !.done = {}, !.stage = "start"]

\* One pod of a failpoint action is served.
Served(x, p) ==
  IF x.done \cup {p} = Head(x.queue).points THEN Advanced(x) ELSE [x EXCEPT !.done = @ \cup {p}]

\* Mutant of Recorded: only the last pod is remembered.
RecordedLast(x, p) == [x EXCEPT !.active = {p}, !.unanswered = @ \ {p}]

\* active_failpoints.append after set_failpoint returned.
Recorded(x, p) == [x EXCEPT !.active = @ \cup {p}, !.unanswered = @ \ {p}]

\* History: the failpoints the run asked to be armed, or the automatic cleanup to
\* be disarmed, and never heard of again.
Missed(x, p) == [x EXCEPT !.unanswered = @ \cup {p}]

\* Mutant of Tracked: only a run that went well is cleaned up.
TrackedUnlessFailed(x) == IF x.error = "none" THEN x.active ELSE {}

\* What _automatic_cleanup goes through.
Tracked(x) == x.active

\* Mutant of Snapshot: every image_switch takes a new one.
SnapshotAgain(x) == spec

\* The image state image_switch remembers, taken by the first one of a run.
Snapshot(x) == IF x.original = Nil THEN spec ELSE x.original

Executing(r, kinds) ==
  /\ run[r].pc \in {"main", "cleanup"}
  /\ run[r].queue # <<>>
  /\ Head(run[r].queue).kind \in kinds
  /\ kinds \subseteq ClusterKinds => config[r].cluster   \* assert self.kube is not None
-----------------------------------------------------------------------------
(* the cluster, as kube.py sees it *)

\* A request that raised either had no effect or had it and lost its answer.
Unanswered(effect, noEffect) ==
  \/ "lost" \in Faults /\ effect
  \/ "refused" \in Faults /\ noEffect

Armed(p, r) == armed' = [armed EXCEPT ![p] = r]
Disarmed(p) == armed' = [armed EXCEPT ![p] = Nil]

Owned(k) == {o \in Objects : chaos[o] = k}

\* Mutant of ChaosDeleted: a Chaos kind is missing from the list of kinds.
ChaosDeletedSome(k, code) ==
  \E gone \in SUBSET Owned(k) :
    chaos' = [o \in Objects |-> IF o \in gone THEN Nil ELSE chaos[o]]

\* delete_chaos_for_run runs kubectl with check=False: a nonzero exit code is
\* returned to the caller, and some of the objects may be gone.
ChaosDeleted(k, code) ==
  \E gone \in SUBSET Owned(k) :
    /\ code = "zero" => gone = Owned(k)
    /\ code = "nonzero" => "nonzero" \in Faults
    /\ code = "raised" => "refused" \in Faults
    /\ chaos' = [o \in Objects |-> IF o \in gone THEN Nil ELSE chaos[o]]

\* Mutant of DeadlinePassed: the poll has no deadline.
NoDeadline(r) == FALSE

\* wait_for_images gives up at its deadline, however far the rollout is.
DeadlinePassed(r) == "timeout" \in Faults

\* A merge patch changes the components it names: those selected by
\* patch_images, those with a baseImage in restore_images.
Patched(m) == spec' = [c \in Components |-> IF m[c] = Nil THEN spec[c] ELSE m[c]]

Converged(m) == \A c \in Components : m[c] # Nil => running[c] = m[c]

\* The operator rolls a component to the image its spec names; its pods
\* restart and forget the failpoints they were told over HTTP.
Rollout(c) ==
  /\ running[c] # spec[c]
  /\ running' = [running EXCEPT ![c] = spec[c]]
  /\ armed' = [p \in Points |-> IF HostOf[p] = c THEN Nil ELSE armed[p]]
  /\ UNCHANGED <<config, run, rescue, bundles, chaos, spec, before>>
-----------------------------------------------------------------------------
(* TxnLab.run: the gate, the bundle and the try block *)

\* Mutant of MayOpen: the bundle of a run that never finished is reused.
MayReopen(k) == "directory" \notin bundles[k] \/ "index" \notin bundles[k]

\* mkdir(exist_ok=False) refuses a run key that has a bundle.
MayOpen(k) == "directory" \notin bundles[k]

Start(r) ==
  /\ run[r].pc = "idle"
  /\ IF GateOpen(config[r]) /\ MayOpen(Key(r))
     THEN /\ Goto(r, "preflight")
          /\ bundles' = [bundles EXCEPT ![Key(r)] = {"directory"}]
          /\ before' = [before EXCEPT ![r] = spec]
     ELSE Goto(r, "refused") /\ UNCHANGED <<bundles, before>>
  /\ UNCHANGED <<config, rescue, cluster>>

\* Tools, worktrees, image labels, cluster readiness and the first snapshot.
Preflight(r) ==
  /\ run[r].pc = "preflight"
  /\ \/ Set(r, [run[r] EXCEPT !.pc = "main",
                  !.queue = ActionsFor(config[r], "prepare") \o ActionsFor(config[r], "arm")
                              \o ActionsFor(config[r], "workload") \o ActionsFor(config[r], "observe")])
     \/ "refused" \in Faults /\ Fail(r)
  /\ UNCHANGED <<config, rescue, bundles, cluster, before>>

\* command, sql, wait_log, collect, sleep.
Work(r) ==
  /\ Executing(r, Kinds \ ClusterKinds)
  /\ \/ /\ Head(run[r].queue).kind = "sql" => config[r].cluster
        /\ Set(r, Advanced(run[r]))
     \/ "refused" \in Faults /\ Fail(r)
  /\ UNCHANGED <<config, rescue, bundles, cluster, before>>

\* self.config.images[name] for the components of an image_switch.
Selectable(c, a) == \A k \in a.components : c.images[k] # Nil
Selected(c, a) == [k \in Components |-> IF k \in a.components THEN c.images[k] ELSE Nil]

\* A pod whose answer is lost is armed and not recorded.
ArmFailpoint(r) ==
  /\ Executing(r, {"failpoint_arm"})
  /\ \E p \in Head(run[r].queue).points \ run[r].done :
       \/ Armed(p, r) /\ Set(r, Served(Recorded(run[r], p), p))
       \/ Unanswered(Armed(p, r), UNCHANGED armed) /\ FailFrom(r, Missed(run[r], p))
  /\ UNCHANGED <<config, rescue, bundles, chaos, spec, running, before>>

DisarmFailpoint(r) ==
  /\ Executing(r, {"failpoint_disarm"})
  /\ \E p \in Head(run[r].queue).points \ run[r].done :
       \/ Disarmed(p) /\ Set(r, Served([run[r] EXCEPT !.active = @ \ {p}], p))
       \/ Unanswered(Disarmed(p), UNCHANGED armed) /\ Fail(r)
  /\ UNCHANGED <<config, rescue, bundles, chaos, spec, running, before>>

\* kubectl apply labels the object with this run's key, whoever had it.
ApplyChaos(r) ==
  /\ Executing(r, {"chaos_apply"})
  /\ LET labelled == chaos' = [chaos EXCEPT ![Head(run[r].queue).object] = Key(r)]
     IN  \/ labelled /\ Set(r, Advanced(run[r]))
         \/ Unanswered(labelled, UNCHANGED chaos) /\ Fail(r)
  /\ UNCHANGED <<config, rescue, bundles, armed, spec, running, before>>

DeleteChaos(r) ==
  /\ Executing(r, {"chaos_delete"})
  /\ \/ \E code \in {"zero", "nonzero"} : ChaosDeleted(Key(r), code) /\ Set(r, Advanced(run[r]))
     \/ ChaosDeleted(Key(r), "raised") /\ Fail(r)
  /\ UNCHANGED <<config, rescue, bundles, armed, spec, running, before>>

\* image_switch looks its images up and reads the image state once per run, ...
CaptureImages(r) ==
  /\ Executing(r, {"image_switch"}) /\ run[r].stage = "start"
  /\ LET found == Selectable(config[r], Head(run[r].queue))
     IN  \/ found /\ Set(r, [run[r] EXCEPT !.stage = "patch", !.original = Snapshot(run[r])])
         \/ (~found \/ "refused" \in Faults) /\ Fail(r)
  /\ UNCHANGED <<config, rescue, bundles, cluster, before>>

\* ... patches the selected components ...
PatchImages(r) ==
  /\ Executing(r, {"image_switch"}) /\ run[r].stage = "patch"
  /\ LET images == Selected(config[r], Head(run[r].queue))
     IN  \/ Patched(images) /\ Set(r, [run[r] EXCEPT !.stage = "rollout"])
         \/ Unanswered(Patched(images), UNCHANGED spec) /\ Fail(r)
  /\ UNCHANGED <<config, rescue, bundles, armed, chaos, running, before>>

\* ... and polls until the rollout converged or the deadline passed.
WaitForImages(r) ==
  /\ Executing(r, {"image_switch"}) /\ run[r].stage = "rollout"
  /\ \/ Converged(Selected(config[r], Head(run[r].queue))) /\ Set(r, Advanced(run[r]))
     \/ DeadlinePassed(r) /\ Fail(r)
  /\ UNCHANGED <<config, rescue, bundles, cluster, before>>

PhasesDone(r) ==
  /\ run[r].pc = "main" /\ run[r].queue = <<>>
  /\ Goto(r, "oracle")
  /\ UNCHANGED <<config, rescue, bundles, cluster, before>>

\* The oracle judges the evidence; a missing or malformed input file raises.
EvaluateOracle(r) ==
  /\ run[r].pc = "oracle"
  /\ \/ \E v \in (IF config[r].oracle THEN {"RED", "GREEN", "INVALID"} ELSE {"INFO"}) :
          Set(r, [run[r] EXCEPT !.pc = "final", !.verdict = v])
     \/ "refused" \in Faults /\ config[r].oracle /\ Fail(r)
  /\ UNCHANGED <<config, rescue, bundles, cluster, before>>
-----------------------------------------------------------------------------
(* TxnLab.run: the finally block *)

\* Snapshot and logs before the cleanup; a failure is an error entry.
PreCleanup(r) ==
  /\ run[r].pc = "final"
  /\ \E e \in BOOLEAN :
       /\ e => config[r].cluster /\ "refused" \in Faults
       /\ Set(r, [run[r] EXCEPT !.cleanupErr = @ \/ e,
                    !.pc = IF config[r].auto_cleanup THEN "cleanup" ELSE "after",
                    !.queue = IF config[r].auto_cleanup THEN ActionsFor(config[r], "cleanup") ELSE <<>>])
  /\ UNCHANGED <<config, rescue, bundles, cluster, before>>

CleanupPhaseDone(r) ==
  /\ run[r].pc = "cleanup" /\ run[r].queue = <<>>
  /\ Goto(r, IF config[r].cluster THEN "auto" ELSE "after")
  /\ UNCHANGED <<config, rescue, bundles, cluster, before>>

\* Each recorded failpoint is deleted; an exception is an entry, the loop goes on.
AutoDisarm(r) ==
  /\ run[r].pc = "auto"
  /\ \E p \in Tracked(run[r]) \ run[r].done :
       \/ Disarmed(p) /\ Set(r, [run[r] EXCEPT !.done = @ \cup {p}])
       \/ /\ Unanswered(Disarmed(p), UNCHANGED armed)
          /\ Set(r, [run[r] EXCEPT !.done = @ \cup {p}, !.unanswered = @ \cup {p}, !.cleanupErr = TRUE])
  /\ UNCHANGED <<config, rescue, bundles, chaos, spec, running, before>>

ClearActive(r) ==
  /\ run[r].pc = "auto" /\ Tracked(run[r]) \subseteq run[r].done
  /\ Set(r, [run[r] EXCEPT !.active = {}, !.done = {},
               !.pc = IF config[r].cluster THEN "autoChaos" ELSE "after"])
  /\ UNCHANGED <<config, rescue, bundles, cluster, before>>

AutoDeleteChaos(r) ==
  /\ run[r].pc = "autoChaos"
  /\ \E code \in {"zero", "nonzero", "raised"} :
       /\ ChaosDeleted(Key(r), code)
       /\ Set(r, [run[r] EXCEPT !.pc = "autoImages", !.chaosCode = code,
                    !.cleanupErr = @ \/ code = "raised"])
  /\ UNCHANGED <<config, rescue, bundles, armed, spec, running, before>>

AutoRestore(r) ==
  /\ run[r].pc = "autoImages"
  /\ LET x == run[r]
     IN  IF x.original # Nil /\ config[r].restore_images
         THEN \/ Patched(x.original) /\ Goto(r, "autoRollout")
              \/ /\ Unanswered(Patched(x.original), UNCHANGED spec)
                 /\ Set(r, [x EXCEPT !.pc = "after", !.cleanupErr = TRUE])
         ELSE Goto(r, "after") /\ UNCHANGED spec
  /\ UNCHANGED <<config, rescue, bundles, armed, chaos, running, before>>

AutoWaitForImages(r) ==
  /\ run[r].pc = "autoRollout"
  /\ \/ Converged(run[r].original) /\ Goto(r, "after")
     \/ DeadlinePassed(r) /\ Set(r, [run[r] EXCEPT !.pc = "after", !.cleanupErr = TRUE])
  /\ UNCHANGED <<config, rescue, bundles, cluster, before>>

\* The last snapshot and logs; a propagating interrupt ends the process here.
AfterCleanup(r) ==
  /\ run[r].pc = "after"
  /\ \E e \in BOOLEAN :
       /\ e => config[r].cluster /\ "refused" \in Faults
       /\ Set(r, [run[r] EXCEPT !.cleanupErr = @ \/ e,
                    !.pc = IF run[r].unwinding THEN "dead" ELSE "record"])
  /\ UNCHANGED <<config, rescue, bundles, cluster, before>>
-----------------------------------------------------------------------------
(* TxnLab.run: the evidence *)

Write(r, file) == bundles' = [bundles EXCEPT ![Key(r)] = @ \cup {file}]

WriteRecord(r) ==
  /\ run[r].pc = "record"
  /\ Write(r, "record")
  /\ Set(r, [run[r] EXCEPT
               !.error = IF run[r].cleanupErr /\ @ = "none" THEN "cleanup" ELSE @,
               !.pc = IF run[r].verdict = "RED" THEN "promote" ELSE "import"])
  /\ UNCHANGED <<config, rescue, cluster, before>>

WritePromotion(r) ==
  /\ run[r].pc = "promote"
  /\ Write(r, "promotion")
  /\ Goto(r, "import")
  /\ UNCHANGED <<config, rescue, cluster, before>>

\* A failed import is recorded and changes neither verdict nor error.
ImportRecord(r) ==
  /\ run[r].pc = "import"
  /\ \E i \in (IF config[r].auto_import THEN {"yes", "failed"} ELSE {"no"}) :
       /\ i = "failed" => "refused" \in Faults
       /\ Set(r, [run[r] EXCEPT !.pc = "manifest", !.imported = i])
  /\ UNCHANGED <<config, rescue, bundles, cluster, before>>

\* finalize writes the manifest, then the hash index over every file.
WriteManifest(r) ==
  /\ run[r].pc = "manifest"
  /\ Write(r, "manifest")
  /\ Goto(r, "index")
  /\ UNCHANGED <<config, rescue, cluster, before>>

WriteIndex(r) ==
  /\ run[r].pc = "index"
  /\ Write(r, "index")
  /\ Goto(r, "done")
  /\ UNCHANGED <<config, rescue, cluster, before>>

\* The process is killed, or an exception escapes run() while it writes.
Crash(r) ==
  /\ "crash" \in Faults
  /\ run[r].pc \notin Terminal \cup {"idle"}
  /\ Goto(r, "dead")
  /\ UNCHANGED <<config, rescue, bundles, cluster, before>>

Step(r) ==
  \/ Start(r) \/ Preflight(r) \/ Work(r) \/ ArmFailpoint(r) \/ DisarmFailpoint(r)
  \/ ApplyChaos(r) \/ DeleteChaos(r)
  \/ CaptureImages(r) \/ PatchImages(r) \/ WaitForImages(r)
  \/ PhasesDone(r) \/ EvaluateOracle(r)
  \/ PreCleanup(r) \/ CleanupPhaseDone(r) \/ AutoDisarm(r) \/ ClearActive(r)
  \/ AutoDeleteChaos(r) \/ AutoRestore(r) \/ AutoWaitForImages(r) \/ AfterCleanup(r)
  \/ WriteRecord(r) \/ WritePromotion(r) \/ ImportRecord(r)
  \/ WriteManifest(r) \/ WriteIndex(r)
-----------------------------------------------------------------------------
(* TxnLab.emergency_cleanup, run once per config in a process of its own *)

SetRescue(r, x) == rescue' = [rescue EXCEPT ![r] = x]

\* Nothing of this run key is still executing.
Quiet(r) == \A s \in Procs : Key(s) = Key(r) => run[s].pc \in Terminal

BeginRescue(r) ==
  /\ r \in Rescuers /\ config[r].cluster
  /\ rescue[r].pc = "idle"
  /\ SetRescue(r, [rescue[r] EXCEPT !.pc = "points", !.late = Quiet(r)])
  /\ UNCHANGED <<config, run, bundles, cluster, before>>

\* Every failpoint a failpoint_arm action names is deleted, armed or not.
RescueFailpoint(r) ==
  /\ rescue[r].pc = "points"
  /\ \E p \in ArmPoints(config[r]) \ rescue[r].done :
       \/ Disarmed(p) /\ SetRescue(r, [rescue[r] EXCEPT !.done = @ \cup {p}])
       \/ /\ Unanswered(Disarmed(p), UNCHANGED armed)
          /\ SetRescue(r, [rescue[r] EXCEPT !.done = @ \cup {p}, !.failed = TRUE])
  /\ UNCHANGED <<config, run, bundles, chaos, spec, running, before>>

RescueChaos(r) ==
  /\ rescue[r].pc = "points" /\ ArmPoints(config[r]) \subseteq rescue[r].done
  /\ \E code \in {"zero", "nonzero", "raised"} :
       /\ ChaosDeleted(Key(r), code)
       /\ SetRescue(r, [rescue[r] EXCEPT !.code = code,
                          !.pc = IF code = "raised" THEN "dead" ELSE "done"])
  /\ UNCHANGED <<config, run, bundles, armed, spec, running, before>>

Rescue(r) == BeginRescue(r) \/ RescueFailpoint(r) \/ RescueChaos(r)
-----------------------------------------------------------------------------
\* Mutant of InitRun: the verdict starts unset.
InitRunNone ==
  [pc |-> "idle", queue |-> <<>>, done |-> {}, stage |-> "start", active |-> {}, unanswered |-> {},
   original |-> Nil, verdict |-> "", error |-> "none", cleanupErr |-> FALSE,
   chaosCode |-> "none", unwinding |-> FALSE, imported |-> "no"]

InitRun ==
  [pc |-> "idle", queue |-> <<>>, done |-> {}, stage |-> "start", active |-> {}, unanswered |-> {},
   original |-> Nil, verdict |-> "INFO", error |-> "none", cleanupErr |-> FALSE,
   chaosCode |-> "none", unwinding |-> FALSE, imported |-> "no"]

Init ==
  /\ config \in [Procs -> {c \in Configs : ValidConfig(c)}]
  /\ run = [r \in Procs |-> InitRun]
  /\ rescue = [r \in Procs |->
                 [pc |-> "idle", done |-> {}, failed |-> FALSE, code |-> "none", late |-> FALSE]]
  /\ bundles = [k \in Keys |-> {}]
  /\ armed = [p \in Points |-> Nil]
  /\ chaos = [o \in Objects |-> Nil]
  /\ spec \in InitSpecs
  /\ running = spec
  /\ before = [r \in Procs |-> Nil]

Next ==
  \/ \E r \in Procs : Step(r) \/ Crash(r) \/ Rescue(r)
  \/ \E c \in Components : Rollout(c)

Spec == Init /\ [][Next]_vars

\* A started process keeps executing (every wait of the code has a deadline,
\* and kubectl is assumed to return), and the operator reconciles the cluster.
Fairness ==
  /\ \A r \in Procs : WF_vars(Step(r))
  /\ \A c \in Components : WF_vars(Rollout(c))

FairSpec == Spec /\ Fairness
-----------------------------------------------------------------------------
(* Properties *)

Ok(r) == run[r].pc = "done" /\ run[r].error = "none"

\* A run that reports ok with automatic cleanup left no failpoint armed: the
\* bookkeeping of active_failpoints through partial arming, lost answers,
\* explicit disarming and the cleanup loop misses none silently, whatever
\* concurrent runs do to the same failpoints.
OkMeansDisarmed ==
  \A r \in Procs : Ok(r) /\ config[r].auto_cleanup => \A p \in Points : armed[p] # r

\* A run that reports ok with automatic cleanup and whose bundle records exit
\* code 0 for the Chaos deletion left no Chaos object with its run-key label,
\* also when an apply was lost or a cleanup action deleted only a part.
ChaosGoneUnlessReported ==
  \A r \in Procs :
    Ok(r) /\ config[r].auto_cleanup /\ run[r].chaosCode = "zero" => Owned(Key(r)) = {}

\* A testbed config that would mutate the cluster and lacks one of the two
\* flags arms nothing, labels nothing and never reaches an image switch.
UngatedRunsAreHarmless ==
  \A r \in Procs :
    config[r].environment = "testbed" /\ ~(config[r].allow_mutation /\ config[r].cli_allow) =>
      /\ \A p \in Points : armed[p] # r
      /\ run[r].original = Nil
      /\ (\A s \in Procs : Key(s) = Key(r) => s = r) => Owned(Key(r)) = {}

\* A run key belongs to one invocation: of two that share it, at most one ever
\* gets past the creation of the bundle, so evidence is never mixed and the
\* run-key label of a Chaos object identifies one process.
BundleExclusive ==
  \A r, s \in Procs :
    Key(r) = Key(s) /\ run[r].pc \notin {"idle", "refused"}
                    /\ run[s].pc \notin {"idle", "refused"} => r = s

\* Once the hash index of a bundle exists the bundle is complete (record and
\* manifest, and a promotion candidate exactly for a RED) and never changes.
IndexedBundleIsFinal ==
  [][\A k \in Keys :
       LET verdicts == {run'[r].verdict : r \in {s \in Procs : Key(s) = k /\ run'[s].pc = "done"}}
       IN  /\ "index" \in bundles[k] => bundles'[k] = bundles[k]
           /\ "index" \in bundles'[k] =>
                /\ {"record", "manifest"} \subseteq bundles'[k]
                /\ "promotion" \in bundles'[k] <=> "RED" \in verdicts]_vars

\* After an interrupt or an exception of the workload the finally block still
\* disarms: once an automatic cleanup has been through the list of a run, a
\* failpoint that run armed is armed only where a request about this failpoint
\* was never answered, and the run reports a failure or dies of the interrupt.
LeaksAreReported ==
  \A r \in Procs, p \in Points :
    /\ config[r].auto_cleanup
    /\ run[r].pc \in {"autoChaos", "autoImages", "autoRollout", "after"} \cup WriteStages \cup {"done"}
    /\ armed[p] = r
    => /\ p \in run[r].unanswered
       /\ run[r].cleanupErr \/ run[r].error # "none" \/ run[r].unwinding

\* Emergency cleanup started after the last process of its run key ended
\* removes every failpoint of that run, tracked or not, and every Chaos object
\* of the key, unless it reports a failure: this is what makes a crash and a
\* lost arm request recoverable.
EmergencyClears ==
  \A r \in Procs :
    rescue[r].pc = "done" /\ rescue[r].late =>
      /\ ~rescue[r].failed => \A p \in Points : armed[p] # r
      /\ rescue[r].code = "zero" => Owned(Key(r)) = {}

\* A run that reports ok and restores images leaves every component that had a
\* baseImage at the image its spec named before the run, when no other run
\* works on the cluster.
ImagesRestored ==
  \A r \in Procs :
    Ok(r) /\ config[r].auto_cleanup /\ config[r].restore_images =>
      \A c \in Components : before[r][c] # Nil => spec[c] = before[r][c]

\* The custody of a run with config c in state x: a run is clean when it
\* finished with automatic cleanup and reports ok.
PhaseOf(c, x) ==
  CASE x.pc \in {"idle", "refused"} -> "new"
    [] x.pc = "done" /\ x.error = "none" /\ c.auto_cleanup -> "clean"
    [] x.pc = "dead" \/ (x.pc = "done" /\ ~(x.error = "none" /\ c.auto_cleanup)) -> "ended"
    [] OTHER -> "open"

Custody == INSTANCE FaultCustody WITH
  holder <- armed,
  phase <- [r \in Procs |-> PhaseOf(config[r], run[r])]

\* The control plane implements the custody of faults: a failpoint is taken
\* only by a run between its gate and its result, and a run whose result is ok
\* holds none, then and for ever after.
CustodySpec == Custody!Spec

\* A fault that a run with automatic cleanup armed is eventually lifted or
\* reported: the run ends dead or with an error.
FaultLiftedOrReported ==
  \A r \in Procs, p \in Points :
    (armed[p] = r /\ config[r].auto_cleanup) ~>
      (armed[p] # r \/ run[r].pc = "dead" \/ (run[r].pc = "done" /\ run[r].error # "none"))
-----------------------------------------------------------------------------
(* What the documentation says and the code does not do *)

\* README.md of txnlab: run-labeled Chaos deletion happens automatically in
\* finally.  A run that reports ok has no labelled Chaos object left.
OkMeansChaosGone ==
  \A r \in Procs : Ok(r) /\ config[r].auto_cleanup => Owned(Key(r)) = {}

\* README.md of txnlab: image restoration happens automatically in finally.  A
\* run that reports ok leaves every component at its image.
ImagesRestoredEverywhere ==
  \A r \in Procs :
    Ok(r) /\ config[r].auto_cleanup /\ config[r].restore_images => spec = before[r]
=============================================================================
