# Formal model of the fuzzing workbench

This directory holds TLA+ models of the program logic of this repository: the experiment control
plane `tools/txnlab`, which injects faults into a shared TiDB cluster and must take them out
again, its oracles, its local test runner and its source scout; the asset store `assets/store`,
the SQLite memory of the fuzzing loop with its queue and its target generators; and the SQL and
DDL probes of `scaffolds/top-level`. It names what is modelled, what TLC checks on small
instances, what TLAPS proves for every value of the constants, and what is left out.

## 1. The system

The repository is the workbench of a bug-finding loop for TiDB's transaction path. Its own
program logic is small next to the probes and records it keeps.

### Components

**txnlab runner** (`tools/txnlab/runner.py`). A process per `txnlab run` loads one experiment (a
TOML file), passes the mutation gate, creates an evidence bundle, executes the phases prepare,
arm, workload and observe, asks the oracle for a verdict, and in `finally` runs the configured
cleanup phase and the automatic cleanup. It then writes `record.jsonl`, perhaps a promotion
candidate, imports the record into the store and finalizes the bundle. *State*:
`active_failpoints`, `original_image_state`, verdict, error, the cleanup report. *Hard*: it
shares the cluster with other invocations, every request to the cluster can take effect and lose
its answer, it can be interrupted or killed anywhere. *Correct when* no fault it injected
survives silently. `emergency_cleanup` is a second program that undoes a run from its config
alone, after a crash.

**txnlab cluster operations** (`kube.py`). Port-forward and HTTP requests to failpoint
endpoints, `kubectl apply/delete` of labelled Chaos Mesh objects, merge patches of the
TidbCluster images and a poll with a deadline. Stateless; the state is the cluster's. *Hard*:
exit codes as data, components without `baseImage`, deadlines.

**txnlab configuration** (`config.py`), **evidence bundle** (`evidence.py`), **asset bridge**
(`assets.py`). Parsing and validation; a directory created with `exist_ok=False` and closed by a
hash index; a record handed to the store.

**txnlab oracles** (`oracles.py`). Pure functions from a witness file to RED, GREEN or INVALID
for three transaction properties: O56 (`terminal_mvcc_truth`), O57 (`lock_generation_survival`)
and O58 (`protocol_atomic_keyset`). *Hard*: the boundaries between "violated" and "the
experiment shows nothing", for evidence that was collected while the product went on. *Correct
when* no GREEN and no RED is given by mistake.

**txnlab worktrees and build** (`workspace.py`, the build part of `local.py`), **local
realtikvtest** (`local.py`), **source scout** (`scout.py`). Commands of one machine that share
worktrees, a binary, port 2379 and output directories. They start a process group, wait with a
deadline, and stop it with TERM and KILL. *Hard*: what was verified may have changed when it is
used, a group may outlive its leader, a file of another command may be read as this one's.
*Correct when* a verdict is about the pinned commit, an answer is the scout's own, and nothing
keeps running.

**txnlab build script, command runner, CLI** (`build.py`, `process.py`, `__main__.py`).
Sequential subprocess calls and rendering.

**Asset store** (`assets/store/store.py`, `schema.sql`). SQLite tables of assets, their
immutable revisions, runs, links and targets. `import_jsonl` is the only writer: one transaction
per file, records sorted by kind so that foreign keys are satisfied, conflict clauses that
decide what a second import changes. *Hard*: all or nothing, re-import in another order, readers
that use several autocommit SELECTs.

**Target queue and refill** (`store.py`, `target_asset_state`, `queue`, `next_target`,
`refill`). A reader that derives from runs and assets what state a target is in and proposes new
targets. *Hard*: states computed from data that can be imported in any order, proposals that
collide or are stale.

**Source-target generators** (`store.py`, `source_targets_*`). Six rules scan a checkout of the
product line by line and propose targets: seeds with known sources, rules over files, rules over
functions that are found by counting braces. *Hard*: the parsing, limits, tables that must agree
with each other, files of candidates that are imported later.

**SQL differential probes** (`scaffolds/top-level`: partition prune, global index prune, partial
index, plan cache drift). Each makes a database of its own, asks the same query in several
variants and reports the queries whose answers differ. *Hard*: whether the queries reach every
boundary, lost calls, what exit code 0 means.

**DDL reference probes** (`scaffolds/top-level`: object reference, reference matrix, stateful
object, masking policy). Per case: clean up, set up, one DDL, look at what became of the
references, clean up. *Hard*: placement policies and failpoints belong to the cluster and
outlive a case and a run.

**Pushdown differential runner** (`tools/pushdown_diff.py`), **asset synchronisation scripts**
(`scripts/`), **clone-state scanner** (`tools/clone-state-scan`), the **other scaffolds**:
one-off tools in Go, Python, shell and SQL. **Documents, bug database, runs, logs**: data.

### How they interact

`txnlab run` changes the cluster and its own bundle directory; concurrent runs meet only in the
cluster (failpoints, labelled Chaos objects, image specs) and in the run key, whose bundle
directory is created exclusively. The runner runs `store.py --db … import <record>` as a
subprocess; other importers and the store's readers are processes too, and meet in the locks of
one SQLite file. The queue reads what the importers wrote; its proposals, and those of the
source rules, are files that somebody imports later. Local builds, local tests and scouts meet
in the worktrees, where a developer works as well. Probes meet in the cluster-wide objects they
create.

## 2. Plan

In order of what hurts most when it is wrong:

1. `TxnLab` with `FaultCustody`, its proofs: the runner and the cluster. *Done.*
2. `AssetStore` with `AtomicStore`, its proofs: imports as transactions. *Done.*
3. `TargetQueue` on the store's tables: states of targets read in several SELECTs, refill,
   imports in between; its proofs. *Done.*
4. `Oracles` and `OracleLab`: the decision procedures, judged against what happened; their
   proofs. *Done.*
5. `Worktrees`, `LocalRuntime`, `SourceScout`, `LocalLab`: the commands of one machine; their
   proofs. *Done.*
6. `GoSource` and `SourceTargets`: the generators; their proofs. *Done.*
7. `QueryProbe` and `ReferenceProbe` with their cases: the probes, their proofs. *Done.*

Theorems, proved (section 5): all safety properties the runs check, of `TxnLab`, `AssetStore`,
`TargetQueue`, `OracleLab`, `LocalLab`, `SourceTargets`, `QueryProbe` and `ReferenceProbe`, and
both refinements. What is left to TLC is liveness.

## 3. Modules

| module | models |
| --- | --- |
| `TxnLab` | runner, cluster operations, gate, bundle, emergency cleanup |
| `FaultCustody` | what the control plane promises about failpoints |
| `MCTxnLab` | small experiment files for TLC |
| `TxnLabProofs` | proofs: types, `OkMeansDisarmed`, `LeaksAreReported`, `TxnLab` implements `FaultCustody`; bundles, gates, Chaos objects, emergency cleanup, images |
| `StoreSchema` | tables, constraints and the statements of one line |
| `FileImport` | what importing a whole file means, whatever order its lines run in |
| `AtomicStore` | what `store.py import` promises: whole files, once |
| `AssetStore` | importers, the write lock, rollbacks, lock timeouts, deaths |
| `MCAssetStore` | files for TLC |
| `AssetStoreProofs` | proofs: types, `Consistent`, `NothingIsLost`, `AssetStore` implements `AtomicStore`, `RejectedForCause` |
| `TargetQueue` | `queue`, `next`, `refill`, and the imports between their SELECTs |
| `MCTargetQueue` | assets, targets and files for TLC |
| `TargetQueueProofs` | proofs: all five properties of the queue |
| `GoSource` | what the source rules see of a Go file: functions, owners, gaps |
| `SourceTargets` | the six rules, their seeds, limits and files, and the people beside them |
| `MCSourceTargets` | checkouts for TLC |
| `SourceTargetsProofs` | proofs: `FunctionsFound`, `OneCandidatePerSource`, `ImportOnlyAdds`, `NothingHeldBack` |
| `Oracles` | O56, O57, O58 as operators over a payload of evidence |
| `OracleLab` | transactions, locks and observers that produce payloads |
| `MCOracleLab` | names of keys for TLC |
| `OracleLabProofs` | proofs: types, `GreenIsProved`, `RedIsADefect` |
| `Worktrees` | pinned worktrees, the binary that is built in one, a developer |
| `LocalRuntime` | `realtikvtest`: verification, port, playground, test, stop |
| `SourceScout` | packet, agent, message and its validation |
| `LocalLab` | the three on one machine |
| `MCLocalLab` | plans of commands for TLC |
| `LocalLabProofs` | proofs: types and all four safety properties |
| `Predicates`, `PruneTables`, `QueryTables` | predicates, tables and cases of the query probes |
| `QueryProbe` | a run of a query probe against a product that may have a defect |
| `MCQueryProbe` | which cases are run |
| `QueryProbeProofs` | proofs: types, `GreenIsEarned`, `DatabaseGone`, `DefectIsFound`; the report is exact |
| `ReferenceCases` | the cases of the DDL probes as facts that come, go and are looked at |
| `ReferenceProbe` | a run of a DDL probe, its lost calls, a kill and a second run |
| `MCReferenceProbe` | instance for TLC |
| `ReferenceProbeProofs` | proofs: `GreenIsEarned`, `NothingLeft`, `FindingIsReal`, `DefectIsFound` |

### TxnLab

`run[r]` is one Python process: a program counter and the attributes and locals of `run()`. `pc`
is `"idle"`, then `"preflight"`, `"main"` (the four phases; `queue` holds the actions left),
`"oracle"`, `"final"` (the first lines of `finally`), `"cleanup"` (the configured phase),
`"auto"`, `"autoChaos"`, `"autoImages"`, `"autoRollout"` (the automatic cleanup), `"after"`,
then the writes, then `"done"`. `"refused"` is the gate or an existing bundle; `"dead"` is a
killed process or one that ended with `KeyboardInterrupt`. `rescue[r]` is one `txnlab cleanup`.

The cluster is four variables. `armed[p]` is who armed a failpoint last: the cluster only knows
armed or not, the name is history. `chaos[o]` is the run-key label of an object. `spec` and
`running` are the images the TidbCluster names and the pods run. `Rollout` is the operator: pods
restart with the new image and forget failpoints armed over HTTP. `before[r]` and, in a run,
`unanswered` (the failpoints a request about which was never answered) are history.

Every request to the cluster has three outcomes: answered, refused before it had an effect,
effective with the answer lost. `Raised` is the `except Exception` of `run()` (or of the cleanup
phase, which only records the error); `Interrupted` is the interrupt, which runs `finally` and
no more. The steps between two requests are one action; each pod of a failpoint action is an
action, so others interleave between pods.

Abstractions. `active_failpoints` is a set: the list's order decides only the order of
independent deletions, and the model takes any. A plan lists the enabled actions only. An image
switch names an entry of the configuration's `images`, a failpoint action is about the
failpoints of one component, and an action may carry the flag `mutates_cluster` that the gate
asks for. Failpoints are told apart by component, pod and name. Commands, SQL, log waits and
snapshots are success or failure: what they do to data is outside. The environment variables of
`patch_images` are not modelled. A second command line flag, `allow_mutation` of the CLI, is
part of the config record. An exception that escapes `run()` while it writes its evidence is
`Crash`.

### FaultCustody

A run takes failpoints only while open, anybody may lift them, and it closes clean only holding
none. `TxnLab` implements it with `holder <- armed` and `phase` computed from `pc`, `error` and
`auto_cleanup` (`PhaseOf`).

### StoreSchema, FileImport, AtomicStore, AssetStore

A database is a record of six tables. `Accepted(d, r)` says whether the constraints let a line
`r` through, `Import(d, r)` what its statements do, one operator per SQL statement: an asset is
replaced and its revision added, a run that is known keeps its obligation and takes the new
verdict, its used assets are deleted and inserted, a target is replaced with its status. An
upsert that finds its row checks no foreign key it does not write. `body` and `row` stand for
all columns of an asset or a target; the content hash digests them, so a revision is a pair of
key and body.

`AssetStore` has importers with the file they read (`file`), the lines not executed (`left`) and
a program counter. The first line that is executed takes `writer`, the write lock of SQLite;
`draft` is what the holder sees. `Commit` publishes it, `RolledBack` (an exception, a lock
timeout, the death of the process) drops it. `IsNext` is the stable sort by kind. `init_db` only
creates what does not exist and is part of the initial state.

`FileImport` states the outcome without any order: `Acceptable` and `Result` quantify over the
lines of a file. `AtomicStore` is the specification of a process that imports its file once as a
whole; `AssetStore` implements it with `imported <- Imported`.

### TargetQueue

It builds on `FileImport`: every import is one step, as `AssetStore` implements `AtomicStore`.
Readers are not atomic, because `sqlite3` opens no transaction for a SELECT: `QueueTargets`,
`SelectAssets`, `SelectObligations` and `SelectRuns` are the SELECTs of `queue` and
`target_asset_state`, `Choose` is `next_target`. A refill is `RefillTargets`, `RefillOracles`,
then per oracle `SkipCovered` or `RefillOracle` (the obligations and a base) and `RefillExists`
(the key lookup), then `RefillWrite`. `ImportCandidates` imports the file it wrote; `Curate`
imports a file people wrote, about a refill target only when the queue has it.

Abstractions. Rows are read, and oracles and obligations are visited, in any order: update
times, scores and keys stand behind the choice, so what holds here holds for the code's order.
`RefillKey` is any function of base and oracle, so two slugs may collide. `workflow` is what
people do, fixed per behaviour: refills overlap, candidate files are imported again, files are
imported during a refill, `--include-covered`. The score, discoverability, titles and texts are
left out; `severity` and `lift` say whether a payload names its oracles.

### GoSource, SourceTargets

A file is a sequence of lines, and a line is what the regular expressions of the rules see in
it: braces, a function's name, marks, calls with their receiver. `GoFunctions` is the brace
counter of `iter_go_functions`. To judge it, a line also carries what Go's grammar says of it
and no rule sees (`syntax`): the body of a function opens here, a function ends here.
`TrueFunctions` reads these marks alone. `Formatted` says which marks a file of gofmt may have:
signatures of one line or of several, bodies of one line or of several, nothing between
functions that opens and stays open. Braces in strings and comments, and generic functions,
whose name the pattern does not match, are left out of the lines; functions without a body
(assembly) too. A path is the sequence of its components, since rules ask for directories.

A scan is `ReadTargets` (the keys the queue knows), `ReadAssets` for the rules with seeds,
`Scan`, which applies the rule to the checkout and the limit to what it found, and `Import`,
which may come much later and makes a candidate of every key. `Settle` and `Cover` are people
who retire targets and record assets. Rules that stop at the limit before they rank see files in
any order; the other scores are as in the code, and so is the order of what is ranked (`Before`:
score, path, function, and the line where a stable sort leaves two functions of one name).
`Kept` is a filter and `Ranked` a sort, both defined by what they yield, so that they can be
reasoned about. `PathRank` and `NameRank` stand for the alphabet. A negative `--limit`, which
Python's slices would count from the end, is left out, and so are the texts of candidates.

### Oracles, OracleLab

`terminal_mvcc_truth`, `lock_generation_survival` and `protocol_atomic_keyset` are the decisions
of the three functions, in their order: what is INVALID, then what is RED, then what has no
outcome yet. `OracleLab` produces the payloads. A transaction prewrites its keys, may fall back
from async commit, commits or rolls back its primary, and resolves its secondaries; the client's
answer may be lost; the observer reads keys one by one in sessions that resolve locks, may take
a key's status before that, may miss its status or its mode, and may learn the mode of the
transaction as a whole instead. In the other half a delayed cleanup arrives before or after a
lock has a new owner, and the observer may have missed the old one. The product has no defect or
one of seven. `truth` is history: what the observer cannot know. `Judge` may come at any time.

### Worktrees, LocalRuntime, SourceScout, LocalLab

A tree is the pin, the pin with uncommitted edits, or some other commit. A binary is what the
tree was when `make` ran, and `--version` tells only the commit: an edited tree passes the
verification like the pin, which the code accepts. `realtikvtest` verifies the TiKV binary, sees
port 2379 closed, starts a playground whose child serves, runs the test against whoever answers,
and stops the group: TERM, a wait, KILL when the leader is still there. The scout copies a
packet, starts its agent, waits, stops it in the same way, and reads `last-message.json`. Who
ignores SIGTERM is chosen when the signal arrives. Commands may be killed at any time
(`Killed`), and the scout interrupted as well (`Broken`): its `try` has no `finally`, so the
agent stays, in a session of its own, and may still write the message that another scout reads.
A test that cannot start its playground ends before its `try`. `after`, `rivals`, `seen` and
`touched` are history, for the properties only. `LocalLab` puts the commands of a plan on one
machine. Time is abstract: a deadline may pass as soon as it is armed. The TiDB worktree the
test is compiled in is never verified by the code, and not part of a verdict's promise here. The
playground leader's own exit takes its child along or not.

### Predicates, PruneTables, QueryTables, QueryProbe

The tables of the probes with their rows, bounds, lists and generated predicates, translated
case by case; strings and dates stand for their rank in their order, since the predicates only
compare. A case has queries, a reference variant and others. `raises` and `blind` say what the
code does when a variant's call fails: some raise, some read a failure as no rows. `QueryProbe`
runs the cases. Of the statements before its `try` each may fail with or without its effect:
`CREATE DATABASE` and, in the partial index probe, the `SET GLOBAL` after it. The product may
skip a partition it should read (`whole`), only where the predicate reaches one value of it
(`edge`), or keep the first parameters in a cached plan (`drift`). The server may be away in one
step.

### ReferenceCases, ReferenceProbe

What the probes ask about is a set of facts `<<holder, relation, target>>`: a partition uses a
policy, an index marks global, a constraint reads a column. A case lists the facts its setup
makes, those its DDL takes away and makes, those that could wrongly come, and what it looks at,
each look with the fact it needs and forbids. `ReferenceProbe` runs cleanup, setup, DDL, looks
and cleanup per case, with failpoints armed around the DDL. The product keeps a fact, loses one,
accepts what it must refuse or refuses what it must accept. A call is lost before or after its
effect. A kill leaves the tables and policies of a run to the next.

## 4. Runs

| run | instance | question |
| --- | --- | --- |
| `txnlab` | one invocation of each of seven experiment files beside one that is refused at its gate, every fault; two invocations with equal or different keys on one failpoint and one Chaos object | what a finished run and a finished emergency cleanup guarantee; custody under interleaving, bundles, refinement |
| `txnlab_live` | two invocations that overwrite each other's image switch while a failpoint is armed, with fairness | every fault is eventually lifted or reported |
| `store` | two importers; every file of up to two lines about two assets, a link and a run, and every order of three; a file per constraint that is violated; lock timeouts, deaths | an import is atomic, rejections have a cause, nothing recorded is lost, the lock comes free |
| `target_queue` | one reader, six files about what it reads; or two refills, five files, a careful workflow or none | what `next` may say of a target; no candidate is built on a refill target; in the careful workflow candidates are still fresh when imported |
| `source_targets` | every formatted file of up to four lines, a signature of several lines with every four lines after it, checkouts with the shapes of the rules, limits 0 to 3 | functions are found, candidates of a file are apart, imports only add, a rule holds nothing back that it wants |
| `oracles` | three keys in two regions, seven defects of a transaction, one of a lock | no GREEN and no RED by mistake |
| `lab` | two local tests; one test while the worktree and the binary change; two scouts in one directory; one scout with a developer | verdicts and packets are of the pin, answers are the scout's own, nothing keeps running, commands end |
| `query_probe` | all cases of the four probes, a defect at every place, one step without the server | which defects are found, what exit 0 means, the database is gone |
| `reference_probe` | all cases of the four probes, every single defect, one lost call, one kill | findings are real, defects are found, OK is earned, nothing is left |
| `txnlab_chaos_left` | violation | a run that reports ok leaves a Chaos object |
| `txnlab_bare_image` | violation | a component without `baseImage` is not restored |
| `oracles_lost_lock` | violation | a lock that a delayed cleanup destroyed is judged GREEN |

Bounds of the txnlab runs. Two failpoints on two components are enough for partial arming, for a
rollout that disarms one and not the other, and for explicit disarming of one. One Chaos object
shared by two runs shows relabelling. Two images and one switched component (the other has none
to switch) show a switch, a second switch and a foreign switch. The seven experiment files hold
each action kind, in the cleanup phase too, and each reason for the gate to refuse. `txnlab`
explores two instances at once (`AloneOrPairSpec`): a file of the seven with interrupts and an
emergency cleanup, beside a run that never gets past its gate; and two brief runs, which are not
interrupted and have no emergency cleanup (`PairIsBrief`). Nothing in the model counts, so no
counter is bounded. Deadlock checking is off since every process ends.

Bounds of the store run. Each process imports one file. Two assets, one run and one link are
enough for a dangling reference, a run that moves, a repeated key and an order of lines that
matters. The files that are rejected have one reason each: an unknown obligation, an asset used
twice, a bad body, a bad verdict, a bad target, an unknown kind; one has every kind in the worst
order.

Bounds of the queue run. One reader, since readers write nothing. Three targets: executed by its
own obligation, with a broad oracle that gets its own obligation later, and one that claims an
admission it does not have. For refill two oracles, two bases and a refill target that is
validated (and loses the mark of its origin), retired or reopened give every reason to skip an
oracle; `Limit = 2`. In the careful workflow a refill starts when the last one's file is
imported, each file is imported once and nobody imports meanwhile. A behaviour is about the
reader or about the refills (`EitherSpec`).

Bounds of the source run. Each of the six rules meets a checkout in which it finds something:
functions with one gap, with two, with the same name after cutting (`MCNameSlug`), files of
seeds with and without a marker, a file two rules want. One scanner at a time. The lists of
paths and names that only raise a score or screen a directory are empty.

Bounds of the oracle runs. Three keys let a primary and two secondaries disagree, and let an
observer see a part. The two regions and the prefix decide what is INVALID for O58.

Bounds of the lab run. `Plans` limits a behaviour to two commands, or one with four commands
about worktrees in between; in the plan of two tests the binary is there before they start. The
pinned checkout itself stands at another commit, and a message of an agent is valid or has one
fault: the order of the checks is in `SourceScout`.

Bounds of the probe runs. The partition cases are run one by one, as `--case` does, and the
plan-cache cases also together; the generated tables of the partial-index probe have eight rows.
The server is away at the first query of a case, at its setup, at an index or at the end. A lost
call of a reference probe may be in any case; one defect, one loss and one kill per run.

Fairness. `store`: `WF(Step(i))`, a started import executes its next line when the lock lets it;
a lock timeout is possible but never counted on, so `ImportEnds` says that each holder frees the
lock. `txnlab_live`: `WF(Step(r))`: a started process goes on; every wait of the code has a
deadline, except `kubectl` itself, which is assumed to return. `WF(Rollout(c))`: the operator
reconciles. No fairness for crashes, faults or the operator's emergency cleanup.
`DeadlinePassed` is always possible, as the deadline does not wait for the rollout. `lab`: weak
fairness of each started command: processes are scheduled and waits have deadlines, which pass;
nobody who serves, exits or obeys a signal is counted on, and a kill or an interrupt ends a
command too. The other runs assume no fairness.

`TypeOK` of `SourceTargets`, `OracleLab`, `LocalLab`, `QueryProbe` and `ReferenceProbe`
documents the types; no run lists it, their properties use every variable.

### What holds only with an exception

Properties name the exceptions they found; each is a behaviour of the code.

* `LeaksAreReported`: an arm request without an answer leaves its failpoint armed. Nothing else
  does, whatever error or interrupt came before.
* `NothingRunsOn`: a child keeps running when the leader left before the stop, or obeyed SIGTERM
  where the child did not; everything keeps running when the command is killed, or the scout
  interrupted.
* `VerdictIsOfPin`: two tests may both see port 2379 closed; a build may replace the binary
  between verification and start.
* `ScoutAnswerIsOwn`: in a shared output directory an agent that wrote nothing is given the last
  message of another scout; and one that wrote is given that of a scout at work at the same
  time, or of the agent an interrupted scout left.
* `PacketIsOfPin`: without a worktree, the packet is that of the checkout.
* `RedIsADefect`: an observer who looks before the outcome is there, or takes a status before
  its lock is resolved, may accuse a correct product.
* `GreenIsProved`: of the protocol of a key whose mode was not read O58 knows nothing.
* `FunctionsFound`: a function closed on its first line takes the text on, and swallows a
  function that starts on the next line; a signature of several lines that closes a brace of its
  own (`interface{}`, `struct{}`) ends the function before its body.
* `NothingHeldBack`: of functions with one key, two methods of a name or names cut alike, one
  gets the target.
* `DatabaseGone`: the database stays where `CREATE DATABASE` took effect without an answer, a
  `SET GLOBAL` after it failed, or the `DROP` did; the exit code is 1 then.
* `DefectIsFound` of `QueryProbe`: no predicate asks `>` just below the last value of a
  partition, so a prune proof that is wrong there alone is not noticed.
* `GreenIsEarned` of `QueryProbe`: variants that are all lost compare equal; a condition whose
  index cannot be built is passed over.
* `DefectIsFound` of `ReferenceProbe`: after `PARTITION BY … UPDATE INDEXES` nobody asks whether
  the table is partitioned, after dropping or truncating a partition nobody asks for the global
  marker, block cases of two probes do not look at the metadata after a refusal, and where no
  exact rows are asked for, rows lost from table and index alike are not noticed.
* `GreenIsEarned` of `ReferenceProbe`: a lost `SHOW CREATE` contains nothing that is forbidden,
  and a policy that a killed run's table still uses turns cases into SKIP with exit code 0.
* `FindingIsReal`, `NothingLeft`: the DELETE of a failpoint is not checked; the last cleanup is
  not tried again. The masking probe has a database per case and no cleanup at its end, so there
  the cleanup of any case is the last one for it.

### Disagreements between the code and its documents

Three are runs. A failing `kubectl delete` is recorded as a return code and not as an error
(`txnlab_chaos_left`); a component without `baseImage` is skipped by the restore patch
(`txnlab_bare_image`); both against `tools/txnlab/README.md:19`. `lock_generation_survival`
calls a destroyed lock RED only when its owner could not commit, where
`docs/core/ai-native-oracle-library.md:1566` lists "disappears" on its own
(`oracles_lost_lock`).

Others were met while modelling. An arm request whose answer is lost is in no list, so the
automatic cleanup leaves the failpoint and reports no cleanup error (`runner.py:251`; the run
reports its own error, `LeaksAreReported`, and `txnlab cleanup` removes it, `EmergencyClears`).
The image state is captured at the first switch and not before the run (`runner.py:291`). An
obligation linked to a target under another selector counts as present and its runs do not
(`store.py:456`), so such a target stays `ready_to_execute`.

`tools/txnlab/README.md:10` calls local runs self-cleaning and `:79` says that the scout kills
the complete process group. An interrupt of `txnlab scout` kills nothing: `scout.py:323` catches
the timeout only, so agent and children run on, and may write over the answer of a later scout
in that directory; children that are deaf to SIGTERM outlive a leader that is not
(`NothingRunsOn`, `ScoutAnswerIsOwn`).

The brace counter ends a function at a line of its signature that closes as many braces as it
opens (`store.py:979`), so the rules see no body of it (`CutAtSignature`). Two functions of one
file and name, or of names that agree in their first 24 characters, have one key
(`store.py:1987`, `store.py:2308`): they share a target, and of two candidates the later import
replaces the earlier. The partial index probe sets two globals between `CREATE DATABASE` and its
`try` (`ai_native_partial_index_probe.py:823`), and leaves the database if that fails.

A candidate file says what was true when it was written. Of a refill that overlaps another, and
of a file that is imported late or again, no property holds like those of the careful workflow:
a target that has advanced meanwhile is set back to `candidate` (`store.py:635`), a retired one
is reopened. `ImportOnlyAdds` and `RefillRespectsQueue` say what holds when nobody interferes.

## 5. Proofs

Each theorem holds for every value of the constants that meets the named assumptions of the
modules; TLC evaluates them in every run. They say what the constants are and little more:
`ConstantsAssumption` (`TxnLab`: any sets of invocations, failpoints, objects, components,
images, keys, experiment files and faults), `SchemaAssumption` and `StoreAssumption` (any keys,
records and files of any length, kinds ranked as in the code), `QueueAssumption` (rows of
targets are the rows of the store; `RefillKey` gives keys of refill targets), `PlansAssumption`,
`CheckoutsAssumption` and `OfferedAssumption` (any commands, checkouts and faults of messages; a
valid message is possible), `PrimaryAssumption` and `NilAssumption` (the primary is a key;
"nothing" is no value), `OnlyAssumption` (`--case` selects existing cases, at least one). No
theorem assumes anything of a behaviour but `ImagesRestoredHolds`, see below.

A property of a finished run is seldom inductive; for each component an inductive invariant says
of every step what the property says of the end. TLC checked each of them on the instances of
section 4 before it was proved.

**Failpoints** (`TxnLabProofs`). `TypeCorrect`: one lemma per group of actions. `Accounted`
(`Spec => []IInv`) adds an account at every step. For a run without a mark of failure (error
`run`, propagating interrupt, cleanup error, dead) every failpoint it holds is in
`active_failpoints`; during the automatic cleanup loop it is among those not yet served; after
it the run holds none. Two bookkeeping facts are needed: loops start with nothing served, and
from the record on a cleanup error is an error of the result. Failpoints are held only by runs
with a cluster, else the automatic cleanup would be skipped. Other runs, emergency cleanups and
rollouts only take failpoints away (`Shrinks`). `OkMeansDisarmedHolds` follows.
`LeaksAreReportedHolds` needs no absence of failures: what a run holds is tracked or had a
request that was never answered, after an interrupt as well. `CustodyImplemented` (`Spec =>
CustodySpec`): `QuietSteps` stutter, `FaultSteps` take or lift, `EndSteps` open and close (clean
by `IInv`), `OtherSteps` lift. `CleanHoldsNothingHolds` reads off the abstract specification
what the refinement is for: who closed clean holds nothing ever after.

**Evidence, Chaos objects, emergency cleanup** (`TxnLabProofs`). A step of a run is seen through
what it may do at most: `Works` (the attempt and the cleanup), `Writes` (the bundle).
`EvidenceInv` relates three things. `BundlesMatch`: the files of a bundle are those its one open
run has written at this stage. `Labelled`, `Traced`: a label is that of an open run whose
experiment applies Chaos objects, an armed failpoint is one its experiment arms, and a run that
is open has passed its gate. `Cleared`, `Rescued`: the automatic deletion comes after the last
apply, so what it cleared stays clear; once a late emergency cleanup runs, no run of its key is
left to put anything back. From it follow `BundleExclusive`, `UngatedRunsAreHarmless`,
`ChaosGoneUnlessReported`, `EmergencyClears` and `IndexedBundleIsFinal`.

**Images.** The property speaks of a run with the cluster to itself: of two runs one of which
switches images, the other finds or leaves images that are not its own. `ImagesRestoredHolds`
therefore assumes `[]SwitchesAlone`: when a run whose experiment switches images gets past its
gate, no other run does. Runs that switch nothing may be any number, and so may those that are
refused, emergency cleanups and rollouts. `ImagesInv`: while a run has captured nothing the spec
is as it was before, what it captured is what was there, and from the restoration on either the
images are back or the run carries a fault that reaches its result.

**Store** (`AssetStoreProofs`). `Consistent` is about the committed database and is not
inductive: a commit publishes the draft. `StoreInv` says the same of the draft and that the
draft of a transaction has lost nothing of the database. `LineStep` (with a lemma per kind of
line) carries it over one line, `RollbackStep` over every way to fail. For the refinement,
`Result` and `Acceptable` of `FileImport` are first stated for the lines of a set;
`RefinementInv` says that the draft of a transaction is the result of the lines it has executed,
that these are acceptable and come before the others. One lemma per kind says that the next line
adds just what the set with it means: it is the last about its key, and the first run of its key
decides the obligation (`LastGrows`, `FirstGrows`). When nothing is left, the draft is the
result of the file (`AtomicStoreImplemented`). A line that is refused was refused by what the
whole file means, as all lines that could help it have a smaller rank (`RejectedForCauseHolds`).

**Queue** (`TargetQueueProofs`). `QueueInv` says what a reader holds between two SELECTs: the
row is the one it read, no obligation was read for a row that still needs one, the obligations
of a row that has its own are that one; of refills, that the base of each candidate built so far
is no refill target; and in the careful workflow (`CarefulOK`) that what the refill read is
still so, its keys are new and their oracles uncovered.

**Oracles** (`OracleLabProofs`). A verdict is judged by what happened, and things go on
happening after it. `LabInv`: keys follow their primary (`KeysFollow`), without a defect in one
protocol and to the same outcome (`Faithful`); observations of a decided transaction stay true
(`SeenOK`, whatever part of a key was written down); the lock belongs to whom the schedule gave
it (`LockOK`); the evidence a verdict rested on is still there (`JudgedOK`).
`GreenIsProvedHolds` then goes through what each oracle must have passed over to say GREEN,
`RedIsADefectHolds` through what it can have accused.

**Commands of one machine** (`LocalLabProofs`). `GroupInv`, `AgentInv`: a process that is up
after the stop was deaf to it or left alone. `ServedInv`: whoever serves a test took the port
after the test had seen it closed. `AnswerInv`: a scout at work knows of every other whose agent
may still write (`Lives`), an interrupted one's included, so the last message was written by the
scout that reads it or by a rival it met. `TreesInv`, `PacketInv`: trees nobody was at are the
pin, and so are their copies.

**Query probes** (`QueryProbeProofs`). `QueryInv`: a query that was not compared is excused, or
the run is on its way to fail. The cases matter in one point, which is proved of every one of
them (`CasesAre`): the only call whose failure is read as no rows is the one the code passes
over. `ScanInv`: while nothing was lost, the queries that are reported are those the run has
been at (`Past`) whose variants disagree (`Disagrees`). At the end that is every query, so the
report is exact (`ReportIsExactHolds`), and what remains of `DefectIsFound` is that some query
disagrees. For the pruned tables that is a statement about integers. `Fitted` says of a table
with which values around its boundaries every operator is asked, and where every value is at
home; it is proved of the four tables in one integer column (`RangeFitted`, `GlobalRangeFitted`,
`PruneListFitted`, `GlobalListFitted`), and so is that neither sorting nor dropping duplicates
loses a predicate (`SortedHolds`, `DedupeKeeps`). `WholeTold` and `EdgeTold` then name, for each
operator and place, a constant that is asked and that tells the loss of the place, or of the one
value beside a boundary. It shows why `gt` is excepted: to reach the last value of a partition
alone it needs the value before it as constant, which is not among those asked. For the plan
cache one case of each kind of table has a second query that the first one's plan answers
wrongly (`DriftShown`).

**Reference probes** (`ReferenceProbeProofs`). `EndInv`: every way to the end of a run passes a
cleanup, which leaves nothing whatever was there (`CleanedIsEmpty`); the masking probe is clean
after each case, provided that none of its thirteen is skipped or leaves another way
(`MaskingCases`). `GreenInv` is about what exit 0 means for these probes. A killed run's uses
are never taken away, and the policies they name are there as long as the product has no defect
(`WorldInv`): so the cases whose setup clashes after a cleanup are exactly those such a policy
belongs to (`Skipped`, `ClashIsHeld`, `FreeIsNotHeld`). One call is lost at most; it is excused
where its answer cannot be told from the wanted one, or the run is on its way to a finding or an
exception, or has had it (`Reported`). That needs four facts of every case, proved from what it
is made of (`CasesFit`): its setup makes a policy before it is used, its change is of the run's
own database, there is something to look at unless a refusal is wanted, and only a case marked
as known lets an error of another family pass.

`FindInv` is the other direction: no finding without a cause in its own case. While a case is
`Undisturbed` (no defect of its own, no call lost, no failpoint left over) its facts are those
its setup, and then its change, make (`CaseInv`); so its DDL answers as the case says, and each
of its looks passes, which is proved of every case from its setup, change and checks
(`CasesSeen`, by what a kind of look sees of a set of facts: `Sight`, `Seeing`). Failpoints are
the one thing that reaches from one case into the next; `ArmedInv` accounts for each that is
enabled.

`DefectInv` follows a defect through its own case. From the DDL on, the facts are the spoilt
ones (`Spoilt`) and a look that misses one of them is still to come (`Missing`), or the answer
is already one that is reported. That such a look exists, whichever single fact the DDL fails to
take away, to make or to keep, is `Telling`, proved of every case (`TellsKept`, `TellsLost`:
which kind of look tells which fact). A call lost in another case disturbs none of this:
`HuntInv` speaks of the defect's own.

**The brace counter** (`SourceTargetsProofs`). `Depth` and `GoFunctions` are recursive functions
over the lines of a file, of any length. Induction over the numbers of lines is had from the
least element of a set of numbers (`Least`, `UpTo`), which the library's theorem on well-founded
relations gives: the existence and the values of both functions follow. `Depth` is the
difference of two balances of the file (`DepthIs`); in a formatted file that balance is zero
before every head, so the counter ends a function before the next head, unless the function is
closed on its first line (`EndsBefore`); from any line on the search finds the heads that are
left (`SearchFinds`). Where the function ends is given by the marks of the grammar, which the
counter does not read: what is proved is that the two agree when, and only when, no line of the
signature is an end to the counter (`SpanExists`, `LastLineIs`).

**The rules** (`SourceTargetsProofs`). Filtering and ranking are choices of an increasing
enumeration; that one exists rests on counting, in a finite set with a strict linear order, the
elements below each (`EnumerationExists`, `KeptIs`, `RankedIs`): so what a rule yields is drawn
from what it found, each at most once, and cut at the limit. `Before` is such an order on the
candidates of one scan, since path and line tell any two of them apart (`IngressSortable`,
`TerminalSortable`, `OptionalSortable`). `OneCandidatePerSource` comes down to the tables: the
paths of two seeds are disjoint, and no source of a state-ingress seed is a path its scan may
propose, since it is a known path or in the background (`StateIngressApart`).
`NothingHeldBackHolds` needs the converse: a filter and a ranking leave nothing out
(`AllPicked`), so a file that is short of the limit has every key the rule wants
(`LimitedIsFull`, `FoundFull`); and that stays so until the import when nobody interferes
(`Filled`, `WantedStays`). `ImportOnlyAdds` is an action property; `RunInv` adds to the types
that a written file is new to the queue as the scan read it (`NewTo`) and, when nobody
interferes, that one scanner works at a time and that queue is still the queue.

Assumed: a checkout has finitely many files, each a sequence of lines, and `--limit` is no
negative number (`InstancesAssumption`); the ranks tell two paths apart (`RanksAssumption`); a
file has finitely many receivers (`ReceiversAssumption`); the probes that are run are among the
four that have cases (`ProbesAssumption`); SQL's NULL is no integer (`NullAssumption`).

Model-checked only: the liveness properties (`FaultLiftedOrReported`, `ImportEnds`,
`CommandsEnd`), since liveness under fairness, and the ENABLED it rests on, are out of the
prover's reach.

## 6. Not modelled

The pushdown differential runner compares two result sets in sequence, the shape of `QueryProbe`
without its hazards. The synchronisation scripts are sequential shell whose failures are those
of `rsync`, `find` and `git`. The clone-state scanner is text processing. The command runner and
the CLI start processes and parse arguments; what their failures do is part of the callers'
models. The other scaffolds are tests compiled into other repositories. Documents and logs are
data.

Of modelled components: the merge patch of `env` and `kubectl`'s own waiting, TOML parsing,
`refresh-nightly`, the size limits of a packet, the rendering of build scripts, read-only
reports of the store (`build_pack`, `stats`, `health`), the random cases and plan statistics of
the partial-index probe, session settings a probe makes in a `mysql` process of their own,
`--keep-db` and `--require-failpoint`, and the values a `SET GLOBAL` leaves, which a probe never
restores (its failure is modelled). Of Go files: braces in strings and comments, generic
functions. `PROJECT.json` lists each component with its reason and each hazard with the property
that covers it or the reason why none does.
