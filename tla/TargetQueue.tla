---------------------------- MODULE TargetQueue ----------------------------
(***************************************************************************)
(* The target queue of store.py: `queue' and `next' read it, `refill'      *)
(* proposes new targets for it from oracle debt, people and tools import   *)
(* files into it.  An import is one transaction (AssetStore implements     *)
(* AtomicStore); a reader is not: every SELECT is a transaction of its     *)
(* own, and imports commit between them.                                   *)
(*                                                                         *)
(* Rows are read in any order: the order by update time, score and key     *)
(* stands behind the choice.                                               *)
(***************************************************************************)
EXTENDS FileImport

CONSTANTS
  Files,        \* files people and tools may import
  Readers,      \* processes that run `store.py next'
  Refillers,    \* processes that run `store.py refill --jsonl-output'
  RefillKey,    \* the key of the candidate for <<base target, oracle>>
  Limit,        \* --limit
  Workflows     \* what the people may do: sets of "overlap", "reimport",
                \* "meanwhile" and "include-covered" (the option of refill)

General == {"selector", "oracle", "scenario", "schedule_template"}
Specific == {"module_profile", "obligation", "fault_point"}
Statuses == {"candidate", "ready", "running", "validated", "blocked", "retired"}

\* The columns the queue reads.  `severity' and `lift' tell whether the payload
\* names a severity_oracle and a c3_lift_oracle; `generated' whether the class or
\* the provenance says that the target is a refill candidate.
AssetBodies ==
  [type : General \cup Specific, module : STRING, selector : STRING,
   life : {"candidate", "validated", "retired"},
   trust : {"hypothesis", "used", "execution_verified", "trusted", "refuted"}]
TargetRows ==
  [module : STRING, selector : STRING, status : Statuses,
   consequence : Nat, admission : STRING, severity : BOOLEAN, lift : BOOLEAN,
   obligation : AssetKeys \cup {Nil}, broad : AssetKeys \cup {Nil},
   base : TargetKeys \cup {Nil}, generated : BOOLEAN]

\* What refill may write: a row that is admitted to nothing and has no obligation.
CandidateTargets ==
  [module : STRING, selector : STRING, status : {"candidate"},
   consequence : Nat, admission : {"NOT_ADMITTED"}, severity : {FALSE}, lift : {FALSE},
   obligation : {Nil}, broad : AssetKeys, base : TargetKeys, generated : {TRUE}]

RefillKeys == {RefillKey[x] : x \in TargetKeys \X AssetKeys}

ASSUME QueueAssumption ==
  /\ Files \subseteq Seq(Records)
  /\ ValidBodies \subseteq AssetBodies
  /\ ValidRows \subseteq TargetRows
  /\ RefillKey \in [TargetKeys \X AssetKeys -> TargetKeys]

VARIABLES
  db,        \* the committed database
  reader,    \* the queue call of each reader
  refill,    \* the refill call of each refiller
  workflow   \* what the people do in this behaviour

vars == <<db, reader, refill, workflow>>

Present(d, types) == {k \in AssetKeys : Known(d, k) /\ d.asset[k].type \in types}
Living(d, types) == {k \in Present(d, types) : d.asset[k].life # "retired"}
-----------------------------------------------------------------------------
(* target_asset_state *)

\* severity_admission: what a target may use a severity-focused slot for.
Admission(row) ==
  CASE row.admission = "C3_DIRECT" /\ row.consequence = 3 /\ row.severity -> "C3_DIRECT"
    [] row.admission = "C2_WITH_LIFT" /\ row.consequence = 2 /\ row.severity /\ row.lift -> "C2_WITH_LIFT"
    [] OTHER -> "NOT_ADMITTED"

AdmissionRank == [C3_DIRECT |-> 2, C2_WITH_LIFT |-> 1, NOT_ADMITTED |-> 0]

\* Mutant of NeedsNewObligation: a base obligation will do.
NeedsNewObligationNever(row) == FALSE

NeedsNewObligation(row) == row.broad # Nil /\ row.obligation = Nil

\* The types of the assets that are there for a target, by selector or module.
\* A requested obligation counts whatever its selector.
TypesFor(d, row) ==
  LET rows == {k \in Living(d, General \cup Specific) :
                 d.asset[k].selector = row.selector \/ d.asset[k].module = row.module}
  IN  {d.asset[k].type : k \in {x \in rows : d.asset[x].module = "shared" /\ d.asset[x].type \in General}}
      \cup
      {d.asset[k].type : k \in {x \in rows :
          /\ d.asset[x].module = row.module
          /\ d.asset[x].type \in Specific
          /\ d.asset[x].type = "obligation" =>
               ~NeedsNewObligation(row) /\ row.obligation \in {Nil, x}}}

\* Mutant of ObligationsFor: prior runs are grouped by module and selector.
ObligationsForFamily(d, row) ==
  {k \in Living(d, {"obligation"}) :
     d.asset[k].module = row.module /\ d.asset[k].selector = row.selector}

ObligationsFor(d, row) ==
  {k \in Living(d, {"obligation"}) :
     /\ ~NeedsNewObligation(row)
     /\ row.obligation \in {Nil, k}
     /\ d.asset[k].module = row.module /\ d.asset[k].selector = row.selector}

VerdictsOf(d, obligations) ==
  {d.run[k].verdict : k \in {x \in RunKeys : d.run[x] # Nil /\ d.run[x].obligation \in obligations}}

NextState(row, types, verdicts) ==
  LET settled == row.status \in {"validated", "retired", "blocked"}
      method == General \subseteq types
      target == Specific \subseteq types
  IN  CASE settled -> row.status
        [] ~settled /\ ~method -> "needs_method_assets"
        [] ~settled /\ method /\ ~target -> "needs_target_analysis"
        [] ~settled /\ method /\ target /\ verdicts = {} -> "ready_to_execute"
        [] ~settled /\ method /\ target /\ {"RED", "GREEN"} \subseteq verdicts -> "validated"
        [] OTHER -> "needs_counterpart_run"
-----------------------------------------------------------------------------
(* queue and next_target *)

NoRow == [k \in TargetKeys |-> Nil]

Idle == [pc |-> "idle", rows |-> NoRow, todo |-> {}, key |-> Nil, types |-> {},
         obligations |-> {}, verdicts |-> {}, states |-> NoRow, next |-> Nil]

QueueTargets(q) ==
  /\ reader[q].pc = "idle"
  /\ reader' = [reader EXCEPT ![q].pc = "assets", ![q].rows = db.target,
                              ![q].todo = {k \in TargetKeys : db.target[k] # Nil}]
  /\ UNCHANGED <<db, refill>>

SelectAssets(q) ==
  /\ reader[q].pc = "assets"
  /\ \E k \in reader[q].todo :
       reader' = [reader EXCEPT ![q].pc = "obligations", ![q].key = k, ![q].todo = @ \ {k},
                               ![q].types = TypesFor(db, reader[q].rows[k])]
  /\ UNCHANGED <<db, refill>>

SelectObligations(q) ==
  /\ reader[q].pc = "obligations"
  /\ reader' = [reader EXCEPT ![q].pc = "runs",
                              ![q].obligations = ObligationsFor(db, reader[q].rows[reader[q].key])]
  /\ UNCHANGED <<db, refill>>

\* Without an obligation there is no SELECT and no verdict.
SelectRuns(q) ==
  /\ reader[q].pc = "runs"
  /\ LET verdicts == VerdictsOf(db, reader[q].obligations)
     IN  reader' = [reader EXCEPT ![q].pc = "assets", ![q].verdicts = verdicts,
                      ![q].states[reader[q].key] =
                         NextState(reader[q].rows[reader[q].key], reader[q].types, verdicts)]
  /\ UNCHANGED <<db, refill>>

Active(r) ==
  {k \in TargetKeys : /\ r.states[k] \notin {Nil, "validated", "blocked", "retired"}
                      /\ Admission(r.rows[k]) # "NOT_ADMITTED"}

\* The admission decides first (and, with it, the consequence).
Choose(q) ==
  LET r == reader[q]
      rank(k) == AdmissionRank[Admission(r.rows[k])]
  IN  /\ r.pc = "assets" /\ r.todo = {}
      /\ \/ /\ Active(r) = {}
            /\ reader' = [reader EXCEPT ![q].pc = "done"]
         \/ \E k \in Active(r) :
              /\ \A j \in Active(r) : rank(j) <= rank(k)
              /\ reader' = [reader EXCEPT ![q].pc = "done", ![q].next = k]
      /\ UNCHANGED <<db, refill>>
-----------------------------------------------------------------------------
(* refill *)

Fresh == [pc |-> "idle", seen |-> NoRow, todo |-> {}, oracle |-> Nil,
          key |-> Nil, row |-> Nil, out |-> << >>]

\* Mutant of IsRecursiveBase: the key is not looked at.
IsRecursiveBaseMarked(k, row) == row.generated

IsRecursiveBase(k, row) == k \in RefillKeys \/ row.generated

Debt(d) == {k \in Living(d, {"oracle"}) : d.asset[k].trust \notin {"execution_verified", "trusted"}}

\* Mutant of Covered: a validated target covers its oracle no longer.
CoveredActive(seen) ==
  {seen[k].broad : k \in {x \in TargetKeys : seen[x] # Nil /\ seen[x].status \notin {"retired", "validated"}}}

Covered(seen) == {seen[k].broad : k \in {x \in TargetKeys : seen[x] # Nil /\ seen[x].status # "retired"}}

\* The targets an obligation was validated by, refill targets apart.
Bases(seen, obligation) ==
  {k \in TargetKeys : /\ seen[k] # Nil /\ seen[k].status = "validated" /\ seen[k].obligation = obligation
                      /\ ~IsRecursiveBase(k, seen[k])}

Obligations(d, oracle) ==
  {k \in Present(d, {"obligation"}) :
     <<k, oracle, "judged_by">> \in d.link /\ d.asset[k].life = "validated"}

\* Mutant of Candidate: the admission of the base is inherited.
CandidateInherits(d, oracle, obligation, base, row) ==
  [module |-> d.asset[obligation].module, selector |-> d.asset[obligation].selector,
   status |-> "candidate", consequence |-> row.consequence, admission |-> row.admission,
   severity |-> FALSE, lift |-> FALSE, obligation |-> Nil, broad |-> oracle,
   base |-> base, generated |-> TRUE]

\* build_refill_target
Candidate(d, oracle, obligation, base, row) ==
  [module |-> d.asset[obligation].module, selector |-> d.asset[obligation].selector,
   status |-> "candidate", consequence |-> row.consequence, admission |-> "NOT_ADMITTED",
   severity |-> FALSE, lift |-> FALSE, obligation |-> Nil, broad |-> oracle,
   base |-> base, generated |-> TRUE]

\* What the workflow promises: refills do not overlap, from the first SELECT to
\* the import of the file.
MayStart(p) == "overlap" \in workflow \/ \A o \in Refillers \ {p} : refill[o].pc \in {"idle", "imported"}

RefillTargets(p) ==
  /\ refill[p].pc = "idle" /\ MayStart(p)
  /\ refill' = [refill EXCEPT ![p].pc = "oracles", ![p].seen = db.target]
  /\ UNCHANGED <<db, reader>>

RefillOracles(p) ==
  /\ refill[p].pc = "oracles"
  /\ refill' = [refill EXCEPT ![p].pc = "loop", ![p].todo = Debt(db)]
  /\ UNCHANGED <<db, reader>>

\* What is left to do after an oracle.
Rest(p, oracle, out) == IF Len(out) >= Limit THEN {} ELSE refill[p].todo \ {oracle}

SkipCovered(p) ==
  /\ refill[p].pc = "loop" /\ "include-covered" \notin workflow
  /\ \E o \in refill[p].todo \cap Covered(refill[p].seen) :
       refill' = [refill EXCEPT ![p].todo = @ \ {o}]
  /\ UNCHANGED <<db, reader>>

\* The obligations of an oracle are asked for one base, the first found.
RefillOracle(p) ==
  /\ refill[p].pc = "loop"
  /\ \E o \in refill[p].todo :
       LET seen == refill[p].seen
           found == {f \in Obligations(db, o) \X TargetKeys : f[2] \in Bases(seen, f[1])}
       IN  /\ "include-covered" \in workflow \/ o \notin Covered(seen)
           /\ \/ /\ found = {}
                 /\ refill' = [refill EXCEPT ![p].todo = IF Obligations(db, o) = {} THEN @ \ {o}
                                                         ELSE Rest(p, o, refill[p].out)]
              \/ \E f \in found :
                   refill' = [refill EXCEPT ![p].pc = "exists", ![p].oracle = o,
                                           ![p].key = RefillKey[<<f[2], o>>],
                                           ![p].row = Candidate(db, o, f[1], f[2], seen[f[2]])]
  /\ UNCHANGED <<db, reader>>

\* The existing key is looked up in the database, not among the candidates.
RefillExists(p) ==
  LET s == refill[p]
      line == [kind |-> "target", key |-> s.key, row |-> s.row]
      out == IF db.target[s.key] = Nil THEN Append(s.out, line) ELSE s.out
  IN  /\ s.pc = "exists"
      /\ refill' = [refill EXCEPT ![p].pc = "loop", ![p].out = out, ![p].todo = Rest(p, s.oracle, out)]
      /\ UNCHANGED <<db, reader>>

RefillWrite(p) ==
  /\ refill[p].pc = "loop" /\ refill[p].todo = {}
  /\ refill' = [refill EXCEPT ![p].pc = "written"]
  /\ UNCHANGED <<db, reader>>
-----------------------------------------------------------------------------
(* Imports *)

ImportFile(f) == Acceptable(db, f) /\ db' = Result(db, f)

\* The candidates are imported once, or again and again.
ImportCandidates(p) ==
  /\ refill[p].pc = "written" \/ ("reimport" \in workflow /\ refill[p].pc = "imported")
  /\ ImportFile(refill[p].out)
  /\ refill' = [refill EXCEPT ![p].pc = "imported"]
  /\ UNCHANGED reader

\* A file somebody wrote: a refill target is in it only once it is in the queue.
Curate(f) ==
  /\ "meanwhile" \in workflow \/ \A p \in Refillers : refill[p].pc \in {"idle", "imported"}
  /\ \A n \in Lines(f, "target") : f[n].key \in RefillKeys => db.target[f[n].key] # Nil
  /\ ImportFile(f)
  /\ UNCHANGED <<reader, refill>>

QueueStep(q) == QueueTargets(q) \/ SelectAssets(q) \/ SelectObligations(q) \/ SelectRuns(q) \/ Choose(q)

RefillStep(p) ==
  RefillTargets(p) \/ RefillOracles(p) \/ SkipCovered(p) \/ RefillOracle(p) \/ RefillExists(p) \/ RefillWrite(p)

Init ==
  /\ db = EmptyDatabase
  /\ reader = [q \in Readers |-> Idle]
  /\ refill = [p \in Refillers |-> Fresh]
  /\ workflow \in Workflows

Next ==
  /\ \/ \E q \in Readers : QueueStep(q)
     \/ \E p \in Refillers : RefillStep(p) \/ ImportCandidates(p)
     \/ \E f \in Files : Curate(f)
  /\ UNCHANGED workflow

Spec == Init /\ [][Next]_vars
-----------------------------------------------------------------------------
(* Properties *)

TypeOK ==
  /\ db \in Databases
  /\ \A q \in Readers :
       /\ reader[q].pc \in {"idle", "assets", "obligations", "runs", "done"}
       /\ reader[q].rows \in [TargetKeys -> ValidRows \cup {Nil}]
       /\ reader[q].todo \subseteq TargetKeys
       /\ reader[q].key \in TargetKeys \cup {Nil}
       /\ reader[q].obligations \subseteq AssetKeys
       /\ reader[q].verdicts \subseteq Verdicts
       /\ reader[q].next \in TargetKeys \cup {Nil}
  /\ \A p \in Refillers :
       /\ refill[p].pc \in {"idle", "oracles", "loop", "exists", "written", "imported"}
       /\ refill[p].seen \in [TargetKeys -> ValidRows \cup {Nil}]
       /\ refill[p].todo \subseteq AssetKeys
       /\ refill[p].out \in Seq([kind : {"target"}, key : RefillKeys, row : CandidateTargets])

\* The state a reader has just computed for a target.
Computed(q, k) == reader[q].states[k]
Settled(row) == row.status \in {"validated", "retired", "blocked"}

\* docs/core/ai-native-asset-validation.md: a target with a broad oracle and no
\* obligation of its own stays in analysis, whatever runs its base has and
\* whatever is imported between the SELECTs.
NoBroadExecution ==
  \A q \in Readers : \A k \in TargetKeys :
    LET row == reader[q].rows[k]
    IN  Computed(q, k) # Nil /\ ~Settled(row) /\ row.broad # Nil /\ row.obligation = Nil =>
          Computed(q, k) \in {"needs_method_assets", "needs_target_analysis"}

\* A target with an obligation of its own is validated, or asked for the
\* counterpart, by runs of that obligation only, never by those of its family.
OwnRunsOnly ==
  [][\A q \in Readers :
       LET row == reader[q].rows[reader[q].key]
           own == VerdictsOf(db, {row.obligation})
       IN  reader[q].pc = "runs" /\ reader'[q].pc # "runs" /\ row.obligation # Nil =>
             /\ reader'[q].verdicts \subseteq own
             /\ ~Settled(row) /\ Computed(q, reader[q].key)' = "validated" => {"RED", "GREEN"} \subseteq own]_vars

\* docs/core/ai-native-asset-validation.md: oracle debt does not replicate
\* itself: no candidate is built on a refill target, however it was edited,
\* validated and imported since.
NoSelfReplication ==
  \A p \in Refillers : \A n \in DOMAIN refill[p].out : refill[p].out[n].row.base \notin RefillKeys

\* When refills neither overlap nor are imported twice and nobody imports
\* meanwhile, importing the candidates changes no target and opens none for an
\* oracle that has an open target.
RefillRespectsQueue ==
  [][\A p \in Refillers : workflow = {} /\ refill[p].pc = "written" /\ refill'[p].pc = "imported" =>
       /\ \A k \in TargetKeys : db.target[k] # Nil => db'.target[k] = db.target[k]
       /\ \A n \in DOMAIN refill[p].out, k \in TargetKeys :
            db.target[k] # Nil /\ db.target[k].broad = refill[p].out[n].row.broad =>
              db.target[k].status = "retired"]_vars
=============================================================================
