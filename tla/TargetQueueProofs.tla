------------------------- MODULE TargetQueueProofs -------------------------
(***************************************************************************)
(* Theorems about TargetQueue, for every set of readers and refillers, and *)
(* whatever files are imported meanwhile.                                  *)
(***************************************************************************)
EXTENDS TargetQueue, Integers, WellFoundedInduction, TLAPS

USE QueueAssumption, SchemaAssumption
-----------------------------------------------------------------------------
(* The result of an import is a database *)

\* A set of numbers has a least element,
LEMMA Least ==
  ASSUME NEW T \in SUBSET Nat, T # {}
  PROVE  \E x \in T : \A y \in T : x <= y
<1> DEFINE R == {p \in Nat \X Nat : p[1] < p[2]}
<1>1. R = OpToRel(<, Nat)  BY DEF OpToRel
<1>2. IsWellFoundedOn(R, Nat)  BY <1>1, NatLessThanWellFounded
<1>3. \A x, y \in Nat : <<y, x>> \notin R => x <= y  OBVIOUS
<1> HIDE DEF R
<1>4. \E x \in T : \A y \in T : <<y, x>> \notin R  BY <1>2, WFMin
<1> QED  BY <1>3, <1>4

\* and a bounded one a greatest.
LEMMA Greatest ==
  ASSUME NEW n \in Nat, NEW T \in SUBSET (1..n), T # {}
  PROVE  \E x \in T : \A y \in T : y <= x
<1> DEFINE S == {n - x : x \in T}
<1>1. \A y \in T : y \in Int /\ n - y \in Nat  OBVIOUS
<1>2. PICK t \in T : TRUE  OBVIOUS
<1>3. n - t \in S /\ S \subseteq Nat  BY <1>1
<1> HIDE DEF S
<1>4. S \in SUBSET Nat /\ S # {}  BY <1>3
<1> USE DEF S
<1>5. PICK z \in S : \A y \in S : z <= y  BY <1>4, Least
<1>6. PICK x \in T : z = n - x  OBVIOUS
<1>7. \A y \in T : n - x <= n - y  BY <1>5, <1>6
<1>8. \A y \in T : y <= x  BY <1>1, <1>7
<1> QED  BY <1>8

\* Of lines there are, the first and the last are two of them.
LEMMA LineOf ==
  ASSUME NEW X, NEW f \in Seq(X), NEW S \in SUBSET DOMAIN f, S # {}
  PROVE  (\E n \in S : Last(f, S) = f[n]) /\ (\E n \in S : First(f, S) = f[n])
<1>1. DOMAIN f = 1..Len(f) /\ Len(f) \in Nat  OBVIOUS
<1>2. S \in SUBSET (1..Len(f)) /\ S \in SUBSET Nat  BY <1>1
<1>3. \E n \in S : \A m \in S : m <= n  BY <1>1, <1>2, Greatest
<1>4. \E n \in S : \A m \in S : n <= m  BY <1>2, Least
<1>5. (CHOOSE n \in S : \A m \in S : m <= n) \in S  BY <1>3
<1>6. (CHOOSE n \in S : \A m \in S : n <= m) \in S  BY <1>4
<1> QED  BY <1>5, <1>6 DEF Last, First

\* Lines an import can have: those of a file, and the candidates of refill.
CandidateRecords == [kind : {"target"}, key : RefillKeys, row : CandidateTargets]
Importable == Records \cup CandidateRecords

\* Refill targets are targets.
LEMMA RefillKeysAreKeys == RefillKeys \subseteq TargetKeys
BY DEF RefillKeys, QueueAssumption

\* What is known of a line by its kind.
LEMMA ImportableLine ==
  ASSUME NEW r \in Importable
  PROVE  /\ r.kind = "asset" => r.key \in AssetKeys
         /\ r.kind = "link" => /\ r.source \in AssetKeys /\ r.target \in AssetKeys
                               /\ r.relation \in Relations
         /\ r.kind = "run" => /\ r.key \in RunKeys /\ r.obligation \in AssetKeys
                              /\ r.used \in Seq(AssetKeys \X Roles)
         /\ r.kind = "target" => r.key \in TargetKeys
BY RefillKeysAreKeys DEF Importable, Records, CandidateRecords, AssetRecords, LinkRecords,
   RunRecords, TargetRecords, OtherRecords

\* What UsedIn gives is a set of uses.
LEMMA UsesType ==
  ASSUME NEW r, r.used \in Seq(AssetKeys \X Roles)
  PROVE  UsedIn(r) \subseteq AssetKeys \X Roles
BY DEF UsedIn

\* The outcome of a file that is accepted is a database.
LEMMA ResultType ==
  ASSUME NEW d \in Databases, NEW f \in Seq(Importable), Acceptable(d, f)
  PROVE  Result(d, f) \in Databases
<1> DEFINE g == Result(d, f)
<1>1. \A n \in DOMAIN f : f[n] \in Importable  OBVIOUS
<1>2. \A kind, k : About(f, kind, k) \in SUBSET DOMAIN f  BY DEF About, Lines
<1>3. \A kind, k : \A n \in About(f, kind, k) : n \in Lines(f, kind) /\ f[n].kind = kind /\ f[n] \in Importable
  BY <1>1 DEF About, Lines
<1>4. ASSUME NEW kind, NEW k, About(f, kind, k) # {}
      PROVE  /\ \E n \in About(f, kind, k) : Last(f, About(f, kind, k)) = f[n]
             /\ \E n \in About(f, kind, k) : First(f, About(f, kind, k)) = f[n]
  BY <1>2, <1>4, LineOf
<1>5. g.asset \in [AssetKeys -> ValidBodies \cup {Nil}]
  <2>1. ASSUME NEW k \in AssetKeys, About(f, "asset", k) # {}
        PROVE  Last(f, About(f, "asset", k)).body \in ValidBodies
    <3>1. PICK n \in About(f, "asset", k) : Last(f, About(f, "asset", k)) = f[n]  BY <1>4, <2>1
    <3> QED  BY <3>1, <1>3 DEF Acceptable
  <2> QED  BY <2>1 DEF Result, Databases
<1>6. g.revision \in SUBSET (AssetKeys \X ValidBodies)
  <2>1. \A n \in Lines(f, "asset") : f[n].key \in AssetKeys /\ f[n].body \in ValidBodies
    BY <1>1, ImportableLine DEF Acceptable, Lines
  <2> QED  BY <2>1 DEF Result, Databases
<1>7. g.link \in SUBSET (AssetKeys \X AssetKeys \X Relations)
  <2>1. \A n \in Lines(f, "link") : /\ f[n].source \in AssetKeys /\ f[n].target \in AssetKeys
                                    /\ f[n].relation \in Relations
    BY <1>1, ImportableLine DEF Lines
  <2> QED  BY <2>1 DEF Result, Databases
<1>8. g.run \in [RunKeys -> RunRows \cup {Nil}]
  <2> SUFFICES ASSUME NEW k \in RunKeys PROVE g.run[k] \in RunRows \cup {Nil}
    BY DEF Result
  <2> DEFINE S == About(f, "run", k)
  <2>1. CASE S = {}  BY <2>1 DEF Result, Databases
  <2>2. CASE S # {}
    <3>1. PICK n \in S : Last(f, S) = f[n]  BY <1>4, <2>2
    <3>2. PICK m \in S : First(f, S) = f[m]  BY <1>4, <2>2
    <3>3. f[n].verdict \in Verdicts  BY <1>3 DEF Acceptable
    <3>4. f[m].obligation \in AssetKeys  BY <1>3, ImportableLine
    <3>5. d.run[k] # Nil => d.run[k].obligation \in AssetKeys  BY DEF Databases, RunRows
    <3>6. g.run[k] = [obligation |-> IF d.run[k] = Nil THEN First(f, S).obligation
                                                       ELSE d.run[k].obligation,
                      verdict |-> Last(f, S).verdict]
      BY <2>2 DEF Result
    <3> QED  BY <3>1, <3>2, <3>3, <3>4, <3>5, <3>6 DEF RunRows
  <2> QED  BY <2>1, <2>2
<1>9. g.used \in SUBSET (RunKeys \X AssetKeys \X Roles)
  <2>1. ASSUME NEW k \in RunKeys, About(f, "run", k) # {}
        PROVE  UsedIn(Last(f, About(f, "run", k))) \subseteq AssetKeys \X Roles
    <3>1. PICK n \in About(f, "run", k) : Last(f, About(f, "run", k)) = f[n]  BY <1>4, <2>1
    <3>2. f[n].used \in Seq(AssetKeys \X Roles)  BY <1>3, ImportableLine
    <3> QED  BY <3>1, <3>2, UsesType
  <2> DEFINE R == {x \in RunKeys : About(f, "run", x) # {}}
             U(k) == {<<k, u[1], u[2]>> : u \in UsedIn(Last(f, About(f, "run", k)))}
  <2>2. \A k \in R : U(k) \subseteq RunKeys \X AssetKeys \X Roles
    <3> SUFFICES ASSUME NEW k \in R, NEW u \in UsedIn(Last(f, About(f, "run", k)))
                 PROVE  <<k, u[1], u[2]>> \in RunKeys \X AssetKeys \X Roles
      OBVIOUS
    <3>1. u \in AssetKeys \X Roles /\ k \in RunKeys  BY <2>1
    <3> QED  BY <3>1
  <2>3. g.used = {u \in d.used : About(f, "run", u[1]) = {}} \cup UNION {U(k) : k \in R}
    BY DEF Result
  <2>4. d.used \subseteq RunKeys \X AssetKeys \X Roles  BY DEF Databases
  <2> HIDE DEF U, R, g
  <2> QED  BY <2>2, <2>3, <2>4
<1>10. g.target \in [TargetKeys -> ValidRows \cup {Nil}]
  <2>1. ASSUME NEW k \in TargetKeys, About(f, "target", k) # {}
        PROVE  Last(f, About(f, "target", k)).row \in ValidRows
    <3>1. PICK n \in About(f, "target", k) : Last(f, About(f, "target", k)) = f[n]  BY <1>4, <2>1
    <3> QED  BY <3>1, <1>3 DEF Acceptable
  <2> QED  BY <2>1 DEF Result, Databases
<1>11. g = [asset |-> g.asset, revision |-> g.revision, link |-> g.link, run |-> g.run,
            used |-> g.used, target |-> g.target]
  BY DEF Result
<1> HIDE DEF g
<1>12. g \in Databases  BY <1>5, <1>6, <1>7, <1>8, <1>9, <1>10, <1>11 DEF Databases
<1> QED  BY <1>12 DEF g

-----------------------------------------------------------------------------
(* The invariant *)

States == Statuses \cup {"needs_method_assets", "needs_target_analysis", "ready_to_execute", "needs_counterpart_run"}

ReaderRecords ==
  [pc : {"idle", "assets", "obligations", "runs", "done"},
   rows : [TargetKeys -> ValidRows \cup {Nil}],
   todo : SUBSET TargetKeys, key : TargetKeys \cup {Nil},
   types : SUBSET (General \cup Specific), obligations : SUBSET AssetKeys, verdicts : SUBSET Verdicts,
   states : [TargetKeys -> States \cup {Nil}], next : TargetKeys \cup {Nil}]
RefillRecords ==
  [pc : {"idle", "oracles", "loop", "exists", "written", "imported"},
   seen : [TargetKeys -> ValidRows \cup {Nil}],
   todo : SUBSET AssetKeys, oracle : AssetKeys \cup {Nil}, key : RefillKeys \cup {Nil},
   row : CandidateTargets \cup {Nil}, out : Seq(CandidateRecords)]

QueueTyped ==
  /\ db \in Databases
  /\ reader \in [Readers -> ReaderRecords]
  /\ refill \in [Refillers -> RefillRecords]

\* A row that needs an obligation of its own, and is not settled.
Broadened(row) == row.broad # Nil /\ row.obligation = Nil /\ ~Settled(row)

\* Nothing is computed before the targets are read, and what is computed for a
\* broadened target is analysis.
StatesOK(r) ==
  /\ r.pc = "idle" => r.states = NoRow
  /\ \A k \in TargetKeys :
       r.states[k] # Nil /\ Broadened(r.rows[k]) => r.states[k] \in {"needs_method_assets", "needs_target_analysis"}

\* Between the SELECTs about a target: what has been read already is of its own.
AtTarget(r) ==
  /\ \A k \in r.todo : r.rows[k] # Nil
  /\ r.pc \in {"obligations", "runs"} =>
       /\ r.key \in TargetKeys /\ r.rows[r.key] # Nil
       /\ NeedsNewObligation(r.rows[r.key]) => "obligation" \notin r.types
  /\ r.pc = "runs" /\ r.rows[r.key].obligation # Nil => r.obligations \subseteq {r.rows[r.key].obligation}

ReaderOK(r) == StatesOK(r) /\ AtTarget(r)

\* A candidate, built or written, is of a base that is no refill target.
RefillOK(s) ==
  /\ s.pc = "idle" => s.out = << >>
  /\ s.pc = "exists" => s.row \in CandidateTargets /\ s.key \in RefillKeys /\ s.row.base \notin RefillKeys
  /\ \A n \in DOMAIN s.out : s.out[n].row.base \notin RefillKeys

\* What a careful refill has read is still so, and what it has written is new:
\* its key, and its oracle.
UpToDate(d, s) ==
  /\ s.seen = d.target
  /\ s.pc = "exists" => s.row.broad \notin Covered(d.target)
  /\ \A n \in DOMAIN s.out :
       /\ d.target[s.out[n].key] = Nil
       /\ s.out[n].row.broad \notin Covered(d.target)

Working(p) == refill[p].pc \notin {"idle", "imported"}

\* Refills that do not overlap are one at a time, and up to date.
CarefulOK(p) ==
  workflow = {} /\ Working(p) => UpToDate(db, refill[p]) /\ \A o \in Refillers \ {p} : ~Working(o)

QueueInv ==
  /\ QueueTyped
  /\ \A q \in Readers : ReaderOK(reader[q])
  /\ \A p \in Refillers : RefillOK(refill[p]) /\ CarefulOK(p)

\* The rows a database has are target rows.
LEMMA RowsAreTargetRows == ASSUME NEW row \in ValidRows PROVE row \in TargetRows
BY DEF QueueAssumption

\* Nobody has read anything.
LEMMA InitQueueInv == Init => QueueInv
<1> SUFFICES ASSUME Init PROVE QueueInv  OBVIOUS
<1>1. NoRow \in [TargetKeys -> ValidRows \cup {Nil}] /\ NoRow \in [TargetKeys -> States \cup {Nil}]
  BY DEF NoRow
<1>2. Idle \in ReaderRecords  BY <1>1 DEF Idle, ReaderRecords
<1>3. << >> \in Seq(CandidateRecords)  OBVIOUS
<1>4. Fresh \in RefillRecords  BY <1>1, <1>3 DEF Fresh, RefillRecords
<1>5. db \in Databases  BY DEF Init, EmptyDatabase, Databases
<1>6. QueueTyped  BY <1>2, <1>4, <1>5 DEF Init, QueueTyped
<1>7. ASSUME NEW q \in Readers PROVE ReaderOK(reader[q])
  BY DEF Init, ReaderOK, StatesOK, AtTarget, Idle, NoRow
<1>8. ASSUME NEW p \in Refillers PROVE RefillOK(refill[p]) /\ CarefulOK(p)
  BY DEF Init, RefillOK, CarefulOK, Working, Fresh
<1> QED  BY <1>6, <1>7, <1>8 DEF QueueInv
-----------------------------------------------------------------------------
(* The steps of a reader *)

\* A step of a reader leaves the others and the refills as they are.
LEMMA ReaderMoves ==
  ASSUME QueueInv, UNCHANGED <<db, refill, workflow>>,
         NEW q \in Readers, NEW r \in ReaderRecords, ReaderOK(r), reader' = [reader EXCEPT ![q] = r]
  PROVE  QueueInv'
<1>1. QueueTyped'  BY DEF QueueInv, QueueTyped
<1>2. \A x \in Readers : ReaderOK(reader'[x])  BY DEF QueueInv, QueueTyped
<1>3. ASSUME NEW p \in Refillers PROVE RefillOK(refill'[p]) /\ CarefulOK(p)'
  BY DEF QueueInv, CarefulOK, Working
<1> QED  BY <1>1, <1>2, <1>3 DEF QueueInv

\* The queue reads the targets,
LEMMA QueueTargetsInv ==
  ASSUME QueueInv, UNCHANGED workflow, NEW q \in Readers, QueueTargets(q)
  PROVE  QueueInv'
<1> DEFINE s == reader[q]
           r == [s EXCEPT !.pc = "assets", !.rows = db.target,
                          !.todo = {k \in TargetKeys : db.target[k] # Nil}]
<1>1. s \in ReaderRecords /\ ReaderOK(s) /\ db.target \in [TargetKeys -> ValidRows \cup {Nil}]
  BY DEF QueueInv, QueueTyped, Databases
<1>2. reader' = [reader EXCEPT ![q] = r] /\ s.pc = "idle"  BY DEF QueueTargets, QueueInv, QueueTyped
<1> HIDE DEF s
<1>3. r \in ReaderRecords  BY <1>1 DEF ReaderRecords
<1>4. /\ r.pc = "assets" /\ r.states = NoRow /\ r.rows = db.target
      /\ r.todo = {k \in TargetKeys : db.target[k] # Nil}
  BY <1>1, <1>2 DEF ReaderRecords, ReaderOK, StatesOK
<1>5. ReaderOK(r)  BY <1>4 DEF ReaderOK, StatesOK, AtTarget, NoRow
<1> HIDE DEF r
<1> QED  BY <1>2, <1>3, <1>5, ReaderMoves DEF QueueTargets

\* A target that needs an obligation of its own has none among its assets.
LEMMA TypesForType ==
  ASSUME NEW d \in Databases, NEW row
  PROVE  /\ TypesFor(d, row) \in SUBSET (General \cup Specific)
         /\ NeedsNewObligation(row) => "obligation" \notin TypesFor(d, row)
<1>1. "obligation" \notin General  BY DEF General
<1> QED  BY <1>1 DEF TypesFor, Living, Present

\* the assets of the first of them,
LEMMA SelectAssetsInv ==
  ASSUME QueueInv, UNCHANGED workflow, NEW q \in Readers, SelectAssets(q)
  PROVE  QueueInv'
<1> DEFINE s == reader[q]
<1>1. s \in ReaderRecords /\ ReaderOK(s) /\ db \in Databases  BY DEF QueueInv, QueueTyped
<1>2. PICK k \in s.todo :
        reader' = [reader EXCEPT ![q].pc = "obligations", ![q].key = k, ![q].todo = @ \ {k},
                                 ![q].types = TypesFor(db, reader[q].rows[k])]
  BY DEF SelectAssets
<1> DEFINE types == TypesFor(db, s.rows[k])
           r == [s EXCEPT !.pc = "obligations", !.key = k, !.todo = @ \ {k}, !.types = types]
<1>3. types \in SUBSET (General \cup Specific) /\ (NeedsNewObligation(s.rows[k]) => "obligation" \notin types)
  BY <1>1, TypesForType
<1>4. reader' = [reader EXCEPT ![q] = r]  BY <1>2 DEF QueueInv, QueueTyped
<1> HIDE DEF s, types
<1>5. k \in TargetKeys  BY <1>1, <1>2 DEF ReaderRecords
<1>6. r \in ReaderRecords  BY <1>1, <1>3, <1>5 DEF ReaderRecords
<1>7. /\ r.pc = "obligations" /\ r.key = k /\ r.types = types /\ r.todo = s.todo \ {k}
      /\ r.rows = s.rows /\ r.states = s.states
  BY <1>1 DEF ReaderRecords
<1> HIDE DEF r
<1>8. ReaderOK(r)  BY <1>1, <1>3, <1>5, <1>7 DEF ReaderOK, StatesOK, AtTarget
<1> QED  BY <1>4, <1>6, <1>8, ReaderMoves DEF SelectAssets

\* its obligations,
LEMMA SelectObligationsInv ==
  ASSUME QueueInv, UNCHANGED workflow, NEW q \in Readers, SelectObligations(q)
  PROVE  QueueInv'
<1> DEFINE s == reader[q]
           own == ObligationsFor(db, s.rows[s.key])
           r == [s EXCEPT !.pc = "runs", !.obligations = own]
<1>1. s \in ReaderRecords /\ ReaderOK(s) /\ db \in Databases  BY DEF QueueInv, QueueTyped
<1>2. reader' = [reader EXCEPT ![q] = r] /\ s.pc = "obligations"  BY DEF SelectObligations, QueueInv, QueueTyped
<1> HIDE DEF s
<1>3. own \in SUBSET AssetKeys
      /\ (s.rows[s.key].obligation # Nil => own \subseteq {s.rows[s.key].obligation})
  BY DEF ObligationsFor, Living, Present
<1> HIDE DEF own
<1>4. r \in ReaderRecords  BY <1>1, <1>3 DEF ReaderRecords
<1>5. /\ r.pc = "runs" /\ r.key = s.key /\ r.types = s.types /\ r.obligations = own
      /\ r.todo = s.todo /\ r.rows = s.rows /\ r.states = s.states
  BY <1>1 DEF ReaderRecords
<1> HIDE DEF r
<1>6. ReaderOK(r)  BY <1>1, <1>2, <1>3, <1>5 DEF ReaderOK, StatesOK, AtTarget
<1> QED  BY <1>2, <1>4, <1>6, ReaderMoves DEF SelectObligations

\* What is concluded from them is a state.
LEMMA NextStateType ==
  ASSUME NEW row, row.status \in Statuses, NEW types, NEW verdicts
  PROVE  NextState(row, types, verdicts) \in States
<1> DEFINE settled == row.status \in {"validated", "retired", "blocked"}
           both == {"RED", "GREEN"} \subseteq verdicts
<1>1. both => verdicts # {}  OBVIOUS
<1>2. CASE settled
  <2>1. NextState(row, types, verdicts) = row.status  BY <1>2 DEF NextState
  <2> QED  BY <2>1 DEF States
<1>3. CASE ~settled
  <2>1. NextState(row, types, verdicts) \in
          {"needs_method_assets", "needs_target_analysis", "ready_to_execute", "validated", "needs_counterpart_run"}
    BY <1>1, <1>3, Zenon DEF NextState
  <2> QED  BY <2>1 DEF States, Statuses
<1> QED  BY <1>2, <1>3

\* Without an obligation among its assets a target stays in analysis.
LEMMA NoObligationNoExecution ==
  ASSUME NEW row, ~Settled(row), NEW types, "obligation" \notin types, NEW verdicts
  PROVE  NextState(row, types, verdicts) \in {"needs_method_assets", "needs_target_analysis"}
<1>1. ~(Specific \subseteq types)  BY DEF Specific
<1> QED  BY <1>1 DEF NextState, Settled

\* A target becomes validated by a red and a green run.
LEMMA ValidatedByBoth ==
  ASSUME NEW row, ~Settled(row), NEW types, NEW verdicts, NextState(row, types, verdicts) = "validated"
  PROVE  {"RED", "GREEN"} \subseteq verdicts
BY DEF NextState, Settled

\* What is read of runs are verdicts.
LEMMA VerdictsOfType ==
  ASSUME NEW d \in Databases, NEW obligations
  PROVE  VerdictsOf(d, obligations) \in SUBSET Verdicts
BY DEF VerdictsOf, Databases, RunRows

\* and the runs of these,
LEMMA SelectRunsInv ==
  ASSUME QueueInv, UNCHANGED workflow, NEW q \in Readers, SelectRuns(q)
  PROVE  QueueInv'
<1> DEFINE s == reader[q]
           row == s.rows[s.key]
           verdicts == VerdictsOf(db, s.obligations)
           state == NextState(row, s.types, verdicts)
           states == [s.states EXCEPT ![s.key] = state]
           r == [s EXCEPT !.pc = "assets", !.verdicts = verdicts, !.states = states]
<1>1. s \in ReaderRecords /\ ReaderOK(s) /\ db \in Databases /\ s.pc = "runs"
  BY DEF QueueInv, QueueTyped, SelectRuns
<1>2. reader' = [reader EXCEPT ![q] = r]
  <2>1. reader' = [reader EXCEPT ![q].pc = "assets", ![q].verdicts = verdicts, ![q].states[s.key] = state]
    BY DEF SelectRuns
  <2> HIDE DEF verdicts, state
  <2> QED  BY <2>1 DEF QueueInv, QueueTyped
<1>3. verdicts \in SUBSET Verdicts  BY <1>1, VerdictsOfType
<1> HIDE DEF s
<1>4. s.key \in TargetKeys /\ row \in ValidRows \cup {Nil}  BY <1>1 DEF ReaderRecords, ReaderOK, AtTarget
<1>5. row \in ValidRows  BY <1>1, <1>4 DEF ReaderOK, AtTarget
<1>6. state \in States
  <2>1. row.status \in Statuses  BY <1>5, RowsAreTargetRows DEF TargetRows
  <2> QED  BY <2>1, NextStateType
<1>7. Broadened(row) => state \in {"needs_method_assets", "needs_target_analysis"}
  <2> SUFFICES ASSUME Broadened(row)
               PROVE  state \in {"needs_method_assets", "needs_target_analysis"}
    OBVIOUS
  <2>1. ~Settled(row) /\ NeedsNewObligation(row)  BY DEF Broadened, NeedsNewObligation
  <2>2. "obligation" \notin s.types  BY <1>1, <2>1 DEF ReaderOK, AtTarget
  <2> QED  BY <2>1, <2>2, NoObligationNoExecution
<1> HIDE DEF verdicts, state
<1>8. /\ states \in [TargetKeys -> States \cup {Nil}]
      /\ \A k \in TargetKeys : states[k] = IF k = s.key THEN state ELSE s.states[k]
  BY <1>1, <1>4, <1>6 DEF ReaderRecords
<1> HIDE DEF states
<1>9. r \in ReaderRecords  BY <1>1, <1>3, <1>8 DEF ReaderRecords
<1>10. /\ r.pc = "assets" /\ r.states = states /\ r.rows = s.rows /\ r.todo = s.todo
  BY <1>1 DEF ReaderRecords
<1> HIDE DEF r
<1>11. StatesOK(r)
  <2>1. ASSUME NEW k \in TargetKeys, r.states[k] # Nil, Broadened(r.rows[k])
        PROVE  r.states[k] \in {"needs_method_assets", "needs_target_analysis"}
    <3>1. CASE k = s.key  BY <3>1, <2>1, <1>7, <1>8, <1>10
    <3>2. CASE k # s.key  BY <3>2, <2>1, <1>1, <1>8, <1>10 DEF ReaderOK, StatesOK
    <3> QED  BY <3>1, <3>2
  <2> QED  BY <2>1, <1>10 DEF StatesOK
<1>12. ReaderOK(r)  BY <1>1, <1>10, <1>11 DEF ReaderOK, AtTarget
<1> QED  BY <1>2, <1>9, <1>12, ReaderMoves DEF SelectRuns

\* and chooses when all are read.
LEMMA ChooseInv ==
  ASSUME QueueInv, UNCHANGED workflow, NEW q \in Readers, Choose(q)
  PROVE  QueueInv'
<1> DEFINE s == reader[q]
<1>1. s \in ReaderRecords /\ ReaderOK(s) /\ s.pc = "assets" /\ Active(s) \subseteq TargetKeys
  BY DEF QueueInv, QueueTyped, Choose, Active
<1>2. ASSUME NEW next \in TargetKeys \cup {Nil}, reader' = [reader EXCEPT ![q] = [s EXCEPT !.pc = "done", !.next = next]]
      PROVE  QueueInv'
  <2> DEFINE r == [s EXCEPT !.pc = "done", !.next = next]
  <2> HIDE DEF s
  <2>1. r \in ReaderRecords  BY <1>1 DEF ReaderRecords
  <2>2. r.pc = "done" /\ r.states = s.states /\ r.rows = s.rows /\ r.todo = s.todo
    BY <1>1 DEF ReaderRecords
  <2>3. reader' = [reader EXCEPT ![q] = r]  BY <1>2
  <2> HIDE DEF r
  <2>4. ReaderOK(r)  BY <1>1, <2>2 DEF ReaderOK, StatesOK, AtTarget
  <2> QED  BY <2>1, <2>3, <2>4, ReaderMoves DEF Choose
<1>3. CASE reader' = [reader EXCEPT ![q].pc = "done"]
  <2>1. s.next \in TargetKeys \cup {Nil}  BY <1>1 DEF ReaderRecords
  <2>2. [s EXCEPT !.pc = "done", !.next = s.next] = [s EXCEPT !.pc = "done"]  BY <1>1 DEF ReaderRecords
  <2>3. reader' = [reader EXCEPT ![q] = [s EXCEPT !.pc = "done", !.next = s.next]]  BY <1>3, <2>2
  <2> QED  BY <1>2, <2>1, <2>3
<1>4. CASE \E k \in Active(s) : reader' = [reader EXCEPT ![q].pc = "done", ![q].next = k]
  <2>1. PICK k \in Active(s) : reader' = [reader EXCEPT ![q].pc = "done", ![q].next = k]  BY <1>4
  <2>2. reader' = [reader EXCEPT ![q] = [s EXCEPT !.pc = "done", !.next = k]]
    BY <2>1 DEF QueueInv, QueueTyped
  <2> QED  BY <1>1, <1>2, <2>2
<1> QED  BY <1>3, <1>4 DEF Choose

-----------------------------------------------------------------------------
(* The steps of a refill *)

\* A step of a refill that goes on leaves the readers and the others as they are.
LEMMA RefillMoves ==
  ASSUME QueueInv, UNCHANGED <<db, reader, workflow>>,
         NEW p \in Refillers, NEW s \in RefillRecords, RefillOK(s), refill' = [refill EXCEPT ![p] = s],
         workflow = {} => UpToDate(db, s) /\ \A o \in Refillers \ {p} : ~Working(o)
  PROVE  QueueInv'
<1>1. QueueTyped'  BY DEF QueueInv, QueueTyped
<1>2. \A q \in Readers : ReaderOK(reader'[q])  BY DEF QueueInv
<1>3. refill'[p] = s /\ \A o \in Refillers \ {p} : refill'[o] = refill[o]  BY DEF QueueInv, QueueTyped
<1>4. \A o \in Refillers : RefillOK(refill'[o])  BY <1>3 DEF QueueInv
<1>5. ASSUME NEW o \in Refillers, workflow' = {}, Working(o)'
      PROVE  UpToDate(db', refill'[o]) /\ \A x \in Refillers \ {o} : ~Working(x)'
  <2>1. UpToDate(db, s) /\ \A x \in Refillers \ {p} : ~Working(x)  BY <1>5
  <2>2. o = p  BY <1>3, <1>5, <2>1 DEF Working
  <2>3. \A x \in Refillers \ {p} : ~Working(x)'  BY <1>3, <2>1 DEF Working
  <2> QED  BY <1>3, <2>1, <2>2, <2>3
<1>6. \A o \in Refillers : CarefulOK(o)'  BY <1>5 DEF CarefulOK
<1> QED  BY <1>1, <1>2, <1>4, <1>6 DEF QueueInv

\* What the invariant says of a refill that works.
LEMMA AtRefill ==
  ASSUME QueueInv, NEW p \in Refillers
  PROVE  /\ refill[p] \in RefillRecords /\ RefillOK(refill[p]) /\ db \in Databases
         /\ Working(p) /\ workflow = {} =>
              UpToDate(db, refill[p]) /\ \A o \in Refillers \ {p} : ~Working(o)
BY DEF QueueInv, QueueTyped, CarefulOK

\* A refill reads the targets,
LEMMA RefillTargetsInv ==
  ASSUME QueueInv, UNCHANGED workflow, NEW p \in Refillers, RefillTargets(p)
  PROVE  QueueInv'
<1> DEFINE s == refill[p]
           r == [s EXCEPT !.pc = "oracles", !.seen = db.target]
<1>1. s \in RefillRecords /\ RefillOK(s) /\ db \in Databases  BY AtRefill
<1>2. refill' = [refill EXCEPT ![p] = r] /\ s.pc = "idle"  BY DEF RefillTargets, QueueInv, QueueTyped
<1>3. workflow = {} => \A o \in Refillers \ {p} : ~Working(o)  BY DEF RefillTargets, MayStart, Working
<1> HIDE DEF s
<1>4. r \in RefillRecords  BY <1>1 DEF RefillRecords, Databases
<1>5. r.pc = "oracles" /\ r.seen = db.target /\ r.out = << >>  BY <1>1, <1>2 DEF RefillRecords, RefillOK
<1> HIDE DEF r
<1>6. RefillOK(r) /\ UpToDate(db, r)  BY <1>5 DEF RefillOK, UpToDate
<1> QED  BY <1>2, <1>3, <1>4, <1>6, RefillMoves DEF RefillTargets

\* A step that changes only what is left to do, and the place.
LEMMA RefillGoesOn ==
  ASSUME QueueInv, UNCHANGED <<db, reader, workflow>>, NEW p \in Refillers, Working(p),
         NEW pc \in {"loop", "written"}, NEW todo \in SUBSET AssetKeys,
         refill' = [refill EXCEPT ![p] = [refill[p] EXCEPT !.pc = pc, !.todo = todo]]
  PROVE  QueueInv'
<1> DEFINE s == refill[p]
           r == [s EXCEPT !.pc = pc, !.todo = todo]
<1>1. /\ s \in RefillRecords /\ RefillOK(s)
      /\ workflow = {} => UpToDate(db, s) /\ \A o \in Refillers \ {p} : ~Working(o)
  BY AtRefill
<1>2. refill' = [refill EXCEPT ![p] = r]  OBVIOUS
<1> HIDE DEF s
<1>3. r \in RefillRecords  BY <1>1 DEF RefillRecords
<1>4. r.pc = pc /\ r.seen = s.seen /\ r.out = s.out  BY <1>1 DEF RefillRecords
<1> HIDE DEF r
<1>5. RefillOK(r)  BY <1>1, <1>4 DEF RefillOK
<1>6. workflow = {} => UpToDate(db, r)  BY <1>1, <1>4 DEF UpToDate
<1> QED  BY <1>1, <1>2, <1>3, <1>5, <1>6, RefillMoves

\* the oracles,
LEMMA RefillOraclesInv ==
  ASSUME QueueInv, UNCHANGED workflow, NEW p \in Refillers, RefillOracles(p)
  PROVE  QueueInv'
<1>1. Debt(db) \in SUBSET AssetKeys  BY DEF Debt, Living, Present
<1>2. refill' = [refill EXCEPT ![p] = [refill[p] EXCEPT !.pc = "loop", !.todo = Debt(db)]]
  BY DEF RefillOracles, QueueInv, QueueTyped
<1> QED  BY <1>1, <1>2, RefillGoesOn DEF RefillOracles, Working

\* passes over one that is covered,
LEMMA SkipCoveredInv ==
  ASSUME QueueInv, UNCHANGED workflow, NEW p \in Refillers, SkipCovered(p)
  PROVE  QueueInv'
<1> DEFINE s == refill[p]
<1>1. s \in RefillRecords /\ s.pc = "loop"  BY AtRefill DEF SkipCovered
<1>2. PICK o \in s.todo : refill' = [refill EXCEPT ![p].todo = @ \ {o}]  BY DEF SkipCovered
<1>3. s.todo \ {o} \in SUBSET AssetKeys  BY <1>1 DEF RefillRecords
<1>4. [s EXCEPT !.pc = "loop", !.todo = s.todo \ {o}] = [s EXCEPT !.todo = s.todo \ {o}]
  BY <1>1 DEF RefillRecords
<1>5. refill' = [refill EXCEPT ![p] = [s EXCEPT !.pc = "loop", !.todo = s.todo \ {o}]]
  BY <1>2, <1>4 DEF QueueInv, QueueTyped
<1> QED  BY <1>1, <1>3, <1>5, RefillGoesOn DEF SkipCovered, Working

\* writes its file,
LEMMA RefillWriteInv ==
  ASSUME QueueInv, UNCHANGED workflow, NEW p \in Refillers, RefillWrite(p)
  PROVE  QueueInv'
<1> DEFINE s == refill[p]
<1>1. s \in RefillRecords /\ s.pc = "loop"  BY AtRefill DEF RefillWrite
<1>2. s.todo \in SUBSET AssetKeys /\ [s EXCEPT !.pc = "written", !.todo = s.todo] = [s EXCEPT !.pc = "written"]
  BY <1>1 DEF RefillRecords
<1>3. refill' = [refill EXCEPT ![p] = [s EXCEPT !.pc = "written", !.todo = s.todo]]
  BY <1>2 DEF RefillWrite, QueueInv, QueueTyped
<1> QED  BY <1>1, <1>2, <1>3, RefillGoesOn DEF RefillWrite, Working

\* A candidate is a row refill may write, of the base and the oracle it is for.
LEMMA CandidateType ==
  ASSUME NEW d \in Databases, NEW oracle \in AssetKeys, NEW obligation \in AssetKeys,
         d.asset[obligation] # Nil, NEW base \in TargetKeys, NEW row \in ValidRows
  PROVE  LET c == Candidate(d, oracle, obligation, base, row)
         IN  c \in CandidateTargets /\ c.base = base /\ c.broad = oracle
<1>1. d.asset[obligation] \in AssetBodies  BY DEF Databases, QueueAssumption
<1>2. d.asset[obligation].module \in STRING /\ d.asset[obligation].selector \in STRING
  BY <1>1 DEF AssetBodies
<1>3. row.consequence \in Nat  BY RowsAreTargetRows DEF TargetRows
<1> QED  BY <1>2, <1>3 DEF Candidate, CandidateTargets

\* composes a candidate,
LEMMA RefillOracleInv ==
  ASSUME QueueInv, UNCHANGED workflow, NEW p \in Refillers, RefillOracle(p)
  PROVE  QueueInv'
<1> DEFINE s == refill[p]
           seen == s.seen
<1>1. /\ s \in RefillRecords /\ RefillOK(s) /\ db \in Databases /\ s.pc = "loop"
      /\ workflow = {} => UpToDate(db, s) /\ \A o \in Refillers \ {p} : ~Working(o)
      /\ UNCHANGED <<db, reader>>
  BY AtRefill DEF RefillOracle, Working
<1>2. PICK o \in s.todo :
        LET found == {f \in Obligations(db, o) \X TargetKeys : f[2] \in Bases(seen, f[1])}
        IN  /\ "include-covered" \in workflow \/ o \notin Covered(seen)
            /\ \/ /\ found = {}
                  /\ refill' = [refill EXCEPT ![p].todo = IF Obligations(db, o) = {} THEN @ \ {o}
                                                          ELSE Rest(p, o, refill[p].out)]
               \/ \E f \in found :
                    refill' = [refill EXCEPT ![p].pc = "exists", ![p].oracle = o,
                                            ![p].key = RefillKey[<<f[2], o>>],
                                            ![p].row = Candidate(db, o, f[1], f[2], seen[f[2]])]
  BY DEF RefillOracle
<1>3. o \in AssetKeys /\ (workflow = {} => o \notin Covered(seen))  BY <1>1, <1>2 DEF RefillRecords
<1>4. ASSUME NEW todo \in SUBSET AssetKeys, refill' = [refill EXCEPT ![p].todo = todo]
      PROVE  QueueInv'
  <2>1. [s EXCEPT !.pc = "loop", !.todo = todo] = [s EXCEPT !.todo = todo]  BY <1>1 DEF RefillRecords
  <2>2. refill' = [refill EXCEPT ![p] = [s EXCEPT !.pc = "loop", !.todo = todo]]
    BY <1>4, <2>1 DEF QueueInv, QueueTyped
  <2> QED  BY <1>1, <2>2, RefillGoesOn DEF Working
<1>5. CASE refill' = [refill EXCEPT ![p].todo = IF Obligations(db, o) = {} THEN @ \ {o}
                                                ELSE Rest(p, o, refill[p].out)]
  <2> DEFINE todo == IF Obligations(db, o) = {} THEN s.todo \ {o} ELSE Rest(p, o, s.out)
  <2>1. todo \in SUBSET AssetKeys  BY <1>1 DEF RefillRecords, Rest
  <2>2. refill' = [refill EXCEPT ![p].todo = todo]  BY <1>5
  <2> HIDE DEF todo
  <2> QED  BY <1>4, <2>1, <2>2
<1>6. ASSUME NEW f \in Obligations(db, o) \X TargetKeys, f[2] \in Bases(seen, f[1]),
             refill' = [refill EXCEPT ![p].pc = "exists", ![p].oracle = o,
                                     ![p].key = RefillKey[<<f[2], o>>],
                                     ![p].row = Candidate(db, o, f[1], f[2], seen[f[2]])]
      PROVE  QueueInv'
  <2>1. f[1] \in AssetKeys /\ db.asset[f[1]] # Nil  BY DEF Obligations, Present, Known
  <2>2. f[2] \in TargetKeys /\ seen[f[2]] # Nil /\ f[2] \notin RefillKeys
    BY <1>6 DEF Bases, IsRecursiveBase
  <2>3. seen[f[2]] \in ValidRows  BY <1>1, <2>2 DEF RefillRecords
  <2> DEFINE key == RefillKey[<<f[2], o>>]
             row == Candidate(db, o, f[1], f[2], seen[f[2]])
             r == [s EXCEPT !.pc = "exists", !.oracle = o, !.key = key, !.row = row]
  <2>4. row \in CandidateTargets /\ row.base = f[2] /\ row.broad = o
    BY <1>1, <1>3, <2>1, <2>2, <2>3, CandidateType
  <2>5. key \in RefillKeys  BY <1>3, <2>2 DEF RefillKeys
  <2> HIDE DEF row, key
  <2>6. refill' = [refill EXCEPT ![p] = r]  BY <1>6 DEF QueueInv, QueueTyped, row, key
  <2> HIDE DEF s
  <2>7. r \in RefillRecords  BY <1>1, <1>3, <2>4, <2>5 DEF RefillRecords
  <2>8. r.pc = "exists" /\ r.key = key /\ r.row = row /\ r.seen = s.seen /\ r.out = s.out
    BY <1>1 DEF RefillRecords
  <2> HIDE DEF r
  <2>9. RefillOK(r)  BY <1>1, <2>2, <2>4, <2>5, <2>8 DEF RefillOK
  <2>10. workflow = {} => UpToDate(db, r)  BY <1>1, <1>3, <2>4, <2>8 DEF UpToDate
  <2> QED  BY <1>1, <2>6, <2>7, <2>9, <2>10, RefillMoves
<1> QED  BY <1>2, <1>5, <1>6

\* and asks whether it exists.
LEMMA RefillExistsInv ==
  ASSUME QueueInv, UNCHANGED workflow, NEW p \in Refillers, RefillExists(p)
  PROVE  QueueInv'
<1> DEFINE s == refill[p]
           line == [kind |-> "target", key |-> s.key, row |-> s.row]
           out == IF db.target[s.key] = Nil THEN Append(s.out, line) ELSE s.out
           todo == Rest(p, s.oracle, out)
           r == [s EXCEPT !.pc = "loop", !.out = out, !.todo = todo]
<1>1. /\ s \in RefillRecords /\ RefillOK(s) /\ s.pc = "exists"
      /\ workflow = {} => UpToDate(db, s) /\ \A o \in Refillers \ {p} : ~Working(o)
      /\ UNCHANGED <<db, reader>>
  BY AtRefill DEF RefillExists, Working
<1>2. refill' = [refill EXCEPT ![p] = r]
  <2>1. refill' = [refill EXCEPT ![p].pc = "loop", ![p].out = out, ![p].todo = todo]  BY DEF RefillExists
  <2> HIDE DEF out, todo
  <2> QED  BY <2>1 DEF QueueInv, QueueTyped
<1>3. todo \in SUBSET AssetKeys  BY <1>1 DEF RefillRecords, Rest
<1> HIDE DEF todo, s
<1>4. s.out \in Seq(CandidateRecords)  BY <1>1 DEF RefillRecords
<1>5. line \in CandidateRecords /\ line.row = s.row /\ line.key = s.key
  BY <1>1 DEF RefillOK, CandidateRecords
<1> HIDE DEF line
<1>6. out \in Seq(CandidateRecords)  BY <1>4, <1>5
<1>7. \A n \in DOMAIN out : \/ n \in DOMAIN s.out /\ out[n] = s.out[n]
                            \/ out[n] = line /\ db.target[s.key] = Nil
  BY <1>4, <1>5
<1> HIDE DEF out
<1>8. r \in RefillRecords  BY <1>1, <1>3, <1>6 DEF RefillRecords
<1>9. r.pc = "loop" /\ r.seen = s.seen /\ r.out = out  BY <1>1 DEF RefillRecords
<1> HIDE DEF r
<1>10. RefillOK(r)  BY <1>1, <1>5, <1>7, <1>9 DEF RefillOK
<1>11. ASSUME workflow = {} PROVE UpToDate(db, r)
  <2>1. UpToDate(db, s)  BY <1>1, <1>11
  <2> QED  BY <1>1, <1>5, <1>7, <1>9, <2>1 DEF UpToDate
<1> QED  BY <1>1, <1>2, <1>8, <1>10, <1>11, RefillMoves

-----------------------------------------------------------------------------
(* Imports *)

\* An import leaves a database.
LEMMA ImportType ==
  ASSUME QueueInv, NEW f \in Seq(Importable), ImportFile(f)
  PROVE  db' \in Databases
BY ResultType DEF QueueInv, QueueTyped, ImportFile

\* The candidates of a refill are imported,
LEMMA ImportCandidatesInv ==
  ASSUME QueueInv, UNCHANGED workflow, NEW p \in Refillers, ImportCandidates(p)
  PROVE  QueueInv'
<1> DEFINE s == refill[p]
           r == [s EXCEPT !.pc = "imported"]
<1>1. s \in RefillRecords /\ RefillOK(s)  BY AtRefill
<1>2. /\ refill' = [refill EXCEPT ![p] = r] /\ UNCHANGED reader
      /\ s.pc = "written" \/ workflow # {}
  BY DEF ImportCandidates, QueueInv, QueueTyped
<1>3. db' \in Databases
  <2>1. s.out \in Seq(Importable)  BY <1>1 DEF RefillRecords, Importable
  <2> QED  BY <2>1, ImportType DEF ImportCandidates
<1> HIDE DEF s
<1>4. r \in RefillRecords  BY <1>1 DEF RefillRecords
<1>5. r.pc = "imported" /\ r.out = s.out  BY <1>1 DEF RefillRecords
<1> HIDE DEF r
<1>6. RefillOK(r)  BY <1>1, <1>5 DEF RefillOK
<1>7. QueueTyped'  BY <1>2, <1>3, <1>4 DEF QueueInv, QueueTyped
<1>8. \A q \in Readers : ReaderOK(reader'[q])  BY <1>2 DEF QueueInv
<1>9. refill'[p] = r /\ \A o \in Refillers \ {p} : refill'[o] = refill[o]
  BY <1>2 DEF QueueInv, QueueTyped
<1>10. \A o \in Refillers : RefillOK(refill'[o])  BY <1>6, <1>9 DEF QueueInv
<1>11. ASSUME workflow = {}, NEW o \in Refillers PROVE ~Working(o)'
  <2>1. CASE o = p  BY <2>1, <1>5, <1>9 DEF Working
  <2>2. CASE o # p
    <3>1. Working(p)  BY <1>2, <1>11 DEF Working, s
    <3>2. ~Working(o)  BY <3>1, <2>2, <1>11, AtRefill
    <3> QED  BY <3>2, <2>2, <1>9 DEF Working
  <2> QED  BY <2>1, <2>2
<1>12. \A o \in Refillers : CarefulOK(o)'  BY <1>11 DEF CarefulOK
<1> QED  BY <1>7, <1>8, <1>10, <1>12 DEF QueueInv

\* and so are the files of people.
LEMMA CurateInv ==
  ASSUME QueueInv, UNCHANGED workflow, NEW f \in Files, Curate(f)
  PROVE  QueueInv'
<1>1. UNCHANGED <<reader, refill>>  BY DEF Curate
<1>2. db' \in Databases
  <2>1. f \in Seq(Importable)
    <3>1. f \in Seq(Records)  BY DEF QueueAssumption
    <3> QED  BY <3>1 DEF Importable
  <2> QED  BY <2>1, ImportType DEF Curate
<1>3. QueueTyped'  BY <1>1, <1>2 DEF QueueInv, QueueTyped
<1>4. workflow = {} => \A p \in Refillers : ~Working(p)  BY DEF Curate, Working
<1>5. \A p \in Refillers : RefillOK(refill'[p]) /\ CarefulOK(p)'
  BY <1>1, <1>4 DEF QueueInv, CarefulOK, Working
<1> QED  BY <1>1, <1>3, <1>5 DEF QueueInv

\* Every step of the readers, the refills and the people preserves the invariant.
LEMMA NextQueueInv == QueueInv /\ [Next]_vars => QueueInv'
<1> SUFFICES ASSUME QueueInv, [Next]_vars PROVE QueueInv'  OBVIOUS
<1>1. CASE UNCHANGED vars
  BY <1>1 DEF vars, QueueInv, QueueTyped, CarefulOK, Working
<1>2. ASSUME UNCHANGED workflow, NEW q \in Readers, QueueStep(q) PROVE QueueInv'
  BY <1>2, QueueTargetsInv, SelectAssetsInv, SelectObligationsInv, SelectRunsInv, ChooseInv DEF QueueStep
<1>3. ASSUME UNCHANGED workflow, NEW p \in Refillers, RefillStep(p) PROVE QueueInv'
  BY <1>3, RefillTargetsInv, RefillOraclesInv, SkipCoveredInv, RefillOracleInv, RefillExistsInv,
     RefillWriteInv DEF RefillStep
<1> QED  BY <1>1, <1>2, <1>3, ImportCandidatesInv, CurateInv DEF Next

\* The inductive invariant holds of every behaviour.
THEOREM QueueInvHolds == Spec => []QueueInv
BY InitQueueInv, NextQueueInv, PTL DEF Spec
-----------------------------------------------------------------------------
(* The properties *)

\* The types are correct: what next reads, what refill has read and what it
\* writes are rows of the schema, and refill writes nothing admitted and no row
\* with an obligation (store.py, build_refill_target).
THEOREM QueueTypeCorrect == Spec => []TypeOK
<1>1. QueueInv => TypeOK
  <2> SUFFICES ASSUME QueueInv PROVE TypeOK  OBVIOUS
  <2>1. ASSUME NEW q \in Readers
        PROVE  /\ reader[q].pc \in {"idle", "assets", "obligations", "runs", "done"}
               /\ reader[q].rows \in [TargetKeys -> ValidRows \cup {Nil}]
               /\ reader[q].todo \subseteq TargetKeys
               /\ reader[q].key \in TargetKeys \cup {Nil}
               /\ reader[q].obligations \subseteq AssetKeys
               /\ reader[q].verdicts \subseteq Verdicts
               /\ reader[q].next \in TargetKeys \cup {Nil}
    <3>1. reader[q] \in ReaderRecords  BY DEF QueueInv, QueueTyped
    <3> QED  BY <3>1 DEF ReaderRecords
  <2>2. ASSUME NEW p \in Refillers
        PROVE  /\ refill[p].pc \in {"idle", "oracles", "loop", "exists", "written", "imported"}
               /\ refill[p].seen \in [TargetKeys -> ValidRows \cup {Nil}]
               /\ refill[p].todo \subseteq AssetKeys
               /\ refill[p].out \in Seq([kind : {"target"}, key : RefillKeys, row : CandidateTargets])
    BY AtRefill DEF RefillRecords, CandidateRecords
  <2> QED  BY <2>1, <2>2 DEF TypeOK, QueueInv, QueueTyped
<1> QED  BY <1>1, QueueInvHolds, PTL

\* A target with a broad oracle and no obligation of its own stays in analysis
\* (store.py, target_asset_state), whatever is imported between the SELECTs.
THEOREM NoBroadExecutionHolds == Spec => []NoBroadExecution
<1>1. QueueInv => NoBroadExecution
  BY DEF QueueInv, ReaderOK, StatesOK, Broadened, NoBroadExecution, Computed
<1> QED  BY <1>1, QueueInvHolds, PTL

\* No candidate is built on a refill target (store.py, is_recursive_refill_base).
THEOREM NoSelfReplicationHolds == Spec => []NoSelfReplication
<1>1. QueueInv => NoSelfReplication  BY DEF QueueInv, RefillOK, NoSelfReplication
<1> QED  BY <1>1, QueueInvHolds, PTL

\* A target with an obligation of its own is judged by runs of it only
\* (store.py, target_asset_state).
THEOREM OwnRunsOnlyHolds == Spec => OwnRunsOnly
<1>1. ASSUME QueueInv, [Next]_vars, NEW q \in Readers,
             reader[q].pc = "runs", reader'[q].pc # "runs",
             reader[q].rows[reader[q].key].obligation # Nil
      PROVE  LET row == reader[q].rows[reader[q].key]
                 own == VerdictsOf(db, {row.obligation})
             IN  /\ reader'[q].verdicts \subseteq own
                 /\ ~Settled(row) /\ Computed(q, reader[q].key)' = "validated" => {"RED", "GREEN"} \subseteq own
  <2> DEFINE s == reader[q]
             row == s.rows[s.key]
             own == VerdictsOf(db, {row.obligation})
             verdicts == VerdictsOf(db, s.obligations)
  <2>1. s \in ReaderRecords /\ ReaderOK(s) /\ reader \in [Readers -> ReaderRecords]
    BY <1>1 DEF QueueInv, QueueTyped
  <2>2. SelectRuns(q)
    <3>1. reader' # reader  BY <1>1
    <3>2. PICK x \in Readers : QueueStep(x)
      BY <1>1, <3>1 DEF Next, vars, RefillStep, RefillTargets, RefillOracles, SkipCovered, RefillOracle,
         RefillExists, RefillWrite, ImportCandidates, Curate
    <3>3. x = q
      BY <1>1, <2>1, <3>2 DEF QueueStep, QueueTargets, SelectAssets, SelectObligations, SelectRuns, Choose
    <3> QED  BY <1>1, <3>2, <3>3 DEF QueueStep, QueueTargets, SelectAssets, SelectObligations, Choose
  <2>3. /\ reader'[q].verdicts = verdicts /\ reader'[q].key = s.key
        /\ s.key \in TargetKeys
        /\ reader'[q].states[s.key] = NextState(row, s.types, verdicts)
    <3>1. s.key \in TargetKeys  BY <1>1, <2>1 DEF ReaderOK, AtTarget
    <3>2. s.states \in [TargetKeys -> States \cup {Nil}]  BY <2>1 DEF ReaderRecords
    <3> DEFINE state == NextState(row, s.types, verdicts)
    <3>3. reader' = [reader EXCEPT ![q].pc = "assets", ![q].verdicts = verdicts, ![q].states[s.key] = state]
      BY <2>2 DEF SelectRuns
    <3> HIDE DEF state, verdicts
    <3>4. /\ reader'[q].verdicts = verdicts /\ reader'[q].key = s.key
          /\ reader'[q].states = [s.states EXCEPT ![s.key] = state]
      BY <2>1, <3>3 DEF ReaderRecords
    <3> QED  BY <3>1, <3>2, <3>4 DEF state
  <2>4. s.obligations \subseteq {row.obligation}  BY <1>1, <2>1 DEF ReaderOK, AtTarget
  <2>5. verdicts \subseteq own  BY <2>4 DEF VerdictsOf
  <2>6. ~Settled(row) /\ reader'[q].states[s.key] = "validated" => {"RED", "GREEN"} \subseteq verdicts
    BY <2>3, ValidatedByBoth
  <2>7. Computed(q, reader[q].key)' = reader'[q].states[s.key]  BY <2>3 DEF Computed
  <2> HIDE DEF verdicts
  <2> QED  BY <2>3, <2>5, <2>6, <2>7
<1>2. QueueInv /\ [Next]_vars =>
        [\A q \in Readers :
           LET row == reader[q].rows[reader[q].key]
               own == VerdictsOf(db, {row.obligation})
           IN  reader[q].pc = "runs" /\ reader'[q].pc # "runs" /\ row.obligation # Nil =>
                 /\ reader'[q].verdicts \subseteq own
                 /\ ~Settled(row) /\ Computed(q, reader[q].key)' = "validated" => {"RED", "GREEN"} \subseteq own]_vars
  BY <1>1
<1> QED  BY <1>2, QueueInvHolds, PTL DEF Spec, OwnRunsOnly

\* Careful refills change no target and open none for an oracle that has an open
\* one (store.py, refill and import_target).
THEOREM RefillRespectsQueueHolds == Spec => RefillRespectsQueue
<1>1. ASSUME QueueInv, [Next]_vars, NEW p \in Refillers,
             workflow = {}, refill[p].pc = "written", refill'[p].pc = "imported"
      PROVE  /\ \A k \in TargetKeys : db.target[k] # Nil => db'.target[k] = db.target[k]
             /\ \A n \in DOMAIN refill[p].out, k \in TargetKeys :
                  db.target[k] # Nil /\ db.target[k].broad = refill[p].out[n].row.broad =>
                    db.target[k].status = "retired"
  <2> DEFINE out == refill[p].out
  <2>1. UpToDate(db, refill[p]) /\ \A o \in Refillers \ {p} : ~Working(o)
    BY <1>1, AtRefill DEF Working
  <2>2. db' = Result(db, out)
    <3>1. refill' # refill  BY <1>1
    <3>2. PICK o \in Refillers : RefillStep(o) \/ ImportCandidates(o)
      BY <1>1, <3>1 DEF Next, vars, QueueStep, QueueTargets, SelectAssets, SelectObligations, SelectRuns,
         Choose, Curate
    <3>3. refill \in [Refillers -> RefillRecords]  BY <1>1 DEF QueueInv, QueueTyped
    <3>4. CASE RefillStep(o)
      <4>1. o = p
        BY <1>1, <3>3, <3>4 DEF RefillStep, RefillTargets, RefillOracles, SkipCovered, RefillOracle,
           RefillExists, RefillWrite
      <4> QED  BY <1>1, <3>4, <4>1 DEF RefillStep, RefillTargets, RefillOracles, SkipCovered,
                  RefillOracle, RefillExists, RefillWrite
    <3>5. CASE ImportCandidates(o)
      <4>1. o = p  BY <1>1, <3>3, <3>5 DEF ImportCandidates
      <4> QED  BY <3>5, <4>1 DEF ImportCandidates, ImportFile
    <3> QED  BY <3>2, <3>4, <3>5
  <2>3. ASSUME NEW k \in TargetKeys, db.target[k] # Nil PROVE db'.target[k] = db.target[k]
    <3>1. About(out, "target", k) = {}  BY <2>1, <2>3 DEF UpToDate, About, Lines
    <3> HIDE DEF out
    <3> QED  BY <2>2, <3>1 DEF Result
  <2>4. ASSUME NEW n \in DOMAIN out, NEW k \in TargetKeys, db.target[k] # Nil,
               db.target[k].broad = out[n].row.broad
        PROVE  db.target[k].status = "retired"
    BY <2>1, <2>4 DEF UpToDate, Covered
  <2> QED  BY <2>3, <2>4
<1>2. QueueInv /\ [Next]_vars =>
        [\A p \in Refillers : workflow = {} /\ refill[p].pc = "written" /\ refill'[p].pc = "imported" =>
           /\ \A k \in TargetKeys : db.target[k] # Nil => db'.target[k] = db.target[k]
           /\ \A n \in DOMAIN refill[p].out, k \in TargetKeys :
                db.target[k] # Nil /\ db.target[k].broad = refill[p].out[n].row.broad =>
                  db.target[k].status = "retired"]_vars
  BY <1>1
<1> QED  BY <1>2, QueueInvHolds, PTL DEF Spec, RefillRespectsQueue

=============================================================================
