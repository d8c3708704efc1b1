-------------------------- MODULE AssetStoreProofs --------------------------
(***************************************************************************)
(* Theorems about AssetStore, for every set of importers, keys and files.  *)
(***************************************************************************)
EXTENDS AssetStore, TLAPS

USE StoreAssumption, SchemaAssumption

Sound(d) == ReferencesResolve(d) /\ CurrentIsRevision(d)

\* The invariant: the draft of a transaction is as sound as the database and
\* has lost nothing of it.  No step needs more of the other importers.
StoreInv ==
  /\ TypeOK
  /\ Sound(db) /\ Sound(draft)
  /\ writer # Nil => Keeps(db, draft)
-----------------------------------------------------------------------------
(* One line *)

\* What a line does, by its kind.
LEMMA ImportByKind ==
  ASSUME NEW d, NEW r
  PROVE  /\ r.kind = "asset" => Import(d, r) = ImportAsset(d, r)
         /\ r.kind = "link" => Import(d, r) = ImportLink(d, r)
         /\ r.kind = "run" => Import(d, r) = ImportRun(d, r)
         /\ r.kind = "target" => Import(d, r) = ImportTarget(d, r)
BY Zenon DEF Import

\* The tables a line about an asset leaves, if it satisfies the constraints.
LEMMA AssetFields ==
  ASSUME NEW d \in Databases, NEW r \in AssetRecords, r.body \in ValidBodies
  PROVE  LET g == ImportAsset(d, r)
         IN  /\ g \in Databases /\ g.asset = [d.asset EXCEPT ![r.key] = r.body]
             /\ g.revision = d.revision \cup {<<r.key, r.body>>}
             /\ g.link = d.link /\ g.run = d.run /\ g.used = d.used /\ g.target = d.target
<1> DEFINE e == PutAsset(d, r)
           g == PutRevision(e, r)
<1>1. r.key \in AssetKeys /\ r.body # Nil  BY DEF AssetRecords
<1>2. /\ e \in Databases /\ e.asset = [d.asset EXCEPT ![r.key] = r.body]
      /\ e.revision = d.revision /\ e.link = d.link /\ e.run = d.run
      /\ e.used = d.used /\ e.target = d.target
  BY <1>1 DEF PutAsset, Databases
<1> HIDE DEF e
<1>3. <<r.key, r.body>> \in AssetKeys \X ValidBodies  BY <1>1
<1>4. /\ g \in Databases /\ g.asset = e.asset /\ g.revision = e.revision \cup {<<r.key, r.body>>}
      /\ g.link = e.link /\ g.run = e.run /\ g.used = e.used /\ g.target = e.target
  BY <1>2, <1>3 DEF PutRevision, Databases
<1>5. ImportAsset(d, r) = g  BY DEF ImportAsset, e
<1> QED  BY <1>2, <1>4, <1>5

\* An asset line,
LEMMA AssetStep ==
  ASSUME NEW d \in Databases, NEW r \in AssetRecords, r.body \in ValidBodies
  PROVE  /\ ImportAsset(d, r) \in Databases
         /\ Keeps(d, ImportAsset(d, r))
         /\ Sound(d) => Sound(ImportAsset(d, r))
<1> DEFINE g == ImportAsset(d, r)
<1>1. r.key \in AssetKeys /\ r.body # Nil  BY DEF AssetRecords
<1>2. /\ g \in Databases /\ g.asset = [d.asset EXCEPT ![r.key] = r.body]
      /\ g.revision = d.revision \cup {<<r.key, r.body>>}
      /\ g.link = d.link /\ g.run = d.run /\ g.used = d.used /\ g.target = d.target
  BY AssetFields
<1> HIDE DEF g
<1>3. \A k \in AssetKeys : g.asset[k] = IF k = r.key THEN r.body ELSE d.asset[k]
  BY <1>1, <1>2 DEF Databases
<1>4. \A k \in AssetKeys : Known(d, k) => Known(g, k)  BY <1>1, <1>3 DEF Known
<1>5. Keeps(d, g)  BY <1>2, <1>4 DEF Keeps
<1>6. ASSUME Sound(d) PROVE Sound(g)
  <2>1. ReferencesResolve(d) /\ CurrentIsRevision(d)  BY <1>6 DEF Sound
  <2>2. ReferencesResolve(g)  BY <2>1, <1>2, <1>4 DEF ReferencesResolve, Databases, RunRows
  <2>3. CurrentIsRevision(g)  BY <2>1, <1>2, <1>3 DEF CurrentIsRevision, Known
  <2> QED  BY <2>2, <2>3 DEF Sound
<1> QED  BY <1>2, <1>5, <1>6 DEF g

\* What a link line changes,
LEMMA LinkFields ==
  ASSUME NEW d \in Databases, NEW r \in LinkRecords
  PROVE  LET g == ImportLink(d, r)
         IN  /\ g \in Databases /\ g.link = d.link \cup {<<r.source, r.target, r.relation>>}
             /\ g.asset = d.asset /\ g.revision = d.revision /\ g.run = d.run
             /\ g.used = d.used /\ g.target = d.target
<1>1. <<r.source, r.target, r.relation>> \in AssetKeys \X AssetKeys \X Relations  BY DEF LinkRecords
<1> QED  BY <1>1 DEF ImportLink, Databases

\* which breaks no reference when both ends are known.
LEMMA LinkStep ==
  ASSUME NEW d \in Databases, NEW r \in LinkRecords, Known(d, r.source), Known(d, r.target)
  PROVE  /\ ImportLink(d, r) \in Databases
         /\ Keeps(d, ImportLink(d, r))
         /\ Sound(d) => Sound(ImportLink(d, r))
<1> DEFINE g == ImportLink(d, r)
<1>1. r.source \in AssetKeys /\ r.target \in AssetKeys  BY DEF LinkRecords
<1>2. /\ g \in Databases /\ g.link = d.link \cup {<<r.source, r.target, r.relation>>}
      /\ g.asset = d.asset /\ g.revision = d.revision /\ g.run = d.run
      /\ g.used = d.used /\ g.target = d.target
  BY LinkFields
<1> HIDE DEF g
<1>3. Keeps(d, g)  BY <1>2 DEF Keeps, Known
<1>4. Sound(d) => Sound(g)  BY <1>2 DEF Sound, ReferencesResolve, CurrentIsRevision, Known
<1> QED  BY <1>2, <1>3, <1>4 DEF g

\* What a run line changes,
LEMMA RunFields ==
  ASSUME NEW d \in Databases, NEW r \in RunRecords, r.verdict \in Verdicts
  PROVE  LET g == ImportRun(d, r)
         IN  /\ g \in Databases /\ g.run = [d.run EXCEPT ![r.key] = RunRow(d, r)]
             /\ RunRow(d, r) \in RunRows
             /\ g.used = {u \in d.used : u[1] # r.key} \cup RunUses(r)
             /\ g.asset = d.asset /\ g.revision = d.revision /\ g.link = d.link /\ g.target = d.target
<1> DEFINE row == RunRow(d, r)
           uses == RunUses(r)
           e == PutRun(d, r)
           g == PutUses(e, r)
<1>1. r.key \in RunKeys /\ r.obligation \in AssetKeys /\ r.used \in Seq(AssetKeys \X Roles)
  BY DEF RunRecords
<1>2. row \in RunRows
  BY <1>1 DEF RunRow, RunRows, Databases
<1>3. uses \subseteq RunKeys \X AssetKeys \X Roles
  <2>1. UsedIn(r) \subseteq AssetKeys \X Roles  BY <1>1 DEF UsedIn
  <2> QED  BY <1>1, <2>1 DEF RunUses
<1>4. /\ e \in Databases /\ e.run = [d.run EXCEPT ![r.key] = row]
      /\ e.asset = d.asset /\ e.revision = d.revision /\ e.link = d.link
      /\ e.used = d.used /\ e.target = d.target
  <2> HIDE DEF row
  <2>1. e = [d EXCEPT !.run = [d.run EXCEPT ![r.key] = row]]  BY DEF PutRun, row
  <2> HIDE DEF e
  <2> QED  BY <1>1, <1>2, <2>1 DEF Databases
<1> HIDE DEF row, e
<1>5. /\ g \in Databases /\ g.used = {u \in d.used : u[1] # r.key} \cup uses
      /\ g.asset = d.asset /\ g.revision = d.revision /\ g.link = d.link
      /\ g.run = e.run /\ g.target = d.target
  <2> HIDE DEF uses
  <2>1. g = [e EXCEPT !.used = {u \in e.used : u[1] # r.key} \cup uses]  BY DEF PutUses, uses
  <2> HIDE DEF g
  <2> QED  BY <1>3, <1>4, <2>1 DEF Databases
<1>6. ImportRun(d, r) = g  BY DEF ImportRun, e
<1> QED  BY <1>2, <1>4, <1>5, <1>6 DEF row, uses

\* which breaks none when its obligation and its assets are known.
LEMMA RunStep ==
  ASSUME NEW d \in Databases, NEW r \in RunRecords, r.verdict \in Verdicts,
         d.run[r.key] = Nil => Known(d, r.obligation), UsesInsertable(d, r)
  PROVE  /\ ImportRun(d, r) \in Databases
         /\ Keeps(d, ImportRun(d, r))
         /\ Sound(d) => Sound(ImportRun(d, r))
<1> DEFINE row == RunRow(d, r)
           uses == RunUses(r)
           g == ImportRun(d, r)
<1>1. r.key \in RunKeys /\ r.obligation \in AssetKeys  BY DEF RunRecords
<1>2. row.obligation = IF d.run[r.key] = Nil THEN r.obligation ELSE d.run[r.key].obligation
  BY DEF RunRow
<1>3. \A u \in uses : u[1] = r.key /\ Known(d, u[2])  BY DEF RunUses, UsesInsertable
<1>4. /\ g \in Databases /\ g.run = [d.run EXCEPT ![r.key] = row] /\ row \in RunRows
      /\ g.used = {u \in d.used : u[1] # r.key} \cup uses
      /\ g.asset = d.asset /\ g.revision = d.revision /\ g.link = d.link /\ g.target = d.target
  BY RunFields
<1> HIDE DEF row, uses, g
<1>5. \A k \in RunKeys : g.run[k] = IF k = r.key THEN row ELSE d.run[k]
  BY <1>1, <1>4 DEF Databases
<1>6. row # Nil  BY <1>4
<1>7. Keeps(d, g)  BY <1>2, <1>4, <1>5, <1>6 DEF Keeps, Known
<1>8. ASSUME Sound(d) PROVE Sound(g)
  <2>1. ReferencesResolve(d) /\ CurrentIsRevision(d)  BY <1>8 DEF Sound
  <2>2. \A k \in RunKeys : g.run[k] # Nil => Known(g, g.run[k].obligation)
    BY <2>1, <1>1, <1>2, <1>4, <1>5 DEF ReferencesResolve, Known
  <2>3. \A u \in g.used : g.run[u[1]] # Nil /\ Known(g, u[2])
    BY <2>1, <1>1, <1>3, <1>4, <1>5, <1>6 DEF ReferencesResolve, Known, Databases
  <2>4. \A l \in g.link : Known(g, l[1]) /\ Known(g, l[2])
    BY <2>1, <1>4 DEF ReferencesResolve, Known
  <2>5. CurrentIsRevision(g)  BY <2>1, <1>4 DEF CurrentIsRevision, Known
  <2> QED  BY <2>2, <2>3, <2>4, <2>5 DEF Sound, ReferencesResolve
<1> QED  BY <1>4, <1>7, <1>8 DEF g

\* What a target line changes,
LEMMA TargetFields ==
  ASSUME NEW d \in Databases, NEW r \in TargetRecords, r.row \in ValidRows
  PROVE  LET g == ImportTarget(d, r)
         IN  /\ g \in Databases /\ g.target = [d.target EXCEPT ![r.key] = r.row]
             /\ g.asset = d.asset /\ g.revision = d.revision /\ g.run = d.run
             /\ g.used = d.used /\ g.link = d.link
<1>1. r.key \in TargetKeys  BY DEF TargetRecords
<1> QED  BY <1>1 DEF ImportTarget, Databases

\* which refers to nothing.
LEMMA TargetStep ==
  ASSUME NEW d \in Databases, NEW r \in TargetRecords, r.row \in ValidRows
  PROVE  /\ ImportTarget(d, r) \in Databases
         /\ Keeps(d, ImportTarget(d, r))
         /\ Sound(d) => Sound(ImportTarget(d, r))
<1> DEFINE g == ImportTarget(d, r)
<1>1. r.key \in TargetKeys /\ r.row # Nil  BY DEF TargetRecords
<1>2. /\ g \in Databases /\ g.target = [d.target EXCEPT ![r.key] = r.row]
      /\ g.asset = d.asset /\ g.revision = d.revision /\ g.run = d.run
      /\ g.used = d.used /\ g.link = d.link
  BY TargetFields
<1> HIDE DEF g
<1>3. Keeps(d, g)  BY <1>1, <1>2 DEF Keeps, Known, Databases
<1>4. Sound(d) => Sound(g)  BY <1>2 DEF Sound, ReferencesResolve, CurrentIsRevision, Known
<1> QED  BY <1>2, <1>3, <1>4 DEF g

\* An accepted line, of whatever kind, leaves a database of the schema, loses
\* nothing and keeps what was sound sound.
LEMMA LineStep ==
  ASSUME NEW d \in Databases, NEW r \in Records, Accepted(d, r)
  PROVE  /\ Import(d, r) \in Databases
         /\ Keeps(d, Import(d, r))
         /\ Sound(d) => Sound(Import(d, r))
<1>1. CASE r \in AssetRecords
  BY <1>1, AssetStep, ImportByKind DEF AssetRecords, Accepted
<1>2. CASE r \in LinkRecords
  BY <1>2, LinkStep, ImportByKind DEF LinkRecords, Accepted
<1>3. CASE r \in RunRecords
  BY <1>3, RunStep, ImportByKind DEF RunRecords, Accepted
<1>4. CASE r \in TargetRecords
  BY <1>4, TargetStep, ImportByKind DEF TargetRecords, Accepted
<1>5. CASE r \in OtherRecords
  BY <1>5 DEF OtherRecords, Accepted
<1> QED  BY <1>1, <1>2, <1>3, <1>4, <1>5 DEF Records

\* A database keeps what is in it,
LEMMA KeepsSelf ==
  ASSUME NEW d
  PROVE  Keeps(d, d)
BY DEF Keeps

\* and what a second change keeps of a first is kept.
LEMMA KeepsChain ==
  ASSUME NEW d, NEW e, NEW g, Keeps(d, e), Keeps(e, g)
  PROVE  Keeps(d, g)
BY DEF Keeps, Known

-----------------------------------------------------------------------------
(* All importers *)

\* The view of an importer is a sound database that has lost nothing.
LEMMA ViewSound ==
  ASSUME StoreInv, NEW i \in Importers
  PROVE  View(i) \in Databases /\ Sound(View(i)) /\ Keeps(db, View(i))
BY KeepsSelf DEF StoreInv, TypeOK, View

\* A rollback restores the invariant whatever was written.
LEMMA RollbackStep ==
  ASSUME StoreInv, NEW i \in Importers, NEW end \in {"rejected", "busy", "dead"}, RolledBack(i, end)
  PROVE  StoreInv' /\ db' = db
<1>1. TypeOK'  BY DEF StoreInv, TypeOK, RolledBack, Release
<1>2. Sound(db') /\ Sound(draft')  BY DEF StoreInv, RolledBack, Release
<1>3. writer' # Nil => writer' = writer /\ draft' = draft  BY DEF RolledBack, Release
<1> QED  BY <1>1, <1>2, <1>3 DEF StoreInv, RolledBack, Release

\* Reading a file changes no database.
LEMMA ReadStep ==
  ASSUME StoreInv, NEW i \in Importers, Read(i)
  PROVE  StoreInv' /\ db' = db
<1> PICK f \in Files : /\ file' = [file EXCEPT ![i] = f]
                       /\ left' = [left EXCEPT ![i] = DOMAIN f]
  BY DEF Read
<1>1. f \in Seq(Records)  OBVIOUS
<1>2. DOMAIN f \subseteq Nat  BY <1>1
<1> DEFINE lines == DOMAIN f
<1>3. lines \in SUBSET Nat  BY <1>2
<1> HIDE DEF lines
<1>4. left' = [left EXCEPT ![i] = lines]  BY DEF lines
<1>5. TypeOK'
  <2>1. /\ file' \in [Importers -> Files \cup {<<>>}] /\ left' \in [Importers -> SUBSET Nat]
    BY <1>3, <1>4 DEF StoreInv, TypeOK
  <2>2. \A j \in Importers : left'[j] \subseteq DOMAIN file'[j]
    BY <1>4 DEF StoreInv, TypeOK, lines
  <2> QED  BY <2>1, <2>2 DEF StoreInv, TypeOK, Read
<1> QED  BY <1>5 DEF StoreInv, Read

\* A line changes the draft of its transaction,
LEMMA ExecuteStep ==
  ASSUME StoreInv, NEW i \in Importers, Execute(i)
  PROVE  StoreInv' /\ db' = db
<1> PICK n \in left[i] : /\ Accepted(View(i), file[i][n])
                        /\ draft' = Import(View(i), file[i][n])
                        /\ left' = [left EXCEPT ![i] = @ \ {n}]
  BY DEF Execute
<1>1. file[i][n] \in Records
  <2>1. n \in DOMAIN file[i] /\ file[i] \in Files \cup {<<>>}  BY DEF StoreInv, TypeOK
  <2>2. DOMAIN <<>> = {}  OBVIOUS
  <2>3. file[i] \in Seq(Records)  BY <2>1, <2>2
  <2> QED  BY <2>1, <2>3
<1>2. View(i) \in Databases /\ Sound(View(i)) /\ Keeps(db, View(i))  BY ViewSound
<1>3. draft' \in Databases /\ Sound(draft') /\ Keeps(View(i), draft')  BY <1>1, <1>2, LineStep
<1>4. Keeps(db, draft')  BY <1>2, <1>3, KeepsChain
<1>5. TypeOK'  BY <1>3 DEF StoreInv, TypeOK, Execute
<1> QED  BY <1>3, <1>4, <1>5 DEF StoreInv, Execute

\* which becomes the database at its end.
LEMMA CommitStep ==
  ASSUME StoreInv, NEW i \in Importers, Commit(i)
  PROVE  StoreInv' /\ Keeps(db, db')
<1>1. View(i) \in Databases /\ Sound(View(i)) /\ Keeps(db, View(i))  BY ViewSound
<1>2. TypeOK'  BY <1>1 DEF StoreInv, TypeOK, Commit
<1>3. ASSUME writer' # Nil PROVE db' = db
  BY <1>3 DEF Commit, View
<1> QED  BY <1>1, <1>2, <1>3 DEF StoreInv, Commit

\* An empty database is sound.
LEMMA StoreInvInit == Init => StoreInv
<1> SUFFICES ASSUME Init PROVE StoreInv  OBVIOUS
<1>1. EmptyDatabase \in Databases  BY DEF EmptyDatabase, Databases
<1>2. Sound(EmptyDatabase)
  BY DEF EmptyDatabase, Sound, ReferencesResolve, CurrentIsRevision, Known
<1>3. TypeOK  BY <1>1 DEF Init, TypeOK
<1> QED  BY <1>2, <1>3 DEF Init, StoreInv

\* One step of one importer.
LEMMA StoreInvStep == StoreInv /\ [Next]_vars => StoreInv' /\ Keeps(db, db')
<1> SUFFICES ASSUME StoreInv, [Next]_vars PROVE StoreInv' /\ Keeps(db, db')  OBVIOUS
<1>1. CASE UNCHANGED vars
  BY <1>1, KeepsSelf DEF vars, StoreInv, TypeOK
<1>2. ASSUME NEW i \in Importers, Step(i) \/ Busy(i) \/ Crash(i) PROVE StoreInv' /\ Keeps(db, db')
  <2>1. CASE Read(i)     BY <2>1, ReadStep, KeepsSelf
  <2>2. CASE Execute(i)  BY <2>2, ExecuteStep, KeepsSelf
  <2>3. CASE Reject(i)   BY <2>3, RollbackStep, KeepsSelf DEF Reject
  <2>4. CASE Commit(i)   BY <2>4, CommitStep
  <2>5. CASE Busy(i)     BY <2>5, RollbackStep, KeepsSelf DEF Busy
  <2>6. CASE Crash(i)    BY <2>6, RollbackStep, KeepsSelf DEF Crash
  <2> QED  BY <1>2, <2>1, <2>2, <2>3, <2>4, <2>5, <2>6 DEF Step
<1> QED  BY <1>1, <1>2 DEF Next

\* The invariant holds in every reachable state.
THEOREM StoreInvHolds == Spec => []StoreInv
BY StoreInvInit, StoreInvStep, PTL DEF Spec

\* Every variable keeps its type: in particular no verdict and no body that a
\* CHECK constraint of schema.sql forbids is ever stored.
THEOREM StoreTypeCorrect == Spec => []TypeOK
<1>1. StoreInv => TypeOK  BY DEF StoreInv
<1> QED  BY <1>1, StoreInvHolds, PTL

\* The committed database is consistent, whatever files are imported by
\* however many processes, and whichever of them fail or die.
THEOREM ConsistentHolds == Spec => []Consistent
<1>1. StoreInv => Consistent  BY DEF StoreInv, Sound, Consistent
<1> QED  BY <1>1, StoreInvHolds, PTL

\* No import loses a revision, a link, an asset, a run or a target, or moves a
\* run to another obligation.
THEOREM NothingIsLostHolds == Spec => NothingIsLost
<1>1. StoreInv /\ [Next]_vars => [Keeps(db, db')]_vars  BY StoreInvStep
<1> QED  BY <1>1, StoreInvHolds, PTL DEF Spec, NothingIsLost
-----------------------------------------------------------------------------
(* The refinement: what a transaction has written is the result of the lines *)
(* it has executed, for every set N of line numbers of a file f.             *)

LinesIn(f, N, kind) == {n \in N : f[n].kind = kind}
AboutIn(f, N, kind, k) == {n \in LinesIn(f, N, kind) : f[n].key = k}
Last(f, S) == f[CHOOSE n \in S : \A m \in S : m <= n]
First(f, S) == f[CHOOSE n \in S : \A m \in S : n <= m]

AvailableIn(d, f, N) == {k \in AssetKeys : Known(d, k) \/ AboutIn(f, N, "asset", k) # {}}

\* The lines of N are acceptable, given all that the file brings.
AcceptableIn(d, f, N) ==
  /\ LinesIn(f, N, "other") = {}
  /\ \A n \in LinesIn(f, N, "asset") : f[n].body \in ValidBodies
  /\ \A n \in LinesIn(f, N, "target") : f[n].row \in ValidRows
  /\ \A n \in LinesIn(f, N, "link") : {f[n].source, f[n].target} \subseteq AvailableIn(d, f, DOMAIN f)
  /\ \A n \in LinesIn(f, N, "run") :
       /\ f[n].verdict \in Verdicts
       /\ {u[1] : u \in UsedIn(f[n])} \subseteq AvailableIn(d, f, DOMAIN f)
       /\ ~RepeatsUse(f[n])
  /\ \A k \in RunKeys :
       d.run[k] = Nil /\ AboutIn(f, N, "run", k) # {} =>
         First(f, AboutIn(f, N, "run", k)).obligation \in AvailableIn(d, f, DOMAIN f)

\* The tables after the lines of N.
AssetsIn(d, f, N) ==
  [k \in AssetKeys |->
     IF AboutIn(f, N, "asset", k) = {} THEN d.asset[k] ELSE Last(f, AboutIn(f, N, "asset", k)).body]
RevisionsIn(d, f, N) == d.revision \cup {<<f[n].key, f[n].body>> : n \in LinesIn(f, N, "asset")}
LinksIn(d, f, N) ==
  d.link \cup {<<f[n].source, f[n].target, f[n].relation>> : n \in LinesIn(f, N, "link")}
RunIn(d, f, S, k) ==
  [obligation |-> IF d.run[k] = Nil THEN First(f, S).obligation ELSE d.run[k].obligation,
   verdict |-> Last(f, S).verdict]
RunsIn(d, f, N) ==
  [k \in RunKeys |->
     IF AboutIn(f, N, "run", k) = {} THEN d.run[k] ELSE RunIn(d, f, AboutIn(f, N, "run", k), k)]
RunUsesIn(f, S, k) == {<<k, u[1], u[2]>> : u \in UsedIn(Last(f, S))}
UsesIn(d, f, N) ==
  {u \in d.used : AboutIn(f, N, "run", u[1]) = {}}
  \cup UNION {RunUsesIn(f, AboutIn(f, N, "run", k), k) : k \in {x \in RunKeys : AboutIn(f, N, "run", x) # {}}}
TargetsIn(d, f, N) ==
  [k \in TargetKeys |->
     IF AboutIn(f, N, "target", k) = {} THEN d.target[k] ELSE Last(f, AboutIn(f, N, "target", k)).row]

ResultIn(d, f, N) ==
  [asset |-> AssetsIn(d, f, N), revision |-> RevisionsIn(d, f, N), link |-> LinksIn(d, f, N),
   run |-> RunsIn(d, f, N), used |-> UsesIn(d, f, N), target |-> TargetsIn(d, f, N)]

\* A transaction with view v has executed the lines of N.
Executed(d, v, f, N) ==
  /\ v = ResultIn(d, f, N)
  /\ AcceptableIn(d, f, N)
  /\ \A k \in AssetKeys : AboutIn(f, N, "asset", k) # {} => Known(v, k)
  /\ \A k \in RunKeys :
       AboutIn(f, N, "run", k) # {} =>
         /\ v.run[k] # Nil
         /\ \E x \in AboutIn(f, N, "run", k) : \A m \in AboutIn(f, N, "run", k) : x <= m

Taken(i) == DOMAIN file[i] \ left[i]

\* The order of a stable sort.
Before(f, n, m) == Rank(f[n]) < Rank(f[m]) \/ (Rank(f[n]) = Rank(f[m]) /\ n < m)

AtWork(i) ==
  pc[i] = "open" =>
    /\ file[i] \in Files
    /\ writer # i => left[i] = DOMAIN file[i]
    /\ \A n \in Taken(i), m \in left[i] : Before(file[i], n, m)
    /\ Executed(db, View(i), file[i], Taken(i))

RefinementInv ==
  /\ StoreInv
  /\ \A i \in Importers : AtWork(i) /\ (writer = i => pc[i] = "open")
-----------------------------------------------------------------------------
(* One line more *)

\* Line n of file f is the next after those of N; with it they are M.
Following(f, N, n, M) ==
  /\ f \in Seq(Records)
  /\ M = N \cup {n}
  /\ N \subseteq DOMAIN f /\ n \in DOMAIN f \ N
  /\ \A m \in N : Before(f, m, n)

\* A line that is executed after the others is the last of them,
LEMMA LastGrows ==
  ASSUME NEW f, NEW S \in SUBSET Nat, NEW n \in Nat, \A m \in S : m <= n
  PROVE  Last(f, S \cup {n}) = f[n]
<1> DEFINE c == CHOOSE x \in S \cup {n} : \A m \in S \cup {n} : m <= x
<1>1. \E x \in S \cup {n} : \A m \in S \cup {n} : m <= x  OBVIOUS
<1>2. c \in S \cup {n} /\ \A m \in S \cup {n} : m <= c  BY <1>1
<1> HIDE DEF c
<1>3. c = n  BY <1>2
<1> QED  BY <1>3 DEF c, Last

\* and is the first of none that had one.
LEMMA FirstGrows ==
  ASSUME NEW f, NEW S \in SUBSET Nat, NEW n \in Nat, \A m \in S : m <= n,
         \E x \in S : \A m \in S : x <= m
  PROVE  /\ First(f, S \cup {n}) = First(f, S)
         /\ \E x \in S \cup {n} : \A m \in S \cup {n} : x <= m
<1> DEFINE c == CHOOSE x \in S \cup {n} : \A m \in S \cup {n} : x <= m
           b == CHOOSE x \in S : \A m \in S : x <= m
<1>1. b \in S /\ \A m \in S : b <= m  OBVIOUS
<1> HIDE DEF b
<1>2. b \in S \cup {n} /\ \A m \in S \cup {n} : b <= m  BY <1>1
<1>3. \E x \in S \cup {n} : \A m \in S \cup {n} : x <= m  BY <1>2
<1>4. c \in S \cup {n} /\ \A m \in S \cup {n} : c <= m  BY <1>3
<1> HIDE DEF c
<1>5. c <= b /\ b <= c /\ c \in Nat /\ b \in Nat  BY <1>1, <1>2, <1>4
<1>6. c = b  BY <1>5
<1> QED  BY <1>3, <1>6 DEF b, c, First

\* The first line of its table is the first.
LEMMA FirstOne ==
  ASSUME NEW f, NEW n \in Nat
  PROVE  First(f, {n}) = f[n]
BY DEF First

\* The executed lines of its kind stand before line n in the file.
LEMMA SameKindBefore ==
  ASSUME NEW f, NEW N, NEW n, NEW M, Following(f, N, n, M), NEW kind, NEW k, f[n].kind = kind
  PROVE  /\ n \in Nat
         /\ AboutIn(f, N, kind, k) \in SUBSET Nat
         /\ \A m \in AboutIn(f, N, kind, k) : m <= n
<1>1. DOMAIN f \subseteq Nat  BY DEF Following
<1>2. n \in Nat /\ N \subseteq Nat  BY <1>1 DEF Following
<1>3. \A x : Rank(f[x]) \in Nat  BY DEF Rank
<1>4. ASSUME NEW m \in N, f[m].kind = kind PROVE m <= n
  <2>1. Rank(f[m]) = Rank(f[n])  BY <1>4 DEF Rank
  <2>2. Before(f, m, n)  BY DEF Following
  <2> QED  BY <1>2, <1>3, <2>1, <2>2 DEF Before
<1> QED  BY <1>2, <1>4 DEF AboutIn, LinesIn

\* A database of the schema is a record of its tables.
LEMMA AsRecord ==
  ASSUME NEW e \in Databases
  PROVE  e = [asset |-> e.asset, revision |-> e.revision, link |-> e.link,
              run |-> e.run, used |-> e.used, target |-> e.target]
BY DEF Databases

\* A line of a kind changes none of the tables of other kinds.
SameTables(d, f, N, M, kind) ==
  /\ kind # "asset" => AssetsIn(d, f, M) = AssetsIn(d, f, N) /\ RevisionsIn(d, f, M) = RevisionsIn(d, f, N)
  /\ kind # "link" => LinksIn(d, f, M) = LinksIn(d, f, N)
  /\ kind # "run" => RunsIn(d, f, M) = RunsIn(d, f, N) /\ UsesIn(d, f, M) = UsesIn(d, f, N)
  /\ kind # "target" => TargetsIn(d, f, M) = TargetsIn(d, f, N)

\* A line of one kind changes the outcome of no other table.
LEMMA OtherTables ==
  ASSUME NEW d, NEW f, NEW N, NEW n, NEW M, Following(f, N, n, M)
  PROVE  SameTables(d, f, N, M, f[n].kind)
<1>1. \A kind, k : f[n].kind # kind => /\ LinesIn(f, M, kind) = LinesIn(f, N, kind)
                                       /\ AboutIn(f, M, kind, k) = AboutIn(f, N, kind, k)
  BY DEF AboutIn, LinesIn, Following
<1>2. f[n].kind # "asset" => /\ AssetsIn(d, f, M) = AssetsIn(d, f, N)
                             /\ RevisionsIn(d, f, M) = RevisionsIn(d, f, N)
  BY <1>1 DEF AssetsIn, RevisionsIn
<1>3. f[n].kind # "link" => LinksIn(d, f, M) = LinksIn(d, f, N)  BY <1>1 DEF LinksIn
<1>4. f[n].kind # "run" => RunsIn(d, f, M) = RunsIn(d, f, N)  BY <1>1 DEF RunsIn
<1>5. f[n].kind # "run" => UsesIn(d, f, M) = UsesIn(d, f, N)
  <2> SUFFICES ASSUME f[n].kind # "run" PROVE UsesIn(d, f, M) = UsesIn(d, f, N)  OBVIOUS
  <2> DEFINE A(k) == AboutIn(f, N, "run", k)
             B(k) == AboutIn(f, M, "run", k)
             U(k) == RunUsesIn(f, A(k), k)
             V(k) == RunUsesIn(f, B(k), k)
  <2>1. \A k : A(k) = B(k)  BY <1>1
  <2>2. \A k : U(k) = V(k)  BY <2>1, Zenon
  <2>3. UsesIn(d, f, N) = {u \in d.used : A(u[1]) = {}} \cup UNION {U(k) : k \in {x \in RunKeys : A(x) # {}}}
    BY Zenon DEF UsesIn
  <2>4. UsesIn(d, f, M) =
          {u \in d.used : B(u[1]) = {}} \cup UNION {V(k) : k \in {x \in RunKeys : B(x) # {}}}
    BY Zenon DEF UsesIn
  <2> HIDE DEF A, B, U, V
  <2> QED  BY <2>1, <2>2, <2>3, <2>4
<1>6. f[n].kind # "target" => TargetsIn(d, f, M) = TargetsIn(d, f, N)  BY <1>1 DEF TargetsIn
<1> QED  BY <1>2, <1>3, <1>4, <1>5, <1>6 DEF SameTables

\* A line about an asset replaces it and adds a revision.
LEMMA AssetGrows ==
  ASSUME NEW d, NEW f, NEW N, NEW n, NEW M, Following(f, N, n, M),
         NEW v \in Databases, v = ResultIn(d, f, N), f[n] \in AssetRecords, f[n].body \in ValidBodies
  PROVE  ImportAsset(v, f[n]) = ResultIn(d, f, M)
<1>0. f[n].kind = "asset"  BY DEF AssetRecords
<1> DEFINE A(k) == AboutIn(f, N, "asset", k)
           B(k) == AboutIn(f, M, "asset", k)
<1>1. B(f[n].key) # {} /\ Last(f, B(f[n].key)) = f[n]
  <2>1. B(f[n].key) = A(f[n].key) \cup {n}  BY <1>0 DEF AboutIn, LinesIn, Following
  <2>2. n \in Nat /\ A(f[n].key) \in SUBSET Nat /\ \A m \in A(f[n].key) : m <= n  BY <1>0, SameKindBefore
  <2> QED  BY <2>1, <2>2, LastGrows
<1>2. \A k : k # f[n].key => B(k) = A(k)  BY <1>0 DEF AboutIn, LinesIn, Following
<1> DEFINE old(k) == IF A(k) = {} THEN d.asset[k] ELSE Last(f, A(k)).body
           new(k) == IF B(k) = {} THEN d.asset[k] ELSE Last(f, B(k)).body
<1>3. new(f[n].key) = f[n].body  BY <1>1
<1>4. \A k : k # f[n].key => new(k) = old(k)
  <2> SUFFICES ASSUME NEW k, k # f[n].key PROVE new(k) = old(k)  OBVIOUS
  <2>1. B(k) = A(k)  BY <1>2
  <2> HIDE DEF A, B
  <2> QED  BY <2>1
<1>5. AssetsIn(d, f, N) = [k \in AssetKeys |-> old(k)]  BY Zenon DEF AssetsIn
<1>6. AssetsIn(d, f, M) = [k \in AssetKeys |-> new(k)]  BY Zenon DEF AssetsIn
<1> HIDE DEF A, B, old, new
<1>7. AssetsIn(d, f, M) = [AssetsIn(d, f, N) EXCEPT ![f[n].key] = f[n].body]
  BY <1>3, <1>4, <1>5, <1>6
<1>8. LinesIn(f, M, "asset") = LinesIn(f, N, "asset") \cup {n}  BY <1>0 DEF LinesIn, Following
<1>9. RevisionsIn(d, f, M) = RevisionsIn(d, f, N) \cup {<<f[n].key, f[n].body>>}
  BY <1>8 DEF RevisionsIn
<1>20. SameTables(d, f, N, M, f[n].kind)  BY OtherTables
<1>21. /\ v.asset = AssetsIn(d, f, N) /\ v.revision = RevisionsIn(d, f, N) /\ v.link = LinksIn(d, f, N)
       /\ v.run = RunsIn(d, f, N) /\ v.used = UsesIn(d, f, N) /\ v.target = TargetsIn(d, f, N)
  BY DEF ResultIn
<1>22. /\ LinksIn(d, f, M) = LinksIn(d, f, N) /\ RunsIn(d, f, M) = RunsIn(d, f, N)
       /\ UsesIn(d, f, M) = UsesIn(d, f, N) /\ TargetsIn(d, f, M) = TargetsIn(d, f, N)
  BY <1>0, <1>20 DEF SameTables
<1> DEFINE g == ImportAsset(v, f[n])
<1>23. /\ g \in Databases /\ g.asset = [v.asset EXCEPT ![f[n].key] = f[n].body]
       /\ g.revision = v.revision \cup {<<f[n].key, f[n].body>>}
       /\ g.link = v.link /\ g.run = v.run /\ g.used = v.used /\ g.target = v.target
  BY <1>0, AssetFields
<1> HIDE DEF g
<1>24. /\ g.asset = AssetsIn(d, f, M) /\ g.revision = RevisionsIn(d, f, M) /\ g.link = LinksIn(d, f, M)
       /\ g.run = RunsIn(d, f, M) /\ g.used = UsesIn(d, f, M) /\ g.target = TargetsIn(d, f, M)
  BY <1>7, <1>9, <1>21, <1>22, <1>23
<1>25. g = ResultIn(d, f, M)  BY <1>23, <1>24, AsRecord DEF ResultIn
<1> QED  BY <1>25 DEF g

\* One more target line is the outcome of one more line,
LEMMA TargetGrows ==
  ASSUME NEW d, NEW f, NEW N, NEW n, NEW M, Following(f, N, n, M),
         NEW v \in Databases, v = ResultIn(d, f, N), f[n] \in TargetRecords, f[n].row \in ValidRows
  PROVE  ImportTarget(v, f[n]) = ResultIn(d, f, M)
<1>0. f[n].kind = "target"  BY DEF TargetRecords
<1> DEFINE A(k) == AboutIn(f, N, "target", k)
           B(k) == AboutIn(f, M, "target", k)
<1>1. B(f[n].key) # {} /\ Last(f, B(f[n].key)) = f[n]
  <2>1. B(f[n].key) = A(f[n].key) \cup {n}  BY <1>0 DEF AboutIn, LinesIn, Following
  <2>2. n \in Nat /\ A(f[n].key) \in SUBSET Nat /\ \A m \in A(f[n].key) : m <= n  BY <1>0, SameKindBefore
  <2> QED  BY <2>1, <2>2, LastGrows
<1>2. \A k : k # f[n].key => B(k) = A(k)  BY <1>0 DEF AboutIn, LinesIn, Following
<1> DEFINE old(k) == IF A(k) = {} THEN d.target[k] ELSE Last(f, A(k)).row
           new(k) == IF B(k) = {} THEN d.target[k] ELSE Last(f, B(k)).row
<1>3. new(f[n].key) = f[n].row  BY <1>1
<1>4. \A k : k # f[n].key => new(k) = old(k)
  <2> SUFFICES ASSUME NEW k, k # f[n].key PROVE new(k) = old(k)  OBVIOUS
  <2>1. B(k) = A(k)  BY <1>2
  <2> HIDE DEF A, B
  <2> QED  BY <2>1
<1>5. TargetsIn(d, f, N) = [k \in TargetKeys |-> old(k)]  BY Zenon DEF TargetsIn
<1>6. TargetsIn(d, f, M) = [k \in TargetKeys |-> new(k)]  BY Zenon DEF TargetsIn
<1> HIDE DEF A, B, old, new
<1>7. TargetsIn(d, f, M) = [TargetsIn(d, f, N) EXCEPT ![f[n].key] = f[n].row]  BY <1>3, <1>4, <1>5, <1>6
<1>20. SameTables(d, f, N, M, f[n].kind)  BY OtherTables
<1>21. /\ v.asset = AssetsIn(d, f, N) /\ v.revision = RevisionsIn(d, f, N) /\ v.link = LinksIn(d, f, N)
       /\ v.run = RunsIn(d, f, N) /\ v.used = UsesIn(d, f, N) /\ v.target = TargetsIn(d, f, N)
  BY DEF ResultIn
<1>22. /\ AssetsIn(d, f, M) = AssetsIn(d, f, N) /\ RevisionsIn(d, f, M) = RevisionsIn(d, f, N)
       /\ LinksIn(d, f, M) = LinksIn(d, f, N) /\ RunsIn(d, f, M) = RunsIn(d, f, N)
       /\ UsesIn(d, f, M) = UsesIn(d, f, N)
  BY <1>0, <1>20 DEF SameTables
<1> DEFINE g == ImportTarget(v, f[n])
<1>23. /\ g \in Databases /\ g.target = [v.target EXCEPT ![f[n].key] = f[n].row]
       /\ g.asset = v.asset /\ g.revision = v.revision /\ g.run = v.run
       /\ g.used = v.used /\ g.link = v.link
  BY <1>0, TargetFields
<1> HIDE DEF g
<1>24. /\ g.asset = AssetsIn(d, f, M) /\ g.revision = RevisionsIn(d, f, M) /\ g.link = LinksIn(d, f, M)
       /\ g.run = RunsIn(d, f, M) /\ g.used = UsesIn(d, f, M) /\ g.target = TargetsIn(d, f, M)
  BY <1>7, <1>21, <1>22, <1>23
<1>25. g = ResultIn(d, f, M)  BY <1>23, <1>24, AsRecord DEF ResultIn
<1> QED  BY <1>25 DEF g

\* and so is one more link line.
LEMMA LinkGrows ==
  ASSUME NEW d, NEW f, NEW N, NEW n, NEW M, Following(f, N, n, M),
         NEW v \in Databases, v = ResultIn(d, f, N), f[n] \in LinkRecords
  PROVE  ImportLink(v, f[n]) = ResultIn(d, f, M)
<1>0. f[n].kind = "link"  BY DEF LinkRecords
<1>1. LinesIn(f, M, "link") = LinesIn(f, N, "link") \cup {n}  BY <1>0 DEF LinesIn, Following
<1>2. LinksIn(d, f, M) = LinksIn(d, f, N) \cup {<<f[n].source, f[n].target, f[n].relation>>}
  BY <1>1 DEF LinksIn
<1>20. SameTables(d, f, N, M, f[n].kind)  BY OtherTables
<1>21. /\ v.asset = AssetsIn(d, f, N) /\ v.revision = RevisionsIn(d, f, N) /\ v.link = LinksIn(d, f, N)
       /\ v.run = RunsIn(d, f, N) /\ v.used = UsesIn(d, f, N) /\ v.target = TargetsIn(d, f, N)
  BY DEF ResultIn
<1>22. /\ AssetsIn(d, f, M) = AssetsIn(d, f, N) /\ RevisionsIn(d, f, M) = RevisionsIn(d, f, N)
       /\ RunsIn(d, f, M) = RunsIn(d, f, N) /\ UsesIn(d, f, M) = UsesIn(d, f, N)
       /\ TargetsIn(d, f, M) = TargetsIn(d, f, N)
  BY <1>0, <1>20 DEF SameTables
<1> DEFINE g == ImportLink(v, f[n])
<1>23. /\ g \in Databases /\ g.link = v.link \cup {<<f[n].source, f[n].target, f[n].relation>>}
       /\ g.asset = v.asset /\ g.revision = v.revision /\ g.run = v.run
       /\ g.used = v.used /\ g.target = v.target
  BY <1>0, LinkFields
<1> HIDE DEF g
<1>24. /\ g.asset = AssetsIn(d, f, M) /\ g.revision = RevisionsIn(d, f, M) /\ g.link = LinksIn(d, f, M)
       /\ g.run = RunsIn(d, f, M) /\ g.used = UsesIn(d, f, M) /\ g.target = TargetsIn(d, f, M)
  BY <1>2, <1>21, <1>22, <1>23
<1>25. g = ResultIn(d, f, M)  BY <1>23, <1>24, AsRecord DEF ResultIn
<1> QED  BY <1>25 DEF g

\* A run line becomes the row of its run: under the obligation of the first
\* line about it, or of the database.
LEMMA RunGrows ==
  ASSUME NEW d \in Databases, NEW f, NEW N, NEW n, NEW M, Following(f, N, n, M),
         NEW v \in Databases, Executed(d, v, f, N), f[n] \in RunRecords, f[n].verdict \in Verdicts
  PROVE  ImportRun(v, f[n]) = ResultIn(d, f, M)
<1>0. f[n].kind = "run" /\ f[n].key \in RunKeys  BY DEF RunRecords
<1>21. /\ v.asset = AssetsIn(d, f, N) /\ v.revision = RevisionsIn(d, f, N) /\ v.link = LinksIn(d, f, N)
       /\ v.run = RunsIn(d, f, N) /\ v.used = UsesIn(d, f, N) /\ v.target = TargetsIn(d, f, N)
  BY DEF ResultIn, Executed
<1>1. RunsIn(d, f, M) = [RunsIn(d, f, N) EXCEPT ![f[n].key] = RunRow(v, f[n])]
  <2> DEFINE A(k) == AboutIn(f, N, "run", k)
             B(k) == AboutIn(f, M, "run", k)
             w(k) == IF A(k) = {} THEN d.run[k] ELSE RunIn(d, f, A(k), k)
             x(k) == IF B(k) = {} THEN d.run[k] ELSE RunIn(d, f, B(k), k)
             key == f[n].key
  <2>1. B(key) = A(key) \cup {n}  BY <1>0 DEF AboutIn, LinesIn, Following
  <2>2. n \in Nat /\ A(key) \in SUBSET Nat /\ \A m \in A(key) : m <= n  BY <1>0, SameKindBefore
  <2>3. Last(f, B(key)) = f[n]
    <3> HIDE DEF A, B, key
    <3>1. Last(f, A(key) \cup {n}) = f[n]  BY <2>2, LastGrows
    <3> QED  BY <2>1, <3>1
  <2>4. v.run[key] = w(key)  BY <1>0, <1>21 DEF RunsIn
  <2>5. x(key) = RunRow(v, f[n])
    <3>1. x(key) = RunIn(d, f, B(key), key)  BY <2>1
    <3>2. CASE A(key) = {}
      <4>1. First(f, B(key)) = f[n]  BY <3>2, <2>1, <2>2, FirstOne
      <4>2. v.run[key] = d.run[key]  BY <3>2, <2>4
      <4> HIDE DEF A, B, w, x, key
      <4> QED  BY <3>1, <4>1, <4>2, <2>3 DEF RunIn, RunRow, key
    <3>3. CASE A(key) # {}
      <4>1. v.run[key] # Nil /\ \E y \in A(key) : \A m \in A(key) : y <= m  BY <1>0, <3>3 DEF Executed
      <4>2. First(f, B(key)) = First(f, A(key))
        <5> HIDE DEF A, B, w, x, key
        <5>1. First(f, A(key) \cup {n}) = First(f, A(key))  BY <2>2, <4>1, FirstGrows
        <5> QED  BY <2>1, <5>1
      <4>3. v.run[key] = RunIn(d, f, A(key), key)  BY <3>3, <2>4
      <4> HIDE DEF A, B, w, x, key
      <4> QED  BY <3>1, <4>1, <4>2, <4>3, <2>3 DEF RunIn, RunRow, key
    <3> QED  BY <3>2, <3>3
  <2>6. \A k : k # key => x(k) = w(k)
    <3> SUFFICES ASSUME NEW k, k # key PROVE x(k) = w(k)  OBVIOUS
    <3>1. B(k) = A(k)  BY <1>0 DEF AboutIn, LinesIn, Following
    <3> HIDE DEF A, B
    <3> QED  BY <3>1
  <2>7. RunsIn(d, f, N) = [k \in RunKeys |-> w(k)]  BY Zenon DEF RunsIn
  <2>8. RunsIn(d, f, M) = [k \in RunKeys |-> x(k)]  BY Zenon DEF RunsIn
  <2> HIDE DEF A, B, w, x
  <2> QED  BY <2>5, <2>6, <2>7, <2>8
<1>2. UsesIn(d, f, M) = {u \in UsesIn(d, f, N) : u[1] # f[n].key} \cup RunUses(f[n])
  <2> DEFINE A(k) == AboutIn(f, N, "run", k)
             B(k) == AboutIn(f, M, "run", k)
             U(k) == RunUsesIn(f, A(k), k)
             V(k) == RunUsesIn(f, B(k), k)
             key == f[n].key
  <2>1. B(key) = A(key) \cup {n}  BY <1>0 DEF AboutIn, LinesIn, Following
  <2>2. n \in Nat /\ A(key) \in SUBSET Nat /\ \A m \in A(key) : m <= n  BY <1>0, SameKindBefore
  <2>3. Last(f, B(key)) = f[n]  BY <2>1, <2>2, LastGrows
  <2>4. V(key) = RunUses(f[n]) /\ B(key) # {}  BY <2>1, <2>3 DEF RunUsesIn, RunUses
  <2>5. \A k : k # key => B(k) = A(k)  BY <1>0 DEF AboutIn, LinesIn, Following
  <2>6. \A k : k # key => V(k) = U(k)
    <3> SUFFICES ASSUME NEW k, k # key PROVE V(k) = U(k)  OBVIOUS
    <3>1. B(k) = A(k)  BY <2>5
    <3> HIDE DEF A, B
    <3> QED  BY <3>1
  <2>7. \A k : \A u \in U(k) : u[1] = k  BY DEF RunUsesIn
  <2>8. UsesIn(d, f, N) = {u \in d.used : A(u[1]) = {}} \cup UNION {U(k) : k \in {x \in RunKeys : A(x) # {}}}
    BY Zenon DEF UsesIn
  <2>9. UsesIn(d, f, M) =
          {u \in d.used : B(u[1]) = {}} \cup UNION {V(k) : k \in {x \in RunKeys : B(x) # {}}}
    BY Zenon DEF UsesIn
  <2> DEFINE old == {u \in d.used : A(u[1]) = {}}
             new == {u \in d.used : B(u[1]) = {}}
             R == {x \in RunKeys : A(x) # {}}
             S == {x \in RunKeys : B(x) # {}}
  <2>10. new = {u \in old : u[1] # key}
    <3> HIDE DEF A, B, key
    <3> QED  BY <2>4, <2>5
  <2>11. S = R \cup {key}
    <3>1. key \in RunKeys  BY <1>0
    <3> HIDE DEF A, B, key
    <3> QED  BY <3>1, <2>4, <2>5
  <2>12. UNION {V(k) : k \in S} = {u \in UNION {U(k) : k \in R} : u[1] # key} \cup V(key)
    <3> HIDE DEF A, B, U, V, key, R, S
    <3>1. ASSUME NEW u \in UNION {V(k) : k \in S} PROVE u \in {y \in UNION {U(k) : k \in R} : y[1] # key} \cup V(key)
      <4> PICK k \in S : u \in V(k)  OBVIOUS
      <4>1. CASE k = key  BY <4>1
      <4>2. CASE k # key
        <5>1. k \in R /\ u \in U(k) /\ u[1] = k  BY <4>2, <2>6, <2>7, <2>11
        <5> QED  BY <5>1, <4>2
      <4> QED  BY <4>1, <4>2
    <3>2. ASSUME NEW u \in V(key) PROVE u \in UNION {V(k) : k \in S}
      BY <3>2, <2>11
    <3>3. ASSUME NEW u \in UNION {U(k) : k \in R}, u[1] # key PROVE u \in UNION {V(k) : k \in S}
      <4> PICK k \in R : u \in U(k)  OBVIOUS
      <4>1. u[1] = k  BY <2>7
      <4> QED  BY <4>1, <3>3, <2>6, <2>11
    <3> QED  BY <3>1, <3>2, <3>3
  <2> HIDE DEF A, B, U, V, key, old, new, R, S
  <2>13. UsesIn(d, f, N) = old \cup UNION {U(k) : k \in R}  BY <2>8 DEF old, R
  <2>14. UsesIn(d, f, M) = new \cup UNION {V(k) : k \in S}  BY <2>9 DEF new, S
  <2> DEFINE X == UNION {U(k) : k \in R}
             Y == UNION {V(k) : k \in S}
  <2> HIDE DEF X, Y
  <2>15. UsesIn(d, f, N) = old \cup X /\ UsesIn(d, f, M) = new \cup Y  BY <2>13, <2>14 DEF X, Y
  <2>16. Y = {u \in X : u[1] # key} \cup RunUses(f[n])  BY <2>12, <2>4 DEF X, Y
  <2>17. UsesIn(d, f, M) = {u \in UsesIn(d, f, N) : u[1] # key} \cup RunUses(f[n])
    BY <2>10, <2>15, <2>16
  <2> QED  BY <2>17 DEF key
<1>20. SameTables(d, f, N, M, f[n].kind)  BY OtherTables
<1>22. /\ AssetsIn(d, f, M) = AssetsIn(d, f, N) /\ RevisionsIn(d, f, M) = RevisionsIn(d, f, N)
       /\ LinksIn(d, f, M) = LinksIn(d, f, N) /\ TargetsIn(d, f, M) = TargetsIn(d, f, N)
  BY <1>0, <1>20 DEF SameTables
<1> DEFINE g == ImportRun(v, f[n])
<1>23. /\ g \in Databases /\ g.run = [v.run EXCEPT ![f[n].key] = RunRow(v, f[n])]
       /\ g.used = {u \in v.used : u[1] # f[n].key} \cup RunUses(f[n])
       /\ g.asset = v.asset /\ g.revision = v.revision /\ g.link = v.link /\ g.target = v.target
  BY <1>0, RunFields
<1> HIDE DEF g
<1>24. /\ g.asset = AssetsIn(d, f, M) /\ g.revision = RevisionsIn(d, f, M) /\ g.link = LinksIn(d, f, M)
       /\ g.run = RunsIn(d, f, M) /\ g.used = UsesIn(d, f, M) /\ g.target = TargetsIn(d, f, M)
  BY <1>1, <1>2, <1>21, <1>22, <1>23
<1>25. g = ResultIn(d, f, M)  BY <1>23, <1>24, AsRecord DEF ResultIn
<1> QED  BY <1>25 DEF g

\* Importing the next line gives the result of the lines with it.
LEMMA ResultGrows ==
  ASSUME NEW d \in Databases, NEW f, NEW N, NEW n, NEW M, Following(f, N, n, M),
         NEW v \in Databases, Executed(d, v, f, N), Accepted(v, f[n])
  PROVE  Import(v, f[n]) = ResultIn(d, f, M)
<1>1. f[n] \in Records /\ v = ResultIn(d, f, N)  BY DEF Following, Executed
<1>2. CASE f[n] \in AssetRecords
  <2>1. f[n].kind = "asset" /\ f[n].body \in ValidBodies  BY <1>2 DEF AssetRecords, Accepted
  <2>2. Import(v, f[n]) = ImportAsset(v, f[n])  BY <2>1, ImportByKind
  <2> QED  BY <1>1, <1>2, <2>1, <2>2, AssetGrows
<1>3. CASE f[n] \in LinkRecords
  <2>1. f[n].kind = "link"  BY <1>3 DEF LinkRecords
  <2>2. Import(v, f[n]) = ImportLink(v, f[n])  BY <2>1, ImportByKind
  <2> QED  BY <1>1, <1>3, <2>2, LinkGrows
<1>4. CASE f[n] \in RunRecords
  <2>1. f[n].kind = "run" /\ f[n].verdict \in Verdicts  BY <1>4 DEF RunRecords, Accepted
  <2>2. Import(v, f[n]) = ImportRun(v, f[n])  BY <2>1, ImportByKind
  <2> QED  BY <1>4, <2>1, <2>2, RunGrows
<1>5. CASE f[n] \in TargetRecords
  <2>1. f[n].kind = "target" /\ f[n].row \in ValidRows  BY <1>5 DEF TargetRecords, Accepted
  <2>2. Import(v, f[n]) = ImportTarget(v, f[n])  BY <2>1, ImportByKind
  <2> QED  BY <1>1, <1>5, <2>1, <2>2, TargetGrows
<1>6. CASE f[n] \in OtherRecords  BY <1>6 DEF OtherRecords, Accepted
<1> QED  BY <1>1, <1>2, <1>3, <1>4, <1>5, <1>6 DEF Records

\* What a transaction knows, the database knew or the file brings.
LEMMA KnownIsAvailable ==
  ASSUME NEW d, NEW f, NEW N, N \subseteq DOMAIN f, NEW v, v = ResultIn(d, f, N),
         NEW k \in AssetKeys, Known(v, k)
  PROVE  k \in AvailableIn(d, f, DOMAIN f)
<1>1. v.asset = AssetsIn(d, f, N)  BY DEF ResultIn
<1>2. AboutIn(f, N, "asset", k) \subseteq AboutIn(f, DOMAIN f, "asset", k)  BY DEF AboutIn, LinesIn
<1>3. AboutIn(f, N, "asset", k) = {} => v.asset[k] = d.asset[k]  BY <1>1 DEF AssetsIn
<1> QED  BY <1>2, <1>3 DEF AvailableIn, Known

\* The draft of a transaction that begins is the database.
LEMMA NothingExecuted ==
  ASSUME NEW d \in Databases, NEW f
  PROVE  Executed(d, d, f, {})
<1>1. \A kind, k : LinesIn(f, {}, kind) = {} /\ AboutIn(f, {}, kind, k) = {}  BY DEF AboutIn, LinesIn
<1>2. /\ d.asset = [k \in AssetKeys |-> d.asset[k]] /\ d.run = [k \in RunKeys |-> d.run[k]]
      /\ d.target = [k \in TargetKeys |-> d.target[k]]
  BY DEF Databases
<1>3. AssetsIn(d, f, {}) = d.asset  BY <1>1, <1>2 DEF AssetsIn
<1>4. RevisionsIn(d, f, {}) = d.revision  BY <1>1 DEF RevisionsIn
<1>5. LinksIn(d, f, {}) = d.link  BY <1>1 DEF LinksIn
<1>6. RunsIn(d, f, {}) = d.run  BY <1>1, <1>2 DEF RunsIn
<1>7. UsesIn(d, f, {}) = d.used  BY <1>1 DEF UsesIn
<1>8. TargetsIn(d, f, {}) = d.target  BY <1>1, <1>2 DEF TargetsIn
<1>9. d = ResultIn(d, f, {})  BY <1>3, <1>4, <1>5, <1>6, <1>7, <1>8, AsRecord DEF ResultIn
<1>10. AcceptableIn(d, f, {})  BY <1>1 DEF AcceptableIn
<1> QED  BY <1>1, <1>9, <1>10 DEF Executed

\* The lines of a kind among those with line n.
LEMMA LinesBefore ==
  ASSUME NEW f, NEW N, NEW n, NEW M, Following(f, N, n, M)
  PROVE  \A kind : \A m \in LinesIn(f, M, kind) : m \in LinesIn(f, N, kind) \/ (m = n /\ f[n].kind = kind)
BY DEF Following, LinesIn

\* A line the constraints let through is acceptable for the file as a whole.
LEMMA AcceptableGrows ==
  ASSUME NEW d \in Databases, NEW f, NEW N, NEW n, NEW M, Following(f, N, n, M),
         NEW v \in Databases, Executed(d, v, f, N), Accepted(v, f[n])
  PROVE  AcceptableIn(d, f, M)
<1> DEFINE Av == AvailableIn(d, f, DOMAIN f)
<1>1. \A k \in AssetKeys : Known(v, k) => k \in Av
  <2>1. N \subseteq DOMAIN f /\ v = ResultIn(d, f, N)  BY DEF Following, Executed
  <2> QED  BY <2>1, KnownIsAvailable
<1>2. f[n] \in Records  BY DEF Following
<1>3. \A kind : \A m \in LinesIn(f, M, kind) : m \in LinesIn(f, N, kind) \/ (m = n /\ f[n].kind = kind)
  BY LinesBefore
<1> DEFINE others(X) == LinesIn(f, X, "other") = {}
           assets(X) == \A m \in LinesIn(f, X, "asset") : f[m].body \in ValidBodies
           targets(X) == \A m \in LinesIn(f, X, "target") : f[m].row \in ValidRows
           links(X) == \A m \in LinesIn(f, X, "link") : {f[m].source, f[m].target} \subseteq Av
           runs(X) == \A m \in LinesIn(f, X, "run") :
                        /\ f[m].verdict \in Verdicts
                        /\ {u[1] : u \in UsedIn(f[m])} \subseteq Av
                        /\ ~RepeatsUse(f[m])
           firsts(X) == \A k \in RunKeys :
                          d.run[k] = Nil /\ AboutIn(f, X, "run", k) # {} =>
                            First(f, AboutIn(f, X, "run", k)).obligation \in Av
<1>4. AcceptableIn(d, f, N) <=> others(N) /\ assets(N) /\ targets(N) /\ links(N) /\ runs(N) /\ firsts(N)
  BY Zenon DEF AcceptableIn
<1>5. AcceptableIn(d, f, M) <=> others(M) /\ assets(M) /\ targets(M) /\ links(M) /\ runs(M) /\ firsts(M)
  BY Zenon DEF AcceptableIn
<1>6. AcceptableIn(d, f, N)  BY DEF Executed
<1> HIDE DEF Av
<1>7. others(M)  BY <1>3, <1>4, <1>6 DEF Accepted
<1>8. assets(M)  BY <1>3, <1>4, <1>6 DEF Accepted
<1>9. targets(M)  BY <1>3, <1>4, <1>6 DEF Accepted
<1>10. links(M)
  <2>1. f[n].kind = "link" => {f[n].source, f[n].target} \subseteq Av
    <3> SUFFICES ASSUME f[n].kind = "link" PROVE f[n].source \in Av /\ f[n].target \in Av  OBVIOUS
    <3>1. f[n] \in LinkRecords
      BY <1>2 DEF Records, AssetRecords, LinkRecords, RunRecords, TargetRecords, OtherRecords
    <3>2. f[n].source \in AssetKeys /\ f[n].target \in AssetKeys  BY <3>1 DEF LinkRecords
    <3>3. Known(v, f[n].source) /\ Known(v, f[n].target)  BY DEF Accepted
    <3> QED  BY <1>1, <3>2, <3>3
  <2> QED  BY <1>3, <1>4, <1>6, <2>1
<1>11. f[n].kind = "run" =>
         /\ f[n] \in RunRecords
         /\ f[n].verdict \in Verdicts
         /\ v.run[f[n].key] = Nil => Known(v, f[n].obligation)
         /\ UsesInsertable(v, f[n])
  BY <1>2 DEF Records, AssetRecords, LinkRecords, RunRecords, TargetRecords, OtherRecords, Accepted
<1>12. runs(M)
  <2>1. f[n].kind = "run" => /\ {u[1] : u \in UsedIn(f[n])} \subseteq Av
                             /\ ~RepeatsUse(f[n])
    <3> SUFFICES ASSUME f[n].kind = "run"
                 PROVE  {u[1] : u \in UsedIn(f[n])} \subseteq Av /\ ~RepeatsUse(f[n])
      OBVIOUS
    <3>1. UsedIn(f[n]) \subseteq AssetKeys \X Roles  BY <1>11 DEF UsedIn, RunRecords
    <3>2. (\A u \in UsedIn(f[n]) : Known(v, u[1])) /\ ~RepeatsUse(f[n])  BY <1>11 DEF UsesInsertable
    <3>3. \A u \in UsedIn(f[n]) : u[1] \in Av  BY <3>1, <3>2, <1>1
    <3> QED  BY <3>2, <3>3
  <2> QED  BY <1>3, <1>4, <1>6, <1>11, <2>1
<1>13. firsts(M)
  <2> SUFFICES ASSUME NEW k \in RunKeys, d.run[k] = Nil, AboutIn(f, M, "run", k) # {}
               PROVE  First(f, AboutIn(f, M, "run", k)).obligation \in Av
    OBVIOUS
  <2> DEFINE A == AboutIn(f, N, "run", k)
             B == AboutIn(f, M, "run", k)
  <2>1. A # {} => First(f, A).obligation \in Av  BY <1>4, <1>6
  <2>2. CASE B = A  BY <2>1, <2>2
  <2>3. CASE f[n].kind = "run" /\ f[n].key = k
    <3>1. n \in Nat /\ A \in SUBSET Nat /\ \A m \in A : m <= n  BY <2>3, SameKindBefore
    <3>2. B = A \cup {n}  BY <2>3 DEF AboutIn, LinesIn, Following
    <3>3. A # {} => \E x \in A : \A m \in A : x <= m  BY DEF Executed
    <3>4. A = {} => v.run[k] = Nil  BY DEF Executed, ResultIn, RunsIn
    <3>5. A = {} => f[n].obligation \in Av
      <4>1. f[n].obligation \in AssetKeys  BY <1>11, <2>3 DEF RunRecords
      <4> QED  BY <4>1, <1>1, <1>11, <2>3, <3>4
    <3> HIDE DEF A, B
    <3>6. CASE A = {}
      <4>1. First(f, {n}) = f[n] /\ B = {n}  BY <3>1, <3>2, <3>6, FirstOne
      <4>2. First(f, B).obligation \in Av  BY <4>1, <3>5, <3>6
      <4> QED  BY <4>2 DEF B
    <3>7. CASE A # {}
      <4>1. First(f, A \cup {n}) = First(f, A)  BY <3>1, <3>3, <3>7, FirstGrows
      <4>2. First(f, B).obligation \in Av  BY <4>1, <3>2, <2>1, <3>7
      <4> QED  BY <4>2 DEF B
    <3> QED  BY <3>6, <3>7
  <2> QED  BY <2>2, <2>3 DEF AboutIn, LinesIn, Following
<1> HIDE DEF others, assets, targets, links, runs, firsts
<1> QED  BY <1>5, <1>7, <1>8, <1>9, <1>10, <1>12, <1>13

\* The step of a transaction.
LEMMA ExecutedGrows ==
  ASSUME NEW d \in Databases, NEW f, NEW N, NEW n, NEW M, Following(f, N, n, M),
         NEW v \in Databases, Executed(d, v, f, N), Accepted(v, f[n])
  PROVE  Executed(d, Import(v, f[n]), f, M)
<1> DEFINE w == Import(v, f[n])
<1>1. f[n] \in Records  BY DEF Following
<1>2. w = ResultIn(d, f, M)  BY ResultGrows
<1>3. AcceptableIn(d, f, M)  BY AcceptableGrows
<1>4. Keeps(v, w) /\ w \in Databases  BY <1>1, LineStep
<1>5. ASSUME NEW k \in AssetKeys, AboutIn(f, M, "asset", k) # {} PROVE Known(w, k)
  <2>1. CASE AboutIn(f, N, "asset", k) # {}
    <3>1. Known(v, k)  BY <2>1 DEF Executed
    <3> QED  BY <3>1, <1>4 DEF Keeps
  <2>2. CASE f[n].kind = "asset" /\ f[n].key = k
    <3>1. f[n] \in AssetRecords /\ f[n].body \in ValidBodies
      BY <1>1, <2>2 DEF Records, AssetRecords, LinkRecords, RunRecords, TargetRecords, OtherRecords, Accepted
    <3>2. w = ImportAsset(v, f[n])  BY <2>2, ImportByKind
    <3>3. w.asset = [v.asset EXCEPT ![f[n].key] = f[n].body]  BY <3>1, <3>2, AssetFields
    <3>4. f[n].body # Nil  BY <3>1
    <3> HIDE DEF w
    <3> QED  BY <2>2, <3>3, <3>4 DEF Known, Databases
  <2> QED  BY <1>5, <2>1, <2>2 DEF AboutIn, LinesIn, Following
<1>6. ASSUME NEW k \in RunKeys, AboutIn(f, M, "run", k) # {}
      PROVE  /\ w.run[k] # Nil
             /\ \E x \in AboutIn(f, M, "run", k) : \A m \in AboutIn(f, M, "run", k) : x <= m
  <2> DEFINE A == AboutIn(f, N, "run", k)
             B == AboutIn(f, M, "run", k)
  <2>1. A # {} => v.run[k] # Nil /\ \E x \in A : \A m \in A : x <= m  BY DEF Executed
  <2>2. v.run[k] # Nil => w.run[k] # Nil  BY <1>4 DEF Keeps
  <2>3. CASE A = B  BY <1>6, <2>1, <2>2, <2>3
  <2>4. CASE f[n].kind = "run" /\ f[n].key = k
    <3>1. n \in Nat /\ A \in SUBSET Nat /\ \A m \in A : m <= n  BY <2>4, SameKindBefore
    <3>2. B = A \cup {n}  BY <2>4 DEF AboutIn, LinesIn, Following
    <3>3. f[n] \in RunRecords /\ f[n].verdict \in Verdicts
      BY <1>1, <2>4 DEF Records, AssetRecords, LinkRecords, RunRecords, TargetRecords, OtherRecords, Accepted
    <3>4. w = ImportRun(v, f[n])  BY <2>4, ImportByKind
    <3>5. w.run = [v.run EXCEPT ![f[n].key] = RunRow(v, f[n])] /\ RunRow(v, f[n]) \in RunRows
      BY <3>3, <3>4, RunFields
    <3>6. RunRow(v, f[n]) # Nil  BY <3>5
    <3> HIDE DEF w, A, B
    <3>7. w.run[k] # Nil  BY <2>4, <3>5, <3>6 DEF Databases
    <3>8. \E x \in B : \A m \in B : x <= m
      <4>1. CASE A = {}  BY <4>1, <3>1, <3>2
      <4>2. CASE A # {}  BY <4>2, <2>1, <3>1, <3>2, FirstGrows
      <4> QED  BY <4>1, <4>2
    <3> QED  BY <3>7, <3>8 DEF B
  <2> QED  BY <2>3, <2>4 DEF AboutIn, LinesIn, Following
<1> HIDE DEF w
<1>7. Executed(d, w, f, M)  BY <1>2, <1>3, <1>5, <1>6 DEF Executed
<1> QED  BY <1>7 DEF w
-----------------------------------------------------------------------------
(* Every importer has executed the first lines of its sorted file *)

\* An importer that has executed nothing may see any database.
LEMMA Waiting ==
  ASSUME RefinementInv, NEW j \in Importers, writer # j, writer' # j,
         file'[j] = file[j], left'[j] = left[j], pc'[j] = pc[j], db' \in Databases
  PROVE  AtWork(j)'
<1> SUFFICES ASSUME pc[j] = "open" PROVE AtWork(j)'  BY DEF AtWork
<1>1. file[j] \in Files /\ left[j] = DOMAIN file[j]  BY DEF RefinementInv, AtWork
<1>2. Taken(j)' = {} /\ View(j)' = db'  BY <1>1 DEF Taken, View
<1>3. Executed(db', db', file[j], {})  BY NothingExecuted
<1>4. Executed(db, View(j), file[j], Taken(j))'  BY <1>2, <1>3
<1> QED  BY <1>1, <1>2, <1>4 DEF AtWork

\* An importer sees nothing of what the others do before they commit.
LEMMA AtWorkSame ==
  ASSUME NEW j \in Importers, AtWork(j), writer' = j <=> writer = j, db' = db,
         writer = j => draft' = draft,
         file'[j] = file[j], left'[j] = left[j], pc'[j] = pc[j]
  PROVE  AtWork(j)'
<1>1. View(j)' = View(j) /\ Taken(j)' = Taken(j)  BY DEF View, Taken
<1> QED  BY <1>1 DEF AtWork

\* The line an importer executes is the next of the sorted file.
LEMMA NextLine ==
  ASSUME RefinementInv, NEW i \in Importers, pc[i] = "open", NEW n \in left[i], IsNext(i, n)
  PROVE  /\ Following(file[i], Taken(i), n, Taken(i) \cup {n})
         /\ \A m \in left[i] : m # n => Before(file[i], n, m)
<1>1. /\ file[i] \in Files /\ left[i] \subseteq DOMAIN file[i]
      /\ \A k \in Taken(i), m \in left[i] : Before(file[i], k, m)
  BY DEF RefinementInv, AtWork, StoreInv, TypeOK
<1>2. file[i] \in Seq(Records)  BY <1>1
<1>3. DOMAIN file[i] \subseteq Nat  BY <1>2
<1>4. Following(file[i], Taken(i), n, Taken(i) \cup {n})  BY <1>1, <1>2 DEF Following, Taken
<1>5. \A m \in left[i] : m # n => Before(file[i], n, m)  BY <1>1, <1>3 DEF IsNext, Before
<1> QED  BY <1>4, <1>5

\* One more line is executed,
LEMMA AtWorkExecute ==
  ASSUME RefinementInv, NEW i \in Importers, Execute(i)
  PROVE  RefinementInv'
<1>1. PICK n \in left[i] : /\ IsNext(i, n)
                          /\ Accepted(View(i), file[i][n])
                          /\ draft' = Import(View(i), file[i][n])
                          /\ left' = [left EXCEPT ![i] = @ \ {n}]
  BY DEF Execute
<1>2. pc[i] = "open" /\ writer \in {i, Nil} /\ writer' = i /\ db' = db /\ file' = file /\ pc' = pc
  BY DEF Execute, MayWrite
<1>3. StoreInv /\ StoreInv'  BY ExecuteStep DEF RefinementInv
<1>4. /\ file[i] \in Files /\ left[i] \subseteq DOMAIN file[i]
      /\ \A k \in Taken(i), m \in left[i] : Before(file[i], k, m)
      /\ Executed(db, View(i), file[i], Taken(i))
  BY <1>2 DEF RefinementInv, AtWork, StoreInv, TypeOK
<1>5. left'[i] = left[i] \ {n} /\ \A j \in Importers : j # i => left'[j] = left[j]
  BY <1>1, <1>3 DEF StoreInv, TypeOK
<1>6. Taken(i)' = Taken(i) \cup {n} /\ View(i)' = draft'
  BY <1>2, <1>4, <1>5 DEF Taken, View
<1>7. /\ Following(file[i], Taken(i), n, Taken(i) \cup {n})
      /\ \A m \in left[i] : m # n => Before(file[i], n, m)
  BY <1>1, <1>2, NextLine
<1>8. Executed(db, draft', file[i], Taken(i) \cup {n})
  <2>1. db \in Databases /\ View(i) \in Databases  BY <1>3 DEF StoreInv, TypeOK, View
  <2> DEFINE M == Taken(i) \cup {n}
  <2>2. Following(file[i], Taken(i), n, M)  BY <1>7
  <2> HIDE DEF M
  <2>3. Executed(db, Import(View(i), file[i][n]), file[i], M)
    BY <1>1, <1>4, <2>1, <2>2, ExecutedGrows
  <2> QED  BY <1>1, <2>3 DEF M
<1>9. AtWork(i)'
  <2>1. Executed(db, View(i), file[i], Taken(i))'  BY <1>2, <1>6, <1>8
  <2>2. \A k \in Taken(i)', m \in left'[i] : Before(file[i], k, m)'
    BY <1>2, <1>4, <1>5, <1>6, <1>7
  <2> QED  BY <1>2, <1>4, <2>1, <2>2 DEF AtWork
<1>10. ASSUME NEW j \in Importers, j # i PROVE AtWork(j)'
  <2>1. writer # j /\ writer' # j  BY <1>2, <1>10
  <2>2. db' \in Databases  BY <1>3 DEF StoreInv, TypeOK
  <2> QED  BY <2>1, <2>2, <1>2, <1>5, <1>10, Waiting
<1> QED  BY <1>2, <1>3, <1>9, <1>10 DEF RefinementInv

\* a file is read,
LEMMA AtWorkRead ==
  ASSUME RefinementInv, NEW i \in Importers, Read(i)
  PROVE  RefinementInv'
<1>1. PICK f \in Files : file' = [file EXCEPT ![i] = f] /\ left' = [left EXCEPT ![i] = DOMAIN f]
  BY DEF Read
<1>2. pc[i] = "idle" /\ pc' = [pc EXCEPT ![i] = "open"] /\ db' = db /\ draft' = draft /\ writer' = writer
  BY DEF Read
<1>3. StoreInv /\ StoreInv'  BY ReadStep DEF RefinementInv
<1>4. writer # i  BY <1>2 DEF RefinementInv
<1>5. file'[i] = f /\ left'[i] = DOMAIN f /\ pc'[i] = "open"  BY <1>1, <1>2, <1>3 DEF StoreInv, TypeOK
<1>6. \A j \in Importers : j # i => file'[j] = file[j] /\ left'[j] = left[j] /\ pc'[j] = pc[j]
  BY <1>1, <1>2, <1>3 DEF StoreInv, TypeOK
<1>7. AtWork(i)'
  <2>1. Taken(i)' = {} /\ View(i)' = db  BY <1>2, <1>4, <1>5 DEF Taken, View
  <2>2. Executed(db, db, f, {})  BY <1>3, NothingExecuted DEF StoreInv, TypeOK
  <2>3. Executed(db, View(i), file[i], Taken(i))'  BY <1>2, <1>5, <2>1, <2>2
  <2> QED  BY <1>5, <2>1, <2>3 DEF AtWork
<1>8. ASSUME NEW j \in Importers, j # i PROVE AtWork(j)'
  BY <1>2, <1>6, <1>8, AtWorkSame DEF RefinementInv
<1> QED  BY <1>2, <1>3, <1>4, <1>5, <1>6, <1>7, <1>8 DEF RefinementInv

\* a transaction is given up,
LEMMA AtWorkRollback ==
  ASSUME RefinementInv, NEW i \in Importers, NEW end \in {"rejected", "busy", "dead"}, RolledBack(i, end)
  PROVE  RefinementInv'
<1>1. StoreInv /\ StoreInv' /\ db' = db  BY RollbackStep DEF RefinementInv
<1>2. /\ writer' = IF writer = i THEN Nil ELSE writer
      /\ draft' = IF writer = i THEN db ELSE draft
      /\ file' = file /\ left' = [left EXCEPT ![i] = {}] /\ pc' = [pc EXCEPT ![i] = end]
  BY DEF RolledBack, Release
<1>3. pc'[i] = end /\ \A j \in Importers : j # i => left'[j] = left[j] /\ pc'[j] = pc[j]
  BY <1>1, <1>2 DEF StoreInv, TypeOK
<1>4. AtWork(i)'  BY <1>3 DEF AtWork
<1>5. ASSUME NEW j \in Importers, j # i PROVE AtWork(j)'
  <2>1. writer' = j <=> writer = j  BY <1>2, <1>5
  <2>2. writer = j => draft' = draft  BY <1>2, <1>5
  <2>3. CASE writer = j  BY <1>1, <1>2, <1>3, <1>5, <2>1, <2>2, AtWorkSame DEF RefinementInv
  <2>4. CASE writer # j  BY <1>1, <1>2, <1>3, <1>5, <2>1, <2>4, Waiting DEF StoreInv, TypeOK
  <2> QED  BY <2>3, <2>4
<1>6. \A j \in Importers : writer' = j => pc'[j] = "open"  BY <1>2, <1>3 DEF RefinementInv
<1> QED  BY <1>1, <1>4, <1>5, <1>6 DEF RefinementInv

\* or published.
LEMMA AtWorkCommit ==
  ASSUME RefinementInv, NEW i \in Importers, Commit(i)
  PROVE  RefinementInv'
<1>1. StoreInv /\ StoreInv'  BY CommitStep DEF RefinementInv
<1>2. /\ db' = View(i) /\ writer' = IF writer = i THEN Nil ELSE writer
      /\ draft' = draft /\ file' = file /\ left' = left /\ pc' = [pc EXCEPT ![i] = "done"]
  BY DEF Commit
<1>3. pc'[i] = "done" /\ \A j \in Importers : j # i => pc'[j] = pc[j]
  BY <1>1, <1>2 DEF StoreInv, TypeOK
<1>4. AtWork(i)'  BY <1>3 DEF AtWork
<1>5. ASSUME NEW j \in Importers, j # i PROVE AtWork(j)'
  <2>1. writer' = j <=> writer = j  BY <1>2, <1>5
  <2>2. CASE writer = j
    <3>1. db' = db  BY <1>2, <1>5, <2>2 DEF View
    <3> QED  BY <1>2, <1>3, <1>5, <2>1, <3>1, AtWorkSame DEF RefinementInv
  <2>3. CASE writer # j  BY <1>1, <1>2, <1>3, <1>5, <2>1, <2>3, Waiting DEF StoreInv, TypeOK
  <2> QED  BY <2>2, <2>3
<1>6. \A j \in Importers : writer' = j => pc'[j] = "open"  BY <1>2, <1>3 DEF RefinementInv
<1> QED  BY <1>1, <1>4, <1>5, <1>6 DEF RefinementInv

\* No importer is at work at first.
LEMMA RefinementInvInit == Init => RefinementInv
<1> SUFFICES ASSUME Init PROVE RefinementInv  OBVIOUS
<1>1. StoreInv  BY StoreInvInit
<1>2. \A i \in Importers : pc[i] = "idle" /\ writer # i  BY DEF Init
<1> QED  BY <1>1, <1>2 DEF RefinementInv, AtWork

\* One step of one importer.
LEMMA RefinementInvStep == RefinementInv /\ [Next]_vars => RefinementInv'
<1> SUFFICES ASSUME RefinementInv, [Next]_vars PROVE RefinementInv'  OBVIOUS
<1>1. CASE UNCHANGED vars
  <2>1. StoreInv'  BY <1>1, StoreInvStep DEF RefinementInv
  <2>2. \A i \in Importers : AtWork(i)'  BY <1>1, AtWorkSame DEF vars, RefinementInv
  <2> QED  BY <1>1, <2>1, <2>2 DEF vars, RefinementInv
<1>2. ASSUME NEW i \in Importers, Step(i) \/ Busy(i) \/ Crash(i) PROVE RefinementInv'
  <2>1. CASE Read(i)     BY <2>1, AtWorkRead
  <2>2. CASE Execute(i)  BY <2>2, AtWorkExecute
  <2>3. CASE Reject(i)   BY <2>3, AtWorkRollback DEF Reject
  <2>4. CASE Commit(i)   BY <2>4, AtWorkCommit
  <2>5. CASE Busy(i)     BY <2>5, AtWorkRollback DEF Busy
  <2>6. CASE Crash(i)    BY <2>6, AtWorkRollback DEF Crash
  <2> QED  BY <1>2, <2>1, <2>2, <2>3, <2>4, <2>5, <2>6 DEF Step
<1> QED  BY <1>1, <1>2 DEF Next
-----------------------------------------------------------------------------
(* AtomicStore is implemented *)

\* With every line of the file, the result is that of AtomicStore.
LEMMA WholeFile ==
  ASSUME NEW d, NEW f
  PROVE  /\ Atomic!Result(d, f) = ResultIn(d, f, DOMAIN f)
         /\ Atomic!Acceptable(d, f) <=> AcceptableIn(d, f, DOMAIN f)
<1>1. Atomic!Result(d, f) = ResultIn(d, f, DOMAIN f)
  BY Zenon DEF Atomic!Result, ResultIn, AssetsIn, RevisionsIn, LinksIn, RunsIn, UsesIn, TargetsIn, RunIn, RunUsesIn,
               Atomic!Lines, Atomic!About, LinesIn, AboutIn, Atomic!Last, Atomic!First, Last, First,
               Atomic!UsedIn, UsedIn
<1>2. Atomic!Acceptable(d, f) <=> AcceptableIn(d, f, DOMAIN f)
  BY Zenon DEF Atomic!Acceptable, AcceptableIn, Atomic!Available, AvailableIn, Atomic!Known, Known,
               Atomic!Lines, Atomic!About, LinesIn, AboutIn, Atomic!First, First,
               Atomic!UsedIn, UsedIn, Atomic!RepeatsUse, RepeatsUse, Atomic!Verdicts, Verdicts
<1> QED  BY <1>1, <1>2

\* The first states are first states of the atomic store.
LEMMA AtomicInit == Init => Atomic!Init
<1> SUFFICES ASSUME Init PROVE Atomic!Init  OBVIOUS
<1>1. Imported = [i \in Importers |-> Nil]  BY DEF Init, Imported
<1>2. db = Atomic!EmptyDatabase  BY DEF Init, EmptyDatabase, Atomic!EmptyDatabase
<1> QED  BY <1>1, <1>2 DEF Atomic!Init

\* A commit is the import of the whole file, in one step.
LEMMA CommitImports ==
  ASSUME RefinementInv, NEW i \in Importers, Commit(i)
  PROVE  Atomic!ImportFile(i, file[i]) /\ file[i] \in Files
<1>1. /\ pc[i] = "open" /\ left[i] = {} /\ db' = View(i) /\ file' = file
      /\ pc' = [pc EXCEPT ![i] = "done"]
  BY DEF Commit
<1>2. file[i] \in Files /\ Executed(db, View(i), file[i], Taken(i))  BY <1>1 DEF RefinementInv, AtWork
<1>3. Taken(i) = DOMAIN file[i]  BY <1>1 DEF Taken
<1>4. Atomic!Acceptable(db, file[i]) /\ db' = Atomic!Result(db, file[i])
  BY <1>1, <1>2, <1>3, WholeFile DEF Executed
<1>5. Imported[i] = Nil  BY <1>1 DEF Imported
<1>6. Imported' = [Imported EXCEPT ![i] = file[i]]
  <2>1. pc'[i] = "done" /\ \A j \in Importers : j # i => pc'[j] = pc[j]
    BY <1>1 DEF RefinementInv, StoreInv, TypeOK
  <2>2. Imported' = [j \in Importers |-> IF pc'[j] = "done" THEN file[j] ELSE Nil]
    BY <1>1 DEF Imported
  <2>3. Imported = [j \in Importers |-> IF pc[j] = "done" THEN file[j] ELSE Nil]  BY DEF Imported
  <2> QED  BY <2>1, <2>2, <2>3
<1> QED  BY <1>2, <1>4, <1>5, <1>6 DEF Atomic!ImportFile

\* Every step is a step of the atomic store or leaves it alone.
LEMMA AtomicStep == RefinementInv /\ [Next]_vars => [Atomic!Next]_<<db, Imported>>
<1> SUFFICES ASSUME RefinementInv, [Next]_vars
             PROVE  Atomic!Next \/ UNCHANGED <<db, Imported>>
  OBVIOUS
<1>0. StoreInv  BY DEF RefinementInv
<1>1. CASE UNCHANGED vars  BY <1>1 DEF vars, Imported
<1>2. ASSUME NEW i \in Importers, NEW end, end # "done", db' = db, pc[i] \in {"idle", "open"},
             pc' = [pc EXCEPT ![i] = end], \A j \in Importers : j # i => file'[j] = file[j]
      PROVE  UNCHANGED <<db, Imported>>
  <2>1. pc'[i] = end /\ pc[i] # "done" /\ \A j \in Importers : j # i => pc'[j] = pc[j]
    BY <1>0, <1>2 DEF StoreInv, TypeOK
  <2>2. Imported' = [j \in Importers |-> IF pc'[j] = "done" THEN file'[j] ELSE Nil]  BY DEF Imported
  <2>3. Imported = [j \in Importers |-> IF pc[j] = "done" THEN file[j] ELSE Nil]  BY DEF Imported
  <2>4. \A j \in Importers : (IF pc'[j] = "done" THEN file'[j] ELSE Nil)
                           = (IF pc[j] = "done" THEN file[j] ELSE Nil)
    BY <1>2, <2>1
  <2> QED  BY <1>2, <2>2, <2>3, <2>4
<1>3. ASSUME NEW i \in Importers, Step(i) \/ Busy(i) \/ Crash(i)
      PROVE  Atomic!Next \/ UNCHANGED <<db, Imported>>
  <2>1. CASE Read(i)
    <3>1. pc[i] = "idle" /\ pc' = [pc EXCEPT ![i] = "open"] /\ db' = db  BY <2>1 DEF Read
    <3>2. \A j \in Importers : j # i => file'[j] = file[j]  BY <2>1, <1>0 DEF Read, StoreInv, TypeOK
    <3> QED  BY <3>1, <3>2, <1>2
  <2>2. CASE Execute(i)  BY <2>2 DEF Execute, Imported
  <2>3. CASE Commit(i)   BY <2>3, CommitImports DEF Atomic!Next
  <2>4. CASE Reject(i) \/ Busy(i) \/ Crash(i)
    <3>1. pc[i] = "open"  BY <2>4 DEF Reject, MayWrite, Busy, Crash
    <3>2. PICK end \in {"rejected", "busy", "dead"} : RolledBack(i, end)
      BY <2>4 DEF Reject, Busy, Crash
    <3>3. db' = db /\ file' = file /\ pc' = [pc EXCEPT ![i] = end]  BY <3>2 DEF RolledBack, Release
    <3> QED  BY <3>1, <3>3, <1>2
  <2> QED  BY <1>3, <2>1, <2>2, <2>3, <2>4 DEF Step
<1> QED  BY <1>1, <1>3 DEF Next

\* The lines already executed, and the result they have, whatever the others do.
THEOREM RefinementInvHolds == Spec => []RefinementInv
BY RefinementInvInit, RefinementInvStep, PTL DEF Spec

\* Concurrent imports are atomic: whatever the order the lines are sorted into,
\* whoever fails, waits in vain or dies, the database changes only by the import
\* of one importer's whole file.
THEOREM AtomicStoreImplemented == Spec => AtomicSpec
BY AtomicInit, AtomicStep, RefinementInvHolds, PTL DEF Spec, AtomicSpec, Atomic!Spec
-----------------------------------------------------------------------------
(* A file is rejected for cause only *)

\* When a link or a run is next, every asset the file may refer to is there.
LEMMA AvailableIsKnown ==
  ASSUME NEW d, NEW f, NEW N, NEW v, Executed(d, v, f, N), Keeps(d, v),
         \A m \in LinesIn(f, DOMAIN f, "asset") : m \in N,
         NEW k \in AvailableIn(d, f, DOMAIN f)
  PROVE  Known(v, k)
<1>1. k \in AssetKeys /\ (Known(d, k) \/ AboutIn(f, DOMAIN f, "asset", k) # {})  BY DEF AvailableIn
<1>2. CASE Known(d, k)  BY <1>1, <1>2 DEF Keeps
<1>3. CASE AboutIn(f, DOMAIN f, "asset", k) # {}
  <2>1. AboutIn(f, N, "asset", k) # {}  BY <1>3 DEF AboutIn, LinesIn
  <2> QED  BY <1>1, <2>1 DEF Executed
<1> QED  BY <1>1, <1>2, <1>3

\* The next line of a file that is acceptable as a whole violates no constraint.
LEMMA NextAccepted ==
  ASSUME NEW d, NEW f \in Seq(Records), NEW N \in SUBSET DOMAIN f, NEW n \in DOMAIN f \ N,
         \A m \in DOMAIN f \ N : \/ Rank(f[n]) < Rank(f[m])
                                 \/ Rank(f[n]) = Rank(f[m]) /\ n <= m,
         NEW v, Executed(d, v, f, N), Keeps(d, v), AcceptableIn(d, f, DOMAIN f)
  PROVE  Accepted(v, f[n])
<1> DEFINE D == DOMAIN f
           Av == AvailableIn(d, f, D)
<1>1. f[n] \in Records /\ D \subseteq Nat  OBVIOUS
<1>2. \A kind : f[n].kind = kind => n \in LinesIn(f, D, kind)  BY DEF LinesIn
<1>3. /\ f[n].kind # "other"
      /\ f[n].kind = "asset" => f[n].body \in ValidBodies
      /\ f[n].kind = "target" => f[n].row \in ValidRows
      /\ f[n].kind = "link" => {f[n].source, f[n].target} \subseteq Av
      /\ f[n].kind = "run" => /\ f[n].verdict \in Verdicts
                              /\ {u[1] : u \in UsedIn(f[n])} \subseteq Av
                              /\ ~RepeatsUse(f[n])
  BY <1>2 DEF AcceptableIn
<1>4. f[n].kind \in {"link", "run"} => \A k \in Av : Known(v, k)
  <2> SUFFICES ASSUME f[n].kind \in {"link", "run"} PROVE \A k \in Av : Known(v, k)  OBVIOUS
  <2>1. ASSUME NEW m \in LinesIn(f, D, "asset") PROVE m \in N
    <3>1. m \in D /\ f[m].kind = "asset"  BY DEF LinesIn
    <3>2. Rank(f[m]) = 1 /\ Rank(f[n]) \in {2, 3}  BY <3>1 DEF Rank
    <3> QED  BY <3>1, <3>2
  <2> QED  BY <2>1, AvailableIsKnown
<1>5. f[n].kind = "run" /\ v.run[f[n].key] = Nil => Known(v, f[n].obligation)
  <2> SUFFICES ASSUME f[n].kind = "run", v.run[f[n].key] = Nil PROVE Known(v, f[n].obligation)  OBVIOUS
  <2> DEFINE k == f[n].key
             B == AboutIn(f, D, "run", k)
  <2>1. k \in RunKeys
    BY <1>1 DEF Records, AssetRecords, LinkRecords, RunRecords, TargetRecords, OtherRecords
  <2>2. AboutIn(f, N, "run", k) = {}  BY <2>1 DEF Executed
  <2>3. d.run[k] = Nil  BY <2>1, <2>2 DEF Executed, ResultIn, RunsIn
  <2>4. n \in B  BY DEF AboutIn, LinesIn
  <2>5. \A m \in B : n <= m
    <3>1. \A m \in B : m \in D \ N /\ f[m].kind = "run"  BY <2>2 DEF AboutIn, LinesIn
    <3>2. \A m \in B : Rank(f[m]) = 3  BY <3>1 DEF Rank
    <3>3. Rank(f[n]) = 3  BY DEF Rank
    <3> QED  BY <3>1, <3>2, <3>3
  <2>6. First(f, B).obligation \in Av  BY <2>1, <2>3, <2>4 DEF AcceptableIn
  <2>7. B \subseteq Nat  BY <1>1 DEF AboutIn, LinesIn
  <2>8. First(f, B) = f[n]
    <3> HIDE DEF B
    <3> DEFINE c == CHOOSE x \in B : \A m \in B : x <= m
    <3>1. c \in B /\ \A m \in B : c <= m  BY <2>4, <2>5
    <3> HIDE DEF c
    <3>2. c <= n /\ n <= c /\ c \in Nat /\ n \in Nat  BY <2>4, <2>5, <2>7, <3>1
    <3>3. c = n  BY <3>2
    <3> QED  BY <3>3 DEF c, First
  <2> QED  BY <1>4, <2>6, <2>8
<1>6. f[n].kind \in {"asset", "link", "run", "target", "other"}
  BY <1>1 DEF Records, AssetRecords, LinkRecords, RunRecords, TargetRecords, OtherRecords
<1>7. CASE f[n].kind = "link"  BY <1>3, <1>4, <1>7 DEF Accepted
<1>8. CASE f[n].kind = "run"
  <2>1. UsesInsertable(v, f[n])  BY <1>3, <1>4, <1>8 DEF UsesInsertable
  <2> QED  BY <1>3, <1>5, <1>8, <2>1 DEF Accepted
<1> QED  BY <1>3, <1>6, <1>7, <1>8 DEF Accepted

\* A step that rejects a file has met a line nothing could have accepted.
LEMMA RejectedStep ==
  ASSUME RefinementInv, [Next]_vars, NEW i \in Importers, pc[i] = "open", pc'[i] = "rejected"
  PROVE  ~Atomic!Acceptable(db, file[i])
<1>0. StoreInv /\ AtWork(i)  BY DEF RefinementInv
<1>1. Reject(i)
  <2>1. pc'[i] # pc[i]  OBVIOUS
  <2>2. PICK j \in Importers : Step(j) \/ Busy(j) \/ Crash(j)  BY <2>1 DEF Next, vars
  <2>3. j = i
    <3>1. pc' = pc \/ \E end : pc' = [pc EXCEPT ![j] = end]
      BY <2>2 DEF Step, Read, Execute, Reject, Commit, Busy, Crash, RolledBack
    <3> QED  BY <2>1, <3>1, <1>0 DEF StoreInv, TypeOK
  <2> QED  BY <1>0, <2>2, <2>3 DEF Step, Read, Execute, Commit, Busy, Crash, RolledBack, StoreInv, TypeOK
<1>2. PICK n \in left[i] : IsNext(i, n) /\ ~Accepted(View(i), file[i][n])  BY <1>1 DEF Reject
<1>3. /\ file[i] \in Seq(Records) /\ left[i] \subseteq DOMAIN file[i]
      /\ Executed(db, View(i), file[i], Taken(i))
  BY <1>0 DEF AtWork, StoreInv, TypeOK
<1>4. DOMAIN file[i] \ Taken(i) = left[i] /\ Taken(i) \in SUBSET DOMAIN file[i]  BY <1>3 DEF Taken
<1>5. Keeps(db, View(i))  BY <1>0, ViewSound
<1>6. \A m \in left[i] : \/ Rank(file[i][n]) < Rank(file[i][m])
                         \/ Rank(file[i][n]) = Rank(file[i][m]) /\ n <= m
  BY <1>2 DEF IsNext
<1>7. ~AcceptableIn(db, file[i], DOMAIN file[i])  BY <1>2, <1>3, <1>4, <1>5, <1>6, NextAccepted
<1> QED  BY <1>7, WholeFile

\* The order of the lines in a file is never the reason to reject it, nor is
\* anything another process imports meanwhile.
THEOREM RejectedForCauseHolds == Spec => RejectedForCause
<1>1. RefinementInv /\ [Next]_vars =>
        [\A i \in Importers : pc[i] = "open" /\ pc'[i] = "rejected" => ~Atomic!Acceptable(db, file[i])]_vars
  BY RejectedStep
<1> QED  BY <1>1, RefinementInvHolds, PTL DEF Spec, RejectedForCause
=============================================================================
