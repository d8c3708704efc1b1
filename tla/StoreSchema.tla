---------------------------- MODULE StoreSchema ----------------------------
(***************************************************************************)
(* The tables of assets/store/schema.sql and the statements store.py runs  *)
(* against them for one line of a JSONL file.                              *)
(*                                                                         *)
(* What an asset or a target says is a `body', a `row': all its columns.   *)
(* The content hash of an asset digests every column of its body, so the   *)
(* body stands for the hash.  ValidBodies and ValidRows are those that     *)
(* satisfy the CHECK constraints of their table; a line whose body is not  *)
(* among them raises, as one with a missing field does.                    *)
(***************************************************************************)
EXTENDS Naturals, Sequences, FiniteSets

CONSTANTS
  AssetKeys, RunKeys, TargetKeys,
  Bodies, ValidBodies,    \* asset records without their key
  Rows, ValidRows,        \* target records without their key
  Relations, Roles,
  Nil

Verdicts == {"RED", "GREEN", "INVALID", "INFO"}

RunRows == [obligation : AssetKeys, verdict : Verdicts]

\* Nil is the row that is not there.
ASSUME SchemaAssumption ==
  /\ ValidBodies \subseteq Bodies
  /\ ValidRows \subseteq Rows
  /\ Nil \notin Bodies \cup Rows \cup RunRows

Databases ==
  [asset    : [AssetKeys -> ValidBodies \cup {Nil}],
   revision : SUBSET (AssetKeys \X ValidBodies),
   link     : SUBSET (AssetKeys \X AssetKeys \X Relations),
   run      : [RunKeys -> RunRows \cup {Nil}],
   used     : SUBSET (RunKeys \X AssetKeys \X Roles),
   target   : [TargetKeys -> ValidRows \cup {Nil}]]

EmptyDatabase ==
  [asset |-> [k \in AssetKeys |-> Nil], revision |-> {}, link |-> {},
   run |-> [k \in RunKeys |-> Nil], used |-> {}, target |-> [k \in TargetKeys |-> Nil]]

\* Lines of a file.  A run names the assets it used in a list, which may
\* repeat one.
AssetRecords  == [kind : {"asset"}, key : AssetKeys, body : Bodies]
LinkRecords   == [kind : {"link"}, source : AssetKeys, target : AssetKeys, relation : Relations]
RunRecords    == [kind : {"run"}, key : RunKeys, obligation : AssetKeys,
                  verdict : Verdicts \cup {"UNKNOWN"}, used : Seq(AssetKeys \X Roles)]
TargetRecords == [kind : {"target"}, key : TargetKeys, row : Rows]
OtherRecords  == [kind : {"other"}]
Records == AssetRecords \cup LinkRecords \cup RunRecords \cup TargetRecords \cup OtherRecords

\* The position of a kind in the order import_jsonl sorts by.
Rank(r) ==
  CASE r.kind = "target" -> 0
    [] r.kind = "asset" -> 1
    [] r.kind = "link" -> 2
    [] r.kind = "run" -> 3
    [] OTHER -> 99
-----------------------------------------------------------------------------
(* import_asset, import_link, import_run, import_target *)

Known(d, k) == d.asset[k] # Nil

UsedIn(r) == {r.used[j] : j \in DOMAIN r.used}

RepeatsUse(r) == \E i, j \in DOMAIN r.used : i # j /\ r.used[i] = r.used[j]

\* The used assets of a run are deleted and inserted again: they must exist and
\* differ.
UsesInsertable(d, r) == (\A u \in UsedIn(r) : Known(d, u[1])) /\ ~RepeatsUse(r)

\* Mutant of Accepted: no CHECK constraint on verdicts and bodies.
AcceptedUnchecked(d, r) ==
  \/ r.kind \in {"asset", "target"}
  \/ r.kind = "link" /\ Known(d, r.source) /\ Known(d, r.target)
  \/ /\ r.kind = "run"
     /\ d.run[r.key] = Nil => Known(d, r.obligation)
     /\ UsesInsertable(d, r)

\* The constraints of the tables.  An upsert that finds its run updates no
\* foreign key of run_result, so the obligation the line names is not checked.
Accepted(d, r) ==
  \/ r.kind = "asset" /\ r.body \in ValidBodies
  \/ r.kind = "link" /\ Known(d, r.source) /\ Known(d, r.target)
  \/ /\ r.kind = "run"
     /\ r.verdict \in Verdicts
     /\ d.run[r.key] = Nil => Known(d, r.obligation)
     /\ UsesInsertable(d, r)
  \/ r.kind = "target" /\ r.row \in ValidRows

\* The statements of import_asset: the asset is replaced; INSERT OR IGNORE adds
\* a revision and touches none.
PutAsset(d, r) == [d EXCEPT !.asset = [@ EXCEPT ![r.key] = r.body]]
PutRevision(d, r) == [d EXCEPT !.revision = @ \cup {<<r.key, r.body>>}]

\* Mutant of ImportAsset: a revision is written for a new asset only.
ImportAssetOnce(d, r) == IF Known(d, r.key) THEN PutAsset(d, r) ELSE PutRevision(PutAsset(d, r), r)

ImportAsset(d, r) == PutRevision(PutAsset(d, r), r)

ImportLink(d, r) == [d EXCEPT !.link = @ \cup {<<r.source, r.target, r.relation>>}]

\* The statements of import_run: a known run keeps its obligation; the assets
\* it used are replaced.
RunRow(d, r) ==
  [obligation |-> IF d.run[r.key] = Nil THEN r.obligation ELSE d.run[r.key].obligation,
   verdict |-> r.verdict]
PutRun(d, r) == [d EXCEPT !.run = [@ EXCEPT ![r.key] = RunRow(d, r)]]
RunUses(r) == {<<r.key, u[1], u[2]>> : u \in UsedIn(r)}
PutUses(d, r) == [d EXCEPT !.used = {u \in @ : u[1] # r.key} \cup RunUses(r)]

\* Mutant of ImportRun: the obligation of a known run is replaced, unchecked.
ImportRunMoved(d, r) ==
  PutUses([d EXCEPT !.run[r.key] = [obligation |-> r.obligation, verdict |-> r.verdict]], r)

ImportRun(d, r) == PutUses(PutRun(d, r), r)

\* Everything a known target was, its status included, is replaced.
ImportTarget(d, r) == [d EXCEPT !.target = [@ EXCEPT ![r.key] = r.row]]

Import(d, r) ==
  CASE r.kind = "asset" -> ImportAsset(d, r)
    [] r.kind = "link" -> ImportLink(d, r)
    [] r.kind = "run" -> ImportRun(d, r)
    [] r.kind = "target" -> ImportTarget(d, r)
    [] OTHER -> d
-----------------------------------------------------------------------------
(* What a database promises *)

\* Every reference of every table resolves.
ReferencesResolve(d) ==
  /\ \A l \in d.link : Known(d, l[1]) /\ Known(d, l[2])
  /\ \A k \in RunKeys : d.run[k] # Nil => Known(d, d.run[k].obligation)
  /\ \A u \in d.used : d.run[u[1]] # Nil /\ Known(d, u[2])

\* What an asset says now is one of its revisions.
CurrentIsRevision(d) == \A k \in AssetKeys : Known(d, k) => <<k, d.asset[k]>> \in d.revision

\* e has everything d promised to keep: revisions, assets, links, targets, and
\* runs under the obligation they were recorded for.
Keeps(d, e) ==
  /\ d.revision \subseteq e.revision
  /\ d.link \subseteq e.link
  /\ \A k \in AssetKeys : Known(d, k) => Known(e, k)
  /\ \A k \in TargetKeys : d.target[k] # Nil => e.target[k] # Nil
  /\ \A k \in RunKeys : d.run[k] # Nil => e.run[k] # Nil /\ e.run[k].obligation = d.run[k].obligation
=============================================================================
