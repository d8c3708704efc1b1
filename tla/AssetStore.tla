----------------------------- MODULE AssetStore -----------------------------
(***************************************************************************)
(* Processes that run `store.py import' on one SQLite file.                *)
(*                                                                         *)
(* An importer reads its file, sorts the lines by kind (a stable sort) and *)
(* executes them in one transaction.  The first statement takes SQLite's   *)
(* write lock, which one connection holds at a time; `draft' is what the   *)
(* holder has written and nobody else sees.  The transaction is committed  *)
(* when the last line is through, and rolled back by any exception, by a   *)
(* lock that does not come free in time, or by the death of the process.   *)
(***************************************************************************)
EXTENDS StoreSchema

CONSTANTS
  Importers,   \* processes, each of which imports one file
  Files,       \* files they may be given
  Faults       \* subset of {"busy", "crash"}

ASSUME StoreAssumption ==
  /\ Files \subseteq Seq(Records)
  /\ Nil \notin Importers

VARIABLES
  db,       \* the committed database
  draft,    \* the database as the holder of the write lock sees it
  writer,   \* the importer in a transaction, or Nil
  file,     \* the file of each importer
  left,     \* the line numbers each importer has not executed
  pc        \* idle, open, done, rejected, busy or dead

vars == <<db, draft, writer, file, left, pc>>

TypeOK ==
  /\ db \in Databases
  /\ draft \in Databases
  /\ writer \in Importers \cup {Nil}
  /\ file \in [Importers -> Files \cup {<<>>}]
  /\ left \in [Importers -> SUBSET Nat]
  /\ \A i \in Importers : left[i] \subseteq DOMAIN file[i]
  /\ pc \in [Importers -> {"idle", "open", "done", "rejected", "busy", "dead"}]

Init ==
  /\ db = EmptyDatabase
  /\ draft = EmptyDatabase
  /\ writer = Nil
  /\ file = [i \in Importers |-> <<>>]
  /\ left = [i \in Importers |-> {}]
  /\ pc = [i \in Importers |-> "idle"]

\* Mutant of IsNext: the lines are executed as they stand in the file.
IsNextInFile(i, n) == n \in left[i] /\ \A m \in left[i] : n <= m

\* The line a stable sort by rank puts first among those left.
IsNext(i, n) ==
  /\ n \in left[i]
  /\ \A m \in left[i] : \/ Rank(file[i][n]) < Rank(file[i][m])
                        \/ Rank(file[i][n]) = Rank(file[i][m]) /\ n <= m

\* The file is read and decoded before the first statement that changes a row.
Read(i) ==
  /\ pc[i] = "idle"
  /\ \E f \in Files :
       /\ file' = [file EXCEPT ![i] = f]
       /\ left' = [left EXCEPT ![i] = DOMAIN f]
  /\ pc' = [pc EXCEPT ![i] = "open"]
  /\ UNCHANGED <<db, draft, writer>>

\* What the statement of importer i works on: its own transaction, or the
\* database when this is its first statement.
View(i) == IF writer = i THEN draft ELSE db

MayWrite(i) == pc[i] = "open" /\ writer \in {i, Nil}

\* Mutant of Release: the transaction of a failed import stays open.
ReleaseNot(i) == UNCHANGED <<writer, db, file>>

\* The transaction of i, if it has one, is gone.
Release(i) ==
  /\ writer' = IF writer = i THEN Nil ELSE writer
  /\ UNCHANGED <<db, file>>

RolledBack(i, end) ==
  /\ Release(i)
  /\ draft' = IF writer = i THEN db ELSE draft
  /\ left' = [left EXCEPT ![i] = {}]
  /\ pc' = [pc EXCEPT ![i] = end]

\* Mutant of Reject: the lines before the bad one are committed.
RejectKeep(i) ==
  /\ MayWrite(i)
  /\ \E n \in left[i] : IsNext(i, n) /\ ~Accepted(View(i), file[i][n])
  /\ db' = View(i) /\ draft' = View(i)
  /\ writer' = Nil
  /\ left' = [left EXCEPT ![i] = {}]
  /\ pc' = [pc EXCEPT ![i] = "rejected"]
  /\ UNCHANGED file

\* A constraint fails or the kind is unsupported: the exception leaves `with'.
Reject(i) ==
  /\ MayWrite(i)
  /\ \E n \in left[i] : IsNext(i, n) /\ ~Accepted(View(i), file[i][n])
  /\ RolledBack(i, "rejected")

Execute(i) ==
  /\ MayWrite(i)
  /\ \E n \in left[i] :
       /\ IsNext(i, n)
       /\ Accepted(View(i), file[i][n])
       /\ draft' = Import(View(i), file[i][n])
       /\ left' = [left EXCEPT ![i] = @ \ {n}]
  /\ writer' = i
  /\ UNCHANGED <<db, file, pc>>

\* `with connect' commits; a file without records never opened a transaction.
Commit(i) ==
  /\ pc[i] = "open" /\ left[i] = {}
  /\ db' = View(i)
  /\ writer' = IF writer = i THEN Nil ELSE writer
  /\ pc' = [pc EXCEPT ![i] = "done"]
  /\ UNCHANGED <<draft, file, left>>

\* "database is locked" after the busy timeout: for the first statement when
\* another importer holds the lock, for the commit when a reader is active.
Busy(i) ==
  /\ "busy" \in Faults
  /\ pc[i] = "open"
  /\ writer \notin {i, Nil} \/ (writer = i /\ left[i] = {})
  /\ RolledBack(i, "busy")

\* The process dies; the next connection rolls the journal back.
Crash(i) ==
  /\ "crash" \in Faults
  /\ pc[i] = "open"
  /\ RolledBack(i, "dead")

Step(i) == Read(i) \/ Execute(i) \/ Reject(i) \/ Commit(i)

Next == \E i \in Importers : Step(i) \/ Busy(i) \/ Crash(i)

Spec == Init /\ [][Next]_vars

\* A started import goes on when its statement can: it waits for nothing but
\* the write lock.  That the wait ends in a timeout is not assumed.
FairSpec == Spec /\ \A i \in Importers : WF_vars(Step(i))
-----------------------------------------------------------------------------
(* Properties *)

Imported == [i \in Importers |-> IF pc[i] = "done" THEN file[i] ELSE Nil]

Atomic == INSTANCE AtomicStore WITH imported <- Imported

\* Every commit is the import of the importer's whole file on what was committed
\* before: no half file, no lost import of a concurrent process, the last of two
\* lines about a key wins and the order of other lines does not matter.
AtomicSpec == Atomic!Spec

\* A file is rejected only when it is wrong as a whole: an order of its lines
\* that puts a link or a run before the asset it needs is no reason.
RejectedForCause ==
  [][\A i \in Importers :
       pc[i] = "open" /\ pc'[i] = "rejected" => ~Atomic!Acceptable(db, file[i])]_vars

\* The committed database is consistent: its references resolve, what an asset
\* says is one of its revisions.
Consistent == ReferencesResolve(db) /\ CurrentIsRevision(db)

\* Whatever is imported, revisions stay as they were recorded, and a run stays
\* with the obligation it was first recorded for.
NothingIsLost == [][Keeps(db, db')]_vars

\* An import that was started ends, whoever else imports, fails or dies
\* meanwhile: the write lock is always released.
ImportEnds == \A i \in Importers : pc[i] = "open" ~> pc[i] # "open"
=============================================================================
