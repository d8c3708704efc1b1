---------------------------- MODULE AtomicStore ----------------------------
(***************************************************************************)
(* What `store.py import' promises: each process imports its file as a     *)
(* whole, once, or not at all.                                             *)
(***************************************************************************)
EXTENDS FileImport

CONSTANTS
  Importers,   \* processes that import one file each
  Files        \* the JSONL files they may be given

VARIABLES
  db,          \* the database
  imported     \* the file each process has imported, or Nil

Init ==
  /\ db = EmptyDatabase
  /\ imported = [i \in Importers |-> Nil]

ImportFile(i, f) ==
  /\ imported[i] = Nil
  /\ imported' = [imported EXCEPT ![i] = f]
  /\ Acceptable(db, f)
  /\ db' = Result(db, f)

Next == \E i \in Importers, f \in Files : ImportFile(i, f)

Spec == Init /\ [][Next]_<<db, imported>>
=============================================================================
