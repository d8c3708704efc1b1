----------------------------- MODULE OracleLab -----------------------------
(***************************************************************************)
(* The oracles at work: a transaction of the product under test, which may *)
(* have a defect, an observer that collects a payload while the product    *)
(* goes on, and the verdict.  The transaction commits its primary, then    *)
(* its secondaries one by one; a reader of a locked key resolves it by the *)
(* primary.  Locks are checked the same way: a cleanup that was delayed    *)
(* arrives at a key whose lock may have a newer owner.                     *)
(***************************************************************************)
EXTENDS Oracles

CONSTANTS
  Primary,   \* the primary key of the transaction
  Regions,   \* regions the keys are in
  TxnDefects, \* what the product may do wrong with a transaction: of "none",
             \* "torn", "answer", "timestamp", "index", "replay", "mode"
  LockDefects \* what it may do wrong with a lock: of "none", "cleanup"

ASSUME PrimaryAssumption == Primary \in Keys

\* A missing field looks like nothing an observer writes down.
ASSUME NilAssumption ==
  Nil \notin Observation \cup Poisoned \cup
            {"absent", "locked", "committed", "other", "success", "failure", "undetermined",
             "async", "2pc", "old", "new"}

VARIABLES
  subject,  \* what the schedule is about: a transaction or a lock
  defect,   \* what the product does wrong in this behaviour
  key,      \* the durable status of each key, with its timestamp and mode
  mode,     \* the protocol the transaction uses now
  lock,     \* the owner of the contended lock
  truth,    \* what happened to the lock, unseen
  payload,  \* the evidence collected
  verdict   \* the verdict of the oracle

vars == <<subject, defect, key, mode, lock, truth, payload, verdict>>

Committed(k) == key[k].status = "committed"
Decided == key[Primary].status \in {"committed", "rolled_back"}
Record(status, ts) == [status |-> status, ts |-> ts, mode |-> mode]
-----------------------------------------------------------------------------
(* The transaction *)

Product == UNCHANGED <<subject, defect, lock, truth, verdict>>

Prewrite(k) ==
  /\ subject = "txn" /\ key[k].status = "absent" /\ ~Decided
  /\ key' = [key EXCEPT ![k] = Record("locked", 0)]
  /\ payload' = [payload EXCEPT !.prefix = IF mode = "async" THEN @ \cup {k} ELSE @]
  /\ UNCHANGED mode /\ Product

\* The protocol falls back; the keys that are there follow, or one is forgotten.
FallBack ==
  /\ subject = "txn" /\ mode = "async" /\ ~Decided
  /\ mode' = "2pc"
  /\ key' = [k \in Keys |-> IF key[k].status = "locked" /\ defect = "mode" THEN key[k] ELSE [key[k] EXCEPT !.mode = "2pc"]]
  /\ payload' = [payload EXCEPT !.fallback = TRUE]
  /\ Product

CommitPrimary ==
  /\ subject = "txn" /\ \A k \in Keys : key[k].status = "locked"
  /\ key' = [key EXCEPT ![Primary].status = "committed", ![Primary].ts = 1]
  /\ payload' = [payload EXCEPT !.duplicates = IF defect = "replay" THEN 2 ELSE 1]
  /\ UNCHANGED mode /\ Product

RollBackPrimary ==
  /\ subject = "txn" /\ ~Decided
  /\ key' = [key EXCEPT ![Primary].status = "rolled_back"]
  /\ UNCHANGED <<mode, payload>> /\ Product

\* A secondary takes the outcome of its primary.
Resolved(k) ==
  IF Committed(Primary) /\ defect # "torn"
  THEN [key[k] EXCEPT !.status = "committed", !.ts = IF defect = "timestamp" THEN 2 ELSE 1]
  ELSE [key[k] EXCEPT !.status = "rolled_back"]

ResolveSecondary(k) ==
  /\ subject = "txn" /\ Decided /\ k # Primary /\ key[k].status \in {"absent", "locked"}
  /\ key' = [key EXCEPT ![k] = Resolved(k)]
  /\ UNCHANGED <<mode, payload>> /\ Product

\* The client is told the outcome, or never knows it: the response is lost or late,
\* and the schedule may have seen that the request was applied before.
Respond ==
  /\ subject = "txn" /\ payload.terminal = Nil
  /\ \/ /\ Decided
        /\ payload' = [payload EXCEPT !.terminal =
                         IF Committed(Primary) = (defect # "answer") THEN "success" ELSE "failure"]
     \/ \E applied \in {FALSE, Committed(Primary)} :
          payload' = [payload EXCEPT !.terminal = "undetermined", !.suppressed = TRUE, !.applied = applied]
  /\ UNCHANGED <<key, mode>> /\ Product

\* What is written down of a key, without what was not read of it.
Seen(read, stored, unread) ==
  [visible |-> read.status = "committed", status |-> IF unread = "status" THEN Nil ELSE stored.status,
   ts |-> stored.ts, mode |-> IF unread = "mode" THEN Nil ELSE stored.mode, agree |-> defect # "index"]

\* The observer reads a key in a fresh session, which resolves its lock, and its
\* status in the store, before or after that.
Observe(k) ==
  /\ subject = "txn" /\ payload.terminal # Nil /\ payload.keys[k] = Nil /\ verdict = Nil
  /\ LET read == IF key[k].status = "locked" /\ Decided THEN Resolved(k) ELSE key[k]
     IN  /\ key' = [key EXCEPT ![k] = read]
         /\ \E stored \in {key[k], read}, unread \in {"nothing", "status", "mode"} :
              /\ payload' = [payload EXCEPT !.keys[k] = Seen(read, stored, unread)]
              /\ truth' = [truth EXCEPT !.raw = @ \/ stored.status = "locked", !.early = @ \/ ~Decided]
  /\ UNCHANGED <<subject, defect, mode, lock, verdict>>

\* The observer learns the protocol the transaction has, of no key in particular.
ReadMode ==
  /\ subject = "txn" /\ payload.terminal # Nil /\ payload.resolved = Nil /\ verdict = Nil
  /\ payload' = [payload EXCEPT !.resolved = mode]
  /\ truth' = [truth EXCEPT !.early = @ \/ ~Decided]
  /\ UNCHANGED <<subject, defect, key, mode, lock, verdict>>
-----------------------------------------------------------------------------
(* The lock *)

Contend == UNCHANGED <<subject, defect, key, mode, verdict>>

NewOwner ==
  /\ subject = "lock" /\ lock \in {"old", Nil} /\ ~truth.owned
  /\ lock' = "new"
  /\ truth' = [truth EXCEPT !.owned = TRUE]
  /\ UNCHANGED payload /\ Contend

WitnessNewOwner ==
  /\ subject = "lock" /\ lock = "new" /\ payload.new = Nil
  /\ payload' = [payload EXCEPT !.new = "new", !.ordered = ~payload.cleaned]
  /\ UNCHANGED <<lock, truth>> /\ Contend

\* The delayed cleanup is for the old lock.
Cleanup ==
  /\ subject = "lock" /\ ~payload.cleaned
  /\ LET removes == lock = "old" \/ (lock = "new" /\ defect = "cleanup")
     IN  /\ lock' = IF removes THEN Nil ELSE lock
         /\ truth' = [truth EXCEPT !.late = truth.owned, !.destroyed = (removes /\ lock = "new")]
  /\ payload' = [payload EXCEPT !.cleaned = TRUE]
  /\ Contend

\* The owner of the new lock commits, or fails for a reason of its own; when its
\* lock is gone it may still succeed, if nobody wrote the key, or be told anything.
Consume ==
  /\ subject = "lock" /\ truth.owned /\ payload.consumer = Nil
  /\ \E outcome \in {"committed", "other"} \cup (IF lock = "new" THEN {} ELSE Poisoned) :
       payload' = [payload EXCEPT !.consumer = outcome]
  /\ lock' = Nil
  /\ UNCHANGED truth /\ Contend

ReadLock ==
  /\ subject = "lock" /\ payload.cleaned /\ ~truth.read
  /\ payload' = [payload EXCEPT !.after = lock]
  /\ truth' = [truth EXCEPT !.read = TRUE, !.inTime = (payload.consumer = Nil)]
  /\ UNCHANGED lock /\ Contend
-----------------------------------------------------------------------------
(* evaluate *)

\* The oracle a schedule asks for judges what the observer has by then.
Judge(name) ==
  /\ verdict = Nil
  /\ subject = "txn" => payload.terminal # Nil
  /\ \/ name = "terminal_mvcc_truth" /\ subject = "txn" /\ verdict' = <<name, terminal_mvcc_truth(payload)>>
     \/ name = "protocol_atomic_keyset" /\ subject = "txn" /\ verdict' = <<name, protocol_atomic_keyset(payload)>>
     \/ name = "lock_generation_survival" /\ subject = "lock" /\ verdict' = <<name, lock_generation_survival(payload)>>
  /\ UNCHANGED <<subject, defect, key, mode, lock, truth, payload>>

ORACLES == {"terminal_mvcc_truth", "protocol_atomic_keyset", "lock_generation_survival"}

\* The observer of a lock may have missed the old one.
Init ==
  /\ \/ subject = "txn" /\ defect \in TxnDefects
     \/ subject = "lock" /\ defect \in LockDefects
  /\ mode = "async"
  /\ key = [k \in Keys |-> Record("absent", 0)]
  /\ lock = "old"
  /\ truth = [owned |-> FALSE, late |-> FALSE, destroyed |-> FALSE, read |-> FALSE, inTime |-> FALSE,
              raw |-> FALSE, early |-> FALSE]
  /\ \E old \in IF subject = "lock" THEN {"old", Nil} ELSE {Nil} :
     payload = [terminal |-> Nil, suppressed |-> FALSE, applied |-> FALSE, duplicates |-> 0,
                keys |-> [k \in Keys |-> Nil], resolved |-> Nil, regions |-> Regions, prefix |-> {}, fallback |-> FALSE,
                old |-> old, new |-> Nil, ordered |-> FALSE, cleaned |-> FALSE, after |-> Nil, consumer |-> Nil]
  /\ verdict = Nil

Next ==
  \/ \E k \in Keys : Prewrite(k) \/ ResolveSecondary(k) \/ Observe(k)
  \/ FallBack \/ CommitPrimary \/ RollBackPrimary \/ Respond \/ ReadMode
  \/ NewOwner \/ WitnessNewOwner \/ Cleanup \/ Consume \/ ReadLock
  \/ \E name \in ORACLES : Judge(name)

Spec == Init /\ [][Next]_vars
-----------------------------------------------------------------------------
(* Properties *)

TypeOK ==
  /\ payload.keys \in [Keys -> Observation \cup {Nil}]
  /\ key \in [Keys -> [status : {"absent", "locked", "committed", "rolled_back"}, ts : 0..2, mode : {"async", "2pc"}]]
  /\ lock \in {"old", "new", Nil} /\ mode \in {"async", "2pc"}
  /\ verdict = Nil \/ (verdict[1] \in ORACLES /\ verdict[2] \in Verdicts)

\* What a transaction must be like for its observer to be told GREEN.
OneOutcome ==
  /\ {key[k].status : k \in Keys} \in {{"committed"}, {"absent"}, {"rolled_back"}, {"absent", "rolled_back"}}
  /\ Cardinality({key[k].ts : k \in Keys} \ {0}) <= 1
  /\ defect # "index" /\ payload.duplicates <= 1

\* GREEN is not given by mistake: of a transaction that was decided before it was
\* observed, and of which every key was observed, O56 and O58 say GREEN only when
\* its keys have one outcome, in one protocol, and the client was not told the
\* contrary; of the protocol of a key that was not read, O58 knows nothing.  O57
\* says it only of a cleanup that came after the lock had its new owner: one that
\* came first proves nothing of what cleanups spare.
GreenIsProved ==
  verdict # Nil /\ verdict[2] = "GREEN" =>
    /\ subject = "lock" => truth.late
    /\ subject = "txn" /\ ~truth.early /\ Observed(payload) = Keys =>
         /\ OneOutcome
         /\ verdict[1] = "terminal_mvcc_truth" => payload.terminal \notin {IF Committed(Primary) THEN "failure" ELSE "success"}
         /\ verdict[1] = "protocol_atomic_keyset" /\ (\A k \in Keys : payload.keys[k].mode # Nil) =>
              Cardinality({key[k].mode : k \in Keys}) = 1

\* RED is not given by mistake: an oracle accuses a product without the defect
\* only when the observer looked before the outcome was there, took the status of
\* a key before its lock was resolved, or read the lock after its owner had gone.
RedIsADefect ==
  verdict # Nil /\ verdict[2] = "RED" /\ defect = "none" =>
    IF subject = "txn" THEN truth.early \/ truth.raw ELSE ~truth.inTime

\* docs/core/ai-native-oracle-library.md, O57: "red: F2/different-owner lock
\* disappears, gains a blocking rollback record, or cannot commit."
DestroyedLockIsRed ==
  verdict # Nil /\ subject = "lock" /\ truth.destroyed /\ truth.inTime => verdict[2] # "GREEN"
=============================================================================
