-------------------------- MODULE OracleLabProofs --------------------------
(***************************************************************************)
(* Theorems about OracleLab, for every set of keys and of defects, and     *)
(* every number of regions: no oracle says GREEN or RED by mistake,        *)
(* whatever the product does while the evidence is collected and after     *)
(* the verdict.                                                            *)
(***************************************************************************)
EXTENDS OracleLab, Integers, FiniteSetTheorems, TLAPS

USE PrimaryAssumption, NilAssumption
-----------------------------------------------------------------------------
(* The invariant *)

KeyRecords == [status : {"absent", "locked", "committed", "rolled_back"}, ts : 0..2, mode : {"async", "2pc"}]
Outcomes == {"committed", "other"} \cup Poisoned
TruthRecords ==
  [owned : BOOLEAN, late : BOOLEAN, destroyed : BOOLEAN, read : BOOLEAN, inTime : BOOLEAN,
   raw : BOOLEAN, early : BOOLEAN]
PayloadRecords ==
  [terminal : {"success", "failure", "undetermined", Nil}, suppressed : BOOLEAN, applied : BOOLEAN,
   duplicates : 0..2, keys : [Keys -> Observation \cup {Nil}], regions : {Regions}, prefix : SUBSET Keys,
   resolved : {"async", "2pc", Nil}, fallback : BOOLEAN, old : {"old", Nil}, new : {"new", Nil}, ordered : BOOLEAN, cleaned : BOOLEAN,
   after : {"old", "new", Nil}, consumer : Outcomes \cup {Nil}]

LabTyped ==
  /\ subject \in {"txn", "lock"}
  /\ key \in [Keys -> KeyRecords]
  /\ mode \in {"async", "2pc"}
  /\ lock \in {"old", "new", Nil}
  /\ truth \in TruthRecords
  /\ payload \in PayloadRecords
  /\ verdict = Nil \/ (verdict[1] \in ORACLES /\ verdict[2] \in Verdicts)

\* The keys follow their primary.
KeysFollow ==
  /\ \A k \in Keys : key[k].status # "committed" => key[k].ts = 0
  /\ \A k \in Keys : key[k].status = "committed" => Committed(Primary)
  /\ \A k \in Keys : Committed(Primary) => key[k].status # "absent"

\* Without a defect they follow it to the end, in one protocol, and the client is
\* told what became of it.
Faithful ==
  defect = "none" =>
    /\ \A k \in Keys : /\ Committed(Primary) => key[k].status \in {"locked", "committed"}
                       /\ Committed(k) => key[k].ts = 1
                       /\ key[k].mode = mode
    /\ payload.terminal = "success" => Committed(Primary)
    /\ payload.terminal = "failure" => Decided /\ ~Committed(Primary)
    /\ payload.duplicates <= 1

\* What an observation o of a key in state x shows.
Shows(o, x) ==
  /\ o.visible => x.status = "committed"
  /\ ~o.visible => x.status \in {"absent", "rolled_back"}
  /\ o.status = "locked" => truth.raw
  /\ o.status \notin {"locked", Nil} => (o.visible <=> o.status = "committed")
  /\ o.status # Nil => o.ts = IF o.status = "committed" THEN x.ts ELSE 0
  /\ o.mode \in {x.mode, Nil}
  /\ o.agree <=> defect # "index"

\* Observations of a decided transaction stay true, that of its mode included.
SeenOK ==
  ~truth.early =>
    /\ \A k \in Observed(payload) : Decided /\ Shows(payload.keys[k], key[k])
    /\ payload.resolved # Nil => Decided /\ payload.resolved = mode

\* Who has the lock, by what the schedule has done so far.
LockOK ==
  /\ payload.ordered => truth.owned
  /\ payload.ordered /\ payload.cleaned => truth.late
  /\ lock = "new" \/ truth.late => truth.owned
  /\ truth.inTime => truth.read
  /\ truth.read => payload.cleaned
  /\ payload.consumer # Nil => truth.owned
  /\ defect = "none" =>
       /\ truth.owned /\ payload.consumer = Nil => lock = "new"
       /\ payload.consumer \notin Poisoned
       /\ truth.inTime /\ truth.late => payload.after = "new"

\* What a verdict rested on is still there.
Proves(p, name) ==
  /\ ~Torn(p) /\ Settled(p) /\ ~Untold(p)
  /\ name = "terminal_mvcc_truth" => ~Contradicted(p)
  /\ name = "protocol_atomic_keyset" => ~(Cardinality(Modes(p)) > 1)

JudgedOK ==
  verdict # Nil =>
    /\ subject = "txn" => payload.terminal # Nil
    /\ subject = "txn" /\ verdict[2] = "GREEN" /\ ~truth.early /\ Observed(payload) = Keys =>
         Proves(payload, verdict[1])
    /\ subject = "txn" /\ verdict[2] = "RED" /\ defect = "none" => truth.early \/ truth.raw
    /\ subject = "lock" /\ verdict[2] = "GREEN" => truth.late /\ payload.cleaned
    /\ subject = "lock" /\ verdict[2] = "RED" /\ defect = "none" => ~truth.inTime /\ payload.consumer # Nil

LabInv == LabTyped /\ KeysFollow /\ Faithful /\ SeenOK /\ LockOK /\ JudgedOK

-----------------------------------------------------------------------------
(* Types *)

\* What a key is like once it is committed.
CommittedAt(x, n) == [x EXCEPT !.status = "committed", !.ts = n]

\* A key that commits keeps the protocol it was prewritten in.
LEMMA Commits ==
  ASSUME NEW x \in KeyRecords, NEW n \in 0..2
  PROVE  /\ CommittedAt(x, n) \in KeyRecords
         /\ CommittedAt(x, n).status = "committed"
         /\ CommittedAt(x, n).ts = n
         /\ CommittedAt(x, n).mode = x.mode
<1> DEFINE s == [x EXCEPT !.status = "committed"]
<1>1. s \in KeyRecords /\ s.status = "committed" /\ s.mode = x.mode  BY DEF KeyRecords
<1>2. CommittedAt(x, n) = [s EXCEPT !.ts = n]  BY DEF CommittedAt
<1> HIDE DEF s
<1> QED  BY <1>1, <1>2 DEF KeyRecords

\* What a key is like once it is rolled back.
LEMMA RollsBack ==
  ASSUME NEW x \in KeyRecords, NEW r, r = [x EXCEPT !.status = "rolled_back"]
  PROVE  r \in KeyRecords /\ r.status = "rolled_back" /\ r.ts = x.ts /\ r.mode = x.mode
  BY DEF KeyRecords

\* What a secondary is like once it has followed its primary.
LEMMA ResolvedIsKey ==
  ASSUME LabTyped, NEW k \in Keys
  PROVE  /\ Resolved(k) \in KeyRecords
         /\ Resolved(k).mode = key[k].mode
         /\ IF Committed(Primary) /\ defect # "torn"
            THEN Resolved(k).status = "committed" /\ (defect = "none" => Resolved(k).ts = 1)
            ELSE Resolved(k).status = "rolled_back" /\ Resolved(k).ts = key[k].ts
<1>1. key[k] \in KeyRecords  BY DEF LabTyped
<1> DEFINE n == IF defect = "timestamp" THEN 2 ELSE 1
<1>2. n \in 0..2 /\ (defect = "none" => n = 1)  OBVIOUS
<1>3. Resolved(k) = IF Committed(Primary) /\ defect # "torn"
                    THEN [key[k] EXCEPT !.status = "committed", !.ts = n]
                    ELSE [key[k] EXCEPT !.status = "rolled_back"]
  BY DEF Resolved
<1> HIDE DEF n
<1>4. CASE Committed(Primary) /\ defect # "torn"
  <2>1. Resolved(k) = CommittedAt(key[k], n)  BY <1>3, <1>4 DEF CommittedAt
  <2>2. /\ Resolved(k) \in KeyRecords /\ Resolved(k).status = "committed"
        /\ Resolved(k).ts = n /\ Resolved(k).mode = key[k].mode
    BY <1>1, <1>2, <2>1, Commits
  <2> QED  BY <1>2, <1>4, <2>2
<1>5. CASE ~(Committed(Primary) /\ defect # "torn")
  <2>1. Resolved(k) = [key[k] EXCEPT !.status = "rolled_back"]  BY <1>3, <1>5
  <2>2. /\ Resolved(k) \in KeyRecords /\ Resolved(k).status = "rolled_back"
        /\ Resolved(k).ts = key[k].ts /\ Resolved(k).mode = key[k].mode
    BY <1>1, <2>1, RollsBack
  <2> QED  BY <1>5, <2>2
<1> QED  BY <1>4, <1>5

\* The schedule starts typed.
LEMMA InitTyped == Init => LabTyped
<1>1. ASSUME Init  PROVE payload \in PayloadRecords
  BY <1>1 DEF Init, PayloadRecords
<1>2. ASSUME Init  PROVE truth \in TruthRecords
  BY <1>2 DEF Init, TruthRecords
<1>3. ASSUME Init  PROVE key \in [Keys -> KeyRecords] /\ mode \in {"async", "2pc"}
  BY <1>3 DEF Init, Record, KeyRecords
<1> QED  BY <1>1, <1>2, <1>3 DEF Init, LabTyped

\* The steps of the transaction keep the types.
LEMMA TxnTyped ==
  ASSUME LabTyped,
         \/ \E k \in Keys : Prewrite(k) \/ ResolveSecondary(k)
         \/ FallBack \/ CommitPrimary \/ RollBackPrimary \/ Respond
  PROVE  LabTyped'
<1>1. CASE \E k \in Keys : Prewrite(k)
  <2>1. PICK k \in Keys : Prewrite(k)  BY <1>1
  <2>2. key' \in [Keys -> KeyRecords]
    BY <2>1 DEF Prewrite, LabTyped, Record, KeyRecords
  <2>3. payload' \in PayloadRecords
    BY <2>1 DEF Prewrite, LabTyped, PayloadRecords
  <2> QED  BY <2>1, <2>2, <2>3 DEF Prewrite, Product, LabTyped
<1>2. CASE \E k \in Keys : ResolveSecondary(k)
  <2>1. PICK k \in Keys : ResolveSecondary(k)  BY <1>2
  <2>2. key' \in [Keys -> KeyRecords]
    BY <2>1, ResolvedIsKey DEF ResolveSecondary, LabTyped
  <2> QED  BY <2>1, <2>2 DEF ResolveSecondary, Product, LabTyped
<1>3. CASE FallBack
  <2>1. ASSUME NEW k \in Keys  PROVE [key[k] EXCEPT !.mode = "2pc"] \in KeyRecords /\ key[k] \in KeyRecords
    BY DEF LabTyped, KeyRecords
  <2>2. key' \in [Keys -> KeyRecords]  BY <1>3, <2>1 DEF FallBack
  <2>3. payload' \in PayloadRecords  BY <1>3 DEF FallBack, LabTyped, PayloadRecords
  <2> QED  BY <1>3, <2>2, <2>3 DEF FallBack, Product, LabTyped
<1>4. CASE CommitPrimary
  <2>1. key' = [key EXCEPT ![Primary] = CommittedAt(@, 1)]
    BY <1>4 DEF CommitPrimary, LabTyped, CommittedAt
  <2>2. key' \in [Keys -> KeyRecords]  BY <2>1, Commits DEF LabTyped
  <2>3. payload' \in PayloadRecords  BY <1>4 DEF CommitPrimary, LabTyped, PayloadRecords
  <2> QED  BY <1>4, <2>2, <2>3 DEF CommitPrimary, Product, LabTyped
<1>5. CASE RollBackPrimary
  <2>2. key' \in [Keys -> KeyRecords]  BY <1>5 DEF RollBackPrimary, LabTyped, KeyRecords
  <2> QED  BY <1>5, <2>2 DEF RollBackPrimary, Product, LabTyped
<1>6. CASE Respond
  <2>1. ASSUME NEW t \in {"success", "failure"}, payload' = [payload EXCEPT !.terminal = t]
        PROVE  payload' \in PayloadRecords
    BY <2>1 DEF LabTyped, PayloadRecords
  <2>2. ASSUME NEW a \in BOOLEAN,
               payload' = [payload EXCEPT !.terminal = "undetermined", !.suppressed = TRUE, !.applied = a]
        PROVE  payload' \in PayloadRecords
    BY <2>2 DEF LabTyped, PayloadRecords
  <2>3. Committed(Primary) \in BOOLEAN  BY DEF Committed
  <2>4. payload' \in PayloadRecords  BY <1>6, <2>1, <2>2, <2>3 DEF Respond
  <2> QED  BY <1>6, <2>4 DEF Respond, Product, LabTyped
<1> QED  BY <1>1, <1>2, <1>3, <1>4, <1>5, <1>6

\* An observation keeps the types.
LEMMA ObserveTyped ==
  ASSUME LabTyped, NEW k \in Keys, Observe(k)
  PROVE  LabTyped'
<1> DEFINE read == IF key[k].status = "locked" /\ Decided THEN Resolved(k) ELSE key[k]
<1>1. key[k] \in KeyRecords /\ read \in KeyRecords  BY ResolvedIsKey DEF LabTyped
<1>0. PICK stored \in {key[k], read} :
        \E unread \in {"nothing", "status", "mode"} :
          /\ payload' = [payload EXCEPT !.keys[k] = Seen(read, stored, unread)]
          /\ truth' = [truth EXCEPT !.raw = @ \/ stored.status = "locked", !.early = @ \/ ~Decided]
  BY DEF Observe
<1>2. PICK unread \in {"nothing", "status", "mode"} :
          /\ payload' = [payload EXCEPT !.keys[k] = Seen(read, stored, unread)]
          /\ truth' = [truth EXCEPT !.raw = @ \/ stored.status = "locked", !.early = @ \/ ~Decided]
  BY <1>0
<1>3. key' = [key EXCEPT ![k] = read]  BY DEF Observe
<1>a. UNCHANGED <<subject, defect, mode, lock, verdict>>  BY DEF Observe
<1> HIDE DEF read
<1>4. stored \in KeyRecords  BY <1>1
<1>5. key' \in [Keys -> KeyRecords]  BY <1>1, <1>3 DEF LabTyped
<1> DEFINE o == Seen(read, stored, unread)
<1>6. o \in Observation  BY <1>4 DEF KeyRecords, Observation, Seen
<1>7. payload' = [payload EXCEPT !.keys[k] = o]  BY <1>2
<1> HIDE DEF o
<1>8. payload' \in PayloadRecords  BY <1>6, <1>7 DEF LabTyped, PayloadRecords
<1>9. truth' \in TruthRecords
  <2>1. Decided \in BOOLEAN  BY DEF Decided
  <2> QED  BY <1>2, <2>1 DEF LabTyped, TruthRecords
<1> QED  BY <1>a, <1>5, <1>8, <1>9 DEF LabTyped

\* The steps of the lock keep the types.
LEMMA LockTyped ==
  ASSUME LabTyped, NewOwner \/ WitnessNewOwner \/ Cleanup \/ Consume \/ ReadLock
  PROVE  LabTyped'
<1>1. CASE NewOwner
  <2>1. truth' \in TruthRecords  BY <1>1 DEF NewOwner, LabTyped, TruthRecords
  <2>2. lock' = "new" /\ UNCHANGED <<payload, subject, defect, key, mode, verdict>>
    BY <1>1 DEF NewOwner, Contend
  <2> QED  BY <2>1, <2>2 DEF LabTyped
<1>2. CASE WitnessNewOwner
  <2>3. ASSUME NEW x \in PayloadRecords, NEW b \in BOOLEAN
        PROVE  [x EXCEPT !.new = "new", !.ordered = b] \in PayloadRecords
    <3> DEFINE y == [x EXCEPT !.new = "new"]
    <3>1. y \in PayloadRecords  BY DEF PayloadRecords
    <3> HIDE DEF y
    <3>2. [y EXCEPT !.ordered = b] \in PayloadRecords  BY <3>1 DEF PayloadRecords
    <3> QED  BY <3>2 DEF y
  <2>4. (~payload.cleaned) \in BOOLEAN  OBVIOUS
  <2>1. payload' \in PayloadRecords  BY <1>2, <2>3, <2>4 DEF WitnessNewOwner, LabTyped
  <2> QED  BY <1>2, <2>1 DEF WitnessNewOwner, Contend, LabTyped
<1>3. CASE Cleanup
  <2>1. payload' \in PayloadRecords  BY <1>3 DEF Cleanup, LabTyped, PayloadRecords
  <2>2. truth' \in TruthRecords  BY <1>3 DEF Cleanup, LabTyped, TruthRecords
  <2>3. lock' \in {"old", "new", Nil}  BY <1>3 DEF Cleanup, LabTyped
  <2> QED  BY <1>3, <2>1, <2>2, <2>3 DEF Cleanup, Contend, LabTyped
<1>4. CASE Consume
  <2>1. PICK outcome \in Outcomes : payload' = [payload EXCEPT !.consumer = outcome]
    BY <1>4 DEF Consume, Outcomes
  <2>2. payload' \in PayloadRecords  BY <2>1 DEF LabTyped, PayloadRecords
  <2> QED  BY <1>4, <2>2 DEF Consume, Contend, LabTyped
<1>5. CASE ReadLock
  <2>1. payload' \in PayloadRecords  BY <1>5 DEF ReadLock, LabTyped, PayloadRecords
  <2>2. truth' \in TruthRecords  BY <1>5 DEF ReadLock, LabTyped, TruthRecords
  <2> QED  BY <1>5, <2>1, <2>2 DEF ReadLock, Contend, LabTyped
<1> QED  BY <1>1, <1>2, <1>3, <1>4, <1>5

\* The oracles give one of the three verdicts.
LEMMA JudgeTyped ==
  ASSUME LabTyped, NEW name \in ORACLES, Judge(name)
  PROVE  LabTyped'
<1>1. \A invalid, red, settled \in BOOLEAN : Verdict(invalid, red, settled) \in Verdicts
  BY DEF Verdict, Verdicts
<1>2. verdict'[1] \in ORACLES /\ verdict'[2] \in Verdicts
  <2>1. ASSUME NEW p  PROVE /\ terminal_mvcc_truth(p) \in Verdicts
                            /\ protocol_atomic_keyset(p) \in Verdicts
                            /\ lock_generation_survival(p) \in Verdicts
    BY DEF terminal_mvcc_truth, protocol_atomic_keyset, lock_generation_survival, Verdict, Verdicts
  <2> QED  BY <2>1 DEF Judge
<1> QED  BY <1>2 DEF Judge, LabTyped
-----------------------------------------------------------------------------
(* What a step leaves alone *)

\* Nothing about the lock has changed.
SameLock ==
  /\ lock' = lock /\ defect' = defect
  /\ \A f \in {"owned", "late", "read", "inTime"} : truth'[f] = truth[f]
  /\ \A f \in {"ordered", "cleaned", "consumer", "old", "after"} : payload'[f] = payload[f]

\* Nothing that was seen of the transaction has changed.
SameSeen ==
  /\ subject' = subject /\ defect' = defect /\ verdict' = verdict
  /\ payload'.keys = payload.keys /\ payload'.resolved = payload.resolved
  /\ truth'.early = truth.early /\ truth'.raw = truth.raw

\* Nor anything else the oracles judge it by.
SameEvidence ==
  /\ SameSeen
  /\ payload'.terminal = payload.terminal /\ payload'.duplicates = payload.duplicates

\* The custody of the lock depends on nothing else.
LEMMA LockStays == LockOK /\ SameLock => LockOK'
  BY DEF LockOK, SameLock

\* An oracle that judged the same evidence would say the same.
LEMMA SameProof ==
  ASSUME NEW name, NEW p, NEW q,
         p.keys = q.keys, p.resolved = q.resolved, p.duplicates = q.duplicates, p.terminal = q.terminal
  PROVE  Proves(p, name) <=> Proves(q, name)
<1>1. Observed(p) = Observed(q)  BY DEF Observed
<1>2. Statuses(p) = Statuses(q) /\ Modes(p) = Modes(q)  BY <1>1 DEF Statuses, Modes
<1>3. (AllVisible(p) <=> AllVisible(q)) /\ (NoneVisible(p) <=> NoneVisible(q))
  BY <1>1 DEF AllVisible, NoneVisible
<1>4. (AllCommitted(p) <=> AllCommitted(q)) /\ (AllAbsent(p) <=> AllAbsent(q))
  BY <1>2 DEF AllCommitted, AllAbsent
<1>5. {p.keys[k].ts : k \in Observed(p)} = {q.keys[k].ts : k \in Observed(q)}  BY <1>1
<1>6. Torn(p) <=> Torn(q)
  <2>1. (\E k \in Observed(p) : ~p.keys[k].agree) <=> (\E k \in Observed(q) : ~q.keys[k].agree)
    BY <1>1
  <2> QED  BY <1>2, <1>3, <1>5, <2>1 DEF Torn
<1>7. (Settled(p) <=> Settled(q)) /\ (Untold(p) <=> Untold(q))  BY <1>1, <1>3, <1>4 DEF Settled, Untold
<1>8. Contradicted(p) <=> Contradicted(q)  BY <1>3, <1>4 DEF Contradicted
<1> QED  BY <1>2, <1>6, <1>7, <1>8 DEF Proves

\* A verdict stays good while its evidence and the lock do.
LEMMA JudgedStays ==
  ASSUME JudgedOK, SameEvidence, SameLock
  PROVE  JudgedOK'
<1>1. ASSUME NEW name  PROVE Proves(payload', name) <=> Proves(payload, name)
  BY SameProof DEF SameEvidence, SameSeen
<1>2. Observed(payload') = Observed(payload)  BY DEF Observed, SameEvidence, SameSeen
<1>3. /\ truth'.late = truth.late /\ truth'.inTime = truth.inTime
      /\ payload'.cleaned = payload.cleaned /\ payload'.consumer = payload.consumer
      /\ truth'.early = truth.early /\ truth'.raw = truth.raw
      /\ subject' = subject /\ defect' = defect /\ verdict' = verdict
      /\ payload'.terminal = payload.terminal
  BY DEF SameLock, SameEvidence, SameSeen
<1> QED  BY <1>1, <1>2, <1>3 DEF JudgedOK

\* The transaction goes on behind a verdict on a lock.
LEMMA TxnStays ==
  ASSUME KeysFollow, Faithful, SeenOK, SameEvidence, UNCHANGED <<key, mode>>
  PROVE  KeysFollow' /\ Faithful' /\ SeenOK'
<1>1. KeysFollow'  BY DEF KeysFollow, Committed
<1>2. Faithful'  BY DEF Faithful, Committed, Decided, SameEvidence, SameSeen
<1>3. Observed(payload') = Observed(payload)  BY DEF Observed, SameEvidence, SameSeen
<1>4. SeenOK'  BY <1>3 DEF SeenOK, Shows, Decided, SameEvidence, SameSeen
<1> QED  BY <1>1, <1>2, <1>4

\* Before the outcome, whoever observed a key observed it early.
LEMMA NotYet ==
  ASSUME SeenOK, ~Decided, SameSeen
  PROVE  SeenOK'
<1>1. truth.early \/ (Observed(payload) = {} /\ payload.resolved = Nil)  BY DEF SeenOK
<1>2. Observed(payload') = Observed(payload)  BY DEF Observed, SameSeen
<1> QED  BY <1>1, <1>2 DEF SeenOK, SameSeen
-----------------------------------------------------------------------------
(* The transaction *)

\* A prewrite changes no outcome.
LEMMA PrewriteKeeps ==
  ASSUME LabInv, NEW k \in Keys, Prewrite(k)
  PROVE  KeysFollow' /\ Faithful' /\ SeenOK' /\ SameEvidence /\ SameLock
<1> USE DEF LabInv
<1>1. SameEvidence /\ SameLock
  BY DEF Prewrite, Product, SameEvidence, SameSeen, SameLock, LabTyped, PayloadRecords
<1>2. /\ key'[k].status = "locked" /\ key'[k].ts = 0 /\ key'[k].mode = mode
      /\ \A j \in Keys \ {k} : key'[j] = key[j]
  BY DEF Prewrite, Record, LabTyped
<1>3. ~Decided /\ mode' = mode /\ defect' = defect  BY DEF Prewrite, Product
<1>4. SeenOK'  BY <1>1, <1>3, NotYet DEF SameEvidence
<1>5. ~Committed(Primary) /\ ~Committed(Primary)'  BY <1>2, <1>3 DEF Decided, Committed
<1>6. KeysFollow'  BY <1>2, <1>5 DEF KeysFollow, Committed
<1>7. Faithful'
  <2>1. defect = "none" => payload.terminal \notin {"success", "failure"}
    BY <1>3, <1>5 DEF Faithful
  <2> QED  BY <1>1, <1>2, <1>3, <1>5, <1>6, <2>1 DEF Faithful, KeysFollow, Committed, SameEvidence
<1> QED  BY <1>1, <1>4, <1>6, <1>7

\* Nor does the fallback, and every key follows it unless one is forgotten.
LEMMA FallBackKeeps ==
  ASSUME LabInv, FallBack
  PROVE  KeysFollow' /\ Faithful' /\ SeenOK' /\ SameEvidence /\ SameLock
<1> USE DEF LabInv
<1>1. SameEvidence /\ SameLock
  BY DEF FallBack, Product, SameEvidence, SameSeen, SameLock, LabTyped, PayloadRecords
<1>2. ASSUME NEW j \in Keys
      PROVE  /\ key'[j].status = key[j].status /\ key'[j].ts = key[j].ts
             /\ defect = "none" => key'[j].mode = "2pc"
  <2>1. key[j] \in KeyRecords  BY DEF LabTyped
  <2>2. LET x == [key[j] EXCEPT !.mode = "2pc"]
        IN  x.status = key[j].status /\ x.ts = key[j].ts /\ x.mode = "2pc"
    BY <2>1 DEF KeyRecords
  <2>3. key'[j] = key[j] \/ key'[j] = [key[j] EXCEPT !.mode = "2pc"]  BY DEF FallBack
  <2>4. defect = "none" => key'[j] = [key[j] EXCEPT !.mode = "2pc"]  BY DEF FallBack
  <2> QED  BY <2>2, <2>3, <2>4
<1>3. ~Decided /\ mode' = "2pc" /\ defect' = defect  BY DEF FallBack, Product
<1>4. SeenOK'  BY <1>1, <1>3, NotYet DEF SameEvidence
<1>5. ~Committed(Primary) /\ ~Committed(Primary)'  BY <1>2, <1>3 DEF Decided, Committed
<1>6. KeysFollow'  BY <1>2, <1>5 DEF KeysFollow, Committed
<1>7. Faithful'
  <2>1. defect = "none" => payload.terminal \notin {"success", "failure"}
    BY <1>3, <1>5 DEF Faithful
  <2> QED  BY <1>1, <1>2, <1>3, <1>5, <1>6, <2>1 DEF Faithful, KeysFollow, Committed, SameEvidence
<1> QED  BY <1>1, <1>4, <1>6, <1>7

\* The primary commits when all keys are locked.
LEMMA CommitKeeps ==
  ASSUME LabInv, CommitPrimary
  PROVE  KeysFollow' /\ Faithful' /\ SeenOK' /\ SameLock /\ JudgedOK'
<1> USE DEF LabInv
<1>1. /\ SameSeen /\ SameLock /\ payload'.terminal = payload.terminal
      /\ defect = "none" => payload'.duplicates = 1
  BY DEF CommitPrimary, Product, SameSeen, SameLock, LabTyped, PayloadRecords
<1>2. /\ key'[Primary].status = "committed" /\ key'[Primary].ts = 1 /\ key'[Primary].mode = key[Primary].mode
      /\ \A j \in Keys \ {Primary} : key'[j] = key[j]
  <2>1. key' = [key EXCEPT ![Primary] = CommittedAt(@, 1)]
    BY DEF CommitPrimary, LabTyped, CommittedAt
  <2>2. key[Primary] \in KeyRecords /\ 1 \in 0..2  BY DEF LabTyped
  <2>3. /\ CommittedAt(key[Primary], 1).status = "committed"
        /\ CommittedAt(key[Primary], 1).ts = 1
        /\ CommittedAt(key[Primary], 1).mode = key[Primary].mode
    BY <2>2, Commits
  <2> QED  BY <2>1, <2>3 DEF LabTyped
<1>3. ~Decided /\ mode' = mode /\ defect' = defect /\ \A j \in Keys : key[j].status = "locked"
  BY DEF CommitPrimary, Product, Decided
<1>4. SeenOK'  BY <1>1, <1>3, NotYet
<1>5. ~Committed(Primary) /\ Committed(Primary)'  BY <1>2, <1>3 DEF Decided, Committed
<1>6. KeysFollow'  BY <1>2, <1>3, <1>5 DEF KeysFollow, Committed
<1>7. Faithful'
  <2>1. defect = "none" => payload.terminal \notin {"success", "failure"}
    BY <1>3, <1>5 DEF Faithful
  <2> QED  BY <1>1, <1>2, <1>3, <1>5, <2>1 DEF Faithful, Committed
<1>8. JudgedOK'
  <2>1. truth.early \/ Observed(payload) = {}  BY <1>3 DEF SeenOK
  <2>2. Observed(payload') = Observed(payload)  BY <1>1 DEF Observed, SameSeen
  <2>3. /\ subject' = "txn" /\ subject = "txn"
        /\ verdict' = verdict /\ truth'.early = truth.early /\ truth'.raw = truth.raw
    BY <1>1 DEF SameSeen, CommitPrimary
  <2>4. Keys # {}  OBVIOUS
  <2> QED  BY <1>1, <1>3, <2>1, <2>2, <2>3, <2>4 DEF JudgedOK
<1> QED  BY <1>1, <1>4, <1>6, <1>7, <1>8

\* The primary is rolled back before any key is committed.
LEMMA RollBackKeeps ==
  ASSUME LabInv, RollBackPrimary
  PROVE  KeysFollow' /\ Faithful' /\ SeenOK' /\ SameEvidence /\ SameLock
<1> USE DEF LabInv
<1>1. SameEvidence /\ SameLock
  BY DEF RollBackPrimary, Product, SameEvidence, SameSeen, SameLock
<1>2. /\ key'[Primary].status = "rolled_back" /\ key'[Primary].ts = key[Primary].ts
      /\ key'[Primary].mode = key[Primary].mode
      /\ \A j \in Keys \ {Primary} : key'[j] = key[j]
  <2>1. key' = [key EXCEPT ![Primary] = [@ EXCEPT !.status = "rolled_back"]]
    BY DEF RollBackPrimary, LabTyped
  <2>2. key[Primary] \in KeyRecords /\ 1 \in 0..2  BY DEF LabTyped
  <2> DEFINE r == [key[Primary] EXCEPT !.status = "rolled_back"]
  <2>3. r.status = "rolled_back" /\ r.ts = key[Primary].ts /\ r.mode = key[Primary].mode
    BY <2>2, RollsBack
  <2>4. key' = [key EXCEPT ![Primary] = r]  BY <2>1
  <2> HIDE DEF r
  <2> QED  BY <2>3, <2>4 DEF LabTyped
<1>3. ~Decided /\ mode' = mode /\ defect' = defect  BY DEF RollBackPrimary, Product
<1>4. SeenOK'  BY <1>1, <1>3, NotYet DEF SameEvidence
<1>5. ~Committed(Primary) /\ ~Committed(Primary)'  BY <1>2, <1>3 DEF Decided, Committed
<1>6. KeysFollow'  BY <1>2, <1>5 DEF KeysFollow, Committed
<1>7. Faithful'
  <2>1. defect = "none" => payload.terminal \notin {"success", "failure"}
    BY <1>3, <1>5 DEF Faithful
  <2> QED  BY <1>1, <1>2, <1>3, <1>5, <1>6, <2>1 DEF Faithful, KeysFollow, Committed, SameEvidence
<1> QED  BY <1>1, <1>4, <1>6, <1>7

\* A secondary follows its primary, which does not undo what was seen of it.
LEMMA ResolveKeeps ==
  ASSUME LabInv, NEW k \in Keys, ResolveSecondary(k)
  PROVE  KeysFollow' /\ Faithful' /\ SeenOK' /\ SameEvidence /\ SameLock
<1> USE DEF LabInv
<1>1. SameEvidence /\ SameLock
  BY DEF ResolveSecondary, Product, SameEvidence, SameSeen, SameLock
<1>2. /\ key'[k] = Resolved(k) /\ \A j \in Keys \ {k} : key'[j] = key[j]
      /\ k # Primary /\ key[k].status \in {"absent", "locked"}
      /\ Decided /\ mode' = mode /\ defect' = defect /\ payload' = payload
  BY DEF ResolveSecondary, Product, LabTyped
<1>3. /\ Resolved(k).mode = key[k].mode
      /\ IF Committed(Primary) /\ defect # "torn"
         THEN Resolved(k).status = "committed" /\ (defect = "none" => Resolved(k).ts = 1)
         ELSE Resolved(k).status = "rolled_back" /\ Resolved(k).ts = key[k].ts
  BY ResolvedIsKey
<1>4. (Committed(Primary)' <=> Committed(Primary)) /\ (Decided' <=> Decided)
  BY <1>2 DEF Committed, Decided
<1>5. key[k].ts = 0  BY <1>2 DEF KeysFollow
<1>6. KeysFollow'
  <2>1. key'[k].status # "committed" => key'[k].ts = 0  BY <1>2, <1>3, <1>5
  <2>2. key'[k].status = "committed" => Committed(Primary)  BY <1>2, <1>3
  <2>3. key'[k].status # "absent"  BY <1>2, <1>3
  <2> QED  BY <1>2, <1>4, <2>1, <2>2, <2>3 DEF KeysFollow
<1>7. Faithful'
  <2>1. defect = "none" => Resolved(k).mode = mode  BY <1>3 DEF Faithful
  <2>2. ASSUME defect = "none", NEW j \in Keys
        PROVE  /\ Committed(Primary) => key'[j].status \in {"locked", "committed"}
               /\ key'[j].status = "committed" => key'[j].ts = 1
               /\ key'[j].mode = mode
    <3>1. CASE j = k  BY <1>2, <1>3, <2>1, <2>2, <3>1
    <3>2. CASE j # k  BY <1>2, <2>2, <3>2 DEF Faithful, Committed
    <3> QED  BY <3>1, <3>2
  <2> QED  BY <1>2, <1>4, <2>2 DEF Faithful, Committed
<1>8. SeenOK'
  <2>1. Observed(payload') = Observed(payload)  BY <1>2
  <2> SUFFICES ASSUME ~truth.early, NEW j \in Observed(payload)
               PROVE  Decided' /\ Shows(payload.keys[j], key[j])'
    BY <1>1, <1>2, <1>4, <2>1 DEF SeenOK, SameEvidence, SameSeen
  <2>2. j \in Keys /\ Shows(payload.keys[j], key[j])  BY DEF SeenOK, Observed
  <2>3. Decided'  BY <1>2, <1>4
  <2>4. CASE j # k  BY <1>1, <1>2, <2>2, <2>3, <2>4 DEF Shows, SameEvidence, SameSeen
  <2>5. CASE j = k
    <3>1. key[k].status = "absent"  BY <1>2, <2>2, <2>5 DEF Shows
    <3>2. Resolved(k).status = "rolled_back"  BY <1>3, <3>1 DEF KeysFollow
    <3> QED  BY <1>1, <1>2, <1>3, <2>2, <2>3, <2>5, <3>1, <3>2 DEF Shows, SameEvidence, SameSeen
  <2> QED  BY <2>4, <2>5
<1> QED  BY <1>1, <1>6, <1>7, <1>8

\* The client of a product without a defect is told what became of its primary.
LEMMA RespondKeeps ==
  ASSUME LabInv, Respond
  PROVE  KeysFollow' /\ Faithful' /\ SeenOK' /\ SameLock /\ JudgedOK'
<1> USE DEF LabInv
<1>1. PICK t \in {"success", "failure", "undetermined"} :
        /\ payload'.terminal = t /\ payload'.keys = payload.keys /\ payload'.resolved = payload.resolved
        /\ payload'.duplicates = payload.duplicates
        /\ \A f \in {"ordered", "cleaned", "consumer", "old", "after"} : payload'[f] = payload[f]
        /\ t \in {"success", "failure"} =>
             Decided /\ t = IF Committed(Primary) = (defect # "answer") THEN "success" ELSE "failure"
  <2>1. CASE Decided /\ payload' = [payload EXCEPT !.terminal =
                        IF Committed(Primary) = (defect # "answer") THEN "success" ELSE "failure"]
    <3> DEFINE t == IF Committed(Primary) = (defect # "answer") THEN "success" ELSE "failure"
    <3>1. t \in {"success", "failure"} /\ payload' = [payload EXCEPT !.terminal = t]  BY <2>1
    <3> HIDE DEF t
    <3>2. /\ payload'.terminal = t /\ payload'.keys = payload.keys /\ payload'.resolved = payload.resolved
          /\ payload'.duplicates = payload.duplicates
          /\ \A f \in {"ordered", "cleaned", "consumer", "old", "after"} : payload'[f] = payload[f]
      BY <3>1 DEF LabTyped, PayloadRecords
    <3>3. Decided /\ t = IF Committed(Primary) = (defect # "answer") THEN "success" ELSE "failure"
      BY <2>1 DEF t
    <3> QED  BY <3>1, <3>2, <3>3
  <2>2. CASE \E applied \in {FALSE, Committed(Primary)} :
               payload' = [payload EXCEPT !.terminal = "undetermined", !.suppressed = TRUE, !.applied = applied]
    <3>1. /\ payload'.terminal = "undetermined" /\ payload'.keys = payload.keys /\ payload'.resolved = payload.resolved
          /\ payload'.duplicates = payload.duplicates
          /\ \A f \in {"ordered", "cleaned", "consumer", "old", "after"} : payload'[f] = payload[f]
      BY <2>2 DEF LabTyped, PayloadRecords
    <3> QED  BY <3>1
  <2> QED  BY <2>1, <2>2 DEF Respond
<1>2. SameSeen /\ SameLock
  BY <1>1 DEF Respond, Product, SameSeen, SameLock
<1>3. payload.terminal = Nil /\ subject = "txn" /\ UNCHANGED <<key, mode, defect, verdict>>
  BY DEF Respond, Product
<1>4. KeysFollow'  BY <1>3 DEF KeysFollow, Committed
<1>5. Faithful'
  <2>1. defect = "none" /\ payload'.terminal = "success" => Committed(Primary)
    BY <1>1 DEF Committed
  <2>2. defect = "none" /\ payload'.terminal = "failure" => Decided /\ ~Committed(Primary)
    BY <1>1 DEF Committed
  <2> QED  BY <1>1, <1>3, <2>1, <2>2 DEF Faithful, Committed, Decided
<1>6. SeenOK'
  <2>1. Observed(payload') = Observed(payload)  BY <1>1 DEF Observed
  <2> QED  BY <1>1, <1>2, <1>3, <2>1 DEF SeenOK, Shows, Decided, SameSeen
<1>7. JudgedOK'
  <2>1. verdict = Nil  BY <1>3 DEF JudgedOK
  <2> QED  BY <1>3, <2>1 DEF JudgedOK
<1> QED  BY <1>2, <1>4, <1>5, <1>6, <1>7

\* What an observer writes down of a key is true of it, or taken too early.
LEMMA ObserveKeeps ==
  ASSUME LabInv, NEW k \in Keys, Observe(k)
  PROVE  KeysFollow' /\ Faithful' /\ SeenOK' /\ SameLock /\ JudgedOK'
<1> USE DEF LabInv
<1> DEFINE read == IF key[k].status = "locked" /\ Decided THEN Resolved(k) ELSE key[k]
<1>0. PICK stored \in {key[k], read} :
        \E unread \in {"nothing", "status", "mode"} :
          /\ payload' = [payload EXCEPT !.keys[k] = Seen(read, stored, unread)]
          /\ truth' = [truth EXCEPT !.raw = @ \/ stored.status = "locked", !.early = @ \/ ~Decided]
  BY DEF Observe
<1>1. PICK unread \in {"nothing", "status", "mode"} :
          /\ payload' = [payload EXCEPT !.keys[k] = Seen(read, stored, unread)]
          /\ truth' = [truth EXCEPT !.raw = @ \/ stored.status = "locked", !.early = @ \/ ~Decided]
  BY <1>0
<1>2. /\ verdict = Nil /\ payload.keys[k] = Nil /\ key' = [key EXCEPT ![k] = read]
      /\ UNCHANGED <<subject, defect, mode, lock, verdict>>
  BY DEF Observe
<1>3. /\ Resolved(k).mode = key[k].mode
      /\ IF Committed(Primary) /\ defect # "torn"
         THEN Resolved(k).status = "committed" /\ (defect = "none" => Resolved(k).ts = 1)
         ELSE Resolved(k).status = "rolled_back" /\ Resolved(k).ts = key[k].ts
  BY ResolvedIsKey
<1>4. key[k] \in KeyRecords /\ Resolved(k) \in KeyRecords  BY ResolvedIsKey DEF LabTyped
<1>5. read = key[k] \/ (key[k].status = "locked" /\ Decided /\ read = Resolved(k))  OBVIOUS
<1>6. Decided => read.status # "locked"
  <2>1. Decided /\ key[k].status = "locked" => read.status # "locked"  BY <1>3
  <2> QED  BY <1>5, <2>1
<1> DEFINE o == Seen(read, stored, unread)
<1>7. /\ o.visible <=> read.status = "committed"
      /\ o.status \in {stored.status, Nil} /\ o.ts = stored.ts /\ o.mode \in {stored.mode, Nil}
      /\ o.agree <=> defect # "index"
      /\ payload' = [payload EXCEPT !.keys[k] = o]
  BY <1>1 DEF Seen
<1>8. o \in Observation
  BY <1>4, <1>5, <1>1 DEF KeyRecords, Observation, Seen
<1> HIDE DEF read, o
<1>9. /\ payload'.terminal = payload.terminal /\ payload'.duplicates = payload.duplicates
      /\ payload'.resolved = payload.resolved
      /\ \A f \in {"ordered", "cleaned", "consumer", "old", "after"} : payload'[f] = payload[f]
      /\ payload'.keys = [payload.keys EXCEPT ![k] = o]
  BY <1>7 DEF LabTyped, PayloadRecords
<1>10. /\ \A f \in {"owned", "late", "read", "inTime"} : truth'[f] = truth[f]
       /\ truth'.raw <=> truth.raw \/ stored.status = "locked"
       /\ truth'.early <=> truth.early \/ ~Decided
  BY <1>1 DEF LabTyped, TruthRecords
<1>11. SameLock  BY <1>2, <1>9, <1>10 DEF SameLock
<1>12. key'[k] = read /\ \A j \in Keys \ {k} : key'[j] = key[j]  BY <1>2 DEF LabTyped
<1>13. key'[Primary] = key[Primary]
  <2>1. k = Primary => ~(key[k].status = "locked" /\ Decided)  BY DEF Decided
  <2> QED  BY <1>5, <1>12, <2>1
<1>14. (Committed(Primary)' <=> Committed(Primary)) /\ (Decided' <=> Decided)
  BY <1>13 DEF Committed, Decided
<1>15. KeysFollow'
  <2>1. key[k].status = "locked" => key[k].ts = 0  BY DEF KeysFollow
  <2>2. /\ read.status # "committed" => read.ts = 0
        /\ read.status = "committed" => Committed(Primary)
        /\ Committed(Primary) => read.status # "absent"
    BY <1>3, <1>5, <2>1 DEF KeysFollow
  <2> QED  BY <1>12, <1>14, <2>2 DEF KeysFollow
<1>16. Faithful'
  <2>1. ASSUME defect = "none", NEW j \in Keys
        PROVE  /\ Committed(Primary) => key'[j].status \in {"locked", "committed"}
               /\ key'[j].status = "committed" => key'[j].ts = 1
               /\ key'[j].mode = mode
    <3>1. CASE j = k /\ read = key[k]  BY <1>12, <2>1, <3>1 DEF Faithful, Committed
    <3>2. CASE j = k /\ read = Resolved(k)  BY <1>3, <1>12, <2>1, <3>2 DEF Faithful
    <3>3. CASE j # k  BY <1>12, <2>1, <3>3 DEF Faithful, Committed
    <3> QED  BY <1>5, <3>1, <3>2, <3>3
  <2> QED  BY <1>2, <1>9, <1>14, <2>1 DEF Faithful, Committed
<1>17. SeenOK'
  <2>1. o # Nil  BY <1>8
  <2>2. ASSUME NEW j \in Observed(payload'), j # k
        PROVE  j \in Observed(payload) /\ payload'.keys[j] = payload.keys[j] /\ key'[j] = key[j]
    BY <1>9, <1>12, <2>2 DEF Observed, LabTyped, PayloadRecords
  <2>3. payload'.keys[k] = o  BY <1>9 DEF LabTyped, PayloadRecords
  <2> SUFFICES ASSUME ~truth'.early, NEW j \in Observed(payload')
               PROVE  Decided' /\ Shows(payload.keys[j], key[j])'
    BY <1>2, <1>9, <1>10, <1>14 DEF SeenOK
  <2>4. ~truth.early /\ Decided /\ Decided'  BY <1>10, <1>14
  <2>5. CASE j # k
    <3>1. Shows(payload.keys[j], key[j])  BY <2>2, <2>4, <2>5 DEF SeenOK
    <3> QED  BY <1>2, <1>10, <2>2, <2>4, <2>5, <3>1 DEF Shows
  <2>6. CASE j = k
    <3>1. read.status # "locked" /\ read \in KeyRecords  BY <1>4, <1>5, <1>6, <2>4
    <3>2. key[k].status # "committed" => key[k].ts = 0  BY DEF KeysFollow
    <3>3. read.status # "committed" => read.ts = 0  BY <1>12, <1>15 DEF KeysFollow
    <3>4. read.mode = key[k].mode  BY <1>3, <1>5
    <3>5. stored = read \/ (stored = key[k] /\ stored.status = "locked")  BY <1>5
    <3>6. Shows(payload.keys[j], key[j])'
      <4>0. payload'.keys[j] = o /\ key'[j] = read  BY <1>12, <2>3, <2>6
      <4>1. read.status \in {"absent", "committed", "rolled_back"}  BY <3>1 DEF KeyRecords
      <4>2. CASE stored = read
        BY <1>2, <1>7, <1>10, <3>1, <3>3, <4>0, <4>1, <4>2 DEF Shows
      <4>3. CASE stored = key[k] /\ stored.status = "locked"
        BY <1>2, <1>7, <1>10, <3>2, <3>4, <4>0, <4>1, <4>3 DEF Shows
      <4> QED  BY <3>5, <4>2, <4>3
    <3> QED  BY <2>4, <3>6
  <2> QED  BY <2>5, <2>6
<1>18. JudgedOK'  BY <1>2 DEF JudgedOK
<1> QED  BY <1>11, <1>15, <1>16, <1>17, <1>18

\* Nor is the protocol it writes down of the transaction.
LEMMA ReadModeKeeps ==
  ASSUME LabInv, ReadMode
  PROVE  LabTyped' /\ KeysFollow' /\ Faithful' /\ SeenOK' /\ SameLock /\ JudgedOK'
<1> USE DEF LabInv
<1>1. /\ payload' = [payload EXCEPT !.resolved = mode] /\ verdict = Nil
      /\ truth' = [truth EXCEPT !.early = @ \/ ~Decided]
      /\ UNCHANGED <<subject, defect, key, mode, lock, verdict>>
  BY DEF ReadMode
<1>2. /\ payload'.keys = payload.keys /\ payload'.resolved = mode
      /\ payload'.terminal = payload.terminal /\ payload'.duplicates = payload.duplicates
      /\ \A f \in {"ordered", "cleaned", "consumer", "old", "after"} : payload'[f] = payload[f]
  BY <1>1 DEF LabTyped, PayloadRecords
<1>3. /\ \A f \in {"owned", "late", "read", "inTime", "raw"} : truth'[f] = truth[f]
      /\ truth'.early <=> truth.early \/ ~Decided
  BY <1>1 DEF LabTyped, TruthRecords
<1>4. LabTyped'
  <2>1. payload' \in PayloadRecords  BY <1>1 DEF LabTyped, PayloadRecords
  <2>2. truth' \in TruthRecords
    <3>1. Decided \in BOOLEAN  BY DEF Decided
    <3> QED  BY <1>1, <3>1 DEF LabTyped, TruthRecords
  <2> QED  BY <1>1, <2>1, <2>2 DEF LabTyped
<1>5. SameLock  BY <1>1, <1>2, <1>3 DEF SameLock
<1>6. KeysFollow'  BY <1>1 DEF KeysFollow, Committed
<1>7. Faithful'  BY <1>1, <1>2 DEF Faithful, Committed, Decided
<1>8. SeenOK'
  <2>1. Observed(payload') = Observed(payload)  BY <1>2 DEF Observed
  <2> QED  BY <1>1, <1>2, <1>3, <2>1 DEF SeenOK, Shows, Decided
<1>9. JudgedOK'  BY <1>1 DEF JudgedOK
<1> QED  BY <1>4, <1>5, <1>6, <1>7, <1>8, <1>9
-----------------------------------------------------------------------------
(* The lock *)

\* What is done to the lock leaves the transaction alone, and the lock of its new
\* owner there until the owner has done.
LEMMA LockKeeps ==
  ASSUME LabInv, NewOwner \/ WitnessNewOwner \/ Cleanup \/ Consume \/ ReadLock
  PROVE  SameEvidence /\ UNCHANGED <<key, mode>> /\ LockOK'
<1> USE DEF LabInv
<1>1. CASE NewOwner
  <2>1. truth'.owned /\ truth'.early = truth.early /\ truth'.raw = truth.raw
        /\ truth'.late = truth.late /\ truth'.read = truth.read /\ truth'.inTime = truth.inTime
    BY <1>1 DEF NewOwner, LabTyped, TruthRecords
  <2>2. lock' = "new" /\ ~truth.owned /\ UNCHANGED <<payload, subject, defect, key, mode, verdict>>
    BY <1>1 DEF NewOwner, Contend
  <2> QED  BY <2>1, <2>2 DEF LockOK, SameEvidence, SameSeen
<1>2. CASE WitnessNewOwner
  <2>1. /\ payload'.ordered = ~payload.cleaned
        /\ \A f \in {"keys", "resolved", "terminal", "duplicates", "cleaned", "consumer", "old", "after"} : payload'[f] = payload[f]
    BY <1>2 DEF WitnessNewOwner, LabTyped, PayloadRecords
  <2>2. lock = "new" /\ UNCHANGED <<lock, truth, subject, defect, key, mode, verdict>>
    BY <1>2 DEF WitnessNewOwner, Contend
  <2>3. lock = "new" => truth.owned  BY DEF LockOK
  <2> QED  BY <2>1, <2>2, <2>3 DEF LockOK, SameEvidence, SameSeen
<1>3. CASE Cleanup
  <2>1. /\ payload'.cleaned
        /\ \A f \in {"keys", "resolved", "terminal", "duplicates", "ordered", "consumer", "old", "after"} : payload'[f] = payload[f]
    BY <1>3 DEF Cleanup, LabTyped, PayloadRecords
  <2>2. /\ truth'.late = truth.owned
        /\ \A f \in {"owned", "read", "inTime", "early", "raw"} : truth'[f] = truth[f]
    BY <1>3 DEF Cleanup, LabTyped, TruthRecords
  <2>3. (defect = "none" /\ lock = "new" => lock' = "new") /\ (lock' = "new" => lock = "new")
    BY <1>3 DEF Cleanup
  <2>4. ~payload.cleaned /\ UNCHANGED <<subject, defect, key, mode, verdict>>  BY <1>3 DEF Cleanup, Contend
  <2> QED  BY <2>1, <2>2, <2>3, <2>4 DEF LockOK, SameEvidence, SameSeen
<1>4. CASE Consume
  <2>1. PICK outcome \in {"committed", "other"} \cup (IF lock = "new" THEN {} ELSE Poisoned) :
          payload' = [payload EXCEPT !.consumer = outcome]
    BY <1>4 DEF Consume
  <2>2. /\ payload'.consumer = outcome
        /\ \A f \in {"keys", "resolved", "terminal", "duplicates", "cleaned", "ordered", "old", "after"} : payload'[f] = payload[f]
    BY <2>1 DEF LabTyped, PayloadRecords
  <2>3. truth.owned /\ payload.consumer = Nil /\ UNCHANGED <<truth, subject, defect, key, mode, verdict>>
    BY <1>4 DEF Consume, Contend
  <2>4. outcome # Nil
    <3>1. outcome \in Outcomes  BY DEF Outcomes
    <3> QED  BY <3>1 DEF Outcomes
  <2>5. defect = "none" => outcome \notin Poisoned
    <3>1. defect = "none" => lock = "new"  BY <2>3 DEF LockOK
    <3>2. outcome \in {"committed", "other"} => outcome \notin Poisoned  BY DEF Poisoned
    <3> QED  BY <3>1, <3>2
  <2> QED  BY <2>2, <2>3, <2>4, <2>5 DEF LockOK, SameEvidence, SameSeen
<1>5. CASE ReadLock
  <2>1. /\ payload'.after = lock
        /\ \A f \in {"keys", "resolved", "terminal", "duplicates", "cleaned", "ordered", "old", "consumer"} : payload'[f] = payload[f]
    BY <1>5 DEF ReadLock, LabTyped, PayloadRecords
  <2>2. /\ truth'.read /\ truth'.inTime = (payload.consumer = Nil)
        /\ \A f \in {"owned", "late", "early", "raw"} : truth'[f] = truth[f]
    BY <1>5 DEF ReadLock, LabTyped, TruthRecords
  <2>3. payload.cleaned /\ UNCHANGED <<lock, subject, defect, key, mode, verdict>>  BY <1>5 DEF ReadLock, Contend
  <2> QED  BY <2>1, <2>2, <2>3 DEF LockOK, SameEvidence, SameSeen
<1> QED  BY <1>1, <1>2, <1>3, <1>4, <1>5
-----------------------------------------------------------------------------
(* The verdict *)

\* A set of one value at most has at most one member.
LEMMA FewValues ==
  ASSUME NEW S, NEW x, S \subseteq {x}
  PROVE  Cardinality(S) \in {0, 1}
<1>1. S = {} \/ S = {x}  OBVIOUS
<1> QED  BY <1>1, FS_EmptySet, FS_Singleton

\* A set that is not of more than one member is of one member or none.
LEMMA NotMany ==
  ASSUME NEW S, IsFiniteSet(S), ~(Cardinality(S) > 1)
  PROVE  Cardinality(S) <= 1 /\ (S # {} => Cardinality(S) = 1)
<1>1. Cardinality(S) \in Nat  BY FS_CardinalityType
<1>2. Cardinality(S) = 0 <=> S = {}  BY FS_EmptySet
<1> QED  BY <1>1, <1>2

\* GREEN is said of what is settled and was not refused.
LEMMA GreenMeans ==
  ASSUME NEW p,
         terminal_mvcc_truth(p) = "GREEN" \/ protocol_atomic_keyset(p) = "GREEN"
  PROVE  /\ ~Torn(p) /\ Settled(p) /\ ~Untold(p)
         /\ terminal_mvcc_truth(p) = "GREEN" => ~Contradicted(p)
         /\ protocol_atomic_keyset(p) = "GREEN" => ~(Cardinality(Modes(p)) > 1)
<1>1. terminal_mvcc_truth(p) = "GREEN" => ~Torn(p) /\ ~Contradicted(p) /\ Settled(p) /\ ~Untold(p)
  BY DEF terminal_mvcc_truth, Verdict
<1>2. protocol_atomic_keyset(p) = "GREEN" => ~Torn(p) /\ ~(Cardinality(Modes(p)) > 1) /\ Settled(p) /\ ~Untold(p)
  BY DEF protocol_atomic_keyset, Verdict
<1> QED  BY <1>1, <1>2

\* RED is said of what was proved to be there and torn, contradicted or mixed.
LEMMA RedMeans ==
  ASSUME NEW p
  PROVE  /\ terminal_mvcc_truth(p) = "RED" => Observed(p) # {} /\ ~Untold(p) /\ (Torn(p) \/ Contradicted(p))
         /\ protocol_atomic_keyset(p) = "RED" => ~Untold(p) /\ (Torn(p) \/ Cardinality(Modes(p)) > 1)
  BY DEF terminal_mvcc_truth, protocol_atomic_keyset, Verdict

\* The evidence of a product without a defect, taken in time and of resolved keys,
\* is neither torn nor mixed, nor does it contradict the client.
LEMMA NothingToAccuse ==
  ASSUME LabInv, defect = "none", ~truth.early, ~truth.raw, ~Untold(payload)
  PROVE  /\ ~Torn(payload) /\ ~(Cardinality(Modes(payload)) > 1)
         /\ Observed(payload) # {} => ~Contradicted(payload)
<1> USE DEF LabInv
<1> DEFINE o(k) == payload.keys[k]
<1>1. ASSUME NEW k \in Observed(payload)
      PROVE  /\ o(k).visible <=> Committed(Primary)
             /\ o(k).visible <=> o(k).status = "committed"
             /\ o(k).status # "locked"
             /\ o(k).ts = IF Committed(Primary) THEN 1 ELSE 0
             /\ o(k).mode \in {mode, Nil}
             /\ o(k).agree
  <2>1. k \in Keys /\ Decided /\ Shows(o(k), key[k]) /\ o(k).status # Nil  BY DEF SeenOK, Observed, Untold
  <2>2. o(k).status # "locked" /\ (o(k).visible <=> o(k).status = "committed")  BY <2>1 DEF Shows
  <2>3. o(k).visible <=> Committed(Primary)
    <3>1. Committed(Primary) => key[k].status \in {"locked", "committed"}  BY <2>1 DEF Faithful
    <3>2. key[k].status = "committed" => Committed(Primary)  BY <2>1 DEF KeysFollow
    <3> QED  BY <2>1, <3>1, <3>2 DEF Shows
  <2>4. o(k).ts = IF Committed(Primary) THEN 1 ELSE 0
    <3>1. key[k].status = "committed" => key[k].ts = 1  BY <2>1 DEF Faithful, Committed
    <3> QED  BY <2>1, <2>2, <2>3, <3>1 DEF Shows
  <2>5. o(k).mode \in {mode, Nil} /\ o(k).agree  BY <2>1 DEF Shows, Faithful
  <2> QED  BY <2>2, <2>3, <2>4, <2>5
<1> HIDE DEF o
<1>2. ~Torn(payload)
  <2>1. AllVisible(payload) \/ NoneVisible(payload)  BY <1>1 DEF AllVisible, NoneVisible, o
  <2>2. ~("committed" \in Statuses(payload) /\ Statuses(payload) \cap {"absent", "rolled_back", "locked"} # {})
    BY <1>1 DEF Statuses, o
  <2>3. ~(Cardinality({payload.keys[k].ts : k \in Observed(payload)} \ {0}) > 1)
    <3>1. {payload.keys[k].ts : k \in Observed(payload)} \ {0} \subseteq {1}  BY <1>1 DEF o
    <3> QED  BY <3>1, FewValues
  <2>4. ~(\E k \in Observed(payload) : ~payload.keys[k].agree)  BY <1>1 DEF o
  <2>5. ~(payload.duplicates > 1)
    <3>1. payload.duplicates \in 0..2 /\ payload.duplicates <= 1  BY DEF Faithful, LabTyped, PayloadRecords
    <3> QED  BY <3>1
  <2> QED  BY <2>1, <2>2, <2>3, <2>4, <2>5 DEF Torn
<1>3. ~(Cardinality(Modes(payload)) > 1)
  <2>1. Modes(payload) \subseteq {mode}  BY <1>1 DEF Modes, o, SeenOK
  <2> QED  BY <2>1, FewValues
<1>4. ASSUME Observed(payload) # {}  PROVE ~Contradicted(payload)
  <2>1. PICK k \in Observed(payload) : TRUE  BY <1>4
  <2>2. CASE Committed(Primary)
    <3>1. AllVisible(payload)  BY <1>1, <2>2 DEF AllVisible, o
    <3>2. AllCommitted(payload)  BY <1>1, <2>1, <2>2 DEF AllCommitted, Statuses, o
    <3>3. payload.terminal # "failure"  BY <2>2 DEF Faithful
    <3> QED  BY <3>1, <3>2, <3>3 DEF Contradicted
  <2>3. CASE ~Committed(Primary)
    <3>1. ~AllVisible(payload)  BY <1>1, <2>1, <2>3 DEF AllVisible, o
    <3>2. ~AllCommitted(payload)  BY <1>1, <2>1, <2>3 DEF AllCommitted, Statuses, o
    <3>3. payload.terminal # "success"  BY <2>3 DEF Faithful
    <3> QED  BY <3>1, <3>2, <3>3 DEF Contradicted
  <2> QED  BY <2>2, <2>3
<1> QED  BY <1>2, <1>3, <1>4

\* A verdict on a lock: GREEN of a late cleanup, and RED of a defect or a late reader.
LEMMA LockVerdict ==
  ASSUME LabInv
  PROVE  /\ lock_generation_survival(payload) = "GREEN" => truth.late /\ payload.cleaned
         /\ lock_generation_survival(payload) = "RED" /\ defect = "none" =>
              ~truth.inTime /\ payload.consumer # Nil
<1> USE DEF LabInv
<1> DEFINE invalid == payload.old = Nil \/ payload.new = Nil \/ payload.old = payload.new \/ ~payload.ordered
                      \/ ~payload.cleaned \/ payload.consumer = Nil
           red == \/ payload.after = Nil /\ payload.consumer # "committed"
                  \/ payload.after \notin {Nil, payload.new}
                  \/ payload.consumer \in Poisoned
<1>1. lock_generation_survival(payload) \in {"GREEN", "RED"} => ~invalid
  BY DEF lock_generation_survival, Verdict
<1>2. lock_generation_survival(payload) = "RED" => red
  BY DEF lock_generation_survival, Verdict
<1>3. ~invalid => truth.late /\ payload.cleaned /\ payload.consumer # Nil /\ payload.new = "new"
  BY DEF LockOK, LabTyped, PayloadRecords
<1>4. ~invalid /\ defect = "none" /\ truth.inTime => ~red  BY <1>3 DEF LockOK
<1> QED  BY <1>1, <1>2, <1>3, <1>4

\* Nor does what is done to the lock afterwards make a verdict wrong.
LEMMA LockJudged ==
  ASSUME LabInv, NewOwner \/ WitnessNewOwner \/ Cleanup \/ Consume \/ ReadLock
  PROVE  JudgedOK'
<1> USE DEF LabInv
<1>1. subject = "lock" /\ UNCHANGED <<subject, defect, verdict>>
  BY DEF NewOwner, WitnessNewOwner, Cleanup, Consume, ReadLock, Contend
<1>2. truth.late /\ payload.cleaned => truth'.late /\ payload'.cleaned
  <2>1. CASE NewOwner  BY <2>1 DEF NewOwner, LabTyped, TruthRecords
  <2>2. CASE WitnessNewOwner  BY <2>2 DEF WitnessNewOwner, LabTyped, PayloadRecords
  <2>3. CASE Cleanup  BY <2>3 DEF Cleanup
  <2>4. CASE Consume  BY <2>4 DEF Consume, LabTyped, PayloadRecords
  <2>5. CASE ReadLock  BY <2>5 DEF ReadLock, LabTyped, PayloadRecords, TruthRecords
  <2> QED  BY <2>1, <2>2, <2>3, <2>4, <2>5
<1>3. payload.consumer # Nil /\ ~truth.inTime => payload'.consumer # Nil /\ ~truth'.inTime
  <2>1. CASE NewOwner  BY <2>1 DEF NewOwner, LabTyped, TruthRecords
  <2>2. CASE WitnessNewOwner  BY <2>2 DEF WitnessNewOwner, LabTyped, PayloadRecords
  <2>3. CASE Cleanup  BY <2>3 DEF Cleanup, LabTyped, PayloadRecords, TruthRecords
  <2>4. CASE Consume  BY <2>4 DEF Consume
  <2>5. CASE ReadLock  BY <2>5 DEF ReadLock, LabTyped, PayloadRecords, TruthRecords
  <2> QED  BY <2>1, <2>2, <2>3, <2>4, <2>5
<1> QED  BY <1>1, <1>2, <1>3 DEF JudgedOK

\* The oracles judge what the observer has.
LEMMA JudgeKeeps ==
  ASSUME LabInv, NEW name \in ORACLES, Judge(name)
  PROVE  JudgedOK'
<1> USE DEF LabInv
<1>1. /\ UNCHANGED <<subject, defect, key, mode, lock, truth, payload>>
      /\ subject = "txn" => payload.terminal # Nil
  BY DEF Judge
<1>2. CASE subject = "lock" /\ verdict' = <<name, lock_generation_survival(payload)>>
  BY <1>1, <1>2, LockVerdict DEF JudgedOK
<1>3. CASE subject = "txn" /\ \/ name = "terminal_mvcc_truth" /\ verdict' = <<name, terminal_mvcc_truth(payload)>>
                              \/ name = "protocol_atomic_keyset" /\ verdict' = <<name, protocol_atomic_keyset(payload)>>
  <2>1. verdict'[1] = name
        /\ \/ name = "terminal_mvcc_truth" /\ verdict'[2] = terminal_mvcc_truth(payload)
           \/ name = "protocol_atomic_keyset" /\ verdict'[2] = protocol_atomic_keyset(payload)
    BY <1>3
  <2>2. verdict'[2] = "GREEN" => Proves(payload, name)  BY <1>3, <2>1, GreenMeans DEF Proves
  <2>3. verdict'[2] = "RED" /\ defect = "none" => truth.early \/ truth.raw
    <3>1. ASSUME verdict'[2] = "RED", defect = "none", ~truth.early, ~truth.raw  PROVE FALSE
      <4>2. ~Untold(payload)  BY <2>1, <3>1, RedMeans
      <4>1. ~Torn(payload) /\ ~(Cardinality(Modes(payload)) > 1)
            /\ (Observed(payload) # {} => ~Contradicted(payload))
        BY <3>1, <4>2, NothingToAccuse
      <4> QED  BY <2>1, <3>1, <4>1, RedMeans
    <3> QED  BY <3>1
  <2>4. Proves(payload', name) <=> Proves(payload, name)  BY <1>1
  <2>5. Observed(payload') = Observed(payload)  BY <1>1
  <2> QED  BY <1>1, <1>3, <2>1, <2>2, <2>3, <2>4, <2>5 DEF JudgedOK
<1> QED  BY <1>2, <1>3 DEF Judge
-----------------------------------------------------------------------------
(* The theorems *)

\* The lab starts with nothing decided, seen or judged.
LEMMA InitLab == Init => LabInv
<1> SUFFICES ASSUME Init  PROVE LabInv  OBVIOUS
<1>1. LabTyped  BY InitTyped
<1>2. \A k \in Keys : key[k].status = "absent" /\ key[k].ts = 0 /\ key[k].mode = "async"
  BY DEF Init, Record
<1>3. mode = "async" /\ verdict = Nil /\ lock = "old"  BY DEF Init
<1>4. /\ payload.terminal = Nil /\ payload.duplicates = 0
      /\ ~payload.ordered /\ ~payload.cleaned /\ payload.consumer = Nil
      /\ \A k \in Keys : payload.keys[k] = Nil
      /\ payload.resolved = Nil
      /\ ~truth.owned /\ ~truth.late /\ ~truth.read /\ ~truth.inTime
  BY DEF Init
<1>5. KeysFollow  BY <1>2 DEF KeysFollow, Committed
<1>6. Faithful  BY <1>2, <1>3, <1>4 DEF Faithful, Committed
<1>7. SeenOK  BY <1>4 DEF SeenOK, Observed
<1>8. LockOK  BY <1>3, <1>4 DEF LockOK
<1>9. JudgedOK  BY <1>3 DEF JudgedOK
<1> QED  BY <1>1, <1>5, <1>6, <1>7, <1>8, <1>9 DEF LabInv

\* Every step keeps the invariant.
LEMMA StepLab == LabInv /\ [Next]_vars => LabInv'
<1> SUFFICES ASSUME LabInv, [Next]_vars  PROVE LabInv'  OBVIOUS
<1>0. LabTyped /\ KeysFollow /\ Faithful /\ SeenOK /\ LockOK /\ JudgedOK  BY DEF LabInv
<1>1. ASSUME NEW k \in Keys, Prewrite(k)  PROVE LabInv'
  BY <1>0, <1>1, TxnTyped, PrewriteKeeps, LockStays, JudgedStays DEF LabInv
<1>2. ASSUME NEW k \in Keys, ResolveSecondary(k)  PROVE LabInv'
  BY <1>0, <1>2, TxnTyped, ResolveKeeps, LockStays, JudgedStays DEF LabInv
<1>3. ASSUME NEW k \in Keys, Observe(k)  PROVE LabInv'
  BY <1>0, <1>3, ObserveTyped, ObserveKeeps, LockStays DEF LabInv
<1>4. CASE FallBack
  BY <1>0, <1>4, TxnTyped, FallBackKeeps, LockStays, JudgedStays DEF LabInv
<1>5. CASE CommitPrimary
  BY <1>0, <1>5, TxnTyped, CommitKeeps, LockStays DEF LabInv
<1>6. CASE RollBackPrimary
  BY <1>0, <1>6, TxnTyped, RollBackKeeps, LockStays, JudgedStays DEF LabInv
<1>7. CASE Respond
  BY <1>0, <1>7, TxnTyped, RespondKeeps, LockStays DEF LabInv
<1>11. CASE ReadMode
  BY <1>0, <1>11, ReadModeKeeps, LockStays DEF LabInv
<1>8. CASE NewOwner \/ WitnessNewOwner \/ Cleanup \/ Consume \/ ReadLock
  <2>1. SameEvidence /\ UNCHANGED <<key, mode>> /\ LockOK'  BY <1>8, LockKeeps
  <2>2. KeysFollow' /\ Faithful' /\ SeenOK'  BY <1>0, <2>1, TxnStays
  <2>3. LabTyped'  BY <1>0, <1>8, LockTyped
  <2>4. JudgedOK'  BY <1>8, LockJudged
  <2> QED  BY <2>1, <2>2, <2>3, <2>4 DEF LabInv
<1>9. ASSUME NEW name \in ORACLES, Judge(name)  PROVE LabInv'
  <2>1. LabTyped' /\ JudgedOK'  BY <1>0, <1>9, JudgeTyped, JudgeKeeps
  <2>2. UNCHANGED <<subject, defect, key, mode, lock, truth, payload>>  BY <1>9 DEF Judge
  <2>3. KeysFollow' /\ Faithful' /\ LockOK'
    BY <1>0, <2>2 DEF KeysFollow, Faithful, LockOK, Committed, Decided
  <2>4. SeenOK'  BY <1>0, <2>2 DEF SeenOK, Shows, Observed, Decided
  <2> QED  BY <2>1, <2>3, <2>4 DEF LabInv
<1>10. CASE UNCHANGED vars
  <2>1. SameEvidence /\ SameLock  BY <1>10 DEF vars, SameEvidence, SameSeen, SameLock
  <2>2. LabTyped'  BY <1>0, <1>10 DEF vars, LabTyped
  <2>3. UNCHANGED <<key, mode>>  BY <1>10 DEF vars
  <2> QED  BY <1>0, <2>1, <2>2, <2>3, TxnStays, LockStays, JudgedStays DEF LabInv
<1> QED  BY <1>1, <1>2, <1>3, <1>4, <1>5, <1>6, <1>7, <1>8, <1>9, <1>10, <1>11 DEF Next

\* The evidence is true of the keys in every behaviour: it stays what the product
\* did, whatever the product does after it was written down.
THEOREM LabInvHolds == Spec => []LabInv
BY InitLab, StepLab, PTL DEF Spec

\* Every value keeps its type.
THEOREM LabTypeCorrect == Spec => []TypeOK
<1>1. LabInv => TypeOK
  BY DEF LabInv, LabTyped, TypeOK, PayloadRecords, KeyRecords
<1> QED  BY <1>1, LabInvHolds, PTL

\* What an observation of every key shows, when it was not taken too early, is what
\* the keys are.
LEMMA SeenWhole ==
  ASSUME LabInv, ~truth.early, Observed(payload) = Keys, Settled(payload), ~Untold(payload)
  PROVE  /\ {payload.keys[k].ts : k \in Keys} \ {0} = {key[k].ts : k \in Keys} \ {0}
         /\ (\A k \in Keys : payload.keys[k].mode # Nil) =>
              {payload.keys[k].mode : k \in Keys} = {key[k].mode : k \in Keys}
         /\ AllVisible(payload) <=> Committed(Primary)
         /\ IF AllVisible(payload) THEN {key[k].status : k \in Keys} = {"committed"}
            ELSE {key[k].status : k \in Keys} \in {{"absent"}, {"rolled_back"}, {"absent", "rolled_back"}}
<1> USE DEF LabInv
<1>1. ASSUME NEW k \in Keys  PROVE Shows(payload.keys[k], key[k]) /\ payload.keys[k].status # Nil
  BY DEF SeenOK, Untold
<1>2. (\A k \in Keys : payload.keys[k].mode # Nil) =>
        {payload.keys[k].mode : k \in Keys} = {key[k].mode : k \in Keys}
  <2>1. \A k \in Keys : payload.keys[k].mode \in {key[k].mode, Nil}  BY <1>1 DEF Shows
  <2> QED  BY <2>1
<1>3. CASE AllVisible(payload) /\ AllCommitted(payload)
  <2>1. \A k \in Keys : payload.keys[k].visible /\ payload.keys[k].status = "committed"
    BY <1>3 DEF AllVisible, AllCommitted, Statuses
  <2>2. \A k \in Keys : key[k].status = "committed" /\ payload.keys[k].ts = key[k].ts
    BY <1>1, <2>1 DEF Shows
  <2>3. Committed(Primary)  BY <2>2 DEF Committed
  <2>4. {key[k].status : k \in Keys} = {"committed"}  BY <2>2
  <2> QED  BY <1>2, <1>3, <2>2, <2>3, <2>4
<1>4. CASE NoneVisible(payload) /\ AllAbsent(payload)
  <2>1. \A k \in Keys : ~payload.keys[k].visible /\ payload.keys[k].status \in {"absent", "rolled_back"}
    BY <1>4 DEF NoneVisible, AllAbsent, Statuses
  <2>2. \A k \in Keys : key[k].status \in {"absent", "rolled_back"} /\ payload.keys[k].ts = 0 /\ key[k].ts = 0
    BY <1>1, <2>1 DEF Shows, KeysFollow
  <2>3. ~Committed(Primary) /\ ~AllVisible(payload)  BY <2>1, <2>2 DEF Committed, AllVisible
  <2>4. {key[k].status : k \in Keys} \in {{"absent"}, {"rolled_back"}, {"absent", "rolled_back"}}
    <3> DEFINE S == {key[k].status : k \in Keys}
    <3>1. S \subseteq {"absent", "rolled_back"} /\ key[Primary].status \in S  BY <2>2
    <3> HIDE DEF S
    <3>2. S = {"absent"} \/ S = {"rolled_back"} \/ S = {"absent", "rolled_back"}  BY <3>1
    <3> QED  BY <3>2 DEF S
  <2>5. {payload.keys[k].ts : k \in Keys} \ {0} = {} /\ {key[k].ts : k \in Keys} \ {0} = {}  BY <2>2
  <2> QED  BY <1>2, <2>3, <2>4, <2>5
<1> QED  BY <1>3, <1>4 DEF Settled

\* GREEN is not given by mistake.
THEOREM GreenIsProvedHolds == Spec => []GreenIsProved
<1>1. ASSUME LabInv  PROVE GreenIsProved
  <2> USE <1>1 DEF LabInv
  <2> SUFFICES ASSUME verdict # Nil, verdict[2] = "GREEN"
               PROVE  /\ subject = "lock" => truth.late
                      /\ subject = "txn" /\ ~truth.early /\ Observed(payload) = Keys =>
                           /\ OneOutcome
                           /\ verdict[1] = "terminal_mvcc_truth" =>
                                payload.terminal \notin {IF Committed(Primary) THEN "failure" ELSE "success"}
                           /\ verdict[1] = "protocol_atomic_keyset" /\ (\A k \in Keys : payload.keys[k].mode # Nil) =>
                                Cardinality({key[k].mode : k \in Keys}) = 1
    BY DEF GreenIsProved
  <2>1. subject = "lock" => truth.late  BY DEF JudgedOK
  <2>2. ASSUME subject = "txn", ~truth.early, Observed(payload) = Keys
        PROVE  /\ OneOutcome
               /\ verdict[1] = "terminal_mvcc_truth" =>
                    payload.terminal \notin {IF Committed(Primary) THEN "failure" ELSE "success"}
               /\ verdict[1] = "protocol_atomic_keyset" /\ (\A k \in Keys : payload.keys[k].mode # Nil) =>
                                Cardinality({key[k].mode : k \in Keys}) = 1
    <3>1. Proves(payload, verdict[1])  BY <2>2 DEF JudgedOK
    <3>2. ~Torn(payload) /\ Settled(payload) /\ ~Untold(payload)  BY <3>1 DEF Proves
    <3>3. /\ {payload.keys[k].ts : k \in Keys} \ {0} = {key[k].ts : k \in Keys} \ {0}
          /\ (\A k \in Keys : payload.keys[k].mode # Nil) =>
               {payload.keys[k].mode : k \in Keys} = {key[k].mode : k \in Keys}
          /\ AllVisible(payload) <=> Committed(Primary)
          /\ IF AllVisible(payload) THEN {key[k].status : k \in Keys} = {"committed"}
             ELSE {key[k].status : k \in Keys} \in {{"absent"}, {"rolled_back"}, {"absent", "rolled_back"}}
      BY <2>2, <3>2, SeenWhole
    <3>4. Cardinality({key[k].ts : k \in Keys} \ {0}) <= 1
      <4> DEFINE T == {key[k].ts : k \in Keys} \ {0}
      <4>1. ~(Cardinality(T) > 1)  BY <2>2, <3>2, <3>3 DEF Torn
      <4>2. T \subseteq 0..2  BY DEF LabTyped, KeyRecords
      <4> HIDE DEF T
      <4>5. IsFiniteSet(0..2)
        <5>1. 0 \in Int /\ 2 \in Int  OBVIOUS
        <5> QED  BY <5>1, FS_Interval, Zenon
      <4>3. IsFiniteSet(T)  BY <4>2, <4>5, FS_Subset
      <4>4. Cardinality(T) <= 1  BY <4>1, <4>3, NotMany
      <4> QED  BY <4>4 DEF T
    <3>5. defect # "index"
      <4>1. payload.keys[Primary].agree  BY <2>2, <3>2 DEF Torn
      <4>2. Shows(payload.keys[Primary], key[Primary])  BY <2>2 DEF SeenOK
      <4> QED  BY <4>1, <4>2 DEF Shows
    <3>6. payload.duplicates <= 1
      <4>1. payload.duplicates \in 0..2  BY DEF LabTyped, PayloadRecords
      <4> QED  BY <3>2, <4>1 DEF Torn
    <3>7. {key[k].status : k \in Keys} \in {{"committed"}, {"absent"}, {"rolled_back"}, {"absent", "rolled_back"}}
      BY <3>3
    <3>8. OneOutcome  BY <3>4, <3>5, <3>6, <3>7 DEF OneOutcome
    <3>9. ASSUME verdict[1] = "terminal_mvcc_truth"
          PROVE  payload.terminal \notin {IF Committed(Primary) THEN "failure" ELSE "success"}
      <4>1. ~Contradicted(payload)  BY <3>1, <3>9 DEF Proves
      <4> QED  BY <3>3, <4>1 DEF Contradicted
    <3>10. ASSUME verdict[1] = "protocol_atomic_keyset", \A k \in Keys : payload.keys[k].mode # Nil
           PROVE  Cardinality({key[k].mode : k \in Keys}) = 1
      <4> DEFINE M == {key[k].mode : k \in Keys}
      <4>1. M \subseteq Modes(payload)  BY <2>2, <3>3, <3>10 DEF Modes
      <4>2. ~(Cardinality(Modes(payload)) > 1)  BY <3>1, <3>10 DEF Proves
      <4>3. M \subseteq {"async", "2pc"} /\ M # {}  BY DEF LabTyped, KeyRecords
      <4>7. Modes(payload) \subseteq {"async", "2pc"}
        BY DEF Modes, Observed, Observation, LabTyped, PayloadRecords
      <4>4. IsFiniteSet({"async", "2pc"})
        <5>1. IsFiniteSet({"async"})  BY FS_Singleton
        <5>2. IsFiniteSet({"async"} \cup {"2pc"})  BY <5>1, FS_AddElement
        <5>3. {"async", "2pc"} = {"async"} \cup {"2pc"}  OBVIOUS
        <5> QED  BY <5>2, <5>3
      <4> HIDE DEF M
      <4>8. IsFiniteSet(Modes(payload))  BY <4>4, <4>7, FS_Subset
      <4>5. IsFiniteSet(M) /\ Cardinality(M) <= Cardinality(Modes(payload))  BY <4>1, <4>8, FS_Subset
      <4>9. Cardinality(M) \in Nat /\ Cardinality(Modes(payload)) \in Nat  BY <4>5, <4>8, FS_CardinalityType
      <4>6. Cardinality(M) = 1
        <5>1. ~(Cardinality(M) > 1)  BY <4>2, <4>5, <4>9
        <5> QED  BY <4>3, <4>5, <5>1, NotMany
      <4> QED  BY <4>6 DEF M
    <3> QED  BY <3>8, <3>9, <3>10
  <2> QED  BY <2>1, <2>2
<1> QED  BY <1>1, LabInvHolds, PTL

\* RED is not given by mistake.
THEOREM RedIsADefectHolds == Spec => []RedIsADefect
<1>1. ASSUME LabInv  PROVE RedIsADefect
  <2>1. subject \in {"txn", "lock"} /\ JudgedOK  BY <1>1 DEF LabInv, LabTyped
  <2> QED  BY <2>1 DEF RedIsADefect, JudgedOK
<1> QED  BY <1>1, LabInvHolds, PTL
=============================================================================
