------------------------------ MODULE Oracles ------------------------------
(***************************************************************************)
(* The executable oracles of txnlab: O56, O57 and O58 judge one payload of *)
(* evidence.  A payload lacks a field (Nil) when the observer never saw it. *)
(***************************************************************************)
EXTENDS Naturals, FiniteSets

CONSTANTS Keys, Nil

\* Keys are observed one by one, in part or whole: status is Nil when the key's
\* visibility or status was not read, mode when its protocol was not.  ts is 0 when
\* no commit timestamp was read, and agree tells whether the row and its index entry
\* have the same value.
Observation ==
  [visible : BOOLEAN, status : {"absent", "locked", "committed", "rolled_back", Nil},
   ts : Nat, mode : {"async", "2pc", Nil}, agree : BOOLEAN]

Verdicts == {"RED", "GREEN", "INVALID"}

\* The order of the tests: an unproved schedule is judged neither way, and a key
\* set with no outcome yet is not coherent.
Verdict(invalid, red, settled) ==
  CASE invalid -> "INVALID"
    [] ~invalid /\ red -> "RED"
    [] ~invalid /\ ~red /\ ~settled -> "INVALID"
    [] OTHER -> "GREEN"

Observed(p) == {k \in Keys : p.keys[k] # Nil}
Untold(p)   == \E k \in Observed(p) : p.keys[k].status = Nil
Statuses(p) == {p.keys[k].status : k \in Observed(p)}
AllVisible(p) == \A k \in Observed(p) : p.keys[k].visible
NoneVisible(p) == \A k \in Observed(p) : ~p.keys[k].visible
AllCommitted(p) == Statuses(p) = {"committed"}
AllAbsent(p) == Statuses(p) \subseteq {"absent", "rolled_back"}

Settled(p) == (AllVisible(p) /\ AllCommitted(p)) \/ (NoneVisible(p) /\ AllAbsent(p))

\* Mutant of Torn: statuses are not compared.
TornByTimestamp(p) ==
  Cardinality({p.keys[k].ts : k \in Observed(p)} \ {0}) > 1

\* What no transaction leaves behind, whatever it answered.
Torn(p) ==
  \/ ~AllVisible(p) /\ ~NoneVisible(p)
  \/ "committed" \in Statuses(p) /\ Statuses(p) \cap {"absent", "rolled_back", "locked"} # {}
  \/ Cardinality({p.keys[k].ts : k \in Observed(p)} \ {0}) > 1
  \/ \E k \in Observed(p) : ~p.keys[k].agree
  \/ p.duplicates > 1
-----------------------------------------------------------------------------
(* O56 *)

\* Mutant of Contradicted: a client that knows nothing was told of a failure.
ContradictedUnlessSuccess(p) ==
  \/ p.terminal = "success" /\ ~(AllVisible(p) /\ AllCommitted(p))
  \/ p.terminal # "success" /\ (AllVisible(p) \/ AllCommitted(p))

Contradicted(p) ==
  \/ p.terminal = "success" /\ ~(AllVisible(p) /\ AllCommitted(p))
  \/ p.terminal = "failure" /\ (AllVisible(p) \/ AllCommitted(p))

terminal_mvcc_truth(p) ==
  Verdict(p.terminal = Nil \/ Observed(p) = {} \/ (p.suppressed /\ ~p.applied) \/ Untold(p),
          Torn(p) \/ Contradicted(p),
          Settled(p))
-----------------------------------------------------------------------------
(* O58 *)

\* The mode the transaction was resolved in stands in for those of its keys.
Modes(p)   == ({p.keys[k].mode : k \in Observed(p)} \cup {p.resolved}) \ {Nil}
Unmoded(p) == p.resolved = Nil /\ \E k \in Observed(p) : p.keys[k].mode = Nil

protocol_atomic_keyset(p) ==
  Verdict(\/ p.regions < 2 \/ Cardinality(Observed(p)) < 2 \/ p.prefix = {} \/ ~p.fallback
          \/ Untold(p) \/ Unmoded(p),
          Torn(p) \/ Cardinality(Modes(p)) > 1,
          Settled(p))
-----------------------------------------------------------------------------
(* O57 *)

Poisoned == {"rolled_back", "write_conflict", "lock_not_found"}

\* Locks are identities; the consumer committed, or failed with some class.
lock_generation_survival(p) ==
  Verdict(p.old = Nil \/ p.new = Nil \/ p.old = p.new \/ ~p.ordered \/ ~p.cleaned \/ p.consumer = Nil,
          \/ p.after = Nil /\ p.consumer # "committed"
          \/ p.after \notin {Nil, p.new}
          \/ p.consumer \in Poisoned,
          p.consumer = "committed")
=============================================================================
