------------------------ MODULE ReferenceProbeProofs ------------------------
(***************************************************************************)
(* Theorems about ReferenceProbe, for every set of its probes and however  *)
(* far from the defect a call is lost: a run leaves nothing in the cluster *)
(* but what a killed run holds, unless its last cleanup was lost; and a    *)
(* run that exits with 0 has judged every case, but those a killed run     *)
(* holds and those in which a lost call looks like the wanted answer;      *)
(* what it reports is a defect of that case or a call that was lost; and   *)
(* what a DDL does to a reference against what the case says is reported   *)
(* in that case.                                                           *)
(***************************************************************************)
EXTENDS ReferenceProbe, TLAPS, WellFoundedInduction
-----------------------------------------------------------------------------
(* The cases of the masking probe *)

\* A case that has no way out but its own tidying.
NeverSkipped(k) == k.skip = FALSE

\* Masking cases are never skipped.
LEMMA MaskingIs ==
  ASSUME NEW expected, NEW setup, NEW gone, NEW come, NEW extra, NEW checks
  PROVE  NeverSkipped(Masking(expected, setup, gone, come, extra, checks))
  BY DEF NeverSkipped, Masking, Case

\* The probe has thirteen of them.
LEMMA MaskingCases ==
  LET cs == Cases["masking_policy"]
  IN  Len(cs) = 13 /\ \A c \in 1..13 : NeverSkipped(cs[c])
<1> DEFINE cs == Cases["masking_policy"]
<1>1. cs = <<case_table_rename, case_multitable_rename, case_cross_db_rename, case_column_rename,
             case_column_rename, case_modify_supported, case_modify_unsupported_block,
             case_drop_column_cleanup({"p"}), case_drop_column_cleanup({"p"}), case_truncate,
             case_drop_cleanup({"p"}), case_drop_cleanup({"p_1", "p_2"}), case_alter_policy_expr_block>>
  BY DEF Cases, masking_policy
<1> HIDE DEF cs
<1>2. Len(cs) = 13  BY <1>1
<1>3. NeverSkipped(case_table_rename)  BY MaskingIs DEF case_table_rename
<1>4. NeverSkipped(case_multitable_rename)  BY MaskingIs DEF case_multitable_rename
<1>5. NeverSkipped(case_cross_db_rename)  BY MaskingIs DEF case_cross_db_rename
<1>6. NeverSkipped(case_column_rename)  BY MaskingIs DEF case_column_rename
<1>7. NeverSkipped(case_modify_supported)  BY MaskingIs DEF case_modify_supported
<1>8. NeverSkipped(case_modify_unsupported_block)  BY MaskingIs DEF case_modify_unsupported_block
<1>9. \A ps : NeverSkipped(case_drop_column_cleanup(ps)) /\ NeverSkipped(case_drop_cleanup(ps))
  BY MaskingIs DEF case_drop_column_cleanup, case_drop_cleanup
<1>10. NeverSkipped(case_truncate)  BY MaskingIs DEF case_truncate
<1>11. NeverSkipped(case_alter_policy_expr_block)  BY <1>8 DEF case_alter_policy_expr_block
<1>12. ASSUME NEW c \in 1..13  PROVE NeverSkipped(cs[c])
  BY <1>1, <1>3, <1>4, <1>5, <1>6, <1>7, <1>8, <1>9, <1>10, <1>11
<1> QED  BY <1>2, <1>12 DEF cs
-----------------------------------------------------------------------------
(* The invariant *)

\* What a cluster is like that holds no more than a killed run's tables use.
Emptied(w) ==
  /\ Database(w) = {}
  /\ \A f \in w : f[1] = "cluster" => Referenced(f[3], w)

LostAt(places) == loss # <<>> /\ loss[2] \in places

\* The masking probe tidies up after every case and at no other time.
Tidied ==
  probe = "masking_policy" =>
    /\ case \in 1..13 /\ at # "raised"
    /\ at = "finish" => Emptied(world) \/ LostAt({"tidy"})

EndInv ==
  /\ Tidied
  /\ at = "done" =>
       \/ LostAt({"begin", "finish", "raised"})
       \/ probe = "masking_policy" /\ LostAt({"tidy"})
       \/ armed = {} /\ Emptied(world)

\* A cleanup leaves a cluster emptied, whatever was there.
LEMMA CleanedIsEmpty == ASSUME NEW w  PROVE Emptied(Cleaned(w))
<1> DEFINE left == w \ Database(w)
<1>1. Cleaned(w) = {f \in left : f[1] = "cluster" => Referenced(f[3], left)}  BY DEF Cleaned
<1>2. \A f \in left : f[1] \in {"cluster", "old"}  BY DEF Database
<1> HIDE DEF left
<1>3. Database(Cleaned(w)) = {}  BY <1>1, <1>2 DEF Database
<1>4. ASSUME NEW f \in Cleaned(w), f[1] = "cluster"  PROVE Referenced(f[3], Cleaned(w))
  <2>1. PICK g \in left : g[2] = "uses" /\ g[3] = f[3]  BY <1>1, <1>4 DEF Referenced
  <2>2. Referenced(g[3], left)  BY <2>1 DEF Referenced
  <2>3. g \in Cleaned(w)  BY <1>1, <2>1, <2>2
  <2> QED  BY <2>1, <2>3 DEF Referenced
<1> QED  BY <1>3, <1>4 DEF Emptied

-----------------------------------------------------------------------------
(* Steps *)

\* A call that is lost is remembered with the place of the run.
LEMMA LoseIs == ASSUME Lose, NEW places, at \in places  PROVE LostAt(places)'
<1>1. loss' = <<case, at>>  BY DEF Lose
<1>2. loss' # <<>> /\ loss'[2] = at  BY <1>1
<1> QED  BY <1>2 DEF LostAt

\* The masking probe's setup is not skipped when it fails: the case is tidied up.
LEMMA MaskingRaises ==
  ASSUME EndInv, probe = "masking_policy"
  PROVE  /\ Current.skip = FALSE /\ Last = 13
         /\ Raise => at' = "tidy" /\ UNCHANGED case
         /\ Unsupported => at' = "tidy" /\ UNCHANGED case
<1>1. case \in 1..13  BY DEF EndInv, Tidied
<1>2. NeverSkipped(Cases["masking_policy"][case]) /\ Len(Cases["masking_policy"]) = 13  BY <1>1, MaskingCases
<1>3. Current.skip = FALSE /\ Last = 13  BY <1>2 DEF NeverSkipped, Current, Last
<1>4. Raise => at' = "tidy" /\ UNCHANGED case  BY DEF Raise
<1> QED  BY <1>3, <1>4 DEF Unsupported

\* A step that is at the end neither before nor after keeps the invariant, provided the
\* masking probe goes on with the same case.
LEMMA OnItsWay ==
  ASSUME EndInv, UNCHANGED probe, at' # "done",
         probe = "masking_policy" => case' \in 1..13 /\ at' \notin {"raised", "finish"}
  PROVE  EndInv'
  BY DEF EndInv, Tidied

\* A verdict ends the case.
LEMMA VerdictIs ==
  ASSUME NEW v, Verdict(v)
  PROVE  /\ at' \in {"finish", "prepare"}
         /\ (case \in 1..13 /\ Last = 13) => case' \in 1..13
<1>1. CASE case = Last  BY <1>1 DEF Verdict
<1>2. CASE case # Last  BY <1>2 DEF Verdict
<1> QED  BY <1>1, <1>2

\* A setup, failed or not, leads to the DDL, to the next case or to the end.
LEMMA SetUpIs ==
  ASSUME EndInv, NEW w, SetUp(w)
  PROVE  at' # "done" /\ (probe = "masking_policy" => UNCHANGED case /\ at' \notin {"raised", "finish"})
<1>1. CASE Clashes(w) = {}  BY <1>1 DEF SetUp
<1>2. CASE Clashes(w) # {}
  <2>1. Unsupported  BY <1>2 DEF SetUp
  <2>2. at' # "done"  BY <2>1, VerdictIs DEF Unsupported, Raise
  <2> QED  BY <2>1, <2>2, MaskingRaises
<1> QED  BY <1>1, <1>2

\* A run starts with nothing done.
LEMMA EndInit == Init => EndInv
<1> SUFFICES ASSUME Init  PROVE EndInv  OBVIOUS
<1>1. case = 1 /\ at = "begin"  BY DEF Init
<1> QED  BY <1>1 DEF EndInv, Tidied

\* Each of its steps keeps what its end needs.
LEMMA EndStep == EndInv /\ [Next]_vars => EndInv'
<1> SUFFICES ASSUME EndInv, [Next]_vars  PROVE EndInv'  OBVIOUS
<1>c. probe = "masking_policy" => case \in 1..13  BY DEF EndInv, Tidied
<1>1. CASE Begin
  <2>1. UNCHANGED <<probe, case>>  BY <1>1 DEF Begin
  <2>2. CASE at' = "prepare"  BY <1>c, <2>1, <2>2, OnItsWay
  <2>3. CASE Lose /\ at' = "done"
    <3>1. LostAt({"begin", "finish", "raised"})'  BY <1>1, <2>3, LoseIs DEF Begin
    <3> QED  BY <1>c, <2>1, <2>3, <3>1 DEF EndInv, Tidied
  <2> QED  BY <1>1, <2>2, <2>3 DEF Begin
<1>2. CASE Prepare
  <2>1. SetUp(Cleaned(world)) /\ UNCHANGED probe  BY <1>2 DEF Prepare
  <2> QED  BY <1>c, <2>1, SetUpIs, OnItsWay
<1>3. CASE PrepareLost
  <2>1. UNCHANGED probe  BY <1>3 DEF PrepareLost
  <2>2. ASSUME NEW w, SetUp(w)  PROVE EndInv'  BY <1>c, <2>1, <2>2, SetUpIs, OnItsWay
  <2>3. CASE Raise
    <3>1. at' # "done"  BY <2>3 DEF Raise
    <3> QED  BY <1>c, <2>1, <2>3, <3>1, MaskingRaises, OnItsWay
  <2>4. CASE Unsupported
    <3>1. at' # "done"  BY <2>4, VerdictIs DEF Unsupported, Raise
    <3> QED  BY <1>c, <2>1, <2>4, <3>1, MaskingRaises, OnItsWay
  <2>5. SetUpLost(Cleaned(world)) => Unsupported  BY DEF SetUpLost
  <2> QED  BY <1>3, <2>2, <2>3, <2>4, <2>5 DEF PrepareLost
<1>4. CASE Arm
  <2>1. UNCHANGED probe  BY <1>4 DEF Arm
  <2>2. CASE at' = "alter" /\ UNCHANGED case  BY <1>c, <2>1, <2>2, OnItsWay
  <2>3. CASE Raise
    <3>1. at' # "done"  BY <2>3 DEF Raise
    <3> QED  BY <1>c, <2>1, <2>3, <3>1, MaskingRaises, OnItsWay
  <2> QED  BY <1>4, <2>2, <2>3 DEF Arm
<1>5. CASE Alter
  <2>1. UNCHANGED <<probe, case>> /\ at' \in {"judge", "disarm"}  BY <1>5 DEF Alter, AfterAlter
  <2> QED  BY <1>c, <2>1, OnItsWay
<1>6. CASE Disarm
  <2>1. UNCHANGED <<probe, case>> /\ at' = "judge"  BY <1>6 DEF Disarm
  <2> QED  BY <1>c, <2>1, OnItsWay
<1>7. CASE Judge
  <2>1. UNCHANGED <<probe, case>> /\ at' \in {"look", "tidy"}  BY <1>7 DEF Judge
  <2> QED  BY <1>c, <2>1, OnItsWay
<1>8. CASE Look
  <2>1. UNCHANGED <<probe, case>>  BY <1>8 DEF Look
  <2>2. \E b : Seen(b)  BY <1>8 DEF Look
  <2>3. at' \in {"look", "tidy"}  BY <2>2 DEF Seen
  <2> QED  BY <1>c, <2>1, <2>3, OnItsWay
<1>9. CASE Tidy
  <2>1. UNCHANGED probe /\ \E v : Verdict(v)  BY <1>9 DEF Tidy
  <2>2. at' \in {"finish", "prepare"}  BY <2>1, VerdictIs
  <2>3. CASE probe # "masking_policy"  BY <2>1, <2>2, <2>3, OnItsWay
  <2>4. CASE probe = "masking_policy"
    <3>1. case' \in 1..13  BY <1>c, <2>1, <2>4, VerdictIs, MaskingRaises
    <3>2. Emptied(world)' \/ LostAt({"tidy"})'
      <4>1. CASE world' = Cleaned(world)  BY <4>1, CleanedIsEmpty DEF Emptied, Database, Referenced
      <4>2. CASE Lose  BY <1>9, <4>2, LoseIs DEF Tidy
      <4> QED  BY <1>9, <2>4, <4>1, <4>2 DEF Tidy
    <3> QED  BY <2>1, <2>2, <3>1, <3>2 DEF EndInv, Tidied
  <2> QED  BY <2>3, <2>4
<1>10. CASE Finish
  <2>1. UNCHANGED <<probe, case>> /\ at' = "done" /\ FinishClean  BY <1>10 DEF Finish
  <2>2. at \in {"finish", "raised"}  BY <2>1 DEF FinishClean
  <2>3. CASE Lose
    <3>1. LostAt({"begin", "finish", "raised"})'  BY <2>2, <2>3, LoseIs
    <3> QED  BY <1>c, <2>1, <3>1 DEF EndInv, Tidied
  <2>4. CASE armed' = {} /\ world' = Cleaned(world)
    <3>1. Emptied(world)'  BY <2>4, CleanedIsEmpty DEF Emptied, Database, Referenced
    <3> QED  BY <1>c, <2>1, <2>4, <3>1 DEF EndInv, Tidied
  <2>5. CASE probe = "masking_policy" /\ armed' = {} /\ UNCHANGED <<world, loss>>
    <3>1. Emptied(world) \/ LostAt({"tidy"})  BY <2>2, <2>5 DEF EndInv, Tidied
    <3>2. Emptied(world)' \/ LostAt({"tidy"})'  BY <2>5, <3>1 DEF Emptied, Database, Referenced, LostAt
    <3> QED  BY <1>c, <2>1, <2>5, <3>2 DEF EndInv, Tidied
  <2> QED  BY <2>1, <2>3, <2>4, <2>5 DEF FinishClean
<1>11. CASE Kill
  <2>1. probe # "masking_policy" /\ UNCHANGED probe /\ at' = "begin"  BY <1>11 DEF Kill, Tolerant
  <2> QED  BY <2>1, OnItsWay
<1>12. CASE UNCHANGED vars
  BY <1>12 DEF vars, EndInv, Tidied, LostAt, Emptied, Database, Referenced
<1> QED  BY <1>1, <1>2, <1>3, <1>4, <1>5, <1>6, <1>7, <1>8, <1>9, <1>10, <1>11, <1>12 DEF Next

\* In every state of a run, however its calls are lost: the masking probe has tidied up
\* after its cases, and a run of any of the four ends with everything taken away or with
\* the cleanup lost that nothing repeats.
THEOREM EndInvHolds == Spec => []EndInv
<1> QED  BY EndInit, EndStep, PTL DEF Spec
-----------------------------------------------------------------------------
\* NothingLeft for every choice of probes and every distance of a lost call from the
\* defect: a run that ends leaves no failpoint, no table of its own and only the policies
\* that the tables of a killed run still use, unless its last cleanup was lost.
THEOREM NothingLeftHolds == Spec => []NothingLeft
<1>1. EndInv => NothingLeft  BY DEF EndInv, NothingLeft, LostAt, Emptied
<1> QED  BY <1>1, EndInvHolds, PTL
-----------------------------------------------------------------------------
(* What every case is made of *)

\* A setup makes no fact of a killed run, and a policy before it is used.
SetupFits(s) ==
  /\ Len(s) \in Nat /\ DOMAIN s = 1..Len(s)
  /\ \A n \in DOMAIN s : \A f \in s[n] :
       /\ f[1] # "old"
       /\ f[1] = "cluster" => f = Has("cluster", f[3])
       /\ f[2] = "uses" => \E m \in 1..n : Has("cluster", f[3]) \in s[m]

\* The DDL takes away and makes facts of the run's own database, and uses only
\* policies that are there.
ChangeFits(s, gone, come, extra) ==
  /\ \A f \in gone \cup come \cup extra : f[1] \notin {"cluster", "old"}
  /\ \A f \in come : f[2] = "uses" => \E m \in DOMAIN s : Has("cluster", f[3]) \in s[m]

\* What is looked at is a list.
Listed(s) == Len(s) \in Nat \ {0} /\ DOMAIN s = 1..Len(s)

CaseFields == {"owner", "expected", "setup", "gone", "come", "extra", "checks", "family", "known", "skip", "failpoint"}

WellMade(k) ==
  /\ DOMAIN k = CaseFields
  /\ SetupFits(k.setup) /\ ChangeFits(k.setup, k.gone, k.come, k.extra)
  /\ Listed(k.checks) \/ (k.checks = <<>> /\ k.expected = "block")
  /\ k.expected = "block" /\ ~k.known => k.family
  /\ k.expected = "block" /\ k.known => ~k.family /\ k.checks = <<>>
  /\ k.expected = "known_control" => k.known

\* A case is as well made as its setup and its change.
LEMMA CaseFits ==
  ASSUME NEW owner, NEW expected, NEW s, NEW gone, NEW come, NEW extra, NEW checks,
         SetupFits(s), ChangeFits(s, gone, come, extra), expected # "known_control",
         Listed(checks) \/ (checks = <<>> /\ expected = "block")
  PROVE  WellMade(Case(owner, expected, s, gone, come, extra, checks))
  BY DEF WellMade, Case, CaseFields

\* Marking it as one that may be skipped, or that needs a failpoint, changes nothing here.
LEMMA MarkedFits ==
  ASSUME NEW k, WellMade(k), NEW f
  PROVE  WellMade(Skips(k)) /\ WellMade([k EXCEPT !.failpoint = f])
<1>1. WellMade(Skips(k))
  <2> DEFINE x == Skips(k)
  <2>1. DOMAIN x = CaseFields /\ x.setup = k.setup /\ x.gone = k.gone /\ x.come = k.come /\ x.extra = k.extra
        /\ x.checks = k.checks /\ x.expected = k.expected /\ x.known = k.known /\ x.family = k.family
    BY DEF Skips, WellMade, CaseFields
  <2> HIDE DEF x
  <2> QED  BY <2>1 DEF WellMade, x
<1>2. WellMade([k EXCEPT !.failpoint = f])
  <2> DEFINE x == [k EXCEPT !.failpoint = f]
  <2>1. DOMAIN x = CaseFields /\ x.setup = k.setup /\ x.gone = k.gone /\ x.come = k.come /\ x.extra = k.extra
        /\ x.checks = k.checks /\ x.expected = k.expected /\ x.known = k.known /\ x.family = k.family
    BY DEF WellMade, CaseFields
  <2> HIDE DEF x
  <2> QED  BY <2>1 DEF WellMade, x
<1> QED  BY <1>1, <1>2

\* What is looked at, written out.
LEMMA ListsAre ==
  /\ \A a : Listed(<<a>>)
  /\ \A a, b : Listed(<<a, b>>)
  /\ \A a, b, c : Listed(<<a, b, c>>)
  /\ \A a, b, c, d : Listed(<<a, b, c, d>>)
  /\ \A a, b, c, d, e : Listed(<<a, b, c, d, e>>)
  BY DEF Listed

\* The lists that the cases share.
LEMMA OraclesAre ==
  /\ \A old, new : Listed(require_policy_rewritten(old, new))
  /\ Listed(placement_remove_partitioning_oracle) /\ Listed(alter_policy_table_dependency_oracle)
  /\ Listed(alter_policy_partition_dependency_oracle) /\ Listed(placement_drop_partition_releases_policy_oracle)
  /\ Listed(placement_truncate_partition_preserves_policy_oracle)
  /\ Listed(global_partition_by_oracle) /\ Listed(global_remove_partitioning_oracle)
  /\ Listed(global_partition_rowset_oracle) /\ \A exact : Listed(mixed_remove_partitioning_oracle(exact))
  /\ Listed(policy_and_nonpartitioned_rollback_oracle) /\ Listed(remove_partitioning_rollback_oracle)
  /\ \A exact : Listed(truncate_oracle(exact))
  /\ Listed(partition_by_retry_success_oracle) /\ Listed(remove_partitioning_retry_success_oracle)
  /\ Listed(check_known_check_loss) /\ \A fact : Listed(require_show_create_contains(fact))
  /\ \A side, column : Listed(fk_oracle(side, column))
<1>1. \A old, new : Listed(require_policy_rewritten(old, new))  BY ListsAre DEF require_policy_rewritten
<1>2. Listed(placement_remove_partitioning_oracle)  BY ListsAre DEF placement_remove_partitioning_oracle
<1>3. Listed(alter_policy_table_dependency_oracle)  BY ListsAre DEF alter_policy_table_dependency_oracle
<1>4. Listed(alter_policy_partition_dependency_oracle)  BY ListsAre DEF alter_policy_partition_dependency_oracle
<1>5. Listed(placement_drop_partition_releases_policy_oracle)
  BY ListsAre DEF placement_drop_partition_releases_policy_oracle
<1>6. Listed(placement_truncate_partition_preserves_policy_oracle)
  BY ListsAre DEF placement_truncate_partition_preserves_policy_oracle
<1>7. Listed(global_partition_by_oracle)
  <2> DEFINE a == Show(TwoIndexes \cup {Global}, {Marked("idx_b", "global")})
             b == AdminCheck
             c == SameRows("idx_a", {})
             S == {a, b, c}
             r == <<a, b>> \o <<c>>
  <2>1. <<a, b>> \in Seq(S) /\ <<c>> \in Seq(S) /\ Len(<<a, b>>) = 2 /\ Len(<<c>>) = 1  OBVIOUS
  <2>2. global_partition_by_oracle = r  BY DEF global_partition_by_oracle, require_index_global_status
  <2> HIDE DEF S, a, b, c
  <2>3. r \in Seq(S) /\ Len(r) = Len(<<a, b>>) + Len(<<c>>)  BY <2>1
  <2> HIDE DEF r
  <2> QED  BY <2>1, <2>2, <2>3 DEF Listed
<1>8. Listed(global_remove_partitioning_oracle)  BY ListsAre DEF global_remove_partitioning_oracle
<1>9. Listed(global_partition_rowset_oracle)  BY ListsAre DEF global_partition_rowset_oracle
<1>10. \A exact : Listed(mixed_remove_partitioning_oracle(exact))  BY ListsAre DEF mixed_remove_partitioning_oracle
<1>11. Listed(policy_and_nonpartitioned_rollback_oracle)  BY ListsAre DEF policy_and_nonpartitioned_rollback_oracle
<1>12. Listed(remove_partitioning_rollback_oracle)  BY ListsAre DEF remove_partitioning_rollback_oracle
<1>13. \A exact : Listed(truncate_oracle(exact))  BY ListsAre DEF truncate_oracle
<1>14. Listed(partition_by_retry_success_oracle)  BY ListsAre DEF partition_by_retry_success_oracle
<1>15. Listed(remove_partitioning_retry_success_oracle)  BY <1>10 DEF remove_partitioning_retry_success_oracle
<1>16. Listed(check_known_check_loss)  BY ListsAre DEF check_known_check_loss
<1>17. \A fact : Listed(require_show_create_contains(fact))  BY ListsAre DEF require_show_create_contains
<1>18. \A side, column : Listed(fk_oracle(side, column))  BY ListsAre DEF fk_oracle
<1> QED  BY <1>1, <1>2, <1>3, <1>4, <1>5, <1>6, <1>7, <1>8, <1>9, <1>10, <1>11, <1>12, <1>13, <1>14, <1>15, <1>16,
            <1>17, <1>18

\* What a case without placement is made of.
Unplaced(A) == \A f \in A : f[1] \notin {"cluster", "old"} /\ f[2] # "uses"

\* A table and nothing but relations of its own.
LEMMA UnplacedAre ==
  /\ \A A, B : Unplaced(A) /\ Unplaced(B) => Unplaced(A \cup B)
  /\ \A A : Unplaced(A) => Unplaced(Table(A))
  /\ \A y : \A x \in {"db", "t", "masking"} : Unplaced({Has(x, y)})
  /\ \A y : \A x \in {"t", "idx_a", "idx_b"} : Unplaced({Marked(x, y)})
  /\ \A x, c : x \notin {"cluster", "old"} => Unplaced({Reads(x, c)}) /\ Unplaced({Enforces(x)})
  /\ \A xs, ps : xs \subseteq {"t", "idx_a", "idx_b"} => Unplaced(Rows(xs, ps))
  /\ Unplaced({Partitioned}) /\ Unplaced({Global}) /\ Unplaced({})
  BY DEF Unplaced, Table, Has, Marked, Reads, Enforces, Rows, Row, Partitioned, Global

\* Setups without placement.
LEMMA UnplacedFits ==
  ASSUME NEW s, Len(s) \in Nat, DOMAIN s = 1..Len(s), \A n \in DOMAIN s : Unplaced(s[n]),
         NEW gone, NEW come, NEW extra, Unplaced(gone), Unplaced(come), Unplaced(extra)
  PROVE  SetupFits(s) /\ ChangeFits(s, gone, come, extra)
  BY DEF SetupFits, ChangeFits, Unplaced

\* Setups that make policies first and then what uses them.
Policing(A) == \A f \in A : f = Has("cluster", f[3]) \/ (f[1] \notin {"cluster", "old"} /\ f[2] # "uses")
Placing(A, policies) == \A f \in A : f[1] \notin {"cluster", "old"} /\ (f[2] = "uses" => f[3] \in policies)

\* No policy is used before the first k statements have made it.
LEMMA PlacedFits ==
  ASSUME NEW s, Len(s) \in Nat, DOMAIN s = 1..Len(s), NEW policies, NEW k \in Nat,
         \A n \in DOMAIN s : IF n <= k THEN Policing(s[n]) ELSE Placing(s[n], policies),
         \A p \in policies : \E m \in DOMAIN s : m <= k /\ Has("cluster", p) \in s[m]
  PROVE  SetupFits(s)
<1> SUFFICES ASSUME NEW n \in DOMAIN s, NEW f \in s[n]
             PROVE  /\ f[1] # "old"
                    /\ f[1] = "cluster" => f = Has("cluster", f[3])
                    /\ f[2] = "uses" => \E m \in 1..n : Has("cluster", f[3]) \in s[m]
  BY DEF SetupFits
<1>1. CASE n <= k
  <2>1. f = Has("cluster", f[3]) \/ (f[1] \notin {"cluster", "old"} /\ f[2] # "uses")  BY <1>1 DEF Policing
  <2>2. f = Has("cluster", f[3]) => f[1] = "cluster" /\ f[2] = "has"  BY DEF Has
  <2> QED  BY <2>1, <2>2
<1>2. CASE ~(n <= k)
  <2>1. f[1] \notin {"cluster", "old"} /\ (f[2] = "uses" => f[3] \in policies)  BY <1>2 DEF Placing
  <2>2. ASSUME f[2] = "uses"  PROVE \E m \in 1..n : Has("cluster", f[3]) \in s[m]
    <3>1. PICK m \in DOMAIN s : m <= k /\ Has("cluster", f[3]) \in s[m]  BY <2>1, <2>2
    <3> QED  BY <1>2, <3>1
  <2> QED  BY <2>1, <2>2
<1> QED  BY <1>1, <1>2

\* The parts of setups with policies.
LEMMA PlacingAre ==
  /\ \A p : Policing(Policy(p)) /\ Policing(Policy(p) \cup {Followers("1")}) /\ Has("cluster", p) \in Policy(p)
  /\ \A A, B, ps : Placing(A, ps) /\ Placing(B, ps) => Placing(A \cup B, ps)
  /\ \A A, ps : Unplaced(A) => Placing(A, ps)
  /\ \A A, ps : Placing(A, ps) => Placing(Table(A), ps)
  /\ \A x, p, ps : x \notin {"cluster", "old"} /\ p \in ps => Placing({Uses(x, p)}, ps)
<1>1. \A p : Policing(Policy(p)) /\ Policing(Policy(p) \cup {Followers("1")}) /\ Has("cluster", p) \in Policy(p)
  BY DEF Policing, Policy, Followers, Has
<1>2. \A A, B, ps : Placing(A, ps) /\ Placing(B, ps) => Placing(A \cup B, ps)  BY DEF Placing
<1>3. \A A, ps : Unplaced(A) => Placing(A, ps)  BY DEF Placing, Unplaced
<1>4. \A ps : Placing({Has("db", "t")}, ps)  BY DEF Placing, Has
<1>5. \A A, ps : Placing(A, ps) => Placing(Table(A), ps)  BY <1>2, <1>4 DEF Table
<1>6. \A x, p, ps : x \notin {"cluster", "old"} /\ p \in ps => Placing({Uses(x, p)}, ps)  BY DEF Placing, Uses
<1> QED  BY <1>1, <1>2, <1>3, <1>5, <1>6

\* Setups of one or two policies and a table that uses them.
LEMMA OnePolicy ==
  ASSUME NEW p, NEW A, Placing(A, {p}), NEW B, Unplaced(B)
  PROVE  SetupFits(<<Policy(p), A>>) /\ SetupFits(<<Policy(p) \cup {Followers("1")}, A>>)
         /\ SetupFits(<<Policy(p), A, B>>)
<1>1. Placing(B, {p})  BY PlacingAre
<1>2. ASSUME NEW s, Len(s) = 2 \/ (Len(s) = 3 /\ s[3] = B), DOMAIN s = 1..Len(s), s[2] = A, Policing(s[1]),
             Has("cluster", p) \in s[1]
      PROVE  SetupFits(s)
  <2>1. \A n \in DOMAIN s : n = 1 \/ (n = 2 /\ s[n] = A) \/ (n = 3 /\ s[n] = B)  BY <1>2
  <2>2. \A n \in DOMAIN s : IF n <= 1 THEN Policing(s[n]) ELSE Placing(s[n], {p})  BY <1>1, <1>2, <2>1
  <2>3. \A q \in {p} : \E m \in DOMAIN s : m <= 1 /\ Has("cluster", q) \in s[m]  BY <1>2
  <2>4. Len(s) \in Nat /\ 1 \in Nat  BY <1>2
  <2> QED  BY <1>2, <2>2, <2>3, <2>4, PlacedFits
<1>3. Policing(Policy(p)) /\ Policing(Policy(p) \cup {Followers("1")}) /\ Has("cluster", p) \in Policy(p)
  BY PlacingAre
<1>4. SetupFits(<<Policy(p), A>>)  BY <1>2, <1>3
<1>5. SetupFits(<<Policy(p) \cup {Followers("1")}, A>>)
  <2> DEFINE P == Policy(p) \cup {Followers("1")}
  <2>1. Policing(P) /\ Has("cluster", p) \in P  BY <1>3
  <2> HIDE DEF P
  <2>2. SetupFits(<<P, A>>)  BY <1>2, <2>1
  <2> QED  BY <2>2 DEF P
<1>6. SetupFits(<<Policy(p), A, B>>)  BY <1>2, <1>3
<1> QED  BY <1>4, <1>5, <1>6

\* The same of two policies.
LEMMA TwoPolicies ==
  ASSUME NEW p, NEW q, NEW A, Placing(A, {p, q}), NEW B, Unplaced(B)
  PROVE  SetupFits(<<Policy(p), Policy(q), A>>) /\ SetupFits(<<Policy(p), Policy(q), A, B>>)
<1>1. Placing(B, {p, q})  BY PlacingAre
<1>2. ASSUME NEW s, Len(s) = 3 \/ (Len(s) = 4 /\ s[4] = B), DOMAIN s = 1..Len(s), s[3] = A,
             s[1] = Policy(p), s[2] = Policy(q)
      PROVE  SetupFits(s)
  <2>1. \A n \in DOMAIN s : n = 1 \/ n = 2 \/ (n = 3 /\ s[n] = A) \/ (n = 4 /\ s[n] = B)  BY <1>2
  <2>0. \A r : Policing(Policy(r)) /\ Has("cluster", r) \in Policy(r)  BY PlacingAre
  <2>2. Policing(s[1]) /\ Policing(s[2]) /\ Has("cluster", p) \in s[1] /\ Has("cluster", q) \in s[2]
    BY <1>2, <2>0
  <2>3. \A n \in DOMAIN s : IF n <= 2 THEN Policing(s[n]) ELSE Placing(s[n], {p, q})  BY <1>1, <1>2, <2>1, <2>2
  <2>4. 1 \in DOMAIN s /\ 2 \in DOMAIN s  BY <1>2
  <2>5. \A r \in {p, q} : \E m \in DOMAIN s : m <= 2 /\ Has("cluster", r) \in s[m]  BY <2>2, <2>4
  <2>6. Len(s) \in Nat /\ 2 \in Nat  BY <1>2
  <2> QED  BY <1>2, <2>3, <2>5, <2>6, PlacedFits
<1>3. SetupFits(<<Policy(p), Policy(q), A>>)  BY <1>2
<1>4. SetupFits(<<Policy(p), Policy(q), A, B>>)  BY <1>2
<1> QED  BY <1>3, <1>4

\* Setups of one to three statements without placement.
LEMMA FewUnplaced ==
  ASSUME NEW a, NEW b, NEW c, Unplaced(a), Unplaced(b), Unplaced(c)
  PROVE  SetupFits(<<a>>) /\ SetupFits(<<a, b>>) /\ SetupFits(<<a, b, c>>)
<1>1. Unplaced({})  BY UnplacedAre
<1>2. ASSUME NEW s, Len(s) \in 1..3, DOMAIN s = 1..Len(s), \A n \in DOMAIN s : Unplaced(s[n])  PROVE SetupFits(s)
  <2>1. Len(s) \in Nat  BY <1>2
  <2> QED  BY <1>1, <1>2, <2>1, UnplacedFits
<1>3. SetupFits(<<a>>)
  <2> DEFINE s == <<a>>
  <2>1. Len(s) = 1 /\ DOMAIN s = 1..1 /\ s[1] = a  OBVIOUS
  <2> HIDE DEF s
  <2>2. \A n \in DOMAIN s : n = 1  BY <2>1
  <2>3. SetupFits(s)  BY <1>2, <2>1, <2>2
  <2> QED  BY <2>3 DEF s
<1>4. SetupFits(<<a, b>>)
  <2> DEFINE s == <<a, b>>
  <2>1. Len(s) = 2 /\ DOMAIN s = 1..2 /\ s[1] = a /\ s[2] = b  OBVIOUS
  <2> HIDE DEF s
  <2>2. \A n \in DOMAIN s : n = 1 \/ n = 2  BY <2>1
  <2>3. SetupFits(s)  BY <1>2, <2>1, <2>2
  <2> QED  BY <2>3 DEF s
<1>5. SetupFits(<<a, b, c>>)
  <2> DEFINE s == <<a, b, c>>
  <2>1. Len(s) = 3 /\ DOMAIN s = 1..3 /\ s[1] = a /\ s[2] = b /\ s[3] = c  OBVIOUS
  <2> HIDE DEF s
  <2>2. \A n \in DOMAIN s : n = 1 \/ n = 2 \/ n = 3  BY <2>1
  <2>3. SetupFits(s)  BY <1>2, <2>1, <2>2
  <2> QED  BY <2>3 DEF s
<1> QED  BY <1>3, <1>4, <1>5

\* The sets of facts the cases share.
LEMMA SharedFacts ==
  /\ Unplaced(TwoIndexes) /\ Unplaced(Filled({"idx_b"})) /\ Unplaced(Filled({"idx_a", "idx_b"}))
  /\ Unplaced(Rows({"t", "idx_b"}, {"p0"})) /\ Unplaced({Marked("idx_b", "global")})
  /\ Unplaced({Global, Partitioned}) /\ Unplaced({Has("t", "idx_b"), Marked("idx_b", "global")})
  /\ Placing(BothPlaced, {"pp_table", "pp_part"})
<1>1. Unplaced(TwoIndexes) /\ Unplaced({Has("t", "idx_b"), Marked("idx_b", "global")})
  BY DEF TwoIndexes, Unplaced, Has, Marked
<1>2. Unplaced(Filled({"idx_b"})) /\ Unplaced(Filled({"idx_a", "idx_b"})) /\ Unplaced(Rows({"t", "idx_b"}, {"p0"}))
  BY DEF Filled, Unplaced, Rows, Row
<1>3. Unplaced({Marked("idx_b", "global")}) /\ Unplaced({Global, Partitioned})
  BY DEF Unplaced, Marked, Global, Partitioned
<1>4. Placing(BothPlaced, {"pp_table", "pp_part"})  BY DEF Placing, BothPlaced, Uses
<1> QED  BY <1>1, <1>2, <1>3, <1>4

\* Placement policies.
LEMMA PlacementCases ==
  /\ \A h \in {"t", "p0"} : WellMade(placement_drop_policy_block(h)) /\ WellMade(placement_policy_rewrite(h))
  /\ WellMade(placement_remove_partitioning_releases_partition_policy)
  /\ WellMade(placement_multischema_table_policy_remove_partitioning_block)
  /\ WellMade(placement_alter_policy_table_dependency_preserved)
  /\ WellMade(placement_alter_policy_partition_dependency_preserved)
  /\ WellMade(placement_drop_partition_releases_partition_policy)
  /\ WellMade(placement_truncate_partition_preserves_partition_policy)
<1>0. \A s : ChangeFits(s, {}, {}, {})  BY DEF ChangeFits
<1>a. ASSUME NEW owner, NEW s, SetupFits(s)  PROVE WellMade(Skips(Blocked(owner, s)))
  <2>1. ChangeFits(s, {}, {}, {})  BY <1>0
  <2> QED  BY <1>a, <2>1, CaseFits, MarkedFits DEF Blocked
<1>b. ASSUME NEW s, NEW gone, NEW come, NEW checks, SetupFits(s), ChangeFits(s, gone, come, {}), Listed(checks)
      PROVE  WellMade(Placement(s, gone, come, checks))
  BY <1>b, CaseFits, MarkedFits DEF Placement
<1>1. ASSUME NEW h \in {"t", "p0"}  PROVE WellMade(placement_drop_policy_block(h))
  <2> DEFINE A == Table({Uses(h, "pp1")})
  <2>1. Placing(A, {"pp1"}) /\ Unplaced({})  BY PlacingAre, UnplacedAre
  <2> HIDE DEF A
  <2>2. SetupFits(<<Policy("pp1"), A>>)  BY <2>1, OnePolicy
  <2> QED  BY <1>a, <2>2 DEF placement_drop_policy_block, A
<1>2. ASSUME NEW h \in {"t", "p0"}  PROVE WellMade(placement_policy_rewrite(h))
  <2> DEFINE A == Table({Uses(h, "pp1")})
             s == <<Policy("pp1"), Policy("pp2"), A>>
  <2>1. Placing(A, {"pp1", "pp2"}) /\ Unplaced({})  BY PlacingAre, UnplacedAre
  <2> HIDE DEF A
  <2>2. SetupFits(s)  BY <2>1, TwoPolicies
  <2>3. 2 \in DOMAIN s /\ Has("cluster", "pp2") \in s[2]  BY DEF Policy
  <2> HIDE DEF s
  <2>4. ChangeFits(s, {Uses(h, "pp1")}, {Uses(h, "pp2")}, {})
    <3>1. Uses(h, "pp1")[1] = h /\ Uses(h, "pp2")[1] = h /\ Uses(h, "pp2")[3] = "pp2"  BY DEF Uses
    <3> QED  BY <2>3, <3>1 DEF ChangeFits
  <2> QED  BY <1>b, <2>2, <2>4, OraclesAre DEF placement_policy_rewrite, s, A
<1>3. WellMade(placement_remove_partitioning_releases_partition_policy)
  <2> DEFINE A == Table(BothPlaced \cup {Partitioned})
             s == <<Policy("pp_table"), Policy("pp_part"), A, {}>>
  <2>1. Placing(A, {"pp_table", "pp_part"}) /\ Unplaced({})  BY PlacingAre, UnplacedAre, SharedFacts
  <2> HIDE DEF A
  <2>2. SetupFits(s)  BY <2>1, TwoPolicies
  <2> HIDE DEF s
  <2>3. ChangeFits(s, {Partitioned, Uses("p0", "pp_part")}, {}, {})  BY DEF ChangeFits, Partitioned, Uses
  <2> QED  BY <1>b, <2>2, <2>3, OraclesAre DEF placement_remove_partitioning_releases_partition_policy, s, A
<1>4. WellMade(placement_multischema_table_policy_remove_partitioning_block)
  <2> DEFINE A == Table({Partitioned})
  <2>1. Placing(A, {"pp1"}) /\ Unplaced({})  BY PlacingAre, UnplacedAre
  <2> HIDE DEF A
  <2>2. SetupFits(<<Policy("pp1"), A>>)  BY <2>1, OnePolicy
  <2> QED  BY <1>a, <2>2 DEF placement_multischema_table_policy_remove_partitioning_block, A
<1>5. \A s : ChangeFits(s, {Followers("1")}, {Followers("2")}, {})  BY DEF ChangeFits, Followers
<1>6. WellMade(placement_alter_policy_table_dependency_preserved)
  <2> DEFINE A == Table({Uses("t", "pp1")})
  <2>1. Placing(A, {"pp1"}) /\ Unplaced({})  BY PlacingAre, UnplacedAre
  <2> HIDE DEF A
  <2>2. SetupFits(<<Policy("pp1") \cup {Followers("1")}, A>>)  BY <2>1, OnePolicy
  <2> QED  BY <1>b, <1>5, <2>2, OraclesAre DEF placement_alter_policy_table_dependency_preserved, A
<1>7. Placing(Table({Has("t", "p0"), Uses("p0", "pp1")}), {"pp1"})
      /\ Placing(Table({Has("t", "p0"), Uses("p0", "pp_part")}), {"pp_part"})
  BY DEF Placing, Table, Has, Uses
<1>8. WellMade(placement_alter_policy_partition_dependency_preserved)
  <2> DEFINE A == Table({Has("t", "p0"), Uses("p0", "pp1")})
  <2>1. Placing(A, {"pp1"}) /\ Unplaced({})  BY <1>7, UnplacedAre
  <2> HIDE DEF A
  <2>2. SetupFits(<<Policy("pp1") \cup {Followers("1")}, A>>)  BY <2>1, OnePolicy
  <2> QED  BY <1>b, <1>5, <2>2, OraclesAre DEF placement_alter_policy_partition_dependency_preserved, A
<1>9. SetupFits(PartPlaced)
  <2> DEFINE A == Table({Has("t", "p0"), Uses("p0", "pp_part")})
  <2>1. Placing(A, {"pp_part"}) /\ Unplaced({})  BY <1>7, UnplacedAre
  <2> HIDE DEF A
  <2>2. SetupFits(<<Policy("pp_part"), A, {}>>)  BY <2>1, OnePolicy
  <2> QED  BY <2>2 DEF PartPlaced, A
<1>10. WellMade(placement_drop_partition_releases_partition_policy)
  <2>1. ChangeFits(PartPlaced, {Has("t", "p0"), Uses("p0", "pp_part")}, {}, {})  BY DEF ChangeFits, Has, Uses
  <2> QED  BY <1>b, <1>9, <2>1, OraclesAre DEF placement_drop_partition_releases_partition_policy
<1>11. WellMade(placement_truncate_partition_preserves_partition_policy)
  BY <1>0, <1>b, <1>9, OraclesAre DEF placement_truncate_partition_preserves_partition_policy
<1> QED  BY <1>1, <1>2, <1>3, <1>4, <1>6, <1>8, <1>10, <1>11

\* Global indexes, and a table of both.
LEMMA IndexCases ==
  /\ WellMade(global_index_missing_update_indexes_block) /\ WellMade(global_index_exchange_partition_block)
  /\ WellMade(global_index_partition_by_update_indexes_rewrite)
  /\ WellMade(global_index_remove_partitioning_rewrite_local)
  /\ WellMade(global_index_drop_partition_rowset_cleanup) /\ WellMade(global_index_truncate_partition_rowset_cleanup)
  /\ WellMade(mixed_placement_global_remove_partitioning)
  /\ SetupFits(RemoveSetup) /\ \A s : ChangeFits(s, RemoveGone, {}, {})
<1>0. \A s : ChangeFits(s, {}, {}, {})  BY DEF ChangeFits
<1>a. ASSUME NEW owner, NEW s, SetupFits(s)  PROVE WellMade(Skips(Blocked(owner, s)))
  <2>1. ChangeFits(s, {}, {}, {})  BY <1>0
  <2> QED  BY <1>a, <2>1, CaseFits, MarkedFits DEF Blocked
<1>b. ASSUME NEW s, NEW gone, NEW come, NEW extra, NEW checks, SetupFits(s), Unplaced(gone), Unplaced(come),
             Unplaced(extra), Listed(checks)
      PROVE  WellMade(Index(s, gone, come, extra, checks))
  <2>1. ChangeFits(s, gone, come, extra)  BY <1>b DEF ChangeFits, Unplaced
  <2> QED  BY <1>b, <2>1, CaseFits, MarkedFits DEF Index
<1>c. Unplaced({})  BY UnplacedAre
<1>1. WellMade(global_index_missing_update_indexes_block)
  <2> DEFINE A == Table({Has("t", "idx_a")})
  <2>1. Unplaced(A)  BY UnplacedAre
  <2> HIDE DEF A
  <2>2. SetupFits(<<A>>)  BY <1>c, <2>1, FewUnplaced
  <2> QED  BY <1>a, <2>2 DEF global_index_missing_update_indexes_block, A
<1>2. WellMade(global_index_exchange_partition_block)
  <2> DEFINE A == Table({Has("t", "idx_b"), Marked("idx_b", "global")})
             B == {Has("db", "nt")}
  <2>1. Unplaced(A) /\ Unplaced(B)  BY UnplacedAre, SharedFacts
  <2> HIDE DEF A, B
  <2>2. SetupFits(<<A, B>>)  BY <1>c, <2>1, FewUnplaced
  <2> QED  BY <1>a, <2>2 DEF global_index_exchange_partition_block, A, B
<1>3. WellMade(global_index_partition_by_update_indexes_rewrite)
  <2> DEFINE A == Table(TwoIndexes)
             B == Filled({"idx_a", "idx_b"})
  <2>1. Unplaced(A) /\ Unplaced(B) /\ Unplaced({Global, Partitioned}) /\ Unplaced({Marked("idx_b", "global")})
    BY UnplacedAre, SharedFacts
  <2> HIDE DEF A, B
  <2>2. SetupFits(<<A, B>>)  BY <1>c, <2>1, FewUnplaced
  <2> QED  BY <1>b, <1>c, <2>1, <2>2, OraclesAre DEF global_index_partition_by_update_indexes_rewrite, A, B
<1>4. WellMade(global_index_remove_partitioning_rewrite_local)
  <2> DEFINE X == TwoIndexes \cup {Global, Partitioned}
             A == Table(X)
             B == Filled({"idx_a", "idx_b"})
  <2>1. Unplaced(X)  BY UnplacedAre, SharedFacts
  <2>2. Unplaced(A) /\ Unplaced(B) /\ Unplaced({Global, Partitioned}) /\ Unplaced({Marked("idx_b", "global")})
    BY <2>1, UnplacedAre, SharedFacts
  <2> HIDE DEF A, B, X
  <2>3. SetupFits(<<A, B>>)  BY <1>c, <2>2, FewUnplaced
  <2> QED  BY <1>b, <1>c, <2>2, <2>3, OraclesAre DEF global_index_remove_partitioning_rewrite_local, A, B, X
<1>5. WellMade(global_index_drop_partition_rowset_cleanup)
  <2> DEFINE A == Table({Has("t", "idx_b"), Marked("idx_b", "global")})
             B == Filled({"idx_b"})
  <2>1. Unplaced(A) /\ Unplaced(B) /\ Unplaced(Rows({"t", "idx_b"}, {"p0"}))  BY UnplacedAre, SharedFacts
  <2> HIDE DEF A, B
  <2>2. SetupFits(<<A, B>>)  BY <1>c, <2>1, FewUnplaced
  <2> QED  BY <1>b, <1>c, <2>1, <2>2, OraclesAre DEF global_index_drop_partition_rowset_cleanup, A, B
<1>6. WellMade(global_index_truncate_partition_rowset_cleanup)
  BY <1>5 DEF global_index_truncate_partition_rowset_cleanup
<1>7. SetupFits(RemoveSetup)
  <2> DEFINE ps == {"pp_table", "pp_part"}
             X == BothPlaced \cup TwoIndexes \cup {Global, Partitioned}
             A == Table(X)
             B == Filled({"idx_a", "idx_b"})
  <2>1. Placing(BothPlaced, ps) /\ Placing(TwoIndexes, ps) /\ Placing({Global, Partitioned}, ps) /\ Unplaced(B)
    BY PlacingAre, SharedFacts
  <2> HIDE DEF ps, B
  <2>2. Placing(A, ps)  BY <2>1, PlacingAre
  <2> HIDE DEF A
  <2>3. SetupFits(<<Policy("pp_table"), Policy("pp_part"), A, B>>)  BY <2>1, <2>2, TwoPolicies DEF ps
  <2> QED  BY <2>3 DEF RemoveSetup, A, B
<1>8. \A s : ChangeFits(s, RemoveGone, {}, {})  BY DEF ChangeFits, RemoveGone, Global, Partitioned, Marked, Uses
<1>9. WellMade(mixed_placement_global_remove_partitioning)
  BY <1>7, <1>8, CaseFits, MarkedFits, OraclesAre DEF mixed_placement_global_remove_partitioning
<1> QED  BY <1>1, <1>2, <1>3, <1>4, <1>5, <1>6, <1>7, <1>8, <1>9

\* The same objects under a failpoint.
LEMMA StatefulCases ==
  /\ \A f : /\ WellMade(rollback_partition_by(f)) /\ WellMade(rollback_remove_partitioning(f))
            /\ WellMade(retry_partition_by(f)) /\ WellMade(retry_remove_partitioning(f)) /\ WellMade(retry_truncate(f))
  /\ WellMade(cancel_truncate_partition)
<1> DEFINE ps == {"pp_table", "pp_part"}
<1>a. ASSUME NEW f, NEW s, NEW extra, NEW checks, SetupFits(s), ChangeFits(s, {}, {}, extra), Listed(checks)
      PROVE  WellMade(RolledBack(f, s, extra, checks))
  BY <1>a, CaseFits, MarkedFits DEF RolledBack
<1>b. ASSUME NEW f, NEW s, NEW gone, NEW come, NEW extra, NEW checks,
             SetupFits(s), ChangeFits(s, gone, come, extra), Listed(checks)
      PROVE  WellMade(Retried(f, s, gone, come, extra, checks))
  BY <1>b, CaseFits, MarkedFits DEF Retried
<1>0. \A s : ChangeFits(s, {}, {}, {})  BY DEF ChangeFits
<1>1. SetupFits(partition_by_setup) /\ 2 \in DOMAIN partition_by_setup
      /\ Has("cluster", "pp_part") \in partition_by_setup[2]
  <2> DEFINE X == TwoIndexes \cup {Uses("t", "pp_table")}
             A == Table(X)
             B == Filled({"idx_a", "idx_b"})
  <2>1. Placing(TwoIndexes, ps) /\ Placing({Uses("t", "pp_table")}, ps) /\ Unplaced(B)
    BY PlacingAre, SharedFacts
  <2> HIDE DEF ps, B
  <2>2. Placing(A, ps)  BY <2>1, PlacingAre
  <2> HIDE DEF A
  <2>3. SetupFits(<<Policy("pp_table"), Policy("pp_part"), A, B>>)  BY <2>1, <2>2, TwoPolicies DEF ps
  <2>4. partition_by_setup = <<Policy("pp_table"), Policy("pp_part"), A, B>>  BY DEF partition_by_setup, A, B
  <2> QED  BY <2>3, <2>4 DEF Policy
<1>2. SetupFits(truncate_setup)
  <2> DEFINE Y == {Has("t", "idx_b"), Marked("idx_b", "global"), Partitioned}
             X == BothPlaced \cup Y
             A == Table(X)
             B == Filled({"idx_b"})
  <2>1. Unplaced(Y)  BY DEF Unplaced, Has, Marked, Partitioned
  <2>2. Placing(BothPlaced, ps) /\ Placing(Y, ps) /\ Unplaced(B)  BY <2>1, PlacingAre, SharedFacts
  <2> HIDE DEF ps, B, Y
  <2>3. Placing(A, ps)  BY <2>2, PlacingAre
  <2> HIDE DEF A
  <2>4. SetupFits(<<Policy("pp_table"), Policy("pp_part"), A, B>>)  BY <2>2, <2>3, TwoPolicies DEF ps
  <2> QED  BY <2>4 DEF truncate_setup, A, B, X, Y
<1>3. ChangeFits(partition_by_setup, {}, {}, partition_by_come)
  BY DEF ChangeFits, partition_by_come, Partitioned, Global, Marked, Uses
<1>4. ChangeFits(partition_by_setup, {}, partition_by_come, {Marked("idx_b", "global")})
  <2>1. \A f \in partition_by_come : f[1] \notin {"cluster", "old"} /\ (f[2] = "uses" => f[3] = "pp_part")
    BY DEF partition_by_come, Partitioned, Global, Marked, Uses
  <2>2. Marked("idx_b", "global")[1] = "idx_b"  BY DEF Marked
  <2> QED  BY <1>1, <2>1, <2>2 DEF ChangeFits
<1>5. \A s : ChangeFits(s, Rows({"t", "idx_b"}, {"p0"}), {}, {})  BY DEF ChangeFits, Rows, Row
<1>6. ASSUME NEW f  PROVE WellMade(rollback_partition_by(f))  BY <1>a, <1>1, <1>3, OraclesAre DEF rollback_partition_by
<1>7. ASSUME NEW f  PROVE WellMade(rollback_remove_partitioning(f))
  BY <1>a, <1>0, IndexCases, OraclesAre DEF rollback_remove_partitioning
<1>8. ASSUME NEW f  PROVE WellMade(retry_partition_by(f))  BY <1>b, <1>1, <1>4, OraclesAre DEF retry_partition_by
<1>9. ASSUME NEW f  PROVE WellMade(retry_remove_partitioning(f))
  BY <1>b, IndexCases, OraclesAre DEF retry_remove_partitioning
<1>10. ASSUME NEW f  PROVE WellMade(retry_truncate(f))  BY <1>b, <1>2, <1>5, OraclesAre DEF retry_truncate
<1>11. WellMade(cancel_truncate_partition)  BY <1>a, <1>0, <1>2, OraclesAre DEF cancel_truncate_partition
<1> QED  BY <1>6, <1>7, <1>8, <1>9, <1>10, <1>11

\* Columns that other metadata reads.
LEMMA MatrixCases ==
  /\ WellMade(known_check) /\ WellMade(check_modify_same_name_preserve_or_block)
  /\ WellMade(known_partial_predicate_rename_error_family)
  /\ \A r \in {"predicate", "generated", "partition"} : WellMade(reader_block(r))
  /\ WellMade(ttl_rewrite) /\ WellMade(ttl_block) /\ WellMade(fk_block)
  /\ \A old, new : \A side \in {"child", "parent"} : WellMade(fk_rewrite(side, old, new))
  /\ \A old, new : \A i \in {"idx_a", "uk_b"} :
       WellMade(index_rename_rewrite(i, old, new)) /\ WellMade(Skips(index_rename_rewrite(i, old, new)))
<1>0. Unplaced({}) /\ \A s : ChangeFits(s, {}, {}, {})  BY UnplacedAre DEF ChangeFits
<1>a. ASSUME NEW owner, NEW s, SetupFits(s)  PROVE WellMade(Blocked(owner, s))
  <2>1. ChangeFits(s, {}, {}, {})  BY <1>0
  <2> QED  BY <1>a, <2>1, CaseFits DEF Blocked
<1>b. ASSUME NEW owner, NEW expected \in {"rewrite", "rewrite_or_block"}, NEW s, NEW gone, NEW come, NEW checks,
             SetupFits(s), Unplaced(gone), Unplaced(come), Listed(checks)
      PROVE  WellMade(Matrix(owner, expected, s, gone, come, checks))
  <2>1. ChangeFits(s, gone, come, {})  BY <1>b DEF ChangeFits, Unplaced
  <2> QED  BY <1>b, <2>1, CaseFits DEF Matrix
<1>c. ASSUME NEW x, x \notin {"cluster", "old"}, NEW c
      PROVE  Unplaced({Reads(x, c)}) /\ SetupFits(<<Table({Reads(x, c)})>>)
  <2> DEFINE A == Table({Reads(x, c)})
  <2>1. Unplaced({Reads(x, c)}) /\ Unplaced(A)  BY <1>c, UnplacedAre
  <2> HIDE DEF A
  <2>2. SetupFits(<<A>>)  BY <1>0, <2>1, FewUnplaced
  <2> QED  BY <2>1, <2>2 DEF A
<1>1. SetupFits(CheckSetup)
  <2> DEFINE A == Table({Enforces("chk_ab")})
  <2>1. Unplaced(A)  BY UnplacedAre
  <2> HIDE DEF A
  <2>2. SetupFits(<<{}, A, {}>>)  BY <1>0, <2>1, FewUnplaced
  <2> QED  BY <2>2 DEF CheckSetup, Switch, A
<1>2. WellMade(known_check)
  <2> DEFINE x == known_check
  <2>1. DOMAIN x = CaseFields /\ x.setup = CheckSetup /\ x.gone = {} /\ x.come = {} /\ x.extra = {}
        /\ x.expected = "known_control" /\ x.known = TRUE /\ x.checks = check_known_check_loss
    BY DEF known_check, Matrix, Case, CaseFields
  <2> HIDE DEF x
  <2> QED  BY <1>0, <1>1, <2>1, OraclesAre DEF WellMade, x
<1>3. WellMade(check_modify_same_name_preserve_or_block)
  BY <1>0, <1>1, <1>b, OraclesAre DEF check_modify_same_name_preserve_or_block
<1>4. WellMade(known_partial_predicate_rename_error_family)
  <2> DEFINE x == known_partial_predicate_rename_error_family
             s == <<Table({Reads("pi", "a")})>>
  <2>1. SetupFits(s)  BY <1>c
  <2> HIDE DEF s
  <2>2. x = [Blocked("predicate", s) EXCEPT !.known = TRUE, !.family = FALSE]
    BY DEF known_partial_predicate_rename_error_family, s
  <2> HIDE DEF x
  <2>3. DOMAIN x = CaseFields /\ x.setup = s /\ x.gone = {} /\ x.come = {} /\ x.extra = {}
        /\ x.expected = "block" /\ x.known = TRUE /\ x.family = FALSE /\ x.checks = <<>>
    BY <2>2 DEF Blocked, Case, CaseFields
  <2> QED  BY <1>0, <2>1, <2>3 DEF WellMade, x
<1>5. ASSUME NEW r \in {"predicate", "generated", "partition"}  PROVE WellMade(reader_block(r))
  <2>1. SetupFits(<<Table({Reads(r, "a")})>>)  BY <1>c
  <2> QED  BY <1>a, <2>1 DEF reader_block
<1>6. WellMade(ttl_rewrite) /\ WellMade(ttl_block)
  <2>1. SetupFits(<<Table({Reads("ttl", "t1")})>>) /\ Unplaced({Reads("ttl", "t1")}) /\ Unplaced({Reads("ttl", "t1x")})
    BY <1>c
  <2> QED  BY <1>a, <1>b, <2>1, OraclesAre DEF ttl_rewrite, ttl_block
<1>7. Unplaced(ForeignKey) /\ Unplaced({Has("db", "p")})
  BY DEF Unplaced, ForeignKey, Has, Reads, Enforces
<1>8. WellMade(fk_block)
  <2>1. SetupFits(<<{}, {Has("db", "p")}, ForeignKey>>)  BY <1>0, <1>7, FewUnplaced
  <2> QED  BY <1>a, <2>1 DEF fk_block, Switch
<1>9. ASSUME NEW side \in {"child", "parent"}, NEW old, NEW new  PROVE WellMade(fk_rewrite(side, old, new))
  <2> DEFINE s == <<{}, {Has("db", "p")}, ForeignKey, {}, {}>>
  <2>1. /\ Len(s) = 5 /\ DOMAIN s = 1..5
        /\ s[1] = {} /\ s[2] = {Has("db", "p")} /\ s[3] = ForeignKey /\ s[4] = {} /\ s[5] = {}
    OBVIOUS
  <2> HIDE DEF s
  <2>2. \A n \in DOMAIN s : n = 1 \/ n = 2 \/ n = 3 \/ n = 4 \/ n = 5  BY <2>1
  <2>3. \A n \in DOMAIN s : Unplaced(s[n])  BY <1>0, <1>7, <2>1, <2>2
  <2>4. Len(s) \in Nat /\ DOMAIN s = 1..Len(s)  BY <2>1
  <2>5. SetupFits(s)  BY <1>0, <2>3, <2>4, UnplacedFits
  <2>6. Unplaced({Reads(side, old)}) /\ Unplaced({Reads(side, new)})  BY <1>c
  <2> QED  BY <1>b, <2>5, <2>6, OraclesAre DEF fk_rewrite, Switch, s
<1>10. ASSUME NEW i \in {"idx_a", "uk_b"}, NEW old, NEW new
       PROVE  WellMade(index_rename_rewrite(i, old, new)) /\ WellMade(Skips(index_rename_rewrite(i, old, new)))
  <2>1. SetupFits(<<Table({Reads(i, old)})>>) /\ Unplaced({Reads(i, old)}) /\ Unplaced({Reads(i, new)})
    BY <1>c
  <2>2. WellMade(index_rename_rewrite(i, old, new))  BY <1>b, <2>1, OraclesAre DEF index_rename_rewrite
  <2> QED  BY <2>2, MarkedFits
<1> QED  BY <1>2, <1>3, <1>4, <1>5, <1>6, <1>8, <1>9, <1>10

\* Masking policies.
LEMMA MaskingFits ==
  \A c \in 1..13 : WellMade(Cases["masking_policy"][c])
<1> DEFINE cs == Cases["masking_policy"]
<1>0. Unplaced({})  BY UnplacedAre
<1>a. ASSUME NEW expected \in {"rewrite", "block"}, NEW s, NEW gone, NEW come, NEW extra, NEW checks,
             SetupFits(s), Unplaced(gone), Unplaced(come), Unplaced(extra), Listed(checks)
      PROVE  WellMade(Masking(expected, s, gone, come, extra, checks))
  <2>1. ChangeFits(s, gone, come, extra)  BY <1>a DEF ChangeFits, Unplaced
  <2> QED  BY <1>a, <2>1, CaseFits DEF Masking
<1> DEFINE Names == {"p", "p_a", "p_b"}
           Fields == {"schema", "table", "column", "expr", "table_id"}
<1>b. \A v : \A p \in Names, n \in Fields : Unplaced({Field(p, n, v)})  BY DEF Unplaced, Field
<1>c. \A t, c : \A p \in Names : Unplaced(Masks(p, t, c))  BY DEF Unplaced, Masks, Field, MaskingPolicy, Has
<1>d. Unplaced(Table({})) /\ Unplaced({Has("db", "b")})  BY UnplacedAre
<1> HIDE DEF Names, Fields
<1>e. "p" \in Names /\ "p_a" \in Names /\ "p_b" \in Names /\ "schema" \in Fields /\ "table" \in Fields
      /\ "column" \in Fields /\ "expr" \in Fields /\ "table_id" \in Fields
  BY DEF Names, Fields
<1>f. SetupFits(OneMasked) /\ SetupFits(OneMasked \o <<{}>>)
  <2> DEFINE A == Table({})
             B == Masks("p", "t", "c")
  <2>1. Unplaced(A) /\ Unplaced(B)  BY <1>c, <1>d, <1>e
  <2> HIDE DEF A, B
  <2>2. SetupFits(<<A, B>>) /\ SetupFits(<<A, B, {}>>)  BY <1>0, <2>1, FewUnplaced
  <2>3. SetupFits(<<A, B>> \o <<{}>>)
    <3> DEFINE S == {A, B, {}}
               s == <<A, B>>
               e == <<{}>>
               r == s \o e
    <3>1. s \in Seq(S) /\ e \in Seq(S)  OBVIOUS
    <3>2. \A x \in S : Unplaced(x)  BY <1>0, <2>1
    <3> HIDE DEF S, s, e
    <3>3. r \in Seq(S)  BY <3>1
    <3> HIDE DEF r
    <3>4. Len(r) \in Nat /\ DOMAIN r = 1..Len(r) /\ \A n \in DOMAIN r : Unplaced(r[n])  BY <3>2, <3>3
    <3>5. SetupFits(r)  BY <1>0, <3>4, UnplacedFits
    <3> QED  BY <3>5 DEF r, s, e
  <2> QED  BY <2>2, <2>3 DEF OneMasked, A, B
<1>1. WellMade(case_table_rename)  BY <1>0, <1>a, <1>b, <1>e, <1>f, ListsAre DEF case_table_rename
<1>2. WellMade(case_multitable_rename)
  <2> DEFINE A == Table({})
             B == {Has("db", "b")}
             C == Masks("p_a", "a", "c")
             D == Masks("p_b", "b", "c")
             s == <<A, B, C, D>>
  <2>1. Unplaced(A) /\ Unplaced(B) /\ Unplaced(C) /\ Unplaced(D)  BY <1>c, <1>d, <1>e
  <2> HIDE DEF A, B, C, D
  <2>2. Len(s) = 4 /\ DOMAIN s = 1..4 /\ s[1] = A /\ s[2] = B /\ s[3] = C /\ s[4] = D  OBVIOUS
  <2> HIDE DEF s
  <2>3. \A n \in DOMAIN s : n = 1 \/ n = 2 \/ n = 3 \/ n = 4  BY <2>2
  <2>4. \A n \in DOMAIN s : Unplaced(s[n])  BY <2>1, <2>2, <2>3
  <2>5. Len(s) \in Nat /\ DOMAIN s = 1..Len(s)  BY <2>2
  <2>6. SetupFits(s)  BY <1>0, <2>4, <2>5, UnplacedFits
  <2>7. /\ Unplaced({Field("p_a", "table", "a"), Field("p_b", "table", "b")})
        /\ Unplaced({Field("p_a", "table", "a_new"), Field("p_b", "table", "b_new")})
    BY DEF Unplaced, Field
  <2> QED  BY <1>0, <1>a, <2>6, <2>7, ListsAre DEF case_multitable_rename, s, A, B, C, D
<1>3. WellMade(case_cross_db_rename)  BY <1>0, <1>a, <1>b, <1>e, <1>f, ListsAre DEF case_cross_db_rename
<1>4. WellMade(case_column_rename)
  <2>1. \A v : Unplaced({Field("p", n, v) : n \in {"column", "expr"}})  BY DEF Unplaced, Field
  <2> QED  BY <1>0, <1>a, <1>f, <2>1, ListsAre DEF case_column_rename
<1>5. WellMade(case_modify_supported)  BY <1>0, <1>a, <1>f, ListsAre DEF case_modify_supported
<1>6. WellMade(case_modify_unsupported_block)
  BY <1>0, <1>a, <1>b, <1>e, <1>f, ListsAre DEF case_modify_unsupported_block
<1>7. \A ps : WellMade(case_drop_column_cleanup(ps)) /\ WellMade(case_drop_cleanup(ps))
  <2> SUFFICES ASSUME NEW ps  PROVE WellMade(case_drop_column_cleanup(ps))  BY DEF case_drop_cleanup
  <2> DEFINE A == Table({})
             M == {MaskingPolicy(p) : p \in ps}
  <2>1. Unplaced(A) /\ Unplaced(M)  BY <1>d DEF Unplaced, MaskingPolicy, Has
  <2>2. case_drop_column_cleanup(ps) = Masking("rewrite", <<A, M>>, M, {}, {}, <<Read({}, M)>>)
    BY DEF case_drop_column_cleanup
  <2> HIDE DEF A, M
  <2>3. SetupFits(<<A, M>>)  BY <1>0, <2>1, FewUnplaced
  <2> QED  BY <1>0, <1>a, <2>1, <2>2, <2>3, ListsAre
<1>8. WellMade(case_truncate)  BY <1>0, <1>a, <1>b, <1>e, <1>f, ListsAre DEF case_truncate
<1>9. WellMade(case_alter_policy_expr_block)  BY <1>6 DEF case_alter_policy_expr_block
<1>10. cs = <<case_table_rename, case_multitable_rename, case_cross_db_rename, case_column_rename,
              case_column_rename, case_modify_supported, case_modify_unsupported_block,
              case_drop_column_cleanup({"p"}), case_drop_column_cleanup({"p"}), case_truncate,
              case_drop_cleanup({"p"}), case_drop_cleanup({"p_1", "p_2"}), case_alter_policy_expr_block>>
  BY DEF Cases, masking_policy
<1> HIDE DEF cs
<1>11. ASSUME NEW c \in 1..13  PROVE WellMade(cs[c])
  BY <1>1, <1>2, <1>3, <1>4, <1>5, <1>6, <1>7, <1>8, <1>9, <1>10
<1> QED  BY <1>11 DEF cs

\* What the sequence of the matrix is made of.
InMatrix ==
  {known_check, check_modify_same_name_preserve_or_block, known_partial_predicate_rename_error_family,
   ttl_rewrite, ttl_block, fk_block, index_rename_rewrite("idx_a", "a", "aa"),
   Skips(index_rename_rewrite("uk_b", "b", "bb"))}
  \cup {reader_block(r) : r \in {"predicate", "generated", "partition"}}
  \cup {fk_rewrite("child", "pid", "pid2"), fk_rewrite("parent", "id", "id2")}

\* It is a sequence of these, though most of them come more than once.
LEMMA MatrixListed == reference_matrix \in Seq(InMatrix) /\ reference_matrix # <<>>
<1> DEFINE a == <<known_check, known_check, check_modify_same_name_preserve_or_block,
                  known_partial_predicate_rename_error_family, reader_block("predicate")>>
           b == [i \in 1..4 |-> reader_block("generated")]
           c == [i \in 1..5 |-> reader_block("partition")]
           d == <<ttl_rewrite, ttl_rewrite, ttl_rewrite, ttl_block, ttl_block,
                  fk_rewrite("child", "pid", "pid2"), fk_rewrite("child", "pid", "pid2"),
                  fk_rewrite("parent", "id", "id2"), fk_rewrite("parent", "id", "id2"),
                  fk_block, fk_block, fk_block,
                  index_rename_rewrite("idx_a", "a", "aa"), Skips(index_rename_rewrite("uk_b", "b", "bb"))>>
           W == InMatrix
           cs == a \o b \o c \o d
<1>1. a \in Seq(W) /\ a # <<>>  BY DEF InMatrix
<1>2. b \in Seq(W) /\ c \in Seq(W)  BY DEF InMatrix
<1>3. d \in Seq(W)  BY DEF InMatrix
<1>4. reference_matrix = cs  BY DEF reference_matrix
<1> HIDE DEF a, b, c, d, W
<1>5. ASSUME NEW s \in Seq(W), NEW r \in Seq(W), s # <<>>  PROVE s \o r \in Seq(W) /\ s \o r # <<>>
  <2>1. s \o r \in Seq(W) /\ Len(s \o r) = Len(s) + Len(r) /\ Len(s) \in Nat \ {0} /\ Len(r) \in Nat  BY <1>5
  <2>2. Len(s \o r) # 0  BY <2>1
  <2> QED  BY <2>1, <2>2
<1>6. a \o b \in Seq(W) /\ a \o b # <<>>  BY <1>1, <1>2, <1>5
<1>7. (a \o b) \o c \in Seq(W) /\ (a \o b) \o c # <<>>  BY <1>2, <1>5, <1>6
<1>8. cs \in Seq(W) /\ cs # <<>>  BY <1>3, <1>5, <1>7
<1> QED  BY <1>4, <1>8 DEF W

\* The sequences of the other probes.
LEMMA CasesFit ==
  \A p \in DOMAIN Cases : /\ Len(Cases[p]) \in Nat \ {0} /\ DOMAIN Cases[p] = 1..Len(Cases[p])
                          /\ \A c \in DOMAIN Cases[p] : WellMade(Cases[p][c])
<1>1. DOMAIN Cases = {"object_reference", "reference_matrix", "stateful_object", "masking_policy"}  BY DEF Cases
<1>2. ASSUME NEW W, NEW cs \in Seq(W), cs # <<>>, \A k \in W : WellMade(k)
      PROVE  /\ Len(cs) \in Nat \ {0} /\ DOMAIN cs = 1..Len(cs)
             /\ \A c \in DOMAIN cs : WellMade(cs[c])
  BY <1>2
<1> DEFINE Fits(p) == /\ Len(Cases[p]) \in Nat \ {0} /\ DOMAIN Cases[p] = 1..Len(Cases[p])
                      /\ \A c \in DOMAIN Cases[p] : WellMade(Cases[p][c])
<1>3. Fits("object_reference")
  <2> DEFINE cs == object_reference
             W == {cs[n] : n \in 1..17}
  <2>1. cs \in Seq(W) /\ cs # <<>>  BY DEF object_reference
  <2>2. \A n \in 1..17 : WellMade(cs[n])  BY PlacementCases, IndexCases DEF object_reference
  <2>3. \A k \in W : WellMade(k)  BY <2>2
  <2> HIDE DEF cs, W
  <2>4. /\ Len(cs) \in Nat \ {0} /\ DOMAIN cs = 1..Len(cs)
        /\ \A c \in DOMAIN cs : WellMade(cs[c])
    BY <1>2, <2>1, <2>3
  <2>5. Cases["object_reference"] = cs  BY DEF Cases, cs
  <2> QED  BY <2>4, <2>5
<1>4. Fits("stateful_object")
  <2> DEFINE cs == stateful_object
             W == {cs[n] : n \in 1..14}
  <2>1. cs \in Seq(W) /\ cs # <<>>  BY DEF stateful_object
  <2>2. \A n \in 1..14 : WellMade(cs[n])  BY StatefulCases DEF stateful_object
  <2>3. \A k \in W : WellMade(k)  BY <2>2
  <2> HIDE DEF cs, W
  <2>4. /\ Len(cs) \in Nat \ {0} /\ DOMAIN cs = 1..Len(cs)
        /\ \A c \in DOMAIN cs : WellMade(cs[c])
    BY <1>2, <2>1, <2>3
  <2>5. Cases["stateful_object"] = cs  BY DEF Cases, cs
  <2> QED  BY <2>4, <2>5
<1>5. Fits("masking_policy")
  <2> DEFINE cs == Cases["masking_policy"]
  <2>1. Len(cs) = 13  BY MaskingCases
  <2>2. DOMAIN cs = 1..13  BY DEF Cases, masking_policy
  <2>3. \A c \in 1..13 : WellMade(cs[c])  BY MaskingFits
  <2> HIDE DEF cs
  <2>4. /\ Len(cs) \in Nat \ {0} /\ DOMAIN cs = 1..Len(cs)
        /\ \A c \in DOMAIN cs : WellMade(cs[c])
    BY <2>1, <2>2, <2>3
  <2> QED  BY <2>4 DEF cs
<1>6. Fits("reference_matrix")
  <2>1. \A k \in InMatrix : WellMade(k)  BY MatrixCases DEF InMatrix
  <2>2. Cases["reference_matrix"] = reference_matrix  BY DEF Cases
  <2> QED  BY <1>2, <2>1, <2>2, MatrixListed
<1> QED  BY <1>1, <1>3, <1>4, <1>5, <1>6
-----------------------------------------------------------------------------
(* What a green run has judged *)

Old(w) == {f \in w : f[1] = "old"}

\* The cluster holds placement policies, and what is left of a killed run is that it uses some.
Sound(w) == \A f \in w : /\ f[1] = "old" => f[2] = "uses"
                         /\ f[1] = "cluster" => f = Has("cluster", f[3])

\* A policy that is used is there.
Backed(w) == \A f \in w : f[2] = "uses" => Has("cluster", f[3]) \in w

\* Only a run of a probe that goes on after a failed cleanup is killed, and only with a
\* product that has no defect.
WorldInv ==
  /\ Sound(world)
  /\ defect = NoDefect => Backed(world)
  /\ Old(world) # {} => Tolerant /\ defect = NoDefect
  /\ at \in {"arm", "alter"} => Before(Current) \subseteq world

Verdicts == {"OK", "FINDING", "KNOWN", "FIXED", "SKIP"}
WithinCase == {"arm", "alter", "disarm", "judge", "look", "tidy"}
NoFinding == \A i \in DOMAIN verdicts : verdicts[i] # "FINDING"

\* One verdict per case that is through.
Counted ==
  /\ probe \in DOMAIN Cases /\ defect \in Defects(probe)
  /\ case \in 1..Last /\ verdicts \in Seq(Verdicts)
  /\ at \in WithinCase \cup {"begin", "prepare", "finish", "raised", "done"}
  /\ at = "begin" => case = 1 /\ verdicts = <<>>
  /\ at \in WithinCase \cup {"prepare", "raised"} => Len(verdicts) = case - 1
  /\ at = "finish" => Len(verdicts) = Last
  /\ at # "done" => exit = Running
  /\ at = "done" /\ exit = 0 => \/ verdicts = <<>> /\ loss = <<1, "begin">>
                                \/ Len(verdicts) = Last /\ NoFinding
  /\ at = "tidy" => reply \in Verdicts \ {"SKIP"}
  /\ at = "look" => check \in 1..Len(Current.checks)

\* The cases whose policies a killed run still uses are skipped, and no others unless a
\* call was lost.
Skipped ==
  /\ \A i \in DOMAIN verdicts : HeldFor(i) => verdicts[i] = "SKIP"
  /\ \A i \in DOMAIN verdicts : verdicts[i] = "SKIP" => HeldFor(i) \/ LostIn(i)
  /\ at \in WithinCase => ~HeldFor(case)

\* Where a lost call cannot be told from the answer that is wanted.
ExcusedAt(place, k) ==
  \/ place \in {"prepare", "disarm", "tidy"}
  \/ place = "alter" /\ (k.known \/ k.expected = "rewrite_or_block")
  \/ place = "look" /\ (k.known \/ ForbidsOnly(k.checks))

\* The run will report the call it lost, or has.
Doomed ==
  \/ at = "raised" \/ (at = "done" /\ exit # 0)
  \/ loss = <<case, "alter">> /\ at \in {"disarm", "judge"} /\ reply = "other"
  \/ loss[1] = case /\ at = "tidy" /\ reply = "FINDING"
  \/ loss[1] \in DOMAIN verdicts /\ verdicts[loss[1]] = "FINDING"

Outside == {"begin", "finish", "raised"}
Reported ==
  loss # <<>> => loss[2] \in Outside \/ ExcusedAt(loss[2], Cases[probe][loss[1]]) \/ Doomed

GreenInv == Counted /\ WorldInv /\ Skipped /\ Reported

\* What a step of a case does to the cluster: a killed run's uses stay, and with an
\* intended DDL the policies that are used.
Carries(w, v) ==
  /\ Sound(v) /\ Old(v) = Old(w)
  /\ defect = NoDefect /\ Backed(w) => Backed(v)

\* One step after another.
LEMMA CarriesOn ==
  ASSUME NEW u, NEW w, NEW v, Carries(u, w), Carries(w, v)
  PROVE  Carries(u, v)
  BY DEF Carries

\* No cleanup takes away what a killed run uses.
LEMMA CleanedCarries ==
  ASSUME NEW w, Sound(w)
  PROVE  Carries(w, Cleaned(w)) /\ Carries(w, w \ Database(w))
<1> DEFINE left == w \ Database(w)
<1>1. \A f : f \in left <=> f \in w /\ f[1] \in {"cluster", "old"}  BY DEF Database
<1>2. Cleaned(w) = {f \in left : f[1] = "cluster" => Referenced(f[3], left)}  BY DEF Cleaned
<1> HIDE DEF left
<1>3. Sound(left) /\ Old(left) = Old(w)  BY <1>1 DEF Sound, Old
<1>4. ASSUME Backed(w)  PROVE Backed(left)
  <2> SUFFICES ASSUME NEW f \in left, f[2] = "uses"  PROVE Has("cluster", f[3]) \in left  BY DEF Backed
  <2>1. Has("cluster", f[3]) \in w  BY <1>1, <1>4 DEF Backed
  <2> QED  BY <1>1, <2>1 DEF Has
<1>5. Sound(Cleaned(w)) /\ Old(Cleaned(w)) = Old(w)  BY <1>2, <1>3 DEF Sound, Old
<1>6. ASSUME Backed(w)  PROVE Backed(Cleaned(w))
  <2> SUFFICES ASSUME NEW f \in Cleaned(w), f[2] = "uses"  PROVE Has("cluster", f[3]) \in Cleaned(w)  BY DEF Backed
  <2>1. f \in left  BY <1>2
  <2>2. Has("cluster", f[3]) \in left  BY <1>4, <1>6, <2>1 DEF Backed
  <2>3. Has("cluster", f[3])[3] = f[3]  BY DEF Has
  <2>4. Referenced(f[3], left)  BY <2>1 DEF Referenced
  <2> QED  BY <1>2, <2>2, <2>3, <2>4
<1> QED  BY <1>3, <1>4, <1>5, <1>6 DEF Carries, left

\* Nor does a cleanup in which one statement is lost.
LEMMA CleanedLostCarries ==
  ASSUME NEW w, Sound(w), NEW v \in CleanedLost(w)
  PROVE  Carries(w, v)
<1>1. CASE v = {f \in w : f[1] = "cluster" => Referenced(f[3], w)}
  <2>1. Sound(v) /\ Old(v) = Old(w)  BY <1>1 DEF Sound, Old
  <2>2. ASSUME Backed(w)  PROVE Backed(v)
    <3> SUFFICES ASSUME NEW f \in v, f[2] = "uses"  PROVE Has("cluster", f[3]) \in v  BY DEF Backed
    <3>1. f \in w /\ Has("cluster", f[3]) \in w  BY <1>1, <2>2 DEF Backed
    <3>2. Has("cluster", f[3])[3] = f[3]  BY DEF Has
    <3>3. Referenced(f[3], w)  BY <3>1 DEF Referenced
    <3> QED  BY <1>1, <3>1, <3>2, <3>3
  <2> QED  BY <2>1, <2>2 DEF Carries
<1>2. CASE \E f \in w : f[1] = "cluster" /\ v = Cleaned(w) \cup {f}
  <2>1. PICK f \in w : f[1] = "cluster" /\ v = Cleaned(w) \cup {f}  BY <1>2
  <2>2. f = Has("cluster", f[3])  BY <2>1 DEF Sound
  <2>3. f[2] = "has"  BY <2>2 DEF Has
  <2>4. Carries(w, Cleaned(w))  BY CleanedCarries
  <2>5. Sound(v) /\ Old(v) = Old(w)  BY <2>1, <2>2, <2>4 DEF Carries, Sound, Old
  <2>6. Backed(Cleaned(w)) => Backed(v)  BY <2>1, <2>3 DEF Backed
  <2> QED  BY <2>4, <2>5, <2>6 DEF Carries
<1> QED  BY <1>1, <1>2 DEF CleanedLost

\* What a cleanup leaves is the cluster's, or a killed run's.
LEMMA CleanedIsOf ==
  ASSUME NEW w, NEW f \in Cleaned(w)
  PROVE  f \in w /\ f[1] \in {"cluster", "old"}
  BY DEF Cleaned, Database

\* Every nonempty set of numbers has a least one.
LEMMA Least ==
  ASSUME NEW T \in SUBSET Nat, T # {}
  PROVE  \E x \in T : \A y \in T : x <= y
<1> DEFINE R == {p \in Nat \X Nat : p[1] < p[2]}
<1>1. R = OpToRel(<, Nat)  BY DEF OpToRel
<1>2. IsWellFoundedOn(R, Nat)  BY <1>1, NatLessThanWellFounded
<1>3. \A x, y \in Nat : <<y, x>> \notin R => x <= y  OBVIOUS
<1> HIDE DEF R
<1>4. \E x \in T : \A y \in T : <<y, x>> \notin R  BY <1>2, WFMin
<1> QED  BY <1>3, <1>4

\* A case of the run is well made.
LEMMA CurrentFits ==
  ASSUME probe \in DOMAIN Cases, case \in 1..Last
  PROVE  WellMade(Current) /\ Last \in Nat \ {0}
<1>1. Len(Cases[probe]) \in Nat \ {0} /\ DOMAIN Cases[probe] = 1..Len(Cases[probe])
      /\ \A c \in DOMAIN Cases[probe] : WellMade(Cases[probe][c])
  BY CasesFit
<1> QED  BY <1>1 DEF Current, Last

\* A setup stops at one of its statements, or after the last.
LEMMA StopsIs ==
  ASSUME SetupFits(Current.setup), NEW w
  PROVE  Stops(w) \in 1..(Len(Current.setup) + 1)
<1>1. Len(Current.setup) \in Nat /\ DOMAIN Current.setup = 1..Len(Current.setup)  BY DEF SetupFits
<1>2. CASE Clashes(w) = {}  BY <1>1, <1>2 DEF Stops
<1>3. CASE Clashes(w) # {}
  <2>1. Clashes(w) \subseteq 1..Len(Current.setup)  BY <1>1 DEF Clashes
  <2>2. Clashes(w) \in SUBSET Nat  BY <1>1, <2>1
  <2>3. \E i \in Clashes(w) : \A j \in Clashes(w) : i <= j  BY <1>3, <2>2, Least
  <2>4. Stops(w) \in Clashes(w)  BY <1>3, <2>3 DEF Stops
  <2> QED  BY <1>1, <2>1, <2>4
<1> QED  BY <1>2, <1>3

\* A setup uses no policy before it is made.
LEMMA MadeCarries ==
  ASSUME SetupFits(Current.setup), NEW w, Sound(w), NEW n \in 0..Len(Current.setup)
  PROVE  Carries(w, Made(w, n))
<1> DEFINE s == Current.setup
<1>1. \A f : f \in Made(w, n) <=> f \in w \/ \E i \in 1..n : f \in s[i]  BY DEF Made
<1>2. Len(s) \in Nat /\ DOMAIN s = 1..Len(s)  BY DEF SetupFits
<1>3. \A i \in 1..n : i \in DOMAIN s  BY <1>2
<1>4. \A i \in 1..n : \A f \in s[i] :
        /\ f[1] # "old"
        /\ f[1] = "cluster" => f = Has("cluster", f[3])
        /\ f[2] = "uses" => \E m \in 1..i : Has("cluster", f[3]) \in s[m]
  BY <1>3 DEF SetupFits
<1> HIDE DEF s
<1>5. Sound(Made(w, n)) /\ Old(Made(w, n)) = Old(w)  BY <1>1, <1>4 DEF Sound, Old
<1>6. ASSUME Backed(w)  PROVE Backed(Made(w, n))
  <2> SUFFICES ASSUME NEW f \in Made(w, n), f[2] = "uses"  PROVE Has("cluster", f[3]) \in Made(w, n)  BY DEF Backed
  <2>1. CASE f \in w  BY <1>1, <1>6, <2>1 DEF Backed
  <2>2. ASSUME NEW i \in 1..n, f \in s[i]  PROVE Has("cluster", f[3]) \in Made(w, n)
    <3>1. PICK m \in 1..i : Has("cluster", f[3]) \in s[m]  BY <1>4, <2>2
    <3>2. m \in 1..n  BY <1>2
    <3> QED  BY <1>1, <3>1, <3>2
  <2> QED  BY <1>1, <2>1, <2>2
<1> QED  BY <1>5, <1>6 DEF Carries

\* Nor does the cleanup after a setup that failed.
LEMMA AbandonedCarries ==
  ASSUME SetupFits(Current.setup), NEW w, Sound(w), NEW n \in 0..Len(Current.setup)
  PROVE  Carries(w, Abandoned(Made(w, n)))
<1> DEFINE m == Made(w, n)
<1>1. Carries(w, m)  BY MadeCarries
<1> HIDE DEF m
<1>2. Carries(m, Cleaned(m))  BY <1>1, CleanedCarries DEF Carries
<1> QED  BY <1>1, <1>2, CarriesOn DEF Abandoned, m

\* The fact a defect keeps or loses is of the run's database.
LEMMA DefectIsOf ==
  ASSUME defect \in Defects(probe), defect.case = case, defect.how \in {"keep", "lose"},
         ChangeFits(Current.setup, Current.gone, Current.come, Current.extra)
  PROVE  defect # NoDefect /\ defect.fact[1] \notin {"cluster", "old"}
<1>1. defect # NoDefect  BY DEF NoDefect
<1>2. PICK c : defect \in DefectsOf(probe, c)  BY <1>1 DEF Defects
<1> DEFINE k == Cases[probe][c]
<1>3. defect.case = c  BY <1>2 DEF DefectsOf
<1>4. k = Current  BY <1>3 DEF Current
<1>5. defect.fact \in k.gone \cup k.extra \/ defect.fact \in Database(After(k))  BY <1>2 DEF DefectsOf
<1>6. defect.fact[1] \notin {"cluster", "old"}  BY <1>4, <1>5 DEF ChangeFits, Database
<1> QED  BY <1>1, <1>6

\* A DDL, done as intended or with a defect.
LEMMA AnsweredCarries ==
  ASSUME defect \in Defects(probe), WellMade(Current), Sound(world), Before(Current) \subseteq world
  PROVE  Carries(world, Answered.world)
<1> DEFINE k == Current
           meant == (world \ k.gone) \cup k.come
<1>1. ChangeFits(k.setup, k.gone, k.come, k.extra)  BY DEF WellMade
<1>2. \A f \in k.gone \cup k.come : f[1] \notin {"cluster", "old"}  BY <1>1 DEF ChangeFits
<1>3. Sound(meant) /\ Old(meant) = Old(world)  BY <1>2 DEF Sound, Old
<1>4. ASSUME Backed(world)  PROVE Backed(meant)
  <2> SUFFICES ASSUME NEW f \in meant, f[2] = "uses"  PROVE Has("cluster", f[3]) \in meant  BY DEF Backed
  <2>1. Has("cluster", f[3]) \in world
    <3>1. CASE f \in world  BY <1>4, <3>1 DEF Backed
    <3>2. CASE f \in k.come  BY <1>1, <3>2 DEF ChangeFits, Before
    <3> QED  BY <3>1, <3>2
  <2>2. Has("cluster", f[3]) \notin k.gone  BY <1>2 DEF Has
  <2> QED  BY <2>1, <2>2
<1>5. Carries(world, meant)  BY <1>3, <1>4 DEF Carries
<1> HIDE DEF meant
<1>6. Carries(world, Done)
  <2>1. CASE Defective("keep")
    <3>1. defect # NoDefect /\ defect.fact[1] \notin {"cluster", "old"}  BY <1>1, <2>1, DefectIsOf DEF Defective
    <3>2. \A g \in Slot(defect.fact) : g[1] = defect.fact[1]  BY DEF Slot
    <3>3. Done = (meant \ Slot(defect.fact)) \cup {defect.fact}  BY <2>1 DEF Done, meant
    <3>4. Sound(Done)  BY <1>3, <3>1, <3>3 DEF Sound
    <3>5. Old(Done) = Old(world)  BY <1>3, <3>1, <3>2, <3>3 DEF Old
    <3> QED  BY <3>1, <3>4, <3>5 DEF Carries
  <2>2. CASE ~Defective("keep") /\ Defective("lose")
    <3>1. defect # NoDefect /\ defect.fact[1] \notin {"cluster", "old"}  BY <1>1, <2>2, DefectIsOf DEF Defective
    <3>2. Done = meant \ {defect.fact}  BY <2>2 DEF Done, meant
    <3>3. Sound(Done) /\ Old(Done) = Old(world)  BY <1>3, <3>1, <3>2 DEF Sound, Old
    <3> QED  BY <3>1, <3>3 DEF Carries
  <2>3. CASE ~Defective("keep") /\ ~Defective("lose")  BY <1>5, <2>3 DEF Done, meant
  <2> QED  BY <2>1, <2>2, <2>3
<1>7. Answered.world \in {world, Done}  BY DEF Answered
<1>8. Carries(world, world)  BY DEF Carries
<1> QED  BY <1>6, <1>7, <1>8

\* A look drops only a policy that is not used.
LEMMA LookedCarries ==
  ASSUME NEW c, Sound(world)
  PROVE  Carries(world, Looked(c)) /\ Carries(world, world)
<1>1. Carries(world, world)  BY DEF Carries
<1>2. CASE c.how \in {"drops", "in_use"} /\ ~DropFails(c.policy)
  <2> DEFINE h == Has("cluster", c.policy)
             v == Looked(c)
  <2>1. v = world \ {h}  BY <1>2 DEF Looked
  <2>2. \A f \in world : f[2] = "uses" => f[3] # c.policy  BY <1>2 DEF DropFails, Referenced
  <2>3. h[1] = "cluster" /\ h[2] = "has" /\ h[3] = c.policy  BY DEF Has
  <2>4. \A p : Has("cluster", p) = h => p = c.policy  BY DEF Has
  <2> HIDE DEF h, v
  <2>5. Sound(v) /\ Old(v) = Old(world)  BY <2>1, <2>3 DEF Sound, Old
  <2>6. Backed(world) => Backed(v)  BY <2>1, <2>2, <2>4 DEF Backed
  <2> QED  BY <1>1, <2>5, <2>6 DEF Carries, v
<1>3. CASE ~(c.how \in {"drops", "in_use"} /\ ~DropFails(c.policy))  BY <1>1, <1>3 DEF Looked
<1> QED  BY <1>1, <1>2, <1>3
-----------------------------------------------------------------------------
(* Steps of a run that loses at most one call *)

\* A step that goes on in the cluster it finds.
LEMMA WorldStep ==
  ASSUME WorldInv, UNCHANGED <<probe, defect>>, Carries(world, world'),
         at' \in {"arm", "alter"} => UNCHANGED case /\ Before(Current) \subseteq world'
  PROVE  WorldInv'
<1>1. Sound(world)'  BY DEF Carries, Sound
<1>2. (defect = NoDefect => Backed(world))'  BY DEF WorldInv, Carries, Backed, NoDefect
<1>3. (Old(world) # {} => Tolerant /\ defect = NoDefect)'  BY DEF WorldInv, Carries, Old, Tolerant, NoDefect
<1>4. (at \in {"arm", "alter"} => Before(Current) \subseteq world)'  BY DEF Before, Current
<1> QED  BY <1>1, <1>2, <1>3, <1>4 DEF WorldInv

\* Which cases are held depends on what the killed run uses.
LEMMA HeldStays ==
  ASSUME UNCHANGED probe, NEW i, Carries(world, world')
  PROVE  HeldFor(i)' <=> HeldFor(i)
<1>1. \A f : f \in Old(world) <=> f \in Old(world')  BY DEF Carries
<1>2. \A f : (f \in world' /\ f[1] = "old") <=> (f \in world /\ f[1] = "old")  BY <1>1 DEF Old
<1> QED  BY <1>2 DEF HeldFor

\* At most one call is lost, here if not before.
MayBeLost == UNCHANGED loss \/ (loss = <<>> /\ loss' = <<case, at>>)

\* What was lost stays lost.
LEMMA LostStays ==
  ASSUME MayBeLost, NEW i, LostIn(i)
  PROVE  LostIn(i)'
  BY DEF MayBeLost, LostIn

\* A loss that was reported, or will be, still is.
LEMMA ReportedStays ==
  ASSUME Reported, UNCHANGED <<loss, probe>>, Doomed => Doomed'
  PROVE  Reported'
<1> SUFFICES ASSUME loss # <<>>
             PROVE  loss[2] \in Outside \/ ExcusedAt(loss[2], Cases[probe][loss[1]]) \/ Doomed'
  BY DEF Reported, Outside, ExcusedAt, ForbidsOnly
<1> QED  BY DEF Reported

\* A loss of this step.
LEMMA ReportedNow ==
  ASSUME loss' = <<case, at>>, UNCHANGED probe, at \in Outside \/ ExcusedAt(at, Current) \/ Doomed'
  PROVE  Reported'
<1>1. loss'[1] = case /\ loss'[2] = at  OBVIOUS
<1>2. Cases[probe'][loss'[1]] = Current  BY <1>1 DEF Current
<1>3. loss'[2] \in Outside \/ ExcusedAt(loss'[2], Cases[probe'][loss'[1]]) \/ Doomed'  BY <1>1, <1>2
<1> QED  BY <1>3 DEF Reported, Outside, ExcusedAt, ForbidsOnly

\* A step within a case, or out of the run.
LEMMA WithinStep ==
  ASSUME GreenInv, UNCHANGED <<probe, defect, case, verdicts, exit>>, MayBeLost, Carries(world, world'),
         at \in WithinCase \cup {"prepare"}, at' \in WithinCase \cup {"raised"},
         at' \in {"arm", "alter"} => Before(Current) \subseteq world',
         at' = "tidy" => reply' \in Verdicts \ {"SKIP"},
         at' = "look" => check' \in 1..Len(Current.checks),
         at' \in WithinCase => ~HeldFor(case), Reported'
  PROVE  GreenInv'
<1>1. Counted'  BY DEF GreenInv, Counted, WithinCase, Last, Defects, DefectsOf, NoDefect, Current
<1>2. WorldInv'  BY WorldStep DEF GreenInv
<1>3. Skipped'
  <2>1. \A i : HeldFor(i)' <=> HeldFor(i)  BY HeldStays
  <2>2. \A i : LostIn(i) => LostIn(i)'  BY LostStays
  <2>3. (\A i \in DOMAIN verdicts : HeldFor(i) => verdicts[i] = "SKIP")'  BY <2>1 DEF GreenInv, Skipped
  <2>4. (\A i \in DOMAIN verdicts : verdicts[i] = "SKIP" => HeldFor(i) \/ LostIn(i))'
    BY <2>1, <2>2 DEF GreenInv, Skipped
  <2>5. (at \in WithinCase => ~HeldFor(case))'
    <3>1. HeldFor(case)' <=> HeldFor(case)  BY <2>1 DEF HeldFor
    <3> QED  BY <3>1 DEF WithinCase
  <2> QED  BY <2>3, <2>4, <2>5 DEF Skipped
<1> QED  BY <1>1, <1>2, <1>3 DEF GreenInv

\* A verdict is the next one.
LEMMA VerdictAppends ==
  ASSUME Counted, at \in WithinCase \cup {"prepare"}, NEW v \in Verdicts, Verdict(v)
  PROVE  /\ verdicts' \in Seq(Verdicts) /\ Len(verdicts') = case /\ DOMAIN verdicts' = 1..case
         /\ DOMAIN verdicts = 1..(case - 1)
         /\ verdicts'[case] = v /\ \A i \in 1..(case - 1) : verdicts'[i] = verdicts[i]
<1>1. verdicts' = Append(verdicts, v)  BY DEF Verdict
<1>2. verdicts \in Seq(Verdicts) /\ Len(verdicts) = case - 1 /\ case \in 1..Last  BY DEF Counted
<1>3. Last \in Nat  BY CurrentFits DEF Counted
<1> QED  BY <1>1, <1>2, <1>3

\* The end of a case.
LEMMA VerdictStep ==
  ASSUME GreenInv, UNCHANGED <<probe, defect, exit>>, MayBeLost, Carries(world, world'),
         at \in WithinCase \cup {"prepare"}, NEW v \in Verdicts, Verdict(v),
         HeldFor(case) => v = "SKIP",
         v = "SKIP" => HeldFor(case) \/ loss' = <<case, "prepare">>, Reported'
  PROVE  GreenInv'
<1>0. Last \in Nat \ {0} /\ case \in 1..Last /\ case \in Nat /\ Counted  BY CurrentFits DEF GreenInv, Counted
<1>1. /\ verdicts' \in Seq(Verdicts) /\ Len(verdicts') = case /\ DOMAIN verdicts' = 1..case
      /\ DOMAIN verdicts = 1..(case - 1)
      /\ verdicts'[case] = v /\ \A i \in 1..(case - 1) : verdicts'[i] = verdicts[i]
  BY <1>0, VerdictAppends
<1>2. \/ case = Last /\ at' = "finish" /\ case' = case
      \/ case # Last /\ at' = "prepare" /\ case' = case + 1
  BY DEF Verdict
<1>3. Last' = Last /\ exit' = Running
  BY <1>0 DEF Last, Counted, WithinCase
<1>4. probe' \in DOMAIN Cases /\ defect' \in Defects(probe')  BY <1>0 DEF Counted
<1>5. Counted'  BY <1>0, <1>1, <1>2, <1>3, <1>4 DEF Counted, WithinCase, Defects, DefectsOf, NoDefect
<1>6. WorldInv'  BY <1>2, WorldStep DEF GreenInv
<1>7. Skipped'
  <2>1. \A i : HeldFor(i)' <=> HeldFor(i)  BY HeldStays
  <2>2. \A i : LostIn(i) => LostIn(i)'  BY LostStays
  <2>3. ASSUME NEW i \in 1..case, HeldFor(i)  PROVE verdicts'[i] = "SKIP"
    <3>1. CASE i = case  BY <1>1, <2>3, <3>1 DEF HeldFor
    <3>2. CASE i # case
      <4>1. i \in 1..(case - 1)  BY <1>0, <3>2
      <4> QED  BY <1>1, <2>3, <4>1 DEF GreenInv, Skipped
    <3> QED  BY <3>1, <3>2
  <2>4. ASSUME NEW i \in 1..case, verdicts'[i] = "SKIP"  PROVE HeldFor(i) \/ LostIn(i)'
    <3>1. CASE i = case
      <4>1. CASE HeldFor(case)  BY <3>1, <4>1 DEF HeldFor
      <4>2. CASE loss' = <<case, "prepare">>
        <5>1. loss' # <<>> /\ loss'[1] = case /\ loss'[2] = "prepare"  BY <4>2
        <5> QED  BY <3>1, <5>1 DEF LostIn
      <4> QED  BY <1>1, <2>4, <3>1, <4>1, <4>2
    <3>2. CASE i # case
      <4>1. i \in 1..(case - 1)  BY <1>0, <3>2
      <4>2. HeldFor(i) \/ LostIn(i)  BY <1>1, <2>4, <4>1 DEF GreenInv, Skipped
      <4> QED  BY <2>2, <4>2
    <3> QED  BY <3>1, <3>2
  <2>5. (\A i \in DOMAIN verdicts : HeldFor(i) => verdicts[i] = "SKIP")'  BY <1>1, <2>1, <2>3
  <2>6. (\A i \in DOMAIN verdicts : verdicts[i] = "SKIP" => HeldFor(i) \/ LostIn(i))'  BY <1>1, <2>1, <2>4
  <2>7. at' \notin WithinCase  BY <1>2 DEF WithinCase
  <2> QED  BY <2>5, <2>6, <2>7 DEF Skipped, WithinCase
<1> QED  BY <1>5, <1>6, <1>7 DEF GreenInv

\* What dooms a run before its DDL is a verdict.
LEMMA DoomedBefore ==
  ASSUME at \notin {"raised", "done", "disarm", "judge", "tidy"}, Doomed
  PROVE  loss[1] \in DOMAIN verdicts /\ verdicts[loss[1]] = "FINDING"
  BY DEF Doomed

\* A verdict that was given stands.
LEMMA VerdictStands ==
  ASSUME Counted, at \in WithinCase \cup {"prepare"}, NEW v \in Verdicts, Verdict(v), UNCHANGED loss,
         \/ loss[1] \in DOMAIN verdicts /\ verdicts[loss[1]] = "FINDING"
         \/ loss[1] = case /\ v = "FINDING"
  PROVE  Doomed'
<1>1. /\ DOMAIN verdicts' = 1..case /\ DOMAIN verdicts = 1..(case - 1)
      /\ verdicts'[case] = v /\ \A i \in 1..(case - 1) : verdicts'[i] = verdicts[i]
  BY VerdictAppends
<1>2. case \in Nat \ {0}  BY CurrentFits DEF Counted
<1>3. loss[1] \in DOMAIN verdicts' /\ verdicts'[loss[1]] = "FINDING"  BY <1>1, <1>2
<1> QED  BY <1>3 DEF Doomed

\* An exception is reported, in the case or by the run.
LEMMA RaiseStep ==
  ASSUME GreenInv, at \in {"prepare", "arm"}, Raise, UNCHANGED <<probe, defect, exit>>,
         Carries(world, world'), MayBeLost
  PROVE  GreenInv'
<1>1. UNCHANGED <<case, verdicts>> /\ at' \in {"tidy", "raised"}  BY DEF Raise
<1>2. at' = "tidy" => probe = "masking_policy" /\ reply' = "FINDING"  BY DEF Raise
<1>3. at' = "tidy" => ~HeldFor(case)
  <2>1. probe = "masking_policy" => Old(world) = {}  BY DEF GreenInv, WorldInv, Tolerant
  <2> QED  BY <1>2, <2>1 DEF HeldFor, Old
<1>4. Reported'
  <2>1. CASE UNCHANGED loss
    <3>1. Doomed => Doomed'  BY <1>1, <2>1, DoomedBefore DEF Doomed
    <3> QED  BY <2>1, <3>1, ReportedStays DEF GreenInv
  <2>2. CASE loss' = <<case, at>>
    <3>1. loss'[1] = case'  BY <1>1, <2>2
    <3>2. Doomed'  BY <1>1, <1>2, <3>1 DEF Doomed
    <3> QED  BY <2>2, <3>2, ReportedNow
  <2> QED  BY <2>1, <2>2 DEF MayBeLost
<1>5. at \in WithinCase \cup {"prepare"} /\ at' \in WithinCase \cup {"raised"}  BY <1>1 DEF WithinCase
<1>6. at' = "tidy" => reply' \in Verdicts \ {"SKIP"}  BY <1>2 DEF Verdicts
<1>7. at' \in WithinCase => ~HeldFor(case)  BY <1>1, <1>3 DEF WithinCase
<1> QED  BY <1>1, <1>4, <1>5, <1>6, <1>7, WithinStep

\* A setup that fails, because of what is there or of a lost call.
LEMMA UnsupportedStep ==
  ASSUME GreenInv, at = "prepare", Unsupported, UNCHANGED <<probe, defect, exit>>,
         Carries(world, world'), MayBeLost, HeldFor(case) \/ loss' = <<case, "prepare">>
  PROVE  GreenInv'
<1>1. CASE Raise  BY <1>1, RaiseStep
<1>2. CASE Verdict("SKIP")
  <2>1. Counted /\ "SKIP" \in Verdicts /\ at \in WithinCase \cup {"prepare"}  BY DEF GreenInv, Verdicts
  <2>2. Reported'
    <3>1. CASE UNCHANGED loss
      <4>1. Doomed => Doomed'  BY <1>2, <2>1, <3>1, DoomedBefore, VerdictStands
      <4> QED  BY <3>1, <4>1, ReportedStays DEF GreenInv
    <3>2. CASE loss' = <<case, at>>
      <4>1. ExcusedAt(at, Current)  BY DEF ExcusedAt
      <4> QED  BY <3>2, <4>1, ReportedNow
    <3> QED  BY <3>1, <3>2 DEF MayBeLost
  <2> QED  BY <1>2, <2>1, <2>2, VerdictStep
<1> QED  BY <1>1, <1>2 DEF Unsupported

\* A setup that runs is not of a case a killed run holds.
LEMMA FreeIsNotHeld ==
  ASSUME GreenInv, at = "prepare", NEW w, Carries(world, w), Clashes(w) = {}
  PROVE  ~HeldFor(case)
<1> SUFFICES ASSUME HeldFor(case)  PROVE FALSE  OBVIOUS
<1>1. PICK f \in world : f[1] = "old" /\ Has("cluster", f[3]) \in Before(Current)  BY DEF HeldFor, Current
<1>2. f \in Old(world)  BY <1>1 DEF Old
<1>3. defect = NoDefect /\ Backed(world) /\ f[2] = "uses"  BY <1>1, <1>2 DEF GreenInv, WorldInv, Sound
<1>4. f \in w  BY <1>2 DEF Carries, Old
<1>5. Has("cluster", f[3]) \in w  BY <1>3, <1>4 DEF Carries, Backed
<1>6. PICK i \in DOMAIN Current.setup : Has("cluster", f[3]) \in Current.setup[i]  BY <1>1 DEF Before
<1>7. i \in Clashes(w)  BY <1>5, <1>6 DEF Clashes
<1> QED  BY <1>7

\* A setup that fails after a cleanup is of a case a killed run holds.
LEMMA ClashIsHeld ==
  ASSUME GreenInv, Clashes(Cleaned(world)) # {}
  PROVE  HeldFor(case)
<1>0. WellMade(Current)  BY CurrentFits DEF GreenInv, Counted
<1>1. PICK i \in DOMAIN Current.setup : Current.setup[i] \cap Cleaned(world) # {}  BY DEF Clashes
<1>2. PICK f \in Cleaned(world) : f \in Current.setup[i]  BY <1>1
<1>3. f[1] # "old" /\ (f[1] = "cluster" => f = Has("cluster", f[3]))  BY <1>0, <1>1, <1>2 DEF WellMade, SetupFits
<1>4. f[1] = "cluster" /\ f = Has("cluster", f[3])  BY <1>2, <1>3, CleanedIsOf
<1>5. Referenced(f[3], world \ Database(world))  BY <1>2, <1>4 DEF Cleaned
<1>6. PICK g \in world : g[1] \in {"cluster", "old"} /\ g[2] = "uses" /\ g[3] = f[3]
  BY <1>5 DEF Referenced, Database
<1>7. g[1] = "old"
  <2> SUFFICES ASSUME g[1] = "cluster"  PROVE FALSE  BY <1>6
  <2>1. g = Has("cluster", g[3])  BY <1>6 DEF GreenInv, WorldInv, Sound
  <2>2. g[2] = "has"  BY <2>1 DEF Has
  <2> QED  BY <1>6, <2>2
<1>8. Has("cluster", g[3]) \in Before(Cases[probe][case])  BY <1>1, <1>2, <1>4, <1>6 DEF Before, Current
<1> QED  BY <1>6, <1>7, <1>8 DEF HeldFor

\* A setup, in whatever a cleanup left.
LEMMA SetUpStep ==
  ASSUME GreenInv, at = "prepare", UNCHANGED <<probe, defect, exit>>, NEW w, Carries(world, w), SetUp(w),
         \/ UNCHANGED loss /\ w = Cleaned(world)
         \/ loss = <<>> /\ loss' = <<case, "prepare">>
  PROVE  GreenInv'
<1>0. MayBeLost /\ Sound(w)  BY DEF MayBeLost, Carries
<1>1. SetupFits(Current.setup)  BY CurrentFits DEF GreenInv, Counted, WellMade
<1>2. Len(Current.setup) \in Nat /\ DOMAIN Current.setup = 1..Len(Current.setup)  BY <1>1 DEF SetupFits
<1>3. CASE Clashes(w) = {}
  <2> DEFINE v == Made(w, Len(Current.setup))
  <2>1. /\ UNCHANGED <<case, verdicts, reply>> /\ at' \in {"alter", "arm"} /\ world' = v
    BY <1>3 DEF SetUp
  <2>2. Carries(w, v)  BY <1>0, <1>1, <1>2, MadeCarries
  <2>3. Before(Current) \subseteq v  BY <1>2 DEF Before, Made
  <2> HIDE DEF v
  <2>4. Carries(world, world')  BY <2>1, <2>2, CarriesOn
  <2>5. ~HeldFor(case)  BY <1>3, FreeIsNotHeld
  <2>6. Reported'
    <3>1. CASE UNCHANGED loss
      <4>1. Doomed => Doomed'  BY <2>1, <3>1, DoomedBefore DEF Doomed
      <4> QED  BY <3>1, <4>1, ReportedStays DEF GreenInv
    <3>2. CASE loss' = <<case, at>>
      <4>1. ExcusedAt(at, Current)  BY DEF ExcusedAt
      <4> QED  BY <3>2, <4>1, ReportedNow
    <3> QED  BY <3>1, <3>2
  <2>7. at \in WithinCase \cup {"prepare"} /\ at' \in WithinCase \cup {"raised"}  BY <2>1 DEF WithinCase
  <2> QED  BY <1>0, <2>1, <2>3, <2>4, <2>5, <2>6, <2>7, WithinStep
<1>4. CASE Clashes(w) # {}
  <2>1. world' = Abandoned(Made(w, Stops(w) - 1)) /\ Unsupported  BY <1>4 DEF SetUp
  <2>2. Stops(w) - 1 \in 0..Len(Current.setup)  BY <1>1, <1>2, StopsIs
  <2>3. Carries(world, world')  BY <1>0, <1>1, <2>1, <2>2, AbandonedCarries, CarriesOn
  <2>4. HeldFor(case) \/ loss' = <<case, "prepare">>  BY <1>4, ClashIsHeld
  <2> QED  BY <1>0, <2>1, <2>3, <2>4, UnsupportedStep
<1> QED  BY <1>3, <1>4
-----------------------------------------------------------------------------
(* The actions *)

\* The first statements: the run has no verdict yet.
LEMMA BeginStep == ASSUME GreenInv, Begin  PROVE GreenInv'
<1>0. UNCHANGED <<probe, defect, case, world, verdicts>> /\ at = "begin"  BY DEF Begin
<1>1. Carries(world, world')  BY <1>0, LookedCarries DEF GreenInv, WorldInv
<1>2. case = 1 /\ verdicts = <<>> /\ exit = Running  BY <1>0 DEF GreenInv, Counted
<1>3. at' \in {"prepare", "done"}  BY DEF Begin
<1>4. WorldInv'  BY <1>0, <1>1, <1>3, WorldStep DEF GreenInv
<1>5. Skipped'  BY <1>0, <1>2, <1>3 DEF Skipped, WithinCase
<1>6. CASE at' = "prepare" /\ UNCHANGED <<loss, exit>>
  <2>1. Counted'  BY <1>0, <1>2, <1>6 DEF GreenInv, Counted, WithinCase, Last, Defects, DefectsOf, NoDefect
  <2>2. Doomed => Doomed'  BY <1>0, <1>2, DoomedBefore
  <2>3. Reported'  BY <1>0, <1>6, <2>2, ReportedStays DEF GreenInv
  <2> QED  BY <1>4, <1>5, <2>1, <2>3 DEF GreenInv
<1>7. CASE Lose /\ at' = "done"
  <2>1. loss' = <<1, "begin">>  BY <1>0, <1>2, <1>7 DEF Lose
  <2>2. Counted'  BY <1>0, <1>2, <1>7, <2>1 DEF GreenInv, Counted, WithinCase, Last, Defects, DefectsOf, NoDefect
  <2>3. Reported'  BY <1>0, <1>2, <2>1, ReportedNow DEF Outside
  <2> QED  BY <1>4, <1>5, <2>2, <2>3 DEF GreenInv
<1> QED  BY <1>6, <1>7 DEF Begin

\* Cleanup and setup: what clashes is held by a killed run.
LEMMA PrepareStep == ASSUME GreenInv, Prepare  PROVE GreenInv'
<1>1. at = "prepare" /\ SetUp(Cleaned(world)) /\ UNCHANGED <<probe, defect, loss, exit>>  BY DEF Prepare
<1>2. Carries(world, Cleaned(world))  BY CleanedCarries DEF GreenInv, WorldInv
<1> QED  BY <1>1, <1>2, SetUpStep

\* One statement of them is lost: the case may be skipped for it.
LEMMA PrepareLostStep == ASSUME GreenInv, PrepareLost  PROVE GreenInv'
<1>1. at = "prepare" /\ UNCHANGED <<probe, defect, exit>>  BY DEF PrepareLost
<1>2. loss = <<>> /\ loss' = <<case, "prepare">>  BY <1>1 DEF PrepareLost, Lose, MayLose
<1>3. Sound(world) /\ MayBeLost  BY <1>1, <1>2 DEF GreenInv, WorldInv, MayBeLost
<1>4. ASSUME NEW w \in CleanedLost(world), SetUp(w)  PROVE GreenInv'
  <2>1. Carries(world, w)  BY <1>3, CleanedLostCarries
  <2> QED  BY <1>1, <1>2, <1>4, <2>1, SetUpStep
<1>5. CASE Raise /\ UNCHANGED world
  <2>1. Carries(world, world')  BY <1>3, <1>5, LookedCarries
  <2> QED  BY <1>1, <1>3, <1>5, <2>1, RaiseStep
<1>6. CASE SetUpLost(Cleaned(world))
  <2> DEFINE w == Cleaned(world)
  <2>1. PICK n \in 1..Len(Current.setup), executed \in {0, 1} :
           world' = Abandoned(Made(w, n - 1 + executed)) /\ Unsupported
    BY <1>6 DEF SetUpLost
  <2>2. SetupFits(Current.setup)  BY CurrentFits DEF GreenInv, Counted, WellMade
  <2>3. Len(Current.setup) \in Nat  BY <2>2 DEF SetupFits
  <2>4. n - 1 + executed \in 0..Len(Current.setup)  BY <2>3
  <2>5. Carries(world, w)  BY <1>3, CleanedCarries
  <2>6. Carries(w, world')  BY <2>1, <2>2, <2>4, <2>5, AbandonedCarries DEF Carries
  <2>7. Carries(world, world')  BY <2>5, <2>6, CarriesOn
  <2> QED  BY <1>1, <1>2, <1>3, <2>1, <2>7, UnsupportedStep
<1> QED  BY <1>4, <1>5, <1>6 DEF PrepareLost

\* A failpoint that cannot be enabled ends the case or the run.
LEMMA ArmStep == ASSUME GreenInv, Arm  PROVE GreenInv'
<1>1. at = "arm" /\ UNCHANGED <<probe, defect, world, exit>>  BY DEF Arm
<1>2. Carries(world, world')  BY <1>1, LookedCarries DEF GreenInv, WorldInv
<1>3. CASE at' = "alter" /\ UNCHANGED <<case, verdicts, reply, loss>>
  <2>1. ~HeldFor(case) /\ Before(Current) \subseteq world  BY <1>1 DEF GreenInv, Skipped, WorldInv, WithinCase
  <2>2. Doomed => Doomed'  BY <1>1, <1>3, DoomedBefore DEF Doomed
  <2>3. Reported'  BY <1>1, <1>3, <2>2, ReportedStays DEF GreenInv
  <2>4. at \in WithinCase /\ at' \in WithinCase /\ MayBeLost  BY <1>1, <1>3 DEF WithinCase, MayBeLost
  <2> QED  BY <1>1, <1>2, <1>3, <2>1, <2>3, <2>4, WithinStep
<1>4. CASE Lose /\ Raise
  <2>1. MayBeLost  BY <1>4 DEF Lose, MayLose, MayBeLost
  <2> QED  BY <1>1, <1>2, <1>4, <2>1, RaiseStep
<1> QED  BY <1>3, <1>4 DEF Arm

\* The DDL, or a DDL without an answer: its reply is no error that is wanted.
LEMMA AlterStep == ASSUME GreenInv, Alter  PROVE GreenInv'
<1>1. at = "alter" /\ at' \in {"judge", "disarm"} /\ UNCHANGED <<probe, defect, case, check, verdicts, exit>>
  BY DEF Alter, AfterAlter
<1>2. Carries(world, Answered.world) /\ Carries(world, world)
  BY <1>1, CurrentFits, AnsweredCarries, LookedCarries DEF GreenInv, Counted, WorldInv
<1>3. Carries(world, world')
  <2>1. world' = Answered.world \/ world' = world  BY DEF Alter
  <2> QED  BY <1>2, <2>1
<1>4. \/ UNCHANGED loss
      \/ Lose /\ reply' = "other"
  BY DEF Alter
<1>5. Reported'
  <2>1. CASE UNCHANGED loss
    <3>1. Doomed => Doomed'  BY <1>1, <2>1, DoomedBefore DEF Doomed
    <3> QED  BY <1>1, <2>1, <3>1, ReportedStays DEF GreenInv
  <2>2. CASE Lose /\ reply' = "other"
    <3>1. loss' = <<case, at>>  BY <2>2 DEF Lose
    <3>2. Doomed'  BY <1>1, <2>2, <3>1 DEF Doomed
    <3> QED  BY <1>1, <3>1, <3>2, ReportedNow
  <2> QED  BY <1>4, <2>1, <2>2
<1>6. MayBeLost  BY <1>4 DEF Lose, MayLose, MayBeLost
<1>7. at \in WithinCase /\ at' \in WithinCase  BY <1>1 DEF WithinCase
<1>8. ~HeldFor(case)  BY <1>7 DEF GreenInv, Skipped
<1> QED  BY <1>1, <1>3, <1>5, <1>6, <1>7, <1>8, WithinStep

\* A lost DELETE is not seen here.
LEMMA DisarmStep == ASSUME GreenInv, Disarm  PROVE GreenInv'
<1>1. /\ at = "disarm" /\ at' = "judge"
      /\ UNCHANGED <<probe, defect, case, check, world, reply, verdicts, exit>>
  BY DEF Disarm
<1>2. Carries(world, world')  BY <1>1, LookedCarries DEF GreenInv, WorldInv
<1>3. UNCHANGED loss \/ Lose  BY DEF Disarm
<1>4. Reported'
  <2>1. CASE UNCHANGED loss
    <3>1. Doomed => Doomed'  BY <1>1, <2>1 DEF Doomed
    <3> QED  BY <1>1, <2>1, <3>1, ReportedStays DEF GreenInv
  <2>2. CASE Lose  BY <1>1, <2>2, ReportedNow DEF Lose, ExcusedAt
  <2> QED  BY <1>3, <2>1, <2>2
<1>5. MayBeLost  BY <1>3 DEF Lose, MayLose, MayBeLost
<1>6. at \in WithinCase /\ at' \in WithinCase  BY <1>1 DEF WithinCase
<1>7. ~HeldFor(case)  BY <1>6 DEF GreenInv, Skipped
<1> QED  BY <1>1, <1>2, <1>4, <1>5, <1>6, <1>7, WithinStep

\* A DDL whose answer was lost is judged to have failed, unless that is what is wanted.
LEMMA OtherIsFinding ==
  ASSUME WellMade(Current), reply = "other", ~ExcusedAt("alter", Current)
  PROVE  Decided = "FINDING" /\ ~Looks
<1>1. ~Current.known /\ Current.expected # "rewrite_or_block"  BY DEF ExcusedAt
<1>2. Current.expected # "known_control" /\ (Current.expected = "block" => Current.family)  BY <1>1 DEF WellMade
<1>3. Decided = "FINDING"
  <2>1. CASE Current.expected = "block"  BY <1>1, <1>2, <2>1 DEF Decided
  <2>2. CASE Current.expected = "rollback"  BY <2>2 DEF Decided
  <2>3. CASE Current.expected \notin {"block", "rollback"}  BY <1>1, <1>2, <2>3 DEF Decided
  <2> QED  BY <2>1, <2>2, <2>3
<1> QED  BY <1>3 DEF Looks

\* What is decided is a verdict, or to look at the list of the case.
LEMMA DecidedIs ==
  ASSUME WellMade(Current)
  PROVE  /\ ~Looks => Decided \in Verdicts \ {"SKIP"}
         /\ Looks => Listed(Current.checks)
<1>1. Decided \in {"FINDING", "KNOWN", "OK", "look", "FIXED"}  BY DEF Decided
<1>2. Decided = "look" => Current.expected # "block"
  <2>1. Current.expected = "block" => Decided \in {"FINDING", "KNOWN", "OK"}  BY DEF Decided
  <2> QED  BY <2>1
<1>3. ~Looks => Decided # "look"  BY DEF Looks
<1> QED  BY <1>1, <1>2, <1>3 DEF Looks, WellMade, Verdicts

\* The reply of a lost DDL is a finding, where it is not excused.
LEMMA JudgeStep == ASSUME GreenInv, Judge  PROVE GreenInv'
<1>1. at = "judge" /\ UNCHANGED <<probe, defect, case, world, verdicts, loss, exit>>  BY DEF Judge
<1>2. WellMade(Current)  BY CurrentFits DEF GreenInv, Counted
<1>3. \/ Looks /\ at' = "look" /\ check' = 1
      \/ ~Looks /\ at' = "tidy" /\ reply' = Decided
  BY DEF Judge
<1>4. Carries(world, world')  BY <1>1, LookedCarries DEF GreenInv, WorldInv
<1>5. Reported'
  <2>1. CASE loss = <<case, "alter">> /\ reply = "other" /\ ~ExcusedAt("alter", Current)
    <3>1. at' = "tidy" /\ reply' = "FINDING"  BY <1>2, <1>3, <2>1, OtherIsFinding
    <3>2. loss'[1] = case'  BY <1>1, <2>1
    <3>3. Doomed'  BY <3>1, <3>2 DEF Doomed
    <3> QED  BY <1>1, <3>3, ReportedStays DEF GreenInv
  <2>2. CASE loss = <<case, "alter">> /\ ExcusedAt("alter", Current)
    <3>1. loss'[1] = case /\ loss'[2] = "alter"  BY <1>1, <2>2
    <3>2. ExcusedAt(loss'[2], Cases[probe'][loss'[1]])  BY <1>1, <2>2, <3>1 DEF Current
    <3> QED  BY <3>2 DEF Reported, ExcusedAt, ForbidsOnly
  <2>3. CASE ~(loss = <<case, "alter">> /\ reply = "other") /\ ~(loss = <<case, "alter">> /\ ExcusedAt("alter", Current))
    <3>1. Doomed => Doomed'  BY <1>1, <2>3 DEF Doomed
    <3> QED  BY <1>1, <3>1, ReportedStays DEF GreenInv
  <2> QED  BY <2>1, <2>2, <2>3
<1>6. at \in WithinCase /\ at' \in WithinCase /\ MayBeLost  BY <1>1, <1>3 DEF WithinCase, MayBeLost
<1>7. ~HeldFor(case)  BY <1>6 DEF GreenInv, Skipped
<1>8. at' = "tidy" => reply' \in Verdicts \ {"SKIP"}  BY <1>2, <1>3, DecidedIs
<1>9. at' = "look" => check' \in 1..Len(Current.checks)  BY <1>2, <1>3, DecidedIs DEF Listed
<1>10. at' \notin {"arm", "alter"}  BY <1>3
<1> QED  BY <1>1, <1>4, <1>5, <1>6, <1>7, <1>8, <1>9, <1>10, WithinStep

\* A lost look fails, unless it looks only for what must not be there.
LEMMA LookStep == ASSUME GreenInv, Look  PROVE GreenInv'
<1> DEFINE c == Current.checks[check]
<1>1. at = "look" /\ UNCHANGED <<probe, defect, case, verdicts, exit>>  BY DEF Look
<1>2. WellMade(Current) /\ check \in 1..Len(Current.checks)  BY <1>1, CurrentFits DEF GreenInv, Counted
<1>3. check \in DOMAIN Current.checks /\ Len(Current.checks) \in Nat  BY <1>2 DEF WellMade, Listed
<1>4. Carries(world, Looked(c)) /\ Carries(world, world)  BY LookedCarries DEF GreenInv, WorldInv
<1>5. Carries(world, world')
  <2>1. world' = Looked(c) \/ world' = world  BY DEF Look
  <2> QED  BY <1>4, <2>1
<1>6. PICK b \in {Passes(c), PassesLost(c)} : Seen(b) /\ (UNCHANGED loss \/ (Lose /\ b = PassesLost(c)))  BY DEF Look
<1>7. /\ at' \in {"tidy", "look"}
      /\ at' = "tidy" => reply' \in {Failed, "OK"}
      /\ at' = "look" => check' = check + 1 /\ check # Len(Current.checks)
      /\ ~b => at' = "tidy" /\ reply' = Failed
  BY <1>6 DEF Seen
<1>8. Reported'
  <2>1. CASE UNCHANGED loss
    <3>1. Doomed => Doomed'  BY <1>1, <2>1, DoomedBefore DEF Doomed
    <3> QED  BY <1>1, <2>1, <3>1, ReportedStays DEF GreenInv
  <2>2. CASE Lose /\ b = PassesLost(c)
    <3>1. loss' = <<case, at>>  BY <2>2 DEF Lose
    <3>2. CASE b
      <4>1. c.how = "show" /\ c.needs = {}  BY <2>2, <3>2 DEF PassesLost
      <4>2. ForbidsOnly(Current.checks)  BY <1>3, <4>1 DEF ForbidsOnly
      <4>3. ExcusedAt(at, Current)  BY <1>1, <4>2 DEF ExcusedAt
      <4> QED  BY <1>1, <3>1, <4>3, ReportedNow
    <3>3. CASE ~b /\ Current.expected = "known_control"
      <4>1. ExcusedAt(at, Current)  BY <1>1, <1>2, <3>3 DEF ExcusedAt, WellMade
      <4> QED  BY <1>1, <3>1, <4>1, ReportedNow
    <3>4. CASE ~b /\ Current.expected # "known_control"
      <4>1. at' = "tidy" /\ reply' = "FINDING"  BY <1>7, <3>4 DEF Failed
      <4>2. Doomed'  BY <1>1, <3>1, <4>1 DEF Doomed
      <4> QED  BY <1>1, <3>1, <4>2, ReportedNow
    <3> QED  BY <3>2, <3>3, <3>4
  <2> QED  BY <1>6, <2>1, <2>2
<1>9. MayBeLost  BY <1>6 DEF Lose, MayLose, MayBeLost
<1>10. at \in WithinCase /\ at' \in WithinCase  BY <1>1, <1>7 DEF WithinCase
<1>11. ~HeldFor(case)  BY <1>10 DEF GreenInv, Skipped
<1>12. at' = "tidy" => reply' \in Verdicts \ {"SKIP"}  BY <1>7 DEF Failed, Verdicts
<1>13. at' = "look" => check' \in 1..Len(Current.checks)  BY <1>2, <1>3, <1>7
<1>14. at' \notin {"arm", "alter"}  BY <1>7
<1> QED  BY <1>1, <1>5, <1>8, <1>9, <1>10, <1>11, <1>12, <1>13, <1>14, WithinStep

\* The cleanup of the case, which is judged by then.
LEMMA TidyStep == ASSUME GreenInv, Tidy  PROVE GreenInv'
<1>1. at = "tidy" /\ UNCHANGED <<probe, defect, exit>>  BY DEF Tidy
<1>2. reply \in Verdicts \ {"SKIP"} /\ Counted /\ Sound(world)  BY <1>1 DEF GreenInv, Counted, WorldInv
<1>3. at \in WithinCase  BY <1>1 DEF WithinCase
<1>4. ~HeldFor(case)  BY <1>3 DEF GreenInv, Skipped
<1>5. Carries(world, world) /\ Carries(world, Cleaned(world))
      /\ \A w \in CleanedLost(world) : Carries(world, w)
  BY <1>2, LookedCarries, CleanedCarries, CleanedLostCarries
<1>6. Carries(world, world')
  <2>1. world' = world \/ world' = Cleaned(world) \/ world' \in CleanedLost(world)  BY DEF Tidy
  <2> QED  BY <1>5, <2>1
<1>7. CASE Verdict(reply) /\ UNCHANGED loss
  <2>1. Doomed => \/ loss[1] \in DOMAIN verdicts /\ verdicts[loss[1]] = "FINDING"
                  \/ loss[1] = case /\ reply = "FINDING"
    BY <1>1 DEF Doomed
  <2>2. Doomed => Doomed'  BY <1>2, <1>3, <1>7, <2>1, VerdictStands
  <2>3. Reported'  BY <1>1, <1>7, <2>2, ReportedStays DEF GreenInv
  <2>4. MayBeLost  BY <1>7 DEF MayBeLost
  <2> QED  BY <1>1, <1>2, <1>3, <1>4, <1>6, <1>7, <2>3, <2>4, VerdictStep
<1>8. ASSUME Lose, NEW v \in {reply, "FINDING"}, Verdict(v)  PROVE GreenInv'
  <2>1. v \in Verdicts \ {"SKIP"}  BY <1>2 DEF Verdicts
  <2>2. MayBeLost /\ loss' = <<case, at>>  BY <1>8 DEF Lose, MayLose, MayBeLost
  <2>3. ExcusedAt(at, Current)  BY <1>1 DEF ExcusedAt
  <2>4. Reported'  BY <1>1, <2>2, <2>3, ReportedNow
  <2> QED  BY <1>1, <1>3, <1>4, <1>6, <1>8, <2>1, <2>2, <2>4, VerdictStep
<1> QED  BY <1>7, <1>8 DEF Tidy

\* The run exits with 0 without a finding.
LEMMA FinishStep == ASSUME GreenInv, Finish  PROVE GreenInv'
<1>1. at \in {"finish", "raised"} /\ at' = "done" /\ UNCHANGED <<probe, defect, case, check, reply, verdicts>>
  BY DEF Finish, FinishClean
<1>2. exit' = IF at = "raised" \/ \E i \in DOMAIN verdicts : verdicts[i] = "FINDING" THEN 1 ELSE 0
  BY DEF Finish
<1>3. Sound(world)  BY DEF GreenInv, WorldInv
<1>4. Carries(world, world')
  <2>1. Carries(world, world) /\ Carries(world, Cleaned(world))  BY <1>3, LookedCarries, CleanedCarries
  <2>2. ASSUME NEW w \in CleanedLost(world)  PROVE Carries(world, CleanedTables(w))
    <3>1. Carries(world, w)  BY <1>3, CleanedLostCarries
    <3>2. Carries(w, CleanedTables(w))  BY <3>1, CleanedCarries DEF Carries, CleanedTables
    <3> QED  BY <3>1, <3>2, CarriesOn
  <2>3. \/ world' = world \/ world' = Cleaned(world)
        \/ \E w \in CleanedLost(world) : world' = CleanedTables(w)
    BY DEF Finish, FinishClean
  <2> QED  BY <2>1, <2>2, <2>3
<1>5. WorldInv'  BY <1>1, <1>4, WorldStep DEF GreenInv
<1>6. UNCHANGED loss \/ Lose  BY DEF Finish, FinishClean
<1>7. MayBeLost  BY <1>6 DEF Lose, MayLose, MayBeLost
<1>8. Counted'
  <2>1. exit' = 0 => at = "finish" /\ NoFinding  BY <1>1, <1>2 DEF NoFinding
  <2>2. exit' = 0 => Len(verdicts) = Last /\ NoFinding  BY <2>1 DEF GreenInv, Counted
  <2> QED  BY <1>1, <2>2 DEF GreenInv, Counted, WithinCase, Last, Defects, DefectsOf, NoDefect, NoFinding
<1>9. Skipped'
  <2>1. \A i : HeldFor(i)' <=> HeldFor(i)  BY <1>1, <1>4, HeldStays
  <2>2. \A i : LostIn(i) => LostIn(i)'  BY <1>7, LostStays
  <2>3. (\A i \in DOMAIN verdicts : HeldFor(i) => verdicts[i] = "SKIP")'  BY <1>1, <2>1 DEF GreenInv, Skipped
  <2>4. (\A i \in DOMAIN verdicts : verdicts[i] = "SKIP" => HeldFor(i) \/ LostIn(i))'
    BY <1>1, <2>1, <2>2 DEF GreenInv, Skipped
  <2>5. at' \notin WithinCase  BY <1>1 DEF WithinCase
  <2> QED  BY <2>3, <2>4, <2>5 DEF Skipped, WithinCase
<1>10. Reported'
  <2>1. CASE UNCHANGED loss
    <3>1. Doomed => at = "raised" \/ (loss[1] \in DOMAIN verdicts /\ verdicts[loss[1]] = "FINDING")
      BY <1>1 DEF Doomed
    <3>2. Doomed => Doomed'  BY <1>1, <1>2, <2>1, <3>1 DEF Doomed
    <3> QED  BY <1>1, <2>1, <3>2, ReportedStays DEF GreenInv
  <2>2. CASE Lose  BY <1>1, <2>2, ReportedNow DEF Lose, Outside
  <2> QED  BY <1>6, <2>1, <2>2
<1> QED  BY <1>5, <1>8, <1>9, <1>10 DEF GreenInv

\* What the killed run used is used from now on.
LEMMA KillStep == ASSUME GreenInv, Kill  PROVE GreenInv'
<1>1. /\ Tolerant /\ defect = NoDefect /\ loss = <<>> /\ at' = "begin" /\ case' = 1 /\ verdicts' = <<>>
      /\ UNCHANGED <<probe, defect, loss, exit>> /\ at # "done"
  BY DEF Kill
<1>2. \A f : f \in world' <=> \/ f \in world /\ f[1] = "cluster"
                              \/ \E g \in world : g[2] = "uses" /\ f = Uses("old", g[3])
  BY DEF Kill
<1>3. Sound(world) /\ Backed(world)  BY <1>1 DEF GreenInv, WorldInv
<1>4. Sound(world')  BY <1>2, <1>3 DEF Sound, Uses
<1>5. Backed(world')
  <2> SUFFICES ASSUME NEW f \in world', f[2] = "uses"  PROVE Has("cluster", f[3]) \in world'  BY DEF Backed
  <2>1. CASE f \in world /\ f[1] = "cluster"
    <3>1. f = Has("cluster", f[3])  BY <1>3, <2>1 DEF Sound
    <3>2. f[2] = "has"  BY <3>1 DEF Has
    <3> QED  BY <3>2
  <2>2. ASSUME NEW g \in world, g[2] = "uses", f = Uses("old", g[3])  PROVE Has("cluster", f[3]) \in world'
    <3>1. f[3] = g[3]  BY <2>2 DEF Uses
    <3>2. Has("cluster", f[3]) \in world  BY <1>3, <2>2, <3>1 DEF Backed
    <3>3. Has("cluster", f[3])[1] = "cluster"  BY DEF Has
    <3> QED  BY <1>2, <3>2, <3>3
  <2> QED  BY <1>2, <2>1, <2>2
<1>6. WorldInv'
  <2>1. Sound(world)' /\ Backed(world)'  BY <1>4, <1>5 DEF Sound, Backed
  <2>2. Tolerant' /\ (defect = NoDefect)'  BY <1>1 DEF Tolerant, NoDefect
  <2> QED  BY <1>1, <2>1, <2>2 DEF WorldInv
<1>7. Counted'
  <2>1. Last' = Last /\ Last \in Nat \ {0}  BY <1>1, CurrentFits DEF GreenInv, Counted, Last
  <2>2. probe' \in DOMAIN Cases /\ defect' \in Defects(probe') /\ exit' = Running  BY <1>1 DEF GreenInv, Counted
  <2>3. verdicts' \in Seq(Verdicts) /\ case' \in 1..Last'  BY <1>1, <2>1
  <2> QED  BY <1>1, <2>2, <2>3 DEF Counted, WithinCase, Defects, DefectsOf, NoDefect
<1>8. Skipped' /\ Reported'  BY <1>1 DEF Skipped, Reported, WithinCase
<1> QED  BY <1>6, <1>7, <1>8 DEF GreenInv

\* Nothing is judged yet, and the cluster is empty.
LEMMA GreenInit == Init => GreenInv
<1> SUFFICES ASSUME Init  PROVE GreenInv  OBVIOUS
<1>1. /\ probe \in DOMAIN Cases /\ defect \in Defects(probe) /\ case = 1 /\ at = "begin" /\ world = {}
      /\ verdicts = <<>> /\ loss = <<>> /\ exit = Running
  BY ProbesAssumption DEF Init
<1>2. Last \in Nat \ {0}  BY <1>1, CasesFit DEF Last
<1>3. Counted  BY <1>1, <1>2 DEF Counted, WithinCase
<1>4. WorldInv  BY <1>1 DEF WorldInv, Sound, Backed, Old
<1>5. Skipped /\ Reported  BY <1>1 DEF Skipped, Reported, WithinCase
<1> QED  BY <1>3, <1>4, <1>5 DEF GreenInv

\* Every step keeps the invariant, one lemma each.
LEMMA GreenStep == GreenInv /\ [Next]_vars => GreenInv'
<1> SUFFICES ASSUME GreenInv, [Next]_vars  PROVE GreenInv'  OBVIOUS
<1>1. CASE UNCHANGED vars
  <2>1. UNCHANGED <<probe, defect, case, at, check, world, armed, reply, verdicts, loss, killed, exit>>
    BY <1>1 DEF vars
  <2>2. Counted'  BY <2>1 DEF GreenInv, Counted, Last, Current, Defects, DefectsOf, NoDefect, NoFinding
  <2>3. WorldInv'
    <3>1. Carries(world, world')  BY <2>1, LookedCarries DEF GreenInv, WorldInv
    <3> QED  BY <2>1, <3>1, WorldStep DEF GreenInv, WorldInv
  <2>4. Skipped'  BY <2>1 DEF GreenInv, Skipped, HeldFor, LostIn
  <2>5. Reported'  BY <2>1, ReportedStays DEF GreenInv, Doomed
  <2> QED  BY <2>2, <2>3, <2>4, <2>5 DEF GreenInv
<1> QED
  BY <1>1, BeginStep, PrepareStep, PrepareLostStep, ArmStep, AlterStep, DisarmStep, JudgeStep, LookStep,
     TidyStep, FinishStep, KillStep
     DEF Next

\* In every state of a run, however a call of it is lost: it has one verdict per case it
\* is through, a killed run's uses are as they were, the cases they hold are the ones it
\* skips, and what it lost it will report, has reported or could not tell.
THEOREM GreenInvHolds == Spec => []GreenInv
<1> QED  BY GreenInit, GreenStep, PTL DEF Spec
-----------------------------------------------------------------------------
\* GreenIsEarned for every choice of probes and every distance of a lost call from the
\* defect: a run that exits with 0 has judged every case, but those a killed run holds
\* and those in which a lost call looks like the answer that is wanted.
THEOREM GreenIsEarnedHolds == Spec => []GreenIsEarned
<1>1. ASSUME GreenInv  PROVE GreenIsEarned
  <2> SUFFICES ASSUME exit = 0, ~(verdicts = <<>> /\ loss = <<1, "begin">>)
               PROVE  /\ Len(verdicts) = Last
                      /\ \A i \in DOMAIN verdicts : HeldFor(i) => verdicts[i] = "SKIP"
                      /\ \A i \in DOMAIN verdicts : verdicts[i] = "SKIP" => HeldFor(i) \/ LostIn(i)
                      /\ \A i \in DOMAIN verdicts : LostIn(i) => ExcusedAt(loss[2], Cases[probe][i])
    BY DEF GreenIsEarned, ExcusedAt
  <2>1. at = "done"  BY <1>1 DEF GreenInv, Counted, Running
  <2>2. Len(verdicts) = Last /\ NoFinding  BY <1>1, <2>1 DEF GreenInv, Counted
  <2>3. ASSUME NEW i \in DOMAIN verdicts, LostIn(i)  PROVE ExcusedAt(loss[2], Cases[probe][i])
    <3>1. loss # <<>> /\ loss[1] = i /\ loss[2] \notin Outside  BY <2>3 DEF LostIn, Outside
    <3>2. ~Doomed  BY <2>1, <2>2 DEF Doomed, NoFinding
    <3> QED  BY <1>1, <3>1, <3>2 DEF GreenInv, Reported
  <2> QED  BY <1>1, <2>2, <2>3 DEF GreenInv, Skipped
<1> QED  BY <1>1, GreenInvHolds, PTL
-----------------------------------------------------------------------------
(* What every case looks at *)

\* The run's own facts after the DDL of a case.
FactsOf(k) == Database(After(k))
RowsIn(x, facts) == {f[3] : f \in {g \in facts : g[1] = x /\ g[2] = "row"}}
Own(facts) == \A f \in facts : f[1] \notin {"cluster", "old"}

\* A look at facts D, with the policies of B, that finds what it looks for.
Sight(c, B, D) ==
  \/ c.how \in {"show", "read"} /\ c.needs \subseteq D /\ Own(c.forbids) /\ c.forbids \cap D = {}
  \/ c.how = "drops" /\ Has("cluster", c.policy) \in B /\ \A f \in D : f[2] = "uses" => f[3] # c.policy
  \/ c.how = "in_use" /\ \E f \in D : f[2] = "uses" /\ f[3] = c.policy
  \/ c.how = "admin" /\ \A x \in Indexes : Has("t", x) \in D => RowsIn(x, D) = RowsIn("t", D)
  \/ /\ c.how = "rows" /\ c.index \in Indexes /\ Has("t", c.index) \in D /\ RowsIn(c.index, D) = RowsIn("t", D)
     /\ c.exact # {} => RowsIn("t", D) = c.exact

\* All looks of a list find it, and one at most drops a policy.
Seeing(checks, B, D) ==
  /\ \A n \in DOMAIN checks : Sight(checks[n], B, D)
  /\ \A m, n \in DOMAIN checks : checks[m].how = "drops" /\ checks[n].how = "drops" => m = n

LooksOf(checks) == {checks[n] : n \in DOMAIN checks}

\* A look that tells a fact the DDL was to take away, or to leave out.
TellsKept(c, f) ==
  \/ /\ c.how \in {"show", "read"}
     /\ f \in c.forbids \/ \E g \in c.needs : g # f /\ f[2] \in Single /\ g[1] = f[1] /\ g[2] = f[2]
  \/ c.how = "drops" /\ f[2] = "uses" /\ f[3] = c.policy
  \/ c.how = "rows" /\ f[2] = "row" /\ f[1] \in {"t", c.index} /\ c.exact # {} /\ f[3] \notin c.exact

\* A look that tells that a fact of D is gone.
TellsLost(c, f, D) ==
  \/ c.how \in {"show", "read"} /\ f \in c.needs
  \/ c.how = "in_use" /\ f[2] = "uses" /\ f[3] = c.policy /\ \A g \in D : g[2] = "uses" /\ g[3] = c.policy => g = f
  \/ /\ (c.how = "rows" /\ f[1] \in {"t", c.index}) \/ (c.how = "admin" /\ f[1] \in Indexes /\ Has("t", f[1]) \in D)
     /\ f[2] = "row" /\ \A g \in D : g[1] = f[1] /\ g[2] = "row" /\ g[3] = f[3] => g = f

\* The relations a probe of that owner is about, and the facts it has to miss after the DDL.
KeptBy(owner, gone) == Kept([owner |-> owner, gone |-> gone])
Asked(owner, gone, come, f) ==
  /\ f[1] # "db" /\ ~(f \in come /\ f[2] \in Single)
  /\ f[2] \in KeptBy(owner, gone) \/ (f \in come /\ ~(f = Partitioned /\ owner = "index"))

\* Among the looks of a case that leaves the facts D there is one for each such fact.
Tells(owner, gone, come, extra, checks, D) ==
  /\ \A f \in gone \cup extra : \E c \in LooksOf(checks) : TellsKept(c, f)
  /\ checks # <<>> => \A f \in D : Asked(owner, gone, come, f) => \E c \in LooksOf(checks) : TellsLost(c, f, D)
Telling(k) == Tells(k.owner, k.gone, k.come, k.extra, k.checks, FactsOf(k))

\* A case of a correct product passes; only with a failpoint has it more to do.
SeenCase(k) == DOMAIN k = CaseFields /\ Seeing(k.checks, Before(k), FactsOf(k)) /\ Telling(k)
Plain(k) == SeenCase(k) /\ k.failpoint = "none"
SeenAs(k, B, D) == Plain(k) /\ Before(k) = B /\ FactsOf(k) = D
Failing(k) ==
  /\ SeenCase(k) /\ k.failpoint \in DOMAIN Failpoint /\ k.failpoint # "none" /\ k.skip = FALSE
  /\ k.expected \in {"rewrite", "rollback"}
  /\ Has("cluster", "pp_table") \in Before(k)
  /\ Uses("t", "pp_table") \in Before(k) /\ Uses("t", "pp_table") \in FactsOf(k)

\* The facts before and after, where the policies are told from the rest.
LEMMA FactsAre ==
  ASSUME NEW k, NEW C, NEW D, Before(k) = C \cup D, \A f \in C : f[1] = "cluster",
         Own(D), Own(k.gone), Own(k.come)
  PROVE  FactsOf(k) = (D \ k.gone) \cup k.come
<1>1. FactsOf(k) = {f \in ((C \cup D) \ k.gone) \cup k.come : f[1] \notin {"cluster", "old"}}
  BY DEF FactsOf, Database, After
<1> QED  BY <1>1 DEF Own

\* A case sees what its lists see.
LEMMA CaseSees ==
  ASSUME NEW owner, NEW expected, NEW s, NEW gone, NEW come, NEW extra, NEW checks, NEW C, NEW D,
         UNION {s[i] : i \in DOMAIN s} = C \cup D, \A f \in C : f[1] = "cluster",
         Own(D), Own(gone), Own(come), Seeing(checks, C \cup D, (D \ gone) \cup come),
         Tells(owner, gone, come, extra, checks, (D \ gone) \cup come)
  PROVE  SeenAs(Case(owner, expected, s, gone, come, extra, checks), C \cup D, (D \ gone) \cup come)
<1> DEFINE k == Case(owner, expected, s, gone, come, extra, checks)
<1>1. /\ DOMAIN k = CaseFields /\ k.setup = s /\ k.gone = gone /\ k.come = come /\ k.checks = checks
      /\ k.owner = owner /\ k.extra = extra /\ k.failpoint = "none"
  BY DEF Case, CaseFields
<1> HIDE DEF k
<1>2. Before(k) = C \cup D  BY <1>1 DEF Before
<1>3. FactsOf(k) = (D \ gone) \cup come  BY <1>1, <1>2, FactsAre
<1>4. SeenAs(k, C \cup D, (D \ gone) \cup come)  BY <1>1, <1>2, <1>3 DEF SeenAs, Plain, SeenCase, Telling
<1> QED  BY <1>4 DEF k

\* A case that only wants a refusal looks at nothing.
LEMMA BlockedSees == ASSUME NEW owner, NEW s  PROVE Plain(Blocked(owner, s))
<1> DEFINE k == Blocked(owner, s)
<1>1. DOMAIN k = CaseFields /\ k.checks = <<>> /\ k.failpoint = "none" /\ k.gone = {} /\ k.extra = {}
  BY DEF Blocked, Case, CaseFields
<1> HIDE DEF k
<1>2. Seeing(k.checks, Before(k), FactsOf(k)) /\ Telling(k)  BY <1>1 DEF Seeing, Telling, Tells
<1> QED  BY <1>1, <1>2 DEF Plain, SeenCase, k

\* Marks change nothing of that.
LEMMA MarkedSees ==
  ASSUME NEW k, SeenCase(k), NEW v
  PROVE  /\ SeenCase(Skips(k)) /\ Skips(k).failpoint = k.failpoint
         /\ SeenCase([k EXCEPT !.known = v]) /\ [k EXCEPT !.known = v].failpoint = k.failpoint
         /\ LET x == [k EXCEPT !.failpoint = v]
            IN  /\ SeenCase(x) /\ x.failpoint = v /\ x.skip = k.skip /\ x.expected = k.expected
                /\ Before(x) = Before(k) /\ FactsOf(x) = FactsOf(k)
<1>1. ASSUME NEW x, DOMAIN x = CaseFields, x.setup = k.setup, x.gone = k.gone, x.come = k.come, x.checks = k.checks,
             x.owner = k.owner, x.extra = k.extra
      PROVE  SeenCase(x) /\ Before(x) = Before(k) /\ FactsOf(x) = FactsOf(k)
  <2>1. Before(x) = Before(k)  BY <1>1 DEF Before
  <2>2. FactsOf(x) = FactsOf(k)  BY <1>1, <2>1 DEF FactsOf, After
  <2> QED  BY <1>1, <2>1, <2>2 DEF SeenCase, Telling
<1>2. SeenCase(Skips(k)) /\ Skips(k).failpoint = k.failpoint
  <2> DEFINE x == Skips(k)
  <2>1. DOMAIN x = CaseFields /\ x.setup = k.setup /\ x.gone = k.gone /\ x.come = k.come /\ x.checks = k.checks
        /\ x.owner = k.owner /\ x.extra = k.extra /\ x.failpoint = k.failpoint
    BY DEF Skips, SeenCase, CaseFields
  <2> HIDE DEF x
  <2> QED  BY <1>1, <2>1 DEF x
<1>3. SeenCase([k EXCEPT !.known = v]) /\ [k EXCEPT !.known = v].failpoint = k.failpoint
  <2> DEFINE x == [k EXCEPT !.known = v]
  <2>1. DOMAIN x = CaseFields /\ x.setup = k.setup /\ x.gone = k.gone /\ x.come = k.come /\ x.checks = k.checks
        /\ x.owner = k.owner /\ x.extra = k.extra /\ x.failpoint = k.failpoint
    BY DEF SeenCase, CaseFields
  <2> HIDE DEF x
  <2> QED  BY <1>1, <2>1 DEF x
<1>4. LET x == [k EXCEPT !.failpoint = v]
      IN  /\ SeenCase(x) /\ x.failpoint = v /\ x.skip = k.skip /\ x.expected = k.expected
          /\ Before(x) = Before(k) /\ FactsOf(x) = FactsOf(k)
  <2> DEFINE x == [k EXCEPT !.failpoint = v]
  <2>1. DOMAIN x = CaseFields /\ x.setup = k.setup /\ x.gone = k.gone /\ x.come = k.come /\ x.checks = k.checks
        /\ x.owner = k.owner /\ x.extra = k.extra /\ x.failpoint = v /\ x.skip = k.skip /\ x.expected = k.expected
    BY DEF SeenCase, CaseFields
  <2> HIDE DEF x
  <2> QED  BY <1>1, <2>1 DEF x
<1> QED  BY <1>2, <1>3, <1>4

\* Setups, written out.
LEMMA UnionsAre ==
  /\ \A a : LET s == <<a>> IN UNION {s[i] : i \in DOMAIN s} = a
  /\ \A a, b : LET s == <<a, b>> IN UNION {s[i] : i \in DOMAIN s} = a \cup b
  /\ \A a, b, c : LET s == <<a, b, c>> IN UNION {s[i] : i \in DOMAIN s} = a \cup b \cup c
  /\ \A a, b, c, d : LET s == <<a, b, c, d>> IN UNION {s[i] : i \in DOMAIN s} = a \cup b \cup c \cup d
  /\ \A a, b, c, d, e : LET s == <<a, b, c, d, e>> IN UNION {s[i] : i \in DOMAIN s} = a \cup b \cup c \cup d \cup e
<1>1. ASSUME NEW a  PROVE LET s == <<a>> IN UNION {s[i] : i \in DOMAIN s} = a
  <2> DEFINE s == <<a>>
  <2>1. DOMAIN s = {1} /\ s[1] = a  OBVIOUS
  <2> HIDE DEF s
  <2>2. UNION {s[i] : i \in DOMAIN s} = a  BY <2>1
  <2> QED  BY <2>2 DEF s
<1>2. ASSUME NEW a, NEW b  PROVE LET s == <<a, b>> IN UNION {s[i] : i \in DOMAIN s} = a \cup b
  <2> DEFINE s == <<a, b>>
  <2>1. DOMAIN s = {1, 2} /\ s[1] = a /\ s[2] = b  OBVIOUS
  <2> HIDE DEF s
  <2>2. UNION {s[i] : i \in DOMAIN s} = a \cup b  BY <2>1
  <2> QED  BY <2>2 DEF s
<1>3. ASSUME NEW a, NEW b, NEW c  PROVE LET s == <<a, b, c>> IN UNION {s[i] : i \in DOMAIN s} = a \cup b \cup c
  <2> DEFINE s == <<a, b, c>>
  <2>1. DOMAIN s = {1, 2, 3} /\ s[1] = a /\ s[2] = b /\ s[3] = c  OBVIOUS
  <2> HIDE DEF s
  <2>2. UNION {s[i] : i \in DOMAIN s} = a \cup b \cup c  BY <2>1
  <2> QED  BY <2>2 DEF s
<1>4. ASSUME NEW a, NEW b, NEW c, NEW d
      PROVE  LET s == <<a, b, c, d>> IN UNION {s[i] : i \in DOMAIN s} = a \cup b \cup c \cup d
  <2> DEFINE s == <<a, b, c, d>>
  <2>1. DOMAIN s = {1, 2, 3, 4} /\ s[1] = a /\ s[2] = b /\ s[3] = c /\ s[4] = d  OBVIOUS
  <2> HIDE DEF s
  <2>2. UNION {s[i] : i \in DOMAIN s} = a \cup b \cup c \cup d  BY <2>1
  <2> QED  BY <2>2 DEF s
<1>5. ASSUME NEW a, NEW b, NEW c, NEW d, NEW e
      PROVE  LET s == <<a, b, c, d, e>> IN UNION {s[i] : i \in DOMAIN s} = a \cup b \cup c \cup d \cup e
  <2> DEFINE s == <<a, b, c, d, e>>
  <2>1. DOMAIN s = {1, 2, 3, 4, 5} /\ s[1] = a /\ s[2] = b /\ s[3] = c /\ s[4] = d /\ s[5] = e  OBVIOUS
  <2> HIDE DEF s
  <2>2. UNION {s[i] : i \in DOMAIN s} = a \cup b \cup c \cup d \cup e  BY <2>1
  <2> QED  BY <2>2 DEF s
<1> QED  BY <1>1, <1>2, <1>3, <1>4, <1>5

Keeps(c) == c.how # "drops"

\* Lists of looks, written out, the first or the second of which may drop a policy.
LEMMA ListsSee ==
  ASSUME NEW B, NEW D
  PROVE  /\ \A a : Sight(a, B, D) => Seeing(<<a>>, B, D)
         /\ \A a, b : Sight(a, B, D) /\ Sight(b, B, D) /\ (Keeps(a) \/ Keeps(b)) => Seeing(<<a, b>>, B, D)
         /\ \A a, b, c : Sight(a, B, D) /\ Sight(b, B, D) /\ Sight(c, B, D) /\ (Keeps(a) \/ Keeps(b)) /\ Keeps(c)
                          => Seeing(<<a, b, c>>, B, D)
         /\ \A a, b, c, d : /\ Sight(a, B, D) /\ Sight(b, B, D) /\ Sight(c, B, D) /\ Sight(d, B, D)
                            /\ Keeps(a) /\ Keeps(b) /\ Keeps(c) /\ Keeps(d)
                          => Seeing(<<a, b, c, d>>, B, D)
         /\ \A a, b, c, d, e : /\ Sight(a, B, D) /\ Sight(b, B, D) /\ Sight(c, B, D) /\ Sight(d, B, D) /\ Sight(e, B, D)
                               /\ Keeps(a) /\ Keeps(c) /\ Keeps(d) /\ Keeps(e)
                          => Seeing(<<a, b, c, d, e>>, B, D)
<1>1. ASSUME NEW a, Sight(a, B, D)  PROVE Seeing(<<a>>, B, D)
  <2> DEFINE s == <<a>>
  <2>1. DOMAIN s = {1} /\ s[1] = a  OBVIOUS
  <2> HIDE DEF s
  <2>2. Seeing(s, B, D)  BY <1>1, <2>1 DEF Seeing
  <2> QED  BY <2>2 DEF s
<1>2. ASSUME NEW a, NEW b, Sight(a, B, D), Sight(b, B, D), Keeps(a) \/ Keeps(b)  PROVE Seeing(<<a, b>>, B, D)
  <2> DEFINE s == <<a, b>>
  <2>1. DOMAIN s = {1, 2} /\ s[1] = a /\ s[2] = b  OBVIOUS
  <2> HIDE DEF s
  <2>2. Seeing(s, B, D)  BY <1>2, <2>1 DEF Seeing, Keeps
  <2> QED  BY <2>2 DEF s
<1>3. ASSUME NEW a, NEW b, NEW c, Sight(a, B, D), Sight(b, B, D), Sight(c, B, D), Keeps(a) \/ Keeps(b), Keeps(c)
      PROVE  Seeing(<<a, b, c>>, B, D)
  <2> DEFINE s == <<a, b, c>>
  <2>1. DOMAIN s = {1, 2, 3} /\ s[1] = a /\ s[2] = b /\ s[3] = c  OBVIOUS
  <2> HIDE DEF s
  <2>2. Seeing(s, B, D)  BY <1>3, <2>1 DEF Seeing, Keeps
  <2> QED  BY <2>2 DEF s
<1>4. ASSUME NEW a, NEW b, NEW c, NEW d, Sight(a, B, D), Sight(b, B, D), Sight(c, B, D), Sight(d, B, D),
             Keeps(a), Keeps(b), Keeps(c), Keeps(d)
      PROVE  Seeing(<<a, b, c, d>>, B, D)
  <2> DEFINE s == <<a, b, c, d>>
  <2>1. DOMAIN s = {1, 2, 3, 4} /\ s[1] = a /\ s[2] = b /\ s[3] = c /\ s[4] = d  OBVIOUS
  <2> HIDE DEF s
  <2>2. Seeing(s, B, D)  BY <1>4, <2>1 DEF Seeing, Keeps
  <2> QED  BY <2>2 DEF s
<1>5. ASSUME NEW a, NEW b, NEW c, NEW d, NEW e, Sight(a, B, D), Sight(b, B, D), Sight(c, B, D), Sight(d, B, D),
             Sight(e, B, D), Keeps(a), Keeps(c), Keeps(d), Keeps(e)
      PROVE  Seeing(<<a, b, c, d, e>>, B, D)
  <2> DEFINE s == <<a, b, c, d, e>>
  <2>1. DOMAIN s = {1, 2, 3, 4, 5} /\ s[1] = a /\ s[2] = b /\ s[3] = c /\ s[4] = d /\ s[5] = e  OBVIOUS
  <2> HIDE DEF s
  <2>2. Seeing(s, B, D)  BY <1>5, <2>1 DEF Seeing, Keeps
  <2> QED  BY <2>2 DEF s
<1> QED  BY <1>1, <1>2, <1>3, <1>4, <1>5

\* What each kind of look sees.
LEMMA SightsAre ==
  ASSUME NEW B, NEW D
  PROVE  /\ \A needs, forbids : needs \subseteq D /\ Own(forbids) /\ forbids \cap D = {} =>
              Sight(Show(needs, forbids), B, D) /\ Sight(Read(needs, forbids), B, D)
         /\ \A p : Has("cluster", p) \in B /\ (\A f \in D : f[2] = "uses" => f[3] # p) => Sight(Drops(p), B, D)
         /\ \A x, p : Uses(x, p) \in D => Sight(InUse(p), B, D)
         /\ (\A x \in Indexes : Has("t", x) \in D => RowsIn(x, D) = RowsIn("t", D)) => Sight(AdminCheck, B, D)
         /\ \A x, exact : /\ x \in Indexes /\ Has("t", x) \in D /\ RowsIn(x, D) = RowsIn("t", D)
                          /\ exact # {} => RowsIn("t", D) = exact
                        => Sight(SameRows(x, exact), B, D)
         /\ \A x, y : Keeps(Show(x, y)) /\ Keeps(Read(x, y)) /\ Keeps(SameRows(x, y)) /\ Keeps(InUse(x))
         /\ Keeps(AdminCheck)
<1>1. \A x, y : Keeps(Show(x, y)) /\ Keeps(Read(x, y)) /\ Keeps(SameRows(x, y)) /\ Keeps(InUse(x))
  BY DEF Keeps, Show, Read, SameRows, InUse
<1>2. Keeps(AdminCheck)  BY DEF Keeps, AdminCheck
<1>3. \A needs, forbids : needs \subseteq D /\ Own(forbids) /\ forbids \cap D = {} =>
        Sight(Show(needs, forbids), B, D) /\ Sight(Read(needs, forbids), B, D)
  BY DEF Sight, Show, Read
<1>4. \A p : Has("cluster", p) \in B /\ (\A f \in D : f[2] = "uses" => f[3] # p) => Sight(Drops(p), B, D)
  BY DEF Sight, Drops
<1>5. ASSUME NEW x, NEW p, Uses(x, p) \in D  PROVE Sight(InUse(p), B, D)
  <2>1. Uses(x, p)[2] = "uses" /\ Uses(x, p)[3] = p  BY DEF Uses
  <2> QED  BY <1>5, <2>1 DEF Sight, InUse
<1>6. (\A x \in Indexes : Has("t", x) \in D => RowsIn(x, D) = RowsIn("t", D)) => Sight(AdminCheck, B, D)
  BY DEF Sight, AdminCheck
<1>7. \A x, exact : /\ x \in Indexes /\ Has("t", x) \in D /\ RowsIn(x, D) = RowsIn("t", D)
                    /\ exact # {} => RowsIn("t", D) = exact
                  => Sight(SameRows(x, exact), B, D)
  BY DEF Sight, SameRows
<1> QED  BY <1>1, <1>2, <1>3, <1>4, <1>5, <1>6, <1>7

\* The looks of a list, written out.
LEMMA LooksAre ==
  /\ \A a : LooksOf(<<a>>) = {a}
  /\ \A a, b : LooksOf(<<a, b>>) = {a, b}
  /\ \A a, b, c : LooksOf(<<a, b, c>>) = {a, b, c}
  /\ \A a, b, c, d : LooksOf(<<a, b, c, d>>) = {a, b, c, d}
  /\ \A a, b, c, d, e : LooksOf(<<a, b, c, d, e>>) = {a, b, c, d, e}
<1>1. \A a : LooksOf(<<a>>) = {a}
  <2> SUFFICES ASSUME NEW a  PROVE LooksOf(<<a>>) = {a}  OBVIOUS
  <2> DEFINE s == <<a>>
  <2>1. DOMAIN s = {1} /\ s[1] = a  OBVIOUS
  <2> HIDE DEF s
  <2>2. LooksOf(s) = {a}  BY <2>1 DEF LooksOf
  <2> QED  BY <2>2 DEF s
<1>2. \A a, b : LooksOf(<<a, b>>) = {a, b}
  <2> SUFFICES ASSUME NEW a, NEW b  PROVE LooksOf(<<a, b>>) = {a, b}  OBVIOUS
  <2> DEFINE s == <<a, b>>
  <2>1. DOMAIN s = {1, 2} /\ s[1] = a /\ s[2] = b  OBVIOUS
  <2> HIDE DEF s
  <2>2. LooksOf(s) = {a, b}  BY <2>1 DEF LooksOf
  <2> QED  BY <2>2 DEF s
<1>3. \A a, b, c : LooksOf(<<a, b, c>>) = {a, b, c}
  <2> SUFFICES ASSUME NEW a, NEW b, NEW c  PROVE LooksOf(<<a, b, c>>) = {a, b, c}  OBVIOUS
  <2> DEFINE s == <<a, b, c>>
  <2>1. DOMAIN s = {1, 2, 3} /\ s[1] = a /\ s[2] = b /\ s[3] = c  OBVIOUS
  <2> HIDE DEF s
  <2>2. LooksOf(s) = {a, b, c}  BY <2>1 DEF LooksOf
  <2> QED  BY <2>2 DEF s
<1>4. \A a, b, c, d : LooksOf(<<a, b, c, d>>) = {a, b, c, d}
  <2> SUFFICES ASSUME NEW a, NEW b, NEW c, NEW d  PROVE LooksOf(<<a, b, c, d>>) = {a, b, c, d}  OBVIOUS
  <2> DEFINE s == <<a, b, c, d>>
  <2>1. DOMAIN s = {1, 2, 3, 4} /\ s[1] = a /\ s[2] = b /\ s[3] = c /\ s[4] = d  OBVIOUS
  <2> HIDE DEF s
  <2>2. LooksOf(s) = {a, b, c, d}  BY <2>1 DEF LooksOf
  <2> QED  BY <2>2 DEF s
<1>5. \A a, b, c, d, e : LooksOf(<<a, b, c, d, e>>) = {a, b, c, d, e}
  <2> SUFFICES ASSUME NEW a, NEW b, NEW c, NEW d, NEW e  PROVE LooksOf(<<a, b, c, d, e>>) = {a, b, c, d, e}  OBVIOUS
  <2> DEFINE s == <<a, b, c, d, e>>
  <2>1. DOMAIN s = {1, 2, 3, 4, 5} /\ s[1] = a /\ s[2] = b /\ s[3] = c /\ s[4] = d /\ s[5] = e  OBVIOUS
  <2> HIDE DEF s
  <2>2. LooksOf(s) = {a, b, c, d, e}  BY <2>1 DEF LooksOf
  <2> QED  BY <2>2 DEF s
<1> QED  BY <1>1, <1>2, <1>3, <1>4, <1>5

\* What each kind of look tells.
LEMMA TellsAre ==
  /\ \A needs, forbids : \A f \in forbids : TellsKept(Show(needs, forbids), f) /\ TellsKept(Read(needs, forbids), f)
  /\ \A needs, forbids, f : \A g \in needs : (g # f /\ f[2] \in Single /\ g[1] = f[1] /\ g[2] = f[2]) =>
       TellsKept(Show(needs, forbids), f) /\ TellsKept(Read(needs, forbids), f)
  /\ \A p, f : f[2] = "uses" /\ f[3] = p => TellsKept(Drops(p), f)
  /\ \A x, exact, f : f[2] = "row" /\ f[1] \in {"t", x} /\ exact # {} /\ f[3] \notin exact => TellsKept(SameRows(x, exact), f)
  /\ \A D, needs, forbids : \A f \in needs : TellsLost(Show(needs, forbids), f, D) /\ TellsLost(Read(needs, forbids), f, D)
  /\ \A D, p, f : f[2] = "uses" /\ f[3] = p /\ (\A g \in D : g[2] = "uses" /\ g[3] = p => g = f) => TellsLost(InUse(p), f, D)
<1>1. \A needs, forbids : \A f \in forbids : TellsKept(Show(needs, forbids), f) /\ TellsKept(Read(needs, forbids), f)
  BY DEF TellsKept, Show, Read
<1>2. \A needs, forbids, f : \A g \in needs : (g # f /\ f[2] \in Single /\ g[1] = f[1] /\ g[2] = f[2]) =>
        TellsKept(Show(needs, forbids), f) /\ TellsKept(Read(needs, forbids), f)
  BY DEF TellsKept, Show, Read
<1>3. \A p, f : f[2] = "uses" /\ f[3] = p => TellsKept(Drops(p), f)  BY DEF TellsKept, Drops
<1>4. \A x, exact, f : f[2] = "row" /\ f[1] \in {"t", x} /\ exact # {} /\ f[3] \notin exact => TellsKept(SameRows(x, exact), f)
  BY DEF TellsKept, SameRows
<1>5. \A D, needs, forbids : \A f \in needs : TellsLost(Show(needs, forbids), f, D) /\ TellsLost(Read(needs, forbids), f, D)
  BY DEF TellsLost, Show, Read
<1>6. \A D, p, f : f[2] = "uses" /\ f[3] = p /\ (\A g \in D : g[2] = "uses" /\ g[3] = p => g = f) => TellsLost(InUse(p), f, D)
  BY DEF TellsLost, InUse
<1> QED  BY <1>1, <1>2, <1>3, <1>4, <1>5, <1>6

\* A use that is gone is told if it was the only one.
LEMMA UseTells ==
  ASSUME NEW D, NEW p, NEW u, \A f \in D : f[2] = "uses" /\ f[3] = p => f = u
  PROVE  \A f \in D : f[2] = "uses" /\ f[3] = p => TellsLost(InUse(p), f, D)
  BY DEF TellsLost, InUse

\* What each owner is about.
LEMMA KeptAre ==
  /\ \A gone : KeptBy("placement", gone) = {"uses"} /\ KeptBy("index", gone) = {"row"}
  /\ \A gone : \A owner \in {"mixed", "stateful"} : KeptBy(owner, gone) = {"uses", "marks", "row", "is"}
  /\ \A gone : KeptBy("masking", gone) = IF gone = {} THEN {"column", "expr"} ELSE {}
  /\ \A gone, owner : owner \in {"check", "predicate", "ttl", "fk", "key"} => KeptBy(owner, gone) = {"enforces"}
  BY DEF KeptBy, Kept

\* Rows are told from what else there is.
LEMMA RowsAre ==
  ASSUME NEW A, \A f \in A : f[2] # "row", NEW xs, NEW ps, NEW x \in xs
  PROVE  RowsIn(x, A \cup Rows(xs, ps)) = ps
<1> DEFINE R == Rows(xs, ps)
<1>1. \A f : f \in R <=> \E y \in xs, p \in ps : f = <<y, "row", p>>  BY DEF Rows, Row
<1> HIDE DEF R
<1>2. \A f \in A \cup R : f[1] = x /\ f[2] = "row" => f[3] \in ps  BY <1>1
<1>3. ASSUME NEW p \in ps  PROVE \E f \in A \cup R : f[1] = x /\ f[2] = "row" /\ f[3] = p
  <2>1. <<x, "row", p>> \in R  BY <1>1
  <2> QED  BY <2>1
<1> QED  BY <1>2, <1>3 DEF RowsIn, R

\* Placement policies.
LEMMA PlacementSees ==
  /\ \A h \in {"t", "p0"} : Plain(placement_drop_policy_block(h)) /\ Plain(placement_policy_rewrite(h))
  /\ Plain(placement_remove_partitioning_releases_partition_policy)
  /\ Plain(placement_multischema_table_policy_remove_partitioning_block)
  /\ Plain(placement_alter_policy_table_dependency_preserved)
  /\ Plain(placement_alter_policy_partition_dependency_preserved)
  /\ Plain(placement_drop_partition_releases_partition_policy)
  /\ Plain(placement_truncate_partition_preserves_partition_policy)
<1>a. ASSUME NEW k, Plain(k)  PROVE Plain(Skips(k))  BY <1>a, MarkedSees DEF Plain
<1>b. ASSUME NEW s, NEW gone, NEW come, NEW checks, NEW C, NEW D,
             UNION {s[i] : i \in DOMAIN s} = C \cup D, \A f \in C : f[1] = "cluster",
             Own(D), Own(gone), Own(come), Seeing(checks, C \cup D, (D \ gone) \cup come),
             Tells("placement", gone, come, {}, checks, (D \ gone) \cup come)
      PROVE  Plain(Placement(s, gone, come, checks))
  BY <1>a, <1>b, CaseSees DEF Placement, SeenAs
<1>c. \A p : \A f \in Policy(p) : f[1] = "cluster"  BY DEF Policy, Has
<1>d. ASSUME NEW L, NEW gone, NEW come, NEW checks, NEW E, LooksOf(checks) = L,
             \A f \in gone : \E c \in L : TellsKept(c, f),
             \A f \in E : f[2] = "uses" \/ (f \in come /\ f[2] \notin Single) => \E c \in L : TellsLost(c, f, E)
      PROVE  Tells("placement", gone, come, {}, checks, E)
  <2>1. KeptBy("placement", gone) = {"uses"}  BY KeptAre
  <2> QED  BY <1>d, <2>1 DEF Tells, Asked
<1>1. \A h : Plain(placement_drop_policy_block(h))  BY <1>a, BlockedSees DEF placement_drop_policy_block
<1>2. ASSUME NEW h \in {"t", "p0"}  PROVE Plain(placement_policy_rewrite(h))
  <2> DEFINE D == Table({Uses(h, "pp1")})
             C == Policy("pp1") \cup Policy("pp2")
             s == <<Policy("pp1"), Policy("pp2"), D>>
             gone == {Uses(h, "pp1")}
             come == {Uses(h, "pp2")}
             E == (D \ gone) \cup come
  <2>1. \A f : f \in E <=> f = <<"db", "has", "t">> \/ f = <<h, "uses", "pp2">>  BY DEF Table, Uses, Has
  <2>2. Own(D) /\ Own(gone) /\ Own(come)  BY DEF Own, Table, Uses, Has
  <2>3. Has("cluster", "pp1") \in C \cup D  BY DEF Policy
  <2> HIDE DEF D, C, gone, come, E
  <2>4. UNION {s[i] : i \in DOMAIN s} = C \cup D  BY UnionsAre DEF C
  <2>5. Sight(Drops("pp1"), C \cup D, E)
    <3>1. \A f \in E : f[2] = "uses" => f[3] # "pp1"  BY <2>1
    <3> QED  BY <2>3, <3>1, SightsAre
  <2>6. Sight(InUse("pp2"), C \cup D, E)
    <3>1. Uses(h, "pp2") \in E  BY <2>1 DEF Uses
    <3> QED  BY <3>1, SightsAre
  <2>7. Sight(Show({}, {}), C \cup D, E)  BY SightsAre DEF Own
  <2>8. Seeing(require_policy_rewritten("pp1", "pp2"), C \cup D, E)
    BY <2>5, <2>6, <2>7, ListsSee, SightsAre DEF require_policy_rewritten
  <2>9. Tells("placement", gone, come, {}, require_policy_rewritten("pp1", "pp2"), E)
    <3> DEFINE L == {Drops("pp1"), InUse("pp2"), Show({}, {})}
    <3>1. LooksOf(require_policy_rewritten("pp1", "pp2")) = L  BY LooksAre DEF require_policy_rewritten
    <3>2. \A f \in gone : TellsKept(Drops("pp1"), f)  BY TellsAre DEF gone, Uses
    <3>3. \A f \in E : f[2] # "has" => TellsLost(InUse("pp2"), f, E)
      <4>1. \A f \in E : f[2] # "has" => f = <<h, "uses", "pp2">>  BY <2>1
      <4>2. \A f \in E : f[2] = "uses" => f = <<h, "uses", "pp2">>  BY <2>1
      <4> QED  BY <4>1, <4>2, UseTells
    <3>4. \A f \in come : f[2] # "has"  BY DEF come, Uses
    <3> QED  BY <1>d, <3>1, <3>2, <3>3, <3>4
  <2>10. \A f \in C : f[1] = "cluster"  BY <1>c DEF C
  <2> HIDE DEF s
  <2>11. Plain(Placement(s, gone, come, require_policy_rewritten("pp1", "pp2")))
    BY <1>b, <2>2, <2>4, <2>8, <2>9, <2>10 DEF E
  <2> QED  BY <2>11 DEF placement_policy_rewrite, s, gone, come, D
<1>3. Plain(placement_remove_partitioning_releases_partition_policy)
  <2> DEFINE D == Table(BothPlaced \cup {Partitioned})
             C == Policy("pp_table") \cup Policy("pp_part")
             s == <<Policy("pp_table"), Policy("pp_part"), D, {}>>
             gone == {Partitioned, Uses("p0", "pp_part")}
             come == {}
             E == (D \ gone) \cup come
  <2>1. \A f : f \in E <=> f = <<"db", "has", "t">> \/ f = <<"t", "uses", "pp_table">>
    BY DEF Table, BothPlaced, Partitioned, Uses, Has
  <2>2. Own(D) /\ Own(gone) /\ Own(come)  BY DEF Own, Table, BothPlaced, Partitioned, Uses, Has
  <2>3. Has("cluster", "pp_part") \in C \cup D  BY DEF Policy
  <2> HIDE DEF D, C, gone, E
  <2>4. UNION {s[i] : i \in DOMAIN s} = C \cup D  BY UnionsAre DEF C
  <2>5. Sight(Show({}, {Partitioned}), C \cup D, E)
    <3>1. Partitioned \notin E /\ Own({Partitioned})  BY <2>1 DEF Partitioned, Own
    <3> QED  BY <3>1, SightsAre
  <2>6. Sight(Drops("pp_part"), C \cup D, E)
    <3>1. \A f \in E : f[2] = "uses" => f[3] # "pp_part"  BY <2>1
    <3> QED  BY <2>3, <3>1, SightsAre
  <2>7. Sight(InUse("pp_table"), C \cup D, E)
    <3>1. Uses("t", "pp_table") \in E  BY <2>1 DEF Uses
    <3> QED  BY <3>1, SightsAre
  <2>8. Seeing(placement_remove_partitioning_oracle, C \cup D, E)
    BY <2>5, <2>6, <2>7, ListsSee, SightsAre DEF placement_remove_partitioning_oracle
  <2>9. Tells("placement", gone, come, {}, placement_remove_partitioning_oracle, E)
    <3> DEFINE L == {Show({}, {Partitioned}), Drops("pp_part"), InUse("pp_table")}
    <3>1. LooksOf(placement_remove_partitioning_oracle) = L  BY LooksAre DEF placement_remove_partitioning_oracle
    <3>2. \A f \in gone : TellsKept(Drops("pp_part"), f) \/ TellsKept(Show({}, {Partitioned}), f)
      BY TellsAre DEF gone, Uses
    <3>3. \A f \in E : f[2] # "has" => TellsLost(InUse("pp_table"), f, E)  BY <2>1, TellsAre
    <3> QED  BY <1>d, <3>1, <3>2, <3>3
  <2>10. \A f \in C : f[1] = "cluster"  BY <1>c DEF C
  <2> HIDE DEF s
  <2>11. Plain(Placement(s, gone, come, placement_remove_partitioning_oracle))
    BY <1>b, <2>2, <2>4, <2>8, <2>9, <2>10 DEF E
  <2> QED  BY <2>11 DEF placement_remove_partitioning_releases_partition_policy, s, gone, D
<1>4. Plain(placement_multischema_table_policy_remove_partitioning_block)
  BY <1>a, BlockedSees DEF placement_multischema_table_policy_remove_partitioning_block
<1> DEFINE A0 == {Followers("1")}
           A1 == {Followers("2")}
<1>5. ASSUME NEW A, \A f \in A : f[1] \in {"t", "p0"} /\ f[2] \in {"has", "uses"}, NEW checks,
             Seeing(checks, Policy("pp1") \cup (A0 \cup Table(A)), Table(A) \cup A1),
             Tells("placement", A0, A1, {}, checks, Table(A) \cup A1)
      PROVE  Plain(Placement(<<Policy("pp1") \cup A0, Table(A)>>, A0, A1, checks))
  <2> DEFINE C == Policy("pp1")
             D == A0 \cup Table(A)
             s == <<C \cup A0, Table(A)>>
  <2>1. Own(D) /\ Own(A0) /\ Own(A1)  BY <1>5 DEF Own, Followers, Table, Has
  <2>2. (D \ A0) \cup A1 = Table(A) \cup A1  BY <1>5 DEF Followers, Table, Has
  <2>3. UNION {s[i] : i \in DOMAIN s} = C \cup D
    <3>1. UNION {s[i] : i \in DOMAIN s} = (C \cup A0) \cup Table(A)  BY UnionsAre
    <3> QED  BY <3>1
  <2> HIDE DEF D, s
  <2>4. Seeing(checks, C \cup D, (D \ A0) \cup A1) /\ Tells("placement", A0, A1, {}, checks, (D \ A0) \cup A1)
    BY <1>5, <2>2 DEF D
  <2> HIDE DEF A0, A1, C
  <2>5. \A f \in C : f[1] = "cluster"  BY <1>c DEF C
  <2>6. Plain(Placement(s, A0, A1, checks))  BY <1>b, <2>1, <2>3, <2>4, <2>5
  <2> QED  BY <2>6 DEF s, C
<1>e. ASSUME NEW L, NEW checks, NEW E, LooksOf(checks) = L, Show({Followers("2")}, {}) \in L,
             \A f \in E : f[2] = "uses" => \E c \in L : TellsLost(c, f, E)
      PROVE  Tells("placement", A0, A1, {}, checks, E)
  <2>1. \A f \in A0 : TellsKept(Show({Followers("2")}, {}), f)
    <3>1. Followers("1")[1] = Followers("2")[1] /\ Followers("1")[2] = Followers("2")[2] /\ Followers("2") # Followers("1")
          /\ Followers("1")[2] \in Single
      BY DEF Followers, Single
    <3> QED  BY <3>1, TellsAre
  <2>2. \A f \in A1 : f[2] \in Single  BY DEF Followers, Single
  <2> HIDE DEF A0, A1
  <2> QED  BY <1>d, <1>e, <2>1, <2>2
<1>6. Plain(placement_alter_policy_table_dependency_preserved)
  <2> DEFINE A == {Uses("t", "pp1")}
             B == Policy("pp1") \cup (A0 \cup Table(A))
             E == Table(A) \cup A1
  <2>1. \A f : f \in E <=> f = <<"db", "has", "t">> \/ f = <<"t", "uses", "pp1">> \/ f = <<"pp1", "followers", "2">>
    BY DEF Table, Uses, Has, Followers
  <2>2. \A f \in A : f[1] \in {"t", "p0"} /\ f[2] \in {"has", "uses"}  BY DEF Uses
  <2> HIDE DEF B, E
  <2>3. Sight(Show({Followers("2")}, {}), B, E) /\ Sight(Show({Uses("t", "pp1")}, {}), B, E)
    <3>1. Followers("2") \in E /\ Uses("t", "pp1") \in E  BY <2>1 DEF Followers, Uses
    <3> QED  BY <3>1, SightsAre DEF Own
  <2>4. Sight(InUse("pp1"), B, E)
    <3>1. Uses("t", "pp1") \in E  BY <2>1 DEF Uses
    <3> QED  BY <3>1, SightsAre
  <2>5. Seeing(alter_policy_table_dependency_oracle, B, E)
    BY <2>3, <2>4, ListsSee, SightsAre DEF alter_policy_table_dependency_oracle
  <2>6. Tells("placement", A0, A1, {}, alter_policy_table_dependency_oracle, E)
    <3> DEFINE L == {Show({Followers("2")}, {}), InUse("pp1"), Show({Uses("t", "pp1")}, {})}
    <3>1. LooksOf(alter_policy_table_dependency_oracle) = L  BY LooksAre DEF alter_policy_table_dependency_oracle
    <3>2. \A f \in E : f[2] = "uses" => TellsLost(InUse("pp1"), f, E)  BY <2>1, TellsAre
    <3> HIDE DEF A0, A1
    <3> QED  BY <1>e, <3>1, <3>2
  <2> HIDE DEF A
  <2> QED  BY <1>5, <2>2, <2>5, <2>6 DEF placement_alter_policy_table_dependency_preserved, A, B, E
<1>7. Plain(placement_alter_policy_partition_dependency_preserved)
  <2> DEFINE A == {Has("t", "p0"), Uses("p0", "pp1")}
             B == Policy("pp1") \cup (A0 \cup Table(A))
             E == Table(A) \cup A1
  <2>1. \A f : f \in E <=> \/ f = <<"db", "has", "t">> \/ f = <<"t", "has", "p0">> \/ f = <<"p0", "uses", "pp1">>
                           \/ f = <<"pp1", "followers", "2">>
    BY DEF Table, Uses, Has, Followers
  <2>2. \A f \in A : f[1] \in {"t", "p0"} /\ f[2] \in {"has", "uses"}  BY DEF Uses, Has
  <2> HIDE DEF B, E
  <2>3. /\ Sight(Show({Followers("2")}, {}), B, E) /\ Sight(Show({Has("t", "p0"), Uses("p0", "pp1")}, {}), B, E)
        /\ Sight(Read({Has("t", "p0")}, {}), B, E)
    <3>1. Followers("2") \in E /\ Has("t", "p0") \in E /\ Uses("p0", "pp1") \in E  BY <2>1 DEF Followers, Uses, Has
    <3> QED  BY <3>1, SightsAre DEF Own
  <2>4. Sight(InUse("pp1"), B, E)
    <3>1. Uses("p0", "pp1") \in E  BY <2>1 DEF Uses
    <3> QED  BY <3>1, SightsAre
  <2>5. Seeing(alter_policy_partition_dependency_oracle, B, E)
    BY <2>3, <2>4, ListsSee, SightsAre DEF alter_policy_partition_dependency_oracle
  <2>6. Tells("placement", A0, A1, {}, alter_policy_partition_dependency_oracle, E)
    <3> DEFINE L == {Show({Followers("2")}, {}), InUse("pp1"), Show({Has("t", "p0"), Uses("p0", "pp1")}, {}),
                     Read({Has("t", "p0")}, {})}
    <3>1. LooksOf(alter_policy_partition_dependency_oracle) = L  BY LooksAre DEF alter_policy_partition_dependency_oracle
    <3>2. \A f \in E : f[2] = "uses" => TellsLost(InUse("pp1"), f, E)  BY <2>1, TellsAre
    <3> HIDE DEF A0, A1
    <3> QED  BY <1>e, <3>1, <3>2
  <2> HIDE DEF A
  <2> QED  BY <1>5, <2>2, <2>5, <2>6 DEF placement_alter_policy_partition_dependency_preserved, A, B, E
<1> DEFINE P == Table({Has("t", "p0"), Uses("p0", "pp_part")})
           C == Policy("pp_part")
<1>8. /\ \A f : f \in P <=> f = <<"db", "has", "t">> \/ f = <<"t", "has", "p0">> \/ f = <<"p0", "uses", "pp_part">>
      /\ Own(P) /\ UNION {PartPlaced[i] : i \in DOMAIN PartPlaced} = C \cup P
      /\ \A f \in C : f[1] = "cluster"
  <2>1. \A f : f \in P <=> f = <<"db", "has", "t">> \/ f = <<"t", "has", "p0">> \/ f = <<"p0", "uses", "pp_part">>
    BY DEF Table, Uses, Has
  <2>2. PartPlaced = <<C, P, {}>>  BY DEF PartPlaced
  <2> HIDE DEF P, C
  <2>3. UNION {PartPlaced[i] : i \in DOMAIN PartPlaced} = C \cup P  BY <2>2, UnionsAre
  <2>4. Own(P)  BY <2>1 DEF Own
  <2> QED  BY <1>c, <2>1, <2>3, <2>4 DEF C
<1> HIDE DEF P
<1>9. Plain(placement_drop_partition_releases_partition_policy)
  <2> DEFINE gone == {Has("t", "p0"), Uses("p0", "pp_part")}
             E == (P \ gone) \cup {}
  <2>1. \A f : f \in E <=> f = <<"db", "has", "t">>  BY <1>8 DEF Has, Uses
  <2>2. Own(gone) /\ Own({})  BY DEF Own, Has, Uses
  <2>3. Has("cluster", "pp_part") \in C \cup P  BY DEF Policy
  <2> HIDE DEF gone, E, C
  <2>4. Sight(Show({}, {Has("t", "p0")}), C \cup P, E)
    <3>1. Has("t", "p0") \notin E /\ Own({Has("t", "p0")})  BY <2>1 DEF Has, Own
    <3> QED  BY <3>1, SightsAre
  <2>5. Sight(Drops("pp_part"), C \cup P, E)
    <3>1. \A f \in E : f[2] = "uses" => f[3] # "pp_part"  BY <2>1
    <3> QED  BY <2>3, <3>1, SightsAre
  <2>6. Seeing(placement_drop_partition_releases_policy_oracle, C \cup P, E)
    BY <2>4, <2>5, ListsSee, SightsAre DEF placement_drop_partition_releases_policy_oracle
  <2>7. Tells("placement", gone, {}, {}, placement_drop_partition_releases_policy_oracle, E)
    <3> DEFINE L == {Show({}, {Has("t", "p0")}), Drops("pp_part")}
    <3>1. LooksOf(placement_drop_partition_releases_policy_oracle) = L
      BY LooksAre DEF placement_drop_partition_releases_policy_oracle
    <3>2. \A f \in gone : TellsKept(Drops("pp_part"), f) \/ TellsKept(Show({}, {Has("t", "p0")}), f)
      BY TellsAre DEF gone, Uses
    <3>3. \A f \in E : f[2] # "uses"  BY <2>1
    <3> QED  BY <1>d, <3>1, <3>2, <3>3
  <2> QED  BY <1>b, <1>8, <2>2, <2>6, <2>7 DEF placement_drop_partition_releases_partition_policy, gone, E
<1>10. Plain(placement_truncate_partition_preserves_partition_policy)
  <2> DEFINE E == (P \ {}) \cup {}
  <2>1. E = P /\ Own({})  BY DEF Own
  <2> HIDE DEF E, C
  <2>2. Sight(Show({Has("t", "p0")}, {}), C \cup P, E) /\ Sight(Read({Has("t", "p0")}, {}), C \cup P, E)
    <3>1. Has("t", "p0") \in E  BY <1>8, <2>1 DEF Has
    <3> QED  BY <3>1, SightsAre DEF Own
  <2>3. Sight(InUse("pp_part"), C \cup P, E)
    <3>1. Uses("p0", "pp_part") \in E  BY <1>8, <2>1 DEF Uses
    <3> QED  BY <3>1, SightsAre
  <2>4. Seeing(placement_truncate_partition_preserves_policy_oracle, C \cup P, E)
    BY <2>2, <2>3, ListsSee, SightsAre DEF placement_truncate_partition_preserves_policy_oracle
  <2>5. Tells("placement", {}, {}, {}, placement_truncate_partition_preserves_policy_oracle, E)
    <3> DEFINE L == {Show({Has("t", "p0")}, {}), InUse("pp_part"), Read({Has("t", "p0")}, {})}
    <3>1. LooksOf(placement_truncate_partition_preserves_policy_oracle) = L
      BY LooksAre DEF placement_truncate_partition_preserves_policy_oracle
    <3>2. \A f \in E : f[2] = "uses" => TellsLost(InUse("pp_part"), f, E)
      <4>1. \A f \in E : f[2] = "uses" => f = <<"p0", "uses", "pp_part">>  BY <1>8, <2>1
      <4> QED  BY <4>1, UseTells
    <3>3. \A f \in E : f[2] = "uses" \/ (f \in {} /\ f[2] \notin Single) => \E c \in L : TellsLost(c, f, E)  BY <3>2
    <3>4. \A f \in {} : \E c \in L : TellsKept(c, f)  OBVIOUS
    <3> HIDE DEF L
    <3> QED  BY <1>d, <3>1, <3>3, <3>4
  <2> QED  BY <1>b, <1>8, <2>1, <2>4, <2>5 DEF placement_truncate_partition_preserves_partition_policy, E
<1> QED  BY <1>1, <1>2, <1>3, <1>4, <1>6, <1>7, <1>9, <1>10

\* A table, its indexes, and the rows that each of them has.
LEMMA FilledSees ==
  ASSUME NEW B, NEW A, \A f \in A : f[2] # "row", NEW xs, "t" \in xs, NEW ps,
         \A x \in Indexes : Has("t", x) \in A => x \in xs
  PROVE  LET D == A \cup Rows(xs, ps)
         IN  /\ Sight(AdminCheck, B, D)
             /\ \A x, exact : x \in xs \cap Indexes /\ Has("t", x) \in A /\ (exact # {} => exact = ps) =>
                  Sight(SameRows(x, exact), B, D)
<1> DEFINE D == A \cup Rows(xs, ps)
<1>1. \A x \in xs : RowsIn(x, D) = ps  BY RowsAre
<1>2. \A x : Has("t", x) \in D <=> Has("t", x) \in A  BY DEF Has, Rows, Row
<1> HIDE DEF D
<1>3. Sight(AdminCheck, B, D)
  <2>1. \A x \in Indexes : Has("t", x) \in D => RowsIn(x, D) = RowsIn("t", D)  BY <1>1, <1>2
  <2> QED  BY <2>1, SightsAre
<1>4. ASSUME NEW x \in xs \cap Indexes, NEW exact, Has("t", x) \in A, exact # {} => exact = ps
      PROVE  Sight(SameRows(x, exact), B, D)
  <2>1. Has("t", x) \in D /\ RowsIn(x, D) = RowsIn("t", D) /\ (exact # {} => RowsIn("t", D) = exact)
    BY <1>1, <1>2, <1>4
  <2> QED  BY <2>1, SightsAre
<1> QED  BY <1>3, <1>4 DEF D

\* A row that is gone is told by ADMIN CHECK if it is an index's, and by the read if the table's.
LEMMA FilledTells ==
  ASSUME NEW A, \A f \in A : f[2] # "row", NEW xs \in SUBSET {"t", "idx_a", "idx_b"}, NEW ps,
         \A x \in xs \cap Indexes : Has("t", x) \in A
  PROVE  LET D == A \cup Rows(xs, ps)
         IN  \A f \in D : \A y, exact : f[2] = "row" => TellsLost(AdminCheck, f, D) \/ TellsLost(SameRows(y, exact), f, D)
<1> DEFINE R == Rows(xs, ps)
           D == A \cup R
<1>1. \A f : f \in R <=> \E x \in xs, p \in ps : f = <<x, "row", p>>  BY DEF Rows, Row
<1> HIDE DEF R
<1> SUFFICES ASSUME NEW f \in D, f[2] = "row", NEW y, NEW exact
             PROVE  TellsLost(AdminCheck, f, D) \/ TellsLost(SameRows(y, exact), f, D)
  BY DEF R
<1>2. f \in R  OBVIOUS
<1>3. PICK x \in xs, p \in ps : f = <<x, "row", p>>  BY <1>1, <1>2
<1>4. \A g \in D : g[1] = f[1] /\ g[2] = "row" /\ g[3] = f[3] => g = f
  <2> SUFFICES ASSUME NEW g \in D, g[1] = f[1], g[2] = "row", g[3] = f[3]  PROVE g = f  OBVIOUS
  <2>1. g \in R  OBVIOUS
  <2>2. PICK z \in xs, q \in ps : g = <<z, "row", q>>  BY <1>1, <2>1
  <2> QED  BY <1>3, <2>2
<1>5. CASE x = "t"
  <2>1. SameRows(y, exact).how = "rows"  BY DEF SameRows
  <2>2. f[1] = "t"  BY <1>3, <1>5
  <2> QED  BY <1>4, <2>1, <2>2 DEF TellsLost
<1>6. CASE x # "t"
  <2>1. f[1] \in Indexes /\ Has("t", f[1]) \in D  BY <1>3, <1>6 DEF Indexes
  <2>2. AdminCheck.how = "admin"  BY DEF AdminCheck
  <2> QED  BY <1>4, <2>1, <2>2 DEF TellsLost
<1> QED  BY <1>5, <1>6

\* The rows of a partition go, and those of the others stay.
LEMMA RowsGo ==
  ASSUME NEW A, \A f \in A : f[2] # "row", NEW xs
  PROVE  (A \cup Rows(xs, {"p0", "p1", "p2"})) \ Rows(xs, {"p0"}) = A \cup Rows(xs, {"p1", "p2"})
<1>1. \A f, ps : f \in Rows(xs, ps) <=> \E x \in xs, p \in ps : f = <<x, "row", p>>  BY DEF Rows, Row
<1>2. \A f : f \in Rows(xs, {"p0", "p1", "p2"}) /\ f \notin Rows(xs, {"p0"}) <=> f \in Rows(xs, {"p1", "p2"})
  BY <1>1
<1>3. \A f \in A : f \notin Rows(xs, {"p0"})  BY <1>1
<1> QED  BY <1>2, <1>3

\* Rows and what a table has are the run's own.
LEMMA OwnAre ==
  /\ \A A, B : Own(A) /\ Own(B) => Own(A \cup B)
  /\ \A xs, ps : xs \subseteq {"t", "idx_a", "idx_b"} => Own(Rows(xs, ps))
  /\ Own({})
  BY DEF Own, Rows, Row

\* Two lists of looks, one after the other.
LEMMA JoinedIs ==
  ASSUME NEW S, NEW s \in Seq(S), NEW e \in Seq(S)
  PROVE  /\ s \o e \in Seq(S) /\ Len(s \o e) = Len(s) + Len(e)
         /\ \A i \in 1..(Len(s) + Len(e)) : (s \o e)[i] = IF i <= Len(s) THEN s[i] ELSE e[i - Len(s)]
<1>1. s \o e \in Seq(S) /\ Len(s \o e) = Len(s) + Len(e)  OBVIOUS
<1>2. ASSUME NEW i \in 1..(Len(s) + Len(e))  PROVE (s \o e)[i] = IF i <= Len(s) THEN s[i] ELSE e[i - Len(s)]
  OBVIOUS
<1> QED  BY <1>1, <1>2

\* Two and one are three.
LEMMA JoinedSee ==
  ASSUME NEW a, NEW b, NEW c, NEW B, NEW D, Seeing(<<a, b, c>>, B, D)
  PROVE  Seeing(<<a, b>> \o <<c>>, B, D)
<1> DEFINE S == {a, b, c}
           s == <<a, b>>
           e == <<c>>
           q == <<a, b, c>>
           r == s \o e
<1>1. s \in Seq(S) /\ e \in Seq(S) /\ Len(s) = 2 /\ Len(e) = 1 /\ s[1] = a /\ s[2] = b /\ e[1] = c  OBVIOUS
<1>2. DOMAIN q = {1, 2, 3} /\ q[1] = a /\ q[2] = b /\ q[3] = c  OBVIOUS
<1>3. s \in Seq(S) /\ e \in Seq(S)  BY <1>1
<1> HIDE DEF S, s, e
<1>4. /\ r \in Seq(S) /\ Len(r) = Len(s) + Len(e)
      /\ \A i \in 1..(Len(s) + Len(e)) : r[i] = IF i <= Len(s) THEN s[i] ELSE e[i - Len(s)]
  BY <1>3, JoinedIs
<1> HIDE DEF r, q
<1>5. DOMAIN r = {1, 2, 3} /\ r[1] = a /\ r[2] = b /\ r[3] = c
  <2>1. Len(r) = 3 /\ DOMAIN r = 1..Len(r)  BY <1>1, <1>4
  <2>2. DOMAIN r = {1, 2, 3}  BY <2>1
  <2>3. r[1] = s[1] /\ r[2] = s[2] /\ r[3] = e[1]  BY <1>1, <1>4
  <2> QED  BY <1>1, <2>2, <2>3
<1>6. \A n \in {1, 2, 3} : r[n] = q[n]  BY <1>2, <1>5
<1>7. Seeing(r, B, D)  BY <1>2, <1>5, <1>6 DEF Seeing, q
<1> QED  BY <1>7 DEF r, s, e

\* Their looks are those of both.
LEMMA JoinedTells ==
  ASSUME NEW a, NEW b, NEW c
  PROVE  LooksOf(<<a, b>> \o <<c>>) = {a, b, c}
<1> DEFINE S == {a, b, c}
           s == <<a, b>>
           e == <<c>>
           r == s \o e
<1>1. s \in Seq(S) /\ e \in Seq(S) /\ Len(s) = 2 /\ Len(e) = 1 /\ s[1] = a /\ s[2] = b /\ e[1] = c  OBVIOUS
<1> HIDE DEF S, s, e
<1>2. /\ r \in Seq(S) /\ Len(r) = Len(s) + Len(e)
      /\ \A i \in 1..(Len(s) + Len(e)) : r[i] = IF i <= Len(s) THEN s[i] ELSE e[i - Len(s)]
  BY <1>1, JoinedIs
<1> HIDE DEF r
<1>3. Len(r) = 3 /\ DOMAIN r = 1..Len(r)  BY <1>1, <1>2
<1>4. DOMAIN r = {1, 2, 3}  BY <1>3
<1>5. r[1] = a /\ r[2] = b /\ r[3] = c  BY <1>1, <1>2
<1>6. LooksOf(r) = {a, b, c}  BY <1>4, <1>5 DEF LooksOf
<1> QED  BY <1>6 DEF r, s, e

\* Global indexes.
LEMMA IndexSees ==
  /\ Plain(global_index_missing_update_indexes_block) /\ Plain(global_index_exchange_partition_block)
  /\ Plain(global_index_partition_by_update_indexes_rewrite)
  /\ Plain(global_index_remove_partitioning_rewrite_local)
  /\ Plain(global_index_drop_partition_rowset_cleanup) /\ Plain(global_index_truncate_partition_rowset_cleanup)
<1>a. ASSUME NEW k, Plain(k)  PROVE Plain(Skips(k))  BY <1>a, MarkedSees DEF Plain
<1>b. ASSUME NEW A, NEW xs \in SUBSET {"t", "idx_a", "idx_b"}, NEW ps, NEW gone, NEW come, NEW extra, NEW checks,
             Own(A), Own(gone), Own(come), Seeing(checks, A \cup Rows(xs, ps), ((A \cup Rows(xs, ps)) \ gone) \cup come),
             Tells("index", gone, come, extra, checks, ((A \cup Rows(xs, ps)) \ gone) \cup come)
      PROVE  Plain(Index(<<A, Rows(xs, ps)>>, gone, come, extra, checks))
  <2> DEFINE C == {}
             D == A \cup Rows(xs, ps)
             s == <<A, Rows(xs, ps)>>
  <2>1. UNION {s[i] : i \in DOMAIN s} = D  BY UnionsAre
  <2>2. Own(D)  BY <1>b, OwnAre
  <2>3. C \cup D = D /\ \A f \in C : f[1] = "cluster"  OBVIOUS
  <2> HIDE DEF C, D, s
  <2>4. Seeing(checks, C \cup D, (D \ gone) \cup come) /\ Tells("index", gone, come, extra, checks, (D \ gone) \cup come)
    BY <1>b, <2>3 DEF D
  <2>5. Plain(Case("index", "rewrite", s, gone, come, extra, checks))
    <3>1. UNION {s[i] : i \in DOMAIN s} = C \cup D  BY <2>1, <2>3
    <3> QED  BY <1>b, <2>2, <2>3, <2>4, <3>1, CaseSees DEF SeenAs
  <2> QED  BY <1>a, <2>5 DEF Index, s, D
<1>1. Plain(global_index_missing_update_indexes_block) /\ Plain(global_index_exchange_partition_block)
  BY <1>a, BlockedSees DEF global_index_missing_update_indexes_block, global_index_exchange_partition_block
<1> DEFINE xs == {"t", "idx_a", "idx_b"}
           all == {"p0", "p1", "p2"}
           R == Rows(xs, all)
<1>c. Filled({"idx_a", "idx_b"}) = R
  <2>1. {"t"} \cup {"idx_a", "idx_b"} = xs  OBVIOUS
  <2> QED  BY <2>1 DEF Filled
\* Besides the rows nothing is asked but the marks of indexes that come.
<1>d. ASSUME NEW F, \A f \in F : f[2] # "row", NEW ys \in SUBSET xs, NEW ps, NEW gone, NEW come, NEW extra, NEW checks,
             NEW L, LooksOf(checks) = L, \A x \in ys \cap Indexes : Has("t", x) \in F,
             NEW y, NEW exact, AdminCheck \in L, SameRows(y, exact) \in L,
             \A f \in gone \cup extra : \E c \in L : TellsKept(c, f),
             \A f \in come : f # Partitioned => \E c \in L : TellsLost(c, f, F \cup Rows(ys, ps))
      PROVE  Tells("index", gone, come, extra, checks, F \cup Rows(ys, ps))
  <2> DEFINE D == F \cup Rows(ys, ps)
  <2>1. \A f \in D : f[2] = "row" => TellsLost(AdminCheck, f, D) \/ TellsLost(SameRows(y, exact), f, D)
    BY <1>d, FilledTells
  <2>2. KeptBy("index", gone) = {"row"}  BY KeptAre
  <2>3. \A f \in come : f # Partitioned => \E c \in L : TellsLost(c, f, D)  BY <1>d
  <2> HIDE DEF D
  <2>4. \A f \in D : Asked("index", gone, come, f) => \E c \in L : TellsLost(c, f, D)
    BY <1>d, <2>1, <2>2, <2>3 DEF Asked
  <2>5. Tells("index", gone, come, extra, checks, D)  BY <1>d, <2>4 DEF Tells
  <2> QED  BY <2>5 DEF D
<1>2. Plain(global_index_partition_by_update_indexes_rewrite)
  <2> DEFINE A == Table(TwoIndexes)
             come == {Global, Partitioned}
             F == A \cup come
             checks == global_partition_by_oracle
  <2>1. \A f : f \in F <=> \/ f = <<"db", "has", "t">> \/ f = <<"t", "has", "idx_a">> \/ f = <<"t", "has", "idx_b">>
                           \/ f = <<"idx_a", "marks", "global">> \/ f = <<"t", "is", "partitioned">>
    BY DEF Table, TwoIndexes, Has, Global, Marked, Partitioned
  <2>2. Own(A) /\ Own(come)  BY DEF Own, Table, TwoIndexes, Has, Global, Marked, Partitioned
  <2>3. ((A \cup R) \ {}) \cup come = F \cup R  OBVIOUS
  <2> HIDE DEF A, F, come
  <2> DEFINE D == F \cup R
  <2>4. Sight(AdminCheck, A \cup R, D) /\ Sight(SameRows("idx_a", {}), A \cup R, D)
    <3>1. \A f \in F : f[2] # "row"  BY <2>1
    <3>2. Has("t", "idx_a") \in F  BY <2>1 DEF Has
    <3> QED  BY <3>1, <3>2, FilledSees DEF Indexes
  <2>5. Sight(Show(TwoIndexes \cup {Global}, {Marked("idx_b", "global")}), A \cup R, D)
    <3>1. TwoIndexes \cup {Global} \subseteq F  BY <2>1 DEF TwoIndexes, Has, Global, Marked
    <3>2. Marked("idx_b", "global") \notin F /\ Own({Marked("idx_b", "global")})  BY <2>1 DEF Marked, Own
    <3>3. Marked("idx_b", "global") \notin R  BY DEF Marked, Rows, Row
    <3> HIDE DEF R
    <3> QED  BY <3>1, <3>2, <3>3, SightsAre
  <2>6. Seeing(checks, A \cup R, D)
    BY <2>4, <2>5, ListsSee, SightsAre, JoinedSee DEF global_partition_by_oracle, require_index_global_status
  <2>7. Tells("index", {}, come, {Marked("idx_b", "global")}, checks, D)
    <3> DEFINE show == Show(TwoIndexes \cup {Global}, {Marked("idx_b", "global")})
               L == {show, AdminCheck, SameRows("idx_a", {})}
               extra == {Marked("idx_b", "global")}
    <3>1. LooksOf(checks) = L  BY JoinedTells DEF global_partition_by_oracle, require_index_global_status
    <3>2. \A f \in {} \cup extra : TellsKept(show, f)  BY TellsAre
    <3>3. \A f \in come : f # Partitioned => TellsLost(show, f, D)  BY TellsAre DEF come
    <3>4. \A f \in F : f[2] # "row"  BY <2>1
    <3>5. \A x \in xs \cap Indexes : Has("t", x) \in F  BY <2>1 DEF Has, Indexes
    <3> HIDE DEF checks, show, extra
    <3>6. Tells("index", {}, come, extra, checks, F \cup Rows(xs, all))  BY <1>d, <3>1, <3>2, <3>3, <3>4, <3>5
    <3> QED  BY <3>6 DEF extra
  <2> HIDE DEF checks
  <2>8. Own({})  BY OwnAre
  <2>9. Plain(Index(<<A, R>>, {}, come, {Marked("idx_b", "global")}, checks))  BY <1>b, <2>2, <2>3, <2>6, <2>7, <2>8
  <2> QED  BY <1>c, <2>9 DEF global_index_partition_by_update_indexes_rewrite, A, come, checks
<1>3. Plain(global_index_remove_partitioning_rewrite_local)
  <2> DEFINE A == Table(TwoIndexes \cup {Global, Partitioned})
             gone == {Global, Partitioned}
             F == A \ gone
             checks == global_remove_partitioning_oracle
  <2>1. \A f : f \in F <=> \/ f = <<"db", "has", "t">> \/ f = <<"t", "has", "idx_a">> \/ f = <<"t", "has", "idx_b">>
    BY DEF Table, TwoIndexes, Has, Global, Marked, Partitioned
  <2>2. Own(A) /\ Own(gone)  BY DEF Own, Table, TwoIndexes, Has, Global, Marked, Partitioned
  <2>3. ((A \cup R) \ gone) \cup {} = F \cup R
    <3>1. \A f \in R : f \notin gone  BY DEF Rows, Row, Global, Marked, Partitioned
    <3> HIDE DEF R, gone, A
    <3> QED  BY <3>1
  <2> HIDE DEF A, F, gone
  <2> DEFINE D == F \cup R
  <2>4. Sight(AdminCheck, A \cup R, D) /\ Sight(SameRows("idx_a", {}), A \cup R, D)
    <3>1. \A f \in F : f[2] # "row"  BY <2>1
    <3>2. Has("t", "idx_a") \in F  BY <2>1 DEF Has
    <3> QED  BY <3>1, <3>2, FilledSees DEF Indexes
  <2>5. Sight(Show({}, {Partitioned, Global, Marked("idx_b", "global")}), A \cup R, D)
    <3> DEFINE N == {Partitioned, Global, Marked("idx_b", "global")}
    <3>1. N \cap F = {} /\ Own(N)  BY <2>1 DEF Marked, Global, Partitioned, Own
    <3>2. N \cap R = {}  BY DEF Marked, Global, Partitioned, Rows, Row
    <3> HIDE DEF R, N
    <3>3. N \cap D = {}  BY <3>1, <3>2
    <3>4. Sight(Show({}, N), A \cup R, D)  BY <3>1, <3>3, SightsAre
    <3> QED  BY <3>4 DEF N
  <2>6. Seeing(checks, A \cup R, D)
    BY <2>4, <2>5, ListsSee, SightsAre DEF global_remove_partitioning_oracle
  <2>7. Tells("index", gone, {}, {Marked("idx_b", "global")}, checks, D)
    <3> DEFINE N == {Partitioned, Global, Marked("idx_b", "global")}
               L == {Show({}, N), AdminCheck, SameRows("idx_a", {})}
               extra == {Marked("idx_b", "global")}
    <3>1. LooksOf(checks) = L  BY LooksAre DEF global_remove_partitioning_oracle
    <3>2. \A f \in gone \cup extra : TellsKept(Show({}, N), f)  BY TellsAre DEF gone
    <3>3. \A f \in F : f[2] # "row"  BY <2>1
    <3>4. \A x \in xs \cap Indexes : Has("t", x) \in F  BY <2>1 DEF Has, Indexes
    <3> HIDE DEF checks, N, extra
    <3>5. Tells("index", gone, {}, extra, checks, F \cup Rows(xs, all))  BY <1>d, <3>1, <3>2, <3>3, <3>4
    <3> QED  BY <3>5 DEF extra
  <2> HIDE DEF checks
  <2>8. Own({})  BY OwnAre
  <2>9. Plain(Index(<<A, R>>, gone, {}, {Marked("idx_b", "global")}, checks))  BY <1>b, <2>2, <2>3, <2>6, <2>7, <2>8
  <2> QED  BY <1>c, <2>9 DEF global_index_remove_partitioning_rewrite_local, A, gone, checks
<1>4. Plain(global_index_drop_partition_rowset_cleanup)
  <2> DEFINE A == Table({Has("t", "idx_b"), Marked("idx_b", "global")})
             ys == {"t", "idx_b"}
             S == Rows(ys, all)
             gone == Rows(ys, {"p0"})
             left == {"p1", "p2"}
             checks == global_partition_rowset_oracle
  <2>1. \A f : f \in A <=> f = <<"db", "has", "t">> \/ f = <<"t", "has", "idx_b">> \/ f = <<"idx_b", "marks", "global">>
    BY DEF Table, Has, Marked
  <2>2. Own(A) /\ Own(gone) /\ Own({})
    <3>1. Own(A)  BY <2>1 DEF Own
    <3> QED  BY <3>1, OwnAre
  <2>3. \A f \in A : f[2] # "row"  BY <2>1
  <2>4. ((A \cup S) \ gone) \cup {} = A \cup Rows(ys, left)  BY <2>3, RowsGo
  <2> HIDE DEF A
  <2> DEFINE D == A \cup Rows(ys, left)
  <2>5. Sight(AdminCheck, A \cup S, D) /\ Sight(SameRows("idx_b", left), A \cup S, D)
    <3>1. \A x \in Indexes : Has("t", x) \in A => x \in ys  BY <2>1 DEF Has, Indexes
    <3>2. Has("t", "idx_b") \in A /\ "idx_b" \in Indexes /\ "idx_b" \in ys /\ "t" \in ys  BY <2>1 DEF Has, Indexes
    <3> HIDE DEF S, left, ys
    <3> QED  BY <2>3, <3>1, <3>2, FilledSees
  <2>6. Seeing(checks, A \cup S, D)
    BY <2>5, ListsSee, SightsAre DEF global_partition_rowset_oracle
  <2>7. Filled({"idx_b"}) = S
    <3>1. {"t"} \cup {"idx_b"} = ys  OBVIOUS
    <3> QED  BY <3>1 DEF Filled
  <2>8. Tells("index", gone, {}, {}, checks, D)
    <3> DEFINE L == {AdminCheck, SameRows("idx_b", left)}
    <3>1. LooksOf(checks) = L  BY LooksAre DEF global_partition_rowset_oracle
    <3>2. \A f \in gone \cup {} : TellsKept(SameRows("idx_b", left), f)
      <4>1. \A f \in gone : f[2] = "row" /\ f[1] \in {"t", "idx_b"} /\ f[3] = "p0"  BY DEF Rows, Row
      <4>2. left # {} /\ "p0" \notin left  OBVIOUS
      <4> HIDE DEF gone, left
      <4> QED  BY <4>1, <4>2, TellsAre
    <3>3. \A x \in ys \cap Indexes : Has("t", x) \in A  BY <2>1 DEF Has, Indexes
    <3>4. ys \in SUBSET xs  OBVIOUS
    <3> HIDE DEF checks, gone, left, ys, xs
    <3> QED  BY <1>d, <2>3, <3>1, <3>2, <3>3, <3>4
  <2> HIDE DEF checks, left
  <2>9. Plain(Index(<<A, S>>, gone, {}, {}, checks))  BY <1>b, <2>2, <2>4, <2>6, <2>8
  <2> QED  BY <2>7, <2>9 DEF global_index_drop_partition_rowset_cleanup, A, checks
<1> QED  BY <1>1, <1>2, <1>3, <1>4 DEF global_index_truncate_partition_rowset_cleanup

\* A partitioned table, with facts D, and its policies.
PartedBefore(D) == (Policy("pp_table") \cup Policy("pp_part")) \cup D

\* A case of such a table, with and without a failpoint.
LEMMA PartedSees ==
  ASSUME NEW owner, NEW expected, NEW A, NEW xs \in SUBSET {"t", "idx_a", "idx_b"}, NEW ps,
         NEW gone, NEW come, NEW extra, NEW checks, NEW F, Own(A), Own(gone), Own(come),
         ((A \cup Rows(xs, ps)) \ gone) \cup come = F,
         Uses("t", "pp_table") \in A, Uses("t", "pp_table") \in F,
         Seeing(checks, PartedBefore(A \cup Rows(xs, ps)), F), Tells(owner, gone, come, extra, checks, F),
         expected \in {"rewrite", "rollback"}
  PROVE  LET k == Case(owner, expected, <<Policy("pp_table"), Policy("pp_part"), A, Rows(xs, ps)>>, gone, come, extra, checks)
         IN  Plain(k) /\ \A f \in DOMAIN Failpoint : Failing([k EXCEPT !.failpoint = f])
<1> DEFINE C == Policy("pp_table") \cup Policy("pp_part")
           D == A \cup Rows(xs, ps)
           s == <<Policy("pp_table"), Policy("pp_part"), A, Rows(xs, ps)>>
           k == Case(owner, expected, s, gone, come, extra, checks)
<1>1. UNION {s[i] : i \in DOMAIN s} = C \cup D
  <2>1. UNION {s[i] : i \in DOMAIN s} = Policy("pp_table") \cup Policy("pp_part") \cup A \cup Rows(xs, ps)
    BY UnionsAre
  <2> HIDE DEF s
  <2> QED  BY <2>1
<1>2. \A f \in C : f[1] = "cluster"  BY DEF Policy, Has
<1>3. Own(D)  BY OwnAre
<1>4. Has("cluster", "pp_table") \in C  BY DEF Policy
<1>5. k.skip = FALSE /\ k.failpoint = "none" /\ k.expected = expected  BY DEF Case
<1> HIDE DEF C, D, s
<1>6. Plain(k) /\ Before(k) = C \cup D /\ FactsOf(k) = (D \ gone) \cup come
  <2>1. Seeing(checks, C \cup D, (D \ gone) \cup come)  BY DEF PartedBefore, C, D
  <2>2. Tells(owner, gone, come, extra, checks, (D \ gone) \cup come)  BY DEF D
  <2>3. SeenAs(k, C \cup D, (D \ gone) \cup come)  BY <1>1, <1>2, <1>3, <2>1, <2>2, CaseSees
  <2> QED  BY <2>3 DEF SeenAs
<1>7. Uses("t", "pp_table") \in Before(k) /\ Uses("t", "pp_table") \in FactsOf(k)  BY <1>6 DEF D
<1> HIDE DEF k
<1>8. ASSUME NEW f \in DOMAIN Failpoint  PROVE Failing([k EXCEPT !.failpoint = f])
  <2>1. f # "none"  BY DEF Failpoint
  <2> DEFINE x == [k EXCEPT !.failpoint = f]
  <2>2. /\ SeenCase(x) /\ x.failpoint = f /\ x.skip = k.skip /\ x.expected = k.expected
        /\ Before(x) = Before(k) /\ FactsOf(x) = FactsOf(k)
    BY <1>6, MarkedSees DEF Plain
  <2> HIDE DEF x
  <2>3. Failing(x)  BY <1>4, <1>5, <1>6, <1>7, <2>1, <2>2 DEF Failing
  <2> QED  BY <2>3 DEF x
<1> QED  BY <1>6, <1>8 DEF k, s

\* Which facts there are when REMOVE PARTITIONING and PARTITION BY start.
LEMMA PartedFacts ==
  /\ \A f : f \in Table(BothPlaced \cup TwoIndexes \cup {Global, Partitioned}) <=>
       \/ f = <<"db", "has", "t">> \/ f = <<"t", "has", "idx_a">> \/ f = <<"t", "has", "idx_b">>
       \/ f = <<"t", "uses", "pp_table">> \/ f = <<"p0", "uses", "pp_part">>
       \/ f = <<"idx_a", "marks", "global">> \/ f = <<"t", "is", "partitioned">>
  /\ \A f : f \in Table(TwoIndexes \cup {Uses("t", "pp_table")}) <=>
       \/ f = <<"db", "has", "t">> \/ f = <<"t", "has", "idx_a">> \/ f = <<"t", "has", "idx_b">>
       \/ f = <<"t", "uses", "pp_table">>
  /\ \A f : f \in Table(BothPlaced \cup {Has("t", "idx_b"), Marked("idx_b", "global"), Partitioned}) <=>
       \/ f = <<"db", "has", "t">> \/ f = <<"t", "has", "idx_b">> \/ f = <<"idx_b", "marks", "global">>
       \/ f = <<"t", "uses", "pp_table">> \/ f = <<"p0", "uses", "pp_part">> \/ f = <<"t", "is", "partitioned">>
  /\ Filled({"idx_a", "idx_b"}) = Rows({"t", "idx_a", "idx_b"}, {"p0", "p1", "p2"})
  /\ Filled({"idx_b"}) = Rows({"t", "idx_b"}, {"p0", "p1", "p2"})
<1>1. {"t"} \cup {"idx_a", "idx_b"} = {"t", "idx_a", "idx_b"} /\ {"t"} \cup {"idx_b"} = {"t", "idx_b"}  OBVIOUS
<1>2. \A f : f \in Table(BothPlaced \cup TwoIndexes \cup {Global, Partitioned}) <=>
       \/ f = <<"db", "has", "t">> \/ f = <<"t", "has", "idx_a">> \/ f = <<"t", "has", "idx_b">>
       \/ f = <<"t", "uses", "pp_table">> \/ f = <<"p0", "uses", "pp_part">>
       \/ f = <<"idx_a", "marks", "global">> \/ f = <<"t", "is", "partitioned">>
  BY DEF Table, BothPlaced, TwoIndexes, Uses, Has, Global, Marked, Partitioned
<1>3. \A f : f \in Table(TwoIndexes \cup {Uses("t", "pp_table")}) <=>
       \/ f = <<"db", "has", "t">> \/ f = <<"t", "has", "idx_a">> \/ f = <<"t", "has", "idx_b">>
       \/ f = <<"t", "uses", "pp_table">>
  BY DEF Table, TwoIndexes, Uses, Has
<1>4. \A f : f \in Table(BothPlaced \cup {Has("t", "idx_b"), Marked("idx_b", "global"), Partitioned}) <=>
       \/ f = <<"db", "has", "t">> \/ f = <<"t", "has", "idx_b">> \/ f = <<"idx_b", "marks", "global">>
       \/ f = <<"t", "uses", "pp_table">> \/ f = <<"p0", "uses", "pp_part">> \/ f = <<"t", "is", "partitioned">>
  BY DEF Table, BothPlaced, Uses, Has, Marked, Partitioned
<1> QED  BY <1>1, <1>2, <1>3, <1>4 DEF Filled

\* Facts that are no rows are looked for, or against, beside the rows.
LEMMA ShowSees ==
  ASSUME NEW B, NEW F, NEW xs, NEW ps, NEW needs, NEW forbids, needs \subseteq F, forbids \cap F = {},
         Own(forbids), \A f \in forbids : f[2] # "row"
  PROVE  Sight(Show(needs, forbids), B, F \cup Rows(xs, ps))
<1>1. \A f \in Rows(xs, ps) : f[2] = "row"  BY DEF Rows, Row
<1>2. needs \subseteq F \cup Rows(xs, ps) /\ forbids \cap (F \cup Rows(xs, ps)) = {}  BY <1>1
<1> QED  BY <1>2, SightsAre

\* Policies that are used by facts that are no rows, beside the rows.
LEMMA PoliciesSee ==
  ASSUME NEW D, NEW F, NEW xs, NEW ps
  PROVE  /\ \A x, p : Uses(x, p) \in F => Sight(InUse(p), PartedBefore(D), F \cup Rows(xs, ps))
         /\ (\A f \in F : f[2] = "uses" => f[3] # "pp_part") => Sight(Drops("pp_part"), PartedBefore(D), F \cup Rows(xs, ps))
<1>1. \A f \in Rows(xs, ps) : f[2] # "uses"  BY DEF Rows, Row
<1>2. Has("cluster", "pp_part") \in PartedBefore(D)  BY DEF PartedBefore, Policy
<1>3. ASSUME NEW x, NEW p, Uses(x, p) \in F  PROVE Sight(InUse(p), PartedBefore(D), F \cup Rows(xs, ps))
  <2>1. Uses(x, p) \in F \cup Rows(xs, ps)  BY <1>3
  <2> QED  BY <2>1, SightsAre
<1>4. ASSUME \A f \in F : f[2] = "uses" => f[3] # "pp_part"
      PROVE  Sight(Drops("pp_part"), PartedBefore(D), F \cup Rows(xs, ps))
  <2>1. \A f \in F \cup Rows(xs, ps) : f[2] = "uses" => f[3] # "pp_part"  BY <1>1, <1>4
  <2> QED  BY <1>2, <2>1, SightsAre
<1> QED  BY <1>3, <1>4

\* What must not be there after REMOVE PARTITIONING.
Undone == {Partitioned, Global, Marked("idx_b", "global")}

\* They are the run's own facts, and no policy is used in them.
LEMMA UndoneIs ==
  /\ Own(Undone) /\ \A f \in Undone : f[2] # "row"
  /\ \A f : f \in Undone <=> f = <<"t", "is", "partitioned">> \/ f = <<"idx_a", "marks", "global">> \/ f = <<"idx_b", "marks", "global">>
<1>1. \A f : f \in Undone <=> f = <<"t", "is", "partitioned">> \/ f = <<"idx_a", "marks", "global">> \/ f = <<"idx_b", "marks", "global">>
  BY DEF Undone, Partitioned, Global, Marked
<1> QED  BY <1>1 DEF Own

\* What there is to tell of a table whose index and placement depend on its partitions:
\* the rows are told by the looks at them, each use by a look of its own, and what is
\* marked or partitioned by the one that prints the table.
LEMMA PartedTells ==
  ASSUME NEW owner \in {"mixed", "stateful"}, NEW F, \A f \in F : f[2] # "row",
         NEW xs \in SUBSET {"t", "idx_a", "idx_b"}, NEW ps, \A x \in xs \cap Indexes : Has("t", x) \in F,
         NEW gone, NEW come, NEW extra, NEW checks, NEW L, LooksOf(checks) = L,
         NEW y, NEW exact, AdminCheck \in L, SameRows(y, exact) \in L,
         \A f \in gone \cup extra : \E c \in L : TellsKept(c, f),
         \A f \in F : \/ f[2] = "has"
                      \/ \E needs, forbids : f \in needs /\ Show(needs, forbids) \in L
                      \/ f[2] = "uses" /\ InUse(f[3]) \in L /\ \A g \in F : g[2] = "uses" /\ g[3] = f[3] => g = f,
         \A f \in come : f \in F /\ f[2] # "has"
  PROVE  Tells(owner, gone, come, extra, checks, F \cup Rows(xs, ps))
<1> DEFINE R == Rows(xs, ps)
           D == F \cup R
<1>1. \A f \in D : f[2] = "row" => TellsLost(AdminCheck, f, D) \/ TellsLost(SameRows(y, exact), f, D)
  BY FilledTells
<1>2. KeptBy(owner, gone) = {"uses", "marks", "row", "is"}  BY KeptAre
<1>3. \A f \in R : f[2] = "row"  BY DEF Rows, Row
<1> HIDE DEF R
<1>4. ASSUME NEW f \in F, f[2] # "has"  PROVE \E c \in L : TellsLost(c, f, D)
  <2>1. CASE \E needs, forbids : f \in needs /\ Show(needs, forbids) \in L  BY <2>1, TellsAre
  <2>2. CASE f[2] = "uses" /\ InUse(f[3]) \in L /\ \A g \in F : g[2] = "uses" /\ g[3] = f[3] => g = f
    <3>1. \A g \in D : g[2] = "uses" /\ g[3] = f[3] => g = f  BY <1>3, <2>2
    <3>2. TellsLost(InUse(f[3]), f, D)
      <4>1. f \in D  OBVIOUS
      <4> HIDE DEF D
      <4> QED  BY <2>2, <3>1, <4>1, UseTells
    <3> QED  BY <2>2, <3>2
  <2> QED  BY <1>4, <2>1, <2>2
<1>5. \A f \in D : f \in F \/ f[2] = "row"  BY <1>3
<1> HIDE DEF D
<1>6. \A f \in D : Asked(owner, gone, come, f) => \E c \in L : TellsLost(c, f, D)
  BY <1>1, <1>2, <1>4, <1>5 DEF Asked
<1>7. Tells(owner, gone, come, extra, checks, D)  BY <1>6 DEF Tells
<1> QED  BY <1>7 DEF D, R

\* REMOVE PARTITIONING of a table whose index and placement depend on its partitions.
LEMMA RemovedSees ==
  ASSUME NEW owner \in {"mixed", "stateful"}, NEW exact, exact = {} \/ exact = {"p0", "p1", "p2"}
  PROVE  LET k == Case(owner, "rewrite", RemoveSetup, RemoveGone, {}, {}, mixed_remove_partitioning_oracle(exact))
         IN  Plain(k) /\ \A f \in DOMAIN Failpoint : Failing([k EXCEPT !.failpoint = f])
<1> DEFINE xs == {"t", "idx_a", "idx_b"}
           all == {"p0", "p1", "p2"}
           R == Rows(xs, all)
           A == Table(BothPlaced \cup TwoIndexes \cup {Global, Partitioned})
           F == A \ RemoveGone
           B == PartedBefore(A \cup R)
           D == F \cup R
           checks == mixed_remove_partitioning_oracle(exact)
<1>1. \A f : f \in F <=> \/ f = <<"db", "has", "t">> \/ f = <<"t", "has", "idx_a">> \/ f = <<"t", "has", "idx_b">>
                         \/ f = <<"t", "uses", "pp_table">>
  <2>1. \A f : f \in RemoveGone <=> \/ f = <<"idx_a", "marks", "global">> \/ f = <<"t", "is", "partitioned">>
                                    \/ f = <<"p0", "uses", "pp_part">>
    BY DEF RemoveGone, Global, Marked, Partitioned, Uses
  <2>2. \A f : f \in A <=> \/ f = <<"db", "has", "t">> \/ f = <<"t", "has", "idx_a">> \/ f = <<"t", "has", "idx_b">>
       \/ f = <<"t", "uses", "pp_table">> \/ f = <<"p0", "uses", "pp_part">>
       \/ f = <<"idx_a", "marks", "global">> \/ f = <<"t", "is", "partitioned">>
    BY PartedFacts
  <2> HIDE DEF A
  <2> QED  BY <2>1, <2>2
<1>2. Own(A) /\ Own(RemoveGone) /\ Own({})
  <2>1. Own(A)  BY PartedFacts DEF Own
  <2>2. Own(RemoveGone)  BY DEF RemoveGone, Global, Marked, Partitioned, Uses, Own
  <2> QED  BY <2>1, <2>2, OwnAre
<1>3. ((A \cup R) \ RemoveGone) \cup {} = D
  <2>1. \A f \in R : f \notin RemoveGone  BY DEF Rows, Row, RemoveGone, Global, Marked, Partitioned, Uses
  <2> HIDE DEF R, A
  <2> QED  BY <2>1
<1>4. Uses("t", "pp_table") \in A /\ Uses("t", "pp_table") \in F /\ Has("t", "idx_a") \in F
  <2>1. Uses("t", "pp_table") \in F /\ Has("t", "idx_a") \in F  BY <1>1 DEF Uses, Has
  <2> QED  BY <2>1
<1>5. \A f \in F : f[2] # "row" /\ (f[2] = "uses" => f[3] # "pp_part")  BY <1>1
<1> HIDE DEF A, F
<1>6. Sight(AdminCheck, B, D) /\ Sight(SameRows("idx_a", exact), B, D)
  BY <1>4, <1>5, FilledSees DEF Indexes
<1> HIDE DEF xs, all
<1>7. Sight(Drops("pp_part"), B, D) /\ Sight(InUse("pp_table"), B, D)  BY <1>4, <1>5, PoliciesSee
<1>8. Sight(Show({}, Undone), B, D)
  <2>1. Undone \cap F = {}  BY <1>1, UndoneIs
  <2> QED  BY <2>1, UndoneIs, ShowSees
<1>9. Tells(owner, RemoveGone, {}, {}, checks, D)
  <2> DEFINE L == {Show({}, Undone), Drops("pp_part"), InUse("pp_table"), AdminCheck, SameRows("idx_a", exact)}
  <2>1. LooksOf(checks) = L  BY LooksAre DEF mixed_remove_partitioning_oracle, Undone
  <2>2. \A f \in RemoveGone \cup {} : TellsKept(Drops("pp_part"), f) \/ TellsKept(Show({}, Undone), f)
    BY TellsAre DEF RemoveGone, Undone, Uses
  <2>3. \A x \in xs \cap Indexes : Has("t", x) \in F  BY <1>1 DEF Has, Indexes, xs
  <2>4. \A f \in F : f[2] = "has" \/ (f[2] = "uses" /\ f[3] = "pp_table" /\ \A g \in F : g[2] = "uses" => g = f)
    BY <1>1
  <2>5. xs \in SUBSET {"t", "idx_a", "idx_b"}  BY DEF xs
  <2>6. \A f \in {} : f \in F /\ f[2] # "has"  OBVIOUS
  <2> HIDE DEF checks
  <2>7. InUse("pp_table") \in L /\ AdminCheck \in L /\ SameRows("idx_a", exact) \in L
        /\ \A f \in RemoveGone \cup {} : \E c \in L : TellsKept(c, f)
    BY <2>2
  <2> HIDE DEF L
  <2>8. \A f \in F : \/ f[2] = "has"
                     \/ f[2] = "uses" /\ InUse(f[3]) \in L /\ \A g \in F : g[2] = "uses" /\ g[3] = f[3] => g = f
    BY <2>4, <2>7
  <2> QED  BY <1>5, <2>1, <2>3, <2>5, <2>6, <2>7, <2>8, PartedTells DEF D, R
<1> HIDE DEF B, D
<1>10. Seeing(checks, B, D)
  BY <1>6, <1>7, <1>8, ListsSee, SightsAre DEF mixed_remove_partitioning_oracle, Undone
<1>11. RemoveSetup = <<Policy("pp_table"), Policy("pp_part"), A, R>>
  BY PartedFacts DEF RemoveSetup, A, xs, all
<1>12. Uses("t", "pp_table") \in D  BY <1>4 DEF D
<1>13. xs \in SUBSET {"t", "idx_a", "idx_b"}  BY DEF xs
<1> HIDE DEF checks, R
<1>14. Seeing(checks, PartedBefore(A \cup Rows(xs, all)), D)  BY <1>10 DEF B, R
<1>15. ((A \cup Rows(xs, all)) \ RemoveGone) \cup {} = D  BY <1>3 DEF R
<1> QED  BY <1>2, <1>4, <1>11, <1>12, <1>13, <1>14, <1>15, <1>9, PartedSees DEF checks, R

\* Rolled back, it leaves everything.
LEMMA RemoveRolledBackSees ==
  \A f \in DOMAIN Failpoint : Failing(rollback_remove_partitioning(f))
<1> DEFINE xs == {"t", "idx_a", "idx_b"}
           all == {"p0", "p1", "p2"}
           R == Rows(xs, all)
           A == Table(BothPlaced \cup TwoIndexes \cup {Global, Partitioned})
           B == PartedBefore(A \cup R)
           D == A \cup R
           checks == remove_partitioning_rollback_oracle
           k == Case("stateful", "rollback", RemoveSetup, {}, {}, {}, checks)
<1>1. \A f : f \in A <=> \/ f = <<"db", "has", "t">> \/ f = <<"t", "has", "idx_a">> \/ f = <<"t", "has", "idx_b">>
       \/ f = <<"t", "uses", "pp_table">> \/ f = <<"p0", "uses", "pp_part">>
       \/ f = <<"idx_a", "marks", "global">> \/ f = <<"t", "is", "partitioned">>
  BY PartedFacts
<1> HIDE DEF A
<1>2. Own(A) /\ Own({})  BY <1>1, OwnAre DEF Own
<1>3. ((A \cup R) \ {}) \cup {} = D  OBVIOUS
<1>4. Uses("t", "pp_table") \in A /\ Uses("p0", "pp_part") \in A /\ Has("t", "idx_a") \in A  BY <1>1 DEF Uses, Has
<1>5. \A f \in A : f[2] # "row"  BY <1>1
<1>6. Sight(AdminCheck, B, D) /\ Sight(SameRows("idx_a", {}), B, D)
  BY <1>4, <1>5, FilledSees DEF Indexes
<1> HIDE DEF xs, all
<1>7. Sight(InUse("pp_part"), B, D) /\ Sight(InUse("pp_table"), B, D)  BY <1>4, PoliciesSee
<1>8. Sight(Show({Partitioned, Global}, {}), B, D)
  <2>1. {Partitioned, Global} \subseteq A  BY <1>1 DEF Partitioned, Global, Marked
  <2> QED  BY <1>2, <2>1, ShowSees
<1> HIDE DEF B
<1>9. Seeing(checks, B, D)
  BY <1>6, <1>7, <1>8, ListsSee, SightsAre DEF remove_partitioning_rollback_oracle
<1>10. Tells("stateful", {}, {}, {}, checks, D)
  <2> DEFINE show == Show({Partitioned, Global}, {})
             L == {show, InUse("pp_table"), InUse("pp_part"), AdminCheck, SameRows("idx_a", {})}
  <2>1. LooksOf(checks) = L  BY LooksAre DEF remove_partitioning_rollback_oracle
  <2>2. \A x \in xs \cap Indexes : Has("t", x) \in A  BY <1>1 DEF Has, Indexes, xs
  <2>3. \A f \in A : \/ f[2] = "has" \/ f \in {Partitioned, Global}
                     \/ f[2] = "uses" /\ f[3] \in {"pp_table", "pp_part"} /\ \A g \in A : g[2] = "uses" /\ g[3] = f[3] => g = f
    BY <1>1 DEF Partitioned, Global, Marked
  <2>4. xs \in SUBSET {"t", "idx_a", "idx_b"}  BY DEF xs
  <2>5. \A f \in {} : f \in A /\ f[2] # "has"  OBVIOUS
  <2> HIDE DEF checks
  <2>6. InUse("pp_table") \in L /\ InUse("pp_part") \in L /\ AdminCheck \in L /\ SameRows("idx_a", {}) \in L /\ show \in L
        /\ \A f \in {} \cup {} : \E c \in L : TellsKept(c, f)
    OBVIOUS
  <2> HIDE DEF L
  <2>7. \A f \in A : \/ f[2] = "has"
                     \/ \E needs, forbids : f \in needs /\ Show(needs, forbids) \in L
                     \/ f[2] = "uses" /\ InUse(f[3]) \in L /\ \A g \in A : g[2] = "uses" /\ g[3] = f[3] => g = f
    BY <2>3, <2>6
  <2> QED  BY <1>5, <2>1, <2>2, <2>4, <2>5, <2>6, <2>7, PartedTells DEF D, R
<1>11. RemoveSetup = <<Policy("pp_table"), Policy("pp_part"), A, R>>
  BY PartedFacts DEF RemoveSetup, A, xs, all
<1>12. Uses("t", "pp_table") \in D  BY <1>4
<1>13. xs \in SUBSET {"t", "idx_a", "idx_b"}  BY DEF xs
<1> HIDE DEF checks, R, D
<1>14. Seeing(checks, PartedBefore(A \cup Rows(xs, all)), D)  BY <1>9 DEF B, R
<1>15. ((A \cup Rows(xs, all)) \ {}) \cup {} = D  BY <1>3 DEF R
<1>16. \A f \in DOMAIN Failpoint : Failing([k EXCEPT !.failpoint = f])
  BY <1>2, <1>4, <1>11, <1>12, <1>13, <1>14, <1>15, <1>10, PartedSees DEF R
<1> QED  BY <1>16 DEF rollback_remove_partitioning, RolledBack, checks

\* PARTITION BY, rolled back and tried again.
LEMMA PartitionBySees ==
  \A f \in DOMAIN Failpoint : Failing(rollback_partition_by(f)) /\ Failing(retry_partition_by(f))
<1> DEFINE xs == {"t", "idx_a", "idx_b"}
           all == {"p0", "p1", "p2"}
           R == Rows(xs, all)
           A == Table(TwoIndexes \cup {Uses("t", "pp_table")})
           come == partition_by_come
           F == A \cup come
           B == PartedBefore(A \cup R)
           D1 == A \cup R
           D2 == F \cup R
           checks1 == policy_and_nonpartitioned_rollback_oracle
           checks2 == partition_by_retry_success_oracle
           k1 == Case("stateful", "rollback", partition_by_setup, {}, {}, come, checks1)
           k2 == Case("stateful", "rewrite", partition_by_setup, {}, come, {Marked("idx_b", "global")}, checks2)
<1>1. \A f : f \in A <=> \/ f = <<"db", "has", "t">> \/ f = <<"t", "has", "idx_a">> \/ f = <<"t", "has", "idx_b">>
                         \/ f = <<"t", "uses", "pp_table">>
  BY PartedFacts
<1> HIDE DEF A
<1>2. \A f : f \in come <=> \/ f = <<"t", "is", "partitioned">> \/ f = <<"idx_a", "marks", "global">>
                            \/ f = <<"p0", "uses", "pp_part">>
  BY DEF partition_by_come, Partitioned, Global, Marked, Uses
<1> HIDE DEF come
<1>3. Own(A) /\ Own(come) /\ Own({})  BY <1>1, <1>2, OwnAre DEF Own
<1>4. ((A \cup R) \ {}) \cup {} = D1 /\ ((A \cup R) \ {}) \cup come = D2  OBVIOUS
<1>5. /\ Uses("t", "pp_table") \in A /\ Uses("t", "pp_table") \in F /\ Uses("p0", "pp_part") \in F
      /\ Has("t", "idx_a") \in A /\ Has("t", "idx_a") \in F
  <2>1. Uses("t", "pp_table") \in A /\ Has("t", "idx_a") \in A  BY <1>1 DEF Uses, Has
  <2>2. Uses("p0", "pp_part") \in come  BY <1>2 DEF Uses
  <2> QED  BY <2>1, <2>2
<1>6. (\A f \in A : f[2] # "row" /\ (f[2] = "uses" => f[3] # "pp_part")) /\ \A f \in F : f[2] # "row"
  BY <1>1, <1>2
<1>7. {Partitioned, Has("t", "idx_a"), Global} \subseteq F /\ Marked("idx_b", "global") \notin F
  BY <1>1, <1>2 DEF Partitioned, Has, Global, Marked
<1> HIDE DEF F
<1>8. Sight(AdminCheck, B, D1) /\ Sight(SameRows("idx_a", {}), B, D1)  BY <1>5, <1>6, FilledSees DEF Indexes
<1>9. Sight(AdminCheck, B, D2) /\ Sight(SameRows("idx_a", all), B, D2)  BY <1>5, <1>6, FilledSees DEF Indexes
<1>10. Tells("stateful", {}, {}, come, checks1, D1)
  <2> DEFINE L == {Show({}, Undone), Drops("pp_part"), InUse("pp_table"), AdminCheck, SameRows("idx_a", {})}
  <2>1. LooksOf(checks1) = L  BY LooksAre DEF policy_and_nonpartitioned_rollback_oracle, Undone
  <2>2. \A f \in come : TellsKept(Drops("pp_part"), f) \/ TellsKept(Show({}, Undone), f)
    <3>1. \A f \in come : f \in Undone \/ (f[2] = "uses" /\ f[3] = "pp_part")  BY <1>2, UndoneIs
    <3> QED  BY <3>1, TellsAre
  <2>3. \A x \in xs \cap Indexes : Has("t", x) \in A  BY <1>1 DEF Has, Indexes
  <2>4. \A f \in A : f[2] = "has" \/ (f[2] = "uses" /\ f[3] = "pp_table" /\ \A g \in A : g[2] = "uses" => g = f)
    BY <1>1
  <2>5. xs \in SUBSET {"t", "idx_a", "idx_b"}  OBVIOUS
  <2>6. \A f \in {} : f \in A /\ f[2] # "has"  OBVIOUS
  <2> HIDE DEF checks1, xs, all
  <2>7. InUse("pp_table") \in L /\ AdminCheck \in L /\ SameRows("idx_a", {}) \in L
        /\ \A f \in {} \cup come : \E c \in L : TellsKept(c, f)
    BY <2>2
  <2> HIDE DEF L
  <2>8. \A f \in A : \/ f[2] = "has"
                     \/ f[2] = "uses" /\ InUse(f[3]) \in L /\ \A g \in A : g[2] = "uses" /\ g[3] = f[3] => g = f
    BY <2>4, <2>7
  <2> QED  BY <1>6, <2>1, <2>3, <2>5, <2>6, <2>7, <2>8, PartedTells
<1>11. Tells("stateful", {}, come, {Marked("idx_b", "global")}, checks2, D2)
  <2> DEFINE N == {Marked("idx_b", "global")}
             needed == {Partitioned, Has("t", "idx_a"), Global}
             L == {Show(needed, N), InUse("pp_table"), InUse("pp_part"), AdminCheck, SameRows("idx_a", all)}
  <2>1. LooksOf(checks2) = L  BY LooksAre DEF partition_by_retry_success_oracle
  <2>2. \A f \in N : TellsKept(Show(needed, N), f)  BY TellsAre
  <2>3. \A x \in xs \cap Indexes : Has("t", x) \in F
    <3>1. \A x \in xs \cap Indexes : Has("t", x) \in A  BY <1>1 DEF Has, Indexes
    <3> QED  BY <3>1 DEF F
  <2>4. \A f \in F : f \in A \/ f \in come  BY DEF F
  <2>5. \A f \in F : \/ f[2] = "has" \/ f \in needed
                     \/ f[2] = "uses" /\ f[3] \in {"pp_table", "pp_part"} /\ \A g \in F : g[2] = "uses" /\ g[3] = f[3] => g = f
    BY <1>1, <1>2, <2>4 DEF Partitioned, Global, Marked
  <2>6. xs \in SUBSET {"t", "idx_a", "idx_b"}  OBVIOUS
  <2>7. \A f \in come : f \in F /\ f[2] # "has"  BY <1>2 DEF F
  <2> HIDE DEF checks2, xs, all, needed, N
  <2>8. InUse("pp_table") \in L /\ InUse("pp_part") \in L /\ AdminCheck \in L /\ SameRows("idx_a", all) \in L
        /\ Show(needed, N) \in L /\ \A f \in {} \cup N : \E c \in L : TellsKept(c, f)
    BY <2>2
  <2> HIDE DEF L
  <2>9. \A f \in F : \/ f[2] = "has"
                     \/ \E needs, forbids : f \in needs /\ Show(needs, forbids) \in L
                     \/ f[2] = "uses" /\ InUse(f[3]) \in L /\ \A g \in F : g[2] = "uses" /\ g[3] = f[3] => g = f
    BY <2>5, <2>8
  <2>10. Tells("stateful", {}, come, N, checks2, F \cup Rows(xs, all))
    BY <1>6, <2>1, <2>3, <2>6, <2>7, <2>8, <2>9, PartedTells
  <2> QED  BY <2>10 DEF N
<1> HIDE DEF xs
<1>12. Sight(Drops("pp_part"), B, D1) /\ Sight(InUse("pp_table"), B, D1)  BY <1>5, <1>6, PoliciesSee
<1>13. Sight(InUse("pp_part"), B, D2) /\ Sight(InUse("pp_table"), B, D2)  BY <1>5, PoliciesSee
<1>14. Sight(Show({}, Undone), B, D1)
  <2>1. Undone \cap A = {}  BY <1>1, UndoneIs
  <2> QED  BY <2>1, UndoneIs, ShowSees
<1>15. Sight(Show({Partitioned, Has("t", "idx_a"), Global}, {Marked("idx_b", "global")}), B, D2)
  <2> DEFINE N == {Marked("idx_b", "global")}
  <2>1. N \cap F = {} /\ Own(N) /\ \A f \in N : f[2] # "row"  BY <1>7 DEF Own, Marked
  <2> HIDE DEF N
  <2>2. Sight(Show({Partitioned, Has("t", "idx_a"), Global}, N), B, D2)  BY <1>7, <2>1, ShowSees
  <2> QED  BY <2>2 DEF N
<1> HIDE DEF B, D1, D2
<1>16. Seeing(checks1, B, D1)
  BY <1>8, <1>12, <1>14, ListsSee, SightsAre DEF policy_and_nonpartitioned_rollback_oracle, Undone
<1>17. Seeing(checks2, B, D2)
  BY <1>9, <1>13, <1>15, ListsSee, SightsAre DEF partition_by_retry_success_oracle
<1>18. partition_by_setup = <<Policy("pp_table"), Policy("pp_part"), A, R>>
  BY PartedFacts DEF partition_by_setup, A, xs
<1>19. Uses("t", "pp_table") \in D1 /\ Uses("t", "pp_table") \in D2  BY <1>5 DEF D1, D2
<1>20. xs \in SUBSET {"t", "idx_a", "idx_b"}  BY DEF xs
<1> HIDE DEF checks1, checks2, R, all
<1>21. /\ Seeing(checks1, PartedBefore(A \cup Rows(xs, all)), D1)
       /\ Seeing(checks2, PartedBefore(A \cup Rows(xs, all)), D2)
  BY <1>16, <1>17 DEF B, R
<1>22. ((A \cup Rows(xs, all)) \ {}) \cup {} = D1 /\ ((A \cup Rows(xs, all)) \ {}) \cup come = D2  BY <1>4 DEF R
<1>23. \A f \in DOMAIN Failpoint : Failing([k1 EXCEPT !.failpoint = f])
  BY <1>3, <1>5, <1>18, <1>19, <1>20, <1>21, <1>22, <1>10, PartedSees DEF R
<1>24. \A f \in DOMAIN Failpoint : Failing([k2 EXCEPT !.failpoint = f])
  BY <1>3, <1>5, <1>18, <1>19, <1>20, <1>21, <1>22, <1>11, PartedSees DEF R
<1> QED  BY <1>23, <1>24 DEF rollback_partition_by, RolledBack, retry_partition_by, Retried, checks1, checks2, come

\* TRUNCATE PARTITION, cancelled and tried again.
LEMMA TruncateSees ==
  Failing(cancel_truncate_partition) /\ \A f \in DOMAIN Failpoint : Failing(retry_truncate(f))
<1> DEFINE xs == {"t", "idx_b"}
           all == {"p0", "p1", "p2"}
           left == {"p1", "p2"}
           R == Rows(xs, all)
           A == Table(BothPlaced \cup {Has("t", "idx_b"), Marked("idx_b", "global"), Partitioned})
           gone == Rows(xs, {"p0"})
           B == PartedBefore(A \cup R)
           D1 == A \cup R
           D2 == A \cup Rows(xs, left)
           checks(exact) == truncate_oracle(exact)
           k1 == Case("stateful", "rollback", truncate_setup, {}, {}, {}, checks(all))
           k2 == Case("stateful", "rewrite", truncate_setup, gone, {}, {}, checks(left))
<1>1. \A f : f \in A <=>
       \/ f = <<"db", "has", "t">> \/ f = <<"t", "has", "idx_b">> \/ f = <<"idx_b", "marks", "global">>
       \/ f = <<"t", "uses", "pp_table">> \/ f = <<"p0", "uses", "pp_part">> \/ f = <<"t", "is", "partitioned">>
  BY PartedFacts
<1> HIDE DEF A
<1>2. Own(A) /\ Own({}) /\ Own(gone)
  <2>1. Own(A)  BY <1>1 DEF Own
  <2> QED  BY <2>1, OwnAre
<1>3. \A f \in A : f[2] # "row"  BY <1>1
<1>4. ((A \cup R) \ {}) \cup {} = D1 /\ ((A \cup R) \ gone) \cup {} = D2
  <2>1. (A \cup R) \ gone = D2  BY <1>3, RowsGo
  <2> HIDE DEF D2, gone
  <2> QED  BY <2>1
<1>5. Uses("t", "pp_table") \in A /\ Uses("p0", "pp_part") \in A /\ Has("t", "idx_b") \in A  BY <1>1 DEF Uses, Has
<1>6. {Partitioned, Marked("idx_b", "global")} \subseteq A  BY <1>1 DEF Partitioned, Marked
<1>7. "t" \in xs /\ "idx_b" \in xs \cap Indexes /\ \A x \in Indexes : Has("t", x) \in A => x \in xs
  BY <1>1 DEF Indexes, Has
<1>8. ASSUME NEW ps, NEW lost, NEW exact, \A f \in lost : TellsKept(SameRows("idx_b", exact), f)
     PROVE  Tells("stateful", lost, {}, {}, checks(exact), A \cup Rows(xs, ps))
  <2> DEFINE needed == {Partitioned, Marked("idx_b", "global")}
             L == {Show(needed, {}), InUse("pp_table"), InUse("pp_part"), AdminCheck, SameRows("idx_b", exact)}
  <2>1. LooksOf(checks(exact)) = L  BY LooksAre DEF truncate_oracle
  <2>2. \A x \in xs \cap Indexes : Has("t", x) \in A  BY <1>1 DEF Has, Indexes
  <2>3. \A f \in A : \/ f[2] = "has" \/ f \in needed
                     \/ f[2] = "uses" /\ f[3] \in {"pp_table", "pp_part"} /\ \A g \in A : g[2] = "uses" /\ g[3] = f[3] => g = f
    BY <1>1 DEF Partitioned, Marked
  <2>4. xs \in SUBSET {"t", "idx_a", "idx_b"}  OBVIOUS
  <2>5. \A f \in {} : f \in A /\ f[2] # "has"  OBVIOUS
  <2> HIDE DEF checks, xs, needed
  <2>6. InUse("pp_table") \in L /\ InUse("pp_part") \in L /\ AdminCheck \in L /\ SameRows("idx_b", exact) \in L
        /\ Show(needed, {}) \in L /\ \A f \in lost \cup {} : \E c \in L : TellsKept(c, f)
    BY <1>8
  <2> HIDE DEF L
  <2>7. \A f \in A : \/ f[2] = "has"
                     \/ \E needs, forbids : f \in needs /\ Show(needs, forbids) \in L
                     \/ f[2] = "uses" /\ InUse(f[3]) \in L /\ \A g \in A : g[2] = "uses" /\ g[3] = f[3] => g = f
    BY <2>3, <2>6
  <2> QED  BY <1>3, <2>1, <2>2, <2>4, <2>5, <2>6, <2>7, PartedTells
<1>9. \A f \in gone : TellsKept(SameRows("idx_b", left), f)
  <2>1. \A f \in gone : f[2] = "row" /\ f[1] \in {"t", "idx_b"} /\ f[3] = "p0"  BY DEF Rows, Row
  <2>2. left # {} /\ "p0" \notin left  OBVIOUS
  <2> HIDE DEF gone, left
  <2> QED  BY <2>1, <2>2, TellsAre
<1>10. Tells("stateful", {}, {}, {}, checks(all), D1) /\ Tells("stateful", gone, {}, {}, checks(left), D2)
  <2> HIDE DEF checks, all, left, gone, xs
  <2> QED  BY <1>8, <1>9
<1> HIDE DEF all, left
<1>11. Sight(AdminCheck, B, D1) /\ Sight(SameRows("idx_b", all), B, D1)  BY <1>3, <1>5, <1>7, FilledSees
<1>12. Sight(AdminCheck, B, D2) /\ Sight(SameRows("idx_b", left), B, D2)  BY <1>3, <1>5, <1>7, FilledSees
<1>13. ASSUME NEW ps, NEW D, D = A \cup Rows(xs, ps)
       PROVE  /\ Sight(InUse("pp_part"), B, D) /\ Sight(InUse("pp_table"), B, D)
              /\ Sight(Show({Partitioned, Marked("idx_b", "global")}, {}), B, D)
  <2>1. Sight(InUse("pp_part"), B, D) /\ Sight(InUse("pp_table"), B, D)  BY <1>5, <1>13, PoliciesSee
  <2>2. Sight(Show({Partitioned, Marked("idx_b", "global")}, {}), B, D)  BY <1>2, <1>6, <1>13, ShowSees
  <2> QED  BY <2>1, <2>2
<1> HIDE DEF B
<1>14. Seeing(checks(all), B, D1)
  BY <1>11, <1>13, ListsSee, SightsAre DEF truncate_oracle
<1>15. Seeing(checks(left), B, D2)
  BY <1>12, <1>13, ListsSee, SightsAre DEF truncate_oracle
<1>16. truncate_setup = <<Policy("pp_table"), Policy("pp_part"), A, R>>
  BY PartedFacts DEF truncate_setup, A, all
<1>17. xs \in SUBSET {"t", "idx_a", "idx_b"}  OBVIOUS
<1> HIDE DEF checks, R, xs, D1, D2, gone
<1>18. Uses("t", "pp_table") \in D1 /\ Uses("t", "pp_table") \in D2  BY <1>5 DEF D1, D2
<1>19. /\ Seeing(checks(all), PartedBefore(A \cup Rows(xs, all)), D1)
       /\ Seeing(checks(left), PartedBefore(A \cup Rows(xs, all)), D2)
  BY <1>14, <1>15 DEF B, R
<1>20. ((A \cup Rows(xs, all)) \ {}) \cup {} = D1 /\ ((A \cup Rows(xs, all)) \ gone) \cup {} = D2  BY <1>4 DEF R
<1>21. \A f \in DOMAIN Failpoint : Failing([k1 EXCEPT !.failpoint = f])
  BY <1>2, <1>5, <1>16, <1>17, <1>18, <1>19, <1>20, <1>10, PartedSees DEF R
<1>22. \A f \in DOMAIN Failpoint : Failing([k2 EXCEPT !.failpoint = f])
  BY <1>2, <1>5, <1>16, <1>17, <1>18, <1>19, <1>20, <1>10, PartedSees DEF R
<1>23. "truncatePartCancel1" \in DOMAIN Failpoint  BY DEF Failpoint
<1> QED  BY <1>21, <1>22, <1>23
         DEF cancel_truncate_partition, RolledBack, retry_truncate, Retried, checks, gone, xs, all, left

\* The cases with failpoints, and the one of two owners.
LEMMA StatefulSees ==
  /\ Plain(mixed_placement_global_remove_partitioning)
  /\ \A f \in DOMAIN Failpoint : /\ Failing(rollback_partition_by(f)) /\ Failing(rollback_remove_partitioning(f))
                                 /\ Failing(retry_partition_by(f)) /\ Failing(retry_remove_partitioning(f))
                                 /\ Failing(retry_truncate(f))
  /\ Failing(cancel_truncate_partition)
<1>1. Plain(mixed_placement_global_remove_partitioning)
  <2> DEFINE k == Case("mixed", "rewrite", RemoveSetup, RemoveGone, {}, {}, mixed_remove_partitioning_oracle({}))
  <2>1. Plain(k)  BY RemovedSees
  <2> HIDE DEF k
  <2>2. Plain(Skips(k))  BY <2>1, MarkedSees DEF Plain
  <2> QED  BY <2>2 DEF mixed_placement_global_remove_partitioning, k
<1>2. \A f \in DOMAIN Failpoint : Failing(retry_remove_partitioning(f))
  <2> DEFINE all == {"p0", "p1", "p2"}
             k == Case("stateful", "rewrite", RemoveSetup, RemoveGone, {}, {}, mixed_remove_partitioning_oracle(all))
  <2>1. \A f \in DOMAIN Failpoint : Failing([k EXCEPT !.failpoint = f])  BY RemovedSees
  <2> QED  BY <2>1 DEF retry_remove_partitioning, Retried, remove_partitioning_retry_success_oracle
<1> QED  BY <1>1, <1>2, RemoveRolledBackSees, PartitionBySees, TruncateSees

\* Cases without policies.
LEMMA FreeSees ==
  ASSUME NEW owner, NEW expected, NEW s, NEW gone, NEW come, NEW extra, NEW checks, NEW D,
         UNION {s[i] : i \in DOMAIN s} = D, Own(D), Own(gone), Own(come),
         Seeing(checks, D, (D \ gone) \cup come), Tells(owner, gone, come, extra, checks, (D \ gone) \cup come)
  PROVE  Plain(Case(owner, expected, s, gone, come, extra, checks))
<1> DEFINE C == {}
<1>1. UNION {s[i] : i \in DOMAIN s} = C \cup D /\ \A f \in C : f[1] = "cluster"  OBVIOUS
<1>2. Seeing(checks, C \cup D, (D \ gone) \cup come)  OBVIOUS
<1> HIDE DEF C
<1> QED  BY <1>1, <1>2, CaseSees DEF SeenAs

\* One look at what is there.
LEMMA OneLook ==
  ASSUME NEW B, NEW D, NEW needs, NEW forbids, needs \subseteq D, forbids \cap D = {}, Own(forbids)
  PROVE  Seeing(<<Show(needs, forbids)>>, B, D) /\ Seeing(<<Read(needs, forbids)>>, B, D)
  BY SightsAre, ListsSee

\* What there is to tell of columns: who reads which, and what is still enforced.
LEMMA MatrixTells ==
  ASSUME NEW owner \in {"check", "predicate", "ttl", "fk", "key"}, NEW gone, NEW come, NEW checks, NEW E,
         \A f \in gone : \E c \in LooksOf(checks) : TellsKept(c, f),
         \A f \in come : f[2] \in Single,
         \A f \in E : f[2] = "enforces" => \E c \in LooksOf(checks) : TellsLost(c, f, E)
  PROVE  Tells(owner, gone, come, {}, checks, E)
<1>1. KeptBy(owner, gone) = {"enforces"}  BY KeptAre
<1> QED  BY <1>1 DEF Tells, Asked

\* A reader of the old column is told by the look for the new one.
LEMMA SlotTells ==
  ASSUME NEW x, NEW old, NEW new, old # new
  PROVE  /\ \A f \in {Reads(x, old)} : TellsKept(Show({Reads(x, new)}, {}), f)
         /\ \A f \in {Reads(x, new)} : f[2] \in Single
<1>1. Reads(x, old)[1] = Reads(x, new)[1] /\ Reads(x, old)[2] = Reads(x, new)[2] /\ Reads(x, old) # Reads(x, new)
      /\ Reads(x, old)[2] \in Single /\ Reads(x, new)[2] \in Single
  BY DEF Reads, Single
<1> QED  BY <1>1, TellsAre

\* Columns that other metadata reads.
LEMMA MatrixSees ==
  /\ Plain(known_check) /\ Plain(check_modify_same_name_preserve_or_block)
  /\ Plain(known_partial_predicate_rename_error_family) /\ \A r : Plain(reader_block(r))
  /\ Plain(ttl_rewrite) /\ Plain(ttl_block) /\ Plain(fk_block)
  /\ \A side, old, new : side \in {"child", "parent"} /\ old # new => Plain(fk_rewrite(side, old, new))
  /\ \A i, old, new : i \in {"idx_a", "uk_b"} /\ old # new =>
       Plain(index_rename_rewrite(i, old, new)) /\ Plain(Skips(index_rename_rewrite(i, old, new)))
<1>a. ASSUME NEW k, Plain(k)  PROVE Plain([k EXCEPT !.known = TRUE]) /\ Plain(Skips(k))  BY <1>a, MarkedSees DEF Plain
<1>b. Own({}) /\ \A A, B : Own(A) /\ Own(B) => Own(A \cup B)  BY OwnAre
<1>c. \A x, c : x \notin {"cluster", "old"} => Own({Reads(x, c)}) /\ Own({Enforces(x)}) /\ Own({Has("db", x)})
  BY DEF Own, Reads, Enforces, Has
<1>d. \A A : Own(A) => Own(Table(A))  BY DEF Own, Table, Has
<1>1. ASSUME NEW expected  PROVE Plain(Matrix("check", expected, CheckSetup, {}, {}, check_known_check_loss))
  <2> DEFINE D == Table({Enforces("chk_ab")})
             E == (D \ {}) \cup {}
             s == <<{}, D, {}>>
  <2>1. Own(D)  BY <1>c, <1>d
  <2>2. Enforces("chk_ab") \in E /\ \A f \in E : f[2] = "enforces" => f = Enforces("chk_ab")  BY DEF Table, Has
  <2> HIDE DEF D
  <2>3. UNION {s[i] : i \in DOMAIN s} = D
    <3>1. UNION {s[i] : i \in DOMAIN s} = {} \cup D \cup {}  BY UnionsAre
    <3> QED  BY <3>1
  <2> HIDE DEF E, s
  <2>4. Seeing(check_known_check_loss, D, E)  BY <1>b, <2>2, OneLook DEF check_known_check_loss
  <2>5. Tells("check", {}, {}, {}, check_known_check_loss, E)
    <3>1. LooksOf(check_known_check_loss) = {Read({Enforces("chk_ab")}, {})}  BY LooksAre DEF check_known_check_loss
    <3>2. \A f \in E : f[2] = "enforces" => TellsLost(Read({Enforces("chk_ab")}, {}), f, E)  BY <2>2, TellsAre
    <3> QED  BY <3>1, <3>2, MatrixTells
  <2>6. Seeing(check_known_check_loss, D, (D \ {}) \cup {})
        /\ Tells("check", {}, {}, {}, check_known_check_loss, (D \ {}) \cup {})
    BY <2>4, <2>5 DEF E
  <2>7. Plain(Case("check", expected, s, {}, {}, {}, check_known_check_loss))  BY <1>b, <2>1, <2>3, <2>6, FreeSees
  <2> QED  BY <2>7 DEF Matrix, CheckSetup, Switch, s, D
<1>2. Plain(known_check) /\ Plain(check_modify_same_name_preserve_or_block)
  <2> DEFINE k == Matrix("check", "known_control", CheckSetup, {}, {}, check_known_check_loss)
  <2>1. Plain(k)  BY <1>1
  <2> HIDE DEF k
  <2>2. Plain([k EXCEPT !.known = TRUE])  BY <1>a, <2>1
  <2> QED  BY <1>1, <2>2 DEF known_check, check_modify_same_name_preserve_or_block, k
<1>3. Plain(known_partial_predicate_rename_error_family)
  <2> DEFINE k == Blocked("predicate", <<Table({Reads("pi", "a")})>>)
             x == [k EXCEPT !.known = TRUE, !.family = FALSE]
  <2>1. Plain(k)  BY BlockedSees
  <2> HIDE DEF k
  <2>2. DOMAIN x = DOMAIN k /\ x.setup = k.setup /\ x.gone = k.gone /\ x.come = k.come /\ x.checks = k.checks
        /\ x.owner = k.owner /\ x.extra = k.extra /\ x.failpoint = k.failpoint
    BY <2>1 DEF Plain, SeenCase, CaseFields
  <2> HIDE DEF x
  <2>3. Before(x) = Before(k)  BY <2>2 DEF Before
  <2>4. FactsOf(x) = FactsOf(k)  BY <2>2, <2>3 DEF FactsOf, After
  <2>5. Plain(x)  BY <2>1, <2>2, <2>3, <2>4 DEF Plain, SeenCase, Telling
  <2> QED  BY <2>5 DEF known_partial_predicate_rename_error_family, x, k
<1>4. (\A r : Plain(reader_block(r))) /\ Plain(ttl_block) /\ Plain(fk_block)
  BY BlockedSees DEF reader_block, ttl_block, fk_block
<1>5. ASSUME NEW owner \in {"ttl", "key"}, NEW x, x \notin {"cluster", "old"}, NEW old, NEW new, old # new
      PROVE  Plain(Matrix(owner, "rewrite", <<Table({Reads(x, old)})>>, {Reads(x, old)}, {Reads(x, new)},
                          require_show_create_contains(Reads(x, new))))
  <2> DEFINE D == Table({Reads(x, old)})
             gone == {Reads(x, old)}
             come == {Reads(x, new)}
             E == (D \ gone) \cup come
             s == <<D>>
             checks == require_show_create_contains(Reads(x, new))
  <2>1. Own(D) /\ Own(gone) /\ Own(come)  BY <1>5, <1>c, <1>d
  <2>2. {Reads(x, new)} \subseteq E /\ {} \cap E = {}  OBVIOUS
  <2>3. \A f \in E : f[2] # "enforces"  BY DEF Table, Has, Reads
  <2>4. \A f \in gone : TellsKept(Show({Reads(x, new)}, {}), f)  BY <1>5, SlotTells
  <2>5. \A f \in come : f[2] \in Single  BY <1>5, SlotTells
  <2>6. UNION {s[i] : i \in DOMAIN s} = D  BY UnionsAre
  <2> HIDE DEF D, gone, come, E, s
  <2>7. Seeing(checks, D, E)  BY <1>b, <2>2, OneLook DEF require_show_create_contains
  <2>8. Tells(owner, gone, come, {}, checks, E)
    <3>1. LooksOf(checks) = {Show({Reads(x, new)}, {})}  BY LooksAre DEF require_show_create_contains
    <3> HIDE DEF checks
    <3> QED  BY <1>5, <2>3, <2>4, <2>5, <3>1, MatrixTells
  <2>9. Seeing(checks, D, (D \ gone) \cup come) /\ Tells(owner, gone, come, {}, checks, (D \ gone) \cup come)
    BY <2>7, <2>8 DEF E
  <2> HIDE DEF checks
  <2>10. Plain(Case(owner, "rewrite", s, gone, come, {}, checks))  BY <2>1, <2>6, <2>9, FreeSees
  <2> QED  BY <2>10 DEF Matrix, s, D, gone, come, checks
<1>6. Plain(ttl_rewrite)  BY <1>5 DEF ttl_rewrite
<1>7. ASSUME NEW i \in {"idx_a", "uk_b"}, NEW old, NEW new, old # new  PROVE Plain(index_rename_rewrite(i, old, new))
  BY <1>5, <1>7 DEF index_rename_rewrite
<1>8. ASSUME NEW side \in {"child", "parent"}, NEW old, NEW new, old # new  PROVE Plain(fk_rewrite(side, old, new))
  <2> DEFINE D == {Has("db", "p")} \cup ForeignKey
             gone == {Reads(side, old)}
             come == {Reads(side, new)}
             E == (D \ gone) \cup come
             s == <<{}, {Has("db", "p")}, ForeignKey, {}, {}>>
             checks == fk_oracle(side, new)
  <2>1. Own(D) /\ Own(gone) /\ Own(come)
    <3>1. Own(D)  BY DEF Own, ForeignKey, Has, Reads, Enforces
    <3> QED  BY <3>1, <1>c
  <2>2. Reads(side, new) \in E /\ Enforces("fk_pid") \in E
    <3>1. Enforces("fk_pid") \in D  BY DEF ForeignKey
    <3>2. Enforces("fk_pid") \notin gone  BY DEF Enforces, Reads
    <3> HIDE DEF D, gone
    <3> QED  BY <3>1, <3>2
  <2>3. UNION {s[i] : i \in DOMAIN s} = D
    <3>1. UNION {s[i] : i \in DOMAIN s} = {} \cup {Has("db", "p")} \cup ForeignKey \cup {} \cup {}  BY UnionsAre
    <3> HIDE DEF s
    <3> QED  BY <3>1
  <2> HIDE DEF D, gone, come, E, s
  <2>4. Sight(Show({Reads(side, new)}, {}), D, E) /\ Sight(Read({Enforces("fk_pid")}, {}), D, E)
    BY <1>b, <2>2, SightsAre
  <2>5. Seeing(checks, D, E)  BY <2>4, ListsSee, SightsAre DEF fk_oracle
  <2>6. Tells("fk", gone, come, {}, checks, E)
    <3>1. LooksOf(checks) = {Show({Reads(side, new)}, {}), Read({Enforces("fk_pid")}, {})}  BY LooksAre DEF fk_oracle
    <3>2. \A f \in gone : TellsKept(Show({Reads(side, new)}, {}), f)  BY <1>8, SlotTells DEF gone
    <3>3. \A f \in come : f[2] \in Single  BY <1>8, SlotTells DEF come
    <3>4. \A f \in E : f[2] = "enforces" => TellsLost(Read({Enforces("fk_pid")}, {}), f, E)
      <4>1. \A f \in D : f[2] = "enforces" => f = Enforces("fk_pid")  BY DEF D, ForeignKey, Has, Reads
      <4>2. \A f \in come : f[2] # "enforces"  BY DEF come, Reads
      <4>3. \A f \in E : f[2] = "enforces" => f = Enforces("fk_pid")  BY <4>1, <4>2 DEF E
      <4> QED  BY <4>3, TellsAre
    <3> HIDE DEF checks
    <3> QED  BY <3>1, <3>2, <3>3, <3>4, MatrixTells
  <2>7. Seeing(checks, D, (D \ gone) \cup come) /\ Tells("fk", gone, come, {}, checks, (D \ gone) \cup come)
    BY <2>5, <2>6 DEF E
  <2> HIDE DEF checks
  <2>8. Plain(Case("fk", "rewrite", s, gone, come, {}, checks))  BY <2>1, <2>3, <2>7, FreeSees
  <2> QED  BY <2>8 DEF fk_rewrite, Matrix, Switch, s, gone, come, checks
<1> QED  BY <1>2, <1>3, <1>4, <1>6, <1>7, <1>8, <1>a

\* What there is to tell of masking policies: what is gone or too much is forbidden, or
\* has given way to what is needed; the rest that is asked is needed.
MaskingTold(gone, come, extra, needs, forbids, E) ==
  /\ \A f \in gone \cup extra : f \in forbids \/ (f[2] \in Single /\ \E g \in needs : g # f /\ g[1] = f[1] /\ g[2] = f[2])
  /\ \A f \in E : (gone = {} /\ f[2] \in {"column", "expr"}) \/ (f \in come /\ f[2] \notin Single) => f \in needs

\* One look tells it all.
LEMMA MaskingTells ==
  ASSUME NEW gone, NEW come, NEW extra, NEW needs, NEW forbids, NEW E,
         MaskingTold(gone, come, extra, needs, forbids, E), NEW checks, Read(needs, forbids) \in LooksOf(checks)
  PROVE  Tells("masking", gone, come, extra, checks, E)
<1>1. KeptBy("masking", gone) = IF gone = {} THEN {"column", "expr"} ELSE {}  BY KeptAre
<1>2. \A f \in gone \cup extra : TellsKept(Read(needs, forbids), f)  BY TellsAre DEF MaskingTold
<1>3. \A f \in E : Asked("masking", gone, come, f) => f \in needs  BY <1>1 DEF Asked, MaskingTold
<1>4. \A f \in needs : TellsLost(Read(needs, forbids), f, E)  BY TellsAre
<1> QED  BY <1>2, <1>3, <1>4 DEF Tells

\* A field that has one value: the old one is told by the look for the new one.
LEMMA FieldTells ==
  ASSUME NEW p, NEW n \in Single, NEW old, NEW new, old # new
  PROVE  LET f == Field(p, n, old)  g == Field(p, n, new)
         IN  g # f /\ g[1] = f[1] /\ g[2] = f[2] /\ f[2] \in Single /\ g[2] \in Single
  BY DEF Field

\* Masking policies.
LEMMA MaskingSees ==
  \A c \in 1..13 : Plain(Cases["masking_policy"][c])
<1> DEFINE cs == Cases["masking_policy"]
           T == Table({})
           M == Masks("p", "t", "c")
           D == T \cup M
<1>a. ASSUME NEW expected, NEW s, NEW gone, NEW come, NEW extra, NEW needs, NEW forbids, NEW A,
             UNION {s[i] : i \in DOMAIN s} = A, Own(A), Own(gone), Own(come), Own(forbids),
             needs \subseteq (A \ gone) \cup come, forbids \cap ((A \ gone) \cup come) = {},
             MaskingTold(gone, come, extra, needs, forbids, (A \ gone) \cup come)
      PROVE  Plain(Masking(expected, s, gone, come, extra, <<Read(needs, forbids)>>))
  <2>1. Seeing(<<Read(needs, forbids)>>, A, (A \ gone) \cup come)  BY <1>a, OneLook
  <2>2. Tells("masking", gone, come, extra, <<Read(needs, forbids)>>, (A \ gone) \cup come)
    <3>1. Read(needs, forbids) \in LooksOf(<<Read(needs, forbids)>>)  BY LooksAre
    <3> QED  BY <1>a, <3>1, MaskingTells
  <2> QED  BY <1>a, <2>1, <2>2, FreeSees DEF Masking
<1>b. Own({}) /\ Own(T)  BY DEF Own, Table, Has
<1>c. \A f, t, c : \A p \in {"p", "p_a", "p_b"} : f \in Masks(p, t, c) <=>
        \/ f = <<"masking", "has", p>> \/ f = <<p, "schema", "db1">> \/ f = <<p, "table", t>>
        \/ f = <<p, "column", c>> \/ f = <<p, "expr", c>> \/ f = <<p, "table_id", "old">>
  BY DEF Masks, MaskingPolicy, Field, Has
<1>d. \A f : f \in D <=> \/ f = <<"db", "has", "t">>
        \/ f = <<"masking", "has", "p">> \/ f = <<"p", "schema", "db1">> \/ f = <<"p", "table", "t">>
        \/ f = <<"p", "column", "c">> \/ f = <<"p", "expr", "c">> \/ f = <<"p", "table_id", "old">>
  BY <1>c DEF Table, Has
<1>e. Own(D)  BY <1>d DEF Own
<1>f. UNION {OneMasked[i] : i \in DOMAIN OneMasked} = D
  <2> DEFINE s == <<T, M>>
  <2>1. UNION {s[i] : i \in DOMAIN s} = D  BY UnionsAre
  <2> QED  BY <2>1 DEF OneMasked
<1> HIDE DEF D, T, M
<1>1. Plain(case_table_rename)
  <2> DEFINE gone == {Field("p", "table", "t")}
             come == {Field("p", "table", "t_new")}
             needs == {MaskingPolicy("p"), Field("p", "schema", "db1"), Field("p", "table", "t_new")}
  <2>1. Own(gone) /\ Own(come)  BY DEF Own, Field
  <2>2. needs \subseteq (D \ gone) \cup come  BY <1>d DEF Field, MaskingPolicy, Has
  <2>5. MaskingTold(gone, come, {}, needs, {}, (D \ gone) \cup come)
    <3> DEFINE f == Field("p", "table", "t")
               g == Field("p", "table", "t_new")
    <3>1. g # f /\ g[1] = f[1] /\ g[2] = f[2] /\ f[2] \in Single /\ g[2] \in Single  BY FieldTells DEF Single
    <3>2. gone = {f} /\ come = {g} /\ g \in needs  OBVIOUS
    <3> HIDE DEF f, g, gone, come, needs
    <3> QED  BY <3>1, <3>2 DEF MaskingTold
  <2> HIDE DEF gone, come, needs
  <2>3. {} \cap ((D \ gone) \cup come) = {}  OBVIOUS
  <2>4. Plain(Masking("rewrite", OneMasked, gone, come, {}, <<Read(needs, {})>>))
    BY <1>a, <1>b, <1>e, <1>f, <2>1, <2>2, <2>3, <2>5
  <2> QED  BY <2>4 DEF case_table_rename, gone, come, needs
<1>2. Plain(case_cross_db_rename)
  <2> DEFINE gone == {Field("p", "schema", "db1")}
             come == {Field("p", "schema", "db2")}
             needs == {MaskingPolicy("p"), Field("p", "schema", "db2"), Field("p", "table", "t")}
  <2>1. Own(gone) /\ Own(come)  BY DEF Own, Field
  <2>2. needs \subseteq (D \ gone) \cup come  BY <1>d DEF Field, MaskingPolicy, Has
  <2>5. MaskingTold(gone, come, {}, needs, {}, (D \ gone) \cup come)
    <3> DEFINE f == Field("p", "schema", "db1")
               g == Field("p", "schema", "db2")
    <3>1. g # f /\ g[1] = f[1] /\ g[2] = f[2] /\ f[2] \in Single /\ g[2] \in Single  BY FieldTells DEF Single
    <3>2. gone = {f} /\ come = {g} /\ g \in needs  OBVIOUS
    <3> HIDE DEF f, g, gone, come, needs
    <3> QED  BY <3>1, <3>2 DEF MaskingTold
  <2> HIDE DEF gone, come, needs
  <2>3. {} \cap ((D \ gone) \cup come) = {}  OBVIOUS
  <2>4. Plain(Masking("rewrite", OneMasked, gone, come, {}, <<Read(needs, {})>>))
    BY <1>a, <1>b, <1>e, <1>f, <2>1, <2>2, <2>3, <2>5
  <2> QED  BY <2>4 DEF case_cross_db_rename, gone, come, needs
<1>3. Plain(case_column_rename)
  <2> DEFINE gone == {Field("p", n, "c") : n \in {"column", "expr"}}
             come == {Field("p", n, "c_new") : n \in {"column", "expr"}}
             needs == {MaskingPolicy("p"), Field("p", "column", "c_new"), Field("p", "expr", "c_new")}
             forbids == {Field("p", "expr", "c")}
             E == (D \ gone) \cup come
  <2>1. Own(gone) /\ Own(come) /\ Own(forbids)  BY DEF Own, Field
  <2>2. \A f, v : f \in {Field("p", n, v) : n \in {"column", "expr"}} <=> f = <<"p", "column", v>> \/ f = <<"p", "expr", v>>
    BY DEF Field
  <2>3. \A f : (f \in gone <=> f = <<"p", "column", "c">> \/ f = <<"p", "expr", "c">>)
               /\ (f \in come <=> f = <<"p", "column", "c_new">> \/ f = <<"p", "expr", "c_new">>)
    BY <2>2
  <2> HIDE DEF gone, come
  <2>4. needs \subseteq E
    <3>1. MaskingPolicy("p") \in D /\ MaskingPolicy("p") \notin gone  BY <1>d, <2>3 DEF MaskingPolicy, Has
    <3>2. Field("p", "column", "c_new") \in come /\ Field("p", "expr", "c_new") \in come  BY <2>3 DEF Field
    <3> QED  BY <3>1, <3>2
  <2>5. forbids \cap E = {}
    <3>1. Field("p", "expr", "c") \in gone /\ Field("p", "expr", "c") \notin come  BY <2>3 DEF Field
    <3> QED  BY <3>1
  <2>6. MaskingTold(gone, come, {}, needs, forbids, E)
    <3>1. \A f \in gone : f \in forbids \/ (f[2] \in Single /\ \E g \in needs : g # f /\ g[1] = f[1] /\ g[2] = f[2])
      <4> DEFINE old == Field("p", "column", "c")
                 new == Field("p", "column", "c_new")
      <4>1. new # old /\ new[1] = old[1] /\ new[2] = old[2] /\ old[2] \in Single  BY FieldTells DEF Single
      <4>2. \A f \in gone : f = old \/ f \in forbids  BY <2>3 DEF Field
      <4>3. new \in needs  OBVIOUS
      <4> HIDE DEF old, new, needs
      <4> QED  BY <4>1, <4>2, <4>3
    <3>2. \A f \in come : f[2] \notin Single => f \in needs  BY <2>3 DEF Field, Single
    <3>3. gone # {}  BY <2>3
    <3> HIDE DEF needs, forbids, E
    <3> QED  BY <3>1, <3>2, <3>3 DEF MaskingTold
  <2> HIDE DEF needs, forbids
  <2>7. Plain(Masking("rewrite", OneMasked, gone, come, {}, <<Read(needs, forbids)>>))
    BY <1>a, <1>e, <1>f, <2>1, <2>4, <2>5, <2>6
  <2> QED  BY <2>7 DEF case_column_rename, gone, come, needs, forbids
<1>4. Plain(case_modify_supported) /\ Plain(case_modify_unsupported_block)
  <2> DEFINE needs == {MaskingPolicy("p"), Field("p", "column", "c"), Field("p", "expr", "c")}
             forbids == {Field("p", "expr", "d")}
             E == (D \ {}) \cup {}
  <2>1. Own(forbids)  BY DEF Own, Field
  <2>2. needs \subseteq E
    <3>1. needs \subseteq D  BY <1>d DEF Field, MaskingPolicy, Has
    <3> QED  BY <3>1
  <2>3. forbids \cap E = {} /\ {} \cap E = {}
    <3>1. Field("p", "expr", "d") \notin D  BY <1>d DEF Field
    <3> QED  BY <3>1
  <2>4. \A f \in E : f[2] \in {"column", "expr"} => f \in needs  BY <1>d DEF Field
  <2>5. MaskingTold({}, {}, {}, needs, {}, E) /\ MaskingTold({}, {}, forbids, needs, forbids, E)
    <3> HIDE DEF needs, forbids, E
    <3> QED  BY <2>4 DEF MaskingTold
  <2> HIDE DEF needs, forbids
  <2>6. Plain(Masking("rewrite", OneMasked, {}, {}, {}, <<Read(needs, {})>>))
    BY <1>a, <1>b, <1>e, <1>f, <2>2, <2>3, <2>5
  <2>7. Plain(Masking("block", OneMasked, {}, {}, forbids, <<Read(needs, forbids)>>))
    BY <1>a, <1>b, <1>e, <1>f, <2>1, <2>2, <2>3, <2>5
  <2> QED  BY <2>6, <2>7 DEF case_modify_supported, case_modify_unsupported_block, needs, forbids
<1>5. \A ps : Plain(case_drop_column_cleanup(ps)) /\ Plain(case_drop_cleanup(ps))
  <2> SUFFICES ASSUME NEW ps  PROVE Plain(case_drop_column_cleanup(ps))  BY DEF case_drop_cleanup
  <2> DEFINE N == {MaskingPolicy(p) : p \in ps}
             s == <<T, N>>
             A == T \cup N
  <2>1. Own(N)  BY DEF Own, MaskingPolicy, Has
  <2>2. N \cap T = {}  BY DEF T, Table, MaskingPolicy, Has
  <2>3. UNION {s[i] : i \in DOMAIN s} = A  BY UnionsAre
  <2>4. \A f \in A : f[2] = "has"  BY DEF T, Table, MaskingPolicy, Has
  <2> HIDE DEF N
  <2>5. Own(A)  BY <1>b, <2>1, OwnAre
  <2>6. {} \subseteq (A \ N) \cup {} /\ N \cap ((A \ N) \cup {}) = {}  OBVIOUS
  <2> HIDE DEF A, s
  <2>7. MaskingTold(N, {}, {}, {}, N, (A \ N) \cup {})  BY <2>4 DEF MaskingTold
  <2>8. Plain(Masking("rewrite", s, N, {}, {}, <<Read({}, N)>>))  BY <1>a, <1>b, <2>1, <2>3, <2>5, <2>6, <2>7
  <2> QED  BY <2>8 DEF case_drop_column_cleanup, N, s, T
<1>6. Plain(case_multitable_rename)
  <2> DEFINE H == {Has("db", "b")}
             A1 == Masks("p_a", "a", "c")
             B1 == Masks("p_b", "b", "c")
             s == <<T, H, A1, B1>>
             A == T \cup H \cup A1 \cup B1
             gone == {Field("p_a", "table", "a"), Field("p_b", "table", "b")}
             come == {Field("p_a", "table", "a_new"), Field("p_b", "table", "b_new")}
             needs == {Field(p, "schema", "db1") : p \in {"p_a", "p_b"}}
                 \cup {MaskingPolicy("p_a"), MaskingPolicy("p_b"),
                       Field("p_a", "table", "a_new"), Field("p_b", "table", "b_new")}
  <2>1. Own(gone) /\ Own(come) /\ Own(H)  BY DEF Own, Field, Has
  <2>2. UNION {s[i] : i \in DOMAIN s} = A  BY UnionsAre
  <2>3. \A f : (f \in A1 <=>
          \/ f = <<"masking", "has", "p_a">> \/ f = <<"p_a", "schema", "db1">> \/ f = <<"p_a", "table", "a">>
          \/ f = <<"p_a", "column", "c">> \/ f = <<"p_a", "expr", "c">> \/ f = <<"p_a", "table_id", "old">>)
        /\ (f \in B1 <=>
          \/ f = <<"masking", "has", "p_b">> \/ f = <<"p_b", "schema", "db1">> \/ f = <<"p_b", "table", "b">>
          \/ f = <<"p_b", "column", "c">> \/ f = <<"p_b", "expr", "c">> \/ f = <<"p_b", "table_id", "old">>)
    BY <1>c
  <2> HIDE DEF A1, B1, H
  <2>4. Own(A1) /\ Own(B1)  BY <2>3 DEF Own
  <2>5. Own(A)  BY <1>b, <2>1, <2>4, OwnAre
  <2>6. \A f : f \in gone <=> f = <<"p_a", "table", "a">> \/ f = <<"p_b", "table", "b">>  BY DEF Field
  <2>7. \A f : f \in needs <=>
          \/ f = <<"masking", "has", "p_a">> \/ f = <<"masking", "has", "p_b">>
          \/ f = <<"p_a", "schema", "db1">> \/ f = <<"p_b", "schema", "db1">> \/ f \in come
    BY DEF Field, MaskingPolicy, Has
  <2> HIDE DEF gone, come, needs
  <2>8. needs \subseteq (A \ gone) \cup come
    <3>1. \A f : f \in needs /\ f \notin come => f \in A1 \cup B1  BY <2>3, <2>7
    <3>2. \A f : f \in needs /\ f \notin come => f \notin gone  BY <2>6, <2>7
    <3> QED  BY <3>1, <3>2
  <2>9. {} \cap ((A \ gone) \cup come) = {}  OBVIOUS
  <2> HIDE DEF A, s
  <2>10. MaskingTold(gone, come, {}, needs, {}, (A \ gone) \cup come)
    <3>1. \A f \in gone : f[2] \in Single /\ \E g \in needs : g # f /\ g[1] = f[1] /\ g[2] = f[2]
      <4> DEFINE a == Field("p_a", "table", "a_new")
                 b == Field("p_b", "table", "b_new")
      <4>1. a \in needs /\ b \in needs  BY DEF needs
      <4>2. \A f \in gone : f = Field("p_a", "table", "a") \/ f = Field("p_b", "table", "b")  BY DEF gone
      <4>3. "table" \in Single  BY DEF Single
      <4>4. \A f \in gone : f[2] \in Single /\ ((a # f /\ a[1] = f[1] /\ a[2] = f[2]) \/ (b # f /\ b[1] = f[1] /\ b[2] = f[2]))
        BY <4>2, <4>3, FieldTells
      <4> QED  BY <4>1, <4>4
    <3>2. \A f \in come : f[2] \in Single  BY DEF come, Field, Single
    <3>3. gone # {}  BY <2>6
    <3> QED  BY <3>1, <3>2, <3>3 DEF MaskingTold
  <2>11. Plain(Masking("rewrite", s, gone, come, {}, <<Read(needs, {})>>))
    BY <1>a, <1>b, <2>1, <2>2, <2>5, <2>8, <2>9, <2>10
  <2> QED  BY <2>11 DEF case_multitable_rename, gone, come, needs, s, T, H, A1, B1
<1>7. Plain(case_truncate)
  <2> DEFINE gone == {Field("p", "table_id", "old")}
             come == {Field("p", "table_id", "new")}
             needs == {MaskingPolicy("p"), Field("p", "schema", "db1"), Field("p", "table", "t"),
                       Field("p", "column", "c"), Field("p", "expr", "c")}
             E == (D \ gone) \cup come
             s == OneMasked \o <<{}>>
             checks == <<Read(needs, gone), Read({MaskingPolicy("p")}, {})>>
  <2>1. Own(gone) /\ Own(come)  BY DEF Own, Field
  <2>2. \A f : (f \in gone <=> f = <<"p", "table_id", "old">>) /\ (f \in come <=> f = <<"p", "table_id", "new">>)
    BY DEF Field
  <2> HIDE DEF gone, come
  <2>3. needs \subseteq E /\ {MaskingPolicy("p")} \subseteq E
    <3>1. needs \subseteq D /\ {MaskingPolicy("p")} \subseteq D  BY <1>d DEF Field, MaskingPolicy, Has
    <3>2. \A f \in needs : f \notin gone  BY <2>2 DEF Field, MaskingPolicy, Has
    <3> QED  BY <3>1, <3>2
  <2>4. gone \cap E = {} /\ {} \cap E = {}  BY <2>2
  <2> HIDE DEF needs, E
  <2>5. Sight(Read(needs, gone), D, E) /\ Sight(Read({MaskingPolicy("p")}, {}), D, E)
    BY <1>b, <2>1, <2>3, <2>4, SightsAre
  <2>6. Seeing(checks, D, E)  BY <2>5, ListsSee, SightsAre
  <2>7. UNION {s[i] : i \in DOMAIN s} = D
    <3> DEFINE S == {T, M, {}}
               a == <<T, M>>
               e == <<{}>>
               r == a \o e
    <3>1. a \in Seq(S) /\ e \in Seq(S) /\ Len(a) = 2 /\ Len(e) = 1 /\ a[1] = T /\ a[2] = M /\ e[1] = {}  OBVIOUS
    <3>2. a \in Seq(S) /\ e \in Seq(S)  BY <3>1
    <3> HIDE DEF S, a, e
    <3>3. /\ r \in Seq(S) /\ Len(r) = Len(a) + Len(e)
          /\ \A i \in 1..(Len(a) + Len(e)) : r[i] = IF i <= Len(a) THEN a[i] ELSE e[i - Len(a)]
      BY <3>2, JoinedIs
    <3> HIDE DEF r
    <3>4. DOMAIN r = {1, 2, 3}
      <4>1. Len(r) = 3 /\ DOMAIN r = 1..Len(r)  BY <3>1, <3>3
      <4> QED  BY <4>1
    <3>5. r[1] = a[1] /\ r[2] = a[2] /\ r[3] = e[1]  BY <3>1, <3>3
    <3>6. UNION {r[i] : i \in DOMAIN r} = D  BY <3>1, <3>4, <3>5 DEF D
    <3> QED  BY <3>6 DEF r, a, e, OneMasked, T, M
  <2>8. Tells("masking", gone, come, {}, checks, E)
    <3>1. Read(needs, gone) \in LooksOf(checks)  BY LooksAre
    <3>2. gone # {} /\ \A f \in come : f[2] \in Single
      <4>1. <<"p", "table_id", "old">> \in gone  BY <2>2
      <4>2. \A f \in come : f[2] = "table_id"  BY <2>2
      <4> QED  BY <4>1, <4>2 DEF Single
    <3>3. MaskingTold(gone, come, {}, needs, gone, E)  BY <3>2 DEF MaskingTold
    <3> HIDE DEF checks
    <3> QED  BY <3>1, <3>3, MaskingTells
  <2> HIDE DEF s, checks
  <2>9. Seeing(checks, D, (D \ gone) \cup come) /\ Tells("masking", gone, come, {}, checks, (D \ gone) \cup come)
    BY <2>6, <2>8 DEF E
  <2>10. Plain(Case("masking", "rewrite", s, gone, come, {}, checks))  BY <1>e, <2>1, <2>7, <2>9, FreeSees
  <2> QED  BY <2>10 DEF case_truncate, Masking, s, gone, come, checks, needs
<1>8. Plain(case_alter_policy_expr_block)  BY <1>4 DEF case_alter_policy_expr_block
<1>9. cs = <<case_table_rename, case_multitable_rename, case_cross_db_rename, case_column_rename,
             case_column_rename, case_modify_supported, case_modify_unsupported_block,
             case_drop_column_cleanup({"p"}), case_drop_column_cleanup({"p"}), case_truncate,
             case_drop_cleanup({"p"}), case_drop_cleanup({"p_1", "p_2"}), case_alter_policy_expr_block>>
  BY DEF Cases, masking_policy
<1> HIDE DEF cs
<1>10. ASSUME NEW c \in 1..13  PROVE Plain(cs[c])
  BY <1>1, <1>2, <1>3, <1>4, <1>5, <1>6, <1>7, <1>8, <1>9
<1> QED  BY <1>10 DEF cs

CaseSeen(p, k) == IF p = "stateful_object" THEN Failing(k) ELSE Plain(k)

\* With a product that has no defect, every look of every case finds what it looks for;
\* and the cases of one probe have a failpoint each, and a table that uses a policy.
LEMMA CasesSeen ==
  \A p \in DOMAIN Cases : \A c \in DOMAIN Cases[p] : CaseSeen(p, Cases[p][c])
<1>1. DOMAIN Cases = {"object_reference", "reference_matrix", "stateful_object", "masking_policy"}  BY DEF Cases
<1>2. ASSUME NEW c \in DOMAIN Cases["object_reference"]  PROVE Plain(Cases["object_reference"][c])
  <2>1. Cases["object_reference"] = object_reference  BY DEF Cases
  <2>2. \A n \in 1..17 : Plain(object_reference[n])  BY PlacementSees, IndexSees, StatefulSees DEF object_reference
  <2>3. DOMAIN object_reference = 1..17  BY DEF object_reference
  <2> QED  BY <2>1, <2>2, <2>3
<1>3. ASSUME NEW c \in DOMAIN Cases["stateful_object"]  PROVE Failing(Cases["stateful_object"][c])
  <2>1. Cases["stateful_object"] = stateful_object  BY DEF Cases
  <2>2. DOMAIN Failpoint = {"reorgPartRollback2", "reorgPartRollback3", "reorgPartRollback4", "reorgPartFail4",
                            "reorgPartFail5", "truncatePartCancel1", "truncatePartFail1", "truncatePartFail2",
                            "truncatePartFail3"}
    BY DEF Failpoint
  <2>3. \A n \in 1..14 : Failing(stateful_object[n])  BY <2>2, StatefulSees DEF stateful_object
  <2>4. DOMAIN stateful_object = 1..14  BY DEF stateful_object
  <2> QED  BY <2>1, <2>3, <2>4
<1>4. ASSUME NEW c \in DOMAIN Cases["masking_policy"]  PROVE Plain(Cases["masking_policy"][c])
  <2>1. DOMAIN Cases["masking_policy"] = 1..13  BY DEF Cases, masking_policy
  <2> QED  BY <2>1, MaskingSees
<1>5. ASSUME NEW c \in DOMAIN Cases["reference_matrix"]  PROVE Plain(Cases["reference_matrix"][c])
  <2>1. Cases["reference_matrix"] = reference_matrix  BY DEF Cases
  <2>2. \A k \in InMatrix : Plain(k)  BY MatrixSees DEF InMatrix
  <2>3. reference_matrix[c] \in InMatrix  BY <2>1, MatrixListed
  <2> QED  BY <2>1, <2>2, <2>3
<1> QED  BY <1>1, <1>2, <1>3, <1>4, <1>5 DEF CaseSeen
-----------------------------------------------------------------------------
(* What a finding is for *)

\* Neither the product nor a lost call disturbs the case.
Undisturbed == defect.case # case /\ ~LostIn(case) /\ ~LeftArmed(case)

\* Why a failpoint is enabled: the case needs it; its DELETE was lost in the last case;
\* the killed run enabled it, and left a table that keeps the run from its first case.
ArmedFor(f) ==
  \/ at \in {"alter", "disarm"} /\ f = Current.failpoint
  \/ /\ loss # <<>> /\ loss[2] = "disarm" /\ f = Cases[probe][loss[1]].failpoint
     /\ loss[1] = case => at \notin {"begin", "prepare", "arm", "alter"}
  \/ at \in {"begin", "prepare"} /\ case = 1 /\ HeldFor(1)
  \/ at = "raised" /\ (loss # <<>> \/ HeldFor(1))
  \/ at = "done"

ArmedInv ==
  /\ loss # <<>> => loss[1] \in 1..case
  /\ armed \subseteq DOMAIN Failpoint
  /\ armed # {} => probe = "stateful_object"
  /\ at \in {"arm", "disarm"} => Current.failpoint # "none"
  /\ \A f \in armed : ArmedFor(f)

Wanted == IF Current.expected \in {"block", "rollback"} THEN "refused" ELSE "ok"

\* What is still to be dropped is there.
Standing(n) ==
  \A m \in DOMAIN Current.checks :
    m >= n /\ Current.checks[m].how = "drops" => Has("cluster", Current.checks[m].policy) \in world

\* An undisturbed case goes as the case says.
CaseInv ==
  Undisturbed =>
    /\ at \in {"arm", "alter"} => Database(world) = Database(Before(Current))
    /\ at \in {"disarm", "judge"} => Database(world) = FactsOf(Current) /\ Standing(1) /\ reply = Wanted
    /\ at = "look" => Database(world) = FactsOf(Current) /\ Standing(check)
    /\ at = "tidy" => reply # "FINDING"

FindInv == ArmedInv /\ CaseInv /\ FindingIsReal

\* The case the run is at is one of those above.
LEMMA CurrentSees ==
  ASSUME GreenInv
  PROVE  /\ SeenCase(Current) /\ WellMade(Current) /\ case \in Nat \ {0}
         /\ probe = "stateful_object" => Failing(Current)
         /\ probe # "stateful_object" => Current.failpoint = "none"
<1>1. probe \in DOMAIN Cases /\ case \in 1..Last  BY DEF GreenInv, Counted
<1>2. WellMade(Current) /\ Last \in Nat \ {0}  BY <1>1, CurrentFits
<1>3. case \in DOMAIN Cases[probe]  BY <1>1, CasesFit DEF Last
<1>4. CaseSeen(probe, Current)  BY <1>1, <1>3, CasesSeen DEF Current
<1>5. SeenCase(Current)  BY <1>4 DEF CaseSeen, Failing, Plain
<1>6. probe # "stateful_object" => Current.failpoint = "none"  BY <1>4 DEF CaseSeen, Plain
<1>7. probe = "stateful_object" => Failing(Current)  BY <1>4 DEF CaseSeen
<1> QED  BY <1>1, <1>2, <1>5, <1>6, <1>7

\* It tells what it has to; and which of the cases have a known refusal, or a failpoint.
LEMMA CurrentTells ==
  ASSUME GreenInv
  PROVE  /\ Telling(Current)
         /\ Current.expected = "block" /\ Current.known => ~Current.family /\ Current.checks = <<>>
         /\ Current.failpoint # "none" => Current.expected \in {"rewrite", "rollback"}
  BY CurrentSees DEF SeenCase, WellMade, Failing

\* A case that is undisturbed after a step was so before, and lost no call in it.
LEMMA UndisturbedBefore ==
  ASSUME UNCHANGED <<probe, defect, case>>, MayBeLost, Undisturbed'
  PROVE  Undisturbed /\ (at \notin Outside => UNCHANGED loss)
<1>1. defect.case # case /\ ~LostIn(case') /\ ~LostIn(case)'  BY DEF Undisturbed, MayBeLost, LostIn
<1>2. ~LostIn(case)  BY <1>1
<1>3. ~LeftArmed(case)  BY DEF Undisturbed, MayBeLost, LeftArmed
<1>4. ASSUME loss' = <<case, at>>, at \notin Outside  PROVE FALSE
  <2>1. loss' # <<>> /\ loss'[1] = case' /\ loss'[2] = at  BY <1>4
  <2> QED  BY <1>1, <1>4, <2>1 DEF LostIn, Outside
<1> QED  BY <1>1, <1>2, <1>3, <1>4 DEF Undisturbed, MayBeLost

\* A verdict that was for a reason still is.
LEMMA FindingStays ==
  ASSUME FindingIsReal, UNCHANGED <<probe, defect, verdicts>>, MayBeLost
  PROVE  FindingIsReal'
  BY DEF FindingIsReal, MayBeLost, LostIn, LeftArmed

\* The next verdict is a finding for a reason.
LEMMA FindingNext ==
  ASSUME GreenInv, FindingIsReal, UNCHANGED <<probe, defect>>, MayBeLost,
         at \in WithinCase \cup {"prepare"}, NEW v \in Verdicts, Verdict(v),
         v = "FINDING" => ~Undisturbed \/ loss' = <<case, at>>
  PROVE  FindingIsReal'
<1>1. /\ DOMAIN verdicts' = 1..case /\ DOMAIN verdicts = 1..(case - 1)
      /\ verdicts'[case] = v /\ \A i \in 1..(case - 1) : verdicts'[i] = verdicts[i]
  BY VerdictAppends DEF GreenInv
<1>2. case \in Nat \ {0}  BY CurrentSees
<1>3. \A i : LostIn(i) => LostIn(i)'  BY LostStays
<1>4. \A i : LeftArmed(i) => LeftArmed(i)'  BY DEF MayBeLost, LeftArmed
<1>5. ASSUME NEW i \in 1..case, verdicts'[i] = "FINDING"  PROVE defect'.case = i \/ LostIn(i)' \/ LeftArmed(i)'
  <2>1. CASE i = case /\ ~Undisturbed  BY <1>3, <1>4, <2>1 DEF Undisturbed
  <2>2. CASE i = case /\ loss' = <<case, at>>
    <3>1. loss' # <<>> /\ loss'[1] = i /\ loss'[2] = at  BY <2>2
    <3>2. at \notin Outside  BY DEF WithinCase, Outside
    <3> QED  BY <3>1, <3>2 DEF LostIn, Outside
  <2>3. CASE i # case
    <3>1. i \in 1..(case - 1)  BY <1>2, <2>3
    <3> QED  BY <1>1, <1>3, <1>4, <1>5, <3>1 DEF FindingIsReal
  <2> QED  BY <1>1, <1>5, <2>1, <2>2, <2>3
<1> QED  BY <1>1, <1>5 DEF FindingIsReal

\* Where no failpoint is enabled, none need be accounted for.
LEMMA NotArmed ==
  ASSUME ArmedInv, probe # "stateful_object", UNCHANGED probe, armed' \subseteq armed,
         at' \notin {"arm", "disarm"}, loss' # <<>> => loss'[1] \in 1..case'
  PROVE  ArmedInv'
  BY DEF ArmedInv

\* A loss is of the case the run is at, or of an earlier one.
LEMMA LossIs ==
  ASSUME GreenInv, ArmedInv, MayBeLost, case' \in {case, case + 1}
  PROVE  loss' # <<>> => loss'[1] \in 1..case'
<1>1. case \in Nat \ {0}  BY CurrentSees
<1>2. CASE UNCHANGED loss  BY <1>1, <1>2 DEF ArmedInv
<1>3. CASE loss' = <<case, at>>
  <2>1. loss'[1] = case  BY <1>3
  <2> QED  BY <1>1, <2>1
<1> QED  BY <1>2, <1>3 DEF MayBeLost

\* The verdict of a case brings the next.
LEMMA VerdictGoesOn ==
  ASSUME GreenInv, NEW v, Verdict(v)
  PROVE  /\ at' \in {"prepare", "finish"} /\ case' \in {case, case + 1}
         /\ at' = "prepare" => case' = case + 1
  BY DEF Verdict
-----------------------------------------------------------------------------
(* What an undisturbed case finds *)

\* A look that is to find something in the cluster does.
LEMMA SightPasses ==
  ASSUME GreenInv, at \in WithinCase, Database(world) = FactsOf(Current), NEW c,
         Sight(c, Before(Current), FactsOf(Current)),
         c.how = "drops" => Has("cluster", c.policy) \in world
  PROVE  Passes(c) /\ (c.how = "in_use" => DropFails(c.policy))
<1> DEFINE D == FactsOf(Current)
<1>1. \A f : f \in D <=> f \in world /\ f[1] \notin {"cluster", "old"}  BY DEF Database
<1>2. Sound(world) /\ ~HeldFor(case)  BY DEF GreenInv, WorldInv, Skipped
<1> HIDE DEF D
<1>3. \A x \in Indexes \cup {"t"} : RowsOf(x) = RowsIn(x, D)
  <2>1. \A x \in Indexes \cup {"t"} : x \notin {"cluster", "old"}  BY DEF Indexes
  <2> QED  BY <1>1, <2>1 DEF RowsOf, RowsIn
<1>4. \A x : Has("t", x) \in world <=> Has("t", x) \in D
  <2>1. \A x : Has("t", x)[1] = "t"  BY DEF Has
  <2> QED  BY <1>1, <2>1
<1>5. CASE c.how \in {"show", "read"} /\ c.needs \subseteq D /\ Own(c.forbids) /\ c.forbids \cap D = {}
  <2>1. c.needs \subseteq world  BY <1>1, <1>5
  <2>2. c.forbids \cap world = {}  BY <1>1, <1>5 DEF Own
  <2> QED  BY <1>5, <2>1, <2>2 DEF Passes, Sees
<1>6. CASE c.how = "drops" /\ Has("cluster", c.policy) \in Before(Current) /\ \A f \in D : f[2] = "uses" => f[3] # c.policy
  <2>1. ASSUME NEW f \in world, f[2] = "uses", f[3] = c.policy  PROVE FALSE
    <3>1. CASE f[1] = "cluster"
      <4>1. f = Has("cluster", f[3])  BY <1>2, <3>1 DEF Sound
      <4>2. f[2] = "has"  BY <4>1 DEF Has
      <4> QED  BY <2>1, <4>2
    <3>2. CASE f[1] = "old"  BY <1>2, <1>6, <2>1, <3>2 DEF HeldFor, Current
    <3>3. CASE f[1] \notin {"cluster", "old"}  BY <1>1, <1>6, <2>1, <3>3
    <3> QED  BY <3>1, <3>2, <3>3
  <2>2. ~DropFails(c.policy)  BY <1>6, <2>1 DEF DropFails, Referenced
  <2> QED  BY <1>6, <2>2 DEF Passes
<1>7. CASE c.how = "in_use" /\ \E f \in D : f[2] = "uses" /\ f[3] = c.policy
  <2>1. Referenced(c.policy, world)  BY <1>1, <1>7 DEF Referenced
  <2> QED  BY <1>7, <2>1 DEF Passes, DropFails
<1>8. CASE c.how = "admin" /\ \A x \in Indexes : Has("t", x) \in D => RowsIn(x, D) = RowsIn("t", D)
  <2>1. \A x \in Indexes : Has("t", x) \in world => RowsOf(x) = RowsOf("t")  BY <1>3, <1>4, <1>8
  <2> QED  BY <1>8, <2>1 DEF Passes
<1>9. CASE /\ c.how = "rows" /\ c.index \in Indexes /\ Has("t", c.index) \in D /\ RowsIn(c.index, D) = RowsIn("t", D)
           /\ c.exact # {} => RowsIn("t", D) = c.exact
  <2>1. Has("t", c.index) \in world /\ RowsOf(c.index) = RowsOf("t")  BY <1>3, <1>4, <1>9
  <2>2. c.exact # {} => RowsOf("t") = c.exact  BY <1>3, <1>9
  <2> QED  BY <1>9, <2>1, <2>2 DEF Passes
<1> QED  BY <1>5, <1>6, <1>7, <1>8, <1>9 DEF Sight, D

\* A look takes away the policy it drops, and nothing else.
LEMMA LookedKeeps ==
  ASSUME NEW c, c.how = "in_use" => DropFails(c.policy)
  PROVE  /\ Database(Looked(c)) = Database(world)
         /\ \A p : Has("cluster", p) \in world /\ (c.how = "drops" => p # c.policy) => Has("cluster", p) \in Looked(c)
<1>1. CASE c.how = "drops" /\ ~DropFails(c.policy)
  <2>1. Looked(c) = world \ {Has("cluster", c.policy)}  BY <1>1 DEF Looked
  <2>2. Has("cluster", c.policy)[1] = "cluster"  BY DEF Has
  <2>3. Database(Looked(c)) = Database(world)  BY <2>1, <2>2 DEF Database
  <2>4. \A p : p # c.policy => Has("cluster", p) # Has("cluster", c.policy)  BY DEF Has
  <2> QED  BY <1>1, <2>1, <2>3, <2>4
<1>2. CASE ~(c.how = "drops" /\ ~DropFails(c.policy))
  <2>1. Looked(c) = world  BY <1>2 DEF Looked
  <2> QED  BY <2>1
<1> QED  BY <1>1, <1>2

\* The kind of a job and how often it fails are all there is to a failpoint.
LEMMA FailpointIs == \A f \in DOMAIN Failpoint : Failpoint[f] = <<Failpoint[f][1], Failpoint[f][2]>>
<1>1. DOMAIN Failpoint = {"reorgPartRollback2", "reorgPartRollback3", "reorgPartRollback4", "reorgPartFail4",
                          "reorgPartFail5", "truncatePartCancel1", "truncatePartFail1", "truncatePartFail2",
                          "truncatePartFail3"}
  BY DEF Failpoint
<1> QED  BY <1>1 DEF Failpoint

\* No failpoint but the case's own makes the DDL of an undisturbed case fail.
LEMMA NotContaminated ==
  ASSUME GreenInv, ArmedInv, at = "alter", Undisturbed
  PROVE  ~Contaminated
<1> SUFFICES ASSUME NEW f \in armed \ {Current.failpoint},
                    Failpoint[f][1] = Failpoint[Current.failpoint][1] /\ Failpoint[f][2] = "always"
             PROVE  FALSE
  BY DEF Contaminated
<1>1. ArmedFor(f) /\ f \in DOMAIN Failpoint  BY DEF ArmedInv
<1>2. loss # <<>> /\ loss[2] = "disarm" /\ f = Cases[probe][loss[1]].failpoint /\ loss[1] # case
  BY <1>1 DEF ArmedFor
<1>3. loss[1] \in 1..case /\ case \in Nat  BY <1>2, CurrentSees DEF ArmedInv
<1>4. loss[1] < case  BY <1>2, <1>3
<1>5. Failpoint[f] = <<Failpoint[Current.failpoint][1], "always">>  BY <1>1, FailpointIs
<1>6. LeftArmed(case)  BY <1>2, <1>4, <1>5 DEF LeftArmed, Current
<1> QED  BY <1>6 DEF Undisturbed

\* The DDL of an undisturbed case is answered as the case says, and does what it says.
LEMMA AnsweredAsMeant ==
  ASSUME GreenInv, ArmedInv, at = "alter", Undisturbed, Database(world) = Database(Before(Current))
  PROVE  /\ Answered.reply = Wanted
         /\ Database(Answered.world) = FactsOf(Current)
         /\ \A p : Has("cluster", p) \in Before(Current) => Has("cluster", p) \in Answered.world
<1> DEFINE k == Current
           meant == (world \ k.gone) \cup k.come
<1>1. \A how : ~Defective(how)  BY DEF Undisturbed, Defective
<1>2. Done = meant  BY <1>1 DEF Done
<1>3. ~Contaminated  BY NotContaminated
<1>4. Answered.reply = Wanted /\ Answered.world = Done
  <2>1. CASE k.expected = "block"  BY <1>1, <2>1 DEF Answered, Wanted
  <2>2. CASE k.expected = "rollback"  BY <1>1, <2>2 DEF Answered, Wanted
  <2>3. CASE k.expected \notin {"block", "rollback"}  BY <1>1, <1>3, <2>3 DEF Answered, Wanted
  <2> QED  BY <2>1, <2>2, <2>3
<1>5. Database(meant) = FactsOf(k)
  <2>1. \A f : f \in Database(world) <=> f \in Database(Before(k))  OBVIOUS
  <2>2. \A f : f[1] \notin {"cluster", "old"} => (f \in world <=> f \in Before(k))  BY <2>1 DEF Database
  <2>3. \A f : f[1] \notin {"cluster", "old"} => (f \in meant <=> f \in After(k))  BY <2>2 DEF After
  <2> HIDE DEF meant
  <2> QED  BY <2>3 DEF Database, FactsOf
<1>6. ASSUME NEW p, Has("cluster", p) \in Before(k)  PROVE Has("cluster", p) \in meant
  <2>1. Has("cluster", p) \in world  BY <1>6 DEF GreenInv, WorldInv
  <2>2. Has("cluster", p)[1] = "cluster"  BY DEF Has
  <2>3. Has("cluster", p) \notin k.gone  BY <2>2, CurrentSees DEF WellMade, ChangeFits
  <2> QED  BY <2>1, <2>3
<1> QED  BY <1>2, <1>4, <1>5, <1>6

\* What the case says is nothing to report.
LEMMA WantedIsFine ==
  ASSUME reply = Wanted
  PROVE  Decided # "FINDING"
<1>1. CASE Current.expected = "block"  BY <1>1 DEF Decided, Wanted
<1>2. CASE Current.expected = "rollback"  BY <1>2 DEF Decided, Wanted
<1>3. CASE Current.expected \notin {"block", "rollback"}  BY <1>3 DEF Decided, Wanted
<1> QED  BY <1>1, <1>2, <1>3
-----------------------------------------------------------------------------
(* Steps of a case *)

\* The first statements arm nothing and judge nothing.
LEMMA BeginFinds == ASSUME GreenInv, FindInv, Begin  PROVE FindInv'
<1>1. at = "begin" /\ at' \in {"prepare", "done"} /\ UNCHANGED <<probe, defect, case, world, armed, verdicts>>
  BY DEF Begin
<1>2. case = 1 /\ (at' = "prepare" => UNCHANGED loss)  BY <1>1 DEF GreenInv, Counted, Begin
<1>3. MayBeLost  BY DEF Begin, Lose, MayLose, MayBeLost
<1>4. loss' # <<>> => loss'[1] \in 1..case'  BY <1>1, <1>3, LossIs DEF FindInv
<1>5. ASSUME NEW f \in armed  PROVE ArmedFor(f)'
  <2>1. HeldFor(1)' <=> HeldFor(1)  BY <1>1 DEF HeldFor
  <2>2. ArmedFor(f)  BY DEF FindInv, ArmedInv
  <2> QED  BY <1>1, <1>2, <2>1, <2>2 DEF ArmedFor
<1>6. ArmedInv'  BY <1>1, <1>4, <1>5 DEF FindInv, ArmedInv
<1>7. CaseInv'  BY <1>1 DEF CaseInv
<1>8. FindingIsReal'  BY <1>1, <1>3, FindingStays DEF FindInv
<1> QED  BY <1>6, <1>7, <1>8 DEF FindInv

\* A step that ends a case or the run before its DDL: why a failpoint is enabled is
\* still so, or a call was lost.
LEMMA RaiseArms ==
  ASSUME GreenInv, ArmedInv, at \in {"prepare", "arm"}, Raise, UNCHANGED probe, MayBeLost,
         armed' \subseteq DOMAIN Failpoint, probe # "stateful_object" => armed' \subseteq armed,
         loss' # <<>> \/ (at = "prepare" /\ armed' \subseteq armed /\ (HeldFor(1) => HeldFor(1)'))
  PROVE  ArmedInv'
<1>1. UNCHANGED case /\ at' \in {"tidy", "raised"}  BY DEF Raise
<1>2. loss' # <<>> => loss'[1] \in 1..case'  BY <1>1, LossIs
<1>3. CASE probe # "stateful_object"  BY <1>1, <1>2, <1>3, NotArmed
<1>4. CASE probe = "stateful_object"
  <2>1. at' = "raised"  BY <1>4 DEF Raise
  <2>2. ASSUME NEW f \in armed'  PROVE loss' # <<>> \/ HeldFor(1)'
    <3> SUFFICES ASSUME loss' = <<>>  PROVE HeldFor(1)'  OBVIOUS
    <3>1. ArmedFor(f)  BY <2>2 DEF ArmedInv
    <3>2. loss = <<>>
      <4>1. \A a, b : <<a, b>> # <<>>  OBVIOUS
      <4> QED  BY <4>1 DEF MayBeLost
    <3> QED  BY <3>1, <3>2 DEF ArmedFor
  <2> QED  BY <1>2, <1>4, <2>1, <2>2 DEF ArmedInv, ArmedFor
<1> QED  BY <1>3, <1>4

\* A setup that fails because of a killed run, or for a lost call, is no finding.
LEMMA UnsupportedFinds ==
  ASSUME GreenInv, FindInv, at = "prepare", Unsupported, UNCHANGED <<probe, defect, armed>>,
         Carries(world, world'), MayBeLost, HeldFor(case) \/ loss' = <<case, "prepare">>
  PROVE  FindInv'
<1>1. HeldFor(1)' <=> HeldFor(1)  BY HeldStays
<1>2. CASE Raise
  <2>1. UNCHANGED <<case, verdicts>> /\ at' \in {"tidy", "raised"}  BY <1>2 DEF Raise
  <2>2. ArmedInv'  BY <1>1, <1>2, RaiseArms DEF FindInv, ArmedInv
  <2>3. CaseInv'
    <3> SUFFICES ASSUME Undisturbed', at' = "tidy"  PROVE FALSE  BY <2>1 DEF CaseInv
    <3>1. loss' # <<case, "prepare">>
      <4>1. UNCHANGED loss  BY <2>1, UndisturbedBefore DEF Outside
      <4> QED  BY <2>1, <4>1 DEF MayBeLost, Undisturbed, LostIn
    <3>2. probe = "masking_policy" /\ HeldFor(case)  BY <1>2, <3>1 DEF Raise
    <3> QED  BY <3>2 DEF GreenInv, WorldInv, HeldFor, Old, Tolerant
  <2>4. FindingIsReal'  BY <2>1, FindingStays DEF FindInv
  <2> QED  BY <2>2, <2>3, <2>4 DEF FindInv
<1>3. CASE Current.skip /\ Verdict("SKIP")
  <2>1. at' \in {"prepare", "finish"} /\ case' \in {case, case + 1}  BY <1>3, VerdictGoesOn
  <2>2. probe # "stateful_object"  BY <1>3, CurrentSees DEF Failing
  <2>3. loss' # <<>> => loss'[1] \in 1..case'  BY <2>1, LossIs DEF FindInv
  <2>4. ArmedInv'  BY <2>1, <2>2, <2>3, NotArmed DEF FindInv
  <2>5. CaseInv'  BY <2>1 DEF CaseInv
  <2>6. "SKIP" \in Verdicts /\ at \in WithinCase \cup {"prepare"}  BY DEF Verdicts
  <2>7. FindingIsReal'  BY <1>3, <2>6, FindingNext DEF FindInv
  <2> QED  BY <2>4, <2>5, <2>7 DEF FindInv
<1> QED  BY <1>2, <1>3 DEF Unsupported

\* What a setup makes after a cleanup is all there is in the database.
LEMMA MadeIs ==
  ASSUME SetupFits(Current.setup)
  PROVE  Database(Made(Cleaned(world), Len(Current.setup))) = Database(Before(Current))
<1> DEFINE w == Cleaned(world)
<1>1. DOMAIN Current.setup = 1..Len(Current.setup)  BY DEF SetupFits
<1>2. Database(w) = {}  BY CleanedIsEmpty DEF Emptied
<1> HIDE DEF w
<1>3. Made(w, Len(Current.setup)) = w \cup Before(Current)  BY <1>1 DEF Made, Before
<1> QED  BY <1>2, <1>3 DEF Database, w

\* A setup, in whatever a cleanup left.
LEMMA SetUpFinds ==
  ASSUME GreenInv, FindInv, at = "prepare", UNCHANGED <<probe, defect, armed>>, NEW w, Carries(world, w), SetUp(w),
         \/ UNCHANGED loss /\ w = Cleaned(world)
         \/ loss = <<>> /\ loss' = <<case, "prepare">>
  PROVE  FindInv'
<1>0. MayBeLost /\ Sound(w)  BY DEF MayBeLost, Carries
<1>1. SetupFits(Current.setup) /\ Len(Current.setup) \in Nat  BY CurrentSees DEF WellMade, SetupFits
<1>2. CASE Clashes(w) = {}
  <2>1. /\ UNCHANGED <<case, verdicts>> /\ at' = (IF Current.failpoint = "none" THEN "alter" ELSE "arm")
        /\ world' = Made(w, Len(Current.setup))
    BY <1>2 DEF SetUp
  <2>2. ~HeldFor(case)  BY <1>2, FreeIsNotHeld
  <2>3. loss' # <<>> => loss'[1] \in 1..case'  BY <1>0, <2>1, LossIs DEF FindInv
  <2>4. ASSUME NEW f \in armed  PROVE ArmedFor(f)'
    <3>1. ArmedFor(f)  BY DEF FindInv, ArmedInv
    <3>2. ~(case = 1 /\ HeldFor(1))  BY <2>2
    <3>3. loss # <<>> /\ loss[2] = "disarm" /\ f = Cases[probe][loss[1]].failpoint /\ loss[1] # case
      BY <3>1, <3>2 DEF ArmedFor
    <3> QED  BY <2>1, <3>3 DEF ArmedFor
  <2>5. ArmedInv'  BY <2>1, <2>3, <2>4 DEF FindInv, ArmedInv, Current
  <2>6. CaseInv'
    <3> SUFFICES ASSUME Undisturbed'  PROVE Database(world') = Database(Before(Current))
      BY <2>1 DEF CaseInv, Current, Before, Database
    <3>1. UNCHANGED loss  BY <1>0, <2>1, UndisturbedBefore DEF Outside
    <3>2. loss' # <<case, "prepare">>
      <4>1. \A a, b : <<a, b>> # <<>>  OBVIOUS
      <4> QED  BY <2>1, <3>1, <4>1 DEF Undisturbed, LostIn
    <3> QED  BY <1>1, <2>1, <3>2, MadeIs
  <2>7. FindingIsReal'  BY <1>0, <2>1, FindingStays DEF FindInv
  <2> QED  BY <2>5, <2>6, <2>7 DEF FindInv
<1>3. CASE Clashes(w) # {}
  <2>1. world' = Abandoned(Made(w, Stops(w) - 1)) /\ Unsupported  BY <1>3 DEF SetUp
  <2>2. Stops(w) - 1 \in 0..Len(Current.setup)  BY <1>1, StopsIs
  <2>3. Carries(world, world')  BY <1>0, <1>1, <2>1, <2>2, AbandonedCarries, CarriesOn
  <2>4. HeldFor(case) \/ loss' = <<case, "prepare">>  BY <1>3, ClashIsHeld
  <2> QED  BY <1>0, <2>1, <2>3, <2>4, UnsupportedFinds
<1> QED  BY <1>2, <1>3

\* Cleanup and setup.
LEMMA PrepareFinds == ASSUME GreenInv, FindInv, Prepare  PROVE FindInv'
<1>1. at = "prepare" /\ SetUp(Cleaned(world)) /\ UNCHANGED <<probe, defect, armed, loss>>  BY DEF Prepare
<1>2. Carries(world, Cleaned(world))  BY CleanedCarries DEF GreenInv, WorldInv
<1> QED  BY <1>1, <1>2, SetUpFinds

\* An exception here is of the case the call was lost in.
LEMMA RaiseFinds ==
  ASSUME GreenInv, FindInv, at \in {"prepare", "arm"}, Raise, UNCHANGED <<probe, defect>>,
         loss = <<>>, loss' = <<case, at>>, armed' \subseteq DOMAIN Failpoint,
         probe # "stateful_object" => armed' \subseteq armed
  PROVE  FindInv'
<1>1. UNCHANGED <<case, verdicts>> /\ at' \in {"tidy", "raised"}  BY DEF Raise
<1>2. MayBeLost /\ loss' # <<>> /\ loss'[1] = case /\ loss'[2] = at  BY DEF MayBeLost
<1>3. ArmedInv'  BY <1>2, RaiseArms DEF FindInv
<1>4. ~Undisturbed'  BY <1>1, <1>2 DEF Undisturbed, LostIn
<1>5. CaseInv'  BY <1>4 DEF CaseInv
<1>6. FindingIsReal'  BY <1>1, <1>2, FindingStays DEF FindInv
<1> QED  BY <1>3, <1>5, <1>6 DEF FindInv

\* A cleanup or a setup in which one statement is lost.
LEMMA PrepareLostFinds == ASSUME GreenInv, FindInv, PrepareLost  PROVE FindInv'
<1>1. at = "prepare" /\ UNCHANGED <<probe, defect, armed>>  BY DEF PrepareLost
<1>2. loss = <<>> /\ loss' = <<case, "prepare">>  BY <1>1 DEF PrepareLost, Lose, MayLose
<1>3. Sound(world) /\ MayBeLost  BY <1>1, <1>2 DEF GreenInv, WorldInv, MayBeLost
<1>4. ASSUME NEW w \in CleanedLost(world), SetUp(w)  PROVE FindInv'
  <2>1. Carries(world, w)  BY <1>3, CleanedLostCarries
  <2> QED  BY <1>1, <1>2, <1>4, <2>1, SetUpFinds
<1>5. CASE Raise /\ UNCHANGED world  BY <1>1, <1>2, <1>5, RaiseFinds DEF FindInv, ArmedInv
<1>6. CASE SetUpLost(Cleaned(world))
  <2> DEFINE w == Cleaned(world)
  <2>1. PICK n \in 1..Len(Current.setup), executed \in {0, 1} :
           world' = Abandoned(Made(w, n - 1 + executed)) /\ Unsupported
    BY <1>6 DEF SetUpLost
  <2>2. SetupFits(Current.setup) /\ Len(Current.setup) \in Nat  BY CurrentSees DEF WellMade, SetupFits
  <2>3. n - 1 + executed \in 0..Len(Current.setup)  BY <2>2
  <2>4. Carries(world, w)  BY <1>3, CleanedCarries
  <2>5. Carries(w, world')  BY <2>1, <2>2, <2>3, <2>4, AbandonedCarries DEF Carries
  <2>6. Carries(world, world')  BY <2>4, <2>5, CarriesOn
  <2> QED  BY <1>1, <1>2, <1>3, <2>1, <2>6, UnsupportedFinds
<1> QED  BY <1>4, <1>5, <1>6 DEF PrepareLost

\* A failpoint that could not be enabled, perhaps, is of a run that lost a call.
LEMMA ArmFinds == ASSUME GreenInv, FindInv, Arm  PROVE FindInv'
<1>1. at = "arm" /\ UNCHANGED <<probe, defect, world>>  BY DEF Arm
<1>2. probe = "stateful_object" /\ Current.failpoint \in DOMAIN Failpoint
  BY <1>1, CurrentSees DEF FindInv, ArmedInv, Failing
<1>3. CASE /\ armed' = armed \cup {Current.failpoint} /\ at' = "alter"
           /\ UNCHANGED <<case, verdicts, reply, loss>>
  <2>1. MayBeLost  BY <1>3 DEF MayBeLost
  <2>2. ASSUME NEW f \in armed'  PROVE ArmedFor(f)'
    <3>1. CASE f = Current.failpoint  BY <1>1, <1>3, <3>1 DEF ArmedFor, Current
    <3>2. CASE f \in armed
      <4>1. ArmedFor(f)  BY <3>2 DEF FindInv, ArmedInv
      <4>2. loss # <<>> /\ loss[2] = "disarm" /\ f = Cases[probe][loss[1]].failpoint /\ loss[1] # case
        BY <1>1, <4>1 DEF ArmedFor
      <4> QED  BY <1>1, <1>3, <4>2 DEF ArmedFor
    <3> QED  BY <1>3, <3>1, <3>2
  <2>3. ArmedInv'  BY <1>1, <1>2, <1>3, <2>2 DEF FindInv, ArmedInv
  <2>4. CaseInv'
    <3> SUFFICES ASSUME Undisturbed'  PROVE Database(world') = Database(Before(Current))
      BY <1>1, <1>3 DEF CaseInv, Current, Before, Database
    <3>1. Undisturbed  BY <1>1, <1>3, <2>1, UndisturbedBefore
    <3>2. Database(world) = Database(Before(Current))  BY <1>1, <3>1 DEF FindInv, CaseInv
    <3> QED  BY <1>1, <3>2
  <2>5. FindingIsReal'  BY <1>1, <1>3, <2>1, FindingStays DEF FindInv
  <2> QED  BY <2>3, <2>4, <2>5 DEF FindInv
<1>4. CASE Lose /\ armed' \in {armed, armed \cup {Current.failpoint}} /\ Raise
  <2>1. loss = <<>> /\ loss' = <<case, at>>  BY <1>4 DEF Lose, MayLose
  <2>2. armed' \subseteq DOMAIN Failpoint  BY <1>2, <1>4 DEF FindInv, ArmedInv
  <2> QED  BY <1>1, <1>2, <1>4, <2>1, <2>2, RaiseFinds
<1> QED  BY <1>3, <1>4 DEF Arm

\* The accounting of failpoints goes on within a case, once its DDL has begun.
LEMMA GoesOnArmed ==
  ASSUME ArmedInv, UNCHANGED <<probe, case>>, armed' \subseteq armed, at \in WithinCase \ {"arm"},
         at' \in WithinCase \ {"arm", "alter"}, loss' # <<>> => loss'[1] \in 1..case',
         at' = "disarm" => Current.failpoint # "none",
         \/ UNCHANGED loss /\ (Current.failpoint \in armed' /\ at \in {"alter", "disarm"} => at' = "disarm")
         \/ loss = <<>> /\ (Current.failpoint \in armed' =>
              (at = "alter" /\ at' = "disarm") \/ loss' = <<case, "disarm">>)
  PROVE  ArmedInv'
<1>1. ASSUME NEW f \in armed'  PROVE ArmedFor(f)'
  <2>1. ArmedFor(f)  BY <1>1 DEF ArmedInv
  <2>2. \/ at \in {"alter", "disarm"} /\ f = Current.failpoint
        \/ loss # <<>> /\ loss[2] = "disarm" /\ f = Cases[probe][loss[1]].failpoint
    BY <2>1 DEF ArmedFor, WithinCase
  <2>3. CASE UNCHANGED loss
    <3>1. CASE f = Current.failpoint /\ at' = "disarm"  BY <3>1 DEF ArmedFor, Current
    <3>2. CASE loss # <<>> /\ loss[2] = "disarm" /\ f = Cases[probe][loss[1]].failpoint
      BY <2>3, <3>2 DEF ArmedFor, WithinCase
    <3> QED  BY <1>1, <2>2, <2>3, <3>1, <3>2
  <2>4. CASE f = Current.failpoint /\ at' = "disarm"  BY <2>4 DEF ArmedFor, Current
  <2>5. CASE loss = <<>> /\ f = Current.failpoint /\ loss' = <<case, "disarm">>
    <3>1. loss' # <<>> /\ loss'[1] = case /\ loss'[2] = "disarm"  BY <2>5
    <3> QED  BY <2>5, <3>1 DEF ArmedFor, WithinCase, Current
  <2> QED  BY <1>1, <2>2, <2>3, <2>4, <2>5
<1>2. at' = "disarm" => Current'.failpoint # "none"  BY DEF Current
<1> QED  BY <1>1, <1>2 DEF ArmedInv, WithinCase

\* The DDL: an undisturbed case has the facts after it, and the answer that is wanted.
LEMMA AlterFinds == ASSUME GreenInv, FindInv, Alter  PROVE FindInv'
<1>1. at = "alter" /\ at' = AfterAlter /\ UNCHANGED <<probe, defect, case, check, verdicts>>  BY DEF Alter
<1>2. MayBeLost  BY DEF Alter, Lose, MayLose, MayBeLost
<1>3. loss' # <<>> => loss'[1] \in 1..case'  BY <1>1, <1>2, LossIs DEF FindInv
<1>4. armed' \subseteq armed  BY DEF Alter, Consumed
<1>5. at' \in {"judge", "disarm"} /\ (at' = "disarm" <=> Current.failpoint # "none")  BY <1>1 DEF AfterAlter
<1>6. Current.failpoint \in armed => at' = "disarm"
  BY <1>5, CurrentSees DEF FindInv, ArmedInv, Failing
<1>7. ArmedInv'
  <2>1. UNCHANGED loss \/ loss = <<>>  BY <1>2 DEF MayBeLost
  <2>2. at \in WithinCase \ {"arm"} /\ at' \in WithinCase \ {"arm", "alter"}  BY <1>1, <1>5 DEF WithinCase
  <2>3. Current.failpoint \in armed' => at' = "disarm"  BY <1>4, <1>6
  <2> QED  BY <1>1, <1>3, <1>4, <1>5, <2>1, <2>2, <2>3, GoesOnArmed DEF FindInv
<1>8. CaseInv'
  <2> SUFFICES ASSUME Undisturbed'
               PROVE  Database(world') = FactsOf(Current) /\ Standing(1)' /\ reply' = Wanted
    BY <1>1, <1>5 DEF CaseInv, Current, FactsOf, After, Before, Database, Wanted
  <2>1. Undisturbed /\ UNCHANGED loss  BY <1>1, <1>2, UndisturbedBefore DEF Outside
  <2>2. world' = Answered.world /\ reply' = Answered.reply
    <3>1. loss' # <<case, at>> \/ LostIn(case)'
      <4>1. ASSUME loss' = <<case, at>>  PROVE LostIn(case)'
        <5>1. loss' # <<>> /\ loss'[1] = case' /\ loss'[2] = "alter"  BY <1>1, <4>1
        <5> QED  BY <5>1 DEF LostIn
      <4> QED  BY <4>1
    <3>2. ~LostIn(case)'  BY <1>1 DEF Undisturbed, LostIn
    <3> QED  BY <3>1, <3>2 DEF Alter, Lose
  <2>3. Database(world) = Database(Before(Current))  BY <1>1, <2>1 DEF FindInv, CaseInv
  <2>4. /\ Answered.reply = Wanted /\ Database(Answered.world) = FactsOf(Current)
        /\ \A p : Has("cluster", p) \in Before(Current) => Has("cluster", p) \in Answered.world
    BY <1>1, <2>1, <2>3, AnsweredAsMeant DEF FindInv
  <2>5. Standing(1)'
    <3>1. ASSUME NEW m \in DOMAIN Current.checks, Current.checks[m].how = "drops"
          PROVE  Has("cluster", Current.checks[m].policy) \in world'
      <4>1. Sight(Current.checks[m], Before(Current), FactsOf(Current))  BY CurrentSees DEF SeenCase, Seeing
      <4>2. Has("cluster", Current.checks[m].policy) \in Before(Current)  BY <3>1, <4>1 DEF Sight
      <4> QED  BY <2>2, <2>4, <4>2
    <3> QED  BY <1>1, <3>1 DEF Standing, Current
  <2> QED  BY <2>2, <2>4, <2>5
<1>9. FindingIsReal'  BY <1>1, <1>2, FindingStays DEF FindInv
<1> QED  BY <1>7, <1>8, <1>9 DEF FindInv

\* A DELETE that is lost leaves the failpoint, and is remembered.
LEMMA DisarmFinds == ASSUME GreenInv, FindInv, Disarm  PROVE FindInv'
<1>1. /\ at = "disarm" /\ at' = "judge"
      /\ UNCHANGED <<probe, defect, case, check, world, reply, verdicts>>
  BY DEF Disarm
<1>2. \/ armed' = armed \ {Current.failpoint} /\ UNCHANGED loss
      \/ loss = <<>> /\ loss' = <<case, "disarm">> /\ UNCHANGED armed
  BY <1>1 DEF Disarm, Lose, MayLose
<1>3. MayBeLost  BY <1>1, <1>2 DEF MayBeLost
<1>4. loss' # <<>> => loss'[1] \in 1..case'  BY <1>1, <1>3, LossIs DEF FindInv
<1>5. ArmedInv'
  <2>1. at \in WithinCase \ {"arm"} /\ at' \in WithinCase \ {"arm", "alter"}  BY <1>1 DEF WithinCase
  <2> QED  BY <1>1, <1>2, <1>4, <2>1, GoesOnArmed DEF FindInv
<1>6. CaseInv'
  <2> SUFFICES ASSUME Undisturbed'
               PROVE  Database(world') = FactsOf(Current) /\ Standing(1)' /\ reply' = Wanted
    BY <1>1 DEF CaseInv, Current, FactsOf, After, Before, Database, Wanted
  <2>1. Undisturbed  BY <1>1, <1>3, UndisturbedBefore
  <2>2. Database(world) = FactsOf(Current) /\ Standing(1) /\ reply = Wanted  BY <1>1, <2>1 DEF FindInv, CaseInv
  <2> QED  BY <1>1, <2>2 DEF Standing, Current
<1>7. FindingIsReal'  BY <1>1, <1>3, FindingStays DEF FindInv
<1> QED  BY <1>5, <1>6, <1>7 DEF FindInv

\* The answer that is wanted is no finding.
LEMMA JudgeFinds == ASSUME GreenInv, FindInv, Judge  PROVE FindInv'
<1>1. at = "judge" /\ UNCHANGED <<probe, defect, case, world, armed, verdicts, loss>>  BY DEF Judge
<1>2. \/ Looks /\ at' = "look" /\ check' = 1
      \/ ~Looks /\ at' = "tidy" /\ reply' = Decided
  BY DEF Judge
<1>3. MayBeLost  BY <1>1 DEF MayBeLost
<1>4. loss' # <<>> => loss'[1] \in 1..case'  BY <1>1, <1>3, LossIs DEF FindInv
<1>5. ArmedInv'
  <2>1. at \in WithinCase \ {"arm"} /\ at' \in WithinCase \ {"arm", "alter"} /\ at' # "disarm"
    BY <1>1, <1>2 DEF WithinCase
  <2> QED  BY <1>1, <1>4, <2>1, GoesOnArmed DEF FindInv
<1>6. CaseInv'
  <2>1. ASSUME Undisturbed'
        PROVE  Database(world') = FactsOf(Current') /\ Standing(1)' /\ Decided # "FINDING"
    <3>1. Undisturbed  BY <1>1, <1>3, <2>1, UndisturbedBefore
    <3>2. Database(world) = FactsOf(Current) /\ Standing(1) /\ reply = Wanted  BY <1>1, <3>1 DEF FindInv, CaseInv
    <3>3. Current' = Current  BY <1>1 DEF Current
    <3> QED  BY <1>1, <3>2, <3>3, WantedIsFine DEF Standing
  <2>2. check' = 1 => Standing(check)' = Standing(1)'  BY DEF Standing
  <2>3. CASE Looks /\ at' = "look" /\ check' = 1
    BY <2>1, <2>2, <2>3 DEF CaseInv, FactsOf, After, Before, Database
  <2>4. CASE ~Looks /\ at' = "tidy" /\ reply' = Decided  BY <2>1, <2>4 DEF CaseInv
  <2> QED  BY <1>2, <2>3, <2>4
<1>7. FindingIsReal'  BY <1>1, <1>3, FindingStays DEF FindInv
<1> QED  BY <1>5, <1>6, <1>7 DEF FindInv

\* Every look of an undisturbed case finds what it looks for.
LEMMA LookFinds == ASSUME GreenInv, FindInv, Look  PROVE FindInv'
<1> DEFINE c == Current.checks[check]
<1>1. at = "look" /\ UNCHANGED <<probe, defect, case, armed, verdicts>>  BY DEF Look
<1>2. check \in 1..Len(Current.checks)  BY <1>1 DEF GreenInv, Counted
<1>3. Len(Current.checks) \in Nat /\ DOMAIN Current.checks = 1..Len(Current.checks)
  BY <1>2, CurrentSees DEF WellMade, Listed
<1>4. MayBeLost  BY DEF Look, Lose, MayLose, MayBeLost
<1>5. loss' # <<>> => loss'[1] \in 1..case'  BY <1>1, <1>4, LossIs DEF FindInv
<1>6. at' \in {"tidy", "look"}  BY DEF Look, Seen
<1>7. ArmedInv'
  <2>1. at \in WithinCase \ {"arm"} /\ at' \in WithinCase \ {"arm", "alter"} /\ at' # "disarm"
    BY <1>1, <1>6 DEF WithinCase
  <2>2. UNCHANGED loss \/ loss = <<>>  BY <1>4 DEF MayBeLost
  <2>3. loss = <<>> => Current.failpoint \notin armed  BY <1>1 DEF FindInv, ArmedInv, ArmedFor
  <2> QED  BY <1>1, <1>5, <2>1, <2>2, <2>3, GoesOnArmed DEF FindInv
<1>8. CaseInv'
  <2> SUFFICES ASSUME Undisturbed'
               PROVE  /\ at' = "look" => Database(world') = FactsOf(Current) /\ Standing(check)'
                      /\ at' = "tidy" => reply' # "FINDING"
    BY <1>1, <1>6 DEF CaseInv, Current, FactsOf, After, Before, Database
  <2>1. Undisturbed /\ UNCHANGED loss  BY <1>1, <1>4, UndisturbedBefore DEF Outside
  <2>2. Database(world) = FactsOf(Current) /\ Standing(check)  BY <1>1, <2>1 DEF FindInv, CaseInv
  <2>3. Seeing(Current.checks, Before(Current), FactsOf(Current))  BY CurrentSees DEF SeenCase
  <2>4. Sight(c, Before(Current), FactsOf(Current))  BY <1>2, <1>3, <2>3 DEF Seeing
  <2>5. c.how = "drops" => Has("cluster", c.policy) \in world  BY <1>2, <1>3, <2>2 DEF Standing
  <2>6. Passes(c) /\ (c.how = "in_use" => DropFails(c.policy))
    BY <1>1, <2>2, <2>4, <2>5, SightPasses DEF WithinCase
  <2>7. Seen(Passes(c)) /\ world' = Looked(c)
    <3>1. loss' # <<case, at>>
      <4> SUFFICES ASSUME loss' = <<case, at>>  PROVE FALSE  OBVIOUS
      <4>1. loss' # <<>> /\ loss'[1] = case' /\ loss'[2] = "look"  BY <1>1
      <4> QED  BY <4>1 DEF Undisturbed, LostIn
    <3> QED  BY <3>1 DEF Look, Lose
  <2>8. at' = "tidy" => reply' = "OK"  BY <2>6, <2>7 DEF Seen
  <2>9. ASSUME at' = "look"  PROVE Database(world') = FactsOf(Current) /\ Standing(check)'
    <3>1. check' = check + 1  BY <2>6, <2>7, <2>9 DEF Seen
    <3>2. ASSUME NEW m \in DOMAIN Current.checks, m >= check + 1, Current.checks[m].how = "drops"
          PROVE  Has("cluster", Current.checks[m].policy) \in world'
      <4>1. Has("cluster", Current.checks[m].policy) \in world  BY <1>2, <1>3, <2>2, <3>2 DEF Standing
      <4>2. c.how # "drops"  BY <1>2, <1>3, <2>3, <3>2 DEF Seeing
      <4> QED  BY <2>6, <2>7, <4>1, <4>2, LookedKeeps
    <3>3. Standing(check)'
      <4>1. Current' = Current  BY <1>1 DEF Current
      <4> QED  BY <3>1, <3>2, <4>1 DEF Standing
    <3> QED  BY <2>2, <2>6, <2>7, <3>3, LookedKeeps
  <2> QED  BY <2>8, <2>9
<1>9. FindingIsReal'  BY <1>1, <1>4, FindingStays DEF FindInv
<1> QED  BY <1>7, <1>8, <1>9 DEF FindInv

\* The verdict of an undisturbed case is no finding.
LEMMA TidyFinds == ASSUME GreenInv, FindInv, Tidy  PROVE FindInv'
<1>1. at = "tidy" /\ UNCHANGED <<probe, defect, armed>>  BY DEF Tidy
<1>2. reply \in Verdicts /\ at \in WithinCase \cup {"prepare"} /\ case \in Nat \ {0}
  BY <1>1, CurrentSees DEF GreenInv, Counted, WithinCase
<1>3. PICK v \in {reply, "FINDING"} :
        /\ Verdict(v)
        /\ \/ v = reply /\ UNCHANGED loss
           \/ loss = <<>> /\ loss' = <<case, at>>
  BY DEF Tidy, Lose, MayLose
<1>4. v \in Verdicts /\ MayBeLost  BY <1>2, <1>3 DEF Verdicts, MayBeLost
<1>5. at' \in {"prepare", "finish"} /\ case' \in {case, case + 1} /\ (at' = "prepare" => case' = case + 1)
  BY <1>3, VerdictGoesOn
<1>6. loss' # <<>> => loss'[1] \in 1..case'  BY <1>4, <1>5, LossIs DEF FindInv
<1>7. ArmedInv'
  <2>1. ASSUME NEW f \in armed  PROVE ArmedFor(f)'
    <3>1. ArmedFor(f)  BY <2>1 DEF FindInv, ArmedInv
    <3>2. loss # <<>> /\ loss[2] = "disarm" /\ f = Cases[probe][loss[1]].failpoint  BY <1>1, <3>1 DEF ArmedFor
    <3>3. UNCHANGED loss  BY <1>3, <3>2
    <3>4. loss[1] \in 1..case  BY <3>2 DEF FindInv, ArmedInv
    <3>5. loss'[1] = case' => at' \notin {"begin", "prepare", "arm", "alter"}
      BY <1>2, <1>5, <3>3, <3>4
    <3> QED  BY <1>1, <3>2, <3>3, <3>5 DEF ArmedFor
  <2> QED  BY <1>1, <1>5, <1>6, <2>1 DEF FindInv, ArmedInv
<1>8. CaseInv'  BY <1>5 DEF CaseInv
<1>9. FindingIsReal'
  <2>1. v = "FINDING" => ~Undisturbed \/ loss' = <<case, at>>  BY <1>1, <1>3 DEF FindInv, CaseInv
  <2> QED  BY <1>1, <1>2, <1>3, <1>4, <2>1, FindingNext DEF FindInv
<1> QED  BY <1>7, <1>8, <1>9 DEF FindInv

\* The end of a run judges nothing.
LEMMA FinishFinds == ASSUME GreenInv, FindInv, Finish  PROVE FindInv'
<1>1. at \in {"finish", "raised"} /\ at' = "done" /\ UNCHANGED <<probe, defect, case, verdicts>>
  BY DEF Finish, FinishClean
<1>2. armed' \subseteq armed /\ (UNCHANGED loss \/ Lose)  BY DEF Finish, FinishClean
<1>3. MayBeLost  BY <1>2 DEF Lose, MayLose, MayBeLost
<1>4. loss' # <<>> => loss'[1] \in 1..case'  BY <1>1, <1>3, LossIs DEF FindInv
<1>5. ArmedInv'  BY <1>1, <1>2, <1>4 DEF FindInv, ArmedInv, ArmedFor
<1>6. CaseInv'  BY <1>1 DEF CaseInv
<1>7. FindingIsReal'  BY <1>1, <1>3, FindingStays DEF FindInv
<1> QED  BY <1>5, <1>6, <1>7 DEF FindInv

\* A run that is killed with a failpoint enabled leaves a table that keeps its policy from
\* the first case of the run after it.
LEMMA KillFinds == ASSUME GreenInv, FindInv, Kill  PROVE FindInv'
<1>1. /\ at \notin {"begin", "done"} /\ defect = NoDefect /\ loss = <<>>
      /\ at' = "begin" /\ case' = 1 /\ verdicts' = <<>> /\ UNCHANGED <<probe, defect, armed, loss>>
  BY DEF Kill
<1>2. ASSUME NEW g \in world, g[2] = "uses"  PROVE Uses("old", g[3]) \in world'  BY <1>2 DEF Kill
<1>3. case \in Nat \ {0} /\ probe \in DOMAIN Cases  BY CurrentSees DEF GreenInv, Counted
<1>4. Undisturbed  BY <1>1, <1>3 DEF Undisturbed, LostIn, LeftArmed, NoDefect
<1>5. ASSUME NEW p, Uses("old", p) \in world', Has("cluster", p) \in Before(Cases[probe][1])  PROVE HeldFor(1)'
  <2>1. Uses("old", p)[1] = "old" /\ Uses("old", p)[3] = p  BY DEF Uses
  <2> QED  BY <1>1, <1>5, <2>1 DEF HeldFor
<1>6. ASSUME NEW f \in armed  PROVE HeldFor(1)'
  <2>1. ArmedFor(f) /\ probe = "stateful_object"  BY <1>6 DEF FindInv, ArmedInv
  <2>2. CASE at \in {"alter", "disarm"}
    <3>1. Failing(Current)  BY <2>1, CurrentSees
    <3>2. Uses("t", "pp_table") \in Database(world)
      <4>1. CASE at = "alter"
        <5>1. Database(world) = Database(Before(Current))  BY <1>4, <4>1 DEF FindInv, CaseInv
        <5>2. Uses("t", "pp_table")[1] = "t"  BY DEF Uses
        <5> QED  BY <3>1, <5>1, <5>2 DEF Failing, Database
      <4>2. CASE at = "disarm"
        <5>1. Database(world) = FactsOf(Current)  BY <1>4, <4>2 DEF FindInv, CaseInv
        <5> QED  BY <3>1, <5>1 DEF Failing
      <4> QED  BY <2>2, <4>1, <4>2
    <3>3. Uses("t", "pp_table") \in world  BY <3>2 DEF Database
    <3>4. Uses("t", "pp_table")[2] = "uses" /\ Uses("t", "pp_table")[3] = "pp_table"  BY DEF Uses
    <3>5. Uses("old", "pp_table") \in world'  BY <1>2, <3>3, <3>4
    <3>6. 1 \in DOMAIN Cases[probe]  BY <1>3, CasesFit
    <3>7. Failing(Cases[probe][1])  BY <1>3, <2>1, <3>6, CasesSeen DEF CaseSeen
    <3> QED  BY <1>5, <3>5, <3>7 DEF Failing
  <2>3. CASE HeldFor(1)
    <3>1. PICK g \in world : g[1] = "old" /\ Has("cluster", g[3]) \in Before(Cases[probe][1])  BY <2>3 DEF HeldFor
    <3>2. g[2] = "uses"  BY <3>1 DEF GreenInv, WorldInv, Sound
    <3> QED  BY <1>2, <1>5, <3>1, <3>2
  <2> QED  BY <1>1, <2>1, <2>2, <2>3 DEF ArmedFor
<1>7. ArmedInv'  BY <1>1, <1>6 DEF FindInv, ArmedInv, ArmedFor
<1>8. CaseInv'  BY <1>1 DEF CaseInv
<1>9. FindingIsReal'  BY <1>1 DEF FindingIsReal
<1> QED  BY <1>7, <1>8, <1>9 DEF FindInv

\* Nothing is enabled and nothing judged yet.
LEMMA FindInit == Init => FindInv
  BY DEF Init, FindInv, ArmedInv, CaseInv, FindingIsReal

\* Every step keeps the invariant, one lemma each.
LEMMA FindStep == GreenInv /\ FindInv /\ [Next]_vars => FindInv'
<1> SUFFICES ASSUME GreenInv, FindInv, [Next]_vars  PROVE FindInv'  OBVIOUS
<1>1. CASE UNCHANGED vars
  <2>1. UNCHANGED <<probe, defect, case, at, check, world, armed, reply, verdicts, loss>>  BY <1>1 DEF vars
  <2>2. ArmedInv'  BY <2>1 DEF FindInv, ArmedInv, ArmedFor, HeldFor, Current
  <2>3. CaseInv'
    BY <2>1 DEF FindInv, CaseInv, Undisturbed, LostIn, LeftArmed, Current, Standing, Wanted, Database, FactsOf, After, Before
  <2>4. MayBeLost  BY <2>1 DEF MayBeLost
  <2>5. FindingIsReal'  BY <2>1, <2>4, FindingStays DEF FindInv
  <2> QED  BY <2>2, <2>3, <2>5 DEF FindInv
<1> QED
  BY <1>1, BeginFinds, PrepareFinds, PrepareLostFinds, ArmFinds, AlterFinds, DisarmFinds, JudgeFinds, LookFinds,
     TidyFinds, FinishFinds, KillFinds
     DEF Next

\* In every state of a run: a case that neither the product nor a lost call disturbs has
\* the facts it is to have, and the answer that is wanted; and a failpoint is enabled
\* only for the case that needs it, after a lost DELETE, or where a killed run keeps the
\* run from going further.
THEOREM FindInvHolds == Spec => []FindInv
<1> QED  BY GreenInvHolds, FindInit, FindStep, PTL DEF Spec

\* FindingIsReal for every choice of probes and every distance of a lost call from the
\* defect: what another case, or a killed run, left behind is not taken for a defect,
\* but for a failpoint whose DELETE was lost.
THEOREM FindingIsRealHolds == Spec => []FindingIsReal
<1>1. FindInv => FindingIsReal  BY DEF FindInv
<1> QED  BY <1>1, FindInvHolds, PTL
-----------------------------------------------------------------------------
(* What a defect is found by *)

\* The facts after a DDL that keeps one it was to take away, or loses one.
Stale(D, f) == {g \in D : f[2] \in Single => ~(g[1] = f[1] /\ g[2] = f[2])} \cup {f}
Spoilt ==
  IF defect.how = "keep" THEN Stale(FactsOf(Current), defect.fact) ELSE FactsOf(Current) \ {defect.fact}

\* A look at facts D that does not find what it looks for.
Misses(c, D) ==
  \/ c.how \in {"show", "read"} /\ ((\E f \in c.needs : f \notin D /\ f[1] \notin {"cluster", "old"}) \/ c.forbids \cap D # {})
  \/ c.how = "drops" /\ \E f \in D : f[2] = "uses" /\ f[3] = c.policy
  \/ c.how = "in_use" /\ \A f \in D : f[2] = "uses" => f[3] # c.policy
  \/ c.how = "admin" /\ \E x \in Indexes : Has("t", x) \in D /\ RowsIn(x, D) # RowsIn("t", D)
  \/ /\ c.how = "rows" /\ c.index \in Indexes
     /\ RowsIn(c.index, D) # RowsIn("t", D) \/ (c.exact # {} /\ RowsIn("t", D) # c.exact)

\* Some look that is still to come does not, and the policy it tries is there.
Missing(n) ==
  \E m \in DOMAIN Current.checks :
    /\ m >= n /\ Misses(Current.checks[m], Spoilt)
    /\ Current.checks[m].how = "in_use" => Has("cluster", Current.checks[m].policy) \in world

\* The case with a defect that is to be noticed, and no lost call.
Hunted == defect.case = case /\ Noticeable(defect) /\ ~LostIn(case)

\* It goes wrong as the defect has it, and what goes wrong is still to be looked at.
HuntInv ==
  Hunted =>
    /\ at \in {"arm", "alter"} => Database(world) = Database(Before(Current))
    /\ at \in {"disarm", "judge"} => Decided = "FINDING" \/ (Looks /\ Database(world) = Spoilt /\ Missing(1))
    /\ at = "look" => Database(world) = Spoilt /\ Missing(check)
    /\ at = "tidy" => reply = Failed

DefectInv == HuntInv /\ DefectIsFound

\* The run's own facts, seen from the cluster.
LEMMA OwnIs ==
  ASSUME NEW D, Database(world) = D
  PROVE  /\ \A f : f \in D <=> f \in world /\ f[1] \notin {"cluster", "old"}
         /\ \A x \in Indexes \cup {"t"} : RowsOf(x) = RowsIn(x, D)
         /\ \A x : Has("t", x) \in world <=> Has("t", x) \in D
<1>1. \A f : f \in D <=> f \in world /\ f[1] \notin {"cluster", "old"}  BY DEF Database
<1>2. \A x \in Indexes \cup {"t"} : RowsOf(x) = RowsIn(x, D)
  <2>1. \A x \in Indexes \cup {"t"} : x \notin {"cluster", "old"}  BY DEF Indexes
  <2> QED  BY <1>1, <2>1 DEF RowsOf, RowsIn
<1>3. \A x : Has("t", x) \in world <=> Has("t", x) \in D
  <2>1. \A x : Has("t", x)[1] = "t"  BY DEF Has
  <2> QED  BY <1>1, <2>1
<1> QED  BY <1>1, <1>2, <1>3

\* A look that is to miss something in the cluster does.
LEMMA MissFails ==
  ASSUME GreenInv, defect # NoDefect, NEW D, Database(world) = D, NEW c, Misses(c, D),
         c.how = "in_use" => Has("cluster", c.policy) \in world
  PROVE  ~Passes(c)
<1>1. /\ \A f : f \in D <=> f \in world /\ f[1] \notin {"cluster", "old"}
      /\ \A x \in Indexes \cup {"t"} : RowsOf(x) = RowsIn(x, D)
      /\ \A x : Has("t", x) \in world <=> Has("t", x) \in D
  BY OwnIs
<1>2. Sound(world) /\ Old(world) = {}  BY DEF GreenInv, WorldInv
<1>3. CASE c.how \in {"show", "read"} /\ ((\E f \in c.needs : f \notin D /\ f[1] \notin {"cluster", "old"}) \/ c.forbids \cap D # {})
  <2>1. ~Sees(c)  BY <1>1, <1>3 DEF Sees
  <2> QED  BY <1>3, <2>1 DEF Passes
<1>4. CASE c.how = "drops" /\ \E f \in D : f[2] = "uses" /\ f[3] = c.policy
  <2>1. Referenced(c.policy, world)  BY <1>1, <1>4 DEF Referenced
  <2> QED  BY <1>4, <2>1 DEF Passes, DropFails
<1>5. CASE c.how = "in_use" /\ \A f \in D : f[2] = "uses" => f[3] # c.policy
  <2>1. ASSUME NEW f \in world, f[2] = "uses", f[3] = c.policy  PROVE FALSE
    <3>1. f[1] # "old"  BY <1>2 DEF Old
    <3>2. f[1] # "cluster"
      <4> SUFFICES ASSUME f[1] = "cluster"  PROVE FALSE  OBVIOUS
      <4>1. f = Has("cluster", f[3])  BY <1>2 DEF Sound
      <4>2. f[2] = "has"  BY <4>1 DEF Has
      <4> QED  BY <2>1, <4>2
    <3> QED  BY <1>1, <1>5, <2>1, <3>1, <3>2
  <2>2. ~DropFails(c.policy)  BY <1>5, <2>1 DEF DropFails, Referenced
  <2> QED  BY <1>5, <2>2 DEF Passes
<1>6. CASE c.how = "admin" /\ \E x \in Indexes : Has("t", x) \in D /\ RowsIn(x, D) # RowsIn("t", D)
  BY <1>1, <1>6 DEF Passes
<1>7. CASE /\ c.how = "rows" /\ c.index \in Indexes
           /\ RowsIn(c.index, D) # RowsIn("t", D) \/ (c.exact # {} /\ RowsIn("t", D) # c.exact)
  BY <1>1, <1>7 DEF Passes
<1> QED  BY <1>3, <1>4, <1>5, <1>6, <1>7 DEF Misses

\* The look that tells a kept fact misses.
LEMMA KeptMisses ==
  ASSUME NEW B, NEW D, NEW c, Sight(c, B, D), NEW f, f[1] \notin {"cluster", "old"}, TellsKept(c, f)
  PROVE  Misses(c, Stale(D, f))
<1> DEFINE E == Stale(D, f)
<1> SUFFICES Misses(c, E)  OBVIOUS
<1>1. f \in E /\ \A g : g \in E <=> g = f \/ (g \in D /\ (f[2] \in Single => ~(g[1] = f[1] /\ g[2] = f[2])))
  BY DEF Stale
<1> HIDE DEF E
<1>2. CASE /\ c.how \in {"show", "read"}
           /\ f \in c.forbids \/ \E g \in c.needs : g # f /\ f[2] \in Single /\ g[1] = f[1] /\ g[2] = f[2]
  <2>1. CASE f \in c.forbids  BY <1>1, <1>2, <2>1 DEF Misses
  <2>2. CASE \E g \in c.needs : g # f /\ f[2] \in Single /\ g[1] = f[1] /\ g[2] = f[2]
    <3>1. PICK g \in c.needs : g # f /\ f[2] \in Single /\ g[1] = f[1] /\ g[2] = f[2]  BY <2>2
    <3>2. g \notin E /\ g[1] \notin {"cluster", "old"}  BY <1>1, <3>1
    <3> QED  BY <1>2, <3>2 DEF Misses
  <2> QED  BY <1>2, <2>1, <2>2
<1>3. CASE c.how = "drops" /\ f[2] = "uses" /\ f[3] = c.policy  BY <1>1, <1>3 DEF Misses
<1>4. CASE c.how = "rows" /\ f[2] = "row" /\ f[1] \in {"t", c.index} /\ c.exact # {} /\ f[3] \notin c.exact
  <2>1. c.index \in Indexes /\ RowsIn(c.index, D) = c.exact /\ RowsIn("t", D) = c.exact  BY <1>4 DEF Sight
  <2>2. f[2] \notin Single  BY <1>4 DEF Single
  <2>3. \A x : x # f[1] => RowsIn(x, E) = RowsIn(x, D)  BY <1>1, <2>2 DEF RowsIn
  <2>4. f[3] \in RowsIn(f[1], E)  BY <1>1, <1>4 DEF RowsIn
  <2>5. CASE f[1] = "t"  BY <1>4, <2>1, <2>4, <2>5 DEF Misses
  <2>6. CASE f[1] # "t"  BY <1>4, <2>1, <2>3, <2>4, <2>6 DEF Misses
  <2> QED  BY <2>5, <2>6
<1> QED  BY <1>2, <1>3, <1>4 DEF TellsKept

\* And so does the one that tells a lost fact.
LEMMA LostMisses ==
  ASSUME NEW B, NEW D, Own(D), NEW c, Sight(c, B, D), NEW f \in D, TellsLost(c, f, D)
  PROVE  Misses(c, D \ {f})
<1> DEFINE E == D \ {f}
<1> SUFFICES Misses(c, E)  OBVIOUS
<1>1. \A g : g \in E <=> g \in D /\ g # f  OBVIOUS
<1>2. f[1] \notin {"cluster", "old"}  BY DEF Own
<1> HIDE DEF E
<1>3. CASE c.how \in {"show", "read"} /\ f \in c.needs  BY <1>1, <1>2, <1>3 DEF Misses
<1>4. CASE c.how = "in_use" /\ f[2] = "uses" /\ f[3] = c.policy /\ \A g \in D : g[2] = "uses" /\ g[3] = c.policy => g = f
  BY <1>1, <1>4 DEF Misses
<1>5. CASE /\ (c.how = "rows" /\ f[1] \in {"t", c.index}) \/ (c.how = "admin" /\ f[1] \in Indexes /\ Has("t", f[1]) \in D)
           /\ f[2] = "row" /\ \A g \in D : g[1] = f[1] /\ g[2] = "row" /\ g[3] = f[3] => g = f
  <2>1. f[3] \in RowsIn(f[1], D) /\ f[3] \notin RowsIn(f[1], E)  BY <1>1, <1>5 DEF RowsIn
  <2>2. \A x : x # f[1] => RowsIn(x, E) = RowsIn(x, D)  BY <1>1 DEF RowsIn
  <2>3. "t" \notin Indexes  BY DEF Indexes
  <2>4. \A x : Has("t", x) \in D => Has("t", x) \in E
    <3>1. \A x : Has("t", x)[2] = "has"  BY DEF Has
    <3> QED  BY <1>1, <1>5, <3>1
  <2>5. CASE c.how = "rows" /\ f[1] \in {"t", c.index}
    <3>1. c.index \in Indexes /\ RowsIn(c.index, D) = RowsIn("t", D)  BY <2>5 DEF Sight
    <3> QED  BY <2>1, <2>2, <2>3, <2>5, <3>1 DEF Misses
  <2>6. CASE c.how = "admin" /\ f[1] \in Indexes /\ Has("t", f[1]) \in D
    <3>1. RowsIn(f[1], D) = RowsIn("t", D)  BY <2>6 DEF Sight
    <3> QED  BY <2>1, <2>2, <2>3, <2>4, <2>6, <3>1 DEF Misses
  <2> QED  BY <1>5, <2>5, <2>6
<1> QED  BY <1>3, <1>4, <1>5 DEF TellsLost

\* What may be wrong with the DDL of a case.
LEMMA DefectIs ==
  ASSUME GreenInv, defect.case = case, Noticeable(defect)
  PROVE  /\ defect # NoDefect
         /\ \/ defect.how = "accept" /\ Current.expected = "block"
            \/ defect.how = "family" /\ Current.expected = "block" /\ Current.family
            \/ defect.how = "refuse" /\ Current.expected \in {"rewrite", "rollback"}
            \/ defect.how = "keep" /\ defect.fact \in Current.gone \cup Current.extra
            \/ /\ defect.how = "lose" /\ defect.fact \in FactsOf(Current) /\ Asked(Current.owner, Current.gone, Current.come, defect.fact)
               /\ ~(Current.expected = "block" /\ Current.checks = <<>>)
<1>1. defect # NoDefect  BY CurrentSees DEF NoDefect
<1>2. PICK c \in DOMAIN Cases[probe] : defect \in DefectsOf(probe, c)  BY <1>1 DEF GreenInv, Counted, Defects
<1>3. c = case /\ Cases[probe][c] = Current  BY <1>2 DEF DefectsOf, Current
<1> DEFINE k == Current
<1>4. \/ defect.how \in (IF k.expected = "block" THEN {"accept", "family"} ELSE {"refuse"})
      \/ defect.how = "keep" /\ defect.fact \in k.gone \cup k.extra
      \/ /\ defect.how = "lose" /\ defect.fact \in FactsOf(k) /\ defect.fact[1] # "db"
         /\ ~(defect.fact \in k.come /\ defect.fact[2] \in Single)
         /\ ~(k.expected = "block" /\ k.checks = <<>>)
  BY <1>2, <1>3 DEF DefectsOf, FactsOf
<1>5. /\ defect.how = "family" => k.family
      /\ defect.how = "refuse" => k.expected \in {"rewrite", "rollback"}
      /\ defect.how = "lose" =>
           defect.fact[2] \in Kept(k) \/ (defect.fact \in k.come /\ ~(defect.fact = Partitioned /\ k.owner = "index"))
  BY <1>3 DEF Noticeable
<1> QED  BY <1>1, <1>4, <1>5 DEF Asked, KeptBy, Kept

\* The facts after a DDL that keeps a fact or loses one.
LEMMA DoneIsSpoilt ==
  ASSUME GreenInv, at = "alter", defect.case = case, Noticeable(defect), defect.how \in {"keep", "lose"},
         Database(world) = Database(Before(Current))
  PROVE  /\ Database(Done) = Spoilt
         /\ \A p : Has("cluster", p) \in Before(Current) => Has("cluster", p) \in Done
<1> DEFINE k == Current
           f == defect.fact
           meant == (world \ k.gone) \cup k.come
           D == FactsOf(k)
<1>1. \A g \in k.gone \cup k.come \cup k.extra : g[1] \notin {"cluster", "old"}
  BY CurrentSees DEF WellMade, ChangeFits
<1>2. f[1] \notin {"cluster", "old"}  BY <1>1, DefectIs DEF FactsOf, Database
<1>3. Database(meant) = D
  <2>1. \A g : g \in Database(world) <=> g \in Database(Before(k))  OBVIOUS
  <2>2. \A g : g[1] \notin {"cluster", "old"} => (g \in world <=> g \in Before(k))  BY <2>1 DEF Database
  <2>3. \A g : g[1] \notin {"cluster", "old"} => (g \in meant <=> g \in After(k))  BY <2>2 DEF After
  <2> HIDE DEF meant
  <2> QED  BY <2>3 DEF Database, FactsOf
<1>4. ASSUME NEW p, Has("cluster", p) \in Before(k)
      PROVE  Has("cluster", p) \in meant /\ Has("cluster", p)[1] = "cluster"
  <2>1. Has("cluster", p) \in world  BY <1>4 DEF GreenInv, WorldInv
  <2>2. Has("cluster", p)[1] = "cluster"  BY DEF Has
  <2>3. Has("cluster", p) \notin k.gone  BY <1>1, <2>2
  <2> QED  BY <2>1, <2>2, <2>3
<1>5. meant \subseteq world \cup k.come  OBVIOUS
<1>6. \A g : g \in D <=> g \in meant /\ g[1] \notin {"cluster", "old"}  BY <1>3 DEF Database
<1>7. CASE defect.how = "keep"
  <2>1. Done = (meant \ Slot(f)) \cup {f}  BY <1>7 DEF Done, Defective
  <2>2. Spoilt = Stale(D, f)  BY <1>7 DEF Spoilt
  <2> HIDE DEF meant, D
  <2>3. \A g \in meant : g \in Slot(f) <=> (f[2] \in Single /\ g[1] = f[1] /\ g[2] = f[2])  BY <1>5 DEF Slot
  <2>4. \A g : g \in Database(Done) <=> g \in Spoilt  BY <1>2, <1>6, <2>1, <2>2, <2>3 DEF Database, Stale
  <2>5. Database(Done) = Spoilt  BY <2>4
  <2>6. \A p : Has("cluster", p) \in Before(k) => Has("cluster", p) \in Done  BY <1>2, <1>4, <2>1, <2>3
  <2> QED  BY <2>5, <2>6
<1>8. CASE defect.how = "lose"
  <2>1. Done = meant \ {f}  BY <1>8 DEF Done, Defective
  <2>2. Spoilt = D \ {f}  BY <1>8 DEF Spoilt
  <2> HIDE DEF meant, D
  <2>3. \A g : g \in Database(Done) <=> g \in Spoilt  BY <1>2, <1>6, <2>1, <2>2 DEF Database
  <2>4. Database(Done) = Spoilt  BY <2>3
  <2>5. \A p : Has("cluster", p) \in Before(k) => Has("cluster", p) \in Done  BY <1>2, <1>4, <2>1
  <2> QED  BY <2>4, <2>5
<1> QED  BY <1>7, <1>8

\* Some look of the case misses what the defect did, and the policy it tries was made.
LEMMA SomeLookMisses ==
  ASSUME GreenInv, defect.case = case, Noticeable(defect), defect.how \in {"keep", "lose"}
  PROVE  /\ Current.checks # <<>>
         /\ \E m \in DOMAIN Current.checks :
              /\ Misses(Current.checks[m], Spoilt)
              /\ Current.checks[m].how = "in_use" => Has("cluster", Current.checks[m].policy) \in Before(Current)
<1> DEFINE k == Current
           f == defect.fact
           D == FactsOf(k)
           B == Before(k)
<1>1. Telling(k) /\ Seeing(k.checks, B, D) /\ WellMade(k)  BY CurrentTells, CurrentSees DEF SeenCase
<1>2. \E c \in LooksOf(k.checks) : Misses(c, Spoilt)
  <2>1. CASE defect.how = "keep"
    <3>1. f \in k.gone \cup k.extra  BY <2>1, DefectIs
    <3>2. f[1] \notin {"cluster", "old"}  BY <1>1, <3>1 DEF WellMade, ChangeFits
    <3>3. PICK c \in LooksOf(k.checks) : TellsKept(c, f)  BY <1>1, <3>1 DEF Telling, Tells
    <3>4. Sight(c, B, D)  BY <1>1, <3>3 DEF LooksOf, Seeing
    <3>5. Spoilt = Stale(D, f)  BY <2>1 DEF Spoilt
    <3> HIDE DEF D, B, k, f
    <3>6. Misses(c, Stale(D, f))  BY <3>2, <3>3, <3>4, KeptMisses
    <3> QED  BY <3>3, <3>5, <3>6
  <2>2. CASE defect.how = "lose"
    <3>1. f \in D /\ Asked(k.owner, k.gone, k.come, f)  BY <2>2, DefectIs
    <3>2. k.checks # <<>>
      <4>1. ~(k.expected = "block" /\ k.checks = <<>>)  BY <2>2, DefectIs
      <4> QED  BY <1>1, <4>1 DEF WellMade, Listed
    <3>3. PICK c \in LooksOf(k.checks) : TellsLost(c, f, D)  BY <1>1, <3>1, <3>2 DEF Telling, Tells
    <3>4. Sight(c, B, D)  BY <1>1, <3>3 DEF LooksOf, Seeing
    <3>5. Spoilt = D \ {f}  BY <2>2 DEF Spoilt
    <3>6. Own(D)  BY DEF Own, FactsOf, Database
    <3> HIDE DEF D, B, k, f
    <3>7. Misses(c, D \ {f})  BY <3>1, <3>3, <3>4, <3>6, LostMisses
    <3> QED  BY <3>3, <3>5, <3>7
  <2> QED  BY <2>1, <2>2
<1>3. PICK m \in DOMAIN k.checks : Misses(k.checks[m], Spoilt)  BY <1>2 DEF LooksOf
<1>4. k.checks # <<>>  BY <1>3
<1>5. ASSUME k.checks[m].how = "in_use"  PROVE Has("cluster", k.checks[m].policy) \in B
  <2>1. Sight(k.checks[m], B, D)  BY <1>1, <1>3 DEF Seeing
  <2>2. PICK g \in D : g[2] = "uses" /\ g[3] = k.checks[m].policy  BY <1>5, <2>1 DEF Sight
  <2>3. g \in B \/ g \in k.come  BY <2>2 DEF FactsOf, Database, After
  <2>4. CASE g \in k.come
    <3>1. \E n \in DOMAIN k.setup : Has("cluster", g[3]) \in k.setup[n]
      BY <1>1, <2>2, <2>4 DEF WellMade, ChangeFits
    <3> QED  BY <2>2, <3>1 DEF Before
  <2>5. CASE g \in B
    <3>1. PICK n \in DOMAIN k.setup : g \in k.setup[n]  BY <2>5 DEF Before
    <3>2. Len(k.setup) \in Nat /\ DOMAIN k.setup = 1..Len(k.setup)  BY <1>1 DEF WellMade, SetupFits
    <3>3. \E i \in 1..n : Has("cluster", g[3]) \in k.setup[i]  BY <1>1, <2>2, <3>1 DEF WellMade, SetupFits
    <3>4. \A i \in 1..n : i \in DOMAIN k.setup  BY <3>1, <3>2
    <3> QED  BY <2>2, <3>3, <3>4 DEF Before
  <2> QED  BY <2>3, <2>4, <2>5
<1> QED  BY <1>3, <1>4, <1>5

\* What is said of a case before the step that lost no call in it.
LEMMA HuntedBefore ==
  ASSUME UNCHANGED <<probe, defect, case>>, MayBeLost, Hunted'
  PROVE  Hunted /\ (at \notin Outside => UNCHANGED loss)
<1>1. ~LostIn(case') /\ ~LostIn(case)'  BY DEF Hunted, MayBeLost, LostIn
<1>2. Noticeable(defect)  BY DEF Hunted, Noticeable, Kept
<1>3. ASSUME loss' = <<case, at>>, at \notin Outside  PROVE FALSE
  <2>1. loss' # <<>> /\ loss'[1] = case' /\ loss'[2] = at  BY <1>3
  <2> QED  BY <1>1, <1>3, <2>1 DEF LostIn, Outside
<1> QED  BY <1>1, <1>2, <1>3 DEF Hunted, MayBeLost

\* A defect that was found still is.
LEMMA FoundStays ==
  ASSUME DefectIsFound, UNCHANGED <<probe, defect, verdicts>>, MayBeLost
  PROVE  DefectIsFound'
<1>1. \A i : LostIn(i) => LostIn(i)'  BY LostStays
<1>2. Noticeable(defect)' => Noticeable(defect)  BY DEF Noticeable, Kept
<1>3. (defect # NoDefect)' <=> defect # NoDefect  BY DEF NoDefect
<1> QED  BY <1>1, <1>2, <1>3 DEF DefectIsFound

\* The verdict of the case with the defect finds it.
LEMMA FoundNext ==
  ASSUME GreenInv, DefectIsFound, UNCHANGED <<probe, defect>>, MayBeLost,
         at \in WithinCase \cup {"prepare"}, NEW v \in Verdicts, Verdict(v),
         Hunted /\ UNCHANGED loss => v = Failed
  PROVE  DefectIsFound'
<1>1. /\ DOMAIN verdicts' = 1..case /\ DOMAIN verdicts = 1..(case - 1)
      /\ verdicts'[case] = v /\ \A i \in 1..(case - 1) : verdicts'[i] = verdicts[i]
  BY VerdictAppends DEF GreenInv
<1>2. case \in Nat \ {0}  BY CurrentSees
<1>3. \A i : LostIn(i) => LostIn(i)'  BY LostStays
<1>4. Noticeable(defect)' => Noticeable(defect)  BY DEF Noticeable, Kept
<1>5. (defect # NoDefect)' <=> defect # NoDefect  BY DEF NoDefect
<1> DEFINE c == defect.case
<1>6. ASSUME defect # NoDefect, c \in 1..case, Noticeable(defect), ~LostIn(c)'
      PROVE  verdicts'[c] = IF Cases[probe][c].expected = "known_control" THEN "KNOWN" ELSE "FINDING"
  <2>1. CASE c = case
    <3>1. Hunted  BY <1>3, <1>6, <2>1 DEF Hunted
    <3>2. loss' # <<case, at>>
      <4> SUFFICES ASSUME loss' = <<case, at>>  PROVE FALSE  OBVIOUS
      <4>1. loss' # <<>> /\ loss'[1] = case /\ loss'[2] = at  OBVIOUS
      <4>2. at \notin Outside  BY DEF WithinCase, Outside
      <4> QED  BY <1>6, <2>1, <4>1, <4>2 DEF LostIn, Outside
    <3>3. v = Failed  BY <3>1, <3>2 DEF MayBeLost
    <3> QED  BY <1>1, <2>1, <3>3 DEF Failed, Current
  <2>2. CASE c # case
    <3>1. c \in 1..(case - 1)  BY <1>2, <1>6, <2>2
    <3> QED  BY <1>1, <1>3, <1>6, <3>1 DEF DefectIsFound
  <2> QED  BY <2>1, <2>2
<1> QED  BY <1>1, <1>4, <1>5, <1>6 DEF DefectIsFound

\* A run in which something is held has no defect.
LEMMA HeldIsSound ==
  ASSUME GreenInv, NEW i, HeldFor(i)
  PROVE  ~Hunted
<1>1. Old(world) # {}  BY DEF HeldFor, Old
<1>2. defect = NoDefect  BY <1>1 DEF GreenInv, WorldInv
<1> QED  BY <1>2, CurrentSees DEF Hunted, NoDefect

\* The first statements judge nothing.
LEMMA BeginHunts == ASSUME GreenInv, DefectInv, Begin  PROVE DefectInv'
<1>1. at' \in {"prepare", "done"} /\ UNCHANGED <<probe, defect, case, verdicts>>  BY DEF Begin
<1>2. MayBeLost  BY DEF Begin, Lose, MayLose, MayBeLost
<1>3. HuntInv'  BY <1>1 DEF HuntInv
<1>4. DefectIsFound'  BY <1>1, <1>2, FoundStays DEF DefectInv
<1> QED  BY <1>3, <1>4 DEF DefectInv

\* An exception before the DDL is of a lost call, or of a killed run.
LEMMA RaiseHunts ==
  ASSUME GreenInv, DefectInv, at \in {"prepare", "arm"}, Raise, UNCHANGED <<probe, defect>>, MayBeLost,
         HeldFor(case) \/ loss' = <<case, at>>
  PROVE  DefectInv'
<1>1. UNCHANGED <<case, verdicts>> /\ at' \in {"tidy", "raised"}  BY DEF Raise
<1>2. ~Hunted'
  <2> SUFFICES ASSUME Hunted'  PROVE FALSE  OBVIOUS
  <2>1. Hunted /\ UNCHANGED loss  BY <1>1, HuntedBefore DEF Outside
  <2>2. CASE HeldFor(case)  BY <2>1, <2>2, HeldIsSound
  <2>3. CASE loss' = <<case, at>>
    <3>1. loss' # <<>> /\ loss'[1] = case' /\ loss'[2] = at  BY <1>1, <2>3
    <3> QED  BY <3>1 DEF Hunted, LostIn
  <2> QED  BY <2>2, <2>3
<1>3. HuntInv'  BY <1>2 DEF HuntInv
<1>4. DefectIsFound'  BY <1>1, FoundStays DEF DefectInv
<1> QED  BY <1>3, <1>4 DEF DefectInv

\* Nor is the case with the defect skipped for another reason.
LEMMA UnsupportedHunts ==
  ASSUME GreenInv, DefectInv, at = "prepare", Unsupported, UNCHANGED <<probe, defect>>, MayBeLost,
         HeldFor(case) \/ loss' = <<case, "prepare">>
  PROVE  DefectInv'
<1>1. CASE Raise  BY <1>1, RaiseHunts
<1>2. CASE Verdict("SKIP")
  <2>1. at' \in {"prepare", "finish"}  BY <1>2, VerdictGoesOn
  <2>2. HuntInv'  BY <2>1 DEF HuntInv
  <2>3. "SKIP" \in Verdicts /\ at \in WithinCase \cup {"prepare"}  BY DEF Verdicts
  <2>4. ~(Hunted /\ UNCHANGED loss)
    <3> SUFFICES ASSUME Hunted, UNCHANGED loss  PROVE FALSE  OBVIOUS
    <3>1. loss = <<case, "prepare">>  BY HeldIsSound
    <3>2. loss # <<>> /\ loss[1] = case /\ loss[2] = "prepare"  BY <3>1
    <3> QED  BY <3>2 DEF Hunted, LostIn
  <2>5. DefectIsFound'  BY <1>2, <2>3, <2>4, FoundNext DEF DefectInv
  <2> QED  BY <2>2, <2>5 DEF DefectInv
<1> QED  BY <1>1, <1>2 DEF Unsupported

\* A setup, in whatever a cleanup left.
LEMMA SetUpHunts ==
  ASSUME GreenInv, DefectInv, at = "prepare", UNCHANGED <<probe, defect>>, NEW w, Carries(world, w), SetUp(w),
         \/ UNCHANGED loss /\ w = Cleaned(world)
         \/ loss = <<>> /\ loss' = <<case, "prepare">>
  PROVE  DefectInv'
<1>0. MayBeLost  BY DEF MayBeLost
<1>1. SetupFits(Current.setup)  BY CurrentSees DEF WellMade
<1>2. CASE Clashes(w) = {}
  <2>1. /\ UNCHANGED <<case, verdicts>> /\ at' \in {"alter", "arm"}
        /\ world' = Made(w, Len(Current.setup))
    BY <1>2 DEF SetUp
  <2>2. HuntInv'
    <3> SUFFICES ASSUME Hunted'  PROVE Database(world') = Database(Before(Current))
      BY <2>1 DEF HuntInv, Current, Before, Database
    <3>1. Hunted /\ UNCHANGED loss  BY <1>0, <2>1, HuntedBefore DEF Outside
    <3>2. loss' # <<case, "prepare">>
      <4>1. \A a, b : <<a, b>> # <<>>  OBVIOUS
      <4> SUFFICES ASSUME loss' = <<case, "prepare">>  PROVE FALSE  OBVIOUS
      <4>2. loss' # <<>> /\ loss'[1] = case' /\ loss'[2] = "prepare"  BY <2>1
      <4> QED  BY <4>2 DEF Hunted, LostIn
    <3> QED  BY <1>1, <2>1, <3>2, MadeIs
  <2>3. DefectIsFound'  BY <1>0, <2>1, FoundStays DEF DefectInv
  <2> QED  BY <2>2, <2>3 DEF DefectInv
<1>3. CASE Clashes(w) # {}
  <2>1. Unsupported  BY <1>3 DEF SetUp
  <2>2. HeldFor(case) \/ loss' = <<case, "prepare">>  BY <1>3, ClashIsHeld
  <2> QED  BY <1>0, <2>1, <2>2, UnsupportedHunts
<1> QED  BY <1>2, <1>3

\* Cleanup and setup, with and without a lost call.
LEMMA PrepareHunts == ASSUME GreenInv, DefectInv, Prepare \/ PrepareLost  PROVE DefectInv'
<1>1. at = "prepare" /\ UNCHANGED <<probe, defect>>  BY DEF Prepare, PrepareLost
<1>2. Sound(world)  BY DEF GreenInv, WorldInv
<1>3. CASE Prepare
  <2>1. SetUp(Cleaned(world)) /\ UNCHANGED loss  BY <1>3 DEF Prepare
  <2>2. Carries(world, Cleaned(world))  BY <1>2, CleanedCarries
  <2> QED  BY <1>1, <2>1, <2>2, SetUpHunts
<1>4. CASE PrepareLost
  <2>1. loss = <<>> /\ loss' = <<case, "prepare">>  BY <1>1, <1>4 DEF PrepareLost, Lose, MayLose
  <2>2. MayBeLost  BY <1>1, <2>1 DEF MayBeLost
  <2>3. ASSUME NEW w \in CleanedLost(world), SetUp(w)  PROVE DefectInv'
    <3>1. Carries(world, w)  BY <1>2, CleanedLostCarries
    <3> QED  BY <1>1, <2>1, <2>3, <3>1, SetUpHunts
  <2>4. CASE Raise  BY <1>1, <2>1, <2>2, <2>4, RaiseHunts
  <2>5. CASE SetUpLost(Cleaned(world))
    <3>1. Unsupported  BY <2>5 DEF SetUpLost
    <3> QED  BY <1>1, <2>1, <2>2, <3>1, UnsupportedHunts
  <2> QED  BY <1>4, <2>3, <2>4, <2>5 DEF PrepareLost
<1> QED  BY <1>3, <1>4

\* Enabling a failpoint changes no fact.
LEMMA ArmHunts == ASSUME GreenInv, DefectInv, Arm  PROVE DefectInv'
<1>1. at = "arm" /\ UNCHANGED <<probe, defect, world>>  BY DEF Arm
<1>2. CASE at' = "alter" /\ UNCHANGED <<case, verdicts, reply, loss>>
  <2>1. MayBeLost  BY <1>2 DEF MayBeLost
  <2>2. HuntInv'
    <3> SUFFICES ASSUME Hunted'  PROVE Database(world') = Database(Before(Current))
      BY <1>1, <1>2 DEF HuntInv, Current, Before, Database
    <3>1. Hunted  BY <1>1, <1>2, <2>1, HuntedBefore
    <3>2. Database(world) = Database(Before(Current))  BY <1>1, <3>1 DEF DefectInv, HuntInv
    <3> QED  BY <1>1, <3>2
  <2>3. DefectIsFound'  BY <1>1, <1>2, <2>1, FoundStays DEF DefectInv
  <2> QED  BY <2>2, <2>3 DEF DefectInv
<1>3. CASE Lose /\ Raise
  <2>1. loss' = <<case, at>> /\ MayBeLost  BY <1>3 DEF Lose, MayLose, MayBeLost
  <2> QED  BY <1>1, <1>3, <2>1, RaiseHunts
<1> QED  BY <1>2, <1>3 DEF Arm

\* The answer to the DDL, or what it did, tells that something is wrong.
LEMMA AnswerTells ==
  ASSUME GreenInv, at = "alter", defect.case = case, Noticeable(defect),
         Database(world) = Database(Before(Current)), UNCHANGED <<probe, case, defect>>,
         reply' = Answered.reply, world' = Answered.world
  PROVE  (Decided = "FINDING" \/ (Looks /\ Database(world) = Spoilt /\ Missing(1)))'
<1> DEFINE k == Current
<1>1. Current' = k  BY DEF Current
<1>2. /\ k.expected = "block" /\ k.known => ~k.family /\ k.checks = <<>>
      /\ k.failpoint # "none" => k.expected \in {"rewrite", "rollback"}
  BY CurrentTells
<1>3. defect.case = case  OBVIOUS
<1>4. CASE defect.how = "accept" /\ k.expected = "block"
  <2>1. reply' = "ok"  BY <1>4 DEF Answered, Defective
  <2> QED  BY <1>1, <1>4, <2>1 DEF Decided
<1>5. CASE defect.how = "family" /\ k.expected = "block" /\ k.family
  <2>1. reply' = "other" /\ ~k.known /\ k.family  BY <1>2, <1>5 DEF Answered, Defective
  <2> QED  BY <1>1, <1>5, <2>1 DEF Decided
<1>6. CASE defect.how = "refuse" /\ k.expected \in {"rewrite", "rollback"}
  <2>1. reply' = "other"  BY <1>6 DEF Answered, Defective
  <2> QED  BY <1>1, <1>6, <2>1 DEF Decided
<1>7. CASE defect.how \in {"keep", "lose"}
  <2>1. ~Defective("accept") /\ ~Defective("family") /\ ~Defective("refuse")  BY <1>7 DEF Defective
  <2>2. k.checks # <<>>  BY <1>7, SomeLookMisses
  <2>3. CASE ~(k.expected \notin {"block", "rollback"} /\ Contaminated)
    <3>1. world' = Done /\ reply' = Wanted  BY <2>1, <2>3 DEF Answered, Wanted
    <3>2. Spoilt' = Spoilt  BY <1>1 DEF Spoilt, FactsOf, After, Before, Database
    <3>3. Database(world') = Spoilt' /\ \A p : Has("cluster", p) \in Before(k) => Has("cluster", p) \in world'
      BY <1>7, <3>1, <3>2, DoneIsSpoilt
    <3>4. Missing(1)'
      <4>1. PICK m \in DOMAIN k.checks :
              /\ Misses(k.checks[m], Spoilt)
              /\ k.checks[m].how = "in_use" => Has("cluster", k.checks[m].policy) \in Before(k)
        BY <1>7, SomeLookMisses
      <4>2. m >= 1  BY <2>2, CurrentSees DEF WellMade, Listed
      <4> QED  BY <1>1, <3>2, <3>3, <4>1, <4>2 DEF Missing
    <3>5. Looks'
      <4>1. CASE k.expected = "block"
        <5>1. reply' = "refused" /\ ~k.known  BY <1>2, <2>2, <3>1, <4>1 DEF Wanted
        <5> QED  BY <1>1, <2>2, <4>1, <5>1 DEF Looks, Decided
      <4>2. CASE k.expected = "rollback"  BY <1>1, <2>2, <3>1, <4>2 DEF Looks, Decided, Wanted
      <4>3. CASE k.expected \notin {"block", "rollback"}  BY <1>1, <3>1, <4>3 DEF Looks, Decided, Wanted
      <4> QED  BY <4>1, <4>2, <4>3
    <3>6. Database(world)' = Spoilt'  BY <3>3 DEF Database
    <3> QED  BY <3>4, <3>5, <3>6
  <2>4. CASE k.expected \notin {"block", "rollback"} /\ Contaminated
    <3>1. reply' = "refused"  BY <2>1, <2>4 DEF Answered
    <3>2. k.expected = "rewrite"  BY <1>2, <2>4 DEF Contaminated
    <3> QED  BY <1>1, <3>1, <3>2 DEF Decided
  <2> QED  BY <2>3, <2>4
<1> QED  BY <1>4, <1>5, <1>6, <1>7, DefectIs

\* The DDL of the case with the defect.
LEMMA AlterHunts == ASSUME GreenInv, DefectInv, Alter  PROVE DefectInv'
<1>1. at = "alter" /\ at' \in {"judge", "disarm"} /\ UNCHANGED <<probe, defect, case, check, verdicts>>
  BY DEF Alter, AfterAlter
<1>2. MayBeLost  BY DEF Alter, Lose, MayLose, MayBeLost
<1>3. HuntInv'
  <2> SUFFICES ASSUME Hunted'
               PROVE  (Decided = "FINDING" \/ (Looks /\ Database(world) = Spoilt /\ Missing(1)))'
    BY <1>1 DEF HuntInv
  <2>1. Hunted  BY <1>1, <1>2, HuntedBefore
  <2>2. Database(world) = Database(Before(Current))  BY <1>1, <2>1 DEF DefectInv, HuntInv
  <2>3. loss' # <<case, at>>
    <3> SUFFICES ASSUME loss' = <<case, at>>  PROVE FALSE  OBVIOUS
    <3>1. loss' # <<>> /\ loss'[1] = case' /\ loss'[2] = "alter"  BY <1>1
    <3> QED  BY <3>1 DEF Hunted, LostIn
  <2>4. world' = Answered.world /\ reply' = Answered.reply  BY <2>3 DEF Alter, Lose
  <2> QED  BY <1>1, <2>1, <2>2, <2>4, AnswerTells DEF Hunted
<1>4. DefectIsFound'  BY <1>1, <1>2, FoundStays DEF DefectInv
<1> QED  BY <1>3, <1>4 DEF DefectInv

\* Disabling the failpoint changes no fact.
LEMMA DisarmHunts == ASSUME GreenInv, DefectInv, Disarm  PROVE DefectInv'
<1>1. at = "disarm" /\ at' = "judge" /\ UNCHANGED <<probe, defect, case, check, world, reply, verdicts>>
  BY DEF Disarm
<1>2. MayBeLost  BY DEF Disarm, Lose, MayLose, MayBeLost
<1>3. HuntInv'
  <2> SUFFICES ASSUME Hunted'
               PROVE  (Decided = "FINDING" \/ (Looks /\ Database(world) = Spoilt /\ Missing(1)))'
    BY <1>1 DEF HuntInv
  <2>1. Hunted  BY <1>1, <1>2, HuntedBefore
  <2>2. Decided = "FINDING" \/ (Looks /\ Database(world) = Spoilt /\ Missing(1))
    BY <1>1, <2>1 DEF DefectInv, HuntInv
  <2>3. Current' = Current  BY <1>1 DEF Current
  <2>4. Spoilt' = Spoilt /\ Missing(1)' = Missing(1)
    BY <1>1, <2>3 DEF Spoilt, FactsOf, After, Before, Database, Missing
  <2>5. Decided' = Decided /\ Looks' = Looks  BY <1>1, <2>3 DEF Decided, Looks
  <2> QED  BY <1>1, <2>2, <2>4, <2>5 DEF Database
<1>4. DefectIsFound'  BY <1>1, <1>2, FoundStays DEF DefectInv
<1> QED  BY <1>3, <1>4 DEF DefectInv

\* A finding here, or the looks.
LEMMA JudgeHunts == ASSUME GreenInv, DefectInv, Judge  PROVE DefectInv'
<1>1. at = "judge" /\ UNCHANGED <<probe, defect, case, world, armed, verdicts, loss>>  BY DEF Judge
<1>2. MayBeLost  BY <1>1 DEF MayBeLost
<1>3. Current' = Current  BY <1>1 DEF Current
<1>4. HuntInv'
  <2> SUFFICES ASSUME Hunted'
               PROVE  /\ at' \in {"look", "tidy"}
                      /\ at' = "look" => (Database(world) = Spoilt /\ Missing(check))'
                      /\ at' = "tidy" => (reply = Failed)'
    BY DEF HuntInv
  <2>1. Hunted  BY <1>1, <1>2, HuntedBefore
  <2>2. Decided = "FINDING" \/ (Looks /\ Database(world) = Spoilt /\ Missing(1))
    BY <1>1, <2>1 DEF DefectInv, HuntInv
  <2>3. CASE Decided = "FINDING"
    <3>1. ~Looks  BY <2>3 DEF Looks
    <3>2. at' = "tidy" /\ reply' = "FINDING"  BY <2>3, <3>1 DEF Judge
    <3>3. Current.expected # "known_control"  BY <2>3 DEF Decided
    <3> QED  BY <1>3, <3>2, <3>3 DEF Failed
  <2>4. CASE Looks /\ Database(world) = Spoilt /\ Missing(1)
    <3>1. at' = "look" /\ check' = 1  BY <2>4 DEF Judge
    <3>2. Spoilt' = Spoilt  BY <1>1, <1>3 DEF Spoilt, FactsOf, After, Before, Database
    <3>3. Missing(check)'  BY <1>1, <1>3, <2>4, <3>1, <3>2 DEF Missing
    <3> QED  BY <1>1, <2>4, <3>1, <3>2, <3>3 DEF Database
  <2> QED  BY <2>2, <2>3, <2>4
<1>5. DefectIsFound'  BY <1>1, <1>2, FoundStays DEF DefectInv
<1> QED  BY <1>4, <1>5 DEF DefectInv

\* The looks go on until one of them misses it.
LEMMA LookHunts == ASSUME GreenInv, DefectInv, Look  PROVE DefectInv'
<1> DEFINE k == Current
           c == k.checks[check]
<1>1. at = "look" /\ UNCHANGED <<probe, defect, case, armed, verdicts>>  BY DEF Look
<1>2. check \in 1..Len(k.checks)  BY <1>1 DEF GreenInv, Counted
<1>3. Len(k.checks) \in Nat /\ DOMAIN k.checks = 1..Len(k.checks)
  BY <1>2, CurrentSees DEF WellMade, Listed
<1>4. MayBeLost  BY DEF Look, Lose, MayLose, MayBeLost
<1>5. Current' = k  BY <1>1 DEF Current
<1>6. HuntInv'
  <2> SUFFICES ASSUME Hunted'
               PROVE  /\ at' \in {"look", "tidy"}
                      /\ at' = "look" => (Database(world) = Spoilt /\ Missing(check))'
                      /\ at' = "tidy" => (reply = Failed)'
    BY DEF HuntInv
  <2>1. Hunted  BY <1>1, <1>4, HuntedBefore
  <2>2. Database(world) = Spoilt /\ Missing(check)  BY <1>1, <2>1 DEF DefectInv, HuntInv
  <2>3. loss' # <<case, at>>
    <3> SUFFICES ASSUME loss' = <<case, at>>  PROVE FALSE  OBVIOUS
    <3>1. loss' # <<>> /\ loss'[1] = case' /\ loss'[2] = "look"  BY <1>1
    <3> QED  BY <3>1 DEF Hunted, LostIn
  <2>4. Seen(Passes(c)) /\ world' = Looked(c)  BY <2>3 DEF Look, Lose
  <2>5. CASE ~Passes(c)
    <3>1. at' = "tidy" /\ reply' = Failed  BY <2>4, <2>5 DEF Seen
    <3> QED  BY <1>5, <3>1 DEF Failed
  <2>6. CASE Passes(c)
    <3>1. PICK m \in DOMAIN k.checks :
            /\ m >= check /\ Misses(k.checks[m], Spoilt)
            /\ k.checks[m].how = "in_use" => Has("cluster", k.checks[m].policy) \in world
      BY <2>2 DEF Missing
    <3>2. defect # NoDefect  BY <2>1, DefectIs DEF Hunted
    <3>3. m # check  BY <2>2, <2>6, <3>1, <3>2, MissFails
    <3>4. m >= check + 1 /\ check # Len(k.checks)  BY <1>2, <1>3, <3>1, <3>3
    <3>5. at' = "look" /\ check' = check + 1  BY <2>4, <2>6, <3>4 DEF Seen
    <3>6. c.how = "in_use" => DropFails(c.policy)  BY <2>6 DEF Passes
    <3>7. /\ Database(world') = Database(world)
          /\ \A p : Has("cluster", p) \in world /\ (c.how = "drops" => p # c.policy) => Has("cluster", p) \in world'
      <4> HIDE DEF c
      <4> QED  BY <2>4, <3>6, LookedKeeps
    <3>8. ASSUME k.checks[m].how = "in_use"  PROVE Has("cluster", k.checks[m].policy) \in world'
      <4>1. ASSUME c.how = "drops"  PROVE k.checks[m].policy # c.policy
        <5>1. Sight(c, Before(k), FactsOf(k)) /\ Sight(k.checks[m], Before(k), FactsOf(k))
          BY <1>2, <1>3, CurrentSees DEF SeenCase, Seeing
        <5>2. \A f \in FactsOf(k) : f[2] = "uses" => f[3] # c.policy  BY <4>1, <5>1 DEF Sight
        <5>3. \E f \in FactsOf(k) : f[2] = "uses" /\ f[3] = k.checks[m].policy  BY <3>8, <5>1 DEF Sight
        <5> QED  BY <5>2, <5>3
      <4> QED  BY <3>1, <3>7, <3>8, <4>1
    <3>9. Spoilt' = Spoilt  BY <1>1, <1>5 DEF Spoilt, FactsOf, After, Before, Database
    <3>10. Missing(check)'  BY <1>5, <3>1, <3>4, <3>5, <3>8, <3>9 DEF Missing
    <3>11. Database(world)' = Spoilt'  BY <2>2, <3>7, <3>9 DEF Database
    <3> QED  BY <3>5, <3>10, <3>11
  <2> QED  BY <2>5, <2>6
<1>7. DefectIsFound'  BY <1>1, <1>4, FoundStays DEF DefectInv
<1> QED  BY <1>6, <1>7 DEF DefectInv

\* The verdict of the case.
LEMMA TidyHunts == ASSUME GreenInv, DefectInv, Tidy  PROVE DefectInv'
<1>1. at = "tidy" /\ UNCHANGED <<probe, defect>>  BY DEF Tidy
<1>2. reply \in Verdicts /\ at \in WithinCase \cup {"prepare"}  BY <1>1 DEF GreenInv, Counted, WithinCase
<1>3. PICK v \in {reply, "FINDING"} :
        /\ Verdict(v)
        /\ \/ v = reply /\ UNCHANGED loss
           \/ loss = <<>> /\ loss' = <<case, at>>
  BY DEF Tidy, Lose, MayLose
<1>4. v \in Verdicts /\ MayBeLost  BY <1>2, <1>3 DEF Verdicts, MayBeLost
<1>5. at' \in {"prepare", "finish"}  BY <1>3, VerdictGoesOn
<1>6. HuntInv'  BY <1>5 DEF HuntInv
<1>7. Hunted => reply = Failed  BY <1>1 DEF DefectInv, HuntInv
<1>8. \A a, b : <<a, b>> # <<>>  OBVIOUS
<1>9. DefectIsFound'  BY <1>1, <1>2, <1>3, <1>4, <1>7, <1>8, FoundNext DEF DefectInv
<1> QED  BY <1>6, <1>9 DEF DefectInv

\* The end of a run judges nothing, and a run with a defect is not killed.
LEMMA EndHunts == ASSUME GreenInv, DefectInv, Finish \/ Kill  PROVE DefectInv'
<1>1. CASE Finish
  <2>1. at' = "done" /\ UNCHANGED <<probe, defect, case, verdicts>>  BY <1>1 DEF Finish
  <2>2. MayBeLost  BY <1>1 DEF Finish, FinishClean, Lose, MayLose, MayBeLost
  <2>3. HuntInv'  BY <2>1 DEF HuntInv
  <2>4. DefectIsFound'  BY <2>1, <2>2, FoundStays DEF DefectInv
  <2> QED  BY <2>3, <2>4 DEF DefectInv
<1>2. CASE Kill
  <2>1. defect = NoDefect /\ defect' = NoDefect /\ at' = "begin"  BY <1>2 DEF Kill
  <2>2. HuntInv'  BY <2>1 DEF HuntInv
  <2>3. DefectIsFound'  BY <2>1 DEF DefectIsFound, NoDefect
  <2> QED  BY <2>2, <2>3 DEF DefectInv
<1> QED  BY <1>1, <1>2

\* Nothing is judged yet.
LEMMA DefectInit == Init => DefectInv
  BY DEF Init, DefectInv, HuntInv, DefectIsFound

\* Every step keeps the invariant, one lemma each.
LEMMA DefectStep == GreenInv /\ DefectInv /\ [Next]_vars => DefectInv'
<1> SUFFICES ASSUME GreenInv, DefectInv, [Next]_vars  PROVE DefectInv'  OBVIOUS
<1>1. CASE UNCHANGED vars
  <2>1. UNCHANGED <<probe, defect, case, at, check, world, armed, reply, verdicts, loss>>  BY <1>1 DEF vars
  <2>2. MayBeLost  BY <2>1 DEF MayBeLost
  <2>3. Hunted' => Hunted  BY <2>1, <2>2, HuntedBefore
  <2>4. Current' = Current /\ Spoilt' = Spoilt /\ Failed' = Failed /\ Decided' = Decided
    BY <2>1 DEF Current, Spoilt, FactsOf, After, Before, Database, Failed, Decided
  <2>5. HuntInv'  BY <2>1, <2>3, <2>4 DEF DefectInv, HuntInv, Looks, Missing, Database, Before
  <2>6. DefectIsFound'  BY <2>1, <2>2, FoundStays DEF DefectInv
  <2> QED  BY <2>5, <2>6 DEF DefectInv
<1> QED
  BY <1>1, BeginHunts, PrepareHunts, ArmHunts, AlterHunts, DisarmHunts, JudgeHunts, LookHunts, TidyHunts, EndHunts
     DEF Next

\* In every state of a run: a case with a defect it has to notice, in which no call is
\* lost, has the facts the defect leaves, and a look that misses one is still to come;
\* or it has been found.
THEOREM DefectInvHolds == Spec => []DefectInv
<1> QED  BY GreenInvHolds, DefectInit, DefectStep, PTL DEF Spec

\* DefectIsFound for every choice of probes and every distance of a lost call from the
\* defect: what a DDL does to a reference against what the case says is reported in that
\* case, whatever call was lost in another.
THEOREM DefectIsFoundHolds == Spec => []DefectIsFound
<1>1. DefectInv => DefectIsFound  BY DEF DefectInv
<1> QED  BY <1>1, DefectInvHolds, PTL
=============================================================================
