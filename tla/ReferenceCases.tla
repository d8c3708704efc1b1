--------------------------- MODULE ReferenceCases ---------------------------
(***************************************************************************)
(* The cases of four probes that ask what a DDL does to the references     *)
(* other objects hold: placement policies and global indexes, columns that *)
(* other metadata reads, the same under an injected failure of the DDL,    *)
(* and masking policies.                                                   *)
(*                                                                         *)
(* A fact is <<holder, relation, target>>.  A case lists the facts its     *)
(* setup makes, statement by statement, those the DDL is to take away and  *)
(* to make, others that could wrongly come, and what is looked at after.   *)
(***************************************************************************)
EXTENDS Integers, Sequences, FiniteSets

Uses(x, p) == <<x, "uses", p>>
Marked(x, m) == <<x, "marks", m>>
Has(x, y) == <<x, "has", y>>
Row(x, part) == <<x, "row", part>>
Rows(xs, parts) == {Row(x, p) : x \in xs, p \in parts}
Enforces(x) == <<x, "enforces", "rows">>
Reads(x, column) == <<x, "reads", column>>

\* A setup statement is the set of facts it makes.
Policy(p) == {Has("cluster", p)}
Table(facts) == {Has("db", "t")} \cup facts
Global == Marked("idx_a", "global")
Partitioned == <<"t", "is", "partitioned">>

(* What is looked at: one call each, but for the two queries of SameRows *)
Show(needs, forbids) == [how |-> "show", needs |-> needs, forbids |-> forbids]
Read(needs, forbids) == [how |-> "read", needs |-> needs, forbids |-> forbids]
Drops(p) == [how |-> "drops", policy |-> p]
InUse(p) == [how |-> "in_use", policy |-> p]
AdminCheck == [how |-> "admin"]
SameRows(index, exact) == [how |-> "rows", index |-> index, exact |-> exact]

Case(owner, expected, setup, gone, come, extra, checks) ==
  [owner |-> owner, expected |-> expected, setup |-> setup, gone |-> gone, come |-> come, extra |-> extra,
   checks |-> checks, family |-> TRUE, known |-> FALSE, skip |-> FALSE, failpoint |-> "none"]

Before(k) == UNION {k.setup[i] : i \in DOMAIN k.setup}
After(k) == (Before(k) \ k.gone) \cup k.come
-----------------------------------------------------------------------------
(* Placement policies and global indexes *)

Skips(k) == [k EXCEPT !.skip = TRUE]
Blocked(owner, setup) == Case(owner, "block", setup, {}, {}, {}, <<>>)
Placement(setup, gone, come, checks) == Skips(Case("placement", "rewrite", setup, gone, come, {}, checks))
Index(setup, gone, come, extra, checks) == Skips(Case("index", "rewrite", setup, gone, come, extra, checks))

placement_drop_policy_block(holder) ==
  Skips(Blocked("placement", <<Policy("pp1"), Table({Uses(holder, "pp1")})>>))

\* The old policy can be dropped, and the new one cannot; the table is printed only.
require_policy_rewritten_old(old, new) == <<Drops(old), Show({}, {})>>
require_policy_rewritten(old, new) == <<Drops(old), InUse(new), Show({}, {})>>

placement_policy_rewrite(holder) ==
  Placement(<<Policy("pp1"), Policy("pp2"), Table({Uses(holder, "pp1")})>>,
            {Uses(holder, "pp1")}, {Uses(holder, "pp2")}, require_policy_rewritten("pp1", "pp2"))

BothPlaced == {Uses("t", "pp_table"), Uses("p0", "pp_part")}

placement_remove_partitioning_oracle == <<Show({}, {Partitioned}), Drops("pp_part"), InUse("pp_table")>>
placement_remove_partitioning_releases_partition_policy ==
  Placement(<<Policy("pp_table"), Policy("pp_part"), Table(BothPlaced \cup {Partitioned}), {}>>,
            {Partitioned, Uses("p0", "pp_part")}, {}, placement_remove_partitioning_oracle)

placement_multischema_table_policy_remove_partitioning_block ==
  Skips(Blocked("placement", <<Policy("pp1"), Table({Partitioned})>>))

Followers(n) == <<"pp1", "followers", n>>
alter_policy_table_dependency_oracle ==
  <<Show({Followers("2")}, {}), InUse("pp1"), Show({Uses("t", "pp1")}, {})>>
placement_alter_policy_table_dependency_preserved ==
  Placement(<<Policy("pp1") \cup {Followers("1")}, Table({Uses("t", "pp1")})>>,
            {Followers("1")}, {Followers("2")}, alter_policy_table_dependency_oracle)

alter_policy_partition_dependency_oracle ==
  <<Show({Followers("2")}, {}), InUse("pp1"), Show({Has("t", "p0"), Uses("p0", "pp1")}, {}), Read({Has("t", "p0")}, {})>>
placement_alter_policy_partition_dependency_preserved ==
  Placement(<<Policy("pp1") \cup {Followers("1")}, Table({Has("t", "p0"), Uses("p0", "pp1")})>>,
            {Followers("1")}, {Followers("2")}, alter_policy_partition_dependency_oracle)

PartPlaced == <<Policy("pp_part"), Table({Has("t", "p0"), Uses("p0", "pp_part")}), {}>>
placement_drop_partition_releases_policy_oracle == <<Show({}, {Has("t", "p0")}), Drops("pp_part")>>
placement_drop_partition_releases_partition_policy ==
  Placement(PartPlaced, {Has("t", "p0"), Uses("p0", "pp_part")}, {}, placement_drop_partition_releases_policy_oracle)
placement_truncate_partition_preserves_policy_oracle ==
  <<Show({Has("t", "p0")}, {}), InUse("pp_part"), Read({Has("t", "p0")}, {})>>
placement_truncate_partition_preserves_partition_policy ==
  Placement(PartPlaced, {}, {}, placement_truncate_partition_preserves_policy_oracle)

global_index_missing_update_indexes_block == Skips(Blocked("index", <<Table({Has("t", "idx_a")})>>))
global_index_exchange_partition_block ==
  Skips(Blocked("index", <<Table({Has("t", "idx_b"), Marked("idx_b", "global")}), {Has("db", "nt")}>>))

TwoIndexes == {Has("t", "idx_a"), Has("t", "idx_b")}
Filled(indexes) == Rows({"t"} \cup indexes, {"p0", "p1", "p2"})

require_index_global_status ==
  <<Show(TwoIndexes \cup {Global}, {Marked("idx_b", "global")}), AdminCheck>>
global_partition_by_oracle == require_index_global_status \o <<SameRows("idx_a", {})>>
global_index_partition_by_update_indexes_rewrite ==
  Index(<<Table(TwoIndexes), Filled({"idx_a", "idx_b"})>>, {}, {Global, Partitioned},
        {Marked("idx_b", "global")}, global_partition_by_oracle)

global_remove_partitioning_oracle ==
  <<Show({}, {Partitioned, Global, Marked("idx_b", "global")}), AdminCheck, SameRows("idx_a", {})>>
global_index_remove_partitioning_rewrite_local ==
  Index(<<Table(TwoIndexes \cup {Global, Partitioned}), Filled({"idx_a", "idx_b"})>>, {Global, Partitioned}, {},
        {Marked("idx_b", "global")}, global_remove_partitioning_oracle)

\* DROP and TRUNCATE PARTITION p0 of a table with a global index.
global_partition_rowset_oracle == <<AdminCheck, SameRows("idx_b", {"p1", "p2"})>>
global_index_drop_partition_rowset_cleanup ==
  Index(<<Table({Has("t", "idx_b"), Marked("idx_b", "global")}), Filled({"idx_b"})>>,
        Rows({"t", "idx_b"}, {"p0"}), {}, {}, global_partition_rowset_oracle)
global_index_truncate_partition_rowset_cleanup == global_index_drop_partition_rowset_cleanup

\* A table whose index and placement both depend on its partitions.
RemoveSetup ==
  <<Policy("pp_table"), Policy("pp_part"), Table(BothPlaced \cup TwoIndexes \cup {Global, Partitioned}),
    Filled({"idx_a", "idx_b"})>>
RemoveGone == {Global, Partitioned, Uses("p0", "pp_part")}
mixed_remove_partitioning_oracle(exact) ==
  <<Show({}, {Partitioned, Global, Marked("idx_b", "global")}), Drops("pp_part"), InUse("pp_table"),
    AdminCheck, SameRows("idx_a", exact)>>
mixed_placement_global_remove_partitioning ==
  Skips(Case("mixed", "rewrite", RemoveSetup, RemoveGone, {}, {}, mixed_remove_partitioning_oracle({})))

object_reference ==
  <<placement_drop_policy_block("t"), placement_drop_policy_block("p0"),
    placement_policy_rewrite("t"), placement_policy_rewrite("p0"),
    placement_remove_partitioning_releases_partition_policy,
    placement_multischema_table_policy_remove_partitioning_block,
    placement_alter_policy_table_dependency_preserved, placement_alter_policy_partition_dependency_preserved,
    global_index_missing_update_indexes_block, global_index_partition_by_update_indexes_rewrite,
    global_index_remove_partitioning_rewrite_local, global_index_exchange_partition_block,
    global_index_drop_partition_rowset_cleanup, placement_drop_partition_releases_partition_policy,
    placement_truncate_partition_preserves_partition_policy, global_index_truncate_partition_rowset_cleanup,
    mixed_placement_global_remove_partitioning>>
-----------------------------------------------------------------------------
(* The same under a failpoint: the DDL rolls back, or is tried again *)

RolledBack(failpoint, setup, extra, checks) ==
  [Case("stateful", "rollback", setup, {}, {}, extra, checks) EXCEPT !.failpoint = failpoint]
Retried(failpoint, setup, gone, come, extra, checks) ==
  [Case("stateful", "rewrite", setup, gone, come, extra, checks) EXCEPT !.failpoint = failpoint]

partition_by_setup ==
  <<Policy("pp_table"), Policy("pp_part"), Table(TwoIndexes \cup {Uses("t", "pp_table")}), Filled({"idx_a", "idx_b"})>>
partition_by_come == {Partitioned, Global, Uses("p0", "pp_part")}
truncate_setup ==
  <<Policy("pp_table"), Policy("pp_part"),
    Table(BothPlaced \cup {Has("t", "idx_b"), Marked("idx_b", "global"), Partitioned}), Filled({"idx_b"})>>

policy_and_nonpartitioned_rollback_oracle ==
  <<Show({}, {Partitioned, Global, Marked("idx_b", "global")}), Drops("pp_part"), InUse("pp_table"),
    AdminCheck, SameRows("idx_a", {})>>
remove_partitioning_rollback_oracle ==
  <<Show({Partitioned, Global}, {}), InUse("pp_table"), InUse("pp_part"), AdminCheck, SameRows("idx_a", {})>>
truncate_oracle(exact) ==
  <<Show({Partitioned, Marked("idx_b", "global")}, {}), InUse("pp_table"), InUse("pp_part"),
    AdminCheck, SameRows("idx_b", exact)>>
partition_by_retry_success_oracle ==
  <<Show({Partitioned, Has("t", "idx_a"), Global}, {Marked("idx_b", "global")}), InUse("pp_table"), InUse("pp_part"),
    AdminCheck, SameRows("idx_a", {"p0", "p1", "p2"})>>
remove_partitioning_retry_success_oracle == mixed_remove_partitioning_oracle({"p0", "p1", "p2"})

rollback_partition_by(failpoint) ==
  RolledBack(failpoint, partition_by_setup, partition_by_come, policy_and_nonpartitioned_rollback_oracle)
rollback_remove_partitioning(failpoint) ==
  RolledBack(failpoint, RemoveSetup, {}, remove_partitioning_rollback_oracle)
retry_partition_by(failpoint) ==
  Retried(failpoint, partition_by_setup, {}, partition_by_come, {Marked("idx_b", "global")},
          partition_by_retry_success_oracle)
retry_remove_partitioning(failpoint) ==
  Retried(failpoint, RemoveSetup, RemoveGone, {}, {}, remove_partitioning_retry_success_oracle)
cancel_truncate_partition ==
  RolledBack("truncatePartCancel1", truncate_setup, {}, truncate_oracle({"p0", "p1", "p2"}))
retry_truncate(failpoint) ==
  Retried(failpoint, truncate_setup, Rows({"t", "idx_b"}, {"p0"}), {}, {}, truncate_oracle({"p1", "p2"}))

stateful_object ==
  <<rollback_partition_by("reorgPartRollback2"), rollback_partition_by("reorgPartRollback3"),
    rollback_partition_by("reorgPartRollback4"), rollback_remove_partitioning("reorgPartRollback2"),
    rollback_remove_partitioning("reorgPartRollback3"), rollback_remove_partitioning("reorgPartRollback4"),
    retry_partition_by("reorgPartFail4"), retry_partition_by("reorgPartFail5"),
    retry_remove_partitioning("reorgPartFail4"), retry_remove_partitioning("reorgPartFail5"),
    cancel_truncate_partition, retry_truncate("truncatePartFail1"), retry_truncate("truncatePartFail2"),
    retry_truncate("truncatePartFail3")>>

\* A failpoint makes one job fail: of the kind it sits in, each time or the first.
Failpoint ==
  [reorgPartRollback2 |-> <<"reorg", "always">>, reorgPartRollback3 |-> <<"reorg", "always">>,
   reorgPartRollback4 |-> <<"reorg", "always">>, reorgPartFail4 |-> <<"reorg", "once">>,
   reorgPartFail5 |-> <<"reorg", "once">>, truncatePartCancel1 |-> <<"truncate", "always">>,
   truncatePartFail1 |-> <<"truncate", "once">>, truncatePartFail2 |-> <<"truncate", "once">>,
   truncatePartFail3 |-> <<"truncate", "once">>]
-----------------------------------------------------------------------------
(* Columns that other metadata reads *)

Switch == {}  \* SET GLOBAL, which makes no fact
Matrix(owner, expected, setup, gone, come, checks) == Case(owner, expected, setup, gone, come, {}, checks)
require_show_create_contains(fact) == <<Show({fact}, {})>>

\* The known loss of a constraint, and the one DDL it must survive.
check_known_check_loss == <<Read({Enforces("chk_ab")}, {})>>
CheckSetup == <<Switch, Table({Enforces("chk_ab")}), {}>>
known_check == [Matrix("check", "known_control", CheckSetup, {}, {}, check_known_check_loss) EXCEPT !.known = TRUE]
check_modify_same_name_preserve_or_block ==
  Matrix("check", "rewrite_or_block", CheckSetup, {}, {}, check_known_check_loss)

known_partial_predicate_rename_error_family ==
  [Blocked("predicate", <<Table({Reads("pi", "a")})>>) EXCEPT !.known = TRUE, !.family = FALSE]

\* A partial index's predicate, a generated column, a partitioning expression.
reader_block(reader) == Blocked(reader, <<Table({Reads(reader, "a")})>>)

ttl_rewrite ==
  Matrix("ttl", "rewrite", <<Table({Reads("ttl", "t1")})>>, {Reads("ttl", "t1")}, {Reads("ttl", "t1x")},
         require_show_create_contains(Reads("ttl", "t1x")))
ttl_block == Blocked("ttl", <<Table({Reads("ttl", "t1")})>>)

ForeignKey == {Has("db", "c"), Reads("child", "pid"), Reads("parent", "id"), Enforces("fk_pid")}
fk_oracle(side, column) == <<Show({Reads(side, column)}, {}), Read({Enforces("fk_pid")}, {})>>
fk_rewrite(side, old, new) ==
  Matrix("fk", "rewrite", <<Switch, {Has("db", "p")}, ForeignKey, {}, {}>>, {Reads(side, old)}, {Reads(side, new)},
         fk_oracle(side, new))
fk_block == Blocked("fk", <<Switch, {Has("db", "p")}, ForeignKey>>)

index_rename_rewrite(index, old, new) ==
  Matrix("key", "rewrite", <<Table({Reads(index, old)})>>, {Reads(index, old)}, {Reads(index, new)},
         require_show_create_contains(Reads(index, new)))

reference_matrix ==
  <<known_check, known_check, check_modify_same_name_preserve_or_block,
    known_partial_predicate_rename_error_family, reader_block("predicate")>>
  \o [i \in 1..4 |-> reader_block("generated")] \o [i \in 1..5 |-> reader_block("partition")]
  \o <<ttl_rewrite, ttl_rewrite, ttl_rewrite, ttl_block, ttl_block,
       fk_rewrite("child", "pid", "pid2"), fk_rewrite("child", "pid", "pid2"),
       fk_rewrite("parent", "id", "id2"), fk_rewrite("parent", "id", "id2"), fk_block, fk_block, fk_block,
       index_rename_rewrite("idx_a", "a", "aa"), Skips(index_rename_rewrite("uk_b", "b", "bb"))>>
-----------------------------------------------------------------------------
(* Masking policies: a row of a system table each *)

MaskingPolicy(p) == Has("masking", p)
Field(p, name, value) == <<p, name, value>>
Masks(p, table, column) ==
  {MaskingPolicy(p), Field(p, "schema", "db1"), Field(p, "table", table), Field(p, "column", column),
   Field(p, "expr", column), Field(p, "table_id", "old")}
Masking(expected, setup, gone, come, extra, checks) == Case("masking", expected, setup, gone, come, extra, checks)
OneMasked == <<Table({}), Masks("p", "t", "c")>>

case_table_rename ==
  Masking("rewrite", OneMasked, {Field("p", "table", "t")}, {Field("p", "table", "t_new")}, {},
          <<Read({MaskingPolicy("p"), Field("p", "schema", "db1"), Field("p", "table", "t_new")}, {})>>)
case_multitable_rename ==
  Masking("rewrite", <<Table({}), {Has("db", "b")}, Masks("p_a", "a", "c"), Masks("p_b", "b", "c")>>,
          {Field("p_a", "table", "a"), Field("p_b", "table", "b")},
          {Field("p_a", "table", "a_new"), Field("p_b", "table", "b_new")}, {},
          <<Read({Field(p, "schema", "db1") : p \in {"p_a", "p_b"}}
                 \cup {MaskingPolicy("p_a"), MaskingPolicy("p_b"),
                       Field("p_a", "table", "a_new"), Field("p_b", "table", "b_new")}, {})>>)
case_cross_db_rename ==
  Masking("rewrite", OneMasked, {Field("p", "schema", "db1")}, {Field("p", "schema", "db2")}, {},
          <<Read({MaskingPolicy("p"), Field("p", "schema", "db2"), Field("p", "table", "t")}, {})>>)
\* By RENAME COLUMN, and by CHANGE COLUMN beside ADD COLUMN.
case_column_rename ==
  Masking("rewrite", OneMasked, {Field("p", n, "c") : n \in {"column", "expr"}},
          {Field("p", n, "c_new") : n \in {"column", "expr"}}, {},
          <<Read({MaskingPolicy("p"), Field("p", "column", "c_new"), Field("p", "expr", "c_new")},
                 {Field("p", "expr", "c")})>>)
case_modify_supported ==
  Masking("rewrite", OneMasked, {}, {}, {},
          <<Read({MaskingPolicy("p"), Field("p", "column", "c"), Field("p", "expr", "c")}, {})>>)
\* A type that cannot be masked.
case_modify_unsupported_block ==
  Masking("block", OneMasked, {}, {}, {Field("p", "expr", "d")},
          <<Read({MaskingPolicy("p"), Field("p", "column", "c"), Field("p", "expr", "c")}, {Field("p", "expr", "d")})>>)
\* An expression over another column.
case_alter_policy_expr_block == case_modify_unsupported_block
\* The column goes, alone or beside ADD COLUMN.
case_drop_column_cleanup(policies) ==
  LET masked == {MaskingPolicy(p) : p \in policies}
  IN  Masking("rewrite", <<Table({}), masked>>, masked, {}, {}, <<Read({}, masked)>>)

\* The table or the whole database goes.
case_drop_cleanup(policies) == case_drop_column_cleanup(policies)

case_truncate ==
  Masking("rewrite", OneMasked \o <<{}>>, {Field("p", "table_id", "old")}, {Field("p", "table_id", "new")}, {},
          <<Read({MaskingPolicy("p"), Field("p", "schema", "db1"), Field("p", "table", "t"),
                  Field("p", "column", "c"), Field("p", "expr", "c")}, {Field("p", "table_id", "old")}),
            Read({MaskingPolicy("p")}, {})>>)

masking_policy ==
  <<case_table_rename, case_multitable_rename, case_cross_db_rename, case_column_rename, case_column_rename,
    case_modify_supported, case_modify_unsupported_block, case_drop_column_cleanup({"p"}),
    case_drop_column_cleanup({"p"}), case_truncate, case_drop_cleanup({"p"}), case_drop_cleanup({"p_1", "p_2"}),
    case_alter_policy_expr_block>>

Cases ==
  [object_reference |-> object_reference, reference_matrix |-> reference_matrix,
   stateful_object |-> stateful_object, masking_policy |-> masking_policy]
=============================================================================
