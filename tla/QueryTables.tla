---------------------------- MODULE QueryTables ----------------------------
(***************************************************************************)
(* The cases of the query probes.  A case is a table, the queries that are *)
(* asked of it, the variants each query is asked in, and the one variant   *)
(* that is the reference.  An index that holds some rows only is a         *)
(* partition in two: the rows it holds and those outside it; and where a   *)
(* plan is reused, every row is a place of its own.                        *)
(***************************************************************************)
EXTENDS PruneTables

CONSTANT RowCount  \* rows of a generated profile

\* In order of b; a query takes the first or last rows of an answer, or all.
Query(pred, desc, limit) == [pred |-> pred, desc |-> desc, limit |-> limit]
Asked(preds) == [i \in DOMAIN preds |-> Query(preds[i], FALSE, 0)]
InOrders(preds, orders) ==
  [i \in 1..(Len(preds) * Len(orders)) |->
     LET o == orders[((i - 1) % Len(orders)) + 1]
     IN  Query(preds[((i - 1) \div Len(orders)) + 1], o.desc, o.limit)]

\* raises: variants whose failure ends the probe; blind: those whose failure is
\* read as no rows; fails apart from these, an answer is a failure or rows.
Case(table, queries, base, others, raises, blind) ==
  [table |-> table, queries |-> queries, base |-> base, others |-> others, raises |-> raises, blind |-> blind]

Home(t, row) ==
  CASE t.kind = "index" -> IF Holds(t.parts, row) THEN 1 ELSE 2
    [] t.kind = "row" -> row
    [] OTHER -> Place(t, row)

Pruned(table) == Case(table, Asked(table.preds), "ref", {"static", "dynamic"}, {}, {})
-----------------------------------------------------------------------------
(* ai_native_partial_index_probe *)

Numbers == Ones([i \in 1..32 |-> i - 8] \o <<99, 100, 101>>)
WithB(as) == [i \in DOMAIN as |-> <<as[i], i>>]
Indexed(cond, as, preds) == Table("index", cond, [i \in DOMAIN Numbers |-> <<Numbers[i][1], 0>>], WithB(as), preds)

base_rows == <<NULL, -5, 0, 1, 2, 3, 10, 11, 20, 21, 100, NULL>>

\* Without a hint on the index, and with two that want it.
compare_query(table, queries) == Case(table, queries, "baseline", {"use", "force"}, {}, {})
FixedCase(cond, as, preds) == compare_query(Indexed(cond, as, preds), Asked(preds))

Any(c) == Is(c, "ge", 0)
gt_boundary == FixedCase(Is(1, "gt", 10), base_rows,
  <<And(Is(1, "gt", 20), Any(2)), And(Is(1, "ge", 20), Any(2)), And(Is(1, "eq", 20), Any(2)),
    And(Is(1, "gt", 10), Any(2)), And(Is(1, "gt", 5), Any(2)), Any(2)>>)
gte_boundary_in_or_between == FixedCase(Is(1, "ge", 10), base_rows,
  <<Over(1, "between", <<10, 21>>), Over(1, "in", <<10, 20, 21>>), Or(Is(1, "gt", 10), Is(1, "eq", 10)),
    Or(Is(1, "ge", 11), Is(1, "eq", 10)), Is(1, "gt", 9)>>)
is_not_null_plan_cache_shape == FixedCase(Is(1, "is_not_null", 0), base_rows,
  <<Is(1, "eq", 10), Is(1, "null_safe", 10), Is(1, "is_not_null", 0), Or(Is(1, "gt", 10), Is(1, "lt", 0)), IsNull(1)>>)
is_null == FixedCase(IsNull(1), base_rows,
  <<IsNull(1), Over(1, "null_safe_null", <<>>), Or(IsNull(1), Is(1, "eq", 10)), Any(2)>>)
\* The rows as the statements between leave them.
dml_membership_transition == FixedCase(Is(1, "gt", 10), <<30, 30, 0, 1, 2, 3, 10, 11, 0, 0, NULL, 50, 5>>,
  <<Is(1, "gt", 10), And(Is(1, "gt", 10), Over(2, "between", <<1, 13>>))>>)
topn_ordered ==
  LET table == Indexed(Is(1, "gt", 10), base_rows, <<>>)
  IN  compare_query(table, <<Query(Is(1, "gt", 10), FALSE, 3), Query(Is(1, "gt", 10), TRUE, 3), Query(Is(1, "gt", 5), FALSE, 3)>>)
string_collation == FixedCase(Is(1, "ge", Letter.b), <<NULL, Letter.a, Letter.a, Letter.b, Letter.z>>,
  <<Is(1, "ge", Letter.b), Is(1, "gt", Letter.a), Is(1, "eq", Letter.b), Is(1, "ge", Letter.a)>>)

\* The plan made for the first parameter, and the rows without it: the failure of
\* the second query is not looked at.
PlanCacheCase(cond, preds) == Case(Indexed(cond, base_rows, preds), Asked(preds), "direct", {"cached"}, {"cached"}, {"direct"})
pc_is_not_null_nulleq == PlanCacheCase(Is(1, "is_not_null", 0), <<Over(1, "null_safe_null", <<>>)>>)
pc_gt_threshold == PlanCacheCase(Is(1, "gt", 10), <<Is(1, "gt", 5)>>)

matrix_conditions ==
  <<Is(1, "lt", 0), Is(1, "le", 0), Is(1, "lt", 3), Is(1, "le", 3), Is(1, "lt", 10), Is(1, "le", 10), Is(1, "gt", 3),
    Is(1, "ge", 3), Is(1, "gt", 10), Is(1, "ge", 10), Is(1, "eq", 3), Is(1, "ne", 3), IsNull(1), Is(1, "is_not_null", 0)>>
matrix_predicates ==
  <<Is(1, "ge", -5), Is(1, "gt", -5), Is(1, "ge", 0), Is(1, "gt", 0), Is(1, "le", 100), Is(1, "lt", 100),
    Over(1, "between", <<-5, 100>>), Over(1, "between", <<0, 100>>), Over(1, "between", <<0, 3>>),
    Over(1, "between", <<3, 100>>), Over(1, "between", <<3, 10>>), Over(1, "in", <<1, 2, 3>>), Over(1, "in", <<3, 10>>),
    Is(1, "eq", 3), Is(1, "ne", 3), IsNull(1), Is(1, "is_not_null", 0), Or(Is(1, "ge", 0), IsNull(1)),
    Or(Over(1, "between", <<0, 2>>), Over(1, "between", <<10, 100>>))>>
matrix_orders == <<[desc |-> FALSE, limit |-> 0], [desc |-> TRUE, limit |-> 0], [desc |-> FALSE, limit |-> 3]>>
matrix_insert_rows == <<NULL, -1, 0, 1, 2, 3, 4, 10, 100, NULL>>

matrix_case(i) ==
  Case(Indexed(matrix_conditions[i], matrix_insert_rows, matrix_predicates), InOrders(matrix_predicates, matrix_orders),
       "baseline", {"use", "force", "no_hint"}, {"baseline"}, {})

no_hint_target_cases ==
  [upper_lt3_ge0 |-> <<Is(1, "lt", 3), Is(1, "ge", 0)>>,
   upper_le10_or_widen |-> <<Is(1, "le", 10), Or(Over(1, "between", <<0, 2>>), Over(1, "between", <<10, 100>>))>>,
   excluded_ne3_range |-> <<Is(1, "ne", 3), Over(1, "between", <<0, 3>>)>>]
\* In order of b: what the index leaves out comes first.
no_hint_data_profiles ==
  [matrix_small |-> matrix_insert_rows,
   topn_nonpartial_low_b |-> [i \in 1..RowCount |-> 3 + ((i - 1) % 98)] \o <<0, 1, 2, NULL>>,
   boundary_low_b |-> <<3, 10, 100, NULL>> \o [i \in 1..RowCount |-> 11 + ((i - 1) % 80)] \o <<0, 1, 2>>]
no_hint_orders == <<[desc |-> FALSE, limit |-> 5], [desc |-> TRUE, limit |-> 5]>>

no_hint_case(data, name) ==
  LET target == no_hint_target_cases[name]
  IN  Case(Indexed(target[1], no_hint_data_profiles[data], <<target[2]>>), InOrders(<<target[2]>>, no_hint_orders),
           "baseline", {"no_hint"}, {}, {})
-----------------------------------------------------------------------------
(* ai_native_plan_cache_drift_probe *)

\* A statement prepared once and executed with each parameter; any failure ends it.
DriftCase(kind, parts, rows, queries) ==
  Case(Table(kind, parts, <<>>, rows, <<>>), queries, "direct", {"cached", "nocache"}, {"direct", "cached", "nocache"}, {})
For(params, Of(_)) == Asked([i \in DOMAIN params |-> Of(params[i])])
OrNever(c, op, p) == IF p = NULL THEN {} ELSE Is(c, op, p)

drift_base_rows == Ones(<<NULL, -1, 0, 1, 2, 3, 10, 20>>)
point_get_cache_baseline == DriftCase("row", <<>>, Ones(<<1, 2, 3>>), For(<<1, 2, 3>>, LAMBDA p : Is(1, "eq", p)))
normal_index_range_cache_baseline ==
  DriftCase("row", <<>>, Ones(<<-1, 0, 1, 3, 10>>), For(<<0, 3, 11>>, LAMBDA p : Is(1, "lt", p)))
limit_param_cache_key_guard ==
  DriftCase("row", <<>>, Ones(<<1, 2, 3, 4>>),
            <<Query(Any(1), FALSE, 1), Query(Any(1), FALSE, 3), Query(Any(1), FALSE, 1)>>)
partial_index_is_not_null_nulleq ==
  DriftCase("index", Is(1, "is_not_null", 0), drift_base_rows,
            For(<<10, NULL, -1>>, LAMBDA p : IF p = NULL THEN Over(1, "null_safe_null", <<>>) ELSE Is(1, "null_safe", p)))
partial_index_is_not_null_eq ==
  DriftCase("index", Is(1, "is_not_null", 0), drift_base_rows, For(<<1, NULL, -1, 20>>, LAMBDA p : OrNever(1, "eq", p)))
partial_index_gt_threshold ==
  DriftCase("index", Is(1, "gt", 10), drift_base_rows, For(<<15, 0, 10>>, LAMBDA p : Is(1, "gt", p)))
partition_range_boundary ==
  DriftCase("range", Ones(<<0, 3, Max>>), Ones(<<NULL, -1, 0, 1, 2, 3, 10>>), For(<<0, 3, 11>>, LAMBDA p : Is(1, "lt", p)))
partition_dynamic_between_boundary ==
  DriftCase("range", Ones(<<0, 3, 8, Max>>), Ones(<<NULL, -1, 0, 1, 2, 3, 7, 8, 10>>),
            For(<<<<0, 3>>, <<3, 8>>, <<-10, 0>>, <<0, 100>>, <<8, 2>>>>, LAMBDA p : And(Is(1, "ge", p[1]), Is(1, "lt", p[2]))))
partition_dynamic_list_default_range ==
  DriftCase("list", list_int_parts, list_int_rows, For(<<0, 2, 9, NULL, -2>>, LAMBDA p : OrNever(1, "gt", p)))
partition_dynamic_list_multi_default_point ==
  DriftCase("list", list_multi_parts, list_multi_rows,
            For(<<<<1, 1>>, <<1, 3>>, <<2, 2>>, <<3, 3>>, <<4, 4>>>>, LAMBDA p : AB(p[1], "eq", p[2])))
\* NULL is in no list: every answer is empty.
predicate_simplification_null_in ==
  DriftCase("row", <<>>, Ones(<<NULL, 1, 2, 3>>), For(<<3, NULL>>, LAMBDA p : And(IsNull(1), Over(1, "in", <<1, 2, p>>))))
\* Columns: a and c where c = 11 - a but for the last rows; b is a there too.
index_merge_or_point_range ==
  DriftCase("row", <<>>, [i \in 1..9 |-> <<i, 10 - i, i>>] \o <<<<10, 10, 10>>, <<11, 11, 10>>, <<12, 10, 11>>>>,
            For(<<<<10, 10, 10, 10>>, <<11, 10, 10, 12>>, <<10, 10, 9, 11>>, <<10, 10, 11, 9>>>>,
                LAMBDA p : Or(Is(2, "eq", p[1]), And(Is(3, "eq", p[2]), Over(1, "between", <<p[3], p[4]>>)))))
-----------------------------------------------------------------------------
\* The cases in the order they are run, by probe and by the flag that asks for them.
Cases ==
  [partition_prune |-> <<Pruned(range_columns_int), Pruned(range_columns_multi), Pruned(range_columns_date),
     Pruned(range_columns_unsigned_multi), Pruned(range_columns_string), Pruned(range_expr_floor_unix_timestamp),
     Pruned(list_columns_int_default), Pruned(list_columns_multi_default), Pruned(list_columns_string_default)>>,
   global_index_prune |-> <<Pruned(range_columns_int_global), Pruned(range_columns_multi_global),
     Pruned(list_columns_int_default_global), Pruned(list_columns_multi_default_global)>>,
   partial_fixed |-> <<gt_boundary, gte_boundary_in_or_between, is_not_null_plan_cache_shape, is_null,
     dml_membership_transition, topn_ordered, string_collation, pc_is_not_null_nulleq, pc_gt_threshold>>,
   partial_matrix |-> [i \in DOMAIN matrix_conditions |-> matrix_case(i)],
   partial_no_hint |-> [i \in 1..9 |->
     no_hint_case(<<"matrix_small", "topn_nonpartial_low_b", "boundary_low_b">>[((i - 1) \div 3) + 1],
                  <<"upper_lt3_ge0", "upper_le10_or_widen", "excluded_ne3_range">>[((i - 1) % 3) + 1])],
   plan_cache_drift |-> <<point_get_cache_baseline, normal_index_range_cache_baseline, limit_param_cache_key_guard,
     partial_index_is_not_null_nulleq, partial_index_is_not_null_eq, partial_index_gt_threshold,
     partition_range_boundary, partition_dynamic_between_boundary, partition_dynamic_list_default_range,
     partition_dynamic_list_multi_default_point, predicate_simplification_null_in, index_merge_or_point_range>>]
=============================================================================
