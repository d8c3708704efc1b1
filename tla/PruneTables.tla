---------------------------- MODULE PruneTables ----------------------------
(***************************************************************************)
(* The tables of the partition probes: their rows, how they are            *)
(* partitioned, and the predicates their boundaries give.  A table without *)
(* its partitions is the reference.                                        *)
(***************************************************************************)
EXTENDS Predicates

Max == 100000
Min == -100000

\* NULL is below every value.
Below(v, w) == v # w /\ (v = NULL \/ (w # NULL /\ v < w))
LessThan(row, bound) ==
  \E i \in DOMAIN bound : Below(row[i], bound[i]) /\ \A j \in 1..(i - 1) : row[j] = bound[j]

RangeOf(bounds, row) == CHOOSE i \in DOMAIN bounds : LessThan(row, bounds[i]) /\ \A j \in 1..(i - 1) : ~LessThan(row, bounds[j])
ListOf(lists, row) ==
  IF \E i \in DOMAIN lists : row \in lists[i] THEN CHOOSE i \in DOMAIN lists : row \in lists[i] ELSE Len(lists) + 1

Ones(vs) == [i \in DOMAIN vs |-> <<vs[i]>>]

\* parts are bounds or lists; domain is what a value may be, beyond the rows.
Table(kind, parts, domain, rows, preds) ==
  [kind |-> kind, parts |-> parts, domain |-> domain, rows |-> rows, preds |-> preds]

Place(t, row) == IF t.kind = "range" THEN RangeOf(t.parts, row) ELSE ListOf(t.parts, row)
-----------------------------------------------------------------------------
(* ai_native_partition_prune_probe *)

int_predicates == dedupe_predicates(numeric_boundary_predicates(1, {0, 3, 10}, TRUE) \o
  <<IsNull(1), Is(1, "lt", 0), Is(1, "le", 0), Over(1, "between", <<0, 3>>), Over(1, "in", <<-1, 0, 2, 3, 10, 11>>),
    Is(1, "ne", 3), Or(Is(1, "lt", 3), IsNull(1)),
    Or(Over(1, "between", <<-1, 1>>), Over(1, "between", <<9, 11>>)), Is(1, "cast_eq", 3)>>)

range_columns_int ==
  Table("range", Ones(<<0, 3, 10, Max>>), Ones([i \in 1..25 |-> i - 6]),
        Ones(<<NULL, -1, 0, 1, 2, 3, 4, 9, 10, 11, NULL>>), int_predicates)

AB(a, op, b) == And(Is(1, "eq", a), Is(2, op, b))

multi_predicates == dedupe_predicates(
  numeric_boundary_predicates(1, {0, 3, 10}, TRUE) \o numeric_boundary_predicates(2, {0, 3, 10}, FALSE) \o
  <<And(Is(1, "eq", 0), Over(2, "between", <<0, 2>>)), Over(1, "between", <<0, 3>>), AB(2, "gt", 5),
    Or(AB(0, "eq", 2), AB(3, "eq", 0)), Or(IsNull(1), AB(0, "eq", 0)), AB(3, "lt", 3), AB(3, "ge", 3)>>)

multi_rows == <<<<NULL, 0>>, <<-1, 9>>, <<0, 0>>, <<0, 2>>, <<1, 1>>, <<2, 9>>, <<3, 0>>, <<3, 3>>, <<9, 9>>, <<10, 0>>>>
multi_bounds == <<<<0, 0>>, <<3, 3>>, <<10, 10>>, <<Max, Max>>>>
range_columns_multi == Table("range", multi_bounds, <<>>, multi_rows, multi_predicates)

date_predicates == dedupe_predicates(date_boundary_predicates(1, {101, 132}) \o
  <<IsNull(1), Is(1, "lt", 101), Is(1, "eq", 101), Over(1, "between", <<101, 132>>), Or(Is(1, "lt", 102), Is(1, "ge", 467))>>)

range_columns_date ==
  Table("range", Ones(<<101, 132, Max>>), Ones([i \in 1..50 |-> i + 90]), Ones(<<NULL, 1, 101, 102, 132, 467>>), date_predicates)

unsigned_predicates == dedupe_predicates(numeric_boundary_predicates(1, {3, 4, 7, 11}, FALSE) \o
  <<Is(2, "eq", Min), And(Is(1, "eq", 4), Over(2, "in", <<Min, 0, 1>>)),
    And(Over(1, "between", <<3, 7>>), Over(2, "between", <<Min, 4>>)), Or(AB(3, "eq", Min), AB(7, "eq", 0))>>)

range_columns_unsigned_multi ==
  Table("range", <<<<3, Max>>, <<4, Min>>, <<4, 1>>, <<4, 4>>, <<7, 0>>, <<Max, Max>>>>, <<>>,
        <<<<0, Min>>, <<2, 9>>, <<3, Min>>, <<3, 0>>, <<4, Min>>, <<4, 0>>, <<4, 1>>, <<4, 4>>, <<7, 0>>, <<11, 9>>>>,
        unsigned_predicates)

range_columns_string ==
  Table("range", Ones(<<Letter.b, Letter.m, Max>>), Ones([i \in 1..27 |-> i - 1]),
        Ones(<<NULL, Letter.empty, Letter.a, Letter.b, Letter.c, Letter.l, Letter.m, Letter.n, Letter.z>>),
        string_boundary_predicates(1, {Letter.b, Letter.m}))

\* Instants: 4 and 9 are the two bounds, 3 and 5 the seconds beside the first.
ts_predicates ==
  <<Is(1, "lt", 4), Is(1, "eq", 4), Is(1, "gt", 4), Over(1, "between", <<3, 5>>), Or(Is(1, "le", 4), Is(1, "ge", 9)),
    Is(1, "cast_eq", 4), Is(1, "wrapped_lt", 4), Over(1, "wrapped_between", <<3, 5>>)>>

range_expr_floor_unix_timestamp ==
  Table("range", Ones(<<4, 9, Max>>), Ones([i \in 1..15 |-> i - 1]), Ones(<<0, 3, 4, 5, 9, 12>>), ts_predicates)

list_int_predicates == dedupe_predicates(numeric_boundary_predicates(1, {0, 1, 3, 10}, TRUE) \o
  <<Over(1, "null_safe_null", <<>>), Is(1, "null_safe", 3), Over(1, "not_in", <<-1, 0, 1, 3, 10>>),
    Over(1, "in", <<1, 2, 3, 4, 10, 11>>), Over(1, "between", <<1, 4>>), Or(IsNull(1), Or(Is(1, "eq", 2), Is(1, "eq", 10)))>>)

list_int_rows == Ones(<<NULL, -1, 0, 1, 2, 3, 4, 10, 11>>)
list_int_parts == <<{<<NULL>>}, {<<-1>>, <<0>>, <<1>>}, {<<3>>, <<10>>}>>
list_columns_int_default == Table("list", list_int_parts, Ones([i \in 1..17 |-> i - 3]), list_int_rows, list_int_predicates)

tuple_predicates ==
  <<AB(1, "eq", 1), AB(1, "eq", 3), AB(2, "eq", 2), And(IsNull(1), Is(2, "eq", 3)), And(IsNull(1), Is(2, "eq", 4)),
    Is(2, "eq", 1), Is(1, "eq", 1), Or(AB(1, "eq", 1), AB(2, "eq", 2)),
    Or(And(IsNull(1), Is(2, "eq", 3)), And(Is(1, "eq", 4), IsNull(2)))>>

list_multi_predicates == dedupe_predicates(
  numeric_boundary_predicates(1, {1, 2, 3}, TRUE) \o numeric_boundary_predicates(2, {1, 2, 3}, TRUE) \o tuple_predicates)

list_multi_rows ==
  <<<<1, 1>>, <<1, 2>>, <<1, 3>>, <<2, 1>>, <<2, 2>>, <<3, 3>>, <<NULL, 3>>, <<NULL, 4>>, <<4, NULL>>>>
list_multi_parts == <<{<<1, 1>>, <<1, 2>>, <<2, 1>>}, {<<3, 3>>, <<NULL, 3>>}>>
list_columns_multi_default == Table("list", list_multi_parts, <<>>, list_multi_rows, list_multi_predicates)

list_string_predicates == dedupe_predicates(string_boundary_predicates(1, {Letter.d, Letter.y}) \o
  <<Over(1, "null_safe_null", <<>>), Is(1, "null_safe", Letter.d), Over(1, "not_in", <<Letter.empty, Letter.a, Letter.d, Letter.y>>),
    Over(1, "in", <<Letter.empty, Letter.a, Letter.d, Letter.m, Letter.y, Letter.z>>), Over(1, "between", <<Letter.d, Letter.z>>)>>)

list_columns_string_default ==
  Table("list", <<{<<NULL>>}, {<<Letter.empty>>, <<Letter.a>>}, {<<Letter.d>>, <<Letter.y>>}>>, Ones([i \in 1..27 |-> i - 1]),
        Ones(<<NULL, Letter.empty, Letter.a, Letter.d, Letter.y, Letter.m, Letter.z>>), list_string_predicates)
-----------------------------------------------------------------------------
(* ai_native_partition_global_index_prune_probe *)

int_preds == dedupe_predicates(numeric_preds(1, {0, 10, 20}, TRUE) \o
  <<Or(IsNull(1), Over(1, "between", <<9, 11>>)), Over(1, "not_between", <<0, 10>>), Is(1, "wrapped_lt", 10)>>)

range_columns_int_global ==
  Table("range", Ones(<<0, 10, 20, Max>>), Ones([i \in 1..40 |-> i - 6]), Ones(<<NULL, -1, 0, 1, 9, 10, 11, 19, 20, 99>>), int_preds)

multi_preds == dedupe_predicates(
  numeric_preds(1, {0, 3, 10}, TRUE) \o numeric_preds(2, {0, 3, 10}, TRUE) \o
  <<AB(0, "eq", 2), AB(3, "lt", 3), AB(3, "ge", 3), Or(AB(0, "eq", 2), AB(3, "eq", 0)), Or(IsNull(1), AB(0, "eq", 0)),
    And(Or(Is(1, "gt", 0), AB(0, "ge", 2)), Is(1, "lt", 10))>>)

range_columns_multi_global == Table("range", multi_bounds, <<>>, multi_rows, multi_preds)

list_preds == dedupe_predicates(numeric_preds(1, {0, 1, 3, 10}, TRUE) \o
  <<Over(1, "not_in", <<-1, 0, 1, 3, 10>>), Over(1, "in", <<1, 2, 3, 4, 10, 11>>), Over(1, "between", <<1, 4>>),
    Or(IsNull(1), Or(Is(1, "eq", 2), Is(1, "eq", 10)))>>)

list_columns_int_default_global == Table("list", list_int_parts, Ones([i \in 1..17 |-> i - 3]), list_int_rows, list_preds)

list_multi_preds == dedupe_predicates(numeric_preds(1, {1, 2, 3}, TRUE) \o numeric_preds(2, {1, 2, 3}, TRUE) \o tuple_predicates)

list_columns_multi_default_global == Table("list", list_multi_parts, <<>>, list_multi_rows, list_multi_preds)
=============================================================================
