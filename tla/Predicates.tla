----------------------------- MODULE Predicates -----------------------------
(***************************************************************************)
(* The predicates the query probes send, over rows of one or two columns.  *)
(* A column holds integers or NULL; strings and dates stand for their rank *)
(* in their order.  A predicate is a set of conjunctions, a conjunction a  *)
(* set of comparisons of one column.                                       *)
(***************************************************************************)
EXTENDS Integers, Sequences, FiniteSets

CONSTANT NULL

\* NULL is no value of a column.
ASSUME NullAssumption == NULL \notin Int

Is(c, op, v) == {{[column |-> c, op |-> op, of |-> <<v>>]}}
Over(c, op, s) == {{[column |-> c, op |-> op, of |-> s]}}
IsNull(c) == {{[column |-> c, op |-> "is_null", of |-> <<>>]}}
And(p, q) == {x \cup y : x \in p, y \in q}
Or(p, q) == p \cup q

\* What a comparison says of a value: an unknown counts as false, but for the
\* operators that are about NULL.  The last three wrap the column in a function.
Compares(atom, v) ==
  LET x == atom.of IN
  IF v = NULL THEN atom.op \in {"is_null", "null_safe_null"}
  ELSE CASE atom.op \in {"eq", "null_safe", "cast_eq"} -> v = x[1]
         [] atom.op \in {"lt", "wrapped_lt"} -> v < x[1]
         [] atom.op = "le" -> v <= x[1]
         [] atom.op = "gt" -> v > x[1]
         [] atom.op = "ge" -> v >= x[1]
         [] atom.op = "ne" -> v # x[1]
         [] atom.op \in {"between", "wrapped_between"} -> x[1] <= v /\ v <= x[2]
         [] atom.op = "not_between" -> v < x[1] \/ x[2] < v
         [] atom.op = "in" -> \E i \in DOMAIN x : x[i] = v
         [] atom.op = "not_in" -> \A i \in DOMAIN x : x[i] # v
         [] atom.op = "is_not_null" -> TRUE
         [] OTHER -> FALSE

Holds(pred, row) == \E conj \in pred : \A atom \in conj : Compares(atom, row[atom.column])

\* The operator a predicate attacks a proof with: compound ones are one family.
Shape(pred) ==
  IF Cardinality(pred) = 1 /\ \A conj \in pred : Cardinality(conj) = 1
  THEN (CHOOSE atom \in UNION pred : TRUE).op ELSE "compound"
-----------------------------------------------------------------------------
Sorted(S) == [i \in 1..Cardinality(S) |-> CHOOSE v \in S : Cardinality({w \in S : w <= v}) = i]

\* The first of every predicate that is there twice.
dedupe_predicates(preds) ==
  LET keep == Sorted({i \in DOMAIN preds : \A j \in 1..(i - 1) : preds[j] # preds[i]})
  IN  [i \in DOMAIN keep |-> preds[keep[i]]]

AroundNothing(edges) == Sorted(edges)
Around(edges) == Sorted(UNION {{e - 1, e, e + 1} : e \in edges})

EachOf(c, ops, values) ==
  [i \in 1..(Len(ops) * Len(values)) |->
     Is(c, ops[((i - 1) % Len(ops)) + 1], values[((i - 1) \div Len(ops)) + 1])]

Comparisons == <<"eq", "lt", "le", "gt", "ge", "ne">>

EveryOther(values, from) == [i \in 1..((Len(values) - from + 2) \div 2) |-> values[from + 2 * (i - 1)]]
Upto(s, n) == SubSeq(s, 1, IF n < Len(s) THEN n ELSE Len(s))

OrSplit(c, v) == Or(Over(c, "between", <<v[1], v[3]>>), Over(c, "between", <<v[Len(v) - 2], v[Len(v)]>>))
OrNull(c, v) == Or(Is(c, "lt", v[(Len(v) \div 2) + 1]), IsNull(c))
-----------------------------------------------------------------------------
(* Predicates derived from the boundaries of the partitions *)

numeric_boundary_predicates(c, edges, nullable) ==
  LET v == Around(edges)
  IN  dedupe_predicates(
        (IF nullable THEN <<IsNull(c)>> ELSE <<>>)
        \o EachOf(c, Comparisons, v)
        \o [i \in 1..(Len(v) - 2) |-> Over(c, "between", <<v[i], v[i + 2]>>)]
        \o <<Over(c, "in", Upto(EveryOther(v, 1), 6)), OrSplit(c, v)>>
        \o (IF nullable THEN <<OrNull(c, v)>> ELSE <<>>))

\* Ranks of the strings that are probed: "" a b c d l m n y z, in the collation.
Letter == [empty |-> 0, a |-> 1, b |-> 2, c |-> 3, d |-> 4, l |-> 12, m |-> 13, n |-> 14, y |-> 25, z |-> 26]

string_boundary_predicates(c, edges) ==
  LET v == Sorted({Letter[x] : x \in {"empty", "a", "b", "c", "l", "m", "n", "z"}} \cup edges)
  IN  dedupe_predicates(
        <<IsNull(c)>> \o EachOf(c, Comparisons, v)
        \o <<Over(c, "between", <<Letter.a, Letter.m>>),
             Over(c, "in", <<Letter.empty, Letter.a, Letter.b, Letter.m, Letter.z>>),
             Or(Is(c, "lt", Letter.b), IsNull(c)), Is(c, "cast_eq", Letter.b)>>)

\* Days: 101 is 2024-01-01, and 1 the first day there is.
date_boundary_predicates(c, edges) ==
  LET v == Sorted({1, 100, 101, 102, 131, 132, 467} \cup edges)
  IN  dedupe_predicates(
        <<IsNull(c)>> \o EachOf(c, Comparisons, v)
        \o <<Over(c, "between", <<101, 132>>), Over(c, "in", <<101, 102, 132, 467>>),
             Or(Is(c, "lt", 102), Is(c, "ge", 467)), Is(c, "cast_eq", 101)>>)

\* The probe of global indexes has its own.
numeric_preds(c, edges, nullable) ==
  LET v == Around(edges)
  IN  dedupe_predicates(
        (IF nullable THEN <<IsNull(c), Over(c, "null_safe_null", <<>>)>> ELSE <<>>)
        \o EachOf(c, Append(Comparisons, "null_safe"), v)
        \o <<Over(c, "between", <<v[2], v[Len(v) - 1]>>), Over(c, "in", EveryOther(v, 1)),
             Over(c, "not_in", EveryOther(v, 2)), OrSplit(c, v)>>
        \o (IF nullable THEN <<OrNull(c, v)>> ELSE <<>>))
=============================================================================
