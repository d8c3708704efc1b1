-------------------------- MODULE QueryProbeProofs --------------------------
(***************************************************************************)
(* Theorems about QueryProbe, for every selection of cases, every defect,  *)
(* and a server that may be away at any query: a run does not exit with 0  *)
(* over queries it never compared, leaves no database behind, and reports  *)
(* exactly the queries whose variants disagree; so a defect that shows in  *)
(* a table of the probe is found.                                          *)
(***************************************************************************)
EXTENDS QueryProbe, FiniteSetTheorems, WellFoundedInduction, TLAPS
-----------------------------------------------------------------------------
(* Lists *)

\* What is somewhere in a sequence.
Among(x, s) == \E i \in DOMAIN s : s[i] = x

\* A list of predicates or values that can be walked from its first to its last.
List(s) == s \in Seq({s[i] : i \in DOMAIN s})

\* A sequence is a function over its places.
LEMMA SequenceIs ==
  ASSUME NEW S, NEW s \in Seq(S)
  PROVE  Len(s) \in Nat /\ DOMAIN s = 1..Len(s) /\ s = [i \in 1..Len(s) |-> s[i]]
  OBVIOUS

\* So is a list, and every such function is one.
LEMMA ListIs ==
  ASSUME NEW s
  PROVE  List(s) <=> \E n \in Nat : s = [i \in 1..n |-> s[i]]
<1>1. List(s) => \E n \in Nat : s = [i \in 1..n |-> s[i]]
  <2> SUFFICES ASSUME List(s)  PROVE Len(s) \in Nat /\ s = [i \in 1..Len(s) |-> s[i]]  OBVIOUS
  <2> QED  BY SequenceIs DEF List
<1>2. ASSUME NEW n \in Nat, s = [i \in 1..n |-> s[i]]  PROVE List(s)
  <2>1. s \in [1..n -> {s[i] : i \in DOMAIN s}]  BY <1>2
  <2> QED  BY <2>1 DEF List
<1> QED  BY <1>1, <1>2

\* Less than is well-founded on the numbers, so a set of them has a least one.
LEMMA Least ==
  ASSUME NEW S, S \subseteq Nat, S # {}
  PROVE  \E c \in S : \A x \in S : c <= x
<1> DEFINE R == {p \in Nat \X Nat : p[1] < p[2]}
<1>1. R = OpToRel(<, Nat)  BY DEF OpToRel
<1>2. IsWellFoundedOn(R, Nat)  BY <1>1, NatLessThanWellFounded
<1>3. \A x, y \in Nat : <<y, x>> \notin R => x <= y  OBVIOUS
<1> HIDE DEF R
<1>4. \E x \in S : \A y \in S : <<y, x>> \notin R  BY <1>2, WFMin
<1> QED  BY <1>3, <1>4

\* A sorted set holds every element of the set, and nothing else.
LEMMA SortedHolds ==
  ASSUME NEW S, IsFiniteSet(S), S \subseteq Int
  PROVE  /\ Cardinality(S) \in Nat /\ DOMAIN Sorted(S) = 1..Cardinality(S)
         /\ \A v \in S : Among(v, Sorted(S))
         /\ \A i \in DOMAIN Sorted(S) : Sorted(S)[i] \in S
<1> DEFINE under(v) == {w \in S : w <= v}
           rank(v) == Cardinality(under(v))
           n == Cardinality(S)
<1>1. \A v : IsFiniteSet(under(v)) /\ rank(v) \in Nat /\ rank(v) <= n
  BY FS_Subset, FS_CardinalityType
<1>2. n \in Nat  BY FS_CardinalityType
<1>3. ASSUME NEW v \in S  PROVE rank(v) \in 1..n
  <2>1. v \in under(v)  OBVIOUS
  <2>2. rank(v) # 0  BY <1>1, <2>1, FS_EmptySet
  <2> QED  BY <1>1, <1>2, <2>2
<1>4. ASSUME NEW v \in S, NEW w \in S, rank(v) = rank(w), v < w  PROVE FALSE
  <2>1. under(v) \subseteq under(w)
    <3> SUFFICES ASSUME NEW x \in S, x <= v  PROVE x <= w  OBVIOUS
    <3>1. x \in Int /\ v \in Int /\ w \in Int  OBVIOUS
    <3> QED  BY <1>4, <3>1
  <2>2. under(v) = under(w)  BY <1>1, <1>4, <2>1, FS_Subset
  <2>3. w \in under(w) /\ w \notin under(v)  BY <1>4
  <2> QED  BY <2>2, <2>3
<1>5. \A v, w \in S : rank(v) = rank(w) => v = w
  <2> TAKE v, w \in S
  <2>1. v < w \/ w < v \/ v = w  OBVIOUS
  <2> QED  BY <1>4, <2>1
<1>6. Sorted(S) = [i \in 1..n |-> CHOOSE v \in S : rank(v) = i]  BY DEF Sorted
<1> HIDE DEF rank, under, n
<1>7. ASSUME NEW v \in S  PROVE Sorted(S)[rank(v)] = v
  <2>1. Sorted(S)[rank(v)] = CHOOSE w \in S : rank(w) = rank(v)  BY <1>3, <1>6
  <2> QED  BY <1>5, <2>1
<1>8. \A v \in S : Among(v, Sorted(S))  BY <1>3, <1>6, <1>7 DEF Among
<1>9. ASSUME NEW i \in 1..n  PROVE \E v \in S : rank(v) = i
  <2> DEFINE f == [v \in S |-> rank(v)]
  <2>1. f \in Injection(S, 1..n)  BY <1>3, <1>5 DEF Injection, IsInjective
  <2>2. IsFiniteSet(1..n) /\ Cardinality(1..n) = n  BY <1>2, FS_Interval
  <2>3. f \in Surjection(S, 1..n)  BY <2>1, <2>2, FS_Injection DEF n
  <2> QED  BY <2>3 DEF Surjection
<1>10. \A i \in 1..n : Sorted(S)[i] \in S  BY <1>6, <1>9
<1> QED  BY <1>2, <1>6, <1>8, <1>10 DEF n

\* Nothing is lost where what is there twice is dropped.
LEMMA DedupeKeeps ==
  ASSUME NEW s, List(s)
  PROVE  /\ List(dedupe_predicates(s))
         /\ \A x : Among(x, s) => Among(x, dedupe_predicates(s))
<1> PICK n \in Nat : DOMAIN s = 1..n  BY ListIs
<1> DEFINE firsts == {i \in DOMAIN s : \A j \in 1..(i - 1) : s[j] # s[i]}
           keep == Sorted(firsts)
           d == [i \in DOMAIN keep |-> s[keep[i]]]
<1>1. dedupe_predicates(s) = d  BY DEF dedupe_predicates
<1>2. IsFiniteSet(firsts) /\ firsts \subseteq Int  BY FS_Interval, FS_Subset
<1> HIDE DEF firsts
<1>3. Cardinality(firsts) \in Nat /\ DOMAIN keep = 1..Cardinality(firsts)
      /\ \A i \in firsts : Among(i, keep)
  BY <1>2, SortedHolds
<1> HIDE DEF keep
<1>4. ASSUME NEW i \in DOMAIN s  PROVE Among(s[i], d)
  <2> DEFINE same == {j \in DOMAIN s : s[j] = s[i]}
  <2>1. same \subseteq Nat /\ i \in same  OBVIOUS
  <2> HIDE DEF same
  <2>2. PICK j \in same : \A x \in same : j <= x  BY <2>1, Least
  <2>3. j \in firsts  BY <2>2 DEF firsts, same
  <2>4. PICK m \in DOMAIN keep : keep[m] = j  BY <1>3, <2>3 DEF Among
  <2>5. d[m] = s[j] /\ s[j] = s[i]  BY <2>2, <2>4 DEF same
  <2> QED  BY <2>4, <2>5 DEF Among
<1>5. List(d)  BY <1>3, ListIs
<1> QED  BY <1>1, <1>4, <1>5 DEF Among

\* What is in either of two lists is in the one after the other.
LEMMA JoinedHolds ==
  ASSUME NEW s, NEW t, List(s), List(t)
  PROVE  /\ List(s \o t)
         /\ \A x : Among(x, s) \/ Among(x, t) => Among(x, s \o t)
<1> DEFINE S == {s[i] : i \in DOMAIN s}
           T == {t[i] : i \in DOMAIN t}
<1>1. s \in Seq(S \cup T) /\ t \in Seq(S \cup T)  BY DEF List
<1> HIDE DEF S, T
<1>2. /\ s \o t \in Seq(S \cup T) /\ Len(s \o t) = Len(s) + Len(t)
      /\ \A i \in 1..(Len(s) + Len(t)) : (s \o t)[i] = IF i <= Len(s) THEN s[i] ELSE t[i - Len(s)]
  BY <1>1
<1>3. Len(s) \in Nat /\ DOMAIN s = 1..Len(s) /\ Len(t) \in Nat /\ DOMAIN t = 1..Len(t)  BY <1>1
<1>4. DOMAIN (s \o t) = 1..(Len(s) + Len(t)) /\ s \o t = [i \in 1..(Len(s) + Len(t)) |-> (s \o t)[i]]
  BY <1>2, SequenceIs
<1>5. List(s \o t)  BY <1>3, <1>4, ListIs
<1>6. ASSUME NEW i \in DOMAIN s  PROVE Among(s[i], s \o t)
  <2>1. i \in DOMAIN (s \o t) /\ (s \o t)[i] = s[i]  BY <1>2, <1>3, <1>4
  <2> QED  BY <2>1 DEF Among
<1>7. ASSUME NEW i \in DOMAIN t  PROVE Among(t[i], s \o t)
  <2>1. Len(s) + i \in DOMAIN (s \o t) /\ (s \o t)[Len(s) + i] = t[i]  BY <1>2, <1>3, <1>4
  <2> QED  BY <2>1 DEF Among
<1> QED  BY <1>5, <1>6, <1>7 DEF Among

\* A sorted set is a list.
LEMMA SortedList ==
  ASSUME NEW S, IsFiniteSet(S), S \subseteq Int  PROVE List(Sorted(S))
<1>1. Cardinality(S) \in Nat /\ DOMAIN Sorted(S) = 1..Cardinality(S)  BY SortedHolds
<1>2. Sorted(S) = [i \in 1..Cardinality(S) |-> Sorted(S)[i]]  BY <1>1 DEF Sorted
<1> QED  BY <1>1, <1>2, ListIs

\* So is every sequence.
LEMMA Listed ==
  ASSUME NEW S, NEW s \in Seq(S)  PROVE List(s)
<1>1. Len(s) \in Nat /\ s = [i \in 1..Len(s) |-> s[i]]  BY SequenceIs
<1> QED  BY <1>1, ListIs

\* Whatever is written down one after the other is a list.
LEMMA WrittenLists ==
  /\ List(<<>>)
  /\ \A a : List(<<a>>) /\ Among(a, <<a>>)
  /\ \A a, b : List(<<a, b>>)
  /\ \A a, b, c : List(<<a, b, c>>)
  /\ \A a, b, c, d : List(<<a, b, c, d>>)
<1>1. List(<<>>)
  <2>1. <<>> \in Seq({})  OBVIOUS
  <2> QED  BY <2>1, Listed
<1>2. ASSUME NEW a  PROVE List(<<a>>) /\ Among(a, <<a>>)
  <2>1. <<a>> \in Seq({a}) /\ 1 \in DOMAIN <<a>> /\ <<a>>[1] = a  OBVIOUS
  <2> QED  BY <2>1, Listed DEF Among
<1>3. ASSUME NEW a, NEW b  PROVE List(<<a, b>>)
  <2>1. <<a, b>> \in Seq({a, b})  OBVIOUS
  <2> QED  BY <2>1, Listed
<1>4. ASSUME NEW a, NEW b, NEW c  PROVE List(<<a, b, c>>)
  <2>1. <<a, b, c>> \in Seq({a, b, c})  OBVIOUS
  <2> QED  BY <2>1, Listed
<1>5. ASSUME NEW a, NEW b, NEW c, NEW d  PROVE List(<<a, b, c, d>>)
  <2>1. <<a, b, c, d>> \in Seq({a, b, c, d})  OBVIOUS
  <2> QED  BY <2>1, Listed
<1> QED  BY <1>1, <1>2, <1>3, <1>4, <1>5

\* Every operator is asked with every value.
LEMMA EachHolds ==
  ASSUME NEW c, NEW ops, List(ops), Len(ops) \in {6, 7}, NEW values, List(values)
  PROVE  /\ List(EachOf(c, ops, values))
         /\ \A op, v : Among(op, ops) /\ Among(v, values) => Among(Is(c, op, v), EachOf(c, ops, values))
<1> DEFINE n == Len(ops)
           m == Len(values)
           at(i) == Is(c, ops[((i - 1) % n) + 1], values[((i - 1) \div n) + 1])
           all == [i \in 1..(n * m) |-> at(i)]
<1>1. n \in {6, 7} /\ DOMAIN ops = 1..n  BY SequenceIs DEF List
<1>2. m \in Nat /\ DOMAIN values = 1..m  BY SequenceIs DEF List
<1>3. EachOf(c, ops, values) = all  BY DEF EachOf
<1>4. n * m \in Nat
  <2>1. CASE n = 6  BY <1>2, <2>1
  <2>2. CASE n = 7  BY <1>2, <2>2
  <2> QED  BY <1>1, <2>1, <2>2
<1> HIDE DEF n, m, at
<1>5. List(all)  BY <1>4, ListIs
<1>6. ASSUME NEW a \in 1..n, NEW b \in 1..m  PROVE Among(Is(c, ops[a], values[b]), all)
  <2> DEFINE i == n * (b - 1) + a
  <2>1. i \in 1..(n * m) /\ (i - 1) % n = a - 1 /\ (i - 1) \div n = b - 1
    <3>1. CASE n = 6  BY <1>2, <3>1
    <3>2. CASE n = 7  BY <1>2, <3>2
    <3> QED  BY <1>1, <3>1, <3>2
  <2> HIDE DEF i
  <2>2. a \in Int /\ b \in Int  BY <1>1, <1>2
  <2>3. (a - 1) + 1 = a /\ (b - 1) + 1 = b  BY <2>2
  <2>4. at(i) = Is(c, ops[a], values[b])  BY <2>1, <2>3 DEF at
  <2> QED  BY <2>1, <2>4 DEF Among
<1>7. \A op, v : Among(op, ops) /\ Among(v, values) => Among(Is(c, op, v), all)
  BY <1>1, <1>2, <1>6 DEF Among
<1> QED  BY <1>3, <1>5, <1>7

\* The operators, and where one more is asked.
LEMMA OperatorsAre ==
  /\ List(Comparisons) /\ Len(Comparisons) = 6
  /\ List(Append(Comparisons, "null_safe")) /\ Len(Append(Comparisons, "null_safe")) = 7
  /\ Operators = {"eq", "lt", "le", "gt", "ge", "ne"}
  /\ \A op \in Operators : Among(op, Comparisons) /\ Among(op, Append(Comparisons, "null_safe"))
<1> DEFINE more == Append(Comparisons, "null_safe")
<1>1. Comparisons = <<"eq", "lt", "le", "gt", "ge", "ne">>  BY DEF Comparisons
<1>2. Comparisons \in Seq({"eq", "lt", "le", "gt", "ge", "ne"}) /\ Len(Comparisons) = 6 /\ DOMAIN Comparisons = 1..6
  <2>1. Comparisons \in Seq({"eq", "lt", "le", "gt", "ge", "ne"})  BY <1>1
  <2>2. Len(Comparisons) = 6  BY <1>1
  <2> QED  BY <2>1, <2>2, SequenceIs
<1>3. List(Comparisons)  BY <1>2, Listed
<1>4. /\ more \in Seq({"eq", "lt", "le", "gt", "ge", "ne", "null_safe"}) /\ Len(more) = 7 /\ DOMAIN more = 1..7
      /\ \A i \in 1..6 : more[i] = Comparisons[i]
  <2> DEFINE S == {"eq", "lt", "le", "gt", "ge", "ne", "null_safe"}
  <2>1. Comparisons \in Seq(S)  BY <1>1
  <2> HIDE DEF S
  <2>2. "null_safe" \in S  BY DEF S
  <2> HIDE DEF more
  <2>3. more = Append(Comparisons, "null_safe")  BY DEF more
  <2>4. more \in Seq(S)  BY <2>1, <2>2, <2>3
  <2>5. Len(more) = Len(Comparisons) + 1  BY <2>1, <2>2, <2>3
  <2>6. \A i \in 1..Len(Comparisons) : more[i] = Comparisons[i]  BY <2>1, <2>2, <2>3
  <2> QED  BY <1>2, <2>4, <2>5, <2>6, SequenceIs DEF S
<1>a. List(more)  BY <1>4, Listed
<1> HIDE DEF more
<1>5. Operators = {"eq", "lt", "le", "gt", "ge", "ne"}  BY <1>1, <1>2 DEF Operators
<1>6. ASSUME NEW op \in Operators  PROVE Among(op, Comparisons) /\ Among(op, more)
  <2>1. PICK i \in 1..6 : Comparisons[i] = op  BY <1>1, <1>5
  <2> QED  BY <1>2, <1>4, <2>1 DEF Among
<1> QED  BY <1>2, <1>3, <1>4, <1>a, <1>5, <1>6 DEF more

\* The values around the boundaries.
Beside(edges) == UNION {{e - 1, e, e + 1} : e \in edges}

\* They are all asked.
LEMMA AroundHolds ==
  ASSUME NEW a \in Int, NEW b \in Int, NEW edges, edges \subseteq a..b
  PROVE  List(Around(edges)) /\ \A v \in Beside(edges) : Among(v, Around(edges))
<1>1. Beside(edges) \subseteq (a - 1)..(b + 1)  BY DEF Beside
<1>2. IsFiniteSet(Beside(edges)) /\ Beside(edges) \subseteq Int  BY <1>1, FS_Interval, FS_Subset
<1>3. Around(edges) = Sorted(Beside(edges))  BY DEF Around, Beside
<1> QED  BY <1>2, <1>3, SortedHolds, SortedList

\* Every operator is asked of every value of a set.
AsksAll(preds, c, vs) == \A op \in Operators, v \in vs : Among(Is(c, op, v), preds)

\* What is built from the boundaries of a partitioned table.
LEMMA BoundaryPredicates ==
  ASSUME NEW c, NEW a \in Int, NEW b \in Int, NEW edges, edges \subseteq a..b, NEW nullable \in BOOLEAN
  PROVE  /\ List(numeric_boundary_predicates(c, edges, nullable))
         /\ AsksAll(numeric_boundary_predicates(c, edges, nullable), c, Beside(edges))
<1> DEFINE v == Around(edges)
           s == IF nullable THEN <<IsNull(c)>> ELSE <<>>
           t == EachOf(c, Comparisons, v)
           u == [i \in 1..(Len(v) - 2) |-> Over(c, "between", <<v[i], v[i + 2]>>)]
           w == <<Over(c, "in", Upto(EveryOther(v, 1), 6)), OrSplit(c, v)>>
           x == IF nullable THEN <<OrNull(c, v)>> ELSE <<>>
           all == s \o t \o u \o w \o x
<1>1. numeric_boundary_predicates(c, edges, nullable) = dedupe_predicates(all)
  BY DEF numeric_boundary_predicates
<1>2. List(v) /\ \A y \in Beside(edges) : Among(y, v)  BY AroundHolds
<1>3. List(t) /\ AsksAll(t, c, Beside(edges))  BY <1>2, EachHolds, OperatorsAre DEF AsksAll
<1>4. List(s) /\ List(x) /\ List(w)  BY WrittenLists
<1>5. List(u)
  <2>1. Len(v) \in Nat  BY <1>2, SequenceIs DEF List
  <2>2. CASE Len(v) > 1  BY <2>1, <2>2, ListIs
  <2>3. CASE Len(v) <= 1
    <3>1. u = <<>>  BY <2>1, <2>3
    <3> QED  BY <3>1, WrittenLists
  <2> QED  BY <2>1, <2>2, <2>3
<1> HIDE DEF s, t, u, w, x, v
<1>6. List(s \o t) /\ \A y : Among(y, t) => Among(y, s \o t)  BY <1>3, <1>4, JoinedHolds
<1>7. List(s \o t \o u) /\ \A y : Among(y, t) => Among(y, s \o t \o u)  BY <1>5, <1>6, JoinedHolds
<1>8. List(s \o t \o u \o w) /\ \A y : Among(y, t) => Among(y, s \o t \o u \o w)  BY <1>4, <1>7, JoinedHolds
<1>9. List(all) /\ \A y : Among(y, t) => Among(y, all)  BY <1>4, <1>8, JoinedHolds
<1> HIDE DEF all
<1> QED  BY <1>1, <1>3, <1>9, DedupeKeeps DEF AsksAll

\* What is built from those of a table with a global index.
LEMMA GlobalPredicates ==
  ASSUME NEW c, NEW a \in Int, NEW b \in Int, NEW edges, edges \subseteq a..b, NEW nullable \in BOOLEAN
  PROVE  /\ List(numeric_preds(c, edges, nullable))
         /\ AsksAll(numeric_preds(c, edges, nullable), c, Beside(edges))
<1> DEFINE v == Around(edges)
           s == IF nullable THEN <<IsNull(c), Over(c, "null_safe_null", <<>>)>> ELSE <<>>
           t == EachOf(c, Append(Comparisons, "null_safe"), v)
           w == <<Over(c, "between", <<v[2], v[Len(v) - 1]>>), Over(c, "in", EveryOther(v, 1)),
                  Over(c, "not_in", EveryOther(v, 2)), OrSplit(c, v)>>
           x == IF nullable THEN <<OrNull(c, v)>> ELSE <<>>
           all == s \o t \o w \o x
<1>1. numeric_preds(c, edges, nullable) = dedupe_predicates(all)  BY DEF numeric_preds
<1>2. List(v) /\ \A y \in Beside(edges) : Among(y, v)  BY AroundHolds
<1>3. List(t) /\ AsksAll(t, c, Beside(edges))  BY <1>2, EachHolds, OperatorsAre DEF AsksAll
<1>4. List(s) /\ List(x)  BY WrittenLists
<1>5. List(w)  BY ListIs
<1> HIDE DEF s, t, w, x, v
<1>6. List(s \o t) /\ \A y : Among(y, t) => Among(y, s \o t)  BY <1>3, <1>4, JoinedHolds
<1>7. List(s \o t \o w) /\ \A y : Among(y, t) => Among(y, s \o t \o w)  BY <1>5, <1>6, JoinedHolds
<1>8. List(all) /\ \A y : Among(y, t) => Among(y, all)  BY <1>4, <1>7, JoinedHolds
<1> HIDE DEF all
<1> QED  BY <1>1, <1>3, <1>8, DedupeKeeps DEF AsksAll

\* Five predicates that are written down are a list,
LEMMA FiveListed ==
  ASSUME NEW a, NEW b, NEW c, NEW d, NEW e
  PROVE  List(<<a, b, c, d, e>>)
<1>1. <<a, b, c, d, e>> \in Seq({a, b, c, d, e})  OBVIOUS
<1> QED  BY <1>1, Listed

\* so are six,
LEMMA SixListed ==
  ASSUME NEW a, NEW b, NEW c, NEW d, NEW e, NEW f
  PROVE  List(<<a, b, c, d, e, f>>)
<1>1. <<a, b, c, d, e, f>> \in Seq({a, b, c, d, e, f})  OBVIOUS
<1> QED  BY <1>1, Listed

\* seven,
LEMMA SevenListed ==
  ASSUME NEW a, NEW b, NEW c, NEW d, NEW e, NEW f, NEW g
  PROVE  List(<<a, b, c, d, e, f, g>>)
<1>1. <<a, b, c, d, e, f, g>> \in Seq({a, b, c, d, e, f, g})  OBVIOUS
<1> QED  BY <1>1, Listed

\* eight,
LEMMA EightListed ==
  ASSUME NEW a, NEW b, NEW c, NEW d, NEW e, NEW f, NEW g, NEW h
  PROVE  List(<<a, b, c, d, e, f, g, h>>)
<1>1. <<a, b, c, d, e, f, g, h>> \in Seq({a, b, c, d, e, f, g, h})  OBVIOUS
<1> QED  BY <1>1, Listed

\* and nine.
LEMMA NineListed ==
  ASSUME NEW a, NEW b, NEW c, NEW d, NEW e, NEW f, NEW g, NEW h, NEW i
  PROVE  List(<<a, b, c, d, e, f, g, h, i>>)
<1>1. <<a, b, c, d, e, f, g, h, i>> \in Seq({a, b, c, d, e, f, g, h, i})  OBVIOUS
<1> QED  BY <1>1, Listed
-----------------------------------------------------------------------------
(* The cases *)

\* A list that has something in it.
Full(s) == List(s) /\ \E x : Among(x, s)

\* Its places are the numbers from 1 on, and there is a first one.
Numbered(s) == \E n \in Nat \ {0} : DOMAIN s = 1..n

\* So are the places of the queries made of it.
LEMMA AskedNumbered == ASSUME NEW s, Numbered(s)  PROVE Numbered(Asked(s))
  BY DEF Numbered, Asked

\* So are those of a full one.
LEMMA FullNumbered == ASSUME NEW s, Full(s)  PROVE Numbered(s) /\ Numbered(Asked(s))
<1>1. Len(s) \in Nat /\ DOMAIN s = 1..Len(s)  BY SequenceIs DEF Full, List
<1>2. Len(s) # 0  BY <1>1 DEF Full, Among
<1>3. DOMAIN Asked(s) = DOMAIN s  BY DEF Asked
<1> QED  BY <1>1, <1>2, <1>3 DEF Numbered

\* It stays one when it is made longer, and when what is there twice is dropped.
LEMMA FullJoined ==
  ASSUME NEW s, NEW t, Full(s), List(t)
  PROVE  Full(s \o t) /\ Full(dedupe_predicates(s)) /\ Full(dedupe_predicates(s \o t))
<1>1. PICK x : Among(x, s)  BY DEF Full
<1>2. List(s \o t) /\ Among(x, s \o t)  BY <1>1, JoinedHolds DEF Full
<1>3. List(dedupe_predicates(s)) /\ Among(x, dedupe_predicates(s))  BY <1>1, DedupeKeeps DEF Full
<1>4. List(dedupe_predicates(s \o t)) /\ Among(x, dedupe_predicates(s \o t))  BY <1>2, DedupeKeeps
<1> QED  BY <1>2, <1>3, <1>4 DEF Full

\* The predicates of numbers are such a list,
LEMMA NumbersFull ==
  ASSUME NEW c, NEW a \in Int, NEW b \in Int, NEW edges, edges \subseteq a..b, edges # {}, NEW nullable \in BOOLEAN
  PROVE  Full(numeric_boundary_predicates(c, edges, nullable)) /\ Full(numeric_preds(c, edges, nullable))
<1>1. PICK v : v \in Beside(edges)
  <2>1. PICK e : e \in edges  OBVIOUS
  <2>2. e \in Beside(edges)  BY <2>1 DEF Beside
  <2> QED  BY <2>2
<1>2. "eq" \in Operators  BY OperatorsAre
<1>3. List(numeric_boundary_predicates(c, edges, nullable)) /\ AsksAll(numeric_boundary_predicates(c, edges, nullable), c, Beside(edges))
  BY BoundaryPredicates
<1>4. List(numeric_preds(c, edges, nullable)) /\ AsksAll(numeric_preds(c, edges, nullable), c, Beside(edges))
  BY GlobalPredicates
<1> QED  BY <1>1, <1>2, <1>3, <1>4 DEF Full, AsksAll

\* the same for both columns of the tables with two,
LEMMA ColumnsFull ==
  ASSUME NEW c, NEW nullable \in BOOLEAN,
         NEW edges \in {{0, 3, 10}, {3, 4, 7, 11}, {0, 1, 3, 10}, {1, 2, 3}, {0, 10, 20}}
  PROVE  Full(numeric_boundary_predicates(c, edges, nullable)) /\ Full(numeric_preds(c, edges, nullable))
<1>1. edges \subseteq 0..20 /\ edges # {} /\ 0 \in Int /\ 20 \in Int  OBVIOUS
<1> QED  BY <1>1, NumbersFull

\* What is sorted between two numbers is a list.
LEMMA BoundedList == ASSUME NEW a \in Int, NEW b \in Int, NEW S, S \subseteq a..b  PROVE List(Sorted(S))
<1>1. IsFiniteSet(a..b) /\ S \subseteq Int  BY FS_Interval
<1>2. IsFiniteSet(S)  BY <1>1, FS_Subset
<1> QED  BY <1>1, <1>2, SortedList

\* those of strings,
LEMMA StringsFull == ASSUME NEW edges, edges \subseteq 0..26  PROVE Full(string_boundary_predicates(1, edges))
<1> DEFINE S == {Letter[x] : x \in {"empty", "a", "b", "c", "l", "m", "n", "z"}} \cup edges
           v == Sorted(S)
           s == <<IsNull(1)>>
           t == EachOf(1, Comparisons, v)
           u == <<Over(1, "between", <<Letter.a, Letter.m>>),
                  Over(1, "in", <<Letter.empty, Letter.a, Letter.b, Letter.m, Letter.z>>),
                  Or(Is(1, "lt", Letter.b), IsNull(1)), Is(1, "cast_eq", Letter.b)>>
<1>1. S \subseteq 0..26
  <2>1. \A x \in {"empty", "a", "b", "c", "l", "m", "n", "z"} : Letter[x] \in 0..26
    <3>1. Letter["empty"] = 0 /\ Letter["a"] = 1 /\ Letter["b"] = 2 /\ Letter["c"] = 3  BY DEF Letter
    <3>2. Letter["l"] = 12 /\ Letter["m"] = 13 /\ Letter["n"] = 14 /\ Letter["z"] = 26  BY DEF Letter
    <3> QED  BY <3>1, <3>2
  <2> QED  BY <2>1
<1> HIDE DEF S
<1>2. List(v)
  <2>1. 0 \in Int /\ 26 \in Int  OBVIOUS
  <2> QED  BY <1>1, <2>1, BoundedList
<1>3. string_boundary_predicates(1, edges) = dedupe_predicates(s \o t \o u)  BY DEF string_boundary_predicates, S
<1>4. Full(s)  BY WrittenLists DEF Full
<1>5. List(u)  BY WrittenLists
<1> HIDE DEF v
<1>6. List(t)  BY <1>2, EachHolds, OperatorsAre
<1> HIDE DEF s, t, u
<1>7. Full(s \o t)  BY <1>4, <1>6, FullJoined
<1> QED  BY <1>3, <1>5, <1>7, FullJoined

\* and those of dates.
LEMMA DatesFull == Full(date_boundary_predicates(1, {101, 132}))
<1> DEFINE S == {1, 100, 101, 102, 131, 132, 467} \cup {101, 132}
           v == Sorted(S)
           s == <<IsNull(1)>>
           t == EachOf(1, Comparisons, v)
           u == <<Over(1, "between", <<101, 132>>), Over(1, "in", <<101, 102, 132, 467>>),
                  Or(Is(1, "lt", 102), Is(1, "ge", 467)), Is(1, "cast_eq", 101)>>
<1>1. S \subseteq 0..467  OBVIOUS
<1>2. List(v)
  <2> HIDE DEF S
  <2>1. 0 \in Int /\ 467 \in Int  OBVIOUS
  <2> QED  BY <1>1, <2>1, BoundedList
<1>3. date_boundary_predicates(1, {101, 132}) = dedupe_predicates(s \o t \o u)  BY DEF date_boundary_predicates
<1>4. Full(s)  BY WrittenLists DEF Full
<1>5. List(u)  BY WrittenLists
<1> HIDE DEF v
<1>6. List(t)  BY <1>2, EachHolds, OperatorsAre
<1> HIDE DEF s, t, u
<1>7. Full(s \o t)  BY <1>4, <1>6, FullJoined
<1> QED  BY <1>3, <1>5, <1>7, FullJoined

\* Every partitioned table is asked something,
LEMMA PrunedFull ==
  \A t \in {range_columns_int, range_columns_multi, range_columns_date,
     range_columns_unsigned_multi, range_columns_string, range_expr_floor_unix_timestamp,
     list_columns_int_default, list_columns_multi_default, list_columns_string_default} : Full(t.preds)
<1>1. Full(range_columns_int.preds)
  <2>1. Full(numeric_boundary_predicates(1, {0, 3, 10}, TRUE))  BY ColumnsFull
  <2>2. Full(int_predicates)  BY <2>1, NineListed, FullJoined DEF int_predicates
  <2> QED  BY <2>2 DEF range_columns_int, Table
<1>2. Full(range_columns_multi.preds)
  <2>1. Full(numeric_boundary_predicates(1, {0, 3, 10}, TRUE)) /\ List(numeric_boundary_predicates(2, {0, 3, 10}, FALSE))
    BY ColumnsFull DEF Full
  <2>2. Full(numeric_boundary_predicates(1, {0, 3, 10}, TRUE) \o numeric_boundary_predicates(2, {0, 3, 10}, FALSE))
    BY <2>1, FullJoined
  <2>3. Full(multi_predicates)  BY <2>2, SevenListed, FullJoined DEF multi_predicates
  <2> QED  BY <2>3 DEF range_columns_multi, Table
<1>3. Full(range_columns_date.preds)
  <2>1. Full(date_predicates)  BY DatesFull, FiveListed, FullJoined DEF date_predicates
  <2> QED  BY <2>1 DEF range_columns_date, Table
<1>4. Full(range_columns_unsigned_multi.preds)
  <2>1. Full(numeric_boundary_predicates(1, {3, 4, 7, 11}, FALSE))  BY ColumnsFull
  <2>2. Full(unsigned_predicates)  BY <2>1, WrittenLists, FullJoined DEF unsigned_predicates
  <2> QED  BY <2>2 DEF range_columns_unsigned_multi, Table
<1>5. Full(range_columns_string.preds)
  <2>1. {Letter.b, Letter.m} \subseteq 0..26  BY DEF Letter
  <2> QED  BY <2>1, StringsFull DEF range_columns_string, Table
<1>6. Full(range_expr_floor_unix_timestamp.preds)
  <2>1. Full(ts_predicates)
    <3>1. List(ts_predicates)  BY EightListed DEF ts_predicates
    <3>2. Among(ts_predicates[1], ts_predicates)  BY DEF ts_predicates, Among
    <3> QED  BY <3>1, <3>2 DEF Full
  <2> QED  BY <2>1 DEF range_expr_floor_unix_timestamp, Table
<1>7. Full(list_columns_int_default.preds)
  <2>1. Full(numeric_boundary_predicates(1, {0, 1, 3, 10}, TRUE))  BY ColumnsFull
  <2>2. Full(list_int_predicates)  BY <2>1, SixListed, FullJoined DEF list_int_predicates
  <2> QED  BY <2>2 DEF list_columns_int_default, Table
<1>8. Full(list_columns_multi_default.preds)
  <2>1. Full(numeric_boundary_predicates(1, {1, 2, 3}, TRUE)) /\ List(numeric_boundary_predicates(2, {1, 2, 3}, TRUE))
    BY ColumnsFull DEF Full
  <2>2. Full(numeric_boundary_predicates(1, {1, 2, 3}, TRUE) \o numeric_boundary_predicates(2, {1, 2, 3}, TRUE))
    BY <2>1, FullJoined
  <2>3. List(tuple_predicates)  BY NineListed DEF tuple_predicates
  <2>4. Full(list_multi_predicates)  BY <2>2, <2>3, FullJoined DEF list_multi_predicates
  <2> QED  BY <2>4 DEF list_columns_multi_default, Table
<1>9. Full(list_columns_string_default.preds)
  <2>1. {Letter.d, Letter.y} \subseteq 0..26  BY DEF Letter
  <2>2. Full(list_string_predicates)  BY <2>1, StringsFull, FiveListed, FullJoined DEF list_string_predicates
  <2> QED  BY <2>2 DEF list_columns_string_default, Table
<1> HIDE DEF Full
<1> QED  BY <1>1, <1>2, <1>3, <1>4, <1>5, <1>6, <1>7, <1>8, <1>9

\* and so is every one with a global index.
LEMMA GlobalFull ==
  \A t \in {range_columns_int_global, range_columns_multi_global,
     list_columns_int_default_global, list_columns_multi_default_global} : Full(t.preds)
<1>1. Full(range_columns_int_global.preds)
  <2>1. Full(numeric_preds(1, {0, 10, 20}, TRUE))  BY ColumnsFull
  <2>2. Full(int_preds)  BY <2>1, WrittenLists, FullJoined DEF int_preds
  <2> QED  BY <2>2 DEF range_columns_int_global, Table
<1>2. Full(range_columns_multi_global.preds)
  <2>1. Full(numeric_preds(1, {0, 3, 10}, TRUE)) /\ List(numeric_preds(2, {0, 3, 10}, TRUE))
    BY ColumnsFull DEF Full
  <2>2. Full(numeric_preds(1, {0, 3, 10}, TRUE) \o numeric_preds(2, {0, 3, 10}, TRUE))  BY <2>1, FullJoined
  <2>3. Full(multi_preds)  BY <2>2, SixListed, FullJoined DEF multi_preds
  <2> QED  BY <2>3 DEF range_columns_multi_global, Table
<1>3. Full(list_columns_int_default_global.preds)
  <2>1. Full(numeric_preds(1, {0, 1, 3, 10}, TRUE))  BY ColumnsFull
  <2>2. Full(list_preds)  BY <2>1, WrittenLists, FullJoined DEF list_preds
  <2> QED  BY <2>2 DEF list_columns_int_default_global, Table
<1>4. Full(list_columns_multi_default_global.preds)
  <2>1. Full(numeric_preds(1, {1, 2, 3}, TRUE)) /\ List(numeric_preds(2, {1, 2, 3}, TRUE))
    BY ColumnsFull DEF Full
  <2>2. Full(numeric_preds(1, {1, 2, 3}, TRUE) \o numeric_preds(2, {1, 2, 3}, TRUE))  BY <2>1, FullJoined
  <2>3. List(tuple_predicates)  BY NineListed DEF tuple_predicates
  <2>4. Full(list_multi_preds)  BY <2>2, <2>3, FullJoined DEF list_multi_preds
  <2> QED  BY <2>4 DEF list_columns_multi_default_global, Table
<1> QED  BY <1>1, <1>2, <1>3, <1>4

\* Only a failure of the reference itself is read as no rows.
OneBlind(k) == k.blind \subseteq {"direct"}

\* And something is asked, one query after the other.
Regular(k) == OneBlind(k) /\ Numbered(k.queries)

\* So it is with a case that is put together of these parts.
LEMMA Constructed ==
  ASSUME NEW table, NEW queries, NEW base, NEW others, NEW raises, NEW blind, blind \subseteq {"direct"},
         Numbered(queries)
  PROVE  Regular(Case(table, queries, base, others, raises, blind))
  BY DEF Regular, OneBlind, Case

\* So have the cases of the plan cache,
LEMMA DriftBlind ==
  ASSUME NEW kind, NEW parts, NEW rows, NEW queries, Numbered(queries)
  PROVE  Regular(DriftCase(kind, parts, rows, queries))
  BY Constructed DEF DriftCase

\* those over a partitioned table,
LEMMA PrunedBlind == ASSUME NEW table, Full(table.preds)  PROVE Regular(Pruned(table))
  BY Constructed, FullNumbered DEF Pruned

\* those over a partial index,
LEMMA FixedBlind == ASSUME NEW cond, NEW as, NEW preds, Numbered(preds)  PROVE Regular(FixedCase(cond, as, preds))
  BY Constructed, AskedNumbered DEF FixedCase, compare_query

\* those of a plan that is prepared once,
LEMMA CachedBlind == ASSUME NEW cond, NEW preds, Numbered(preds)  PROVE Regular(PlanCacheCase(cond, preds))
  BY Constructed, AskedNumbered DEF PlanCacheCase

\* those of the matrix of conditions,
LEMMA MatrixBlind == ASSUME NEW i  PROVE Regular(matrix_case(i))
<1>1. Len(matrix_predicates) = 19  BY DEF matrix_predicates
<1>2. Len(matrix_orders) = 3  BY DEF matrix_orders
<1>3. DOMAIN InOrders(matrix_predicates, matrix_orders) = 1..57  BY <1>1, <1>2 DEF InOrders
<1>4. Numbered(InOrders(matrix_predicates, matrix_orders))
  <2> SUFFICES \E n \in Nat \ {0} : DOMAIN InOrders(matrix_predicates, matrix_orders) = 1..n  BY DEF Numbered
  <2> WITNESS 57 \in Nat \ {0}
  <2> QED  BY <1>3
<1> QED  BY <1>4, Constructed DEF matrix_case

\* and those without a hint.
LEMMA NoHintBlind == ASSUME NEW data, NEW name  PROVE Regular(no_hint_case(data, name))
<1> DEFINE target == no_hint_target_cases[name]
<1>1. Len(<<target[2]>>) = 1  OBVIOUS
<1>2. Len(no_hint_orders) = 2  BY DEF no_hint_orders
<1>3. DOMAIN InOrders(<<target[2]>>, no_hint_orders) = 1..2  BY <1>1, <1>2 DEF InOrders
<1>4. Numbered(InOrders(<<target[2]>>, no_hint_orders))
  <2> DEFINE queries == InOrders(<<target[2]>>, no_hint_orders)
  <2> HIDE DEF queries
  <2>1. DOMAIN queries = 1..2  BY <1>3 DEF queries
  <2>2. Numbered(queries)  BY <2>1 DEF Numbered
  <2> QED  BY <2>2 DEF queries
<1> QED  BY <1>4, Constructed DEF no_hint_case

\* What is written down is numbered.
LEMMA TupleNumbered ==
  /\ \A a : Numbered(<<a>>)
  /\ \A a, b : Numbered(<<a, b>>)
  /\ \A a, b, c : Numbered(<<a, b, c>>)
  /\ \A a, b, c, d : Numbered(<<a, b, c, d>>)
  /\ \A a, b, c, d, e : Numbered(<<a, b, c, d, e>>)
  /\ \A a, b, c, d, e, f : Numbered(<<a, b, c, d, e, f>>)
  BY DEF Numbered

\* The partition probe has nine of them.
LEMMA PartitionCases ==
  LET cs == Cases["partition_prune"] IN DOMAIN cs = 1..9 /\ \A c \in 1..9 : Regular(cs[c])
<1> DEFINE cs == Cases["partition_prune"]
<1>1. cs = <<Pruned(range_columns_int), Pruned(range_columns_multi), Pruned(range_columns_date),
     Pruned(range_columns_unsigned_multi), Pruned(range_columns_string), Pruned(range_expr_floor_unix_timestamp),
     Pruned(list_columns_int_default), Pruned(list_columns_multi_default), Pruned(list_columns_string_default)>>
  BY DEF Cases
<1> HIDE DEF cs
<1>2. DOMAIN cs = 1..9  BY <1>1
<1>3. ASSUME NEW c \in 1..9  PROVE \E t : cs[c] = Pruned(t) /\ Full(t.preds)  BY <1>1, PrunedFull
<1>4. \A c \in 1..9 : Regular(cs[c])  BY <1>3, PrunedBlind
<1> QED  BY <1>2, <1>4 DEF cs

\* The probe of global indexes has four.
LEMMA GlobalCases ==
  LET cs == Cases["global_index_prune"] IN DOMAIN cs = 1..4 /\ \A c \in 1..4 : Regular(cs[c])
<1> DEFINE cs == Cases["global_index_prune"]
<1>1. cs = <<Pruned(range_columns_int_global), Pruned(range_columns_multi_global),
          Pruned(list_columns_int_default_global), Pruned(list_columns_multi_default_global)>>
  BY DEF Cases
<1> HIDE DEF cs
<1>2. DOMAIN cs = 1..4  BY <1>1
<1>3. ASSUME NEW c \in 1..4  PROVE \E t : cs[c] = Pruned(t) /\ Full(t.preds)  BY <1>1, GlobalFull
<1> QED  BY <1>2, <1>3, PrunedBlind DEF cs

\* The partial-index probe has nine that are written down,
LEMMA FixedCases ==
  LET cs == Cases["partial_fixed"] IN DOMAIN cs = 1..9 /\ \A c \in 1..9 : Regular(cs[c])
<1> DEFINE cs == Cases["partial_fixed"]
<1>1. cs = <<gt_boundary, gte_boundary_in_or_between, is_not_null_plan_cache_shape, is_null,
          dml_membership_transition, topn_ordered, string_collation, pc_is_not_null_nulleq, pc_gt_threshold>>
  BY DEF Cases
<1> HIDE DEF cs
<1>2. DOMAIN cs = 1..9  BY <1>1
<1>3. Regular(gt_boundary)  BY FixedBlind, TupleNumbered DEF gt_boundary
<1>4. Regular(gte_boundary_in_or_between)  BY FixedBlind, TupleNumbered DEF gte_boundary_in_or_between
<1>5. Regular(is_not_null_plan_cache_shape)  BY FixedBlind, TupleNumbered DEF is_not_null_plan_cache_shape
<1>6. Regular(is_null)  BY FixedBlind, TupleNumbered DEF is_null
<1>7. Regular(dml_membership_transition)  BY FixedBlind, TupleNumbered DEF dml_membership_transition
<1>8. Regular(topn_ordered)  BY Constructed, TupleNumbered DEF topn_ordered, compare_query
<1>9. Regular(string_collation)  BY FixedBlind, TupleNumbered DEF string_collation
<1>10. Regular(pc_is_not_null_nulleq)  BY CachedBlind, TupleNumbered DEF pc_is_not_null_nulleq
<1>11. Regular(pc_gt_threshold)  BY CachedBlind, TupleNumbered DEF pc_gt_threshold
<1>12. ASSUME NEW c \in 1..9  PROVE Regular(cs[c])
  BY <1>1, <1>3, <1>4, <1>5, <1>6, <1>7, <1>8, <1>9, <1>10, <1>11
<1> QED  BY <1>2, <1>12 DEF cs

\* fourteen that are generated,
LEMMA MatrixCases ==
  LET cs == Cases["partial_matrix"] IN DOMAIN cs = 1..14 /\ \A c \in 1..14 : Regular(cs[c])
<1> DEFINE cs == Cases["partial_matrix"]
<1>1. cs = [i \in DOMAIN matrix_conditions |-> matrix_case(i)]  BY DEF Cases
<1>2. DOMAIN matrix_conditions = 1..14  BY DEF matrix_conditions
<1> HIDE DEF cs
<1> QED  BY <1>1, <1>2, MatrixBlind DEF cs

\* and nine without a hint.
LEMMA NoHintCases ==
  LET cs == Cases["partial_no_hint"] IN DOMAIN cs = 1..9 /\ \A c \in 1..9 : Regular(cs[c])
<1> DEFINE cs == Cases["partial_no_hint"]
           data(i) == <<"matrix_small", "topn_nonpartial_low_b", "boundary_low_b">>[((i - 1) \div 3) + 1]
           name(i) == <<"upper_lt3_ge0", "upper_le10_or_widen", "excluded_ne3_range">>[((i - 1) % 3) + 1]
<1>1. cs = [i \in 1..9 |-> no_hint_case(data(i), name(i))]  BY DEF Cases
<1> HIDE DEF cs, data, name
<1> QED  BY <1>1, NoHintBlind DEF cs

\* The plan-cache probe has twelve.
LEMMA DriftCases ==
  LET cs == Cases["plan_cache_drift"] IN DOMAIN cs = 1..12 /\ \A c \in 1..12 : Regular(cs[c])
<1> DEFINE cs == Cases["plan_cache_drift"]
<1>1. cs = <<point_get_cache_baseline, normal_index_range_cache_baseline, limit_param_cache_key_guard,
          partial_index_is_not_null_nulleq, partial_index_is_not_null_eq, partial_index_gt_threshold,
          partition_range_boundary, partition_dynamic_between_boundary,
          partition_dynamic_list_default_range, partition_dynamic_list_multi_default_point,
          predicate_simplification_null_in, index_merge_or_point_range>>
  BY DEF Cases
<1> HIDE DEF cs
<1>2. DOMAIN cs = 1..12  BY <1>1
<1>3. Regular(point_get_cache_baseline)  BY DriftBlind, TupleNumbered, AskedNumbered DEF point_get_cache_baseline, For
<1>4. Regular(normal_index_range_cache_baseline)  BY DriftBlind, TupleNumbered, AskedNumbered DEF normal_index_range_cache_baseline, For
<1>5. Regular(limit_param_cache_key_guard)  BY DriftBlind, TupleNumbered, AskedNumbered DEF limit_param_cache_key_guard
<1>6. Regular(partial_index_is_not_null_nulleq)  BY DriftBlind, TupleNumbered, AskedNumbered DEF partial_index_is_not_null_nulleq, For
<1>7. Regular(partial_index_is_not_null_eq)  BY DriftBlind, TupleNumbered, AskedNumbered DEF partial_index_is_not_null_eq, For
<1>8. Regular(partial_index_gt_threshold)  BY DriftBlind, TupleNumbered, AskedNumbered DEF partial_index_gt_threshold, For
<1>9. Regular(partition_range_boundary)  BY DriftBlind, TupleNumbered, AskedNumbered DEF partition_range_boundary, For
<1>10. Regular(partition_dynamic_between_boundary)  BY DriftBlind, TupleNumbered, AskedNumbered DEF partition_dynamic_between_boundary, For
<1>11. Regular(partition_dynamic_list_default_range)  BY DriftBlind, TupleNumbered, AskedNumbered DEF partition_dynamic_list_default_range, For
<1>12. Regular(partition_dynamic_list_multi_default_point)  BY DriftBlind, TupleNumbered, AskedNumbered DEF partition_dynamic_list_multi_default_point, For
<1>13. Regular(predicate_simplification_null_in)  BY DriftBlind, TupleNumbered, AskedNumbered DEF predicate_simplification_null_in, For
<1>14. Regular(index_merge_or_point_range)  BY DriftBlind, TupleNumbered, AskedNumbered DEF index_merge_or_point_range, For
<1>15. ASSUME NEW c \in 1..12  PROVE Regular(cs[c])
  BY <1>1, <1>3, <1>4, <1>5, <1>6, <1>7, <1>8, <1>9, <1>10, <1>11, <1>12, <1>13, <1>14
<1> QED  BY <1>2, <1>15 DEF cs

\* Every probe has cases, and none of them reads another failure as an answer.
LEMMA CasesAre ==
  /\ DOMAIN Cases = {"partition_prune", "global_index_prune", "partial_fixed", "partial_matrix",
                     "partial_no_hint", "plan_cache_drift"}
  /\ \A f \in DOMAIN Cases : 1 \in DOMAIN Cases[f] /\ DOMAIN Cases[f] \subseteq Nat
                           /\ \A c \in DOMAIN Cases[f] : Regular(Cases[f][c])
<1> DEFINE Good(f) == 1 \in DOMAIN Cases[f] /\ DOMAIN Cases[f] \subseteq Nat
                      /\ \A c \in DOMAIN Cases[f] : Regular(Cases[f][c])
<1>1. DOMAIN Cases = {"partition_prune", "global_index_prune", "partial_fixed", "partial_matrix",
                      "partial_no_hint", "plan_cache_drift"}
  BY DEF Cases
<1>2. Good("partition_prune")  BY PartitionCases
<1>3. Good("global_index_prune")  BY GlobalCases
<1>4. Good("partial_fixed")  BY FixedCases
<1>5. Good("partial_matrix")  BY MatrixCases
<1>6. Good("partial_no_hint")  BY NoHintCases
<1>7. Good("plan_cache_drift")  BY DriftCases
<1> HIDE DEF Good
<1>8. \A f \in DOMAIN Cases : Good(f)  BY <1>1, <1>2, <1>3, <1>4, <1>5, <1>6, <1>7
<1> QED  BY <1>1, <1>8 DEF Good
-----------------------------------------------------------------------------
(* The invariant *)

\* Where the run is, is a case that was selected.
Placed ==
  /\ flag \in DOMAIN Cases
  /\ only # {} /\ only \subseteq DOMAIN Cases[flag]
  /\ case \in only

\* A query that was not answered in all variants, and need not be reported.
Excused(u) == u[3] \in {{"index"}, Variants(Probes[flag][u[1]]), Probes[flag][u[1]].blind}

\* What was not compared is excused, or the run is on its way to fail.
Answerable ==
  \/ \A u \in unasked : Excused(u)
  \/ findings # {}
  \/ status = "raised"
  \/ status = "done" /\ exit = 1

QueryInv ==
  /\ Placed /\ Answerable
  /\ status = "done" /\ db => away \in {"create", "globals", "drop"} /\ exit = 1
  /\ status # "done" => exit = Running
  /\ exit = 0 => \A u \in unasked : Excused(u)

\* The next case of a run is one that was selected.
LEMMA ForwardPlaced ==
  ASSUME Placed, Forward, UNCHANGED <<flag, only>>
  PROVE  Placed' /\ status' \in {"setup", "leave"}
<1> DEFINE rest == {c \in only : c > case}
<1>1. rest \subseteq Nat /\ rest \subseteq only  BY CasesAre DEF Placed
<1>2. rest # {} => (CHOOSE c \in rest : \A x \in rest : c <= x) \in rest  BY <1>1, Least
<1>3. case' \in only  BY <1>1, <1>2 DEF Forward, Placed
<1> QED  BY <1>3 DEF Forward, Placed

\* A run begins at the first case that was selected.
LEMMA InitProbe == Init => QueryInv
<1> SUFFICES ASSUME Init  PROVE QueryInv  OBVIOUS
<1>1. flag \in DOMAIN Cases  BY DEF Init, Flags, Probes
<1>2. DOMAIN Probes[flag] = DOMAIN Cases[flag]  BY <1>1 DEF Probes
<1>3. only # {} /\ only \subseteq DOMAIN Cases[flag]
  <2>1. CASE flag \in HasCaseFlag
    <3>1. only \in OnlyCases[flag]  BY <2>1 DEF Init, Selections
    <3> QED  BY <2>1, <3>1, OnlyAssumption
  <2>2. CASE flag \notin HasCaseFlag
    <3>1. only = DOMAIN Probes[flag]  BY <2>2 DEF Init, Selections
    <3> QED  BY <1>1, <1>2, <3>1, CasesAre
  <2> QED  BY <2>1, <2>2
<1>4. only \subseteq Nat  BY <1>1, <1>3, CasesAre
<1>5. case \in only  BY <1>3, <1>4, Least DEF Init
<1>6. unasked = {} /\ db = FALSE /\ status = "begin" /\ exit = Running  BY DEF Init
<1> QED  BY <1>1, <1>3, <1>5, <1>6 DEF QueryInv, Placed, Answerable, Running

\* What a case compares, from the row it is made of.
LEMMA CurrentIs ==
  ASSUME Placed
  PROVE  /\ Current = Probes[flag][case]
         /\ Current.blind \subseteq {"direct"}
<1>1. Cases[flag][case].blind \subseteq {"direct"}  BY CasesAre DEF Placed, Regular, OneBlind
<1>2. Current = Worked(Cases[flag][case])  BY DEF Current, Probes, Placed
<1>3. Current.blind = Cases[flag][case].blind  BY <1>2 DEF Worked
<1> QED  BY <1>1, <1>3 DEF Current

\* A query whose variants agree although some were not answered is excused: they
\* failed alike, or it is the failure that looks like an answer.
LEMMA AgreedIsExcused ==
  ASSUME Placed, NEW lost \in SUBSET Variants(Current), lost # {}, ~Differs(Current, lost)
  PROVE  Excused(<<case, query, lost>>)
<1> DEFINE k == Current
<1>1. k = Probes[flag][case] /\ k.blind \subseteq {"direct"}  BY CurrentIs
<1>2. \A v \in k.others : Outcome(k, v, lost) = Outcome(k, k.base, lost)  BY DEF Differs
<1> HIDE DEF k
<1>3. \A v \in k.others : (v \in lost /\ v \notin k.blind) <=> (k.base \in lost /\ k.base \notin k.blind)
  <2>1. ASSUME NEW v  PROVE Outcome(k, v, lost).failed = (v \in lost /\ v \notin k.blind)
    BY DEF Outcome
  <2> QED  BY <1>2, <2>1
<1>4. lost \subseteq k.others \cup {k.base}  BY DEF Variants, k
<1>5. CASE k.base \in lost /\ k.base \notin k.blind
  <2>1. lost = k.others \cup {k.base}  BY <1>3, <1>4, <1>5
  <2> QED  BY <1>1, <2>1 DEF Excused, Variants
<1>6. CASE ~(k.base \in lost /\ k.base \notin k.blind)
  <2>1. lost \subseteq k.blind  BY <1>3, <1>4, <1>6
  <2>2. lost = k.blind  BY <1>1, <2>1
  <2> QED  BY <1>1, <2>2 DEF Excused
<1> QED  BY <1>5, <1>6

\* A query is asked in all its variants, and reported or excused.
LEMMA AskKeeps ==
  ASSUME QueryInv, NEW lost \in SUBSET Variants(Current), Ask(Current, lost)
  PROVE  QueryInv'
<1> USE DEF QueryInv
<1>1. status = "ask" /\ UNCHANGED <<flag, only, defect, db, exit>>  BY DEF Ask
<1>2. case' = case /\ status' \in {"raised", "ask", "asked"}
  BY <1>1 DEF Ask, Raise, NextQuery
<1>3. Placed'  BY <1>1, <1>2 DEF Placed
<1>4. exit' = Running /\ exit' # 0  BY <1>1 DEF Running
<1>5. \A u : Excused(u)' <=> Excused(u)  BY <1>1 DEF Excused, Variants
<1>6. Answerable'
  <2>1. CASE lost \cap Current.raises # {}  BY <2>1 DEF Ask, Raise, Answerable
  <2>2. CASE lost \cap Current.raises = {} /\ Differs(Current, lost)
    BY <2>2 DEF Ask, Answerable, Here
  <2>3. CASE lost \cap Current.raises = {} /\ ~Differs(Current, lost) /\ lost # {}
    <3>1. findings' = findings /\ unasked' = unasked \cup {<<case, query, lost>>}  BY <2>3 DEF Ask
    <3>2. Excused(<<case, query, lost>>)  BY <2>3, AgreedIsExcused
    <3> QED  BY <1>1, <1>5, <3>1, <3>2 DEF Answerable
  <2>4. CASE lost \cap Current.raises = {} /\ ~Differs(Current, lost) /\ lost = {}
    <3>1. findings' = findings /\ unasked' = unasked  BY <2>4 DEF Ask
    <3> QED  BY <1>1, <1>5, <3>1 DEF Answerable
  <2> QED  BY <2>1, <2>2, <2>3, <2>4
<1> QED  BY <1>1, <1>2, <1>3, <1>4, <1>6

\* Every other step leaves what was asked alone, or passes over a case that has no
\* index, or ends the run.
LEMMA StepProbe == QueryInv /\ [Next]_vars => QueryInv'
<1> SUFFICES ASSUME QueryInv, [Next]_vars  PROVE QueryInv'  OBVIOUS
<1> USE DEF QueryInv
<1>a. ASSUME UNCHANGED flag  PROVE \A u : Excused(u)' <=> Excused(u)
  BY <1>a DEF Excused, Variants
<1>b. ASSUME UNCHANGED <<flag, unasked, findings>>, status \notin {"raised", "done"}  PROVE Answerable'
  BY <1>a, <1>b DEF Answerable
<1>1. CASE Create
  <2>1. UNCHANGED <<flag, only, case, unasked, findings, exit>> /\ status = "begin"
        /\ status' \in {"globals", "setup"}
    BY <1>1 DEF Create
  <2> QED  BY <1>b, <2>1 DEF Placed, Running
<1>2. CASE CreateLost \/ SetGlobalsLost
  <2>1. /\ UNCHANGED <<flag, only, case, unasked, findings>> /\ status \in {"begin", "globals"}
        /\ status' = "done" /\ exit' = 1 /\ away' \in {"create", "globals"}
    BY <1>2 DEF CreateLost, SetGlobalsLost
  <2> QED  BY <1>b, <2>1 DEF Placed
<1>2a. CASE SetGlobals
  <2>1. UNCHANGED <<flag, only, case, unasked, findings, exit>> /\ status = "globals" /\ status' = "setup"
    BY <1>2a DEF SetGlobals
  <2> QED  BY <1>b, <2>1 DEF Placed, Running
<1>3. CASE Setup
  <2>1. UNCHANGED <<flag, only, case, unasked, findings, exit>> /\ status = "setup" /\ status' = "ask"
    BY <1>3 DEF Setup
  <2> QED  BY <1>b, <2>1 DEF Placed, Running
<1>4. CASE SetupLost
  <2>1. UNCHANGED <<flag, only, case, unasked, findings, exit>> /\ status = "setup" /\ status' = "raised"
    BY <1>4 DEF SetupLost, Raise
  <2> QED  BY <1>b, <2>1 DEF Placed, Running
<1>5. CASE IndexLost(Current)
  <2>1. UNCHANGED <<flag, only, findings, exit>> /\ status = "setup" /\ Forward
        /\ unasked' = unasked \cup {<<case, q, {"index"}>> : q \in DOMAIN Current.queries}
    BY <1>5 DEF IndexLost
  <2>2. \A q : Excused(<<case, q, {"index"}>>)  BY DEF Excused
  <2>3. Answerable'  BY <1>a, <2>1, <2>2 DEF Answerable
  <2>4. Placed' /\ status' \in {"setup", "leave"}  BY <2>1, ForwardPlaced
  <2> QED  BY <2>1, <2>3, <2>4 DEF Running
<1>6. ASSUME NEW lost \in SUBSET Variants(Current), Ask(Current, lost)  PROVE QueryInv'
  BY <1>6, AskKeeps
<1>7. CASE DropTables
  <2>1. UNCHANGED <<flag, only, unasked, findings, exit>> /\ status = "asked" /\ Forward
    BY <1>7 DEF DropTables
  <2>2. Placed' /\ status' \in {"setup", "leave"}  BY <2>1, ForwardPlaced
  <2> QED  BY <1>b, <2>1, <2>2 DEF Running
<1>8. CASE DropTablesLost
  <2>1. UNCHANGED <<flag, only, case, unasked, findings, exit>> /\ status = "asked" /\ status' = "raised"
    BY <1>8 DEF DropTablesLost, Raise
  <2> QED  BY <1>b, <2>1 DEF Placed, Running
<1>9. CASE DropDatabase
  <2>1. UNCHANGED <<flag, only, case, unasked, findings>> /\ status \in {"leave", "raised"}
        /\ db' = FALSE /\ status' = "done"
        /\ exit' = IF status = "raised" \/ findings # {} THEN 1 ELSE 0
    BY <1>9 DEF DropDatabase
  <2> QED  BY <1>a, <2>1 DEF Placed, Answerable
<1>10. CASE DropDatabaseLost
  <2>1. UNCHANGED <<flag, only, case, unasked, findings>> /\ status \in {"leave", "raised"}
        /\ away' = "drop" /\ status' = "done" /\ exit' = 1
    BY <1>10 DEF DropDatabaseLost
  <2> QED  BY <2>1 DEF Placed, Answerable
<1>11. CASE UNCHANGED vars
  BY <1>a, <1>11 DEF vars, Placed, Answerable
<1> QED  BY <1>1, <1>2, <1>2a, <1>3, <1>4, <1>5, <1>6, <1>7, <1>8, <1>9, <1>10, <1>11 DEF Next
-----------------------------------------------------------------------------
(* The theorems *)

\* The run always knows which query it has not compared, and why.
THEOREM QueryInvHolds == Spec => []QueryInv
BY InitProbe, StepProbe, PTL DEF Spec

\* A run that exits with 0 compared every query in every variant but the excused.
THEOREM GreenIsEarnedHolds == Spec => []GreenIsEarned
<1>1. QueryInv => GreenIsEarned  BY DEF QueryInv, GreenIsEarned, Excused
<1> QED  BY <1>1, QueryInvHolds, PTL

\* The database is there after the run only where a statement failed that nothing
\* guards, and then the probe exits with 1.
THEOREM DatabaseGoneHolds == Spec => []DatabaseGone
<1>1. QueryInv => DatabaseGone  BY DEF QueryInv, DatabaseGone
<1> QED  BY <1>1, QueryInvHolds, PTL
-----------------------------------------------------------------------------
(* What a comparison tells of a place *)

\* What a comparison of a column of integers comes to.
Compared(op, x, c) ==
  \/ op = "eq" /\ x = c
  \/ op = "lt" /\ x < c
  \/ op = "le" /\ x <= c
  \/ op = "gt" /\ x > c
  \/ op = "ge" /\ x >= c
  \/ op = "ne" /\ x # c

\* It holds of no NULL, and has the operator as its shape.
LEMMA ComparisonIs ==
  ASSUME NEW op \in Operators, NEW c \in Int
  PROVE  /\ \A x \in Int : Holds(Is(1, op, c), <<x>>) <=> Compared(op, x, c)
         /\ ~Holds(Is(1, op, c), <<NULL>>)
         /\ Shape(Is(1, op, c)) = op
<1> DEFINE atom == [column |-> 1, op |-> op, of |-> <<c>>]
<1>1. op \in {"eq", "lt", "le", "gt", "ge", "ne"}  BY OperatorsAre
<1>2. Is(1, op, c) = {{atom}}  BY DEF Is
<1>3. atom.op = op /\ atom.of[1] = c /\ atom.column = 1  OBVIOUS
<1> HIDE DEF atom
<1>4. ASSUME NEW x  PROVE Holds(Is(1, op, c), <<x>>) <=> Compares(atom, x)
  <2> DEFINE row == <<x>>
  <2>1. row[atom.column] = x  BY <1>3
  <2> HIDE DEF row
  <2>2. Holds({{atom}}, row) <=> Compares(atom, row[atom.column])  BY DEF Holds
  <2> QED  BY <1>2, <2>1, <2>2 DEF row
<1>5. ~Compares(atom, NULL)  BY <1>1, <1>3 DEF Compares
<1>6. ASSUME NEW x \in Int  PROVE Compares(atom, x) <=> Compared(op, x, c)
  <2>1. x # NULL  BY NullAssumption
  <2>2. CASE op = "eq"  BY <1>3, <2>1, <2>2 DEF Compares, Compared
  <2>3. CASE op = "lt"  BY <1>3, <2>1, <2>3 DEF Compares, Compared
  <2>4. CASE op = "le"  BY <1>3, <2>1, <2>4 DEF Compares, Compared
  <2>5. CASE op = "gt"  BY <1>3, <2>1, <2>5 DEF Compares, Compared
  <2>6. CASE op = "ge"  BY <1>3, <2>1, <2>6 DEF Compares, Compared
  <2>7. CASE op = "ne"  BY <1>3, <2>1, <2>7 DEF Compares, Compared
  <2> QED  BY <1>1, <2>2, <2>3, <2>4, <2>5, <2>6, <2>7
<1>7. Shape({{atom}}) = op
  <2>1. Cardinality({{atom}}) = 1 /\ Cardinality({atom}) = 1  BY FS_Singleton
  <2>2. \A conj \in {{atom}} : Cardinality(conj) = 1  BY <2>1
  <2>3. (CHOOSE x \in UNION {{atom}} : TRUE) = atom
    <3>1. UNION {{atom}} = {atom}  OBVIOUS
    <3> QED  BY <3>1
  <2> QED  BY <1>3, <2>1, <2>2, <2>3 DEF Shape
<1> QED  BY <1>2, <1>4, <1>5, <1>6, <1>7

\* The place of a value, where a table has three boundaries.
LEMMA RangeHome ==
  ASSUME NEW t, t.kind = "range", NEW a \in Int, NEW b \in Int, NEW c \in Int, a < b, b < c, c < Max,
         t.parts = Ones(<<a, b, c, Max>>), NEW x \in Int, x < Max
  PROVE  Home(t, <<x>>) = IF x < a THEN 1 ELSE IF x < b THEN 2 ELSE IF x < c THEN 3 ELSE 4
<1> DEFINE bs == <<a, b, c, Max>>
           parts == Ones(bs)
<1>1. Max \in Int  BY DEF Max
<1>2. x # NULL /\ Max # NULL /\ a # NULL /\ b # NULL /\ c # NULL  BY <1>1, NullAssumption
<1>3. DOMAIN bs = 1..4 /\ bs[1] = a /\ bs[2] = b /\ bs[3] = c /\ bs[4] = Max  OBVIOUS
<1>4. DOMAIN parts = 1..4 /\ \A i \in 1..4 : parts[i] = <<bs[i]>>  BY <1>3 DEF Ones
<1>5. \A y \in Int : LessThan(<<x>>, <<y>>) <=> x < y
  <2> TAKE y \in Int
  <2>1. DOMAIN <<y>> = {1} /\ <<y>>[1] = y /\ <<x>>[1] = x /\ y # NULL  BY NullAssumption
  <2>2. 1..(1 - 1) = {}  OBVIOUS
  <2>3. LessThan(<<x>>, <<y>>) <=> Below(x, y)  BY <2>1, <2>2 DEF LessThan
  <2> QED  BY <1>2, <2>1, <2>3 DEF Below
<1>6. Home(t, <<x>>) = RangeOf(parts, <<x>>)  BY DEF Home, Place
<1> HIDE DEF bs, parts
<1> DEFINE in(i) == LessThan(<<x>>, parts[i]) /\ \A j \in 1..(i - 1) : ~LessThan(<<x>>, parts[j])
           p == IF x < a THEN 1 ELSE IF x < b THEN 2 ELSE IF x < c THEN 3 ELSE 4
<1>7. LessThan(<<x>>, parts[1]) <=> x < a  BY <1>3, <1>4, <1>5
<1>8. LessThan(<<x>>, parts[2]) <=> x < b  BY <1>3, <1>4, <1>5
<1>9. LessThan(<<x>>, parts[3]) <=> x < c  BY <1>3, <1>4, <1>5
<1>10. LessThan(<<x>>, parts[4])  BY <1>1, <1>3, <1>4, <1>5
<1>11. RangeOf(parts, <<x>>) = CHOOSE i \in 1..4 : in(i)  BY <1>4 DEF RangeOf
<1>12. \A i \in 1..4 : in(i) <=> i = p  BY <1>7, <1>8, <1>9, <1>10
<1> HIDE DEF in
<1>13. p \in 1..4  OBVIOUS
<1> HIDE DEF p
<1>14. (CHOOSE i \in 1..4 : in(i)) = p  BY <1>12, <1>13
<1> QED  BY <1>6, <1>11, <1>14 DEF p

\* And where it has lists and a default.
LEMMA ListHome ==
  ASSUME NEW t, t.kind = "list", t.parts = list_int_parts, NEW x \in Int
  PROVE  Home(t, <<x>>) = IF x \in {-1, 0, 1} THEN 2 ELSE IF x \in {3, 10} THEN 3 ELSE 4
<1> DEFINE parts == list_int_parts
<1>1. Home(t, <<x>>) = ListOf(parts, <<x>>)  BY DEF Home, Place
<1>2. parts = <<{<<NULL>>}, {<<-1>>, <<0>>, <<1>>}, {<<3>>, <<10>>}>>  BY DEF list_int_parts
<1>3. DOMAIN parts = 1..3 /\ Len(parts) = 3  BY <1>2
<1>4. <<x>> # <<NULL>> /\ \A y \in Int : <<x>> = <<y>> <=> x = y
  <2>1. \A y : <<x>> = <<y>> <=> x = y
    <3>1. \A y : <<y>>[1] = y  OBVIOUS
    <3> QED  BY <3>1
  <2> QED  BY <2>1, NullAssumption
<1>5. <<x>> \notin parts[1]  BY <1>2, <1>4
<1>6. <<x>> \in parts[2] <=> x \in {-1, 0, 1}  BY <1>2, <1>4
<1>7. <<x>> \in parts[3] <=> x \in {3, 10}  BY <1>2, <1>4
<1> HIDE DEF parts
<1>8. ListOf(parts, <<x>>) =
        IF \E i \in 1..3 : <<x>> \in parts[i] THEN CHOOSE i \in 1..3 : <<x>> \in parts[i] ELSE 4
  BY <1>3 DEF ListOf
<1>9. CASE x \in {-1, 0, 1}
  <2>1. \A i \in 1..3 : <<x>> \in parts[i] <=> i = 2  BY <1>5, <1>6, <1>7, <1>9
  <2>2. (CHOOSE i \in 1..3 : <<x>> \in parts[i]) = 2  BY <2>1
  <2> QED  BY <1>1, <1>8, <1>9, <2>1, <2>2
<1>10. CASE x \in {3, 10}
  <2>1. \A i \in 1..3 : <<x>> \in parts[i] <=> i = 3  BY <1>5, <1>6, <1>7, <1>10
  <2>2. (CHOOSE i \in 1..3 : <<x>> \in parts[i]) = 3  BY <2>1
  <2> QED  BY <1>1, <1>8, <1>10, <2>1, <2>2
<1>11. CASE x \notin {-1, 0, 1} /\ x \notin {3, 10}
  <2>1. \A i \in 1..3 : <<x>> \notin parts[i]  BY <1>5, <1>6, <1>7, <1>11
  <2> QED  BY <1>1, <1>8, <1>11, <2>1
<1> QED  BY <1>9, <1>10, <1>11

At(t, x) == Home(t, <<x>>)

\* A table whose boundaries are all asked: the values X of its column, and A those
\* that are compared with.  Every place that has a value has a row that is asked for
\* and so are the values beside it; a row beside a boundary is asked for, and the next
\* value, unless a lower value is in its place; and what is left of a place with two
\* values is told by the other one.
Fitted(t, X, A) ==
  /\ t.kind \in {"range", "list"}
  /\ X \subseteq Int /\ A \subseteq Int
  /\ Values(t) = {<<x>> : x \in X}
  /\ AsksAll(t.preds, 1, A)
  /\ \A p \in 1..4 : (\E x \in X : At(t, x) = p) =>
       \E z \in A : /\ At(t, z) = p /\ Among(<<z>>, t.rows)
                    /\ z + 1 \in A /\ (p # 1 => z - 1 \in A) /\ \E y \in A : y # z
  /\ \A x \in X : Among(<<x>>, t.rows) /\ BesideBoundary(t, <<x>>) =>
       /\ x \in A
       /\ x + 1 \in A \/ \E y \in X : y < x /\ At(t, y) = At(t, x)
  /\ \A x, w \in X : (\A u \in X : At(t, u) = At(t, x) /\ u # w => u = x) => w \in A

\* A comparison that tells that place p is lost: it selects a row there, and, where the
\* defect shows at the edge only, one single value.
Tells(t, op, p, how, c) ==
  /\ \E r \in DOMAIN t.rows : Home(t, t.rows[r]) = p /\ Holds(Is(1, op, c), t.rows[r])
  /\ how = "edge" => p \in Barely(t, Is(1, op, c))

\* The values of the column in integers.
LEMMA ReachIs ==
  ASSUME NEW t, NEW X, NEW A, Fitted(t, X, A), NEW op \in Operators, NEW p \in 1..4, NEW vs \in Reach(t)[op][p]
  PROVE  \E w \in X : vs = {<<x>> : x \in {y \in X : At(t, y) = p /\ Compared(op, y, w)}}
<1> DEFINE V == Values(t)
           of(w) == Known({v \in V : Home(t, v) = p /\ Holds(Is(1, op, w[1]), v)})
<1>1. Reach(t)[op][p] = {of(w) : w \in V}  BY DEF Reach
<1>2. PICK w \in V : vs = of(w)  BY <1>1
<1>3. X \subseteq Int /\ V = {<<x>> : x \in X}  BY DEF Fitted
<1>4. PICK z \in X : w = <<z>>  BY <1>3
<1>5. w[1] = z /\ z \in Int  BY <1>3, <1>4
<1>6. of(w) = {v \in V : Home(t, v) = p /\ Holds(Is(1, op, z), v)}  BY <1>5 DEF Known
<1>7. \A x \in X : Holds(Is(1, op, z), <<x>>) <=> Compared(op, x, z)  BY <1>3, <1>5, ComparisonIs
<1> HIDE DEF V, of
<1>8. vs = {v \in V : Home(t, v) = p /\ Holds(Is(1, op, z), v)}  BY <1>2, <1>6
<1>9. vs = {<<x>> : x \in {y \in X : At(t, y) = p /\ Compared(op, y, z)}}  BY <1>3, <1>7, <1>8 DEF At
<1> QED  BY <1>9

\* What one single value of a place is selected by.
LEMMA BarelyIs ==
  ASSUME NEW t, NEW X, NEW A, Fitted(t, X, A), NEW op \in Operators, NEW p \in 1..4, NEW c \in Int,
         NEW x \in X, {y \in X : At(t, y) = p /\ Compared(op, y, c)} = {x}
  PROVE  p \in Barely(t, Is(1, op, c))
<1> DEFINE S == {v \in ValuesOf(t) : Home(t, v) = p /\ Holds(Is(1, op, c), v)}
<1>1. X \subseteq Int /\ ValuesOf(t) \ {<<NULL>>} = {<<y>> : y \in X} /\ t.kind # "row"  BY DEF Fitted, Values
<1>2. \A y \in X : Holds(Is(1, op, c), <<y>>) <=> Compared(op, y, c)  BY <1>1, ComparisonIs
<1>3. ~Holds(Is(1, op, c), <<NULL>>)  BY ComparisonIs
<1>4. S = {<<x>>}
  <2>1. ASSUME NEW v \in S  PROVE v = <<x>>
    <3>1. v # <<NULL>>  BY <1>3
    <3>2. PICK y \in X : v = <<y>>  BY <1>1, <3>1
    <3>3. At(t, y) = p /\ Compared(op, y, c)  BY <1>2, <3>2 DEF At
    <3> QED  BY <3>2, <3>3
  <2>2. At(t, x) = p /\ Compared(op, x, c) /\ <<x>> \in ValuesOf(t)  BY <1>1
  <2>3. <<x>> \in S  BY <1>2, <2>2 DEF At
  <2> QED  BY <2>1, <2>3
<1>5. Cardinality(S) = 1  BY <1>4, FS_Singleton
<1>6. Barely(t, Is(1, op, c)) = {q \in 1..7 : Cardinality({v \in ValuesOf(t) : Home(t, v) = q /\ Holds(Is(1, op, c), v)}) = 1}
  BY <1>1 DEF Barely, Known
<1> QED  BY <1>5, <1>6

\* A defect that loses a whole place is told by a comparison that is asked.
LEMMA WholeTold ==
  ASSUME NEW t, NEW X, NEW A, Fitted(t, X, A), NEW op \in Operators, NEW p \in 1..4,
         \E x \in X : At(t, x) = p, op = "gt" => p # 1
  PROVE  \E c \in A : Tells(t, op, p, "whole", c)
<1>1. PICK z \in A : /\ At(t, z) = p /\ Among(<<z>>, t.rows)
                     /\ z + 1 \in A /\ (p # 1 => z - 1 \in A) /\ \E y \in A : y # z
  BY DEF Fitted
<1>2. PICK y \in A : y # z  BY <1>1
<1>3. A \subseteq Int  BY DEF Fitted
<1>4. PICK r \in DOMAIN t.rows : t.rows[r] = <<z>>  BY <1>1 DEF Among
<1>5. ASSUME NEW c \in A, Compared(op, z, c)  PROVE Tells(t, op, p, "whole", c)
  <2>1. Holds(Is(1, op, c), t.rows[r])  BY <1>3, <1>4, <1>5, ComparisonIs
  <2> QED  BY <1>1, <1>4, <2>1 DEF Tells, At
<1>6. op \in {"eq", "lt", "le", "gt", "ge", "ne"}  BY OperatorsAre
<1>7. CASE op = "lt"
  <2>1. Compared(op, z, z + 1)  BY <1>3, <1>7 DEF Compared
  <2> QED  BY <1>1, <1>5, <2>1
<1>8. CASE op = "gt"
  <2>1. Compared(op, z, z - 1)  BY <1>3, <1>8 DEF Compared
  <2> QED  BY <1>1, <1>5, <1>8, <2>1
<1>9. CASE op = "ne"
  <2>1. Compared(op, z, y)  BY <1>2, <1>9 DEF Compared
  <2> QED  BY <1>2, <1>5, <2>1
<1>10. CASE op \in {"eq", "le", "ge"}
  <2>1. Compared(op, z, z)  BY <1>3, <1>10 DEF Compared
  <2> QED  BY <1>5, <2>1
<1> QED  BY <1>6, <1>7, <1>8, <1>9, <1>10

\* So is one that loses the single value a comparison reaches beside a boundary.
LEMMA EdgeTold ==
  ASSUME NEW t, NEW X, NEW A, Fitted(t, X, A), NEW op \in Operators, op # "gt", NEW p \in 1..4,
         NEW w \in X, NEW x \in X, {y \in X : At(t, y) = p /\ Compared(op, y, w)} = {x},
         Among(<<x>>, t.rows), BesideBoundary(t, <<x>>)
  PROVE  \E c \in A : Tells(t, op, p, "edge", c)
<1>1. X \subseteq Int /\ A \subseteq Int  BY DEF Fitted
<1>2. At(t, x) = p /\ Compared(op, x, w)  OBVIOUS
<1>3. \A y \in X : At(t, y) = p /\ Compared(op, y, w) => y = x  OBVIOUS
<1>4. x \in A /\ (x + 1 \in A \/ \E y \in X : y < x /\ At(t, y) = At(t, x))  BY DEF Fitted
<1>5. PICK r \in DOMAIN t.rows : t.rows[r] = <<x>>  BY DEF Among
<1>6. ASSUME NEW c \in A, Compared(op, x, c), \A y \in X : At(t, y) = p /\ Compared(op, y, c) => y = x
      PROVE  Tells(t, op, p, "edge", c)
  <2>1. {y \in X : At(t, y) = p /\ Compared(op, y, c)} = {x}  BY <1>2, <1>6
  <2>2. c \in Int /\ x \in Int  BY <1>1
  <2>3. p \in Barely(t, Is(1, op, c))  BY <2>1, <2>2, BarelyIs
  <2>4. Holds(Is(1, op, c), t.rows[r])  BY <1>5, <1>6, <2>2, ComparisonIs
  <2> QED  BY <1>2, <1>5, <2>3, <2>4 DEF Tells, At
<1>7. op \in {"eq", "lt", "le", "ge", "ne"}  BY OperatorsAre
<1> HIDE DEF Tells
<1>8. CASE op = "lt"
  <2>1. x < w /\ \A y \in X : At(t, y) = p /\ y < w => y = x  BY <1>2, <1>3, <1>8 DEF Compared
  <2>2. x + 1 \in A
    <3> SUFFICES ASSUME NEW y \in X, y < x, At(t, y) = At(t, x)  PROVE FALSE  BY <1>4
    <3>1. y < w  BY <1>1, <2>1
    <3> QED  BY <1>1, <1>2, <2>1, <3>1
  <2>3. \A y \in X : At(t, y) = p /\ y < x + 1 => y = x  BY <1>1, <2>1
  <2>4. x < x + 1  BY <1>1
  <2> QED  BY <1>6, <1>8, <2>2, <2>3, <2>4 DEF Compared
<1>9. CASE op = "le"
  <2>1. x <= w /\ \A y \in X : At(t, y) = p /\ y <= w => y = x  BY <1>2, <1>3, <1>9 DEF Compared
  <2>2. \A y \in X : At(t, y) = p /\ y <= x => y = x  BY <1>1, <2>1
  <2> QED  BY <1>1, <1>4, <1>6, <1>9, <2>2 DEF Compared
<1>10. CASE op = "ge"
  <2>1. x >= w /\ \A y \in X : At(t, y) = p /\ y >= w => y = x  BY <1>2, <1>3, <1>10 DEF Compared
  <2>2. \A y \in X : At(t, y) = p /\ y >= x => y = x  BY <1>1, <2>1
  <2> QED  BY <1>1, <1>4, <1>6, <1>10, <2>2 DEF Compared
<1>11. CASE op = "eq"
  <2>1. \A y \in X : y = x => y = x  OBVIOUS
  <2> QED  BY <1>4, <1>6, <1>11, <2>1 DEF Compared
<1>12. CASE op = "ne"
  <2>1. x # w /\ \A y \in X : At(t, y) = p /\ y # w => y = x  BY <1>2, <1>3, <1>12 DEF Compared
  <2>2. w \in A  BY <1>2, <2>1 DEF Fitted
  <2> QED  BY <1>2, <1>3, <1>6, <2>2
<1> QED  BY <1>7, <1>8, <1>9, <1>10, <1>11, <1>12

\* Predicates that are added to a list leave those it has.
LEMMA AddedTo ==
  ASSUME NEW s, NEW u, List(s), List(u), NEW c, NEW vs, AsksAll(s, c, vs)
  PROVE  List(dedupe_predicates(s \o u)) /\ AsksAll(dedupe_predicates(s \o u), c, vs)
<1>1. List(s \o u) /\ \A x : Among(x, s) => Among(x, s \o u)  BY JoinedHolds
<1> QED  BY <1>1, DedupeKeeps DEF AsksAll

\* The values of a column that is NULL at times.
LEMMA ValuesAre ==
  ASSUME NEW t, NEW rs, NEW ds, NEW X, X \subseteq Int, t.rows = Ones(rs), t.domain = Ones(ds),
         \A i \in DOMAIN rs : rs[i] \in X \cup {NULL},
         \A x \in X : Among(x, ds) \/ Among(x, rs), \A i \in DOMAIN ds : ds[i] \in X
  PROVE  /\ Values(t) = {<<x>> : x \in X}
         /\ \A x : Among(<<x>>, t.rows) <=> Among(x, rs)
<1>1. \A x, y : <<x>> = <<y>> => x = y
  <2>1. \A y : <<y>>[1] = y  OBVIOUS
  <2> QED  BY <2>1
<1>2. DOMAIN t.rows = DOMAIN rs /\ \A i \in DOMAIN rs : t.rows[i] = <<rs[i]>>  BY DEF Ones
<1>3. DOMAIN t.domain = DOMAIN ds /\ \A i \in DOMAIN ds : t.domain[i] = <<ds[i]>>  BY DEF Ones
<1>4. ASSUME NEW v \in Values(t)  PROVE \E x \in X : v = <<x>>
  <2>1. v # <<NULL>>  BY DEF Values
  <2>2. CASE \E i \in DOMAIN rs : v = <<rs[i]>>  BY <2>1, <2>2
  <2>3. CASE \E i \in DOMAIN ds : v = <<ds[i]>>  BY <2>3
  <2> QED  BY <1>2, <1>3, <2>2, <2>3 DEF Values, ValuesOf
<1>5. ASSUME NEW x \in X  PROVE <<x>> \in Values(t)
  <2>1. x # NULL  BY NullAssumption
  <2>2. <<x>> # <<NULL>>  BY <1>1, <2>1
  <2>3. <<x>> \in ValuesOf(t)  BY <1>2, <1>3 DEF Among, ValuesOf
  <2> QED  BY <2>2, <2>3 DEF Values
<1>6. Values(t) = {<<x>> : x \in X}  BY <1>4, <1>5
<1>7. \A x : Among(<<x>>, t.rows) <=> Among(x, rs)  BY <1>1, <1>2 DEF Among
<1> QED  BY <1>6, <1>7

\* The same of the values beside a boundary.
LEMMA BesideIs ==
  ASSUME NEW t, NEW X, X \subseteq Int, Values(t) = {<<x>> : x \in X}, NEW x \in X
  PROVE  BesideBoundary(t, <<x>>) <=> \E y \in {x - 1, x + 1} \cap X : At(t, y) # At(t, x)
<1>1. \A y, z : <<y>> = <<z>> => y = z
  <2>1. \A y : <<y>>[1] = y  OBVIOUS
  <2> QED  BY <2>1
<1> DEFINE row == <<x>>
<1>2. row[1] = x  OBVIOUS
<1> HIDE DEF row
<1>3. BesideBoundary(t, row) <=> \E w \in {<<x - 1>>, <<x + 1>>} \cap Values(t) : Home(t, w) # Home(t, row)
  BY <1>2 DEF BesideBoundary
<1>4. \A y : <<y>> \in Values(t) <=> y \in X  BY <1>1
<1>5. \A y : At(t, y) # At(t, x) <=> Home(t, <<y>>) # Home(t, row)  BY DEF row, At
<1> HIDE DEF Values
<1>6. ASSUME NEW w \in {<<x - 1>>, <<x + 1>>} \cap Values(t), Home(t, w) # Home(t, row)
      PROVE  \E y \in {x - 1, x + 1} \cap X : At(t, y) # At(t, x)
  <2>1. PICK y \in {x - 1, x + 1} : w = <<y>>  OBVIOUS
  <2> QED  BY <1>4, <1>5, <1>6, <2>1
<1>7. ASSUME NEW y \in {x - 1, x + 1} \cap X, At(t, y) # At(t, x)
      PROVE  <<y>> \in {<<x - 1>>, <<x + 1>>} \cap Values(t) /\ Home(t, <<y>>) # Home(t, row)
  <2>1. y = x - 1 \/ y = x + 1  OBVIOUS
  <2>2. <<y>> \in Values(t)  BY <1>4
  <2>3. <<y>> \in {<<x - 1>>, <<x + 1>>}  BY <2>1
  <2> QED  BY <1>5, <1>7, <2>2, <2>3
<1> QED  BY <1>3, <1>6, <1>7 DEF row

\* The integers of the partition probe.
LEMMA RangeFitted == Fitted(range_columns_int, -5..19, {-1, 0, 1, 2, 3, 4, 9, 10, 11})
<1> DEFINE t == range_columns_int
           rs == <<NULL, -1, 0, 1, 2, 3, 4, 9, 10, 11, NULL>>
           ds == [i \in 1..25 |-> i - 6]
           A == {-1, 0, 1, 2, 3, 4, 9, 10, 11}
           X == -5..19
<1>1. /\ t.kind = "range" /\ t.parts = Ones(<<0, 3, 10, Max>>) /\ t.rows = Ones(rs) /\ t.domain = Ones(ds)
      /\ t.preds = int_predicates
  BY DEF range_columns_int, Table
<1>2. AsksAll(t.preds, 1, A)
  <2> DEFINE edges == {0, 3, 10}
             s == numeric_boundary_predicates(1, edges, TRUE)
             u == <<IsNull(1), Is(1, "lt", 0), Is(1, "le", 0), Over(1, "between", <<0, 3>>), Over(1, "in", <<-1, 0, 2, 3, 10, 11>>),
                    Is(1, "ne", 3), Or(Is(1, "lt", 3), IsNull(1)),
                    Or(Over(1, "between", <<-1, 1>>), Over(1, "between", <<9, 11>>)), Is(1, "cast_eq", 3)>>
  <2>1. int_predicates = dedupe_predicates(s \o u)  BY DEF int_predicates
  <2>2. A \subseteq Beside(edges)  BY DEF Beside
  <2>3. List(s) /\ AsksAll(s, 1, Beside(edges))
    <3>1. edges \subseteq 0..10 /\ 0 \in Int /\ 10 \in Int /\ TRUE \in BOOLEAN  OBVIOUS
    <3> HIDE DEF edges
    <3> QED  BY <3>1, BoundaryPredicates
  <2>4. List(u)  BY NineListed
  <2> HIDE DEF s, u, A, edges
  <2>5. AsksAll(s, 1, A)  BY <2>2, <2>3 DEF AsksAll
  <2> QED  BY <1>1, <2>1, <2>3, <2>4, <2>5, AddedTo
<1>3. \A x \in X : At(t, x) = IF x < 0 THEN 1 ELSE IF x < 3 THEN 2 ELSE IF x < 10 THEN 3 ELSE 4
  <2> TAKE x \in X
  <2>1. x \in Int /\ x < Max /\ 10 < Max  BY DEF Max
  <2> DEFINE a == 0
             b == 3
             c == 10
  <2>2. a \in Int /\ b \in Int /\ c \in Int /\ a < b /\ b < c /\ c < Max  BY <2>1
  <2>3. t.kind = "range" /\ t.parts = Ones(<<a, b, c, Max>>)  BY <1>1
  <2> HIDE DEF t, a, b, c
  <2>4. Home(t, <<x>>) = IF x < a THEN 1 ELSE IF x < b THEN 2 ELSE IF x < c THEN 3 ELSE 4
    BY <2>1, <2>2, <2>3, RangeHome
  <2> QED  BY <2>4 DEF At, a, b, c
<1> HIDE DEF t
<1>4. /\ DOMAIN rs = 1..11 /\ rs[1] = NULL /\ rs[2] = -1 /\ rs[3] = 0 /\ rs[4] = 1 /\ rs[5] = 2 /\ rs[6] = 3
      /\ rs[7] = 4 /\ rs[8] = 9 /\ rs[9] = 10 /\ rs[10] = 11 /\ rs[11] = NULL
  OBVIOUS
<1> HIDE DEF rs
<1>5. \A i \in DOMAIN rs : rs[i] \in A \cup {NULL}  BY <1>4
<1>6. \A x \in A : Among(x, rs)  BY <1>4 DEF Among
<1>7. /\ Values(t) = {<<x>> : x \in X}
      /\ \A x : Among(<<x>>, t.rows) <=> Among(x, rs)
  <2>1. A \subseteq X /\ X \subseteq Int  OBVIOUS
  <2>2. \A x \in X : Among(x, ds)
    <3>1. \A x \in X : x + 6 \in DOMAIN ds /\ ds[x + 6] = x  OBVIOUS
    <3> QED  BY <3>1 DEF Among
  <2>3. \A i \in DOMAIN ds : ds[i] \in X  OBVIOUS
  <2> HIDE DEF A, X, ds
  <2> QED  BY <1>1, <1>5, <2>1, <2>2, <2>3, ValuesAre
<1>8. \A x \in X : Among(<<x>>, t.rows) => x \in A
  <2>1. \A x \in X : x # NULL  BY NullAssumption
  <2> QED  BY <1>5, <1>7, <2>1 DEF Among
<1>9. \A p \in 1..4 : \E z \in A : /\ At(t, z) = p /\ Among(<<z>>, t.rows)
                                   /\ z + 1 \in A /\ (p # 1 => z - 1 \in A) /\ \E y \in A : y # z
  <2> DEFINE z(p) == IF p = 1 THEN -1 ELSE IF p = 2 THEN 0 ELSE IF p = 3 THEN 3 ELSE 10
  <2> TAKE p \in 1..4
  <2>1. z(p) \in A /\ z(p) \in X /\ z(p) + 1 \in A /\ (p # 1 => z(p) - 1 \in A) /\ z(p) # 1 /\ 1 \in A  OBVIOUS
  <2>2. At(t, z(p)) = p  BY <1>3, <2>1
  <2>3. Among(<<z(p)>>, t.rows)  BY <1>6, <1>7, <2>1
  <2> HIDE DEF z, A
  <2> QED  BY <2>1, <2>2, <2>3
<1>10. \A x \in X : Among(<<x>>, t.rows) /\ BesideBoundary(t, <<x>>) => x \in A /\ x + 1 \in A
  <2> TAKE x \in X
  <2> HAVE Among(<<x>>, t.rows) /\ BesideBoundary(t, <<x>>)
  <2>1. PICK y \in {x - 1, x + 1} \cap X : At(t, y) # At(t, x)
    <3>1. X \subseteq Int  OBVIOUS
    <3> HIDE DEF X
    <3> QED  BY <1>7, <3>1, BesideIs
  <2>2. x \in {-1, 0, 2, 3, 9, 10}  BY <1>3, <2>1
  <2> QED  BY <2>2
<1>11. \A x, w \in X : \E u \in X : At(t, u) = At(t, x) /\ u # w /\ u # x
  <2> TAKE x, w \in X
  <2>1. \E u \in {-1, -2, -3} : u # w /\ u # x  OBVIOUS
  <2>2. \E u \in {0, 1, 2} : u # w /\ u # x  OBVIOUS
  <2>3. \E u \in {3, 4, 5} : u # w /\ u # x  OBVIOUS
  <2>4. \E u \in {10, 11, 12} : u # w /\ u # x  OBVIOUS
  <2> QED  BY <1>3, <2>1, <2>2, <2>3, <2>4
<1> HIDE DEF X
<1>12. X \subseteq Int /\ A \subseteq Int  BY DEF X
<1> HIDE DEF A
<1>13. Fitted(t, X, A)  BY <1>1, <1>2, <1>7, <1>9, <1>10, <1>11, <1>12 DEF Fitted
<1> QED  BY <1>13 DEF X, A, t

\* The integers of a table with a global index.
LEMMA GlobalRangeFitted ==
  Fitted(range_columns_int_global, (-5..34) \cup {99}, {-1, 0, 1, 9, 10, 11, 19, 20, 21})
<1> DEFINE t == range_columns_int_global
           rs == <<NULL, -1, 0, 1, 9, 10, 11, 19, 20, 99>>
           ds == [i \in 1..40 |-> i - 6]
           A == {-1, 0, 1, 9, 10, 11, 19, 20, 21}
           X == (-5..34) \cup {99}
<1>1. /\ t.kind = "range" /\ t.parts = Ones(<<0, 10, 20, Max>>) /\ t.rows = Ones(rs) /\ t.domain = Ones(ds)
      /\ t.preds = int_preds
  BY DEF range_columns_int_global, Table
<1>2. AsksAll(t.preds, 1, A)
  <2> DEFINE edges == {0, 10, 20}
             s == numeric_preds(1, edges, TRUE)
             u == <<Or(IsNull(1), Over(1, "between", <<9, 11>>)), Over(1, "not_between", <<0, 10>>), Is(1, "wrapped_lt", 10)>>
  <2>1. int_preds = dedupe_predicates(s \o u)  BY DEF int_preds
  <2>2. A \subseteq Beside(edges)  BY DEF Beside
  <2>3. List(s) /\ AsksAll(s, 1, Beside(edges))
    <3>1. edges \subseteq 0..20 /\ 0 \in Int /\ 20 \in Int /\ TRUE \in BOOLEAN  OBVIOUS
    <3> HIDE DEF edges
    <3> QED  BY <3>1, GlobalPredicates
  <2>4. List(u)  BY WrittenLists
  <2> HIDE DEF s, u, A, edges
  <2>5. AsksAll(s, 1, A)  BY <2>2, <2>3 DEF AsksAll
  <2> QED  BY <1>1, <2>1, <2>3, <2>4, <2>5, AddedTo
<1>3. \A x \in X : At(t, x) = IF x < 0 THEN 1 ELSE IF x < 10 THEN 2 ELSE IF x < 20 THEN 3 ELSE 4
  <2> TAKE x \in X
  <2>1. x \in Int /\ x < Max /\ 20 < Max  BY DEF Max
  <2> DEFINE a == 0
             b == 10
             c == 20
  <2>2. a \in Int /\ b \in Int /\ c \in Int /\ a < b /\ b < c /\ c < Max  BY <2>1
  <2>3. t.kind = "range" /\ t.parts = Ones(<<a, b, c, Max>>)  BY <1>1
  <2> HIDE DEF t, a, b, c
  <2>4. Home(t, <<x>>) = IF x < a THEN 1 ELSE IF x < b THEN 2 ELSE IF x < c THEN 3 ELSE 4
    BY <2>1, <2>2, <2>3, RangeHome
  <2> QED  BY <2>4 DEF At, a, b, c
<1> HIDE DEF t
<1>4. /\ DOMAIN rs = 1..10 /\ rs[1] = NULL /\ rs[2] = -1 /\ rs[3] = 0 /\ rs[4] = 1 /\ rs[5] = 9 /\ rs[6] = 10
      /\ rs[7] = 11 /\ rs[8] = 19 /\ rs[9] = 20 /\ rs[10] = 99
  OBVIOUS
<1> HIDE DEF rs
<1>5. \A i \in DOMAIN rs : rs[i] \in (A \ {21}) \cup {99, NULL}  BY <1>4
<1>6. \A x \in A \ {21} : Among(x, rs)  BY <1>4 DEF Among
<1>a. Among(99, rs)  BY <1>4 DEF Among
<1>7. /\ Values(t) = {<<x>> : x \in X}
      /\ \A x : Among(<<x>>, t.rows) <=> Among(x, rs)
  <2>1. A \subseteq X /\ 99 \in X /\ X \subseteq Int  OBVIOUS
  <2>2. \A x \in X : Among(x, ds) \/ Among(x, rs)
    <3>1. \A x \in X : x # 99 => x + 6 \in DOMAIN ds /\ ds[x + 6] = x  OBVIOUS
    <3> QED  BY <1>a, <3>1 DEF Among
  <2>3. \A i \in DOMAIN ds : ds[i] \in X  OBVIOUS
  <2> HIDE DEF A, X, ds
  <2> QED  BY <1>1, <1>5, <2>1, <2>2, <2>3, ValuesAre
<1>8. \A x \in X : Among(<<x>>, t.rows) => x \in A \cup {99}
  <2>1. \A x \in X : x # NULL  BY NullAssumption
  <2> QED  BY <1>5, <1>7, <2>1 DEF Among
<1>9. \A p \in 1..4 : \E z \in A : /\ At(t, z) = p /\ Among(<<z>>, t.rows)
                                   /\ z + 1 \in A /\ (p # 1 => z - 1 \in A) /\ \E y \in A : y # z
  <2> DEFINE z(p) == IF p = 1 THEN -1 ELSE IF p = 2 THEN 0 ELSE IF p = 3 THEN 10 ELSE 20
  <2> TAKE p \in 1..4
  <2>1. z(p) \in A \ {21} /\ z(p) \in X /\ z(p) + 1 \in A /\ (p # 1 => z(p) - 1 \in A) /\ z(p) # 1 /\ 1 \in A  OBVIOUS
  <2>2. At(t, z(p)) = p  BY <1>3, <2>1
  <2>3. Among(<<z(p)>>, t.rows)  BY <1>6, <1>7, <2>1
  <2> HIDE DEF z, A
  <2> QED  BY <2>1, <2>2, <2>3
<1>10. \A x \in X : Among(<<x>>, t.rows) /\ BesideBoundary(t, <<x>>) => x \in A /\ x + 1 \in A
  <2> TAKE x \in X
  <2> HAVE Among(<<x>>, t.rows) /\ BesideBoundary(t, <<x>>)
  <2>1. PICK y \in {x - 1, x + 1} \cap X : At(t, y) # At(t, x)
    <3>1. X \subseteq Int  OBVIOUS
    <3> HIDE DEF X
    <3> QED  BY <1>7, <3>1, BesideIs
  <2>2. x \in {-1, 0, 9, 10, 19, 20, 99}  BY <1>3, <1>8, <2>1
  <2>3. x # 99  BY <2>1
  <2> QED  BY <2>2, <2>3
<1>11. \A x, w \in X : \E u \in X : At(t, u) = At(t, x) /\ u # w /\ u # x
  <2> TAKE x, w \in X
  <2>1. \E u \in {-1, -2, -3} : u # w /\ u # x  OBVIOUS
  <2>2. \E u \in {0, 1, 2} : u # w /\ u # x  OBVIOUS
  <2>3. \E u \in {10, 11, 12} : u # w /\ u # x  OBVIOUS
  <2>4. \E u \in {20, 21, 22} : u # w /\ u # x  OBVIOUS
  <2> QED  BY <1>3, <2>1, <2>2, <2>3, <2>4
<1> HIDE DEF X
<1>12. X \subseteq Int /\ A \subseteq Int  BY DEF X
<1> HIDE DEF A
<1>13. Fitted(t, X, A)  BY <1>1, <1>2, <1>7, <1>9, <1>10, <1>11, <1>12 DEF Fitted
<1> QED  BY <1>13 DEF X, A, t

\* The tables that are partitioned by lists, with either list of predicates.
LEMMA ListFitted ==
  ASSUME NEW t, t.kind = "list", t.parts = list_int_parts, t.rows = list_int_rows,
         t.domain = Ones([i \in 1..17 |-> i - 3]), AsksAll(t.preds, 1, {-1, 0, 1, 2, 3, 4, 9, 10, 11})
  PROVE  Fitted(t, -2..14, {-1, 0, 1, 2, 3, 4, 9, 10, 11})
<1> DEFINE rs == <<NULL, -1, 0, 1, 2, 3, 4, 10, 11>>
           ds == [i \in 1..17 |-> i - 3]
           A == {-1, 0, 1, 2, 3, 4, 9, 10, 11}
           X == -2..14
<1>1. t.rows = Ones(rs)  BY DEF list_int_rows
<1>3. \A x \in X : At(t, x) = IF x \in {-1, 0, 1} THEN 2 ELSE IF x \in {3, 10} THEN 3 ELSE 4
  <2> TAKE x \in X
  <2>1. x \in Int  OBVIOUS
  <2>2. Home(t, <<x>>) = IF x \in {-1, 0, 1} THEN 2 ELSE IF x \in {3, 10} THEN 3 ELSE 4
    BY <2>1, ListHome
  <2> QED  BY <2>2 DEF At
<1>4. /\ DOMAIN rs = 1..9 /\ rs[1] = NULL /\ rs[2] = -1 /\ rs[3] = 0 /\ rs[4] = 1 /\ rs[5] = 2 /\ rs[6] = 3
      /\ rs[7] = 4 /\ rs[8] = 10 /\ rs[9] = 11
  OBVIOUS
<1> HIDE DEF rs
<1>5. \A i \in DOMAIN rs : rs[i] \in A \cup {NULL}  BY <1>4
<1>6. \A x \in A \ {9} : Among(x, rs)  BY <1>4 DEF Among
<1>7. /\ Values(t) = {<<x>> : x \in X}
      /\ \A x : Among(<<x>>, t.rows) <=> Among(x, rs)
  <2>1. A \subseteq X /\ X \subseteq Int  OBVIOUS
  <2>2. \A x \in X : Among(x, ds)
    <3>1. \A x \in X : x + 3 \in DOMAIN ds /\ ds[x + 3] = x  OBVIOUS
    <3> QED  BY <3>1 DEF Among
  <2>3. \A i \in DOMAIN ds : ds[i] \in X  OBVIOUS
  <2>4. t.domain = Ones(ds)  OBVIOUS
  <2> HIDE DEF A, X, ds
  <2> QED  BY <1>1, <1>5, <2>1, <2>2, <2>3, <2>4, ValuesAre
<1>8. \A x \in X : Among(<<x>>, t.rows) => x \in A
  <2>1. \A x \in X : x # NULL  BY NullAssumption
  <2> QED  BY <1>5, <1>7, <2>1 DEF Among
<1>9. \A p \in 1..4 : (\E x \in X : At(t, x) = p) =>
        \E z \in A : /\ At(t, z) = p /\ Among(<<z>>, t.rows)
                     /\ z + 1 \in A /\ (p # 1 => z - 1 \in A) /\ \E y \in A : y # z
  <2> DEFINE z(p) == IF p = 2 THEN 0 ELSE IF p = 3 THEN 3 ELSE 2
  <2> TAKE p \in 1..4
  <2>a. CASE p = 1
    <3>1. \A x \in X : At(t, x) # 1  BY <1>3
    <3> QED  BY <2>a, <3>1
  <2>b. CASE p # 1
    <3>1. z(p) \in A \ {9} /\ z(p) \in X /\ z(p) + 1 \in A /\ z(p) - 1 \in A /\ z(p) # 1 /\ 1 \in A  OBVIOUS
    <3>2. At(t, z(p)) = p  BY <1>3, <2>b, <3>1
    <3>3. Among(<<z(p)>>, t.rows)  BY <1>6, <1>7, <3>1
    <3> HIDE DEF z, A
    <3> QED  BY <3>1, <3>2, <3>3
  <2> QED  BY <2>a, <2>b
<1>10. \A x \in X : Among(<<x>>, t.rows) /\ BesideBoundary(t, <<x>>) =>
         /\ x \in A
         /\ x + 1 \in A \/ \E y \in X : y < x /\ At(t, y) = At(t, x)
  <2> TAKE x \in X
  <2> HAVE Among(<<x>>, t.rows) /\ BesideBoundary(t, <<x>>)
  <2>1. x \in A  BY <1>8
  <2>2. x \in {-1, 0, 1, 2, 3, 9, 10} => x + 1 \in A  OBVIOUS
  <2>3. x \in {4, 11} => 2 \in X /\ 2 < x /\ At(t, 2) = At(t, x)  BY <1>3
  <2> QED  BY <2>1, <2>2, <2>3
<1>11. \A x, w \in X : (\A u \in X : At(t, u) = At(t, x) /\ u # w => u = x) => w \in A
  <2> SUFFICES ASSUME NEW x \in X, NEW w \in X, w \notin A
               PROVE  \E u \in X : At(t, u) = At(t, x) /\ u # w /\ u # x
    OBVIOUS
  <2>1. \E u \in {-1, 0} : u # w /\ u # x  OBVIOUS
  <2>2. \E u \in {3, 10} : u # w /\ u # x  OBVIOUS
  <2>3. \E u \in {2, 4, 5} : u # w /\ u # x  OBVIOUS
  <2> QED  BY <1>3, <2>1, <2>2, <2>3
<1> HIDE DEF X
<1>12. X \subseteq Int /\ A \subseteq Int /\ AsksAll(t.preds, 1, A)  BY DEF X
<1> HIDE DEF A
<1>13. Fitted(t, X, A)  BY <1>7, <1>9, <1>10, <1>11, <1>12 DEF Fitted
<1> QED  BY <1>13 DEF X, A

\* The lists of the partition probe,
LEMMA PruneListFitted == Fitted(list_columns_int_default, -2..14, {-1, 0, 1, 2, 3, 4, 9, 10, 11})
<1> DEFINE t == list_columns_int_default
           A == {-1, 0, 1, 2, 3, 4, 9, 10, 11}
           edges == {0, 1, 3, 10}
           s == numeric_boundary_predicates(1, edges, TRUE)
           u == <<Over(1, "null_safe_null", <<>>), Is(1, "null_safe", 3), Over(1, "not_in", <<-1, 0, 1, 3, 10>>),
                  Over(1, "in", <<1, 2, 3, 4, 10, 11>>), Over(1, "between", <<1, 4>>), Or(IsNull(1), Or(Is(1, "eq", 2), Is(1, "eq", 10)))>>
<1>1. /\ t.kind = "list" /\ t.parts = list_int_parts /\ t.rows = list_int_rows
      /\ t.domain = Ones([i \in 1..17 |-> i - 3]) /\ t.preds = list_int_predicates
  BY DEF list_columns_int_default, Table
<1>2. list_int_predicates = dedupe_predicates(s \o u)  BY DEF list_int_predicates
<1>3. A \subseteq Beside(edges)  BY DEF Beside
<1>4. List(s) /\ AsksAll(s, 1, Beside(edges))
  <2>1. edges \subseteq 0..10 /\ 0 \in Int /\ 10 \in Int /\ TRUE \in BOOLEAN  OBVIOUS
  <2> HIDE DEF edges
  <2> QED  BY <2>1, BoundaryPredicates
<1>5. List(u)  BY SixListed
<1> HIDE DEF s, u, A, edges
<1>6. AsksAll(s, 1, A)  BY <1>3, <1>4 DEF AsksAll
<1>7. AsksAll(t.preds, 1, A)  BY <1>1, <1>2, <1>4, <1>5, <1>6, AddedTo
<1> HIDE DEF t
<1> QED  BY <1>1, <1>7, ListFitted DEF A, t

\* and those of a table with a global index.
LEMMA GlobalListFitted == Fitted(list_columns_int_default_global, -2..14, {-1, 0, 1, 2, 3, 4, 9, 10, 11})
<1> DEFINE t == list_columns_int_default_global
           A == {-1, 0, 1, 2, 3, 4, 9, 10, 11}
           edges == {0, 1, 3, 10}
           s == numeric_preds(1, edges, TRUE)
           u == <<Over(1, "not_in", <<-1, 0, 1, 3, 10>>), Over(1, "in", <<1, 2, 3, 4, 10, 11>>), Over(1, "between", <<1, 4>>),
                  Or(IsNull(1), Or(Is(1, "eq", 2), Is(1, "eq", 10)))>>
<1>1. /\ t.kind = "list" /\ t.parts = list_int_parts /\ t.rows = list_int_rows
      /\ t.domain = Ones([i \in 1..17 |-> i - 3]) /\ t.preds = list_preds
  BY DEF list_columns_int_default_global, Table
<1>2. list_preds = dedupe_predicates(s \o u)  BY DEF list_preds
<1>3. A \subseteq Beside(edges)  BY DEF Beside
<1>4. List(s) /\ AsksAll(s, 1, Beside(edges))
  <2>1. edges \subseteq 0..10 /\ 0 \in Int /\ 10 \in Int /\ TRUE \in BOOLEAN  OBVIOUS
  <2> HIDE DEF edges
  <2> QED  BY <2>1, GlobalPredicates
<1>5. List(u)  BY WrittenLists
<1> HIDE DEF s, u, A, edges
<1>6. AsksAll(s, 1, A)  BY <1>3, <1>4 DEF AsksAll
<1>7. AsksAll(t.preds, 1, A)  BY <1>1, <1>2, <1>4, <1>5, <1>6, AddedTo
<1> HIDE DEF t
<1> QED  BY <1>1, <1>7, ListFitted DEF A, t
-----------------------------------------------------------------------------
(* What a query tells of a defect *)

\* A query that is answered otherwise in some variant than in the reference.
Disagrees(d, k, q) == \E v \in k.others : Answer(d, k, q, v) # Answer(d, k, q, k.base)

\* The variants of a partitioned table, and what is asked of it.
LEMMA PrunedIs ==
  ASSUME NEW t, t.kind # "row"
  PROVE  LET k == Worked(Pruned(t))
         IN  /\ k.table = t /\ k.base = "ref" /\ k.others = {"static", "dynamic"}
             /\ \A r \in DOMAIN t.rows : k.homes[r] = Home(t, t.rows[r])
             /\ DOMAIN k.queries = DOMAIN t.preds
             /\ \A q \in DOMAIN t.preds :
                  /\ k.queries[q].limit = 0 /\ k.queries[q].hits = {r \in DOMAIN t.rows : Holds(t.preds[q], t.rows[r])}
                  /\ k.queries[q].shape = Shape(t.preds[q]) /\ k.queries[q].barely = Barely(t, t.preds[q])
<1> DEFINE k == Worked(Pruned(t))
           qs == Asked(t.preds)
<1>1. Pruned(t).table = t /\ Pruned(t).queries = qs /\ Pruned(t).base = "ref" /\ Pruned(t).others = {"static", "dynamic"}
  BY DEF Pruned, Case
<1>2. DOMAIN qs = DOMAIN t.preds /\ \A q \in DOMAIN t.preds : qs[q].pred = t.preds[q] /\ qs[q].limit = 0
  BY DEF Asked, Query
<1> HIDE DEF qs
<1>3. k.table = t /\ k.base = "ref" /\ k.others = {"static", "dynamic"} /\ k.homes = Homes(t)
  BY <1>1 DEF Worked
<1>4. k.queries = [q \in DOMAIN qs |->
        [desc |-> qs[q].desc, limit |-> qs[q].limit, hits |-> Hits(t, qs[q].pred),
         shape |-> Shape(qs[q].pred), barely |-> Barely(t, qs[q].pred)]]
  BY <1>1 DEF Worked
<1>5. \A r \in DOMAIN t.rows : k.homes[r] = Home(t, t.rows[r])  BY <1>3 DEF Homes
<1> HIDE DEF k
<1>6. DOMAIN k.queries = DOMAIN t.preds  BY <1>2, <1>4
<1>7. ASSUME NEW q \in DOMAIN t.preds
      PROVE  /\ k.queries[q].limit = 0 /\ k.queries[q].hits = {r \in DOMAIN t.rows : Holds(t.preds[q], t.rows[r])}
             /\ k.queries[q].shape = Shape(t.preds[q]) /\ k.queries[q].barely = Barely(t, t.preds[q])
  BY <1>2, <1>4, <1>7 DEF Hits, Known
<1> QED  BY <1>3, <1>5, <1>6, <1>7 DEF k

\* A defect that a comparison tells is seen by the query that asks it.
LEMMA ToldDisagrees ==
  ASSUME NEW t, NEW X, NEW A, Fitted(t, X, A), NEW c \in A, NEW op \in Operators, NEW p \in 1..4,
         NEW d, d.how \in {"edge", "whole"}, d.shape = op, d.place = p, d.variant \in {"static", "dynamic"},
         Tells(t, op, p, d.how, c)
  PROVE  \E q \in DOMAIN Worked(Pruned(t)).queries : Disagrees(d, Worked(Pruned(t)), q)
<1> DEFINE k == Worked(Pruned(t))
           pred == Is(1, op, c)
<1>1. /\ k.table = t /\ k.base = "ref" /\ k.others = {"static", "dynamic"}
      /\ \A r \in DOMAIN t.rows : k.homes[r] = Home(t, t.rows[r])
      /\ DOMAIN k.queries = DOMAIN t.preds
      /\ \A q \in DOMAIN t.preds :
           /\ k.queries[q].limit = 0 /\ k.queries[q].hits = {r \in DOMAIN t.rows : Holds(t.preds[q], t.rows[r])}
           /\ k.queries[q].shape = Shape(t.preds[q]) /\ k.queries[q].barely = Barely(t, t.preds[q])
  <2>1. t.kind # "row"  BY DEF Fitted
  <2> QED  BY <2>1, PrunedIs
<1> HIDE DEF k
<1>2. PICK q \in DOMAIN t.preds : t.preds[q] = pred  BY DEF Fitted, AsksAll, Among
<1>3. c \in Int /\ Shape(pred) = op
  <2>1. c \in Int  BY DEF Fitted
  <2> QED  BY <2>1, ComparisonIs
<1>4. PICK r \in DOMAIN t.rows : Home(t, t.rows[r]) = p /\ Holds(pred, t.rows[r])  BY DEF Tells
<1>5. d.how = "edge" => p \in Barely(t, pred)  BY DEF Tells
<1> HIDE DEF pred
<1> DEFINE x == k.queries[q]
<1>6. x.limit = 0 /\ x.shape = op /\ r \in x.hits /\ k.homes[r] = p /\ (d.how = "edge" => p \in x.barely)
  BY <1>1, <1>2, <1>3, <1>4, <1>5
<1>7. Touches(d, k, x, d.variant) /\ ~Touches(d, k, x, "ref")  BY <1>6 DEF Touches
<1>8. Answer(d, k, q, d.variant) = {y \in x.hits : k.homes[y] # p}  BY <1>6, <1>7 DEF Answer, Take
<1>9. Answer(d, k, q, "ref") = x.hits  BY <1>6, <1>7 DEF Answer, Take
<1>10. Answer(d, k, q, d.variant) # Answer(d, k, q, "ref")  BY <1>6, <1>8, <1>9
<1>11. Disagrees(d, k, q)  BY <1>1, <1>10 DEF Disagrees
<1> QED  BY <1>1, <1>2, <1>11 DEF k

\* So every defect of the comparisons that shows in such a table is seen.
LEMMA ShownDisagrees ==
  ASSUME NEW t, NEW X, NEW A, Fitted(t, X, A), NEW d, d.how \in {"edge", "whole"},
         d.variant \in {"static", "dynamic"}, d.shape \in Operators, d.place \in 1..4,
         d.shape = "gt" => d.how = "whole" /\ d.place # 1,
         NEW vs \in Reach(t)[d.shape][d.place], \E r \in DOMAIN t.rows : t.rows[r] \in vs,
         d.how = "edge" => \E v \in vs : vs = {v} /\ BesideBoundary(t, v)
  PROVE  \E q \in DOMAIN Worked(Pruned(t)).queries : Disagrees(d, Worked(Pruned(t)), q)
<1> DEFINE op == d.shape
           p == d.place
<1>1. PICK w \in X : vs = {<<x>> : x \in {y \in X : At(t, y) = p /\ Compared(op, y, w)}}
  <2>1. op \in Operators /\ p \in 1..4 /\ vs \in Reach(t)[op][p]  OBVIOUS
  <2> HIDE DEF op, p
  <2> QED  BY <2>1, ReachIs
<1>2. PICK r \in DOMAIN t.rows : t.rows[r] \in vs  OBVIOUS
<1>3. PICK x \in X : t.rows[r] = <<x>> /\ At(t, x) = p /\ Compared(op, x, w)  BY <1>1, <1>2
<1>4. PICK c \in A : Tells(t, op, p, d.how, c)
  <2>1. CASE d.how = "whole"  BY <1>3, <2>1, WholeTold
  <2>2. CASE d.how = "edge"
    <3>1. vs = {<<x>>} /\ BesideBoundary(t, <<x>>)  BY <1>2, <1>3, <2>2
    <3>2. \A y, z : <<y>> = <<z>> => y = z
      <4>1. \A y : <<y>>[1] = y  OBVIOUS
      <4> QED  BY <4>1
    <3>3. {y \in X : At(t, y) = p /\ Compared(op, y, w)} = {x}
      <4> DEFINE S == {y \in X : At(t, y) = p /\ Compared(op, y, w)}
      <4>1. x \in S  BY <1>3
      <4>2. vs = {<<y>> : y \in S}  BY <1>1
      <4> HIDE DEF S
      <4>3. \A y \in S : <<y>> = <<x>>  BY <3>1, <4>2
      <4>4. S = {x}  BY <3>2, <4>1, <4>3
      <4> QED  BY <4>4 DEF S
    <3>4. Among(<<x>>, t.rows) /\ op # "gt"  BY <1>3, <2>2 DEF Among
    <3> HIDE DEF op, p
    <3>5. op \in Operators /\ p \in 1..4  BY DEF op, p
    <3> QED  BY <2>2, <3>1, <3>3, <3>4, <3>5, EdgeTold
  <2> QED  BY <2>1, <2>2
<1> QED  BY <1>4, ToldDisagrees

\* Where a plan is prepared once, it keeps the place the first parameters reached.
LEMMA DriftIs ==
  ASSUME NEW kind, NEW parts, NEW rows, NEW preds, Numbered(preds), NEW d, d.how = "drift", d.variant = "cached",
         d.shape = kind, NEW q \in DOMAIN preds,
         NEW r \in DOMAIN rows, Holds(preds[q], rows[r]),
         LET homes == Homes(Table(kind, parts, <<>>, rows, <<>>))
         IN  \A s \in DOMAIN rows : Holds(preds[1], rows[s]) => homes[s] # homes[r]
  PROVE  Disagrees(d, Worked(DriftCase(kind, parts, rows, Asked(preds))), q)
<1> DEFINE t == Table(kind, parts, <<>>, rows, <<>>)
           k == Worked(DriftCase(kind, parts, rows, Asked(preds)))
           qs == Asked(preds)
           homes == Homes(t)
<1>1. t.kind = kind /\ t.rows = rows  BY DEF Table
<1>2. DOMAIN qs = DOMAIN preds /\ \A i \in DOMAIN preds : qs[i].pred = preds[i] /\ qs[i].limit = 0
  BY DEF Asked, Query
<1>3. k.table = t /\ k.base = "direct" /\ k.others = {"cached", "nocache"} /\ k.homes = homes
  BY DEF Worked, DriftCase, Case
<1>4. k.queries = [i \in DOMAIN qs |->
        [desc |-> qs[i].desc, limit |-> qs[i].limit, hits |-> Hits(t, qs[i].pred),
         shape |-> Shape(qs[i].pred), barely |-> Barely(t, qs[i].pred)]]
  BY DEF Worked, DriftCase, Case
<1>5. 1 \in DOMAIN preds  BY DEF Numbered
<1> HIDE DEF k, qs, t
<1>6. \A i \in DOMAIN preds : k.queries[i].limit = 0 /\ k.queries[i].hits = {s \in DOMAIN rows : Holds(preds[i], rows[s])}
  BY <1>1, <1>2, <1>4 DEF Hits, Known
<1> DEFINE x == k.queries[q]
           first == k.queries[1]
           known == {homes[s] : s \in first.hits}
<1>7. x.limit = 0 /\ first.limit = 0 /\ r \in x.hits  BY <1>5, <1>6
<1>8. homes[r] \notin known
  <2>1. \A s \in DOMAIN rows : Holds(preds[1], rows[s]) => homes[s] # homes[r]  BY DEF t
  <2> QED  BY <1>5, <1>6, <2>1
<1>9. Touches(d, k, x, "cached") /\ ~Touches(d, k, x, "direct")  BY <1>1, <1>3 DEF Touches
<1> HIDE DEF known, homes
<1>10. Answer(d, k, q, "cached") = {s \in x.hits : homes[s] \in known}
  BY <1>3, <1>7, <1>9 DEF Answer, Take, known
<1>11. Answer(d, k, q, "direct") = x.hits  BY <1>7, <1>9 DEF Answer, Take
<1>12. Answer(d, k, q, "cached") # Answer(d, k, q, "direct")  BY <1>7, <1>8, <1>10, <1>11
<1>13. "cached" \in k.others /\ k.base = "direct"  BY <1>3
<1> QED  BY <1>12, <1>13 DEF Disagrees, k

\* A row that is looked up by its key,
LEMMA RowDrifts ==
  ASSUME NEW d, d.how = "drift", d.variant = "cached", d.shape = "row"
  PROVE  Disagrees(d, Worked(point_get_cache_baseline), 2)
<1> DEFINE rows == Ones(<<1, 2, 3>>)
           preds == [i \in DOMAIN <<1, 2, 3>> |-> Is(1, "eq", <<1, 2, 3>>[i])]
           homes == Homes(Table("row", <<>>, <<>>, rows, <<>>))
<1>1. point_get_cache_baseline = DriftCase("row", <<>>, rows, Asked(preds))  BY DEF point_get_cache_baseline, For
<1>2. DOMAIN rows = 1..3 /\ rows[1] = <<1>> /\ rows[2] = <<2>> /\ rows[3] = <<3>>  BY DEF Ones
<1>3. DOMAIN preds = 1..3 /\ preds[1] = Is(1, "eq", 1) /\ preds[2] = Is(1, "eq", 2)  OBVIOUS
<1>4. homes[1] = 1 /\ homes[2] = 2 /\ homes[3] = 3  BY <1>2 DEF Homes, Table
<1> HIDE DEF rows, preds, homes
<1>5. Numbered(preds)  BY <1>3 DEF Numbered
<1>6. "eq" \in Operators  BY OperatorsAre
<1>7. /\ Holds(preds[2], rows[2])
      /\ ~Holds(preds[1], rows[2]) /\ ~Holds(preds[1], rows[3])
  BY <1>2, <1>3, <1>6, ComparisonIs DEF Compared
<1>8. \A s \in DOMAIN rows : Holds(preds[1], rows[s]) => homes[s] # homes[2]  BY <1>2, <1>4, <1>7
<1> QED  BY <1>1, <1>2, <1>3, <1>5, <1>7, <1>8, DriftIs DEF homes

\* one in an index that holds some rows,
LEMMA IndexDrifts ==
  ASSUME NEW d, d.how = "drift", d.variant = "cached", d.shape = "index"
  PROVE  Disagrees(d, Worked(partial_index_gt_threshold), 2)
<1> DEFINE rs == <<NULL, -1, 0, 1, 2, 3, 10, 20>>
           rows == Ones(rs)
           preds == [i \in DOMAIN <<15, 0, 10>> |-> Is(1, "gt", <<15, 0, 10>>[i])]
           t == Table("index", Is(1, "gt", 10), <<>>, rows, <<>>)
           homes == Homes(t)
<1>1. partial_index_gt_threshold = DriftCase("index", Is(1, "gt", 10), rows, Asked(preds))
  BY DEF partial_index_gt_threshold, For, drift_base_rows
<1>a. /\ DOMAIN rs = 1..8 /\ rs[1] = NULL /\ rs[2] = -1 /\ rs[3] = 0 /\ rs[4] = 1 /\ rs[5] = 2 /\ rs[6] = 3
      /\ rs[7] = 10 /\ rs[8] = 20
  OBVIOUS
<1>2. DOMAIN rows = 1..8 /\ \A i \in 1..8 : rows[i] = <<rs[i]>>  BY <1>a DEF Ones
<1>3. DOMAIN preds = 1..3 /\ preds[1] = Is(1, "gt", 15) /\ preds[2] = Is(1, "gt", 0)  OBVIOUS
<1>4. \A i \in 1..8 : homes[i] = IF Holds(Is(1, "gt", 10), rows[i]) THEN 1 ELSE 2
  <2>1. t.kind = "index" /\ t.parts = Is(1, "gt", 10) /\ t.rows = rows  BY DEF Table
  <2> HIDE DEF t
  <2> QED  BY <1>2, <2>1 DEF Homes, Home
<1> HIDE DEF rs, rows, preds, homes
<1>5. Numbered(preds)  BY <1>3 DEF Numbered
<1>6. "gt" \in Operators  BY OperatorsAre
<1>7. \A c \in Int, i \in 1..8 : Holds(Is(1, "gt", c), rows[i]) <=> i # 1 /\ rs[i] > c
  <2>1. \A i \in 2..8 : rs[i] \in Int  BY <1>a
  <2>2. \A c \in Int, i \in 2..8 : Holds(Is(1, "gt", c), rows[i]) <=> rs[i] > c
    BY <1>2, <1>6, <2>1, ComparisonIs DEF Compared
  <2>3. \A c \in Int : ~Holds(Is(1, "gt", c), rows[1])  BY <1>2, <1>6, <1>a, ComparisonIs
  <2> QED  BY <2>2, <2>3
<1>8. Holds(preds[2], rows[4])  BY <1>3, <1>7, <1>a
<1>9. homes[4] = 2  BY <1>4, <1>7, <1>a
<1>10. \A s \in DOMAIN rows : Holds(preds[1], rows[s]) => homes[s] # homes[4]
  <2> SUFFICES ASSUME NEW s \in 1..8, Holds(preds[1], rows[s])  PROVE homes[s] = 1  BY <1>2, <1>9
  <2>1. s # 1 /\ rs[s] > 15  BY <1>3, <1>7
  <2>2. rs[s] \in Int /\ rs[s] > 10  BY <1>a, <2>1
  <2>3. Holds(Is(1, "gt", 10), rows[s])  BY <1>7, <2>1, <2>2
  <2> QED  BY <1>4, <2>3
<1> QED  BY <1>1, <1>2, <1>3, <1>5, <1>8, <1>10, DriftIs DEF homes

\* A row that both predicates hold of.
LEMMA AndHolds == ASSUME NEW p, NEW q, NEW row  PROVE Holds(And(p, q), row) <=> Holds(p, row) /\ Holds(q, row)
<1>1. ASSUME Holds(And(p, q), row)  PROVE Holds(p, row) /\ Holds(q, row)
  <2>1. PICK x \in p, y \in q : \A atom \in x \cup y : Compares(atom, row[atom.column])
    BY <1>1 DEF Holds, And
  <2> QED  BY <2>1 DEF Holds
<1>2. ASSUME Holds(p, row), Holds(q, row)  PROVE Holds(And(p, q), row)
  <2>1. PICK x \in p : \A atom \in x : Compares(atom, row[atom.column])  BY <1>2 DEF Holds
  <2>2. PICK y \in q : \A atom \in y : Compares(atom, row[atom.column])  BY <1>2 DEF Holds
  <2>3. x \cup y \in And(p, q)  BY DEF And
  <2>4. \A atom \in x \cup y : Compares(atom, row[atom.column])  BY <2>1, <2>2
  <2> QED  BY <2>3, <2>4 DEF Holds
<1> QED  BY <1>1, <1>2

\* A row that has a value in a column.
LEMMA EqualHolds ==
  ASSUME NEW c, NEW v \in Int, NEW row  PROVE Holds(Is(c, "eq", v), row) <=> row[c] = v
<1> DEFINE atom == [column |-> c, op |-> "eq", of |-> <<v>>]
<1>1. atom.op = "eq" /\ atom.of[1] = v /\ atom.column = c  OBVIOUS
<1>2. Is(c, "eq", v) = {{atom}}  BY DEF Is
<1> HIDE DEF atom
<1>3. Holds({{atom}}, row) <=> Compares(atom, row[c])  BY <1>1 DEF Holds
<1>4. v # NULL  BY NullAssumption
<1>5. Compares(atom, row[c]) <=> row[c] = v
  <2>1. CASE row[c] = NULL  BY <1>1, <1>4, <2>1 DEF Compares
  <2>2. CASE row[c] # NULL  BY <1>1, <2>2 DEF Compares
  <2> QED  BY <2>1, <2>2
<1> QED  BY <1>2, <1>3, <1>5

\* one in a range,
LEMMA RangeDrifts ==
  ASSUME NEW d, d.how = "drift", d.variant = "cached", d.shape = "range"
  PROVE  Disagrees(d, Worked(partition_dynamic_between_boundary), 2)
<1> DEFINE rs == <<NULL, -1, 0, 1, 2, 3, 7, 8, 10>>
           rows == Ones(rs)
           ps == <<<<0, 3>>, <<3, 8>>, <<-10, 0>>, <<0, 100>>, <<8, 2>>>>
           preds == [i \in DOMAIN ps |-> And(Is(1, "ge", ps[i][1]), Is(1, "lt", ps[i][2]))]
           parts == Ones(<<0, 3, 8, Max>>)
           t == Table("range", parts, <<>>, rows, <<>>)
           homes == Homes(t)
<1>1. partition_dynamic_between_boundary = DriftCase("range", parts, rows, Asked(preds))
  BY DEF partition_dynamic_between_boundary, For
<1>a. /\ DOMAIN rs = 1..9 /\ rs[1] = NULL /\ rs[2] = -1 /\ rs[3] = 0 /\ rs[4] = 1 /\ rs[5] = 2 /\ rs[6] = 3
      /\ rs[7] = 7 /\ rs[8] = 8 /\ rs[9] = 10
  OBVIOUS
<1>2. DOMAIN rows = 1..9 /\ \A i \in 1..9 : rows[i] = <<rs[i]>>  BY <1>a DEF Ones
<1>3. /\ DOMAIN preds = 1..5 /\ preds[1] = And(Is(1, "ge", 0), Is(1, "lt", 3))
      /\ preds[2] = And(Is(1, "ge", 3), Is(1, "lt", 8))
  OBVIOUS
<1>4. \A i \in 2..9 : homes[i] = IF rs[i] < 0 THEN 1 ELSE IF rs[i] < 3 THEN 2 ELSE IF rs[i] < 8 THEN 3 ELSE 4
  <2> TAKE i \in 2..9
  <2> DEFINE a == 0
             b == 3
             c == 8
             x == rs[i]
  <2>1. x \in Int /\ x < Max /\ c < Max  BY <1>a DEF Max
  <2>2. a \in Int /\ b \in Int /\ c \in Int /\ a < b /\ b < c  OBVIOUS
  <2>3. t.kind = "range" /\ t.parts = Ones(<<a, b, c, Max>>) /\ t.rows = rows  BY DEF Table
  <2> HIDE DEF t, a, b, c, rs, rows
  <2>4. Home(t, <<x>>) = IF x < a THEN 1 ELSE IF x < b THEN 2 ELSE IF x < c THEN 3 ELSE 4
    BY <2>1, <2>2, <2>3, RangeHome
  <2>5. homes[i] = Home(t, <<x>>)  BY <1>2, <2>3 DEF Homes
  <2> QED  BY <2>4, <2>5 DEF a, b, c
<1> HIDE DEF rs, rows, preds, homes, parts
<1>5. Numbered(preds)  BY <1>3 DEF Numbered
<1>6. "ge" \in Operators /\ "lt" \in Operators  BY OperatorsAre
<1>7. \A c \in Int, i \in 1..9 : /\ Holds(Is(1, "ge", c), rows[i]) <=> i # 1 /\ rs[i] >= c
                                 /\ Holds(Is(1, "lt", c), rows[i]) <=> i # 1 /\ rs[i] < c
  <2>1. \A i \in 2..9 : rs[i] \in Int  BY <1>a
  <2>2. \A c \in Int, i \in 2..9 : /\ Holds(Is(1, "ge", c), rows[i]) <=> rs[i] >= c
                                   /\ Holds(Is(1, "lt", c), rows[i]) <=> rs[i] < c
    BY <1>2, <1>6, <2>1, ComparisonIs DEF Compared
  <2>3. \A c \in Int : ~Holds(Is(1, "ge", c), rows[1]) /\ ~Holds(Is(1, "lt", c), rows[1])
    BY <1>2, <1>6, <1>a, ComparisonIs
  <2> QED  BY <2>2, <2>3
<1>8. Holds(preds[2], rows[6])
  <2>1. Holds(Is(1, "ge", 3), rows[6]) /\ Holds(Is(1, "lt", 8), rows[6])  BY <1>7, <1>a
  <2> QED  BY <1>3, <2>1, AndHolds
<1>9. homes[6] = 3  BY <1>4, <1>a
<1>10. \A s \in DOMAIN rows : Holds(preds[1], rows[s]) => homes[s] # homes[6]
  <2> SUFFICES ASSUME NEW s \in 1..9, Holds(preds[1], rows[s])  PROVE homes[s] = 2  BY <1>2, <1>9
  <2>1. Holds(Is(1, "ge", 0), rows[s]) /\ Holds(Is(1, "lt", 3), rows[s])  BY <1>3, AndHolds
  <2>2. s # 1 /\ rs[s] >= 0 /\ rs[s] < 3  BY <1>7, <2>1
  <2>3. s \in 2..9 /\ rs[s] \in Int  BY <1>a, <2>2
  <2> QED  BY <1>4, <2>2, <2>3
<1> QED  BY <1>1, <1>2, <1>3, <1>5, <1>8, <1>10, DriftIs DEF homes

\* and one in a list.
LEMMA ListDrifts ==
  ASSUME NEW d, d.how = "drift", d.variant = "cached", d.shape = "list"
  PROVE  Disagrees(d, Worked(partition_dynamic_list_multi_default_point), 2)
<1> DEFINE rows == list_multi_rows
           ps == <<<<1, 1>>, <<1, 3>>, <<2, 2>>, <<3, 3>>, <<4, 4>>>>
           preds == [i \in DOMAIN ps |-> AB(ps[i][1], "eq", ps[i][2])]
           parts == list_multi_parts
           t == Table("list", parts, <<>>, rows, <<>>)
           homes == Homes(t)
<1>1. partition_dynamic_list_multi_default_point = DriftCase("list", parts, rows, Asked(preds))
  BY DEF partition_dynamic_list_multi_default_point, For
<1>2. /\ DOMAIN rows = 1..9 /\ rows[1] = <<1, 1>> /\ rows[2] = <<1, 2>> /\ rows[3] = <<1, 3>> /\ rows[4] = <<2, 1>>
      /\ rows[5] = <<2, 2>> /\ rows[6] = <<3, 3>> /\ rows[7] = <<NULL, 3>> /\ rows[8] = <<NULL, 4>> /\ rows[9] = <<4, NULL>>
  BY DEF list_multi_rows
<1>3. /\ DOMAIN preds = 1..5 /\ preds[1] = And(Is(1, "eq", 1), Is(2, "eq", 1))
      /\ preds[2] = And(Is(1, "eq", 1), Is(2, "eq", 3))
  BY DEF AB
<1>4. \A v \in Int, w \in Int, i \in 1..9 :
        Holds(And(Is(1, "eq", v), Is(2, "eq", w)), rows[i]) <=> rows[i][1] = v /\ rows[i][2] = w
  BY AndHolds, EqualHolds
<1>5. DOMAIN parts = 1..2 /\ parts[1] = {<<1, 1>>, <<1, 2>>, <<2, 1>>} /\ parts[2] = {<<3, 3>>, <<NULL, 3>>} /\ Len(parts) = 2
  BY DEF list_multi_parts
<1>6. \A i \in 1..9 : homes[i] = ListOf(parts, rows[i])
  <2>1. t.kind = "list" /\ t.parts = parts /\ t.rows = rows  BY DEF Table
  <2> HIDE DEF t, parts, rows
  <2> QED  BY <1>2, <2>1 DEF Homes, Home, Place
<1> HIDE DEF rows, preds, homes, parts
<1>7. homes[3] = 3
  <2>1. rows[3][1] = 1 /\ rows[3][2] = 3  BY <1>2
  <2>2. \A i \in 1..2 : rows[3] \notin parts[i]
    <3>1. 1 # NULL  BY NullAssumption
    <3>2. rows[3] # <<1, 1>> /\ rows[3] # <<1, 2>> /\ rows[3] # <<2, 1>> /\ rows[3] # <<3, 3>> /\ rows[3] # <<NULL, 3>>
      BY <2>1, <3>1
    <3> QED  BY <1>5, <3>2
  <2> QED  BY <1>5, <1>6, <2>2 DEF ListOf
<1>8. homes[1] # 3
  <2>1. rows[1] \in parts[1]  BY <1>2, <1>5
  <2>2. homes[1] = CHOOSE i \in 1..2 : rows[1] \in parts[i]  BY <1>5, <1>6, <2>1 DEF ListOf
  <2>3. homes[1] \in 1..2  BY <2>1, <2>2
  <2> QED  BY <2>3
<1>9. Holds(preds[2], rows[3])
  <2>1. rows[3][1] = 1 /\ rows[3][2] = 3  BY <1>2
  <2> QED  BY <1>3, <1>4, <2>1
<1>10. \A s \in DOMAIN rows : Holds(preds[1], rows[s]) => homes[s] # homes[3]
  <2> SUFFICES ASSUME NEW s \in 1..9, Holds(preds[1], rows[s])  PROVE s = 1  BY <1>2, <1>7, <1>8
  <2>1. rows[s][1] = 1 /\ rows[s][2] = 1  BY <1>3, <1>4
  <2>2. 1 # NULL  BY NullAssumption
  <2> QED  BY <1>2, <2>1, <2>2
<1>11. Numbered(preds)  BY <1>3 DEF Numbered
<1> QED  BY <1>1, <1>2, <1>3, <1>9, <1>10, <1>11, DriftIs DEF homes

\* The cases of the tables in one integer column.
LEMMA NumericCases ==
  \A f \in DOMAIN Numeric : \A c \in Numeric[f] :
    \E t, X, A : Cases[f][c] = Pruned(t) /\ Fitted(t, X, A)
<1>1. DOMAIN Numeric = {"partition_prune", "global_index_prune"}  BY DEF Numeric
<1>2. Numeric["partition_prune"] = {1, 7} /\ Numeric["global_index_prune"] = {1, 3}  BY DEF Numeric
<1>3. /\ Cases["partition_prune"][1] = Pruned(range_columns_int)
      /\ Cases["partition_prune"][7] = Pruned(list_columns_int_default)
  BY DEF Cases
<1>4. /\ Cases["global_index_prune"][1] = Pruned(range_columns_int_global)
      /\ Cases["global_index_prune"][3] = Pruned(list_columns_int_default_global)
  BY DEF Cases
<1>5. ASSUME NEW c \in {1, 7}  PROVE \E t, X, A : Cases["partition_prune"][c] = Pruned(t) /\ Fitted(t, X, A)
  BY <1>3, RangeFitted, PruneListFitted
<1>6. ASSUME NEW c \in {1, 3}  PROVE \E t, X, A : Cases["global_index_prune"][c] = Pruned(t) /\ Fitted(t, X, A)
  BY <1>4, GlobalRangeFitted, GlobalListFitted
<1> QED  BY <1>1, <1>2, <1>5, <1>6

\* A broken proof is wrong at an edge, or always.
LEMMA BrokenHow ==
  ASSUME NEW k, NEW numeric, NEW d \in ProofsBroken(k, numeric)  PROVE d.how \in {"edge", "whole"}
<1> DEFINE places(x) == {k.homes[r] : r \in x.hits}
           of(x, how) == [variant : Faulty, shape : {x.shape}, how : {how},
                          place : IF how = "edge" THEN places(x) \cap x.barely ELSE places(x)]
           any == [variant : Faulty, shape : Operators, how : {"edge", "whole"}, place : 1..4]
<1>1. \A x, how : \A e \in of(x, how) : e.how = how  OBVIOUS
<1>2. \A e \in any : e.how \in {"edge", "whole"}  OBVIOUS
<1>3. ProofsBroken(k, numeric) =
        (UNION {of(k.queries[q], "edge") \cup of(k.queries[q], "whole") : q \in DOMAIN k.queries})
        \cup (IF numeric THEN any ELSE {})
  BY DEF ProofsBroken
<1> HIDE DEF of, any
<1>4. d \in any \/ \E q \in DOMAIN k.queries : d \in of(k.queries[q], "edge") \cup of(k.queries[q], "whole")
  <2> DEFINE both(q) == of(k.queries[q], "edge") \cup of(k.queries[q], "whole")
             some == UNION {both(q) : q \in DOMAIN k.queries}
             rest == IF numeric THEN any ELSE {}
  <2>1. d \in some \/ d \in rest  BY <1>3
  <2>2. d \in rest => d \in any  OBVIOUS
  <2> HIDE DEF both
  <2>3. d \in some => \E q \in DOMAIN k.queries : d \in both(q)  OBVIOUS
  <2> QED  BY <2>1, <2>2, <2>3 DEF both
<1> QED  BY <1>1, <1>2, <1>4

\* What is wrong with the product, and in which variant, where partitions are pruned.
LEMMA PruneDefects ==
  ASSUME Placed, flag \in DOMAIN Numeric, defect \in Defects(flag, only, Probes[flag]), defect # NoDefect
  PROVE  defect.how \in {"edge", "whole"} /\ defect.variant \in {"static", "dynamic"}
<1>1. flag \in {"partition_prune", "global_index_prune"}  BY DEF Numeric
<1>2. PICK c \in only : defect \in ProofsBroken(Probes[flag][c], IsNumeric(flag, c))
  BY <1>1 DEF Defects
<1>3. defect.how \in {"edge", "whole"}  BY <1>2, BrokenHow
<1>4. PICK e \in only : Breakable(defect, Probes[flag][e])  BY <1>1 DEF Defects
<1>5. \E t : Cases[flag][e] = Pruned(t)
  <2>1. CASE flag = "partition_prune"
    <3>1. e \in 1..9  BY <2>1, PartitionCases DEF Placed
    <3> QED  BY <2>1, <3>1 DEF Cases
  <2>2. CASE flag = "global_index_prune"
    <3>1. e \in 1..4  BY <2>2, GlobalCases DEF Placed
    <3> QED  BY <2>2, <3>1 DEF Cases
  <2> QED  BY <1>1, <2>1, <2>2
<1>6. PICK t : Cases[flag][e] = Pruned(t)  BY <1>5
<1>7. Probes[flag][e] = Worked(Pruned(t))  BY <1>6 DEF Probes, Placed
<1>8. Probes[flag][e].others = {"static", "dynamic"}  BY <1>7 DEF Worked, Pruned, Case
<1> QED  BY <1>3, <1>4, <1>8 DEF Breakable

\* A defect that shows is seen by a query of a case that is run: of the comparisons,
LEMMA PruneShown ==
  ASSUME Placed, defect \in Defects(flag, only, Probes[flag]), Shows, defect.how # "drift"
  PROVE  \E c \in only : \E q \in DOMAIN Probes[flag][c].queries : Disagrees(defect, Probes[flag][c], q)
<1>1. /\ flag \in DOMAIN Numeric /\ defect # NoDefect
      /\ defect.shape = "gt" => defect.how = "whole" /\ defect.place # 1
  BY DEF Shows
<1>2. PICK c \in only \cap Numeric[flag] : ShowsIn(Probes[flag][c].table, Reaches[flag][c])  BY DEF Shows
<1>3. defect.how \in {"edge", "whole"} /\ defect.variant \in {"static", "dynamic"}  BY <1>1, PruneDefects
<1>4. PICK t, X, A : Cases[flag][c] = Pruned(t) /\ Fitted(t, X, A)  BY <1>1, NumericCases
<1>5. Probes[flag][c] = Worked(Pruned(t))  BY <1>4 DEF Probes, Placed
<1>6. Probes[flag][c].table = t  BY <1>5 DEF Worked, Pruned, Case
<1>7. Reaches[flag][c] = Reach(t)
  <2>1. Cases[flag][c].table = t  BY <1>4 DEF Pruned, Case
  <2> QED  BY <1>1, <2>1 DEF Reaches
<1>8. /\ defect.shape \in Operators /\ defect.place \in 1..4
      /\ \E vs \in Reach(t)[defect.shape][defect.place] :
           /\ \E r \in DOMAIN t.rows : t.rows[r] \in vs
           /\ defect.how = "edge" => \E v \in vs : vs = {v} /\ BesideBoundary(t, v)
  BY <1>2, <1>6, <1>7 DEF ShowsIn
<1>9. PICK vs \in Reach(t)[defect.shape][defect.place] :
           /\ \E r \in DOMAIN t.rows : t.rows[r] \in vs
           /\ defect.how = "edge" => \E v \in vs : vs = {v} /\ BesideBoundary(t, v)
  BY <1>8
<1>10. \E q \in DOMAIN Worked(Pruned(t)).queries : Disagrees(defect, Worked(Pruned(t)), q)
  BY <1>1, <1>3, <1>4, <1>8, <1>9, ShownDisagrees
<1> QED  BY <1>5, <1>10

\* A second query is asked where the plan of the first is kept.
LEMMA SecondAsked ==
  \A k \in {point_get_cache_baseline, partial_index_gt_threshold, partition_dynamic_between_boundary,
           partition_dynamic_list_multi_default_point} : 2 \in DOMAIN Worked(k).queries
<1>1. \A k : DOMAIN Worked(k).queries = DOMAIN k.queries  BY DEF Worked
<1>2. 2 \in DOMAIN point_get_cache_baseline.queries
  BY DEF point_get_cache_baseline, DriftCase, Case, For, Asked
<1>3. 2 \in DOMAIN partial_index_gt_threshold.queries
  BY DEF partial_index_gt_threshold, DriftCase, Case, For, Asked
<1>4. 2 \in DOMAIN partition_dynamic_between_boundary.queries
  BY DEF partition_dynamic_between_boundary, DriftCase, Case, For, Asked
<1>5. 2 \in DOMAIN partition_dynamic_list_multi_default_point.queries
  BY DEF partition_dynamic_list_multi_default_point, DriftCase, Case, For, Asked
<1> QED  BY <1>1, <1>2, <1>3, <1>4, <1>5

\* The tables of the plan cache are of four kinds.
LEMMA DriftKinds ==
  LET cs == Cases["plan_cache_drift"]
  IN  \A c \in 1..12 : cs[c].table.kind \in {"row", "index", "range", "list"}
<1> DEFINE cs == Cases["plan_cache_drift"]
           kinds == {"row", "index", "range", "list"}
<1>1. \A kind, parts, rows, queries : DriftCase(kind, parts, rows, queries).table.kind = kind
  BY DEF DriftCase, Case, Table
<1>2. point_get_cache_baseline.table.kind \in kinds  BY <1>1 DEF point_get_cache_baseline
<1>3. normal_index_range_cache_baseline.table.kind \in kinds  BY <1>1 DEF normal_index_range_cache_baseline
<1>4. limit_param_cache_key_guard.table.kind \in kinds  BY <1>1 DEF limit_param_cache_key_guard
<1>5. partial_index_is_not_null_nulleq.table.kind \in kinds  BY <1>1 DEF partial_index_is_not_null_nulleq
<1>6. partial_index_is_not_null_eq.table.kind \in kinds  BY <1>1 DEF partial_index_is_not_null_eq
<1>7. partial_index_gt_threshold.table.kind \in kinds  BY <1>1 DEF partial_index_gt_threshold
<1>8. partition_range_boundary.table.kind \in kinds  BY <1>1 DEF partition_range_boundary
<1>9. partition_dynamic_between_boundary.table.kind \in kinds  BY <1>1 DEF partition_dynamic_between_boundary
<1>10. partition_dynamic_list_default_range.table.kind \in kinds  BY <1>1 DEF partition_dynamic_list_default_range
<1>11. partition_dynamic_list_multi_default_point.table.kind \in kinds  BY <1>1 DEF partition_dynamic_list_multi_default_point
<1>12. predicate_simplification_null_in.table.kind \in kinds  BY <1>1 DEF predicate_simplification_null_in
<1>13. index_merge_or_point_range.table.kind \in kinds  BY <1>1 DEF index_merge_or_point_range
<1>20. cs = <<point_get_cache_baseline, normal_index_range_cache_baseline, limit_param_cache_key_guard,
          partial_index_is_not_null_nulleq, partial_index_is_not_null_eq, partial_index_gt_threshold,
          partition_range_boundary, partition_dynamic_between_boundary,
          partition_dynamic_list_default_range, partition_dynamic_list_multi_default_point,
          predicate_simplification_null_in, index_merge_or_point_range>>
  BY DEF Cases
<1> HIDE DEF cs
<1>21. \A c \in 1..12 : cs[c].table.kind \in kinds
  BY <1>20, <1>2, <1>3, <1>4, <1>5, <1>6, <1>7, <1>8, <1>9, <1>10, <1>11, <1>12, <1>13
<1> QED  BY <1>21 DEF cs

\* and of the plan cache.
LEMMA DriftShown ==
  ASSUME Placed, defect \in Defects(flag, only, Probes[flag]), Shows, defect.how = "drift"
  PROVE  \E c \in only : \E q \in DOMAIN Probes[flag][c].queries : Disagrees(defect, Probes[flag][c], q)
<1> DEFINE cs == Cases["plan_cache_drift"]
<1>1. flag = "plan_cache_drift"
  <2> SUFFICES ASSUME flag # "plan_cache_drift"  PROVE FALSE  OBVIOUS
  <2>1. defect # NoDefect  BY DEF NoDefect
  <2>2. PICK c \in only : defect \in ProofsBroken(Probes[flag][c], IsNumeric(flag, c))  BY <2>1 DEF Defects
  <2>3. defect.how \in {"edge", "whole"}  BY <2>2, BrokenHow
  <2> QED  BY <2>3
<1>2. only = DOMAIN Probes[flag] /\ DOMAIN Probes[flag] = 1..12 /\ \A c \in 1..12 : Probes[flag][c] = Worked(cs[c])
  <2>1. only = DOMAIN Probes[flag]  BY DEF Shows
  <2>2. Probes[flag] = [c \in DOMAIN cs |-> Worked(cs[c])]  BY <1>1 DEF Probes, Placed
  <2> QED  BY <2>1, <2>2, DriftCases
<1>3. defect # NoDefect  BY DEF NoDefect
<1>4. PICK c \in only : defect = [variant |-> "cached", shape |-> Probes[flag][c].table.kind, place |-> 0, how |-> "drift"]
  BY <1>1, <1>3 DEF Defects
<1>5. \A e \in 1..12 : Probes[flag][e].table.kind = cs[e].table.kind
  <2>1. \A k : Worked(k).table = k.table  BY DEF Worked
  <2> HIDE DEF cs
  <2> QED  BY <1>2, <2>1
<1>6. \A e \in 1..12 : cs[e].table.kind \in {"row", "index", "range", "list"}  BY DriftKinds
<1>7. defect.variant = "cached" /\ defect.shape \in {"row", "index", "range", "list"}  BY <1>2, <1>4, <1>5, <1>6
<1>8. /\ cs[1] = point_get_cache_baseline /\ cs[6] = partial_index_gt_threshold
      /\ cs[8] = partition_dynamic_between_boundary /\ cs[10] = partition_dynamic_list_multi_default_point
  BY DEF Cases
<1> HIDE DEF cs
<1>9. ASSUME NEW e \in 1..12, Disagrees(defect, Worked(cs[e]), 2), 2 \in DOMAIN Worked(cs[e]).queries
      PROVE  \E x \in only : \E q \in DOMAIN Probes[flag][x].queries : Disagrees(defect, Probes[flag][x], q)
  <2>1. Probes[flag][e] = Worked(cs[e]) /\ e \in only  BY <1>2
  <2> QED  BY <1>9, <2>1
<1>10. CASE defect.shape = "row"
  <2>1. Disagrees(defect, Worked(cs[1]), 2)  BY <1>7, <1>8, <1>10, RowDrifts
  <2> QED  BY <1>8, <1>9, <2>1, SecondAsked
<1>11. CASE defect.shape = "index"
  <2>1. Disagrees(defect, Worked(cs[6]), 2)  BY <1>7, <1>8, <1>11, IndexDrifts
  <2> QED  BY <1>8, <1>9, <2>1, SecondAsked
<1>12. CASE defect.shape = "range"
  <2>1. Disagrees(defect, Worked(cs[8]), 2)  BY <1>7, <1>8, <1>12, RangeDrifts
  <2> QED  BY <1>8, <1>9, <2>1, SecondAsked
<1>13. CASE defect.shape = "list"
  <2>1. Disagrees(defect, Worked(cs[10]), 2)  BY <1>7, <1>8, <1>13, ListDrifts
  <2> QED  BY <1>8, <1>9, <2>1, SecondAsked
<1> QED  BY <1>7, <1>10, <1>11, <1>12, <1>13
-----------------------------------------------------------------------------
(* What a run reports *)

\* The queries of a case are numbered.
LEMMA QueriesNumbered ==
  ASSUME Placed, NEW c \in only
  PROVE  /\ Len(Probes[flag][c].queries) \in Nat \ {0}
         /\ DOMAIN Probes[flag][c].queries = 1..Len(Probes[flag][c].queries)
<1> DEFINE k == Cases[flag][c]
           qs == Probes[flag][c].queries
           at(q) == [desc |-> k.queries[q].desc, limit |-> k.queries[q].limit, hits |-> Hits(k.table, k.queries[q].pred),
                     shape |-> Shape(k.queries[q].pred), barely |-> Barely(k.table, k.queries[q].pred)]
<1>1. Probes[flag][c] = Worked(k)  BY DEF Placed, Probes
<1>2. qs = [q \in DOMAIN k.queries |-> at(q)]  BY <1>1 DEF Worked
<1>3. PICK n \in Nat \ {0} : DOMAIN k.queries = 1..n  BY CasesAre DEF Placed, Regular, Numbered
<1> HIDE DEF qs, at
<1>4. qs = [q \in 1..n |-> qs[q]]  BY <1>2, <1>3
<1>5. List(qs)  BY <1>4, ListIs
<1>6. Len(qs) \in Nat /\ DOMAIN qs = 1..Len(qs)  BY <1>5, SequenceIs DEF List
<1>7. DOMAIN qs = 1..n  BY <1>4
<1>8. Len(qs) # 0  BY <1>6, <1>7
<1> QED  BY <1>6, <1>8 DEF qs

\* What the next case is: the least that is left, or none.
LEMMA ForwardIs ==
  ASSUME Placed, Forward
  PROVE  /\ only \subseteq Nat
         /\ \/ status' = "leave" /\ case' = case /\ query' = query /\ \A c \in only : c <= case
            \/ status' = "setup" /\ query' = 1 /\ case' \in only /\ \A c \in only : c < case' <=> c <= case
<1> DEFINE rest == {c \in only : c > case}
           next == CHOOSE c \in rest : \A x \in rest : c <= x
<1>1. only \subseteq Nat /\ case \in only  BY CasesAre DEF Placed
<1>2. CASE rest = {}
  <2>1. status' = "leave" /\ case' = case /\ query' = query  BY <1>2 DEF Forward
  <2>2. \A c \in only : c <= case  BY <1>1, <1>2
  <2> QED  BY <1>1, <2>1, <2>2
<1>3. CASE rest # {}
  <2>1. status' = "setup" /\ query' = 1 /\ case' = next  BY <1>3 DEF Forward
  <2>2. \E c \in rest : \A x \in rest : c <= x  BY <1>1, <1>3, Least
  <2>3. next \in rest /\ \A x \in rest : next <= x  BY <2>2
  <2>4. \A c \in only : c < next <=> c <= case
    <3> TAKE c \in only
    <3>1. next \in Nat /\ next > case /\ c \in Nat /\ case \in Nat  BY <1>1, <2>3
    <3>2. c > case => next <= c  BY <2>3
    <3> QED  BY <3>1, <3>2
  <2> QED  BY <1>1, <2>1, <2>3, <2>4
<1> QED  BY <1>2, <1>3

\* The queries of the run.
Queries == UNION {{c} \X DOMAIN Probes[flag][c].queries : c \in only}

\* A query the run has been at.
Past(c, q) ==
  \/ status \in {"leave", "done"}
  \/ c < case
  \/ c = case /\ (status = "asked" \/ (status = "ask" /\ q < query))

\* While nothing was lost, what is reported is what disagrees of the queries so far.
ScanInv ==
  /\ defect \in Defects(flag, only, Probes[flag])
  /\ query \in 1..Len(Current.queries)
  /\ status \in {"begin", "globals", "setup"} => query = 1
  /\ status \in {"begin", "globals", "setup", "ask", "asked", "leave", "raised", "done"}
  /\ exit \in {Running, 0, 1}
  /\ findings \subseteq Queries
  /\ \A u \in unasked : <<u[1], u[2]>> \in Queries
  /\ away = "never" =>
       /\ status # "raised"
       /\ \A c \in only : \A q \in DOMAIN Probes[flag][c].queries :
            <<c, q>> \in findings <=> Past(c, q) /\ Disagrees(defect, Probes[flag][c], q)

\* Before the first query, nothing is reported.
LEMMA InitScan == Init => ScanInv
<1> SUFFICES ASSUME Init  PROVE ScanInv  OBVIOUS
<1>1. Placed  BY InitProbe DEF QueryInv
<1>2. Len(Current.queries) \in Nat \ {0}  BY <1>1, QueriesNumbered DEF Current, Placed
<1>3. /\ defect \in Defects(flag, only, Probes[flag]) /\ query = 1 /\ status = "begin" /\ exit = Running
      /\ findings = {} /\ unasked = {}
  BY DEF Init
<1>4. \A c \in only : case <= c
  <2>1. only \subseteq Nat /\ only # {}  BY <1>1, CasesAre DEF Placed
  <2>2. \E c \in only : \A x \in only : c <= x  BY <2>1, Least
  <2> QED  BY <2>2 DEF Init
<1>5. \A c \in only : ~(c < case)
  <2>1. only \subseteq Nat /\ case \in only  BY <1>1, CasesAre DEF Placed
  <2> QED  BY <1>4, <2>1
<1>6. \A c \in only : \A q : ~Past(c, q)  BY <1>3, <1>5 DEF Past
<1> QED  BY <1>2, <1>3, <1>6 DEF ScanInv

\* A query that is asked of a server that is there is reported if it disagrees.
LEMMA AskScans ==
  ASSUME QueryInv, ScanInv, NEW lost \in SUBSET Variants(Current), Ask(Current, lost)
  PROVE  ScanInv'
<1> DEFINE k == Current
<1>1. Placed /\ k = Probes[flag][case]  BY CurrentIs DEF QueryInv
<1>2. Len(k.queries) \in Nat \ {0} /\ DOMAIN k.queries = 1..Len(k.queries)  BY <1>1, QueriesNumbered DEF Placed
<1>3. only \subseteq Nat /\ case \in only  BY <1>1, CasesAre DEF Placed
<1>4. status = "ask" /\ UNCHANGED <<flag, only, defect, db, exit>> /\ case' = case  BY DEF Ask, Raise, NextQuery
<1>5. query \in 1..Len(k.queries)  BY DEF ScanInv
<1>6. Here \in Queries /\ Queries' = Queries
  <2>1. query \in DOMAIN Probes[flag][case].queries  BY <1>1, <1>2, <1>5
  <2>2. <<case, query>> \in {case} \X DOMAIN Probes[flag][case].queries  BY <2>1
  <2> QED  BY <1>3, <1>4, <2>2 DEF Here, Queries
<1>7. findings' \subseteq Queries' /\ \A u \in unasked' : <<u[1], u[2]>> \in Queries'
  <2>1. findings' \subseteq findings \cup {Here}  BY DEF Ask, Raise
  <2>2. unasked' \subseteq unasked \cup {<<case, query, lost>>}  BY DEF Ask
  <2> QED  BY <1>6, <2>1, <2>2 DEF ScanInv, Here
<1>8. Current' = k  BY <1>1, <1>4 DEF Current
<1> HIDE DEF k
<1>9. /\ query' \in 1..Len(k.queries)
      /\ \/ status' = "raised" /\ lost # {}
         \/ status' = "ask" /\ query' = query + 1
         \/ status' = "asked" /\ query = Len(k.queries)
  BY <1>2, <1>5 DEF Ask, Raise, NextQuery, k
<1>10. ASSUME away' = "never"
       PROVE  /\ status' # "raised"
              /\ \A c \in only : \A q \in DOMAIN Probes[flag][c].queries :
                   <<c, q>> \in findings' <=> Past(c, q)' /\ Disagrees(defect, Probes[flag][c], q)
  <2>1. lost = {} /\ away = "never"  BY <1>10 DEF Ask
  <2>2. Differs(k, lost) <=> Disagrees(defect, k, query)
    <3>1. \A v : Outcome(k, v, lost) = [failed |-> FALSE, rows |-> Answer(defect, k, query, v)]
      BY <2>1 DEF Outcome
    <3>2. \A a, b : [failed |-> FALSE, rows |-> a] = [failed |-> FALSE, rows |-> b] <=> a = b
      <4>1. \A a : [failed |-> FALSE, rows |-> a].rows = a  OBVIOUS
      <4> QED  BY <4>1
    <3> QED  BY <3>1, <3>2 DEF Differs, Disagrees
  <2>3. findings' = IF Differs(k, lost) THEN findings \cup {Here} ELSE findings  BY <2>1 DEF Ask, k
  <2>4. status' # "raised"  BY <1>9, <2>1
  <2>5. ASSUME NEW c \in only, NEW q \in DOMAIN Probes[flag][c].queries
        PROVE  <<c, q>> \in findings' <=> Past(c, q)' /\ Disagrees(defect, Probes[flag][c], q)
    <3>1. <<c, q>> \in findings <=> Past(c, q) /\ Disagrees(defect, Probes[flag][c], q)  BY <2>1 DEF ScanInv
    <3>2. CASE c # case
      <4>1. Past(c, q)' <=> Past(c, q)  BY <1>4, <2>4, <1>9, <3>2 DEF Past
      <4>2. <<c, q>> # Here  BY <3>2 DEF Here
      <4> QED  BY <2>3, <3>1, <4>1, <4>2
    <3>3. CASE c = case /\ q = query
      <4>1. ~Past(c, q)  BY <1>3, <1>4, <1>5, <3>3 DEF Past
      <4>2. Past(c, q)'  BY <1>2, <1>4, <1>5, <1>9, <2>4, <3>3 DEF Past
      <4>3. <<c, q>> = Here  BY <3>3 DEF Here
      <4> QED  BY <1>1, <2>2, <2>3, <3>1, <3>3, <4>1, <4>2, <4>3
    <3>4. CASE c = case /\ q # query
      <4>1. q \in 1..Len(k.queries)  BY <1>1, <1>2, <3>4
      <4>2. Past(c, q)' <=> Past(c, q)  BY <1>2, <1>3, <1>4, <1>5, <1>9, <2>4, <3>4, <4>1 DEF Past
      <4>3. <<c, q>> # Here  BY <3>4 DEF Here
      <4> QED  BY <2>3, <3>1, <4>2, <4>3
    <3> QED  BY <3>2, <3>3, <3>4
  <2> QED  BY <2>4, <2>5
<1>11. status' \in {"raised", "ask", "asked"} /\ exit' \in {Running, 0, 1}  BY <1>4, <1>9 DEF ScanInv
<1> QED  BY <1>4, <1>7, <1>8, <1>9, <1>10, <1>11 DEF ScanInv

\* When the next case begins, or none is left, the run has been at the same queries:
\* those of the case it leaves are all behind it.
LEMMA ForwardScans ==
  ASSUME QueryInv, ScanInv, Forward, UNCHANGED <<flag, only, defect, findings, exit>>,
         \A u \in unasked' : u \in unasked \/ <<u[1], u[2]>> \in Queries,
         \/ status = "asked" /\ away' = away
         \/ away' # "never"
  PROVE  ScanInv'
<1>1. /\ only \subseteq Nat /\ Placed
      /\ \/ status' = "leave" /\ case' = case /\ query' = query /\ \A c \in only : c <= case
         \/ status' = "setup" /\ query' = 1 /\ case' \in only /\ \A c \in only : c < case' <=> c <= case
  BY ForwardIs, CasesAre DEF QueryInv, Placed
<1>2. query' \in 1..Len(Current'.queries)
  <2>1. CASE case' = case /\ query' = query
    <3>1. Current' = Current  BY <2>1 DEF Current
    <3> QED  BY <2>1, <3>1 DEF ScanInv
  <2>2. CASE query' = 1 /\ case' \in only
    <3>1. Len(Probes[flag][case'].queries) \in Nat \ {0}  BY <1>1, <2>2, QueriesNumbered
    <3>2. Current' = Probes[flag][case']  BY DEF Current
    <3> QED  BY <2>2, <3>1, <3>2
  <2> QED  BY <1>1, <2>1, <2>2
<1>3. Queries' = Queries /\ findings' \subseteq Queries' /\ \A u \in unasked' : <<u[1], u[2]>> \in Queries'
  <2>1. Queries' = Queries  BY DEF Queries
  <2> QED  BY <2>1 DEF ScanInv
<1>4. ASSUME away' = "never", NEW c \in only, NEW q \in DOMAIN Probes[flag][c].queries
      PROVE  <<c, q>> \in findings <=> Past(c, q)' /\ Disagrees(defect, Probes[flag][c], q)
  <2>1. status = "asked" /\ away = "never"  BY <1>4
  <2>2. Past(c, q) <=> c <= case  BY <1>1, <2>1 DEF Past, Placed
  <2>3. Past(c, q)' <=> c <= case
    <3>1. CASE status' = "leave" /\ \A e \in only : e <= case  BY <3>1 DEF Past
    <3>2. CASE status' = "setup" /\ \A e \in only : e < case' <=> e <= case  BY <3>2 DEF Past
    <3> QED  BY <1>1, <3>1, <3>2
  <2> QED  BY <2>1, <2>2, <2>3 DEF ScanInv
<1>5. status' \in {"leave", "setup"} /\ (status' = "setup" => query' = 1)  BY <1>1
<1> QED  BY <1>2, <1>3, <1>4, <1>5 DEF ScanInv

\* A step that stays where it is, or ends the run, changes nothing of what is behind.
LEMMA StayScans ==
  ASSUME QueryInv, ScanInv, UNCHANGED <<flag, only, defect, case, query, findings, unasked>>,
         status' \in {"globals", "setup", "ask", "raised", "done"}, exit' \in {Running, 0, 1},
         status' \in {"globals", "setup"} => status \in {"begin", "globals"},
         \/ away' # "never"
         \/ away' = away /\ <<status, status'>> \in {<<"begin", "setup">>, <<"begin", "globals">>,
                                                    <<"globals", "setup">>, <<"setup", "ask">>,
                                                    <<"leave", "done">>, <<"raised", "done">>}
  PROVE  ScanInv'
<1>1. Current' = Current /\ Queries' = Queries  BY DEF Current, Queries
<1>2. status' \in {"globals", "setup"} => query' = 1  BY DEF ScanInv
<1>3. ASSUME away' = "never", NEW c \in only, NEW q \in DOMAIN Probes[flag][c].queries
      PROVE  Past(c, q)' <=> Past(c, q)
  <2>1. away = "never" /\ status # "raised"  BY <1>3 DEF ScanInv
  <2>2. CASE status = "setup" /\ status' = "ask"
    <3>1. DOMAIN Probes[flag][c].queries = 1..Len(Probes[flag][c].queries)
          /\ Len(Probes[flag][c].queries) \in Nat
      BY QueriesNumbered DEF QueryInv
    <3>2. query = 1 /\ ~(q < query)  BY <2>2, <3>1 DEF ScanInv
    <3> QED  BY <2>2, <3>2 DEF Past
  <2>3. CASE status \in {"begin", "globals"} /\ status' \in {"globals", "setup"}  BY <2>3 DEF Past
  <2>4. CASE status = "leave" /\ status' = "done"  BY <2>4 DEF Past
  <2> QED  BY <1>3, <2>1, <2>2, <2>3, <2>4
<1>4. ASSUME away' = "never"  PROVE away = "never" /\ status' # "raised"  BY <1>4
<1> QED  BY <1>1, <1>2, <1>3, <1>4 DEF ScanInv

\* Every step keeps the report exact.
LEMMA StepScan == QueryInv /\ ScanInv /\ [Next]_vars => ScanInv'
<1> SUFFICES ASSUME QueryInv, ScanInv, [Next]_vars  PROVE ScanInv'  OBVIOUS
<1>1. CASE Create
  <2>1. /\ UNCHANGED <<flag, only, defect, case, query, findings, unasked, away, exit>>
        /\ status = "begin" /\ status' \in {"globals", "setup"}
    BY <1>1 DEF Create
  <2>2. exit \in {Running, 0, 1}  BY DEF ScanInv
  <2> QED  BY <2>1, <2>2, StayScans
<1>2. CASE CreateLost \/ SetGlobalsLost
  <2>1. /\ UNCHANGED <<flag, only, defect, case, query, findings, unasked>>
        /\ status' = "done" /\ exit' = 1 /\ away' \in {"create", "globals"}
    BY <1>2 DEF CreateLost, SetGlobalsLost
  <2> QED  BY <2>1, StayScans
<1>2a. CASE SetGlobals
  <2>1. /\ UNCHANGED <<flag, only, defect, case, query, findings, unasked, away, exit>>
        /\ status = "globals" /\ status' = "setup"
    BY <1>2a DEF SetGlobals
  <2>2. exit \in {Running, 0, 1}  BY DEF ScanInv
  <2> QED  BY <2>1, <2>2, StayScans
<1>3. CASE Setup
  <2>1. /\ UNCHANGED <<flag, only, defect, case, query, findings, unasked, away, exit>>
        /\ status = "setup" /\ status' = "ask"
    BY <1>3 DEF Setup
  <2>2. exit \in {Running, 0, 1}  BY DEF ScanInv
  <2> QED  BY <2>1, <2>2, StayScans
<1>4. CASE SetupLost
  <2>1. /\ UNCHANGED <<flag, only, defect, case, query, findings, unasked, exit>>
        /\ status' = "raised" /\ away' = "setup"
    BY <1>4 DEF SetupLost, Raise
  <2>2. exit \in {Running, 0, 1}  BY DEF ScanInv
  <2> QED  BY <2>1, <2>2, StayScans
<1>5. CASE IndexLost(Current)
  <2>1. /\ UNCHANGED <<flag, only, defect, findings, exit>> /\ Forward /\ away' = "index"
        /\ unasked' = unasked \cup {<<case, q, {"index"}>> : q \in DOMAIN Current.queries}
    BY <1>5 DEF IndexLost
  <2>2. ASSUME NEW u \in unasked', u \notin unasked  PROVE <<u[1], u[2]>> \in Queries
    <3>1. PICK q \in DOMAIN Current.queries : u = <<case, q, {"index"}>>  BY <2>1, <2>2
    <3>2. <<u[1], u[2]>> = <<case, q>>  BY <3>1
    <3>3. case \in only /\ Current = Probes[flag][case]  BY CurrentIs DEF QueryInv, Placed
    <3> QED  BY <3>2, <3>3 DEF Queries
  <2> QED  BY <2>1, <2>2, ForwardScans
<1>6. ASSUME NEW lost \in SUBSET Variants(Current), Ask(Current, lost)  PROVE ScanInv'
  BY <1>6, AskScans
<1>7. CASE DropTables
  <2>1. UNCHANGED <<flag, only, defect, findings, unasked, away, exit>> /\ Forward /\ status = "asked"
    BY <1>7 DEF DropTables
  <2> QED  BY <2>1, ForwardScans
<1>8. CASE DropTablesLost
  <2>1. /\ UNCHANGED <<flag, only, defect, case, query, findings, unasked, exit>>
        /\ status' = "raised" /\ away' = "tables"
    BY <1>8 DEF DropTablesLost, Raise
  <2>2. exit \in {Running, 0, 1}  BY DEF ScanInv
  <2> QED  BY <2>1, <2>2, StayScans
<1>9. CASE DropDatabase
  <2>1. /\ UNCHANGED <<flag, only, defect, case, query, findings, unasked, away>>
        /\ status \in {"leave", "raised"} /\ status' = "done" /\ exit' \in {0, 1}
    BY <1>9 DEF DropDatabase
  <2> QED  BY <2>1, StayScans
<1>10. CASE DropDatabaseLost
  <2>1. /\ UNCHANGED <<flag, only, defect, case, query, findings, unasked>>
        /\ status' = "done" /\ exit' = 1 /\ away' = "drop"
    BY <1>10 DEF DropDatabaseLost
  <2> QED  BY <2>1, StayScans
<1>11. CASE UNCHANGED vars
  BY <1>11 DEF vars, ScanInv, Current, Queries, Past
<1> QED  BY <1>1, <1>2, <1>2a, <1>3, <1>4, <1>5, <1>6, <1>7, <1>8, <1>9, <1>10, <1>11 DEF Next

\* A run knows which queries it reported, and at which it has been.
THEOREM ScanInvHolds == Spec => []ScanInv
<1>1. Init => QueryInv /\ ScanInv  BY InitProbe, InitScan
<1>2. QueryInv /\ ScanInv /\ [Next]_vars => QueryInv' /\ ScanInv'  BY StepProbe, StepScan
<1> QED  BY <1>1, <1>2, PTL DEF Spec

\* Where the run is, is a query of a case that was selected, and what it has recorded
\* are such queries.
THEOREM TypeOKHolds == Spec => []TypeOK
<1>1. ASSUME QueryInv, ScanInv  PROVE TypeOK
  <2>1. flag \in Flags /\ only \subseteq DOMAIN Probes[flag] /\ case \in only
    BY <1>1 DEF QueryInv, Placed, Flags, Probes
  <2>2. \A x \in Queries : x[1] \in only /\ x[2] \in DOMAIN Probes[flag][x[1]].queries
    <3> SUFFICES ASSUME NEW x \in Queries  PROVE x[1] \in only /\ x[2] \in DOMAIN Probes[flag][x[1]].queries
      OBVIOUS
    <3>1. PICK c \in only : x \in {c} \X DOMAIN Probes[flag][c].queries  BY DEF Queries
    <3> QED  BY <3>1
  <2>3. \A x \in findings \cup {<<u[1], u[2]>> : u \in unasked} : x \in Queries  BY <1>1 DEF ScanInv
  <2> QED  BY <1>1, <2>1, <2>2, <2>3 DEF ScanInv, TypeOK
<1>2. QueryInv /\ ScanInv => TypeOK  BY <1>1
<1> QED  BY <1>2, QueryInvHolds, ScanInvHolds, PTL

\* A run that reaches its end with the server there all along reports exactly the
\* queries for which some variant answers other rows than the base.
ReportIsExact ==
  status = "done" /\ away = "never" => findings = {x \in Queries : Disagrees(defect, Probes[flag][x[1]], x[2])}

\* Nothing that disagrees is missed, and nothing else is reported.
THEOREM ReportIsExactHolds == Spec => []ReportIsExact
<1>1. ASSUME ScanInv, status = "done", away = "never"
      PROVE  findings = {x \in Queries : Disagrees(defect, Probes[flag][x[1]], x[2])}
  <2>1. ASSUME NEW x \in Queries  PROVE x \in findings <=> Disagrees(defect, Probes[flag][x[1]], x[2])
    <3>1. PICK c \in only : x \in {c} \X DOMAIN Probes[flag][c].queries  BY DEF Queries
    <3>2. PICK q \in DOMAIN Probes[flag][c].queries : x = <<c, q>>  BY <3>1
    <3>3. Past(c, q)  BY <1>1 DEF Past
    <3>4. <<c, q>> \in findings <=> Disagrees(defect, Probes[flag][c], q)  BY <1>1, <3>3 DEF ScanInv
    <3> QED  BY <3>2, <3>4
  <2>2. findings \subseteq Queries  BY <1>1 DEF ScanInv
  <2> QED  BY <2>1, <2>2
<1>2. ScanInv => ReportIsExact  BY <1>1 DEF ReportIsExact
<1> QED  BY <1>2, ScanInvHolds, PTL

\* The predicates made from the boundaries are enough: a proof that goes wrong for one
\* comparison is reported by a run that reaches its end with the server there.
THEOREM DefectIsFoundHolds == Spec => []DefectIsFound
<1>1. ASSUME QueryInv, ScanInv, status = "done", away = "never", Shows  PROVE findings # {}
  <2>1. Placed /\ defect \in Defects(flag, only, Probes[flag])  BY <1>1 DEF QueryInv, ScanInv
  <2>2. \E c \in only : \E q \in DOMAIN Probes[flag][c].queries : Disagrees(defect, Probes[flag][c], q)
    BY <1>1, <2>1, PruneShown, DriftShown
  <2>3. PICK c \in only : \E q \in DOMAIN Probes[flag][c].queries : Disagrees(defect, Probes[flag][c], q)
    BY <2>2
  <2>4. PICK q \in DOMAIN Probes[flag][c].queries : Disagrees(defect, Probes[flag][c], q)  BY <2>3
  <2>5. Past(c, q)  BY <1>1 DEF Past
  <2>6. <<c, q>> \in findings  BY <1>1, <2>4, <2>5 DEF ScanInv
  <2> QED  BY <2>6
<1>2. QueryInv /\ ScanInv => DefectIsFound  BY <1>1 DEF DefectIsFound
<1> QED  BY <1>2, QueryInvHolds, ScanInvHolds, PTL
=============================================================================
