----------------------------- MODULE QueryProbe -----------------------------
(***************************************************************************)
(* One run of a query probe: it makes a database of its own, and per case  *)
(* a table, asks every query in all its variants, reports the queries      *)
(* whose variants disagree, and drops the database.  The product may have  *)
(* one defect.  The server may be away for the calls of one step: mysql    *)
(* then returns an error, and no rows.                                     *)
(***************************************************************************)
EXTENDS QueryTables

CONSTANTS LossAt,    \* the queries at which the server may be away
          OnlyCases, \* what --case selects, in the probes that have it
          Faulty     \* the variants that may be answered by a broken proof

HasCaseFlag == {"partition_prune", "global_index_prune", "plan_cache_drift"}

ASSUME OnlyAssumption ==
  \A f \in HasCaseFlag : \A cs \in OnlyCases[f] : cs # {} /\ cs \subseteq DOMAIN Cases[f]
-----------------------------------------------------------------------------
(* What an answer is, computed once per query *)

ValuesOf(t) == {t.rows[i] : i \in DOMAIN t.rows} \cup {t.domain[i] : i \in DOMAIN t.domain}

\* The first of the rows in the order of b, or the last.
Take(rows, query) ==
  IF query.limit = 0 THEN rows
  ELSE {r \in rows : Cardinality({s \in rows : IF query.desc THEN s >= r ELSE s <= r}) <= query.limit}

\* The set itself: TLC would filter it again at every use.
Known(s) == s \cup {}

\* Where the rows are.
Homes(t) == [i \in DOMAIN t.rows |-> IF t.kind = "row" THEN i ELSE Home(t, t.rows[i])]

\* The rows a query selects, the operator its predicate is made of, and the places
\* that one single value of the column reaches.
Hits(t, pred) == Known({i \in DOMAIN t.rows : Holds(pred, t.rows[i])})
Barely(t, pred) ==
  IF t.kind = "row" THEN {}
  ELSE Known({p \in 1..7 : Cardinality({v \in ValuesOf(t) : Home(t, v) = p /\ Holds(pred, v)}) = 1})

Worked(k) ==
  [table |-> k.table, base |-> k.base, others |-> k.others, raises |-> k.raises, blind |-> k.blind,
   homes |-> Homes(k.table),
   queries |-> [q \in DOMAIN k.queries |->
     [desc |-> k.queries[q].desc, limit |-> k.queries[q].limit, hits |-> Hits(k.table, k.queries[q].pred),
      shape |-> Shape(k.queries[q].pred), barely |-> Barely(k.table, k.queries[q].pred)]]]

\* The cases each part of a probe runs, and in which order.
Probes == [f \in DOMAIN Cases |-> [c \in DOMAIN Cases[f] |-> Worked(Cases[f][c])]]
Flags == DOMAIN Probes
-----------------------------------------------------------------------------
(* The product *)

\* The tables in one integer column.
Numeric == [partition_prune |-> {1, 7}, global_index_prune |-> {1, 3}]
IsNumeric(f, c) == f \in DOMAIN Numeric /\ c \in Numeric[f]

Operators == {Comparisons[i] : i \in DOMAIN Comparisons}
Values(t) == ValuesOf(t) \ {<<NULL>>}
BesideBoundary(t, v) == \E w \in {<<v[1] - 1>>, <<v[1] + 1>>} \cap Values(t) : Home(t, w) # Home(t, v)

\* The values of a place that a comparison selects, for each constant.
Reach(t) ==
  [op \in Operators |-> [p \in 1..4 |->
    {Known({v \in Values(t) : Home(t, v) = p /\ Holds(Is(1, op, w[1]), v)}) : w \in Values(t)}]]
Reaches == [f \in DOMAIN Numeric |-> [c \in Numeric[f] |-> Reach(Cases[f][c].table)]]

NoDefect == [variant |-> "none", shape |-> "none", place |-> 0, how |-> "none"]

\* A place is taken to hold no row although the predicate reaches it: always, or
\* where one value is all it reaches.  Or a cached plan keeps the first parameters.
ProofsBroken(k, numeric) ==
  LET places(x) == {k.homes[r] : r \in x.hits}
      of(x, how) == [variant : Faulty, shape : {x.shape}, how : {how},
                     place : IF how = "edge" THEN places(x) \cap x.barely ELSE places(x)]
      any == [variant : Faulty, shape : Operators, how : {"edge", "whole"}, place : 1..4]
  IN  (UNION {of(k.queries[q], "edge") \cup of(k.queries[q], "whole") : q \in DOMAIN k.queries})
      \cup (IF numeric THEN any ELSE {})

Breakable(d, k) == d.variant \in k.others /\ (k.table.kind = "index" => d.place = 2)

\* A defect is of the kind some case of the run can meet.
Defects(f, cases, probe) ==
  {NoDefect} \cup
    IF f = "plan_cache_drift"
    THEN {[variant |-> "cached", shape |-> probe[c].table.kind, place |-> 0, how |-> "drift"] : c \in cases}
    ELSE {d \in UNION {ProofsBroken(probe[c], IsNumeric(f, c)) : c \in cases} : \E c \in cases : Breakable(d, probe[c])}

Touches(d, k, x, v) ==
  /\ d.variant = v
  /\ IF d.how = "drift" THEN k.table.kind = d.shape
     ELSE x.shape = d.shape /\ (d.how = "edge" => d.place \in x.barely)

\* What the server answers.
Answer(d, k, q, v) ==
  LET x == k.queries[q]
      first == k.queries[1]
      known == {k.homes[r] : r \in first.hits}
  IN  IF ~Touches(d, k, x, v) THEN Take(x.hits, x)
      ELSE IF d.how = "drift" THEN Take({r \in x.hits : k.homes[r] \in known}, [x EXCEPT !.limit = first.limit])
      ELSE Take({r \in x.hits : k.homes[r] # d.place}, x)
-----------------------------------------------------------------------------
VARIABLES flag,     \* the part of a probe that is run
          only,     \* the cases that are run
          defect,   \* what is wrong with the product
          case, query, \* where the run is
          findings, \* queries that are reported
          unasked,  \* queries not answered in all variants, and in which
          away,     \* when the server was away
          db,       \* the database of the run is there
          status,
          exit

vars == <<flag, only, defect, case, query, findings, unasked, away, db, status, exit>>

Running == -1
Current == Probes[flag][case]
Variants(k) == k.others \cup {k.base}
Selections(f) == IF f \in HasCaseFlag THEN OnlyCases[f] ELSE {DOMAIN Probes[f]}

Init ==
  /\ flag \in Flags
  /\ only \in Selections(flag)
  /\ defect \in Defects(flag, only, Probes[flag])
  /\ case = CHOOSE c \in only : \A x \in only : c <= x
  /\ query = 1
  /\ findings = {} /\ unasked = {}
  /\ away = "never" /\ db = FALSE
  /\ status = "begin" /\ exit = Running

Here == <<case, query>>

\* A raise ends the run: main drops the database on its way out.
RaiseUncaught == status' = "done" /\ UNCHANGED <<case, query, findings>>
Raise == status' = "raised" /\ UNCHANGED <<case, query, findings>>

\* The partial index probe sets two variables of the server before its try.
SetsGlobals == flag \notin HasCaseFlag

Create ==
  /\ status = "begin"
  /\ db' = TRUE /\ status' = IF SetsGlobals THEN "globals" ELSE "setup"
  /\ UNCHANGED <<flag, only, defect, case, query, findings, unasked, away, exit>>

\* DROP and CREATE DATABASE are outside the try, and CREATE may take effect although
\* the probe never hears of it.
CreateLost ==
  /\ status = "begin" /\ away = "never"
  /\ away' = "create" /\ status' = "done" /\ exit' = 1
  /\ db' \in BOOLEAN
  /\ UNCHANGED <<flag, only, defect, case, query, findings, unasked>>

SetGlobals ==
  /\ status = "globals"
  /\ status' = "setup"
  /\ UNCHANGED <<flag, only, defect, case, query, findings, unasked, away, db, exit>>

\* So are the two SET GLOBAL.
SetGlobalsLost ==
  /\ status = "globals" /\ away = "never"
  /\ away' = "globals" /\ status' = "done" /\ exit' = 1
  /\ UNCHANGED <<flag, only, defect, case, query, findings, unasked, db>>

Setup ==
  /\ status = "setup"
  /\ status' = "ask"
  /\ UNCHANGED <<flag, only, defect, case, query, findings, unasked, away, db, exit>>

\* The next case, or the end.
Forward ==
  LET rest == {c \in only : c > case}
  IN  IF rest = {} THEN status' = "leave" /\ UNCHANGED <<case, query>>
      ELSE status' = "setup" /\ query' = 1 /\ case' = CHOOSE c \in rest : \A x \in rest : c <= x

SetupLost ==
  /\ status = "setup" /\ away = "never"
  /\ away' = "setup"
  /\ Raise
  /\ UNCHANGED <<flag, only, defect, unasked, db, exit>>

\* Where conditions are generated, a condition that gets no index is passed over.
Skippable(k) == "no_hint" \in k.others

IndexLost(k) ==
  /\ status = "setup" /\ away = "never"
  /\ Skippable(k)
  /\ away' = "index"
  /\ unasked' = unasked \cup {<<case, q, {"index"}>> : q \in DOMAIN k.queries}
  /\ Forward
  /\ UNCHANGED <<flag, only, defect, findings, db, exit>>

\* Rows, and whether the call is seen to fail.
OutcomeRows(k, v, lost) ==
  [failed |-> FALSE, rows |-> IF v \in lost THEN {} ELSE Answer(defect, k, query, v)]

Outcome(k, v, lost) ==
  [failed |-> v \in lost /\ v \notin k.blind,
   rows |-> IF v \in lost THEN {} ELSE Answer(defect, k, query, v)]

Differs(k, lost) == \E v \in k.others : Outcome(k, v, lost) # Outcome(k, k.base, lost)

NextQuery(k) ==
  IF query < Len(k.queries) THEN query' = query + 1 /\ UNCHANGED <<case, status>>
         ELSE status' = "asked" /\ UNCHANGED <<case, query>>

Ask(k, lost) ==
  /\ status = "ask"
  /\ lost # {} => away = "never" /\ query \in LossAt
  /\ away' = IF lost # {} THEN "query" ELSE away
  /\ unasked' = IF lost # {} THEN unasked \cup {<<case, query, lost>>} ELSE unasked
  /\ IF lost \cap k.raises # {} THEN Raise
     ELSE /\ findings' = IF Differs(k, lost) THEN findings \cup {Here} ELSE findings
          /\ NextQuery(k)
  /\ UNCHANGED <<flag, only, defect, db, exit>>

DropTables ==
  /\ status = "asked"
  /\ Forward
  /\ UNCHANGED <<flag, only, defect, findings, unasked, away, db, exit>>

DropTablesLost ==
  /\ status = "asked" /\ away = "never"
  /\ away' = "tables"
  /\ Raise
  /\ UNCHANGED <<flag, only, defect, unasked, db, exit>>

\* On every way out.
DropDatabase ==
  /\ status \in {"leave", "raised"}
  /\ db' = FALSE
  /\ status' = "done"
  /\ exit' = IF status = "raised" \/ findings # {} THEN 1 ELSE 0
  /\ UNCHANGED <<flag, only, defect, case, query, findings, unasked, away>>

DropDatabaseLost ==
  /\ status \in {"leave", "raised"} /\ away = "never"
  /\ away' = "drop"
  /\ db' \in BOOLEAN
  /\ status' = "done" /\ exit' = 1
  /\ UNCHANGED <<flag, only, defect, case, query, findings, unasked>>

Next ==
  \/ Create \/ CreateLost \/ SetGlobals \/ SetGlobalsLost
  \/ Setup \/ SetupLost \/ IndexLost(Current)
  \/ \E lost \in SUBSET Variants(Current) : Ask(Current, lost)
  \/ DropTables \/ DropTablesLost \/ DropDatabase \/ DropDatabaseLost
  \/ status = "done" /\ UNCHANGED vars

Spec == Init /\ [][Next]_vars
-----------------------------------------------------------------------------
\* Where the run is, is a query of a case that was selected, and what it has
\* recorded are such queries.
TypeOK ==
  /\ flag \in Flags /\ only \subseteq DOMAIN Probes[flag] /\ case \in only
  /\ query \in 1..Len(Current.queries)
  /\ \A x \in findings \cup {<<u[1], u[2]>> : u \in unasked} : x[1] \in only /\ x[2] \in DOMAIN Probes[flag][x[1]].queries
  /\ status \in {"begin", "globals", "setup", "ask", "asked", "leave", "raised", "done"}
  /\ exit \in {Running, 0, 1}

\* The cases that are run have a table where the defect shows for some constant,
\* or they are all cases that reuse a plan.
ShowsIn(t, reach) ==
  /\ defect.shape \in Operators /\ defect.place \in 1..4
  /\ \E vs \in reach[defect.shape][defect.place] :
       /\ \E r \in DOMAIN t.rows : t.rows[r] \in vs
       /\ defect.how = "edge" => \E v \in vs : vs = {v} /\ BesideBoundary(t, v)

Shows ==
  IF defect.how = "drift" THEN only = DOMAIN Probes[flag]
  ELSE /\ flag \in DOMAIN Numeric /\ defect # NoDefect
       /\ defect.shape = "gt" => defect.how = "whole" /\ defect.place # 1
       /\ \E c \in only \cap Numeric[flag] : ShowsIn(Probes[flag][c].table, Reaches[flag][c])

\* The predicates made from the boundaries are enough: a proof that goes wrong for
\* one comparison, even where it loses one single value beside a boundary, is
\* reported by a run that reaches its end with the server there all along.  But for
\* gt: no constant below the last value of a partition is asked.
DefectIsFound == status = "done" /\ away = "never" /\ Shows => findings # {}

\* A run that exits with 0 compared every query in every variant but those that
\* had no index, those where every call failed alike, and the one comparison
\* whose second call is not looked at.
GreenIsEarned ==
  exit = 0 => \A u \in unasked :
    u[3] \in {{"index"}, Variants(Probes[flag][u[1]]), Probes[flag][u[1]].blind}

\* Past the try, an error raised anywhere does not leave the database behind: it is
\* there after the run only where one of the statements failed that nothing guards,
\* CREATE DATABASE, the SET GLOBAL of the partial index probe, or the drop itself;
\* and then the probe exits with 1.
DatabaseGone ==
  status = "done" /\ db => away \in {"create", "globals", "drop"} /\ exit = 1
=============================================================================
