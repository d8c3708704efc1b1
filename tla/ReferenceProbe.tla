--------------------------- MODULE ReferenceProbe ---------------------------
(***************************************************************************)
(* A run of one of the four probes of ReferenceCases: per case it cleans   *)
(* up, sets up, runs the DDL, looks at what became of the references,      *)
(* cleans up, and goes on.  Placement policies and failpoints belong to    *)
(* the cluster: they outlive the database of a run, and the run itself.    *)
(* The product may have one defect, one call may be lost (not executed,    *)
(* or executed and not answered), and the process may be killed once and   *)
(* started again.                                                          *)
(***************************************************************************)
EXTENDS ReferenceCases

CONSTANTS Probes, \* the probes that are run
          Near    \* how many cases from the defect a call may be lost

ASSUME ProbesAssumption == Probes \subseteq DOMAIN Cases

VARIABLES probe,
          defect,   \* what is wrong with the product, in which case
          case, at, \* where the run is
          check,    \* the next thing to look at
          world,    \* the facts that hold in the cluster
          armed,    \* the failpoints that are enabled
          reply,    \* how the DDL ended
          verdicts, \* of the cases that are through
          loss,     \* where a call was lost
          killed,
          exit

vars == <<probe, defect, case, at, check, world, armed, reply, verdicts, loss, killed, exit>>

Running == -1
Current == Cases[probe][case]
Last == Len(Cases[probe])
-----------------------------------------------------------------------------
(* The product *)

NoDefect == [case |-> 0, how |-> "none", fact |-> <<>>]
Database(facts) == {f \in facts : f[1] \notin {"cluster", "old"}}

\* Relations that have one target.
Single == {"followers", "reads", "table", "schema", "column", "table_id"}

DefectsOf(p, c) ==
  LET k == Cases[p][c]
      keeps == k.gone \cup k.extra
      loses == {f \in Database(After(k)) : f[1] # "db" /\ ~(f \in k.come /\ f[2] \in Single)}
      refusals == IF k.expected = "block" THEN {"accept", "family"} ELSE {"refuse"}
  IN  {[case |-> c, how |-> h, fact |-> <<>>] : h \in refusals}
      \cup {[case |-> c, how |-> "keep", fact |-> f] : f \in keeps}
      \cup {[case |-> c, how |-> "lose", fact |-> f] : f \in IF k.expected = "block" /\ k.checks = <<>> THEN {} ELSE loses}

Defects(p) == {NoDefect} \cup UNION {DefectsOf(p, c) : c \in DOMAIN Cases[p]}
Defective(how) == defect.case = case /\ defect.how = how

\* The old target of such a relation is kept in place of the new.
Slot(f) == IF f[2] \in Single THEN {g \in world \cup Current.come : g[1] = f[1] /\ g[2] = f[2]} ELSE {}

\* The facts after the DDL, done as intended or with the defect.
Done ==
  LET meant == (world \ Current.gone) \cup Current.come
  IN  IF Defective("keep") THEN (meant \ Slot(defect.fact)) \cup {defect.fact}
      ELSE IF Defective("lose") THEN meant \ {defect.fact}
      ELSE meant

\* A failpoint of an earlier case makes a DDL of its kind fail as well.
Contaminated ==
  Current.failpoint # "none" /\
  \E f \in armed \ {Current.failpoint} :
    Failpoint[f][1] = Failpoint[Current.failpoint][1] /\ Failpoint[f][2] = "always"

\* What the server answers to the DDL, and what it has done.
Answered ==
  IF Current.expected = "block"
  THEN [reply |-> IF Defective("accept") THEN "ok" ELSE IF Defective("family") THEN "other" ELSE "refused", world |-> Done]
  ELSE IF Defective("refuse") THEN [reply |-> "other", world |-> world]
  ELSE IF Current.expected = "rollback" THEN [reply |-> "refused", world |-> Done]
  ELSE IF Contaminated THEN [reply |-> "refused", world |-> world]
  ELSE [reply |-> "ok", world |-> Done]

Referenced(p, w) == \E f \in w : f[2] = "uses" /\ f[3] = p
-----------------------------------------------------------------------------
(* What the probe looks at *)

RowsOf(x) == {f[3] : f \in {g \in world : g[1] = x /\ g[2] = "row"}}
Indexes == {"idx_a", "idx_b"}
Sees(c) == c.needs \subseteq world /\ c.forbids \cap world = {}

\* A drop that fails has found the policy in use, or not found it.
DropFails(p) == Referenced(p, world) \/ Has("cluster", p) \notin world

Passes(c) ==
  \/ c.how \in {"show", "read"} /\ Sees(c)
  \/ c.how = "drops" /\ ~DropFails(c.policy)
  \/ c.how = "in_use" /\ DropFails(c.policy)
  \/ c.how = "admin" /\ \A x \in Indexes : Has("t", x) \in world => RowsOf(x) = RowsOf("t")
  \/ /\ c.how = "rows"
     /\ Has("t", c.index) \in world /\ RowsOf(c.index) = RowsOf("t")
     /\ c.exact # {} => RowsOf("t") = c.exact

\* Any failure is taken for a policy in use.
PassesLostAny(c) == c.how \in {"show", "in_use"}

\* show_create returns the text of the error, which contains nothing it looks for.
PassesLost(c) == c.how = "show" /\ c.needs = {}

\* A policy that could be dropped is gone.
Looked(c) ==
  IF c.how \in {"drops", "in_use"} /\ ~DropFails(c.policy) THEN world \ {Has("cluster", c.policy)} ELSE world
-----------------------------------------------------------------------------
(* The run *)

MayLose == loss = <<>> /\ (defect = NoDefect \/ (case - defect.case) \in (0 - Near)..Near)
Lose == MayLose /\ loss' = <<case, at>>

Init ==
  /\ probe \in Probes
  /\ defect \in Defects(probe)
  /\ case = 1 /\ at = "begin" /\ check = 1
  /\ world = {} /\ armed = {} /\ reply = "none"
  /\ verdicts = <<>> /\ loss = <<>> /\ killed = FALSE /\ exit = Running

\* A mysql that cannot be reached, no failpoint API or no masking policies is an
\* exit of its own; the first statements are outside the try.
LostAtBegin == [object_reference |-> {1, 2}, reference_matrix |-> {1, 2}, stateful_object |-> {0, 1, 2}, masking_policy |-> {0, 1}]

Begin ==
  /\ at = "begin"
  /\ \/ at' = "prepare" /\ UNCHANGED <<loss, exit>>
     \/ Lose /\ at' = "done" /\ exit' \in LostAtBegin[probe]
  /\ UNCHANGED <<probe, defect, case, check, world, armed, reply, verdicts, killed>>

\* Every table, then every policy that no table of any database uses.
CleanedTables(w) == w \ Database(w)
Cleaned(w) ==
  LET left == w \ Database(w) IN {f \in left : f[1] = "cluster" => Referenced(f[3], left)}

\* The table stays, and with it the policies it uses; or one policy stays.
CleanedLost(w) ==
  {{f \in w : f[1] = "cluster" => Referenced(f[3], w)}}
  \cup {Cleaned(w) \cup {f} : f \in {g \in w : g[1] = "cluster"}}

Verdict(v) ==
  /\ verdicts' = Append(verdicts, v)
  /\ IF case = Last THEN at' = "finish" /\ case' = case ELSE at' = "prepare" /\ case' = case + 1

\* An exception: the next case, where main catches it, or the end of the run.
Raise ==
  IF probe = "masking_policy" THEN at' = "tidy" /\ reply' = "FINDING" /\ UNCHANGED <<case, verdicts>>
  ELSE at' = "raised" /\ reply' = "none" /\ UNCHANGED <<case, verdicts>>

Unsupported == IF Current.skip THEN Verdict("SKIP") /\ reply' = "none" ELSE Raise

\* The facts after the first n statements of the setup.
Made(w, n) == w \cup UNION {Current.setup[i] : i \in 1..n}
\* The statements that would make again what is there.
Clashes(w) == {i \in DOMAIN Current.setup : Current.setup[i] \cap w # {}}
Stops(w) == IF Clashes(w) = {} THEN Len(Current.setup) + 1 ELSE CHOOSE i \in Clashes(w) : \A j \in Clashes(w) : i <= j
\* Only one of the probes cleans up after a setup that failed.
Abandoned(w) == IF probe = "object_reference" THEN Cleaned(w) ELSE w

SetUp(w) ==
  IF Clashes(w) = {}
  THEN /\ world' = Made(w, Len(Current.setup))
       /\ at' = IF Current.failpoint = "none" THEN "alter" ELSE "arm"
       /\ UNCHANGED <<case, verdicts, reply>>
  ELSE world' = Abandoned(Made(w, Stops(w) - 1)) /\ Unsupported

\* The statement before which the server is lost is executed, or not.
SetUpLost(w) ==
  \E n \in 1..Len(Current.setup), executed \in {0, 1} :
    /\ n < Stops(w)
    /\ world' = Abandoned(Made(w, n - 1 + executed))
    /\ Unsupported

Tolerant == probe \in {"object_reference", "stateful_object"}

PrepareLost ==
  /\ at = "prepare" /\ Lose
  /\ \/ Tolerant /\ \E w \in CleanedLost(world) : SetUp(w)
     \/ ~Tolerant /\ Raise /\ UNCHANGED world
     \/ SetUpLost(Cleaned(world))
  /\ UNCHANGED <<probe, defect, check, armed, killed, exit>>

Prepare ==
  /\ at = "prepare"
  /\ SetUp(Cleaned(world))
  /\ UNCHANGED <<probe, defect, check, armed, loss, killed, exit>>

Arm ==
  /\ at = "arm"
  /\ \/ armed' = armed \cup {Current.failpoint} /\ at' = "alter" /\ UNCHANGED <<case, verdicts, reply, loss>>
     \/ Lose /\ armed' \in {armed, armed \cup {Current.failpoint}} /\ Raise
  /\ UNCHANGED <<probe, defect, check, world, killed, exit>>

AfterAlterArmed == "judge"
AfterAlter == IF Current.failpoint = "none" THEN "judge" ELSE "disarm"
Consumed == IF Current.failpoint = "none" THEN armed
            ELSE {f \in armed : f # Current.failpoint \/ Failpoint[f][2] = "always"}

Alter ==
  /\ at = "alter"
  /\ \/ world' = Answered.world /\ armed' = Consumed /\ reply' = Answered.reply /\ UNCHANGED loss
     \/ Lose /\ reply' = "other" /\ \/ world' = Answered.world /\ armed' = Consumed
                                    \/ UNCHANGED <<world, armed>>
  /\ at' = AfterAlter
  /\ UNCHANGED <<probe, defect, case, check, verdicts, killed, exit>>

Disarm ==
  /\ at = "disarm"
  /\ \/ armed' = armed \ {Current.failpoint} /\ UNCHANGED loss
     \/ Lose /\ UNCHANGED armed
  /\ at' = "judge"
  /\ UNCHANGED <<probe, defect, case, check, world, reply, verdicts, killed, exit>>

\* What the end of the DDL decides before anything is looked at.
Decided ==
  CASE Current.expected = "block" ->
         IF reply = "ok" THEN "FINDING" ELSE IF Current.known THEN "KNOWN"
         ELSE IF Current.family /\ reply = "other" THEN "FINDING" ELSE "OK"
    [] Current.expected = "rollback" -> IF reply = "refused" THEN "OK" ELSE "FINDING"
    [] Current.expected = "rewrite_or_block" -> IF reply = "ok" THEN "look" ELSE "OK"
    [] Current.expected = "known_control" -> IF reply = "ok" THEN "look" ELSE "FIXED"
    [] OTHER -> IF reply = "ok" THEN "look" ELSE "FINDING"

Looks == Decided = "look" \/ (Decided = "OK" /\ Current.expected \in {"block", "rollback"} /\ Current.checks # <<>>)

Judge ==
  /\ at = "judge"
  /\ IF Looks THEN at' = "look" /\ check' = 1 /\ UNCHANGED reply
     ELSE at' = "tidy" /\ reply' = Decided /\ UNCHANGED check
  /\ UNCHANGED <<probe, defect, case, world, armed, verdicts, loss, killed, exit>>

Failed == IF Current.expected = "known_control" THEN "KNOWN" ELSE "FINDING"

Seen(passes) ==
  IF ~passes THEN at' = "tidy" /\ reply' = Failed /\ check' = 1
  ELSE IF check = Len(Current.checks) THEN at' = "tidy" /\ reply' = "OK" /\ check' = 1
  ELSE at' = "look" /\ check' = check + 1 /\ UNCHANGED reply

Look ==
  /\ at = "look"
  /\ LET c == Current.checks[check] IN
       \/ Seen(Passes(c)) /\ world' = Looked(c) /\ UNCHANGED loss
       \/ Lose /\ Seen(PassesLost(c)) /\ world' \in {world, Looked(c)}
  /\ UNCHANGED <<probe, defect, case, armed, verdicts, killed, exit>>

\* One of the probes leaves this to the setup of the next case.
Tidy ==
  /\ at = "tidy"
  /\ \/ Verdict(reply) /\ UNCHANGED loss /\ world' = IF probe = "reference_matrix" THEN world ELSE Cleaned(world)
     \/ /\ probe # "reference_matrix" /\ Lose
        /\ IF Tolerant THEN Verdict(reply) /\ world' \in CleanedLost(world)
           ELSE Verdict("FINDING") /\ UNCHANGED world
  /\ reply' = "none"
  /\ UNCHANGED <<probe, defect, check, armed, killed, exit>>

\* The failpoints of all cases, what the last case left, and the database; but one
\* of the probes has a database per case, and drops none at the end.
FinishKeeps ==
  /\ at \in {"finish", "raised"} /\ UNCHANGED <<world, armed, loss>>

FinishClean ==
  /\ at \in {"finish", "raised"}
  /\ \/ armed' = {} /\ world' = (IF probe = "masking_policy" THEN world ELSE Cleaned(world)) /\ UNCHANGED loss
     \/ /\ probe # "masking_policy" /\ Lose
        /\ \/ armed' \in {{f} : f \in armed} /\ world' = Cleaned(world)
           \/ armed' = {} /\ probe = "reference_matrix" /\ UNCHANGED world
           \/ armed' = {} /\ Tolerant /\ world' \in {CleanedTables(w) : w \in CleanedLost(world)} \cup {Cleaned(world)}

Finish ==
  /\ FinishClean
  /\ exit' = IF at = "raised" \/ \E i \in DOMAIN verdicts : verdicts[i] = "FINDING" THEN 1 ELSE 0
  /\ at' = "done"
  /\ UNCHANGED <<probe, defect, case, check, reply, verdicts, killed>>

\* The process is killed, and started again with a database of another name.
Kill ==
  /\ Tolerant
  /\ at \notin {"begin", "done"} /\ ~killed /\ loss = <<>> /\ defect = NoDefect
  /\ killed' = TRUE
  /\ world' = {f \in world : f[1] = "cluster"} \cup {Uses("old", f[3]) : f \in {g \in world : g[2] = "uses"}}
  /\ at' = "begin" /\ case' = 1 /\ check' = 1 /\ reply' = "none" /\ verdicts' = <<>>
  /\ UNCHANGED <<probe, defect, armed, loss, exit>>

Next ==
  \/ Begin \/ Prepare \/ PrepareLost \/ Arm \/ Alter \/ Disarm \/ Judge \/ Look \/ Tidy \/ Finish \/ Kill
  \/ at = "done" /\ UNCHANGED vars

Spec == Init /\ [][Next]_vars
-----------------------------------------------------------------------------
\* The run has one verdict per case it is through, and enables failpoints only of its cases.
TypeOK ==
  /\ case \in DOMAIN Cases[probe] /\ check \in 1..Len(Current.checks) \cup {1}
  /\ at \in {"begin", "prepare", "arm", "alter", "disarm", "judge", "look", "tidy", "finish", "raised", "done"}
  /\ at \in {"prepare", "arm", "alter", "disarm", "judge", "look", "tidy", "raised"} => Len(verdicts) = case - 1
  /\ at = "finish" => Len(verdicts) = Last
  /\ \A i \in DOMAIN verdicts : verdicts[i] \in {"OK", "FINDING", "KNOWN", "FIXED", "SKIP"}
  /\ armed \subseteq DOMAIN Failpoint
  /\ exit \in {Running, 0, 1, 2}

LostIn(i) == loss # <<>> /\ loss[1] = i /\ loss[2] \notin {"begin", "finish", "raised"}
HeldFor(i) == \E f \in world : f[1] = "old" /\ Has("cluster", f[3]) \in Before(Cases[probe][i])

\* The relations of a table that a DDL leaves alone and the probe of that owner is about.
Kept(k) ==
  CASE k.owner \in {"placement"} -> {"uses"}
    [] k.owner = "index" -> {"row"}
    [] k.owner \in {"mixed", "stateful"} -> {"uses", "marks", "row", "is"}
    [] k.owner = "masking" -> IF k.gone = {} THEN {"column", "expr"} ELSE {}
    [] OTHER -> {"enforces"}

\* What a probe has to notice: a DDL that is accepted, refused, or refused with another
\* error against what the case says; a fact the DDL did not take away or did not make;
\* a kept fact of the relation the case is about.
Noticeable(d) ==
  LET k == Cases[probe][d.case] IN
  CASE d.how = "accept" -> TRUE
    [] d.how = "family" -> k.family
    [] d.how = "refuse" -> k.expected \in {"rewrite", "rollback"}
    [] d.how = "keep" -> TRUE
    [] d.how = "lose" -> d.fact[2] \in Kept(k) \/ (d.fact \in k.come /\ ~(d.fact = Partitioned /\ k.owner = "index"))

\* A reference that went stale or was lost by a DDL is reported in the case that made
\* it so, whatever call was lost in another case.  What is not asked: that a table is
\* partitioned after PARTITION BY with indexes, and the marker of a global index after
\* DROP or TRUNCATE PARTITION.
DefectIsFound ==
  LET c == defect.case IN
  (defect # NoDefect /\ c \in DOMAIN verdicts /\ Noticeable(defect) /\ ~LostIn(c)) =>
    verdicts[c] = IF Cases[probe][c].expected = "known_control" THEN "KNOWN" ELSE "FINDING"

\* A failpoint that was not deleted makes the DDLs of its kind fail in later cases.
LeftArmed(i) ==
  /\ loss # <<>> /\ loss[2] = "disarm" /\ loss[1] < i
  /\ LET f == Cases[probe][loss[1]].failpoint  g == Cases[probe][i].failpoint
     IN  Failpoint[f] = <<Failpoint[g][1], "always">>

\* A case is reported for a defect that is its own, or for a call that was lost in it:
\* what another case, or a killed run, left behind is not taken for a defect.  But for
\* a failpoint whose DELETE was lost.
FindingIsReal ==
  \A i \in DOMAIN verdicts : verdicts[i] = "FINDING" => defect.case = i \/ LostIn(i) \/ LeftArmed(i)

\* A SHOW CREATE in which nothing is looked for but what must not be there.
ForbidsOnly(checks) == \E i \in DOMAIN checks : checks[i].how = "show" /\ checks[i].needs = {}

\* A run that exits with 0 has judged every case, except those it skipped because their
\* policies are still used by a table of a killed run, and those in which a call was
\* lost where it could not be told from the answer that is wanted.
GreenIsEarned ==
  exit = 0 =>
    \/ verdicts = <<>> /\ loss = <<1, "begin">>
    \/ /\ Len(verdicts) = Last
       /\ \A i \in DOMAIN verdicts : HeldFor(i) => verdicts[i] = "SKIP"
       /\ \A i \in DOMAIN verdicts : verdicts[i] = "SKIP" => HeldFor(i) \/ LostIn(i)
       /\ \A i \in DOMAIN verdicts : LostIn(i) =>
            \/ loss[2] \in {"prepare", "disarm", "tidy"}
            \/ loss[2] = "alter" /\ (Cases[probe][i].known \/ Cases[probe][i].expected = "rewrite_or_block")
            \/ loss[2] = "look" /\ (Cases[probe][i].known \/ ForbidsOnly(Cases[probe][i].checks))

\* After the run no failpoint is enabled, its database is empty, and the policies that
\* are left are those a killed run's table uses: a lost cleanup in between is made good
\* by the next.  Only the last cleanup is not tried again.
NothingLeft ==
  (at = "done" /\ (loss # <<>> => loss[2] \notin {"begin", "finish", "raised"} /\ ~(probe = "masking_policy" /\ loss[2] = "tidy"))) =>
    /\ armed = {}
    /\ Database(world) = {}
    /\ \A f \in world : f[1] = "cluster" => Referenced(f[3], world)
=============================================================================
