--------------------------- MODULE MCTargetQueue ---------------------------
(* Small instances of TargetQueue: one for the readers, one for refill. *)
EXTENDS TargetQueue

CONSTANTS
  gsel, gora, gsce, gsch, profile, fault,     \* assets every target needs
  ob1, ob2, ob3, o1, o2,                      \* obligations and oracles
  t1, t2, t3, k11, k12, k21, k22, deep        \* targets, and keys of refill candidates

Body(ty, mo, se, li, tr) == [type |-> ty, module |-> mo, selector |-> se, life |-> li, trust |-> tr]
Asset(k, b) == [kind |-> "asset", key |-> k, body |-> b]
Link(s, t) == [kind |-> "link", source |-> s, target |-> t, relation |-> "judged_by"]
Run(k, o, v) == [kind |-> "run", key |-> k, obligation |-> o, verdict |-> v, used |-> << >>]
Target(k, r) == [kind |-> "target", key |-> k, row |-> r]

Row(st, se, ad, co, ob, br, ba) ==
  [module |-> "m", selector |-> se, status |-> st, consequence |-> co, admission |-> ad,
   severity |-> ad # "NOT_ADMITTED", lift |-> ad = "C2_WITH_LIFT",
   obligation |-> ob, broad |-> br, base |-> ba, generated |-> FALSE]

Obligation(se, li) == Body("obligation", "m", se, li, "used")

\* What selects and runs for every target of module m and selector s.
Method ==
  << Asset(gsel, Body("selector", "shared", "s", "validated", "trusted")),
     Asset(gora, Body("oracle", "shared", "s", "validated", "trusted")),
     Asset(gsce, Body("scenario", "shared", "s", "validated", "trusted")),
     Asset(gsch, Body("schedule_template", "shared", "s", "validated", "trusted")),
     Asset(profile, Body("module_profile", "m", "s", "validated", "trusted")),
     Asset(fault, Body("fault_point", "m", "s", "validated", "trusted")) >>

\* t1 is executed by ob1.  t2 has a broad oracle and gets ob2, which has a run in
\* the family already, later.  t3 is a C1 target that claims C3.
Broad == Row("candidate", "s", "C3_DIRECT", 3, Nil, o1, Nil)
QueueFiles ==
  {Method,
   <<Asset(ob1, Obligation("s", "validated")), Target(t1, Row("ready", "s", "C2_WITH_LIFT", 2, ob1, Nil, Nil)),
     Run("r1", ob1, "RED"),
     Target(t3, [Row("candidate", "s", "C3_DIRECT", 3, ob1, Nil, Nil) EXCEPT !.severity = FALSE])>>,
   <<Run("r2", ob1, "GREEN")>>,
   <<Asset(ob1, Obligation("s", "retired"))>>,
   <<Target(t2, Broad)>>,
   <<Asset(ob2, Obligation("s", "candidate")), Target(t2, Row("ready", "s", "C3_DIRECT", 3, ob2, o1, Nil)),
     Run("r3", ob2, "GREEN")>>}

\* Refill: two oracles in debt, ob1 and ob2 validated by t1 and t2.  k11, the
\* candidate of t1 and o1, is executed and validated by ob3, or retired.
Oracle(tr) == Body("oracle", "shared", "s", "candidate", tr)
Validated(o) == Row("validated", "s", "C3_DIRECT", 3, o, Nil, Nil)
RefillFiles ==
  {<<Asset(o1, Oracle("hypothesis")), Asset(ob1, Obligation("s", "validated")), Link(ob1, o1), Target(t1, Validated(ob1))>>,
   <<Asset(o1, Oracle("used")), Asset(o2, Oracle("hypothesis")), Asset(ob2, Obligation("s", "validated")),
     Link(ob2, o2), Link(ob2, o1), Target(t2, Validated(ob2))>>,
   <<Asset(o1, Oracle("execution_verified")), Asset(o2, Oracle("used")), Asset(ob3, Obligation("s", "validated")),
     Link(ob3, o1), Link(ob3, o2), Target(k11, Row("validated", "s", "C3_DIRECT", 3, ob3, o1, t1))>>,
   <<Target(k11, Row("retired", "s", "NOT_ADMITTED", 3, Nil, o1, t1))>>,
   <<Asset(o1, Oracle("used")), Target(t1, Row("running", "s", "C3_DIRECT", 3, ob1, Nil, Nil))>>}

\* The people are careful, or not at all.
CarefulOrNot == {{}, {"overlap", "reimport", "meanwhile", "include-covered"}}

Keys ==
  [x \in TargetKeys \X AssetKeys |->
     CASE x = <<t1, o1>> -> k11 [] x = <<t1, o2>> -> k12
       [] x = <<t2, o1>> -> k21 [] x = <<t2, o2>> -> k22 [] OTHER -> deep]

\* A behaviour is about the readers or about the refills.
Either == {{"meanwhile"}} \cup CarefulOrNot
Reading == workflow = {"meanwhile"}
EitherNext ==
  /\ \/ Reading /\ ((\E q \in Readers : QueueStep(q)) \/ \E f \in QueueFiles : Curate(f))
     \/ ~Reading /\ ((\E p \in Refillers : RefillStep(p) \/ ImportCandidates(p)) \/ \E f \in RefillFiles : Curate(f))
  /\ UNCHANGED workflow
EitherSpec == Init /\ [][EitherNext]_vars
EitherFiles == QueueFiles \cup RefillFiles

BodiesOf(files) == UNION {{f[n].body : n \in Lines(f, "asset")} : f \in files}
CandidateRows ==
  {[module |-> "m", selector |-> "s", status |-> "candidate", consequence |-> 3, admission |-> "NOT_ADMITTED",
    severity |-> FALSE, lift |-> FALSE, obligation |-> Nil, broad |-> o, base |-> b, generated |-> TRUE] :
     o \in {o1, o2}, b \in {t1, t2, k11, k12, k21, k22, deep}}
RowsOf(files) == UNION {{f[n].row : n \in Lines(f, "target")} : f \in files}

MCBodies == BodiesOf(QueueFiles \cup RefillFiles)
MCRows ==
  {r \in RowsOf(QueueFiles \cup RefillFiles) \cup CandidateRows :
     /\ r.base \in TargetKeys \cup {Nil}
     /\ {r.obligation, r.broad} \subseteq AssetKeys \cup {Nil}}
=============================================================================
