------------------------------ MODULE MCTxnLab ------------------------------
(* Small instances of TxnLab: experiment files with few actions. *)
EXTENDS TxnLab

CONSTANTS r1, r2, fp1, fp2, net1, tidb, tikv, old, new, k1, k2

\* Two pods of one component, or a pod of each.
MCHostOf == [p \in Points |-> tikv]
LiveHostOf == [p \in Points |-> IF p = fp1 THEN tikv ELSE tidb]

NoImages == [c \in Components |-> Nil]
OldImages == [c \in Components |-> old]
OnlyTikv(image) == [c \in Components |-> IF c = tikv THEN image ELSE Nil]

Action(kind) == [kind |-> kind, points |-> {}, object |-> net1, components |-> {}, mutates |-> FALSE]
Arm(S) == [Action("failpoint_arm") EXCEPT !.points = S]
Disarm(S) == [Action("failpoint_disarm") EXCEPT !.points = S]
Switch(S) == [Action("image_switch") EXCEPT !.components = S]

Plan(prepare, arm, workload, observe, cleanup) ==
  [prepare |-> prepare, arm |-> arm, workload |-> workload, observe |-> observe, cleanup |-> cleanup]

Testbed(key, plan) ==
  [environment |-> "testbed", cluster |-> TRUE, allow_mutation |-> TRUE, cli_allow |-> TRUE,
   auto_cleanup |-> TRUE, restore_images |-> TRUE, auto_import |-> FALSE, oracle |-> FALSE,
   run_key |-> key, images |-> OnlyTikv(new), plan |-> plan]

Faulty(key) ==
  [Testbed(key, Plan(<< >>, <<Arm({fp1, fp2}), Action("chaos_apply")>>, <<Action("command")>>,
                     <<Action("observe")>>, <<Disarm({fp1})>>)) EXCEPT !.oracle = TRUE]

\* Switched twice: the second switch finds what the first has done.  And a switch
\* of a component that the [images] table does not name.
Rolling(key) ==
  [Testbed(key, Plan(<<Switch({tikv})>>, <<Arm({fp1})>>, <<Action("chaos_apply")>>, << >>,
                     <<Action("chaos_delete"), Switch({tikv, tidb})>>))
     EXCEPT !.images = [c \in Components |-> new]]
Unnamed(key) == Testbed(key, Plan(<<Switch({tikv})>>, <<Switch({tidb})>>, << >>, << >>, << >>))

Offline(key) ==
  [Testbed(key, Plan(<< >>, << >>, <<Action("command")>>, << >>, <<Action("command")>>))
     EXCEPT !.environment = "local", !.cluster = FALSE, !.allow_mutation = FALSE,
            !.oracle = TRUE, !.auto_import = TRUE]

LocalCluster(key) ==
  [Faulty(key) EXCEPT !.environment = "local", !.allow_mutation = FALSE, !.auto_cleanup = FALSE]

\* One fault kind per experiment, each without the flag of the command line.
Ungated(key, actions) == [Testbed(key, Plan(<< >>, actions, << >>, << >>, << >>)) EXCEPT !.cli_allow = FALSE]

SingleConfigs ==
  {Faulty(k1), Rolling(k1), Offline(k1), LocalCluster(k1),
   Unnamed(k1), Ungated(k1, <<Arm({fp1})>>), Ungated(k1, <<Action("chaos_apply")>>),
   Ungated(k1, <<Switch({tikv})>>), Ungated(k1, <<[Action("observe") EXCEPT !.mutates = TRUE]>>)}

Brief(key) ==
  [Testbed(key, Plan(<< >>, <<Arm({fp1}), Action("chaos_apply")>>, << >>, << >>, << >>))
     EXCEPT !.oracle = (key = k1)]
PairConfigs == {Brief(k1), Brief(k2)}

\* One run of any kind beside one that is refused at its gate, or two brief runs.
Bystander == Ungated(k2, <<Arm({fp1})>>)
AloneOrPair ==
  Init /\ \/ config[r1] \in SingleConfigs /\ config[r2] = Bystander
          \/ \A r \in Procs : config[r] \in PairConfigs
Pair == config[r2] # Bystander
AloneOrPairSpec == AloneOrPair /\ [][Next]_vars
\* Bound: a pair is not interrupted, and nobody runs an emergency cleanup beside it.
PairIsBrief == Pair => rescue' = rescue /\ ~run'[r1].unwinding /\ ~run'[r2].unwinding
AloneOrPairConfigs == SingleConfigs \cup PairConfigs \cup {Bystander}

\* Two runs that compete for the image of tikv and restart each other's pods.
Switching(key, image) ==
  [Testbed(key, Plan(<< >>, <<Arm({fp2}), Switch({tikv})>>, << >>, << >>, << >>))
     EXCEPT !.images = OnlyTikv(image)]
LiveConfigs == {Switching(k1, new), Switching(k2, old)}

OneSpec == {OldImages}
BareSpec == {[c \in Components |-> IF c = tikv THEN Nil ELSE old]}
=============================================================================
