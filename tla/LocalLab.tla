------------------------------ MODULE LocalLab ------------------------------
(***************************************************************************)
(* The local side of txnlab: worktrees, the build, realtikvtest and the    *)
(* source scout on one machine, with a developer at the worktrees.  A      *)
(* behaviour starts the commands of one plan.                              *)
(***************************************************************************)
EXTENDS LocalRuntime, SourceScout

CONSTANT Plans  \* bound: which commands are started in one behaviour, how many commands
                \* about worktrees are given, and whether the others wait for a binary

ASSUME PlansAssumption ==
  \A p \in Plans : p.commands \subseteq Runs \cup Scouts /\ p.trees \in Nat /\ p.waits \in BOOLEAN

VARIABLE plan

vars == <<treeVars, runVars, scoutVars, plan>>

Init ==
  /\ TreesInit /\ RunsInit /\ ScoutsInit
  /\ plan \in Plans /\ left = plan.trees

Trees    == TreesNext /\ UNCHANGED <<runVars, scoutVars, plan>>
Runner(r) == Command(r) /\ UNCHANGED <<treeVars, scoutVars, plan>>
Around(r) == Playground(r) /\ UNCHANGED <<treeVars, scoutVars, plan>>
Planned(x) == x \in plan.commands /\ (plan.waits => left = 0 /\ builder = "idle" /\ binary # Absent)
StartRun(r) == Planned(r) /\ Verify(r) /\ UNCHANGED <<treeVars, scoutVars, plan>>
Scouting(s) == Planned(s) /\ ScoutNext(s) /\ UNCHANGED <<treeVars, runVars, plan>>

\* What a scout does by itself; the agent and the start of a scout owe nothing.
ScoutCommand(s) ==
  (Answered(s) \/ TimesOut(s) \/ Leaves(s)) /\ UNCHANGED <<treeVars, runVars, plan>>

Next ==
  \/ Trees
  \/ \E r \in Runs : StartRun(r) \/ Runner(r) \/ Around(r)
  \/ \E s \in Scouts : Scouting(s)

Spec == Init /\ [][Next]_vars

\* A started command is a process that is scheduled; its waits have deadlines.
FairSpec ==
  /\ Spec
  /\ \A r \in Runs : WF_vars(Runner(r))
  /\ \A s \in Scouts : WF_vars(ScoutCommand(s))
-----------------------------------------------------------------------------
ScoutEnded(s) == scout[s].at \in {"done", "broken"}

\* Every variable stays in its set.
TypeOK == TreesOK /\ RunsOK /\ ScoutsOK /\ plan \in Plans

\* A command leaves a process of its group behind only when it was killed or, for a
\* scout, interrupted; when the leader had left by itself; or when a child outlived
\* SIGTERM and the leader did not.  The leader itself runs on in the first case only
\* (_stop_process_group, _terminate_process_group, the try of
\* run_source_packet_scout without a finally).
NothingRunsOn ==
  /\ \A r \in Runs :
       run[r].at = "ended" /\ (group[r].leader = "up" \/ Alive(r)) =>
         \/ run[r].result = "killed"
         \/ group[r].leader = "exited"
         \/ group[r].leader = "stopped" /\ "child" \in group[r].deaf
  /\ \A s \in Scouts :
       ScoutEnded(s) /\ (agent[s].leader = "up" \/ agent[s].child = "up") =>
         \/ scout[s].at = "broken"
         \/ agent[s].leader = "exited"
         \/ agent[s].leader = "stopped" /\ "child" \in agent[s].deaf

\* A result with the scope of the pin was served by a binary of the pin, unless
\* another playground took the port after the port was seen closed, or the binary
\* was built again between its verification and the start (run_realtikvtest).
VerdictIsOfPin ==
  \A r \in Runs :
    run[r].result \in Reported /\ run[r].mode = "pinned" =>
      LET q == run[r].served IN
      \/ TellsPin(group[q].image)
      \/ q # r /\ r \in group[q].after
      \/ q = r /\ group[r].image # run[r].seen

\* A scout that reports ok has an agent that exited with 0 in time, and a valid
\* message that is its own, unless its agent wrote none, or another's that ran at the
\* same time wrote over it, that of an interrupted scout included
\* (run_source_packet_scout).
ScoutAnswerIsOwn ==
  \A s \in Scouts :
    scout[s].ok =>
      /\ agent[s].leader = "exited" /\ agent[s].code = 0
      /\ scout[s].value.faults = {}
      /\ scout[s].value.by = s \/ ~agent[s].wrote \/ scout[s].value.by \in agent[s].rivals

\* A packet, which names the pinned commit, holds something else only when there was
\* no worktree to read or a developer had touched one (_source_root).
PacketIsOfPin ==
  \A s \in Scouts :
    scout[s].packet \notin {Absent, "pin"} => scout[s].from = "repo" \/ touched

\* Every command that started ends: no wait is without a deadline.
CommandsEnd ==
  /\ \A r \in Runs : run[r].at # "idle" ~> run[r].at = "ended"
  /\ \A s \in Scouts : scout[s].at # "idle" ~> ScoutEnded(s)
=============================================================================
