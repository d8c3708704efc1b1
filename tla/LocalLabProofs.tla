--------------------------- MODULE LocalLabProofs ---------------------------
(***************************************************************************)
(* The local side of txnlab, for any number of test runs and scouts on one *)
(* machine and any order of commands about worktrees: types, what is left  *)
(* of a process group, who served a verdict, whose message a scout reports *)
(* and what a packet was read from.                                        *)
(***************************************************************************)
EXTENDS LocalLab, TLAPS

\* A tree nobody was at is the pin.
TreesInv == ~touched => \A c \in Components : tree[c] \in {Absent, "pin"}

\* The processes of a test run: a playground is started once, what is not
\* stopped ignored the signal, and a command that waits waits for the leader.
GroupInv(r) ==
  /\ group[r].leader = "none" => group[r].child = "none"
  /\ run[r].at \in {"idle", "verified", "clear"} => group[r].leader = "none"
  /\ group[r].leader = "stopped" /\ Alive(r) => "child" \in group[r].deaf
  /\ run[r].at = "ended" /\ run[r].result # "killed" => group[r].leader # "up"

\* Whoever serves a run took the port when the run had seen it closed, and its
\* image and what it remembers are settled.
ServedInv(r) ==
  /\ run[r].mode = "pinned" => TellsPin(run[r].seen)
  /\ run[r].at \in PastCheck => \A q \in Runs : Bound(q) => r \in group[q].after
  /\ run[r].at = "testing" \/ run[r].result \in Reported =>
       /\ run[r].served \in Runs
       /\ group[run[r].served].child \in {"bound", "gone"}
       /\ r \in group[run[r].served].after

\* The processes of a scout, as for a test run.
AgentInv(s) ==
  /\ scout[s].at = "idle" => agent[s].leader = "none" /\ ~agent[s].wrote
  /\ scout[s].at = "done" => agent[s].leader \notin {"none", "up"}
  /\ scout[s].at = "leaving" => scout[s].timed_out
  /\ scout[s].at = "broken" => agent[s].leader # "none"
  /\ agent[s].leader = "none" => scout[s].at = "idle" /\ agent[s].child = "none"
  /\ agent[s].leader = "stopped" /\ agent[s].child = "up" => "child" \in agent[s].deaf

\* A scout at work knows of every other that may still write, an interrupted one's
\* agent included, so that a message that is not its own is a rival's.
AnswerInv(s) ==
  /\ \A t \in Scouts \ {s} : Talking(s) /\ Lives(t) => t \in agent[s].rivals
  /\ Talking(s) /\ agent[s].wrote => last.by = s \/ last.by \in agent[s].rivals
  /\ scout[s].ok =>
       /\ scout[s].at = "done" /\ agent[s].leader = "exited" /\ agent[s].code = 0
       /\ scout[s].value.faults = {}
       /\ scout[s].value.by = s \/ ~agent[s].wrote \/ scout[s].value.by \in agent[s].rivals

PacketInv(s) == scout[s].packet \notin {Absent, "pin"} => scout[s].from = "repo" \/ touched

Inv ==
  /\ TypeOK
  /\ TreesInv
  /\ \A r \in Runs : GroupInv(r) /\ ServedInv(r)
  /\ \A s \in Scouts : AgentInv(s) /\ AnswerInv(s) /\ PacketInv(s)
-----------------------------------------------------------------------------
(* Types *)

\* Nothing has started.
LEMMA TypeInit == Init => TypeOK
<1> SUFFICES ASSUME Init PROVE TypeOK
  OBVIOUS
<1>1. TreesOK
  BY PlansAssumption, CheckoutsAssumption DEF Init, TreesInit, TreesOK, Tree, Absent
<1>2. RunsOK
  BY DEF Init, RunsInit, RunsOK, RunRecord, GroupRecord, Places, Results, Absent
<1>3. ScoutsOK
  <2>1. last \in Message \cup {NoMessage} /\ NoMessage \in Message \cup {NoMessage}
    BY DEF Init, ScoutsInit
  <2> QED BY <2>1 DEF Init, ScoutsInit, ScoutsOK, ScoutRecord, AgentRecord, Absent
<1> QED BY <1>1, <1>2, <1>3 DEF Init, TypeOK

\* The developer and the builder.
LEMMA TypeTrees == TreesOK /\ TreesNext => TreesOK'
<1> SUFFICES ASSUME TreesOK, TreesNext PROVE TreesOK'
  OBVIOUS
<1> USE DEF TreesOK, Tree, Absent, Given
<1>1. CASE PrepareWorktrees
  BY <1>1 DEF PrepareWorktrees, WorktreeAdded
<1>2. CASE RemoveWorktrees
  BY <1>2 DEF RemoveWorktrees
<1>3. CASE BuildCheck \/ BuildMake \/ BuildVerify
  <2>1. tree["tikv"] \in Tree \cup {Absent}
    BY DEF Components
  <2> QED BY <1>3, <2>1 DEF BuildCheck, BuildMake, BuildVerify
<1>4. ASSUME NEW c \in Components, Touch(c) PROVE TreesOK'
  BY <1>4 DEF Touch
<1> QED BY <1>1, <1>2, <1>3, <1>4 DEF TreesNext

\* Whoever holds the port is a test of this machine.
LEMMA PortOwnerRuns == PortOpen => PortOwner \in Runs /\ Bound(PortOwner)
  BY DEF PortOpen, PortOwner

\* A local test.
LEMMA TypeRun ==
  ASSUME RunsOK, TreesOK, NEW r \in Runs, Verify(r) \/ Command(r) \/ Playground(r)
  PROVE  RunsOK'
<1>1. run[r] \in RunRecord /\ group[r] \in GroupRecord /\ binary \in Tree \cup {Absent}
  BY DEF RunsOK, TreesOK
<1>2. \A at \in Places, result \in Results : [run[r] EXCEPT !.at = at, !.result = result] \in RunRecord
  BY <1>1 DEF RunRecord
<1>3. \A at \in Places : [run[r] EXCEPT !.at = at] \in RunRecord
  BY <1>1 DEF RunRecord
<1>4. CASE Verify(r)
  <2>1. [run[r] EXCEPT !.at = "verified", !.mode = "nightly"] \in RunRecord
    BY <1>1 DEF RunRecord, Places
  <2>2. [run[r] EXCEPT !.at = "verified", !.mode = "pinned", !.seen = binary] \in RunRecord
    BY <1>1 DEF RunRecord, Places
  <2>3. [run[r] EXCEPT !.at = "ended", !.result = "raised"] \in RunRecord
    BY <1>2 DEF Places, Results
  <2> QED BY <1>4, <2>1, <2>2, <2>3 DEF RunsOK, Verify, Ends
<1>5. CASE CheckPort(r) \/ Deadline(r) \/ Test(r) \/ Killed(r)
  BY <1>2, <1>3, <1>5
     DEF RunsOK, CheckPort, Deadline, Test, Killed, Ends, Goes, Stops, Places, Results, Reported
<1>6. CASE Poll(r)
  <2>1. [run[r] EXCEPT !.at = "stopping", !.result = "raised"] \in RunRecord
    BY <1>2 DEF Places, Results
  <2>2. PortOpen => [run[r] EXCEPT !.at = "testing", !.served = PortOwner] \in RunRecord
    BY <1>1, PortOwnerRuns DEF RunRecord, Places
  <2> QED BY <1>6, <2>1, <2>2 DEF RunsOK, Poll, Stops
<1>7. CASE StartPlayground(r)
  <2>1. [group[r] EXCEPT !.leader = "up"] \in GroupRecord
    BY <1>1 DEF GroupRecord
  <2>2. \/ run' = [run EXCEPT ![r].at = "polling"] /\ group' = [group EXCEPT ![r].leader = "up"]
        \/ run' = [run EXCEPT ![r].at = "ended", ![r].result = "raised"] /\ UNCHANGED group
    BY <1>7 DEF StartPlayground, Goes, Ends
  <2>3. [run[r] EXCEPT !.at = "polling"] \in RunRecord
    BY <1>3 DEF Places
  <2>4. [run[r] EXCEPT !.at = "ended", !.result = "raised"] \in RunRecord
    BY <1>2 DEF Places, Results
  <2> QED BY <2>1, <2>2, <2>3, <2>4 DEF RunsOK
<1>8. ASSUME NEW deaf \in SUBSET {"leader", "child"} PROVE Stopped(group[r], deaf) \in GroupRecord
  BY <1>1 DEF Stopped, GroupRecord
<1>9. CASE Terminate(r) \/ Await(r)
  BY <1>3, <1>8, <1>9 DEF RunsOK, Terminate, Await, Goes, Places
<1>10. CASE StartCluster(r)
  <2>1. [group[r] EXCEPT !.leader = "exited"] \in GroupRecord
    BY <1>1 DEF GroupRecord
  <2>2. \A b \in Tree \cup {Absent} : [group[r] EXCEPT !.child = "up", !.image = b] \in GroupRecord
    BY <1>1 DEF GroupRecord
  <2>3. \E b \in Tree \cup {Absent} :
           group' \in {[group EXCEPT ![r].leader = "exited"], [group EXCEPT ![r].child = "up", ![r].image = b]}
    BY <1>1, <1>10 DEF StartCluster
  <2> QED BY <1>10, <2>1, <2>2, <2>3 DEF RunsOK, StartCluster
<1>11. CASE BindPort(r)
  <2> DEFINE after == {q \in Runs : run[q].at \in PastCheck}
  <2>1. \A child \in {"elsewhere", "bound"} : [group[r] EXCEPT !.child = child, !.after = after] \in GroupRecord
    BY <1>1 DEF GroupRecord
  <2>2. \E child \in {"elsewhere", "bound"} : group' = [group EXCEPT ![r].child = child, ![r].after = after]
    BY <1>11 DEF BindPort
  <2> HIDE DEF after
  <2> QED BY <1>11, <2>1, <2>2 DEF RunsOK, BindPort
<1>12. CASE LeaderExits(r)
  <2> PICK child \in {group[r].child, IF group[r].child = "none" THEN "none" ELSE "gone"} :
        group' = [group EXCEPT ![r].leader = "exited", ![r].child = child]
    BY <1>12 DEF RunsOK, LeaderExits
  <2>1. child \in {"none", "up", "bound", "elsewhere", "gone"}
    BY <1>1 DEF GroupRecord
  <2>2. [group[r] EXCEPT !.leader = "exited", !.child = child] \in GroupRecord
    BY <1>1, <2>1 DEF GroupRecord
  <2> QED BY <1>12, <2>2 DEF RunsOK, LeaderExits
<1> QED BY <1>4, <1>5, <1>6, <1>7, <1>9, <1>10, <1>11, <1>12 DEF Command, Playground

\* How a scout may end.
LEMMA ConcludesType ==
  ASSUME ScoutsOK, NEW s \in Scouts, Concludes(s)
  PROVE  scout' \in [Scouts -> ScoutRecord]
<1>1. scout[s] \in ScoutRecord /\ last \in Message \cup {NoMessage} /\ Accepted(s) \in BOOLEAN
  BY DEF ScoutsOK, Accepted
<1> DEFINE value == IF Accepted(s) THEN last ELSE NoMessage
<1>2. value \in Message \cup {NoMessage}
  BY <1>1
<1> HIDE DEF value
<1>3. [scout[s] EXCEPT !.at = "done", !.ok = Accepted(s), !.value = value] \in ScoutRecord
  BY <1>1, <1>2 DEF ScoutRecord
<1>4. scout' = [scout EXCEPT ![s].at = "done", ![s].ok = Accepted(s), ![s].value = value]
  BY DEF Concludes, value
<1> QED BY <1>3, <1>4 DEF ScoutsOK

\* A scout.
LEMMA TypeScout ==
  ASSUME ScoutsOK, TreesOK, NEW s \in Scouts, ScoutNext(s)
  PROVE  ScoutsOK'
<1>1. scout[s] \in ScoutRecord /\ agent[s] \in AgentRecord
  BY DEF ScoutsOK
<1>2. ASSUME NEW c \in Components, StartScout(s, c) PROVE ScoutsOK'
  <2> DEFINE from == SourceRoot(c)
             packet == IF from = "worktree" THEN tree[c] ELSE repo[c]
  <2>1. from \in {"worktree", "repo"} /\ packet \in Tree \cup {Absent}
    BY DEF SourceRoot, TreesOK
  <2>2. scout' = [scout EXCEPT ![s].at = "talking", ![s].from = from, ![s].packet = packet]
    BY <1>2 DEF StartScout
  <2> HIDE DEF from, packet
  <2>3. [scout[s] EXCEPT !.at = "talking", !.from = from, !.packet = packet] \in ScoutRecord
    BY <1>1, <2>1 DEF ScoutRecord
  <2>4. scout' \in [Scouts -> ScoutRecord]
    BY <2>2, <2>3 DEF ScoutsOK
  <2>5. [agent[s] EXCEPT !.leader = "up", !.child = "up", !.rivals = {q \in Scouts : Lives(q)}] \in AgentRecord
    BY <1>1 DEF AgentRecord
  <2>6. \A t \in Scouts : [agent[t] EXCEPT !.rivals = agent[t].rivals \cup {s}] \in AgentRecord /\ agent[t] \in AgentRecord
    BY DEF ScoutsOK, AgentRecord
  <2>7. agent' \in [Scouts -> AgentRecord]
    BY <1>2, <2>5, <2>6 DEF StartScout
  <2> QED BY <1>2, <2>4, <2>7 DEF StartScout, ScoutsOK
<1>3. ASSUME NEW faults \in Offered, AgentWrites(s, faults) PROVE ScoutsOK'
  <2>1. last' \in Message
    BY <1>3, OfferedAssumption DEF AgentWrites, Message
  <2>2. [agent[s] EXCEPT !.wrote = TRUE] \in AgentRecord
    BY <1>1 DEF AgentRecord
  <2> QED BY <1>3, <2>1, <2>2 DEF AgentWrites, ScoutsOK, NoMessage
<1>4. CASE AgentExits(s)
  <2>1. \A code \in {0, 1} : [agent[s] EXCEPT !.leader = "exited", !.code = code] \in AgentRecord
    BY <1>1 DEF AgentRecord
  <2> QED BY <1>4, <2>1 DEF AgentExits, ScoutsOK, NoMessage
<1>5. CASE Answered(s)
  <2>1. scout' \in [Scouts -> ScoutRecord]
    BY <1>5, ConcludesType DEF Answered
  <2> QED BY <1>5, <2>1 DEF Answered, ScoutsOK, NoMessage
<1>6. ASSUME NEW deaf \in SUBSET {"leader", "child"} PROVE Signalled(agent[s], deaf) \in AgentRecord
  BY <1>1 DEF Signalled, AgentRecord
<1>7. CASE TimesOut(s)
  <2>1. [scout[s] EXCEPT !.at = "leaving", !.timed_out = TRUE] \in ScoutRecord
    BY <1>1 DEF ScoutRecord
  <2> QED BY <1>6, <1>7, <2>1 DEF TimesOut, ScoutsOK, NoMessage
<1>8. CASE Leaves(s)
  <2>1. scout' \in [Scouts -> ScoutRecord]
    BY <1>8, ConcludesType DEF Leaves
  <2> QED BY <1>6, <1>8, <2>1 DEF Leaves, ScoutsOK, NoMessage
<1>9. CASE Broken(s)
  <2>1. [scout[s] EXCEPT !.at = "broken"] \in ScoutRecord
    BY <1>1 DEF ScoutRecord
  <2> QED BY <1>9, <2>1 DEF Broken, ScoutsOK, NoMessage
<1> QED BY <1>2, <1>3, <1>4, <1>5, <1>7, <1>8, <1>9 DEF ScoutNext

\* Every step of every command.
LEMMA TypeStep == TypeOK /\ [Next]_vars => TypeOK'
<1> SUFFICES ASSUME TypeOK, [Next]_vars PROVE TypeOK'
  OBVIOUS
<1>1. CASE Trees
  <2>1. TreesOK'
    BY <1>1, TypeTrees DEF TypeOK, Trees
  <2> QED BY <1>1, <2>1 DEF TypeOK, Trees, runVars, scoutVars, RunsOK, ScoutsOK, NoMessage
<1>2. ASSUME NEW r \in Runs, StartRun(r) \/ Runner(r) \/ Around(r) PROVE TypeOK'
  <2>1. RunsOK' /\ UNCHANGED <<treeVars, scoutVars, plan>>
    BY <1>2, TypeRun DEF TypeOK, StartRun, Runner, Around
  <2> QED BY <2>1 DEF TypeOK, treeVars, scoutVars, TreesOK, ScoutsOK, NoMessage
<1>3. ASSUME NEW s \in Scouts, Scouting(s) PROVE TypeOK'
  <2>1. ScoutsOK' /\ UNCHANGED <<treeVars, runVars, plan>>
    BY <1>3, TypeScout DEF TypeOK, Scouting
  <2> QED BY <2>1 DEF TypeOK, treeVars, runVars, TreesOK, RunsOK
<1>4. CASE UNCHANGED vars
  BY <1>4 DEF vars, treeVars, runVars, scoutVars, TypeOK, TreesOK, RunsOK, ScoutsOK, NoMessage
<1> QED BY <1>1, <1>2, <1>3, <1>4 DEF Next

\* Every variable of the local side stays in its set, whatever is started.
THEOREM LocalTypeCorrect == Spec => []TypeOK
  BY TypeInit, TypeStep, PTL DEF Spec
-----------------------------------------------------------------------------
(* Test runs *)

\* A process group keeps running only if the stop could not reach it,
LEMMA GroupStep ==
  ASSUME RunsOK, \A s \in Runs : GroupInv(s), NEW r \in Runs, Verify(r) \/ Command(r) \/ Playground(r)
  PROVE  \A s \in Runs : GroupInv(s)'
<1> USE DEF GroupInv, RunsOK, RunRecord, GroupRecord, Alive
<1>1. CASE Verify(r) \/ CheckPort(r) \/ Deadline(r) \/ Poll(r)
  BY <1>1 DEF Verify, CheckPort, Deadline, Poll, Ends, Goes, Stops
<1>2. CASE StartPlayground(r)
  BY <1>2 DEF StartPlayground, Goes, Ends
<1>3. CASE Test(r) \/ Killed(r)
  BY <1>3 DEF Test, Killed, Stops, Ends, PastCheck, Reported
<1>4. CASE Terminate(r)
  <2>1. CASE group[r].leader # "up"
    BY <1>4, <2>1 DEF Terminate, Goes
  <2>2. CASE group[r].leader = "up"
    <3> PICK deaf \in SUBSET {"leader", "child"} : group' = [group EXCEPT ![r] = Stopped(group[r], deaf)]
      BY <1>4, <2>2 DEF Terminate
    <3>1. /\ group'[r] = Stopped(group[r], deaf) /\ run' = [run EXCEPT ![r].at = "killing"]
          /\ \A s \in Runs \ {r} : group'[s] = group[s]
      BY <1>4, <2>2 DEF Terminate, Goes
    <3>2. /\ Stopped(group[r], deaf).leader \in {"up", "stopped"}
          /\ Stopped(group[r], deaf).child \in {"none", "gone"} \/ "child" \in deaf
          /\ Stopped(group[r], deaf).deaf = deaf
      BY <2>2 DEF Stopped
    <3> QED BY <3>1, <3>2
  <2> QED BY <2>1, <2>2
<1>5. CASE Await(r)
  BY <1>5 DEF Await, Goes, Stopped
<1>6. CASE StartCluster(r)
  BY <1>6 DEF StartCluster
<1>7. CASE BindPort(r)
  BY <1>7 DEF BindPort
<1>8. CASE LeaderExits(r)
  BY <1>8 DEF LeaderExits
<1> QED BY <1>1, <1>2, <1>3, <1>4, <1>5, <1>6, <1>7, <1>8 DEF Command, Playground

\* and whoever serves a test took the port after the test had seen it closed.
LEMMA ServedStep ==
  ASSUME RunsOK, \A s \in Runs : GroupInv(s) /\ ServedInv(s), NEW r \in Runs,
         Verify(r) \/ Command(r) \/ Playground(r)
  PROVE  \A s \in Runs : ServedInv(s)'
<1> SUFFICES ASSUME NEW s \in Runs PROVE ServedInv(s)'
  OBVIOUS
<1> USE DEF ServedInv, RunsOK, RunRecord, GroupRecord, Bound
<1>1. CASE Verify(r)
  <2>1. /\ UNCHANGED group /\ run'[s].result \in {run[s].result, "raised"} /\ run'[s].served = run[s].served
        /\ run'[s].at \in {run[s].at, "verified", "ended"}
        /\ run'[s].mode = "pinned" => TellsPin(run'[s].seen)
    BY <1>1 DEF Verify, Ends
  <2> QED BY <2>1 DEF PastCheck, Reported
<1>2. CASE CheckPort(r)
  BY <1>2 DEF CheckPort, Ends, Goes, PortOpen, PastCheck, Reported
<1>3. CASE Deadline(r) \/ Killed(r)
  <2>1. /\ UNCHANGED group /\ run'[s].result \in {run[s].result, "raised", "killed"}
        /\ run'[s].served = run[s].served /\ run'[s].mode = run[s].mode /\ run'[s].seen = run[s].seen
        /\ run'[s].at = run[s].at \/ (run'[s].at \in {"stopping", "ended"} /\ run[s].at \in PastCheck)
    BY <1>3 DEF Deadline, Killed, Stops, Ends, PastCheck
  <2> QED BY <2>1 DEF PastCheck, Reported
<1>4. CASE Test(r)
  BY <1>4 DEF Test, Stops, PastCheck, Reported
<1>5. CASE Poll(r)
  BY <1>5, PortOwnerRuns, SMTT(30) DEF Poll, Stops, PastCheck, Reported
<1>6. CASE StartPlayground(r)
  <2>1. CASE Goes(r, "polling") /\ group' = [group EXCEPT ![r].leader = "up"]
    BY <1>6, <2>1 DEF StartPlayground, Goes, PastCheck
  <2>2. CASE Ends(r, "raised") /\ UNCHANGED group
    <3>1. /\ UNCHANGED group /\ run'[s].result \in {run[s].result, "raised"}
          /\ run'[s].served = run[s].served /\ run'[s].mode = run[s].mode /\ run'[s].seen = run[s].seen
          /\ run'[s].at \in {run[s].at, "ended"}
      BY <2>2 DEF Ends
    <3> QED BY <3>1 DEF PastCheck, Reported
  <2> QED BY <1>6, <2>1, <2>2 DEF StartPlayground
<1>7. CASE Terminate(r)
  <2>1. /\ run'[s].result = run[s].result
        /\ run'[s].served = run[s].served /\ run'[s].mode = run[s].mode /\ run'[s].seen = run[s].seen
        /\ run'[s].at = run[s].at \/ (run'[s].at \in {"killing", "ended"} /\ run[s].at \in PastCheck)
    BY <1>7 DEF Terminate, Goes, PastCheck
  <2>2. ASSUME NEW q \in Runs
        PROVE  /\ group'[q].after = group[q].after
               /\ group'[q].child = group[q].child \/ (group'[q].child = "gone" /\ group[q].child # "none")
    <3>1. \A deaf : /\ Stopped(group[r], deaf).after = group[r].after
                    /\ \/ Stopped(group[r], deaf).child = group[r].child
                       \/ Stopped(group[r], deaf).child = "gone" /\ group[r].child # "none"
      BY DEF Stopped
    <3> QED BY <1>7, <3>1 DEF Terminate
  <2> QED BY <2>1, <2>2 DEF PastCheck, Reported
<1>8. CASE Await(r)
  BY <1>8 DEF Await, Goes, Stopped, PastCheck
<1>9. CASE StartCluster(r)
  BY <1>9 DEF StartCluster, PastCheck
<1>10. CASE BindPort(r)
  BY <1>10 DEF BindPort, PastCheck
<1>11. CASE LeaderExits(r)
  BY <1>11 DEF LeaderExits, PastCheck
<1> QED BY <1>1, <1>2, <1>3, <1>4, <1>5, <1>6, <1>7, <1>8, <1>9, <1>10, <1>11 DEF Command, Playground
-----------------------------------------------------------------------------
(* Worktrees and packets *)

\* The developer spoils a tree, and the history says so.
LEMMA TreesStep ==
  ASSUME TreesOK, TreesInv, \A s \in Scouts : PacketInv(s), TreesNext, UNCHANGED scout
  PROVE  TreesInv' /\ \A s \in Scouts : PacketInv(s)'
<1>1. touched => touched'
  BY DEF TreesNext, PrepareWorktrees, RemoveWorktrees, BuildCheck, BuildMake, BuildVerify, Touch
<1>2. TreesInv'
  <2>1. CASE PrepareWorktrees
    BY <2>1 DEF PrepareWorktrees, WorktreeAdded, TreesInv
  <2>2. CASE RemoveWorktrees
    BY <2>2 DEF RemoveWorktrees, TreesInv
  <2>3. CASE BuildCheck \/ BuildMake \/ BuildVerify
    BY <2>3 DEF BuildCheck, BuildMake, BuildVerify, TreesInv
  <2>4. CASE \E c \in Components : Touch(c)
    BY <2>4 DEF Touch, TreesInv
  <2> QED BY <2>1, <2>2, <2>3, <2>4 DEF TreesNext
<1> QED BY <1>1, <1>2 DEF PacketInv

\* A packet is a copy of the tree its scout was given.
LEMMA PacketStep ==
  ASSUME ScoutsOK, TreesInv, \A s \in Scouts : PacketInv(s), NEW r \in Scouts, ScoutNext(r),
         UNCHANGED touched
  PROVE  \A s \in Scouts : PacketInv(s)'
<1> SUFFICES ASSUME NEW s \in Scouts PROVE PacketInv(s)'
  OBVIOUS
<1>1. ASSUME NEW c \in Components, StartScout(r, c) PROVE PacketInv(s)'
  BY <1>1 DEF StartScout, SourceRoot, PacketInv, TreesInv, ScoutsOK, ScoutRecord
<1>2. CASE \/ AgentExits(r) \/ Answered(r) \/ TimesOut(r) \/ Leaves(r) \/ Broken(r)
           \/ \E faults \in Offered : AgentWrites(r, faults)
  <2>1. scout'[s].packet = scout[s].packet /\ scout'[s].from = scout[s].from
    BY <1>2 DEF AgentExits, Answered, TimesOut, Leaves, Broken, AgentWrites, Concludes, ScoutsOK, ScoutRecord
  <2> QED BY <2>1 DEF PacketInv
<1> QED BY <1>1, <1>2 DEF ScoutNext
-----------------------------------------------------------------------------
(* Scouts *)

\* What an agent is given at its start.
LEMMA StartFacts ==
  ASSUME ScoutsOK, NEW r \in Scouts, NEW c \in Components, StartScout(r, c)
  PROVE  /\ scout[r].at = "idle" /\ scout'[r].at = "talking"
         /\ scout'[r].ok = scout[r].ok /\ scout'[r].value = scout[r].value
         /\ \A s \in Scouts \ {r} : scout'[s] = scout[s]
         /\ agent'[r].leader = "up" /\ agent'[r].rivals = {q \in Scouts : Lives(q)}
         /\ agent'[r].wrote = agent[r].wrote
         /\ \A s \in Scouts \ {r} :
              /\ agent'[s].leader = agent[s].leader /\ agent'[s].child = agent[s].child
              /\ agent'[s].code = agent[s].code /\ agent'[s].wrote = agent[s].wrote
              /\ agent'[s].deaf = agent[s].deaf
              /\ agent'[s].rivals = agent[s].rivals \cup (IF Lives(s) THEN {r} ELSE {})
<1> USE DEF ScoutsOK, ScoutRecord, AgentRecord
<1>1. /\ scout[r].at = "idle" /\ scout'[r].at = "talking"
      /\ scout'[r].ok = scout[r].ok /\ scout'[r].value = scout[r].value
      /\ \A s \in Scouts \ {r} : scout'[s] = scout[s]
  <2> DEFINE from == SourceRoot(c)
             packet == IF from = "worktree" THEN tree[c] ELSE repo[c]
  <2>1. scout[r].at = "idle" /\ scout' = [scout EXCEPT ![r].at = "talking", ![r].from = from, ![r].packet = packet]
    BY DEF StartScout
  <2> HIDE DEF from, packet
  <2> QED BY <2>1
<1>2. agent'[r] = [agent[r] EXCEPT !.leader = "up", !.child = "up", !.rivals = {q \in Scouts : Lives(q)}]
  BY DEF StartScout
<1>3. agent[r] \in AgentRecord
  OBVIOUS
<1>4. ASSUME NEW s \in Scouts \ {r}
      PROVE  /\ Lives(s) => agent'[s] = [agent[s] EXCEPT !.rivals = agent[s].rivals \cup {r}]
             /\ ~Lives(s) => agent'[s] = agent[s]
  BY DEF StartScout
<1> HIDE DEF Lives
<1>5. ASSUME NEW s \in Scouts \ {r}
      PROVE  /\ agent'[s].leader = agent[s].leader /\ agent'[s].child = agent[s].child
             /\ agent'[s].code = agent[s].code /\ agent'[s].wrote = agent[s].wrote
             /\ agent'[s].deaf = agent[s].deaf
             /\ agent'[s].rivals = agent[s].rivals \cup (IF Lives(s) THEN {r} ELSE {})
  <2>1. agent[s] \in AgentRecord
    OBVIOUS
  <2> QED BY <1>4, <2>1, ZenonT(60)
<1> QED BY <1>1, <1>2, <1>3, <1>5

\* An agent has left or was stopped before its scout is done.
LEMMA AgentStep ==
  ASSUME ScoutsOK, \A s \in Scouts : AgentInv(s), NEW r \in Scouts, ScoutNext(r)
  PROVE  \A s \in Scouts : AgentInv(s)'
<1> SUFFICES ASSUME NEW s \in Scouts PROVE AgentInv(s)'
  OBVIOUS
<1> USE DEF AgentInv, ScoutsOK, ScoutRecord, AgentRecord
<1>1. ASSUME NEW c \in Components, StartScout(r, c) PROVE AgentInv(s)'
  BY <1>1, StartFacts
<1>2. ASSUME NEW faults \in Offered, AgentWrites(r, faults) PROVE AgentInv(s)'
  BY <1>2 DEF AgentWrites
<1>3. CASE AgentExits(r)
  BY <1>3 DEF AgentExits
<1>4. CASE Answered(r)
  BY <1>4 DEF Answered, Concludes
<1>5. CASE TimesOut(r)
  BY <1>5 DEF TimesOut, Signalled
<1>6. CASE Leaves(r)
  BY <1>6 DEF Leaves, Concludes, Signalled
<1>7. CASE Broken(r)
  BY <1>7 DEF Broken, Talking
<1> QED BY <1>1, <1>2, <1>3, <1>4, <1>5, <1>6, <1>7 DEF ScoutNext

\* The last message was written by the scout that reads it, or by a rival it met.
LEMMA AnswerStep ==
  ASSUME ScoutsOK, \A s \in Scouts : AgentInv(s) /\ AnswerInv(s), NEW r \in Scouts, ScoutNext(r)
  PROVE  \A s \in Scouts : AnswerInv(s)'
<1> SUFFICES ASSUME NEW s \in Scouts PROVE AnswerInv(s)'
  OBVIOUS
<1> USE DEF AnswerInv, AgentInv, Lives, Talking, ScoutsOK, ScoutRecord, AgentRecord
<1>1. ASSUME NEW c \in Components, StartScout(r, c) PROVE AnswerInv(s)'
  <2>1. ~Talking(r) /\ ~scout[r].ok /\ ~agent[r].wrote /\ UNCHANGED last
    BY <1>1, StartFacts DEF StartScout
  <2>2. \A t \in Scouts \ {r} : (Talking(t)' <=> Talking(t)) /\ (Lives(t)' <=> Lives(t))
    BY <1>1, StartFacts
  <2>3. CASE s = r
    BY <1>1, <2>1, <2>2, <2>3, StartFacts
  <2>4. CASE s # r
    <3>1. /\ scout'[s] = scout[s] /\ agent'[s].wrote = agent[s].wrote
          /\ agent'[s].leader = agent[s].leader /\ agent'[s].code = agent[s].code
          /\ agent'[s].rivals = agent[s].rivals \cup (IF Lives(s) THEN {r} ELSE {})
      BY <1>1, <2>4, StartFacts
    <3>4. Talking(s) => Lives(s)
      OBVIOUS
    <3> HIDE DEF Lives, Talking
    <3>2. \A t \in Scouts \ {s} : Talking(s)' /\ Lives(t)' => t \in agent'[s].rivals
      BY <2>2, <2>4, <3>1, <3>4
    <3>3. Talking(s)' /\ agent'[s].wrote => last'.by = s \/ last'.by \in agent'[s].rivals
      BY <2>1, <2>2, <2>4, <3>1
    <3> QED BY <3>1, <3>2, <3>3
  <2> QED BY <2>3, <2>4
<1>2. ASSUME NEW faults \in Offered, AgentWrites(r, faults) PROVE AnswerInv(s)'
  BY <1>2 DEF AgentWrites
<1>3. CASE AgentExits(r)
  BY <1>3 DEF AgentExits
<1>4. CASE Answered(r)
  <2>1. CASE s # r
    BY <1>4, <2>1 DEF Answered, Concludes
  <2>2. CASE s = r
    <3>1. scout'[r].at = "done" /\ scout'[r].ok = Accepted(r) /\ (Accepted(r) => scout'[r].value = last)
      BY <1>4 DEF Answered, Concludes
    <3>2. Accepted(r) => agent[r].code = 0 /\ last.faults = {}
      BY DEF Accepted, Validates
    <3> QED BY <1>4, <2>2, <3>1, <3>2 DEF Answered
  <2> QED BY <2>1, <2>2
<1>5. CASE TimesOut(r)
  BY <1>5 DEF TimesOut, Signalled
<1>6. CASE Leaves(r)
  BY <1>6 DEF Leaves, Concludes, Signalled, Accepted
<1>7. CASE Broken(r)
  BY <1>7 DEF Broken
<1> QED BY <1>1, <1>2, <1>3, <1>4, <1>5, <1>6, <1>7 DEF ScoutNext
-----------------------------------------------------------------------------
(* The invariant *)

\* Nothing has started.
LEMMA InvInit == Init => Inv
<1> SUFFICES ASSUME Init PROVE Inv
  OBVIOUS
<1>1. TypeOK /\ TreesInv
  BY TypeInit DEF Init, TreesInit, TreesInv
<1>2. ASSUME NEW r \in Runs PROVE GroupInv(r) /\ ServedInv(r)
  BY DEF Init, RunsInit, GroupInv, ServedInv, Alive, PastCheck, Reported
<1>3. ASSUME NEW s \in Scouts PROVE AgentInv(s) /\ AnswerInv(s) /\ PacketInv(s)
  BY DEF Init, ScoutsInit, AgentInv, AnswerInv, PacketInv, Lives, Talking
<1> QED BY <1>1, <1>2, <1>3 DEF Inv

\* One step of one command, of the developer or of a process.
LEMMA InvStep == Inv /\ [Next]_vars => Inv'
<1> SUFFICES ASSUME Inv, [Next]_vars PROVE Inv'
  OBVIOUS
<1> USE DEF Inv
<1>1. TypeOK' /\ TreesOK /\ RunsOK /\ ScoutsOK
  BY TypeStep DEF TypeOK
<1>2. UNCHANGED runVars => \A r \in Runs : GroupInv(r)' /\ ServedInv(r)'
  BY DEF runVars, GroupInv, ServedInv, Alive, Bound
<1>3. UNCHANGED scoutVars => \A s \in Scouts : AgentInv(s)' /\ AnswerInv(s)'
  BY DEF scoutVars, AgentInv, AnswerInv, Lives, Talking
<1>4. UNCHANGED <<treeVars, scoutVars>> => TreesInv' /\ \A s \in Scouts : PacketInv(s)'
  BY DEF treeVars, scoutVars, TreesInv, PacketInv
<1>5. CASE Trees
  BY <1>1, <1>2, <1>3, <1>5, TreesStep DEF Trees, scoutVars
<1>6. ASSUME NEW r \in Runs, StartRun(r) \/ Runner(r) \/ Around(r) PROVE Inv'
  <2>1. UNCHANGED <<treeVars, scoutVars, plan>> /\ (Verify(r) \/ Command(r) \/ Playground(r))
    BY <1>6 DEF StartRun, Runner, Around
  <2> QED BY <1>1, <1>3, <1>4, <2>1, GroupStep, ServedStep
<1>7. ASSUME NEW s \in Scouts, Scouting(s) PROVE Inv'
  <2>1. UNCHANGED <<treeVars, runVars, plan>> /\ ScoutNext(s)
    BY <1>7 DEF Scouting
  <2>2. TreesInv' /\ UNCHANGED touched
    BY <2>1 DEF treeVars, TreesInv
  <2> QED BY <1>1, <1>2, <2>1, <2>2, AgentStep, AnswerStep, PacketStep
<1>8. CASE UNCHANGED vars
  BY <1>1, <1>2, <1>3, <1>4, <1>8 DEF vars
<1> QED BY <1>5, <1>6, <1>7, <1>8 DEF Next

\* The inductive invariant of the local side holds in every behaviour.
THEOREM LocalInvHolds == Spec => []Inv
  BY InvInit, InvStep, PTL DEF Spec

\* What is left of a process group when its command is over: the command was killed,
\* or a scout interrupted, or the leader left by itself, or a child outlived SIGTERM
\* and it did not.
THEOREM NothingRunsOnHolds == Spec => []NothingRunsOn
<1>1. Inv => NothingRunsOn
  <2> SUFFICES ASSUME Inv PROVE NothingRunsOn
    OBVIOUS
  <2>1. ASSUME NEW r \in Runs, run[r].at = "ended", run[r].result # "killed", group[r].leader = "up" \/ Alive(r)
        PROVE  \/ group[r].leader = "exited"
               \/ group[r].leader = "stopped" /\ "child" \in group[r].deaf
    <3>1. group[r].leader \in {"none", "up", "exited", "stopped"} /\ GroupInv(r)
      BY DEF Inv, TypeOK, RunsOK, GroupRecord
    <3> QED BY <2>1, <3>1 DEF GroupInv, Alive
  <2>2. ASSUME NEW s \in Scouts, scout[s].at # "broken", ScoutEnded(s), agent[s].leader = "up" \/ agent[s].child = "up"
        PROVE  \/ agent[s].leader = "exited"
               \/ agent[s].leader = "stopped" /\ "child" \in agent[s].deaf
    <3>1. agent[s].leader \in {"none", "up", "exited", "stopped"} /\ AgentInv(s)
      BY DEF Inv, TypeOK, ScoutsOK, AgentRecord
    <3> QED BY <2>2, <3>1 DEF AgentInv, ScoutEnded
  <2> QED BY <2>1, <2>2 DEF NothingRunsOn
<1> QED BY <1>1, LocalInvHolds, PTL

\* A verdict with the scope of the pin is of a binary of the pin, but for the two
\* races the code leaves open: for the port after it was seen closed, and for the
\* binary after it was verified.
THEOREM VerdictIsOfPinHolds == Spec => []VerdictIsOfPin
<1>1. Inv => VerdictIsOfPin
  BY DEF Inv, ServedInv, VerdictIsOfPin
<1> QED BY <1>1, LocalInvHolds, PTL

\* The message of a scout that reports ok is valid and its own, or that of a scout
\* that ran beside it, or its agent wrote none.
THEOREM ScoutAnswerIsOwnHolds == Spec => []ScoutAnswerIsOwn
<1>1. Inv => ScoutAnswerIsOwn
  BY DEF Inv, AnswerInv, ScoutAnswerIsOwn
<1> QED BY <1>1, LocalInvHolds, PTL

\* A packet holds something else than the pin only without a worktree to read, or
\* when a developer was at one.
THEOREM PacketIsOfPinHolds == Spec => []PacketIsOfPin
<1>1. Inv => PacketIsOfPin
  BY DEF Inv, PacketInv, PacketIsOfPin
<1> QED BY <1>1, LocalInvHolds, PTL
=============================================================================
