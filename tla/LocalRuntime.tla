---------------------------- MODULE LocalRuntime ----------------------------
(***************************************************************************)
(* realtikvtest (tools/txnlab/local.py): the binary is verified, port 2379 *)
(* is seen closed, a playground is started as the leader of a process      *)
(* group, its child serves PD and TiKV, a Go test runs against whatever    *)
(* answers on the port, and the group is stopped.  Runs of one machine     *)
(* share the port and the binary.  Time is abstract: a deadline may pass   *)
(* as soon as it is armed.                                                 *)
(***************************************************************************)
EXTENDS Worktrees, FiniteSets

CONSTANTS Runs, None

VARIABLES
  run,    \* the command: its place, what it verified, who served its test
  group   \* its playground: leader, child, who ignores SIGTERM

runVars == <<run, group>>

Reported == {"passed", "failed"}
Results == Reported \cup {"none", "raised", "killed"}
Places  == {"idle", "verified", "clear", "polling", "testing", "stopping", "killing", "ended"}
\* Past the test of the port, and not over.
PastCheck == {"clear", "polling", "testing", "stopping", "killing"}

RunRecord ==
  [at : Places, mode : {"none", "pinned", "nightly"}, seen : Tree \cup {Absent},
   served : Runs \cup {None}, result : Results]
GroupRecord ==
  [leader : {"none", "up", "exited", "stopped"}, deaf : SUBSET {"leader", "child"},
   child : {"none", "up", "bound", "elsewhere", "gone"}, image : Tree \cup {Absent},
   after : SUBSET Runs]

RunsOK == run \in [Runs -> RunRecord] /\ group \in [Runs -> GroupRecord]

RunsInit ==
  /\ run = [r \in Runs |-> [at |-> "idle", mode |-> "none", seen |-> Absent, served |-> None, result |-> "none"]]
  /\ group = [r \in Runs |-> [leader |-> "none", deaf |-> {}, child |-> "none", image |-> Absent, after |-> {}]]

Alive(r)    == group[r].child \in {"up", "bound", "elsewhere"}
Bound(r)    == group[r].child = "bound"
PortOpen    == \E r \in Runs : Bound(r)
PortOwner   == CHOOSE r \in Runs : Bound(r)
Goes(r, place)   == run' = [run EXCEPT ![r].at = place]
Ends(r, result)  == run' = [run EXCEPT ![r].at = "ended", ![r].result = result]
Stops(r, result) == run' = [run EXCEPT ![r].at = "stopping", ![r].result = result]
-----------------------------------------------------------------------------
(* The command *)

\* A nightly is inspected, and claims no more than itself.
Verify(r) ==
  /\ run[r].at = "idle"
  /\ \/ run' = [run EXCEPT ![r].at = "verified", ![r].mode = "nightly"]
     \/ TellsPin(binary) /\ run' = [run EXCEPT ![r].at = "verified", ![r].mode = "pinned", ![r].seen = binary]
     \/ ~TellsPin(binary) /\ Ends(r, "raised")
  /\ UNCHANGED group

\* Mutant: an open port is taken as it is.
CheckPortNot(r) == run[r].at = "verified" /\ Goes(r, "clear") /\ UNCHANGED group

CheckPort(r) ==
  /\ run[r].at = "verified"
  /\ IF PortOpen THEN Ends(r, "raised") ELSE Goes(r, "clear")
  /\ UNCHANGED group

\* The playground is the leader of a new session.  Before the try, the directory of
\* the run may exist (its name has a second's precision), and tiup may be missing.
StartPlayground(r) ==
  /\ run[r].at = "clear"
  /\ \/ Goes(r, "polling") /\ group' = [group EXCEPT ![r].leader = "up"]
     \/ Ends(r, "raised") /\ UNCHANGED group

\* One turn of the loop: the leader is asked first, then the port.
Poll(r) ==
  /\ run[r].at = "polling"
  /\ \/ group[r].leader = "exited" /\ Stops(r, "raised")
     \/ /\ group[r].leader # "exited" /\ PortOpen
        /\ run' = [run EXCEPT ![r].at = "testing", ![r].served = PortOwner]
  /\ UNCHANGED group

\* Mutant: the loop waits for the port or the end of the leader.
DeadlineNot(r) == run[r].at = "polling" /\ group[r].leader # "up" /\ Stops(r, "raised") /\ UNCHANGED group

Deadline(r) ==
  /\ run[r].at = "polling"
  /\ Stops(r, "raised")
  /\ UNCHANGED group

\* The test passes, fails, or is given up at its time limit.
Test(r) ==
  /\ run[r].at = "testing"
  /\ \E result \in Reported \cup {"raised"} : Stops(r, result)
  /\ UNCHANGED group

\* Mutant: the signal goes to the leader alone.
StoppedAlone(g, deaf) ==
  [g EXCEPT !.leader = IF "leader" \in deaf THEN @ ELSE "stopped", !.deaf = deaf]

Stopped(g, deaf) ==
  [g EXCEPT !.leader = IF "leader" \in deaf THEN @ ELSE "stopped",
            !.child  = IF @ = "none" \/ "child" \in deaf THEN @ ELSE "gone",
            !.deaf   = deaf]

\* Nothing is signalled when the leader is gone by itself; who ignores SIGTERM is open.
Terminate(r) ==
  /\ run[r].at = "stopping"
  /\ IF group[r].leader # "up"
     THEN Goes(r, "ended") /\ UNCHANGED group
     ELSE /\ Goes(r, "killing")
          /\ \E deaf \in SUBSET {"leader", "child"} : group' = [group EXCEPT ![r] = Stopped(@, deaf)]

\* The wait ends with the leader; SIGKILL follows only if the leader stays.
Await(r) ==
  /\ run[r].at = "killing"
  /\ Goes(r, "ended")
  /\ group' = IF group[r].leader = "up" THEN [group EXCEPT ![r] = Stopped(@, {})] ELSE group

Command(r) ==
  CheckPort(r) \/ StartPlayground(r) \/ Poll(r) \/ Deadline(r) \/ Test(r) \/ Terminate(r) \/ Await(r)
-----------------------------------------------------------------------------
(* What happens to a command and its playground *)

\* SIGKILL of the command, or an interrupt before the try or in the finally.  (An
\* interrupt in between runs the finally, as Deadline or a Test that raised do.)
Killed(r) ==
  /\ run[r].at \in PastCheck
  /\ Ends(r, "killed")
  /\ UNCHANGED group

\* The cluster is started from the binary as it is then, and fails without one.
StartCluster(r) ==
  /\ group[r].leader = "up" /\ group[r].child = "none"
  /\ group' = IF run[r].mode = "pinned" /\ binary = Absent
              THEN [group EXCEPT ![r].leader = "exited"]
              ELSE [group EXCEPT ![r].child = "up", ![r].image = IF run[r].mode = "pinned" THEN binary ELSE Absent]
  /\ UNCHANGED run

\* PD takes port 2379, or another when that is taken; "after" remembers the
\* commands that had already seen the port closed.
BindPort(r) ==
  /\ group[r].child = "up"
  /\ group' = [group EXCEPT ![r].child = IF PortOpen THEN "elsewhere" ELSE "bound",
                            ![r].after = {q \in Runs : run[q].at \in PastCheck}]
  /\ UNCHANGED run

LeaderExits(r) ==
  /\ group[r].leader = "up"
  /\ \E child \in {group[r].child, IF group[r].child = "none" THEN "none" ELSE "gone"} :
       group' = [group EXCEPT ![r].leader = "exited", ![r].child = child]
  /\ UNCHANGED run

Playground(r) == Killed(r) \/ StartCluster(r) \/ BindPort(r) \/ LeaderExits(r)
=============================================================================
