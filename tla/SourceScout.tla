---------------------------- MODULE SourceScout ----------------------------
(***************************************************************************)
(* The source scout (tools/txnlab/scout.py): numbered regions of the       *)
(* sources go into a packet, an agent is started as a process group with   *)
(* a time limit, and the message it leaves in the output directory is      *)
(* validated.  Scouts may be given one output directory, at once or one    *)
(* after the other.  The content of a packet is the tree it was read from. *)
(***************************************************************************)
EXTENDS Worktrees

CONSTANTS
  Scouts, NoScout,
  Offered  \* bound: the sets of faults a message may have

VARIABLES
  scout,  \* the command: its place, packet and outcome
  agent,  \* its process group
  last    \* last-message.json of the output directory

scoutVars == <<scout, agent, last>>

\* What can be wrong with a message, in the order it is looked for.
Faults == {"not_json", "missing_key", "too_many", "missing_field", "no_anchor", "empty_card",
           "generic_producer", "no_mdl"}

ASSUME OfferedAssumption == {} \in Offered /\ Offered \subseteq SUBSET Faults

Message   == [by : Scouts, faults : SUBSET Faults]
NoMessage == [by |-> NoScout, faults |-> {}]

ScoutRecord ==
  [at : {"idle", "talking", "leaving", "done", "broken"}, from : {"none", "worktree", "repo"},
   packet : Tree \cup {Absent}, timed_out : BOOLEAN, ok : BOOLEAN, value : Message \cup {NoMessage}]
AgentRecord ==
  [leader : {"none", "up", "exited", "stopped"}, code : {0, 1}, wrote : BOOLEAN,
   child : {"none", "up", "gone"}, deaf : SUBSET {"leader", "child"}, rivals : SUBSET Scouts]

ScoutsOK ==
  /\ scout \in [Scouts -> ScoutRecord]
  /\ agent \in [Scouts -> AgentRecord]
  /\ last \in Message \cup {NoMessage}

ScoutsInit ==
  /\ scout = [s \in Scouts |-> [at |-> "idle", from |-> "none", packet |-> Absent, timed_out |-> FALSE,
                                ok |-> FALSE, value |-> NoMessage]]
  /\ agent = [s \in Scouts |-> [leader |-> "none", code |-> 1, wrote |-> FALSE, child |-> "none",
                                deaf |-> {}, rivals |-> {}]]
  /\ last = NoMessage
-----------------------------------------------------------------------------
Talking(s) == scout[s].at \in {"talking", "leaving"}
\* The scout, or what is left of it, may still write into the output directory.
Lives(s)   == Talking(s) \/ agent[s].leader = "up"

\* The worktree, or without one the checkout as it stands; the packet names the
\* pinned commit in both cases.  The directory may exist, with what is in it.
SourceRoot(c) == IF tree[c] # Absent THEN "worktree" ELSE "repo"

StartScout(s, c) ==
  /\ scout[s].at = "idle"
  /\ scout' = [scout EXCEPT ![s].at = "talking", ![s].from = SourceRoot(c),
                            ![s].packet = IF SourceRoot(c) = "worktree" THEN tree[c] ELSE repo[c]]
  /\ agent' = [t \in Scouts |->
                 IF t = s THEN [agent[s] EXCEPT !.leader = "up", !.child = "up",
                                                !.rivals = {q \in Scouts : Lives(q)}]
                 ELSE IF Lives(t) THEN [agent[t] EXCEPT !.rivals = @ \cup {s}] ELSE agent[t]]
  /\ UNCHANGED last

\* The agent leaves its message before it exits, or exits without one.
AgentWrites(s, faults) ==
  /\ agent[s].leader = "up" /\ ~agent[s].wrote
  /\ last' = [by |-> s, faults |-> faults]
  /\ agent' = [agent EXCEPT ![s].wrote = TRUE]
  /\ UNCHANGED scout

AgentExits(s) ==
  /\ agent[s].leader = "up"
  /\ \E code \in {0, 1} : agent' = [agent EXCEPT ![s].leader = "exited", ![s].code = code]
  /\ UNCHANGED scout /\ UNCHANGED last

Validates(m) == m.faults = {}
\* Mutant: the message counts even when time was up.
AcceptedLate(s) == (scout[s].timed_out \/ agent[s].code = 0) /\ last # NoMessage /\ Validates(last)

Accepted(s) == ~scout[s].timed_out /\ agent[s].code = 0 /\ last # NoMessage /\ Validates(last)

Concludes(s) ==
  scout' = [scout EXCEPT ![s].at = "done", ![s].ok = Accepted(s),
                         ![s].value = IF Accepted(s) THEN last ELSE NoMessage]

Answered(s) ==
  /\ scout[s].at = "talking" /\ agent[s].leader = "exited"
  /\ Concludes(s)
  /\ UNCHANGED agent /\ UNCHANGED last

Signalled(a, deaf) ==
  [a EXCEPT !.leader = IF "leader" \in deaf THEN @ ELSE "stopped",
            !.child  = IF "child" \in deaf THEN @ ELSE "gone",
            !.deaf   = deaf]

TimesOut(s) ==
  /\ scout[s].at = "talking" /\ agent[s].leader = "up"
  /\ scout' = [scout EXCEPT ![s].at = "leaving", ![s].timed_out = TRUE]
  /\ \E deaf \in SUBSET {"leader", "child"} : agent' = [agent EXCEPT ![s] = Signalled(@, deaf)]
  /\ UNCHANGED last

\* The wait ends with the leader; SIGKILL follows only if the leader stays.
Leaves(s) ==
  /\ scout[s].at = "leaving"
  /\ Concludes(s)
  /\ agent' = IF agent[s].leader = "up" THEN [agent EXCEPT ![s] = Signalled(@, {})] ELSE agent
  /\ UNCHANGED last

\* The command is interrupted or killed, while it waits for the agent or stops it:
\* only TimeoutExpired is caught, and the agent has a session of its own.
Broken(s) ==
  /\ Talking(s)
  /\ scout' = [scout EXCEPT ![s].at = "broken"]
  /\ UNCHANGED agent /\ UNCHANGED last

ScoutNext(s) ==
  \/ \E c \in Components : StartScout(s, c)
  \/ \E faults \in Offered : AgentWrites(s, faults)
  \/ AgentExits(s) \/ Answered(s) \/ TimesOut(s) \/ Leaves(s) \/ Broken(s)
=============================================================================
