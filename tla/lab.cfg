SPECIFICATION FairSpec
CONSTANTS
  r1 = r1 r2 = r2 s1 = s1 s2 = s2
  None = None NoScout = NoScout
  Checkouts = {"other"}
  Offered = {{}, {"no_mdl"}}
  Runs = {r1, r2}
  Scouts = {s1, s2}
  Plans <- MCPlans
INVARIANTS NothingRunsOn VerdictIsOfPin ScoutAnswerIsOwn PacketIsOfPin
PROPERTY CommandsEnd
CHECK_DEADLOCK FALSE
