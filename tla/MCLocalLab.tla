----------------------------- MODULE MCLocalLab -----------------------------
(* Two test runs with a worktree and a binary, or one while the binary is built
   again, or two scouts, for LocalLab. *)
EXTENDS LocalLab

CONSTANTS r1, r2, s1, s2

Plan(commands, trees, waits) == [commands |-> commands, trees |-> trees, waits |-> waits]
MCPlans == {Plan({r1, r2}, 2, TRUE), Plan({r1}, 4, FALSE), Plan({s1, s2}, 0, FALSE), Plan({s1}, 2, FALSE)}
=============================================================================
