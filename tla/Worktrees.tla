----------------------------- MODULE Worktrees -----------------------------
(***************************************************************************)
(* The pinned worktrees of an experiment and the TiKV binary built in one  *)
(* of them (tools/txnlab/workspace.py and the build part of local.py).     *)
(* The commands of txnlab run beside a developer who checks out another    *)
(* commit or edits a file.  A tree is the pin, the pin with uncommitted    *)
(* edits, or some other commit; a binary is what the tree was when make    *)
(* ran, and tells only the commit.                                         *)
(***************************************************************************)
EXTENDS Naturals

CONSTANT Checkouts  \* bound: what the checkouts the pins name may stand at

VARIABLES
  tree,     \* the worktree of each component
  repo,     \* the checkout each source pin names, with its own HEAD
  binary,   \* what make left in the TiKV worktree
  builder,  \* the build command: "idle", "checked", "made"
  touched,  \* a developer was at a worktree
  left      \* bound: the commands about worktrees that may still be given

treeVars == <<tree, repo, binary, builder, touched, left>>

Components == {"tidb", "tikv"}
Tree   == {"pin", "edited", "other"}
Absent == "none"
TellsPin(t) == t \in {"pin", "edited"}

ASSUME CheckoutsAssumption == Checkouts \subseteq Tree

TreesOK ==
  /\ tree \in [Components -> Tree \cup {Absent}]
  /\ repo \in [Components -> Tree]
  /\ binary \in Tree \cup {Absent}
  /\ builder \in {"idle", "checked", "made"}
  /\ touched \in BOOLEAN /\ left \in Nat

TreesInit ==
  /\ tree = [c \in Components |-> Absent]
  /\ repo \in [Components -> Checkouts]
  /\ binary = Absent
  /\ builder = "idle"
  /\ touched = FALSE

Given == left > 0 /\ left' = left - 1
-----------------------------------------------------------------------------
\* Mutant: git worktree add without the commit takes the HEAD of the checkout.
WorktreeAddedAtHead(c) == repo[c]

\* A worktree that exists must be at the pin, whatever its edits; the others are
\* added, in the order of their names up to the first that is refused.
WorktreeAdded(c) == "pin"
UpTo(c) == IF c = "tidb" THEN {"tidb"} ELSE Components

PrepareWorktrees ==
  /\ Given
  /\ tree' = [c \in Components |->
                IF tree[c] = Absent /\ \A b \in UpTo(c) : tree[b] # "other" THEN WorktreeAdded(c) ELSE tree[c]]
  /\ UNCHANGED <<repo, binary, builder, touched>>

\* --force: edits and the binary go with the tree.
RemoveWorktrees ==
  /\ Given
  /\ tree' = [c \in Components |-> Absent]
  /\ binary' = Absent
  /\ UNCHANGED <<repo, builder, touched>>

Touch(c) ==
  /\ Given /\ tree[c] # Absent
  /\ \E t \in Tree \ {tree[c]} : tree' = [tree EXCEPT ![c] = t]
  /\ touched' = TRUE
  /\ UNCHANGED <<repo, binary, builder>>

\* HEAD is compared with the pin, then make runs, then the commit the binary
\* tells is compared again; each failure raises and leaves what is there.
BuildCheck ==
  /\ Given
  /\ builder = "idle" /\ TellsPin(tree["tikv"])
  /\ builder' = "checked"
  /\ UNCHANGED <<tree, repo, binary, touched>>

BuildMake ==
  /\ builder = "checked"
  /\ \/ tree["tikv"] # Absent /\ binary' = tree["tikv"] /\ builder' = "made"
     \/ builder' = "idle" /\ UNCHANGED binary
  /\ UNCHANGED <<tree, repo, touched, left>>

BuildVerify ==
  /\ builder = "made"
  /\ builder' = "idle"
  /\ UNCHANGED <<tree, repo, binary, touched, left>>

TreesNext ==
  \/ PrepareWorktrees \/ RemoveWorktrees
  \/ BuildCheck \/ BuildMake \/ BuildVerify
  \/ \E c \in Components : Touch(c)
=============================================================================
