---------------------------- MODULE MCAssetStore ----------------------------
(* Small instances of AssetStore: two assets, two runs, one target. *)
EXTENDS AssetStore, Functions

CONSTANTS a1, a2, b1, b2, bad, run1, t1, row1, row2, owner, uses

Asset(k, b) == [kind |-> "asset", key |-> k, body |-> b]
Link(s, t) == [kind |-> "link", source |-> s, target |-> t, relation |-> uses]
Run(k, o, v, u) == [kind |-> "run", key |-> k, obligation |-> o, verdict |-> v, used |-> u]
Target(k, r) == [kind |-> "target", key |-> k, row |-> r]

UpTo(S, n) == UNION {[1..m -> S] : m \in 0..n}

\* Every file of up to two lines about the same keys (two assets, a link between
\* them, a run under either obligation), and every order of a run or a link and
\* the two assets it names.
OrderLines ==
  {Asset(a1, b1), Asset(a1, b2), Asset(a2, b1), Link(a1, a2),
   Run(run1, a1, "RED", <<<<a1, owner>>>>), Run(run1, a2, "GREEN", <<<<a2, owner>>>>)}
OrderFiles ==
  UpTo(OrderLines, 2) \cup
  {f \in [1..3 -> {Asset(a1, b1), Asset(a2, b1), Link(a1, a2), Run(run1, a2, "GREEN", <<<<a2, owner>>>>)}] :
     IsInjective(f) /\ {Asset(a1, b1), Asset(a2, b1)} \subseteq {f[n] : n \in 1..3}}

\* Files with every reason to be rejected, and a long one.
MixedFiles ==
  {<<>>,
   <<Run(run1, a1, "RED", <<<<a1, owner>>, <<a2, uses>>>>), Link(a2, a1), Asset(a2, b1), Target(t1, row1), Asset(a1, b1)>>,
   <<Asset(a1, b2), Target(t1, row2), Run(run1, a2, "GREEN", << >>)>>,
   <<Asset(a2, b2), Run(run1, a2, "INFO", <<<<a2, owner>>, <<a2, owner>>>>)>>,
   <<Asset(a1, b1), Asset(a2, bad)>>,
   <<Asset(a2, b2), Run(run1, a2, "UNKNOWN", << >>)>>,
   <<Target(t1, bad), Asset(a1, b1)>>,
   <<Asset(a1, b2), [kind |-> "other"], Asset(a2, b2)>>}

AllFiles == OrderFiles \cup MixedFiles
=============================================================================
