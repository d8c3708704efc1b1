----------------------------- MODULE FileImport -----------------------------
(***************************************************************************)
(* What importing a whole file into a database means, without the order in *)
(* which its lines are executed: when a file is acceptable, and the        *)
(* database that results.  The order of lines counts only where two of     *)
(* them speak of the same key.                                             *)
(***************************************************************************)
EXTENDS StoreSchema

Lines(f, kind) == {n \in DOMAIN f : f[n].kind = kind}
About(f, kind, k) == {n \in Lines(f, kind) : f[n].key = k}

\* Of the lines about a key the last one counts.
Last(f, S) == f[CHOOSE n \in S : \A m \in S : m <= n]
First(f, S) == f[CHOOSE n \in S : \A m \in S : n <= m]

\* The assets a file may refer to: those of the database and its own, wherever
\* in the file they are.
Available(d, f) == {k \in AssetKeys : Known(d, k) \/ About(f, "asset", k) # {}}

Acceptable(d, f) ==
  /\ Lines(f, "other") = {}
  /\ \A n \in Lines(f, "asset") : f[n].body \in ValidBodies
  /\ \A n \in Lines(f, "target") : f[n].row \in ValidRows
  /\ \A n \in Lines(f, "link") : {f[n].source, f[n].target} \subseteq Available(d, f)
  /\ \A n \in Lines(f, "run") :
       /\ f[n].verdict \in Verdicts
       /\ {u[1] : u \in UsedIn(f[n])} \subseteq Available(d, f)
       /\ ~RepeatsUse(f[n])
  /\ \A k \in RunKeys :
       d.run[k] = Nil /\ About(f, "run", k) # {} =>
         First(f, About(f, "run", k)).obligation \in Available(d, f)

Result(d, f) ==
  [asset    |-> [k \in AssetKeys |->
                   IF About(f, "asset", k) = {} THEN d.asset[k] ELSE Last(f, About(f, "asset", k)).body],
   revision |-> d.revision \cup {<<f[n].key, f[n].body>> : n \in Lines(f, "asset")},
   link     |-> d.link \cup {<<f[n].source, f[n].target, f[n].relation>> : n \in Lines(f, "link")},
   run      |-> [k \in RunKeys |->
                   LET S == About(f, "run", k)
                   IN  IF S = {} THEN d.run[k]
                       ELSE [obligation |-> IF d.run[k] = Nil THEN First(f, S).obligation
                                                              ELSE d.run[k].obligation,
                             verdict |-> Last(f, S).verdict]],
   used     |-> {u \in d.used : About(f, "run", u[1]) = {}}
                \cup UNION {{<<k, u[1], u[2]>> : u \in UsedIn(Last(f, About(f, "run", k)))} :
                              k \in {x \in RunKeys : About(f, "run", x) # {}}},
   target   |-> [k \in TargetKeys |->
                   IF About(f, "target", k) = {} THEN d.target[k] ELSE Last(f, About(f, "target", k)).row]]
=============================================================================
