--------------------------- MODULE SourceTargets ---------------------------
(***************************************************************************)
(* `store.py source-targets': six rules read a checkout of the product and *)
(* propose targets.  A rule reads the queue (and, when it has seeds, the   *)
(* assets), scans the checkout, and writes a file; somebody imports the    *)
(* file later, and the import makes a candidate of every key in it.        *)
(***************************************************************************)
EXTENDS GoSource

CONSTANTS
  Instances,    \* triples of a checkout (a function from paths to files), what
                \* people may do (a set of "meanwhile", "reimport", "overlap")
                \* and --limit
  PathSlug,     \* the slug of a path: lower case, cut at 52 or 64 characters
  NameSlug,     \* the slug of a function name: lower case, cut at 24
  PathRank,     \* the alphabetical order of paths, with or without their suffix
  NameRank,     \* the alphabetical order of function names
  SignalPaths,  \* paths with a fragment that raises the score
  SignalNames,  \* function names that raise the score
  ScreenedPaths, \* TERMINAL_ACTION_SCREENED_PREFIXES and _FRAGMENTS
  PartitionPaths, \* paths with "partition"
  Constructors, \* function names that begin with New, Open, Create, open or create
  Recorded,     \* the seeds' assets that may be recorded
  Scanners      \* processes that run source-targets

\* A checkout has finitely many files, and a file is a sequence of lines.
ASSUME InstancesAssumption ==
  \A instance \in Instances :
    /\ IsFiniteSet(DOMAIN instance[1])
    /\ \A p \in DOMAIN instance[1] : instance[1][p] \in Seq(Lines)
    /\ instance[3] \in Nat

\* An alphabetical order tells any two strings apart.
ASSUME RanksAssumption ==
  /\ \A instance \in Instances : \A p, q \in DOMAIN instance[1] :
       PathRank[p] \in Nat /\ (PathRank[p] = PathRank[q] => p = q)
  /\ \A name \in Names : NameRank[name] \in Nat

ASSUME ReceiversAssumption == IsFiniteSet(Receivers)

Rules == {"identity-token", "state-ingress", "pooled-session-state",
          "user-session-state-restore", "terminal-action-error", "optional-sibling-early-return"}

VARIABLES
  repo,     \* the checkout
  target,   \* the queue: from keys to statuses
  covered,  \* the asset keys in the database, those of the seeds
  scan,     \* the run of each scanner
  habit,    \* what people do in this behaviour
  limit     \* --limit

vars == <<repo, target, covered, scan, habit, limit>>
-----------------------------------------------------------------------------
(* The tables *)

Seed(name, asset, paths) == [name |-> name, asset |-> asset, paths |-> paths]

IdentityTokenSeeds ==
  <<Seed("ddl-owner-epoch-token", "owner-epoch-token-unique-across-handoff",
         {<<"pkg", "ddl", "job_scheduler.go">>, <<"pkg", "ddl", "reorg.go">>, <<"pkg", "ddl", "ddl.go">>}),
    Seed("br-registry-heartbeat-token-precision", "heartbeat-token-precision",
         {<<"br", "pkg", "registry", "registration.go">>, <<"br", "pkg", "registry", "heartbeat.go">>}),
    Seed("br-storewatch-same-second-reboot", "reboot-notified-after-offline-up-same-token",
         {<<"br", "pkg", "utils", "storewatch", "watching.go">>, <<"br", "pkg", "backup", "store.go">>,
          <<"br", "pkg", "restore", "data", "data.go">>}),
    Seed("tiflash-mpp-logical-core-starttimestamp", "logical-core-cache-starttimestamp",
         {<<"pkg", "planner", "core", "optimizer.go">>, <<"pkg", "domain", "infosync", "tiflash_manager.go">>,
          <<"pkg", "store", "copr", "mpp_probe.go">>})>>

StateIngressSeeds ==
  <<Seed("binding-history-executeinternal-txreads", "binding-history-preserves-pending-txreadts",
         {<<"pkg", "planner", "core", "planbuilder.go">>, <<"pkg", "session", "session.go">>}),
    Seed("ddl-foreign-key-use-cur-session-state-ingress", Nil, {<<"pkg", "ddl", "foreign_key.go">>}),
    Seed("executor-user-management-executeinternal-state-ingress", Nil, {<<"pkg", "executor", "simple.go">>}),
    Seed("planner-index-advisor-executeinternal-state-ingress", Nil, {<<"pkg", "planner", "indexadvisor", "utils.go">>})>>

\* Mutant of KnownIngressPaths: the paths of the later seeds are not listed.
KnownIngressPathsOld ==
  {<<"pkg", "planner", "core", "planbuilder.go">>, <<"pkg", "infoschema", "infoschema.go">>}

KnownIngressPaths ==
  {<<"pkg", "planner", "core", "planbuilder.go">>, <<"pkg", "planner", "indexadvisor", "utils.go">>,
   <<"pkg", "ddl", "foreign_key.go">>, <<"pkg", "executor", "simple.go">>,
   <<"pkg", "infoschema", "infoschema.go">>, <<"pkg", "executor", "brie.go">>,
   <<"pkg", "executor", "grant.go">>, <<"pkg", "executor", "revoke.go">>,
   <<"pkg", "infoschema", "issyncer", "syncer.go">>, <<"pkg", "executor", "importer", "job.go">>,
   <<"pkg", "executor", "importer", "precheck.go">>}

UserWrappers == {<<"pkg", "executor">>, <<"pkg", "planner">>, <<"pkg", "infoschema">>}

Background ==
  {<<"br">>, <<"pkg", "session">>, <<"pkg", "store", "gcworker">>, <<"pkg", "ttl">>,
   <<"pkg", "telemetry">>, <<"pkg", "domain">>, <<"pkg", "resourcegroup">>, <<"pkg", "timer">>}

KnownTerminalPaths ==
  {<<"pkg", "dxf", "importinto", "encode_and_sort_operator.go">>, <<"pkg", "objstore", "s3store", "client.go">>,
   <<"br", "pkg", "storage", "s3.go">>}

KnownOptionalFunctions == {<<<<"lightning", "pkg", "importer", "table_import.go">>, "postProcess">>}

In(path, dirs) == \E d \in dirs : IsStrictPrefix(d, path)
-----------------------------------------------------------------------------
(* Keys and candidates *)

SeedKey(seed) == <<"seed", seed.name>>
FileKey(rule, path) == <<rule, PathSlug[path]>>
FunctionKey(rule, path, name) == <<rule, PathSlug[path], NameSlug[name]>>

\* What a candidate about files has for a function.
NoFunction == [name |-> Nil, first |-> 0, last |-> 0]

Candidate(key, paths, fn, score) == [key |-> key, paths |-> paths, fn |-> fn, score |-> score]

\* Rules that append and then compare with the limit yield one at least.
FirstAppended(s) == SubSeq(s, 1, Min({Len(s), Max({limit, 1})}))
FirstLimited(s, n) == SubSeq(s, 1, Min({Len(s), Max({n, 0})}))

\* Mutant of Fresh: a target that exists is proposed again.
FreshAlways(key, known) == TRUE

Fresh(key, known) == key \notin known

\* A seed whose target and whose covering asset are not there and whose sources
\* are, with a marker.
OpenSeed(seed, known, assets) ==
  /\ Fresh(SeedKey(seed), known)
  /\ seed.asset \notin assets
  /\ seed.paths \subseteq DOMAIN repo
  /\ \E p \in seed.paths : Marked(repo[p], "marker")

OpenSeeds(seeds, known, assets) ==
  LET open == Kept(seeds, {seed \in ToSet(seeds) : OpenSeed(seed, known, assets)})
  IN  FirstAppended([n \in DOMAIN open |-> Candidate(SeedKey(open[n]), open[n].paths, NoFunction, 0)])

\* Candidates are sorted by falling score, then by path, function and line.
SortKey(c) ==
  LET path == CHOOSE p \in c.paths : TRUE
  IN  <<-c.score, PathRank[path], IF c.fn = NoFunction THEN 0 ELSE NameRank[c.fn.name], c.fn.first>>

Before(a, b) ==
  \E n \in 1..4 : SortKey(a)[n] < SortKey(b)[n] /\ \A m \in 1..(n - 1) : SortKey(a)[m] = SortKey(b)[m]

Ranked(S) ==
  CHOOSE s \in [1..Cardinality(S) -> S] : \A m, n \in DOMAIN s : m < n => Before(s[m], s[n])
-----------------------------------------------------------------------------
(* classify_state_ingress_ownership, dynamic_state_ingress_candidates *)

LiveHit(path, mark) == \E k \in DOMAIN repo[path] : mark \in repo[path][k].marks /\ "comment" \notin repo[path][k].marks
UseCurSession(path) == LiveHit(path, "UseCurSession")
ExecuteInternal(path) ==
  \E k \in DOMAIN repo[path] :
    "ExecuteInternal" \in repo[path][k].marks /\ "comment" \notin repo[path][k].marks /\ repo[path][k].func = Nil
Isolated(path) == Marked(repo[path], "isolated")
Auxiliary(path) == In(path, {<<"pkg", "executor", "importer">>}) \/ path = <<"pkg", "executor", "brie.go">>

\* A path is proposed when a user statement may run its SQL in the current
\* session: a marker of an isolated session, or restricted SQL, tells nothing
\* against a call that is there.
OwnedByUser(path) ==
  /\ \E m \in {"ExecuteInternal", "ExecRestrictedSQL", "UseCurSession"} : Marked(repo[path], m)
  /\ path \notin KnownIngressPaths
  /\ ~In(path, Background \cup {<<"pkg", "ddl">>})
  /\ \A n \in 2..(Len(path) - 1) : path[n] # "internal"
  /\ In(path, UserWrappers)
  /\ UseCurSession(path) \/ ExecuteInternal(path)

IngressHits(path) == {k \in DOMAIN repo[path] : repo[path][k].marks \cap {"ExecuteInternal", "ExecRestrictedSQL", "UseCurSession"} # {}}

IngressScore(path) ==
  LET points(test, n) == IF test THEN n ELSE 0
  IN  points(In(path, {<<"pkg", "executor">>}), 15) + points(In(path, {<<"pkg", "planner">>}), 12)
      + points(In(path, {<<"pkg", "infoschema">>}), 18) + points(UseCurSession(path), 40)
      + points(ExecuteInternal(path), 12) + points(LiveHit(path, "ExecRestrictedSQL"), 5)
      - points(Auxiliary(path), 12) - points(Isolated(path), 10)
      + Min({Cardinality(IngressHits(path)), 5})

IngressCandidates ==
  {Candidate(FileKey("state-ingress", p), {p}, NoFunction, IngressScore(p)) :
     p \in {q \in DOMAIN repo : OwnedByUser(q)}}

\* Mutant of DynamicIngress: targets that exist count against the limit.
DynamicIngressLimitFirst(known, existing) ==
  Kept(FirstLimited(Ranked(IngressCandidates), limit - existing),
       {c \in IngressCandidates : Fresh(c.key, known)})

\* The seeds count against the limit, and targets that exist do not.
DynamicIngress(known, existing) ==
  FirstLimited(Kept(Ranked(IngressCandidates), {c \in IngressCandidates : Fresh(c.key, known)}),
               limit - existing)

StateIngress(known, assets) ==
  LET seeds == OpenSeeds(StateIngressSeeds, known, assets)
  IN  seeds \o DynamicIngress(known, Len(seeds))
-----------------------------------------------------------------------------
(* The rules that look at files *)

\* Sessions borrowed from the pool whose variables are assigned.
DirtiesPooledSession(path) ==
  \E r \in Receivers : \E i, j \in DOMAIN repo[path] :
    <<"acquire", r>> \in repo[path][i].calls /\ <<"assign", r>> \in repo[path][j].calls

\* An executor switches a variable of the user's session on, and back to the
\* default instead of to the value it had.
ResetsUserSession(path) ==
  /\ ~\E n \in 2..(Len(path) - 1) : path[n] \in {"mock", "coretestsdk"}
  /\ ~(path = <<"pkg", "executor", "simple.go">> /\ Marked(repo[path], "current db"))
  /\ ~(Marked(repo[path], "save") /\ Marked(repo[path], "restore"))
  /\ Marked(repo[path], "reset") /\ Marked(repo[path], "enable")
  /\ In(path, {<<"pkg", "executor">>})

OpenFile(rule, path, known) ==
  /\ IF rule = "pooled-session-state" THEN DirtiesPooledSession(path) ELSE ResetsUserSession(path)
  /\ Fresh(FileKey(rule, path), known)
  /\ Fresh(FileKey("state-ingress", path), known)

FileRule(rule, known, order) ==
  LET open == Kept(order, {path \in DOMAIN repo : OpenFile(rule, path, known)})
  IN  FirstAppended([n \in DOMAIN open |-> Candidate(FileKey(rule, open[n]), {open[n]}, NoFunction, 0)])
-----------------------------------------------------------------------------
(* The rules that look at functions *)

FunctionsOf(path) == ToSet(GoFunctions(repo[path]))

Points(path, name) ==
  (IF path \in SignalPaths THEN 18 ELSE 0) + (IF name \in SignalNames THEN 12 ELSE 0)

TerminalScore(p, fn) ==
  LET body == Body(repo[p], fn)
  IN  40 + 3 * Min({Cardinality(ActiveHits(body)), 8}) + 12 * Cardinality(TerminalGaps(body))
      + 4 * Cardinality(ActiveOwners(body)) + Points(p, fn.name)
      + (IF \E h \in ActiveHits(body) : "commit" \in body[h[1]].marks THEN 8 ELSE 0)

TerminalIn(p, known) ==
  LET key(fn) == FunctionKey("terminal-action-error", p, fn.name)
      found == {fn \in FunctionsOf(p) :
                  /\ fn.name \notin Constructors
                  /\ Cardinality(ActiveOwners(Body(repo[p], fn))) >= 2
                  /\ TerminalGaps(Body(repo[p], fn)) # {}
                  /\ Fresh(key(fn), known)}
  IN  {Candidate(key(fn), {p}, fn, TerminalScore(p, fn)) : fn \in found}

TerminalCandidates(known) ==
  UNION {TerminalIn(p, known) : p \in DOMAIN repo \ (KnownTerminalPaths \cup ScreenedPaths)}

OptionalScore(p, fn) ==
  LET gaps == OptionalGaps(Body(repo[p], fn))
  IN  42 + 12 * Min({Cardinality(gaps), 4}) + (IF p \in SignalPaths THEN 24 ELSE 0)
      + (IF \E k \in gaps : StrongLater(Body(repo[p], fn), k) THEN 12 ELSE 0)

OptionalIn(p, known) ==
  LET key(fn) == FunctionKey("optional-sibling-early-return", p, fn.name)
      found == {fn \in FunctionsOf(p) :
                  /\ <<p, fn.name>> \notin KnownOptionalFunctions
                  /\ OptionalGaps(Body(repo[p], fn)) # {}
                  /\ Fresh(key(fn), known)}
  IN  {Candidate(key(fn), {p}, fn, OptionalScore(p, fn)) : fn \in found}

OptionalCandidates(known) ==
  UNION {OptionalIn(p, known) : p \in DOMAIN repo \ (ScreenedPaths \cup PartitionPaths)}
-----------------------------------------------------------------------------
(* A run of a rule *)

Seeded == {"identity-token", "state-ingress"}
NoScan == [pc |-> "idle", rule |-> Nil, known |-> {}, assets |-> {}, file |-> <<>>]

Busy(s) == scan[s].pc \notin {"idle", "imported"}

ReadTargets(s, rule) ==
  /\ ~Busy(s)
  /\ "overlap" \in habit \/ \A o \in Scanners : ~Busy(o)
  /\ scan' = [scan EXCEPT ![s] = [NoScan EXCEPT !.pc = IF rule \in Seeded THEN "assets" ELSE "scan",
                                                !.rule = rule, !.known = DOMAIN target]]
  /\ UNCHANGED <<target, covered>>

ReadAssets(s) ==
  /\ scan[s].pc = "assets"
  /\ scan' = [scan EXCEPT ![s].pc = "scan", ![s].assets = covered]
  /\ UNCHANGED <<target, covered>>

\* The file system lists the files of a checkout in any order; it tells for the
\* rules that stop at the limit before they have ranked what they found.
Orders(rule) ==
  IF rule \in {"pooled-session-state", "user-session-state-restore"}
  THEN {o \in [1..Cardinality(DOMAIN repo) -> DOMAIN repo] : IsInjective(o)}
  ELSE {<<>>}

Found(rule, known, assets, order) ==
  CASE rule = "identity-token" -> OpenSeeds(IdentityTokenSeeds, known, assets)
    [] rule = "state-ingress" -> StateIngress(known, assets)
    [] rule \in {"pooled-session-state", "user-session-state-restore"} -> FileRule(rule, known, order)
    [] rule = "terminal-action-error" -> FirstLimited(Ranked(TerminalCandidates(known)), limit)
    [] rule = "optional-sibling-early-return" -> FirstLimited(Ranked(OptionalCandidates(known)), limit)

Scan(s) ==
  /\ scan[s].pc = "scan"
  /\ \E order \in Orders(scan[s].rule) :
       scan' = [scan EXCEPT ![s].pc = "written",
                            ![s].file = Found(scan[s].rule, scan[s].known, scan[s].assets, order)]
  /\ UNCHANGED <<target, covered>>

\* import_jsonl: every key of the file is a candidate, whatever it was.  A file
\* that will not be imported again is forgotten.
Import(s) ==
  /\ scan[s].pc = "written" \/ ("reimport" \in habit /\ scan[s].pc = "imported")
  /\ LET keys == {scan[s].file[n].key : n \in DOMAIN scan[s].file}
     IN  target' = [k \in keys \cup DOMAIN target |-> IF k \in keys THEN "candidate" ELSE target[k]]
  /\ scan' = [scan EXCEPT ![s] = IF "reimport" \in habit THEN [@ EXCEPT !.pc = "imported"] ELSE NoScan]
  /\ UNCHANGED covered
-----------------------------------------------------------------------------
(* People *)

Quiet == "meanwhile" \in habit \/ \A s \in Scanners : ~Busy(s)

Settle(k) ==
  /\ Quiet
  /\ k \in DOMAIN target /\ target[k] = "candidate"
  /\ target' = [target EXCEPT ![k] = "retired"]
  /\ UNCHANGED <<covered, scan>>

Cover(a) ==
  /\ Quiet /\ a \notin covered
  /\ covered' = covered \cup {a}
  /\ UNCHANGED <<target, scan>>

Init ==
  /\ \E i \in Instances : repo = i[1] /\ habit = i[2] /\ limit = i[3]
  /\ target = <<>>
  /\ covered = {}
  /\ scan = [s \in Scanners |-> NoScan]

Next ==
  /\ \/ \E s \in Scanners : \/ \E rule \in Rules : ReadTargets(s, rule)
                            \/ ReadAssets(s) \/ Scan(s) \/ Import(s)
     \/ \E k \in DOMAIN target : Settle(k)
     \/ \E a \in Recorded : Cover(a)
  /\ UNCHANGED <<repo, habit, limit>>

Spec == Init /\ [][Next]_vars
-----------------------------------------------------------------------------
(* Properties *)

SeedSeqs == {IdentityTokenSeeds, StateIngressSeeds}
Keys == {SeedKey(seeds[n]) : seeds \in SeedSeqs, n \in 1..4}
        \cup {FileKey(rule, p) : rule \in Rules, p \in DOMAIN PathSlug}
        \cup {FunctionKey(rule, p, name) : rule \in Rules, p \in DOMAIN PathSlug, name \in Names}

TypeOK ==
  /\ \A p \in DOMAIN repo : \A n \in DOMAIN repo[p] : repo[p][n] \in Lines
  /\ DOMAIN target \subseteq Keys
  /\ \A k \in DOMAIN target : target[k] \in {"candidate", "retired"}
  /\ covered \subseteq Recorded
  /\ \A s \in Scanners :
       /\ scan[s].pc \in {"idle", "assets", "scan", "written", "imported"}
       /\ scan[s].rule \in Rules \cup {Nil}
       /\ scan[s].known \subseteq Keys
       /\ \A n \in DOMAIN scan[s].file : scan[s].file[n].key \in Keys
  /\ habit \subseteq {"meanwhile", "reimport"}

\* The functions the rules look into are those of the file, as Go's grammar has
\* them: each is found, and its text is its own from the name to the end.  But a
\* signature of several lines with braces that are closed cuts the text before the
\* body, always; and a body that is closed on its first line takes the text on,
\* and the next function with it if that one starts on the next line.
FunctionsFound ==
  \A p \in DOMAIN repo :
    LET lines == repo[p]
        found == FunctionsOf(p)
        true == TrueFunctions(lines)
    IN  Formatted(lines) /\ ~Swallows(lines) =>
          /\ {fn.first : fn \in found} = {fn.first : fn \in true}
          /\ \A fn \in true : ~OneLiner(lines[fn.first]) =>
               (fn \in found <=> ~CutAtSignature(lines, fn.first))

\* No two candidates of one file are about the same source: the tables of the
\* seeds and of the paths a scan leaves alone agree, for every limit.
OneCandidatePerSource ==
  \A s \in Scanners : scan[s].rule \in Rules \ {"terminal-action-error", "optional-sibling-early-return"} =>
    \A m, n \in DOMAIN scan[s].file : m # n => scan[s].file[m].paths \cap scan[s].file[n].paths = {}

\* When nobody changes the queue between a scan and its import and a file is
\* imported once, an import revives no target and gives no pooled-session or
\* session-restore target to a file that has a state-ingress target.
ImportOnlyAdds ==
  [][habit = {} /\ (\E s \in Scanners : scan[s].pc = "written" /\ scan'[s] = NoScan) =>
       /\ \A k \in DOMAIN target : target'[k] = target[k]
       /\ \A p \in DOMAIN repo, rule \in {"pooled-session-state", "user-session-state-restore"} :
            FileKey("state-ingress", p) \in DOMAIN target /\ FileKey(rule, p) \in DOMAIN target' =>
              FileKey(rule, p) \in DOMAIN target]_vars

\* The keys of everything a rule has to propose of the checkout, whatever targets
\* there are but the state-ingress targets that stand for a file.
Wanted(rule, known, assets) ==
  LET seeds(q) == {SeedKey(seed) : seed \in {x \in ToSet(q) :
                     /\ x.asset \notin assets /\ x.paths \subseteq DOMAIN repo
                     /\ \E p \in x.paths : Marked(repo[p], "marker")}}
      keys(P) == {FileKey(rule, p) : p \in P}
      free == {p \in DOMAIN repo : FileKey("state-ingress", p) \notin known}
  IN  CASE rule = "identity-token" -> seeds(IdentityTokenSeeds)
        [] rule = "state-ingress" ->
             seeds(StateIngressSeeds) \cup keys({p \in DOMAIN repo : OwnedByUser(p)})
        [] rule = "pooled-session-state" -> keys({p \in free : DirtiesPooledSession(p)})
        [] rule = "user-session-state-restore" -> keys({p \in free : ResetsUserSession(p)})
        [] rule = "terminal-action-error" -> {c.key : c \in TerminalCandidates({})}
        [] rule = "optional-sibling-early-return" -> {c.key : c \in OptionalCandidates({})}

\* A rule that is run again comes to what it has not proposed yet: when nobody
\* interferes, an import leaves no key without a target that the rule wants, or the
\* limit was reached and one of those keys has its target now.  (Functions of one
\* key, two methods of a name or names cut alike, share one target.)
NothingHeldBack ==
  [][habit = {} /\ limit > 0 =>
       \A s \in Scanners : scan[s].pc = "written" /\ scan'[s] = NoScan =>
         LET open == Wanted(scan[s].rule, DOMAIN target, scan[s].assets) \ DOMAIN target
         IN  \/ open \subseteq DOMAIN target'
             \/ Len(scan[s].file) >= limit /\ open \cap DOMAIN target' # {}]_vars
=============================================================================
