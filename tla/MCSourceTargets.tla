-------------------------- MODULE MCSourceTargets --------------------------
(* Small checkouts for SourceTargets. *)
EXTENDS SourceTargets

CONSTANTS f, g, h, r1, r2

L(open, close, marks, calls) ==
  [open |-> open, close |-> close, func |-> Nil, marks |-> marks, calls |-> calls, syntax |-> {}]
Name(name, open, close, syntax) == [L(open, close, {}, {}) EXCEPT !.func = name, !.syntax = syntax]
Func(name) == Name(name, 1, 0, {"body"})
Empty(name) == Name(name, 1, 1, {"body", "end"})
Signature(name) == Name(name, 0, 0, {})
Opens == [L(1, 0, {}, {}) EXCEPT !.syntax = {"body"}]
Plain == L(0, 0, {}, {})
Close == L(0, 1, {}, {})
Pair == L(1, 1, {}, {})
End == [Close EXCEPT !.syntax = {"end"}]
Mark(marks) == L(0, 0, marks, {})
Call(r) == L(0, 0, {}, {<<"terminal", r>>})
If(marks) == L(1, 0, {"if"} \cup marks, {})
Try(r) == L(1, 0, {"if", "err"}, {<<"terminal", r>>})

UpTo(S, n) == UNION {[1..m -> S] : m \in 0..n}

\* Every formatted file of up to four lines, and every function of up to six whose
\* signature takes several: a line of it may have interface{}, or open a type and
\* close it.
Skeletons == {s \in UpTo({Func(f), Empty(g), Signature(g), Opens, Plain, If({}), Pair, Close, End}, 4) : Formatted(s)}
Signatures ==
  {s \in {<<x>> \o y \o <<End>> : x \in {Signature(f), Name(f, 1, 1, {}), Name(f, 1, 0, {})},
                               y \in UpTo({Plain, Pair, If({}), Close, Opens, [Pair EXCEPT !.syntax = {"body"}]}, 4)} : Formatted(s)}

\* Functions with and without the shapes the rules look for.
Gap(name) == <<Func(name), Try(r1), Mark({"return", "err"}), Close, Call(r2), End>>
SameOwner(name) == <<Func(name), Try(r1), Mark({"return", "err"}), Close, Call(r1), End>>
InDefer(name) == <<Func(name), L(1, 0, {"defer", "defer func"}, {}), Try(r1), Mark({"return", "err"}), Close, Call(r2), Close, End>>
Optional(name) == <<Func(name), If({"toggle"}), Mark({"ok"}), Close, Mark({"action", "strong"}), End>>
Nested(name) == <<Func(name), If({}), If({"toggle"}), Mark({"ok"}), Close, Close, Mark({"action"}), End>>

Session == <<Func(f), Mark({"ExecuteInternal"}), L(0, 0, {}, {<<"acquire", r1>>}), L(0, 0, {"enable"}, {<<"assign", r1>>}), Mark({"reset"}), End>>
Seeded1 == <<Func(f), Mark({"marker", "ExecuteInternal"}), End>>

simple == <<"pkg", "executor", "simple.go">>
advisor == <<"pkg", "planner", "indexadvisor", "utils.go">>
foreign == <<"pkg", "ddl", "foreign_key.go">>
importer == <<"pkg", "executor", "importer", "table.go">>
analyze == <<"pkg", "executor", "analyze.go">>
helper == <<"pkg", "planner", "internal", "helper.go">>
writer == <<"pkg", "lightning", "writer.go">>
registration == <<"br", "pkg", "registry", "registration.go">>
heartbeat == <<"br", "pkg", "registry", "heartbeat.go">>
AllPaths == {simple, advisor, foreign, importer, analyze, helper, writer, registration, heartbeat}

MCPathSlug == [p \in AllPaths |-> p]
MCNameSlug == [n \in {f, g, h} |-> IF n = h THEN g ELSE n]
MCPathRank ==
  LET order == <<registration, heartbeat, foreign, analyze, importer, simple, writer, advisor, helper>>
  IN  [p \in AllPaths |-> CHOOSE n \in DOMAIN order : order[n] = p]
MCNameRank == [n \in {f, g, h} |-> CHOOSE k \in 1..3 : <<f, g, h>>[k] = n]

Checkouts ==
  {(simple :> Seeded1) @@ (analyze :> Session),
   (foreign :> Seeded1) @@ (advisor :> Seeded1) @@ (helper :> Session),
   (analyze :> Session) @@ (importer :> Session),
   (registration :> Seeded1) @@ (heartbeat :> <<Plain>>) @@ (writer :> Gap(f) \o Gap(g)),
   (writer :> Gap(g) \o Gap(h) \o SameOwner(f)) @@ (registration :> InDefer(f) \o Nested(g)),
   (writer :> Optional(g) \o <<Empty(f)>> \o Optional(h))}

MCInstances ==
  (Checkouts \X {{}} \X {0, 1})
  \cup ({(simple :> Seeded1) @@ (analyze :> Session), (analyze :> Session) @@ (importer :> Session)} \X {{}} \X {3})
  \cup ({(analyze :> Session), (writer :> Gap(f) \o Gap(g))} \X {{"meanwhile"}, {"reimport"}} \X {1})
  \cup ({writer :> s : s \in Skeletons \cup Signatures} \X {{}} \X {0})
=============================================================================
