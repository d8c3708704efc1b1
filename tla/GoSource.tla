------------------------------ MODULE GoSource ------------------------------
(***************************************************************************)
(* What the source-target rules of store.py see of a Go file.  A file is a *)
(* sequence of lines; of a line the rules see the braces it opens and      *)
(* closes, the function that starts on it, the patterns it matches         *)
(* ("marks") and the calls and assignments they name with the receiver     *)
(* ("calls").  What Go's grammar says of the line ("syntax") no rule sees: *)
(* it is there to compare with.  Braces in strings and in comments, and    *)
(* generic functions, whose name func_pattern does not match, are not      *)
(* modelled.  A path is the sequence of its components.                    *)
(***************************************************************************)
EXTENDS Integers, SequencesExt, FiniteSetsExt

CONSTANTS Names, Receivers, Nil

ASSUME NilAssumption == Nil \notin Names

Marks == {"comment", "err", "return", "ok", "ignored", "defer", "defer func",
          "if", "toggle", "action", "UseCurSession", "ExecuteInternal",
          "ExecRestrictedSQL", "isolated", "save", "restore", "reset", "enable",
          "current db", "marker", "commit", "strong"}
Calls == {"terminal", "acquire", "assign"} \X Receivers

\* The body of a function opens on the line; a function ends on it.
Syntax == {"body", "end"}

Lines == [open : Nat, close : Nat, func : Names \cup {Nil}, marks : SUBSET Marks, calls : SUBSET Calls,
          syntax : SUBSET Syntax]

\* The braces lines i to j leave open.
Depth(lines, i, j) ==
  LET sum[k \in (i - 1)..j] == IF k < i THEN 0 ELSE sum[k - 1] + lines[k].open - lines[k].close
  IN  sum[j]

Opened(lines, i, j) == \E k \in i..j : lines[k].open > 0

\* Some line matches a pattern.
Marked(lines, mark) == \E k \in DOMAIN lines : mark \in lines[k].marks
-----------------------------------------------------------------------------
(* Sequences *)

\* What a sequence has of a set, in its order.
Kept(s, S) ==
  LET places == {k \in DOMAIN s : s[k] \in S}
      place == CHOOSE f \in [1..Cardinality(places) -> places] : \A m, n \in DOMAIN f : m < n => f[m] < f[n]
  IN  [n \in DOMAIN place |-> s[place[n]]]
-----------------------------------------------------------------------------
(* iter_go_functions *)

\* Mutant of Ends: the brace of the function is not counted.
EndsEarly(lines, i) ==
  {j \in (i + 1)..Len(lines) : Opened(lines, i, j) /\ Depth(lines, i, j) <= 1}

\* Where the function that starts on line i may end: never on that line.
Ends(lines, i) ==
  {j \in (i + 1)..Len(lines) : Opened(lines, i, j) /\ Depth(lines, i, j) <= 0}

\* How far the text of a function goes whose end is not found.
FallbackLines == 80

LastLine(lines, i) ==
  IF Ends(lines, i) = {} THEN Min({i + FallbackLines, Len(lines)}) ELSE Min(Ends(lines, i))

\* The functions of a file: the search goes on after the end of the one before,
\* and stops when an end is not found.
GoFunctions(lines) ==
  LET n == Len(lines)
      from[i \in 1..(n + 1)] ==
        IF i > n THEN <<>>
        ELSE IF lines[i].func = Nil THEN from[i + 1]
        ELSE <<[name |-> lines[i].func, first |-> i, last |-> LastLine(lines, i)]>>
             \o from[IF Ends(lines, i) = {} THEN n + 1 ELSE LastLine(lines, i) + 1]
  IN  from[1]

Body(lines, fn) == SubSeq(lines, fn.first, fn.last)
-----------------------------------------------------------------------------
(* source_targets_terminal_action_error *)

\* Whether a line is in a defer block, by the braces since the `defer func'.
Deferred(body) ==
  LET left[k \in 0..Len(body)] ==
        IF k = 0 THEN 0
        ELSE LET net == body[k].open - body[k].close
             IN  CASE left[k - 1] > 0 -> Max({left[k - 1] + net, 0})
                   [] left[k - 1] = 0 /\ "defer func" \in body[k].marks -> Max({net, 0})
                   [] OTHER -> 0
  IN  {k \in DOMAIN body : left[k - 1] > 0 \/ "defer" \in body[k].marks}

\* The terminal calls of a function as <<line, receiver>>; active ones run where
\* they stand and their result is used.
TerminalHits(body) == {h \in (DOMAIN body) \X Receivers : <<"terminal", h[2]>> \in body[h[1]].calls}
ActiveHits(body) ==
  {h \in TerminalHits(body) : h[1] \notin Deferred(body) /\ "ignored" \notin body[h[1]].marks}

\* The line that returns the error of a call: one of the next five.
ErrorReturns(body, k) == {j \in k..Min({k + 4, Len(body)}) : {"return", "err"} \subseteq body[j].marks}

\* A call whose error returns before a call of another owner.
TerminalGaps(body) ==
  {h \in ActiveHits(body) :
     /\ body[h[1]].marks \cap {"err", "return"} # {}
     /\ ErrorReturns(body, h[1]) # {}
     /\ \E later \in ActiveHits(body) :
          later[1] > Min(ErrorReturns(body, h[1])) /\ later[2] # h[2]}

ActiveOwners(body) == {h[2] : h \in ActiveHits(body)}
-----------------------------------------------------------------------------
(* source_targets_optional_sibling_early_return *)

\* The line that opens the block of the `if' on line k, within eight lines.
HeaderEnds(body, k) == {h \in k..Min({k + 8, Len(body)}) : body[h].open > 0}

BlockEnd(body, h) ==
  LET ends == {c \in h..Len(body) : Depth(body, h, c) <= 0}
  IN  IF ends = {} THEN h ELSE Min(ends)

\* The actions left after the block.
LaterActions(body, e) ==
  {i \in (e + 1)..Len(body) : "action" \in body[i].marks /\ "comment" \notin body[i].marks}

StrongLater(body, k) ==
  \E i \in LaterActions(body, BlockEnd(body, Min(HeaderEnds(body, k)))) : "strong" \in body[i].marks

\* The ifs of the function itself whose condition names an option, which return
\* with success, and after which an action is left that is not optional.
OptionalGaps(body) ==
  {k \in DOMAIN body :
     /\ "if" \in body[k].marks
     /\ Depth(body, 1, k - 1) = 1
     /\ HeaderEnds(body, k) # {}
     /\ LET head == Min(HeaderEnds(body, k))
            e == BlockEnd(body, head)
        IN  /\ \E i \in k..head : "toggle" \in body[i].marks
            /\ \E i \in (head + 1)..e : Depth(body, head, i - 1) = 1 /\ "ok" \in body[i].marks
            /\ LaterActions(body, e) # {}}
-----------------------------------------------------------------------------
(* What the parsing is good for *)

\* Where the body opens, and where the function ends, of the name on line i.
BodyLine(lines, i) == Min({j \in i..Len(lines) : "body" \in lines[j].syntax})
EndLine(lines, i) == Min({j \in i..Len(lines) : "end" \in lines[j].syntax})

\* The functions of a file as Go has them.
TrueFunctions(lines) ==
  {[name |-> lines[i].func, first |-> i, last |-> EndLine(lines, i)] :
     i \in {k \in DOMAIN lines : lines[k].func # Nil}}

\* The function on line i has its body from line b to line e: the brace that opens
\* on b is closed on e and not before.  The signature is on lines i to b, and its
\* types may have braces too.
Spans(lines, i, b, e) ==
  /\ \A j \in i..e : ("body" \in lines[j].syntax <=> j = b) /\ ("end" \in lines[j].syntax <=> j = e)
  /\ \A j \in (i + 1)..e : lines[j].func = Nil
  /\ lines[b].open > 0
  /\ \A j \in b..(e - 1) : Depth(lines, i, j) > 0
  /\ Depth(lines, i, e) = 0

\* A file gofmt may write: braces are balanced, and functions stand at the top and
\* have a body (that of a function in assembly is elsewhere).
Formatted(lines) ==
  /\ \A i \in 1..Len(lines) : Depth(lines, 1, i) >= 0
  /\ Depth(lines, 1, Len(lines)) = 0
  /\ \A i \in DOMAIN lines : lines[i].func # Nil =>
       /\ Depth(lines, 1, i - 1) = 0
       /\ \E b \in i..Len(lines) : \E e \in b..Len(lines) : Spans(lines, i, b, e)

\* A function whose body is closed on the line of its name: its text goes on to
\* the next line, and swallows the function that starts there.
OneLiner(line) == line.func # Nil /\ Syntax \subseteq line.syntax

Swallows(lines) == \E i \in 1..(Len(lines) - 1) : OneLiner(lines[i]) /\ lines[i + 1].func # Nil

\* A signature of several lines in which braces are closed before the body opens,
\* as those of interface{} are: its text ends there.
CutAtSignature(lines, i) ==
  \E j \in (i + 1)..(BodyLine(lines, i) - 1) : Opened(lines, i, j) /\ Depth(lines, i, j) = 0
=============================================================================
