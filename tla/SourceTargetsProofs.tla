------------------------ MODULE SourceTargetsProofs ------------------------
(***************************************************************************)
(* Theorems about SourceTargets, for checkouts of any size, files of any   *)
(* length and any limit: what the brace counter finds of a formatted file, *)
(* no two candidates of a file share a source, what a rule writes is new   *)
(* to the queue it has read, and nothing the rule wants is held back.      *)
(***************************************************************************)
EXTENDS SourceTargets, FiniteSetTheorems, WellFoundedInduction, TLAPS
-----------------------------------------------------------------------------
(* Numbers *)

\* A set of numbers has a least element.
LEMMA Least ==
  ASSUME NEW T \in SUBSET Nat, T # {}
  PROVE  \E x \in T : \A y \in T : x <= y
<1> DEFINE R == {p \in Nat \X Nat : p[1] < p[2]}
<1>1. R = OpToRel(<, Nat)  BY DEF OpToRel
<1>2. IsWellFoundedOn(R, Nat)  BY <1>1, NatLessThanWellFounded
<1>3. \A x, y \in Nat : <<y, x>> \notin R => x <= y  OBVIOUS
<1> HIDE DEF R
<1>4. \E x \in T : \A y \in T : <<y, x>> \notin R  BY <1>2, WFMin
<1> QED  BY <1>3, <1>4

\* What holds of 0 and of each number after one of which it holds, up to n, holds of n:
\* T are the numbers of which it does not hold.
LEMMA UpTo ==
  ASSUME NEW n \in Nat, NEW T, 0 \notin T, \A m \in 1..n : m - 1 \notin T => m \notin T
  PROVE  n \notin T
<1> DEFINE S == T \cap (0..n)
<1>1. CASE S = {}  BY <1>1
<1>2. CASE S # {}
  <2>1. S \in SUBSET Nat  OBVIOUS
  <2> HIDE DEF S
  <2>2. PICK m \in S : \A y \in S : m <= y  BY <1>2, <2>1, Least
  <2> USE DEF S
  <2>3. m \in 1..n /\ m - 1 \in 0..n  OBVIOUS
  <2>4. m - 1 \notin T  BY <2>2, <2>3
  <2> QED  BY <2>3, <2>4
<1> QED  BY <1>1, <1>2

\* The minimum of a set of numbers.
LEMMA MinIs ==
  ASSUME NEW S \in SUBSET Nat, S # {}
  PROVE  Min(S) \in S /\ \A y \in S : Min(S) <= y
<1>1. \E x \in S : \A y \in S : x <= y  BY Least
<1> QED  BY <1>1 DEF Min

\* The least of two sets with the same elements.
LEMMA MinOfSame ==
  ASSUME NEW S \in SUBSET Nat, NEW x \in S, \A y \in S : x <= y
  PROVE  Min(S) = x
<1> DEFINE m == Min(S)
<1>1. m \in S /\ m <= x  BY MinIs
<1> HIDE DEF m
<1>2. m \in Nat /\ x \in Nat /\ x <= m  BY <1>1
<1>3. m = x  BY <1>1, <1>2
<1> QED  BY <1>3 DEF m
-----------------------------------------------------------------------------
(* Order *)

\* What FiniteSetTheorems says of images, for a function.
LEMMA FiniteImage ==
  ASSUME NEW S, IsFiniteSet(S), NEW f
  PROVE  IsFiniteSet({f[x] : x \in S})
<1> DEFINE T == {f[x] : x \in S}
           g == [x \in S |-> f[x]]
<1>1. g \in [S -> T]  OBVIOUS
<1>2. \A y \in T : \E x \in S : g[x] = y  OBVIOUS
<1>3. g \in Surjection(S, T)  BY <1>1, <1>2 DEF Surjection
<1> HIDE DEF g, T
<1>4. IsFiniteSet(T)  BY <1>3, FS_Surjection
<1> QED  BY <1>4 DEF T

\* Adding to a finite set makes it larger.
LEMMA MoreElements ==
  ASSUME NEW S, IsFiniteSet(S), NEW T \in SUBSET S, NEW x \in S, x \notin T
  PROVE  Cardinality(T) \in Nat /\ Cardinality(S) \in Nat /\ Cardinality(T) + 1 <= Cardinality(S)
<1>1. IsFiniteSet(T) /\ Cardinality(T) <= Cardinality(S) /\ (Cardinality(S) = Cardinality(T) => S = T)
  BY FS_Subset
<1>2. Cardinality(T) \in Nat /\ Cardinality(S) \in Nat  BY <1>1, FS_CardinalityType
<1>3. Cardinality(S) # Cardinality(T)  BY <1>1
<1> QED  BY <1>1, <1>2, <1>3

\* R orders S.
IsOrder(S, R) ==
  /\ \A x \in S : <<x, x>> \notin R
  /\ \A x, y, z \in S : <<x, y>> \in R /\ <<y, z>> \in R => <<x, z>> \in R
  /\ \A x, y \in S : x # y => <<x, y>> \in R \/ <<y, x>> \in R

\* A finite ordered set can be enumerated in its order: the place of a member is one more
\* than the number of those before it.
LEMMA EnumerationExists ==
  ASSUME NEW S, IsFiniteSet(S), NEW R, IsOrder(S, R)
  PROVE  \E e \in [1..Cardinality(S) -> S] : \A m, n \in 1..Cardinality(S) : m < n => <<e[m], e[n]>> \in R
<1> DEFINE C == Cardinality(S)
           Less(c) == {d \in S : <<d, c>> \in R}
           rank == [c \in S |-> Cardinality(Less(c)) + 1]
<1>1. C \in Nat  BY FS_CardinalityType
<1>2. \A c \in S : Less(c) \in SUBSET S /\ c \notin Less(c) /\ IsFiniteSet(Less(c))
  BY FS_Subset DEF IsOrder
<1> HIDE DEF Less
<1>3. ASSUME NEW c \in S  PROVE rank[c] \in 1..C /\ rank[c] = Cardinality(Less(c)) + 1
  <2>1. Cardinality(Less(c)) \in Nat /\ Cardinality(Less(c)) + 1 <= C  BY <1>2, MoreElements
  <2> QED  BY <1>1, <2>1
<1>4. ASSUME NEW c \in S, NEW d \in S, <<c, d>> \in R  PROVE rank[c] < rank[d]
  <2>1. Less(c) \in SUBSET Less(d) /\ c \in Less(d)  BY <1>4 DEF IsOrder, Less
  <2>2. /\ Cardinality(Less(c)) \in Nat /\ Cardinality(Less(d)) \in Nat
        /\ Cardinality(Less(c)) + 1 <= Cardinality(Less(d))
    BY <1>2, <2>1, MoreElements
  <2> QED  BY <1>3, <2>2
<1>5. rank \in [S -> 1..C]  BY <1>3
<1> HIDE DEF rank
<1>6. \A c, d \in S : rank[c] = rank[d] => c = d
  <2> SUFFICES ASSUME NEW c \in S, NEW d \in S, rank[c] = rank[d], c # d  PROVE FALSE  OBVIOUS
  <2>1. rank[c] < rank[d] \/ rank[d] < rank[c]  BY <1>4 DEF IsOrder
  <2>2. rank[c] \in Nat /\ rank[d] \in Nat  BY <1>3
  <2> QED  BY <2>1, <2>2
<1>7. rank \in Injection(S, 1..C)  BY <1>5, <1>6 DEF Injection, IsInjective
<1>8. IsFiniteSet(1..C) /\ Cardinality(1..C) = C
  <2>1. IsFiniteSet(1..C) /\ Cardinality(1..C) = IF 1 > C THEN 0 ELSE C - 1 + 1
    BY <1>1, FS_Interval
  <2> QED  BY <1>1, <2>1
<1>9. rank \in Surjection(S, 1..C)  BY <1>7, <1>8, FS_Injection
<1>10. \A n \in 1..C : \E c \in S : rank[c] = n  BY <1>9 DEF Surjection
<1> DEFINE e == [n \in 1..C |-> CHOOSE c \in S : rank[c] = n]
<1>11. \A n \in 1..C : e[n] \in S /\ rank[e[n]] = n  BY <1>10
<1>12. e \in [1..C -> S]  BY <1>11
<1> HIDE DEF e
<1>13. ASSUME NEW m \in 1..C, NEW n \in 1..C, m < n  PROVE <<e[m], e[n]>> \in R
  <2>1. e[m] # e[n]  BY <1>11, <1>13
  <2>2. <<e[m], e[n]>> \in R \/ <<e[n], e[m]>> \in R  BY <1>11, <2>1 DEF IsOrder
  <2>3. <<e[n], e[m]>> \in R => n < m
    <3>1. <<e[n], e[m]>> \in R => rank[e[n]] < rank[e[m]]  BY <1>4, <1>11
    <3> QED  BY <1>11, <3>1
  <2>4. ~(n < m)  BY <1>13
  <2> QED  BY <2>2, <2>3, <2>4
<1> QED  BY <1>12, <1>13
-----------------------------------------------------------------------------
(* The braces of a file *)

\* D[k] braces are open after line k.
Balances(lines, D) ==
  /\ D \in [0..Len(lines) -> Int]
  /\ D[0] = 0
  /\ \A k \in 1..Len(lines) : D[k] = D[k - 1] + lines[k].open - lines[k].close

\* Braces are counted in numbers.
LEMMA LineIs ==
  ASSUME NEW lines \in Seq(Lines)
  PROVE  /\ Len(lines) \in Nat /\ DOMAIN lines = 1..Len(lines)
         /\ \A k \in 1..Len(lines) : lines[k].open \in Nat /\ lines[k].close \in Nat
                                    /\ lines[k].func \in Names \cup {Nil}
<1>1. Len(lines) \in Nat /\ DOMAIN lines = 1..Len(lines) /\ \A k \in 1..Len(lines) : lines[k] \in Lines  OBVIOUS
<1>2. \A x \in Lines : x.open \in Nat /\ x.close \in Nat /\ x.func \in Names \cup {Nil}  BY DEF Lines
<1> QED  BY <1>1, <1>2

\* The braces of a file have a balance.
LEMMA BalanceExists ==
  ASSUME NEW lines \in Seq(Lines)
  PROVE  \E D : Balances(lines, D)
<1> DEFINE n == Len(lines)
           Partial(D, m) == /\ D \in [0..n -> Int] /\ D[0] = 0
                            /\ \A k \in 1..m : D[k] = D[k - 1] + lines[k].open - lines[k].close
           T == {m \in 0..n : ~\E D : Partial(D, m)}
<1>1. n \in Nat /\ \A k \in 1..n : lines[k].open \in Nat /\ lines[k].close \in Nat  BY LineIs
<1>2. 0 \notin T
  <2>1. Partial([k \in 0..n |-> 0], 0)  BY <1>1
  <2> QED  BY <2>1
<1>3. ASSUME NEW m \in 1..n, m - 1 \notin T  PROVE m \notin T
  <2>1. m - 1 \in 0..n  BY <1>1
  <2>2. PICK D : Partial(D, m - 1)  BY <1>3, <2>1
  <2> DEFINE F == [D EXCEPT ![m] = D[m - 1] + lines[m].open - lines[m].close]
  <2>3. D[m - 1] + lines[m].open - lines[m].close \in Int
    <3>1. D[m - 1] \in Int  BY <2>1, <2>2
    <3>2. lines[m].open \in Nat /\ lines[m].close \in Nat  BY <1>1
    <3> QED  BY <3>1, <3>2
  <2>4. F \in [0..n -> Int] /\ F[0] = 0 /\ F[m] = D[m - 1] + lines[m].open - lines[m].close  BY <1>1, <2>2, <2>3
  <2>5. \A k \in 0..n : k # m => F[k] = D[k]  BY <1>1, <2>2
  <2> HIDE DEF F
  <2>6. ASSUME NEW k \in 1..m  PROVE F[k] = F[k - 1] + lines[k].open - lines[k].close
    <3>1. k - 1 \in 0..n /\ k - 1 # m /\ k \in 0..n  BY <1>1
    <3>2. F[k - 1] = D[k - 1]  BY <2>5, <3>1
    <3>3. CASE k = m  BY <2>4, <3>2, <3>3
    <3>4. CASE k # m
      <4>1. k \in 1..(m - 1)  BY <3>4
      <4>2. D[k] = D[k - 1] + lines[k].open - lines[k].close  BY <2>2, <4>1
      <4> QED  BY <2>5, <3>1, <3>2, <3>4, <4>2
    <3> QED  BY <3>3, <3>4
  <2>7. Partial(F, m)  BY <2>4, <2>6
  <2> QED  BY <2>7
<1> HIDE DEF T
<1>4. n \notin T  BY <1>1, <1>2, <1>3, UpTo
<1> USE DEF T
<1>5. \E D : Partial(D, n)  BY <1>1, <1>4
<1> QED  BY <1>5 DEF Balances

\* Depth is the difference of two balances.
LEMMA DepthIs ==
  ASSUME NEW lines \in Seq(Lines), NEW D, Balances(lines, D),
         NEW i \in 1..(Len(lines) + 1), NEW j \in (i - 1)..Len(lines)
  PROVE  Depth(lines, i, j) = D[j] - D[i - 1]
<1> DEFINE n == Len(lines)
           E(f) == [k \in (i - 1)..j |-> IF k < i THEN 0 ELSE f[k - 1] + lines[k].open - lines[k].close]
           g == [k \in (i - 1)..j |-> D[k] - D[i - 1]]
<1>1. n \in Nat /\ i \in Int /\ j \in Int /\ \A k \in 1..n : lines[k].open \in Nat /\ lines[k].close \in Nat
  BY LineIs
<1>2. \A k \in 0..n : D[k] \in Int  BY DEF Balances
<1>3. \A k \in (i - 1)..j : k \in 0..n /\ (k >= i => k \in 1..n /\ k - 1 \in 0..n /\ k - 1 \in (i - 1)..j)
  BY <1>1
<1>4. i - 1 \in 0..n /\ i - 1 \in (i - 1)..j /\ j \in (i - 1)..j  BY <1>1
<1>5. \A k \in (i - 1)..j : k >= i => D[k] = D[k - 1] + lines[k].open - lines[k].close
  BY <1>3 DEF Balances
<1>6. g = E(g)
  <2>1. ASSUME NEW k \in (i - 1)..j
        PROVE  D[k] - D[i - 1] = IF k < i THEN 0 ELSE g[k - 1] + lines[k].open - lines[k].close
    <3>1. CASE k < i
      <4>1. k = i - 1  BY <1>1, <3>1
      <4> QED  BY <1>2, <1>4, <3>1, <4>1
    <3>2. CASE ~(k < i)
      <4>1. k >= i  BY <1>1, <3>2
      <4>2. g[k - 1] = D[k - 1] - D[i - 1]  BY <1>3, <4>1
      <4>3. D[k] = D[k - 1] + lines[k].open - lines[k].close  BY <1>5, <4>1
      <4>4. D[k - 1] \in Int /\ D[i - 1] \in Int /\ lines[k].open \in Int /\ lines[k].close \in Int
        BY <1>1, <1>2, <1>3, <1>4, <4>1
      <4> HIDE DEF g
      <4> QED  BY <3>2, <4>2, <4>3, <4>4
    <3> QED  BY <3>1, <3>2
  <2> QED  BY <2>1
<1>7. ASSUME NEW f, f = E(f)  PROVE f[j] = D[j] - D[i - 1]
  <2> DEFINE m == j - (i - 1)
             T == {x \in 0..m : f[i - 1 + x] # D[i - 1 + x] - D[i - 1]}
  <2>1. m \in Nat  BY <1>1
  <2>2. \A k \in (i - 1)..j : f[k] = IF k < i THEN 0 ELSE f[k - 1] + lines[k].open - lines[k].close
    BY <1>7
  <2>3. 0 \notin T
    <3>1. f[i - 1] = 0  BY <1>1, <1>4, <2>2
    <3>2. D[i - 1] - D[i - 1] = 0 /\ i - 1 + 0 = i - 1  BY <1>1, <1>2, <1>4
    <3> QED  BY <3>1, <3>2
  <2>4. ASSUME NEW x \in 1..m, x - 1 \notin T  PROVE x \notin T
    <3> DEFINE k == i - 1 + x
    <3>1. x - 1 \in 0..m /\ k \in (i - 1)..j /\ k >= i /\ i - 1 + (x - 1) = k - 1  BY <1>1, <2>1
    <3>2. f[k - 1] = D[k - 1] - D[i - 1]  BY <2>4, <3>1
    <3>3. f[k] = f[k - 1] + lines[k].open - lines[k].close  BY <1>1, <2>2, <3>1
    <3>4. D[k] = D[k - 1] + lines[k].open - lines[k].close  BY <1>5, <3>1
    <3>5. D[k - 1] \in Int /\ D[i - 1] \in Int /\ lines[k].open \in Int /\ lines[k].close \in Int
      BY <1>1, <1>2, <1>3, <1>4, <3>1
    <3> HIDE DEF k, T, m, g, E
    <3>6. \A a, b, c, d, o, e : /\ b \in Int /\ d \in Int /\ o \in Int /\ e \in Int
                                /\ a = b - d /\ c = b + o - e
                                => a + o - e = c - d
      OBVIOUS
    <3>7. f[k] = D[k] - D[i - 1]  BY <3>2, <3>3, <3>4, <3>5, <3>6
    <3> QED  BY <3>7 DEF k, T
  <2> HIDE DEF T
  <2>5. m \notin T  BY <2>1, <2>3, <2>4, UpTo
  <2> USE DEF T
  <2>6. m \in 0..m /\ i - 1 + m = j  BY <1>1, <2>1
  <2> QED  BY <2>5, <2>6
<1> DEFINE sum == CHOOSE f : f = E(f)
<1> HIDE DEF g
<1>8. sum = E(sum)  BY <1>6
<1>9. Depth(lines, i, j) = sum[j]  BY DEF Depth
<1> HIDE DEF sum, E
<1> QED  BY <1>7, <1>8, <1>9
-----------------------------------------------------------------------------
(* Formatted files *)

\* Where a function starts.
Heads(lines) == {k \in 1..Len(lines) : lines[k].func # Nil}

\* Between the functions of a formatted file no brace is open.
LEMMA FormattedIs ==
  ASSUME NEW lines \in Seq(Lines), NEW D, Balances(lines, D), Formatted(lines)
  PROVE  /\ \A k \in 0..Len(lines) : D[k] \in Nat
         /\ \A i \in Heads(lines) : D[i - 1] = 0
<1> DEFINE n == Len(lines)
<1>1. n \in Nat /\ DOMAIN lines = 1..n  BY LineIs
<1>2. \A k \in 0..n : D[k] \in Int  BY DEF Balances
<1>3. ASSUME NEW k \in 0..n  PROVE Depth(lines, 1, k) = D[k]
  <2>1. 1 \in 1..(n + 1) /\ k \in (1 - 1)..n  BY <1>1
  <2>2. Depth(lines, 1, k) = D[k] - D[1 - 1]  BY <2>1, DepthIs
  <2>3. D[1 - 1] = 0  BY DEF Balances
  <2> QED  BY <1>2, <2>2, <2>3
<1>4. \A k \in 0..n : D[k] \in Nat
  <2>1. \A k \in 1..n : D[k] >= 0  BY <1>1, <1>3 DEF Formatted
  <2>2. D[0] = 0  BY DEF Balances
  <2> QED  BY <1>1, <1>2, <2>1, <2>2
<1>5. \A i \in Heads(lines) : D[i - 1] = 0  BY <1>1, <1>3 DEF Formatted, Heads
<1> QED  BY <1>4, <1>5

\* From the head of a function the braces that are open are those of the file.
LEMMA FromHead ==
  ASSUME NEW lines \in Seq(Lines), NEW D, Balances(lines, D), Formatted(lines),
         NEW i \in Heads(lines), NEW j \in i..Len(lines)
  PROVE  Depth(lines, i, j) = D[j] /\ D[j] \in Nat
<1>1. Len(lines) \in Nat /\ i \in 1..Len(lines)  BY LineIs DEF Heads
<1>2. i \in 1..(Len(lines) + 1) /\ j \in (i - 1)..Len(lines) /\ j \in 0..Len(lines)  BY <1>1
<1>3. Depth(lines, i, j) = D[j] - D[i - 1]  BY <1>2, DepthIs
<1>4. D[i - 1] = 0 /\ D[j] \in Nat  BY <1>2, FormattedIs
<1> QED  BY <1>3, <1>4

\* The lines of the function on line i: its body is on lines b to e.
Spanned(lines, D, i, b, e) ==
  /\ b \in i..Len(lines) /\ e \in b..Len(lines)
  /\ BodyLine(lines, i) = b /\ EndLine(lines, i) = e
  /\ OneLiner(lines[i]) <=> e = i
  /\ \A j \in (i + 1)..e : j \notin Heads(lines)
  /\ \A j \in b..Len(lines) : Opened(lines, i, j)
  /\ \A j \in b..(e - 1) : D[j] # 0
  /\ D[e] = 0

\* A function of a formatted file has a body, which opens once and closes once.
LEMMA SpanExists ==
  ASSUME NEW lines \in Seq(Lines), NEW D, Balances(lines, D), Formatted(lines), NEW i \in Heads(lines)
  PROVE  \E b, e : Spanned(lines, D, i, b, e)
<1> DEFINE n == Len(lines)
<1>1. n \in Nat /\ i \in 1..n /\ i \in DOMAIN lines /\ lines[i].func # Nil  BY LineIs DEF Heads
<1>0. PICK b \in i..n : \E e \in b..n : Spans(lines, i, b, e)  BY <1>1 DEF Formatted
<1>2. PICK e \in b..n : Spans(lines, i, b, e)  BY <1>0
<1>3. b \in i..e /\ e \in i..n /\ b \in Nat /\ e \in Nat /\ i \in i..e  BY <1>1
<1>4. \A j \in i..e : ("body" \in lines[j].syntax <=> j = b) /\ ("end" \in lines[j].syntax <=> j = e)
  BY <1>2 DEF Spans
<1>5. BodyLine(lines, i) = b
  <2> DEFINE S == {j \in i..n : "body" \in lines[j].syntax}
  <2>1. S \in SUBSET Nat /\ b \in S  BY <1>1, <1>3, <1>4
  <2>2. Min(S) \in S /\ Min(S) <= b  BY <2>1, MinIs
  <2> DEFINE m == Min(S)
  <2>3. m \in i..n /\ "body" \in lines[m].syntax  BY <2>2
  <2>4. m <= b  BY <2>2
  <2> HIDE DEF m
  <2>5. m \in i..e  BY <1>1, <1>3, <2>3, <2>4
  <2>6. m = b  BY <1>4, <2>3, <2>5
  <2> QED  BY <2>6 DEF m, BodyLine
<1>6. EndLine(lines, i) = e
  <2> DEFINE S == {j \in i..n : "end" \in lines[j].syntax}
  <2>1. S \in SUBSET Nat /\ e \in S  BY <1>1, <1>3, <1>4
  <2>2. Min(S) \in S /\ Min(S) <= e  BY <2>1, MinIs
  <2> DEFINE m == Min(S)
  <2>3. m \in i..n /\ "end" \in lines[m].syntax  BY <2>2
  <2>4. m <= e  BY <2>2
  <2> HIDE DEF m
  <2>5. m \in i..e  BY <1>1, <1>3, <2>3, <2>4
  <2>6. m = e  BY <1>4, <2>3, <2>5
  <2> QED  BY <2>6 DEF m, EndLine
<1>7. OneLiner(lines[i]) <=> e = i
  <2>1. OneLiner(lines[i]) <=> i = b /\ i = e  BY <1>1, <1>3, <1>4 DEF OneLiner, Syntax
  <2> QED  BY <1>1, <1>3, <2>1
<1>8. \A j \in (i + 1)..e : j \notin Heads(lines)  BY <1>2 DEF Spans, Heads
<1>9. \A j \in b..n : Opened(lines, i, j)
  <2> SUFFICES ASSUME NEW j \in b..n  PROVE Opened(lines, i, j)  OBVIOUS
  <2>1. b \in i..j /\ lines[b].open > 0  BY <1>1, <1>2, <1>3 DEF Spans
  <2> QED  BY <2>1 DEF Opened
<1>10. \A j \in b..(e - 1) : D[j] # 0
  <2> SUFFICES ASSUME NEW j \in b..(e - 1)  PROVE D[j] # 0  OBVIOUS
  <2>1. j \in i..n  BY <1>1, <1>3
  <2>2. Depth(lines, i, j) = D[j] /\ Depth(lines, i, j) > 0  BY <1>2, <2>1, FromHead DEF Spans
  <2> QED  BY <2>2
<1>11. D[e] = 0
  <2>1. Depth(lines, i, e) = 0 /\ Depth(lines, i, e) = D[e]  BY <1>2, <1>3, FromHead DEF Spans
  <2> QED  BY <2>1
<1> QED  BY <1>5, <1>6, <1>7, <1>8, <1>9, <1>10, <1>11 DEF Spanned

\* Where the brace counter may end a function: at the lines after its head where no
\* brace is open and one has been.
LEMMA EndsAre ==
  ASSUME NEW lines \in Seq(Lines), NEW D, Balances(lines, D), Formatted(lines), NEW i \in Heads(lines)
  PROVE  Ends(lines, i) = {j \in (i + 1)..Len(lines) : Opened(lines, i, j) /\ D[j] = 0}
<1>1. Len(lines) \in Nat /\ i \in 1..Len(lines)  BY LineIs DEF Heads
<1>2. ASSUME NEW j \in (i + 1)..Len(lines)
      PROVE  Depth(lines, i, j) <= 0 <=> D[j] = 0
  <2>1. j \in i..Len(lines)  BY <1>1
  <2>2. Depth(lines, i, j) = D[j] /\ D[j] \in Nat  BY <2>1, FromHead
  <2> QED  BY <2>2
<1> QED  BY <1>2 DEF Ends

\* The function ends before the next one starts, unless it is closed where it starts.
LEMMA EndsBefore ==
  ASSUME NEW lines \in Seq(Lines), Formatted(lines), ~Swallows(lines),
         NEW i \in Heads(lines), NEW k \in Heads(lines), i < k
  PROVE  Ends(lines, i) # {} /\ LastLine(lines, i) < k
<1>1. Len(lines) \in Nat /\ i \in 1..Len(lines) /\ k \in 1..Len(lines)
  BY LineIs DEF Heads
<1>2. PICK D : Balances(lines, D)  BY BalanceExists
<1>3. D[k - 1] = 0  BY <1>2, FormattedIs
<1>0. PICK b, e : Spanned(lines, D, i, b, e)  BY <1>2, SpanExists
<1>4. b \in i..Len(lines) /\ e \in b..Len(lines) /\ e < k
  <2>1. b \in i..Len(lines) /\ e \in b..Len(lines) /\ k \notin (i + 1)..e  BY <1>0 DEF Spanned
  <2> QED  BY <1>1, <2>1
<1>5. k # i + 1
  <2> SUFFICES ASSUME k = i + 1  PROVE FALSE  OBVIOUS
  <2>1. e = i  BY <1>1, <1>4
  <2>2. OneLiner(lines[i])  BY <1>0, <2>1 DEF Spanned
  <2>3. i \in 1..(Len(lines) - 1) /\ lines[i + 1].func # Nil  BY <1>1 DEF Heads
  <2> QED  BY <2>2, <2>3 DEF Swallows
<1>6. k - 1 \in (i + 1)..Len(lines) /\ k - 1 \in b..Len(lines)  BY <1>1, <1>4, <1>5
<1>7. Opened(lines, i, k - 1)  BY <1>0, <1>6 DEF Spanned
<1>8. Ends(lines, i) = {j \in (i + 1)..Len(lines) : Opened(lines, i, j) /\ D[j] = 0}  BY <1>2, EndsAre
<1>9. k - 1 \in Ends(lines, i) /\ Ends(lines, i) \in SUBSET Nat  BY <1>1, <1>3, <1>6, <1>7, <1>8
<1>10. LastLine(lines, i) = Min(Ends(lines, i))  BY <1>9 DEF LastLine
<1>11. Min(Ends(lines, i)) \in Ends(lines, i) /\ Min(Ends(lines, i)) <= k - 1  BY <1>9, MinIs
<1> HIDE DEF Ends
<1> DEFINE l == Min(Ends(lines, i))
<1>12. l \in Nat /\ l <= k - 1  BY <1>9, <1>11
<1> HIDE DEF l
<1>13. l < k  BY <1>1, <1>12
<1> QED  BY <1>9, <1>10, <1>13 DEF l

\* Where the search goes on after the head on line i.
Resume(lines, i) == IF Ends(lines, i) = {} THEN Len(lines) + 1 ELSE LastLine(lines, i) + 1

\* Where the search goes on after a function.
LEMMA ResumeIs ==
  ASSUME NEW lines \in Seq(Lines), NEW i \in 1..Len(lines)
  PROVE  Resume(lines, i) \in (i + 1)..(Len(lines) + 1)
<1>1. Len(lines) \in Nat  BY LineIs
<1>2. CASE Ends(lines, i) = {}  BY <1>1, <1>2 DEF Resume
<1>3. CASE Ends(lines, i) # {}
  <2>1. Ends(lines, i) \subseteq (i + 1)..Len(lines)  BY DEF Ends
  <2>2. Ends(lines, i) \in SUBSET Nat  BY <1>1, <2>1
  <2>3. Min(Ends(lines, i)) \in (i + 1)..Len(lines)  BY <1>3, <2>1, <2>2, MinIs
  <2>4. Resume(lines, i) = Min(Ends(lines, i)) + 1  BY <1>3 DEF Resume, LastLine
  <2> DEFINE m == Min(Ends(lines, i))
  <2>5. m \in (i + 1)..Len(lines)  BY <2>3
  <2> HIDE DEF m
  <2>6. m + 1 \in (i + 1)..(Len(lines) + 1)  BY <1>1, <2>5
  <2> QED  BY <2>4, <2>6 DEF m
<1> QED  BY <1>2, <1>3
-----------------------------------------------------------------------------
(* The search *)

\* The function the search finds at the head on line i.
Record(lines, i) == [name |-> lines[i].func, first |-> i, last |-> LastLine(lines, i)]
Records(lines) == {Record(lines, i) : i \in 1..Len(lines)}

\* One step of the search at line i, with what it finds from the later lines.
Search(lines, f, i) ==
  IF i > Len(lines) THEN <<>>
  ELSE IF lines[i].func = Nil THEN f[i + 1] ELSE <<Record(lines, i)>> \o f[Resume(lines, i)]

\* What is in a sequence with a new head.
LEMMA ToSetCons ==
  ASSUME NEW R, NEW r \in R, NEW s \in Seq(R)
  PROVE  <<r>> \o s \in Seq(R) /\ ToSet(<<r>> \o s) = {r} \cup ToSet(s)
<1> DEFINE t == <<r>> \o s
<1>1. t \in Seq(R) /\ Len(t) = Len(s) + 1 /\ Len(s) \in Nat  OBVIOUS
<1>2. t[1] = r /\ \A k \in 1..Len(s) : t[k + 1] = s[k]  OBVIOUS
<1>3. DOMAIN t = 1..(Len(s) + 1) /\ DOMAIN s = 1..Len(s)  BY <1>1
<1> HIDE DEF t
<1>4. ASSUME NEW x \in ToSet(t)  PROVE x \in {r} \cup ToSet(s)
  <2>1. PICK k \in 1..(Len(s) + 1) : x = t[k]  BY <1>3 DEF ToSet
  <2>2. CASE k = 1  BY <1>2, <2>1, <2>2
  <2>3. CASE k # 1
    <3>1. k - 1 \in 1..Len(s) /\ (k - 1) + 1 = k  BY <1>1, <2>3
    <3>2. x = s[k - 1]  BY <1>2, <2>1, <3>1
    <3> QED  BY <1>3, <3>1, <3>2 DEF ToSet
  <2> QED  BY <2>2, <2>3
<1>5. ASSUME NEW x \in {r} \cup ToSet(s)  PROVE x \in ToSet(t)
  <2>1. CASE x = r
    <3>1. 1 \in 1..(Len(s) + 1)  BY <1>1
    <3> QED  BY <1>2, <1>3, <2>1, <3>1 DEF ToSet
  <2>2. CASE x \in ToSet(s)
    <3>1. PICK k \in 1..Len(s) : x = s[k]  BY <1>3, <2>2 DEF ToSet
    <3>2. k + 1 \in 1..(Len(s) + 1) /\ t[k + 1] = x  BY <1>1, <1>2, <3>1
    <3> QED  BY <1>3, <3>2 DEF ToSet
  <2> QED  BY <2>1, <2>2
<1> QED  BY <1>1, <1>4, <1>5 DEF t

\* The search is defined: a function with its equation exists.
LEMMA SearchExists ==
  ASSUME NEW lines \in Seq(Lines)
  PROVE  \E f : f = [i \in 1..(Len(lines) + 1) |-> Search(lines, f, i)]
<1> DEFINE n == Len(lines)
           Partial(f, m) == /\ f \in [1..(n + 1) -> Seq(Records(lines))]
                            /\ \A i \in (n + 1 - m)..(n + 1) : f[i] = Search(lines, f, i)
           T == {m \in 0..n : ~\E f : Partial(f, m)}
<1>1. n \in Nat  BY LineIs
<1>2. 0 \notin T
  <2> DEFINE e == [i \in 1..(n + 1) |-> <<>>]
  <2>1. e \in [1..(n + 1) -> Seq(Records(lines))]  OBVIOUS
  <2>2. \A i \in (n + 1 - 0)..(n + 1) : i = n + 1 /\ i > n  BY <1>1
  <2>3. \A i \in (n + 1 - 0)..(n + 1) : e[i] = Search(lines, e, i)  BY <1>1, <2>2 DEF Search
  <2> QED  BY <2>1, <2>3
<1>3. ASSUME NEW m \in 1..n, m - 1 \notin T  PROVE m \notin T
  <2>1. m - 1 \in 0..n  BY <1>1
  <2>2. PICK f : Partial(f, m - 1)  BY <1>3, <2>1
  <2> DEFINE h == n + 1 - m
             F == [f EXCEPT ![h] = Search(lines, f, h)]
  <2>3. h \in 1..n /\ h + 1 \in 1..(n + 1) /\ ~(h > n)  BY <1>1
  <2>4. Resume(lines, h) \in (h + 1)..(n + 1)  BY <2>3, ResumeIs
  <2>5. Resume(lines, h) \in 1..(n + 1)  BY <1>1, <2>3, <2>4
  <2>6. Search(lines, f, h) \in Seq(Records(lines))
    <3>1. f[h + 1] \in Seq(Records(lines)) /\ f[Resume(lines, h)] \in Seq(Records(lines))  BY <2>2, <2>3, <2>5
    <3>2. Record(lines, h) \in Records(lines)  BY <2>3 DEF Records
    <3>3. <<Record(lines, h)>> \o f[Resume(lines, h)] \in Seq(Records(lines))  BY <3>1, <3>2, ToSetCons
    <3> QED  BY <2>3, <3>1, <3>3 DEF Search
  <2>7. F \in [1..(n + 1) -> Seq(Records(lines))] /\ F[h] = Search(lines, f, h)  BY <2>2, <2>3, <2>6
  <2>8. \A k \in 1..(n + 1) : k # h => F[k] = f[k]  BY <2>2
  <2> HIDE DEF F
  <2>9. ASSUME NEW i \in h..(n + 1)  PROVE F[i] = Search(lines, F, i)
    <3>1. i \in 1..(n + 1)  BY <1>1, <2>3
    <3>2. Search(lines, F, i) = Search(lines, f, i)
      <4>1. CASE i > n  BY <4>1 DEF Search
      <4>2. CASE ~(i > n)
        <5>1. i \in 1..n /\ i + 1 \in 1..(n + 1) /\ i + 1 # h  BY <1>1, <2>3, <3>1, <4>2
        <5>2. Resume(lines, i) \in (i + 1)..(n + 1)  BY <5>1, ResumeIs
        <5>3. Resume(lines, i) \in 1..(n + 1) /\ Resume(lines, i) # h  BY <1>1, <2>3, <5>1, <5>2
        <5>4. F[i + 1] = f[i + 1] /\ F[Resume(lines, i)] = f[Resume(lines, i)]  BY <2>8, <5>1, <5>3
        <5> QED  BY <5>4 DEF Search
      <4> QED  BY <4>1, <4>2
    <3>3. CASE i = h  BY <2>7, <3>2, <3>3
    <3>4. CASE i # h
      <4>1. i \in (n + 1 - (m - 1))..(n + 1)  BY <1>1, <3>4
      <4>2. f[i] = Search(lines, f, i)  BY <2>2, <4>1
      <4> QED  BY <2>8, <3>1, <3>2, <3>4, <4>2
    <3> QED  BY <3>3, <3>4
  <2>10. Partial(F, m)  BY <2>7, <2>9
  <2> QED  BY <2>10
<1> HIDE DEF T
<1>4. n \notin T  BY <1>1, <1>2, <1>3, UpTo
<1> USE DEF T
<1>5. PICK f : Partial(f, n)  BY <1>1, <1>4
<1>6. \A i \in 1..(n + 1) : i \in (n + 1 - n)..(n + 1)  BY <1>1
<1>7. f = [i \in 1..(n + 1) |-> Search(lines, f, i)]  BY <1>5, <1>6
<1> QED  BY <1>7

\* The search of a formatted file finds its heads, all of them and nothing else.
LEMMA SearchFinds ==
  ASSUME NEW lines \in Seq(Lines), Formatted(lines), ~Swallows(lines),
         NEW f, f = [i \in 1..(Len(lines) + 1) |-> Search(lines, f, i)]
  PROVE  ToSet(f[1]) = {Record(lines, k) : k \in Heads(lines)}
<1> DEFINE n == Len(lines)
           After(i) == {Record(lines, k) : k \in {h \in Heads(lines) : h >= i}}
           Right(i) == f[i] \in Seq(Records(lines)) /\ ToSet(f[i]) = After(i)
           T == {m \in 0..n : ~\A i \in (n + 1 - m)..(n + 1) : Right(i)}
<1>1. n \in Nat  BY LineIs
<1>2. \A i \in 1..(n + 1) : f[i] = Search(lines, f, i)  OBVIOUS
<1>3. 0 \notin T
  <2>1. n + 1 \in 1..(n + 1) /\ n + 1 > n  BY <1>1
  <2>2. f[n + 1] = <<>>  BY <1>2, <2>1 DEF Search
  <2>3. \A h \in Heads(lines) : ~(h >= n + 1)  BY <1>1 DEF Heads
  <2>4. After(n + 1) = {}  BY <2>3
  <2>5. ToSet(<<>>) = {} /\ <<>> \in Seq(Records(lines))  BY DEF ToSet
  <2>6. Right(n + 1)  BY <2>2, <2>4, <2>5
  <2>7. \A i \in (n + 1 - 0)..(n + 1) : i = n + 1  BY <1>1
  <2> HIDE DEF Right
  <2> QED  BY <2>6, <2>7
<1>4. ASSUME NEW m \in 1..n, m - 1 \notin T  PROVE m \notin T
  <2> DEFINE h == n + 1 - m
  <2>1. h \in 1..n /\ h + 1 \in 1..(n + 1) /\ ~(h > n) /\ h \in 1..(n + 1)  BY <1>1
  <2>2. \A i \in (h + 1)..(n + 1) : Right(i)
    <3>1. m - 1 \in 0..n /\ n + 1 - (m - 1) = h + 1  BY <1>1
    <3> HIDE DEF Right
    <3> QED  BY <1>4, <3>1
  <2>3. Right(h)
    <3>1. CASE lines[h].func = Nil
      <4>1. h + 1 \in (h + 1)..(n + 1)  BY <1>1, <2>1
      <4>2. f[h] = f[h + 1]  BY <1>2, <2>1, <3>1 DEF Search
      <4>3. \A k \in Heads(lines) : k >= h <=> k >= h + 1  BY <1>1, <2>1, <3>1 DEF Heads
      <4>4. After(h) = After(h + 1)  BY <4>3
      <4>5. Right(h + 1)  BY <2>2, <4>1
      <4> QED  BY <4>2, <4>4, <4>5
    <3>2. CASE lines[h].func # Nil
      <4> DEFINE r == Resume(lines, h)
      <4>1. r \in (h + 1)..(n + 1)  BY <2>1, ResumeIs
      <4>2. f[h] = <<Record(lines, h)>> \o f[r]  BY <1>2, <2>1, <3>2 DEF Search
      <4>3. h \in Heads(lines)  BY <2>1, <3>2 DEF Heads
      <4>4. \A k \in Heads(lines) : k > h => k >= r
        <5> SUFFICES ASSUME NEW k \in Heads(lines), h < k  PROVE k >= r  BY <2>1 DEF Heads
        <5>1. Ends(lines, h) # {} /\ LastLine(lines, h) < k  BY <4>3, EndsBefore
        <5>2. r = LastLine(lines, h) + 1  BY <5>1 DEF Resume
        <5> DEFINE l == LastLine(lines, h)
        <5>3. l \in Nat
          <6>1. Ends(lines, h) \in SUBSET Nat  BY <1>1, <2>1 DEF Ends
          <6>2. l = Min(Ends(lines, h))  BY <5>1 DEF LastLine
          <6> QED  BY <5>1, <6>1, <6>2, MinIs
        <5>4. k \in Nat  BY DEF Heads
        <5> HIDE DEF l
        <5>5. l < k /\ r = l + 1  BY <5>1, <5>2 DEF l
        <5> QED  BY <5>3, <5>4, <5>5
      <4> HIDE DEF r
      <4>5. ASSUME NEW k \in Heads(lines)  PROVE k >= h <=> k = h \/ k >= r
        <5>1. k > h => k >= r  BY <4>4
        <5>2. k \in 1..n  BY DEF Heads
        <5> HIDE DEF h
        <5> QED  BY <1>1, <2>1, <4>1, <5>1, <5>2
      <4>6. After(h) = {Record(lines, h)} \cup After(r)  BY <4>3, <4>5
      <4>7. Right(r)  BY <2>2, <4>1
      <4>8. Record(lines, h) \in Records(lines)  BY <2>1 DEF Records
      <4>9. /\ <<Record(lines, h)>> \o f[r] \in Seq(Records(lines))
            /\ ToSet(<<Record(lines, h)>> \o f[r]) = {Record(lines, h)} \cup ToSet(f[r])
        <5> DEFINE s == f[r]
                   e == Record(lines, h)
        <5>1. s \in Seq(Records(lines)) /\ e \in Records(lines)  BY <4>7, <4>8
        <5> HIDE DEF s, e
        <5>2. <<e>> \o s \in Seq(Records(lines)) /\ ToSet(<<e>> \o s) = {e} \cup ToSet(s)  BY <5>1, ToSetCons
        <5> QED  BY <5>2 DEF s, e
      <4> HIDE DEF After, h
      <4>10. f[h] \in Seq(Records(lines)) /\ ToSet(f[h]) = After(h)  BY <4>2, <4>6, <4>7, <4>9
      <4> QED  BY <4>10 DEF h
    <3> QED  BY <3>1, <3>2
  <2> HIDE DEF Right
  <2>4. \A i \in h..(n + 1) : i = h \/ i \in (h + 1)..(n + 1)  BY <1>1, <2>1
  <2>5. \A i \in h..(n + 1) : Right(i)  BY <2>2, <2>3, <2>4
  <2> QED  BY <2>5
<1> HIDE DEF T
<1>5. n \notin T  BY <1>1, <1>3, <1>4, UpTo
<1> USE DEF T
<1>6. n \in 0..n /\ 1 \in (n + 1 - n)..(n + 1)  BY <1>1
<1> HIDE DEF Right
<1>7. Right(1)  BY <1>5, <1>6
<1> USE DEF Right
<1>8. \A k \in Heads(lines) : k >= 1  BY DEF Heads
<1>9. {h \in Heads(lines) : h >= 1} = Heads(lines)  BY <1>8
<1> QED  BY <1>7, <1>9

\* GoFunctions is the search from the first line.
LEMMA GoFunctionsAre ==
  ASSUME NEW lines \in Seq(Lines), Formatted(lines), ~Swallows(lines)
  PROVE  ToSet(GoFunctions(lines)) = {Record(lines, k) : k \in Heads(lines)}
<1> DEFINE from == CHOOSE f : f = [i \in 1..(Len(lines) + 1) |-> Search(lines, f, i)]
<1>1. from = [i \in 1..(Len(lines) + 1) |-> Search(lines, from, i)]  BY SearchExists
<1>2. GoFunctions(lines) = from[1]  BY DEF GoFunctions, Search, Record, Resume
<1> HIDE DEF from
<1> QED  BY <1>1, <1>2, SearchFinds

\* A function that is not closed on the line of its name ends where its body is closed,
\* but for a signature that cuts it.
LEMMA LastLineIs ==
  ASSUME NEW lines \in Seq(Lines), Formatted(lines), NEW i \in Heads(lines), ~OneLiner(lines[i])
  PROVE  LastLine(lines, i) = EndLine(lines, i) <=> ~CutAtSignature(lines, i)
<1> DEFINE n == Len(lines)
<1>1. n \in Nat /\ i \in 1..n  BY LineIs DEF Heads
<1>2. PICK D : Balances(lines, D)  BY BalanceExists
<1>3. PICK b, e : Spanned(lines, D, i, b, e)  BY <1>2, SpanExists
<1>4. b \in i..n /\ e \in b..n /\ e # i  BY <1>3 DEF Spanned
<1>5. e \in (i + 1)..n /\ e \in Nat /\ b \in Nat  BY <1>1, <1>4
<1>6. Ends(lines, i) = {j \in (i + 1)..n : Opened(lines, i, j) /\ D[j] = 0}  BY <1>2, EndsAre
<1>7. e \in Ends(lines, i) /\ Ends(lines, i) \in SUBSET Nat  BY <1>1, <1>3, <1>4, <1>5, <1>6 DEF Spanned
<1> DEFINE m == Min(Ends(lines, i))
<1>8. m \in Ends(lines, i) /\ m <= e /\ LastLine(lines, i) = m  BY <1>7, MinIs DEF LastLine
<1>9. m \in (i + 1)..n /\ Opened(lines, i, m) /\ D[m] = 0  BY <1>6, <1>8
<1>10. m < b \/ m = e
  <2>1. m \notin b..(e - 1)  BY <1>3, <1>9 DEF Spanned
  <2>2. m \in Nat /\ m <= e  BY <1>1, <1>8, <1>9
  <2> HIDE DEF m
  <2> QED  BY <1>5, <2>1, <2>2
<1>11. ASSUME NEW j \in (i + 1)..(b - 1)
       PROVE  Opened(lines, i, j) /\ Depth(lines, i, j) = 0 <=> j \in Ends(lines, i)
  <2>1. j \in i..n /\ j \in (i + 1)..n  BY <1>1, <1>4
  <2>2. Depth(lines, i, j) = D[j]  BY <1>2, <2>1, FromHead
  <2> QED  BY <1>6, <2>1, <2>2
<1>12. BodyLine(lines, i) = b /\ EndLine(lines, i) = e  BY <1>3 DEF Spanned
<1>13. CutAtSignature(lines, i) <=> \E j \in (i + 1)..(b - 1) : j \in Ends(lines, i)
  BY <1>11, <1>12 DEF CutAtSignature
<1>14. CASE m = e
  <2>1. ASSUME NEW j \in (i + 1)..(b - 1), j \in Ends(lines, i)  PROVE FALSE
    <3>1. m <= j  BY <1>7, <2>1, MinIs
    <3> HIDE DEF m
    <3> QED  BY <1>1, <1>4, <1>14, <2>1, <3>1
  <2> QED  BY <1>8, <1>12, <1>13, <1>14, <2>1
<1>15. CASE m < b
  <2>1. m \in (i + 1)..(b - 1) /\ m # e
    <3> HIDE DEF m
    <3> QED  BY <1>1, <1>4, <1>9, <1>15
  <2> QED  BY <1>8, <1>12, <1>13, <2>1
<1> HIDE DEF m
<1> QED  BY <1>10, <1>14, <1>15

\* The functions of the file are found where they are, and those that are not closed on
\* the line of their name as they are, but for a signature that cuts them.
LEMMA FoundAreTrue ==
  ASSUME NEW lines \in Seq(Lines), Formatted(lines), ~Swallows(lines)
  PROVE  LET found == ToSet(GoFunctions(lines))
             true == TrueFunctions(lines)
         IN  /\ {fn.first : fn \in found} = {fn.first : fn \in true}
             /\ \A fn \in true : ~OneLiner(lines[fn.first]) =>
                  (fn \in found <=> ~CutAtSignature(lines, fn.first))
<1> DEFINE True(i) == [name |-> lines[i].func, first |-> i, last |-> EndLine(lines, i)]
<1>1. ToSet(GoFunctions(lines)) = {Record(lines, k) : k \in Heads(lines)}  BY GoFunctionsAre
<1>2. TrueFunctions(lines) = {True(k) : k \in Heads(lines)}  BY LineIs DEF TrueFunctions, Heads
<1>3. \A i : Record(lines, i).first = i  BY DEF Record
<1>4. \A i : True(i).first = i  OBVIOUS
<1>5. \A i : Record(lines, i) = True(i) <=> LastLine(lines, i) = EndLine(lines, i)  BY DEF Record
<1> HIDE DEF True
<1>6. {fn.first : fn \in ToSet(GoFunctions(lines))} = {fn.first : fn \in TrueFunctions(lines)}
  BY <1>1, <1>2, <1>3, <1>4
<1>7. ASSUME NEW fn \in TrueFunctions(lines), ~OneLiner(lines[fn.first])
      PROVE  fn \in ToSet(GoFunctions(lines)) <=> ~CutAtSignature(lines, fn.first)
  <2>1. PICK i \in Heads(lines) : fn = True(i)  BY <1>2
  <2>2. fn.first = i  BY <1>4, <2>1
  <2>3. fn \in ToSet(GoFunctions(lines)) <=> fn = Record(lines, i)  BY <1>1, <1>3, <2>1, <2>2
  <2>4. fn = Record(lines, i) <=> LastLine(lines, i) = EndLine(lines, i)  BY <1>5, <2>1
  <2>5. LastLine(lines, i) = EndLine(lines, i) <=> ~CutAtSignature(lines, i)  BY <1>7, <2>2, LastLineIs
  <2> QED  BY <2>2, <2>3, <2>4, <2>5
<1> QED  BY <1>6, <1>7
-----------------------------------------------------------------------------
(* What the rules do with sequences *)

\* f are the c places of a sequence, in their order, whose members are in the set.
Places(s, S, c, f) ==
  /\ f \in [1..c -> DOMAIN s]
  /\ \A m, n \in 1..c : m < n => f[m] < f[n]
  /\ \A n \in 1..c : s[f[n]] \in S
  /\ \A k \in DOMAIN s : s[k] \in S => \E n \in 1..c : f[n] = k

\* Distinct members of a finite set, as many as it has, are all of it.
LEMMA AllPicked ==
  ASSUME NEW S, IsFiniteSet(S), NEW f \in [1..Cardinality(S) -> S],
         \A m, n \in 1..Cardinality(S) : m # n => f[m] # f[n]
  PROVE  \A x \in S : \E n \in 1..Cardinality(S) : f[n] = x
<1> DEFINE c == Cardinality(S)
<1>1. c \in Nat  BY FS_CardinalityType
<1>2. f \in Injection(1..c, S)  BY DEF Injection, IsInjective
<1> HIDE DEF c
<1>3. 1 \in Int /\ c \in Int  BY <1>1
<1>4. Cardinality(1..c) = IF 1 > c THEN 0 ELSE c - 1 + 1  BY <1>3, FS_Interval
<1>5. Cardinality(1..c) = c  BY <1>1, <1>4
<1>6. Cardinality(1..c) = Cardinality(S) <=> f \in Surjection(1..c, S)  BY <1>2, FS_Injection
<1>7. f \in Surjection(1..c, S)  BY <1>5, <1>6 DEF c
<1> QED  BY <1>7 DEF Surjection, c

\* Kept picks such places.
LEMMA KeptIs ==
  ASSUME NEW T, NEW s \in Seq(T), NEW S
  PROVE  \E c \in Nat : \E f : Places(s, S, c, f) /\ Kept(s, S) = [n \in 1..c |-> s[f[n]]]
<1> DEFINE places == {k \in DOMAIN s : s[k] \in S}
           R == {p \in places \X places : p[1] < p[2]}
           c == Cardinality(places)
           Increasing(f) == \A m, n \in DOMAIN f : m < n => f[m] < f[n]
           place == CHOOSE f \in [1..c -> places] : Increasing(f)
<1>1. DOMAIN s = 1..Len(s) /\ Len(s) \in Nat  OBVIOUS
<1>2. IsFiniteSet(places)
  <2>1. IsFiniteSet(1..Len(s))  BY <1>1, FS_Interval
  <2>2. places \in SUBSET (1..Len(s))  BY <1>1
  <2> HIDE DEF places
  <2> QED  BY <2>1, <2>2, FS_Subset
<1>3. c \in Nat  BY <1>2, FS_CardinalityType
<1>4. IsOrder(places, R)
  <2>1. \A x \in places : x \in Nat  BY <1>1
  <2>2. \A x, y : <<x, y>> \in R <=> x \in places /\ y \in places /\ x < y  OBVIOUS
  <2> HIDE DEF places, R
  <2> QED  BY <2>1, <2>2 DEF IsOrder
<1>5. \E f \in [1..c -> places] : \A m, n \in 1..c : m < n => <<f[m], f[n]>> \in R
  <2> HIDE DEF places, R
  <2> QED  BY <1>2, <1>4, EnumerationExists
<1>6. \E f \in [1..c -> places] : Increasing(f)  BY <1>5
<1> HIDE DEF c
<1>7. place \in [1..c -> places] /\ Increasing(place)
  <2> HIDE DEF Increasing, places
  <2> QED  BY <1>6
<1>8. Kept(s, S) = [n \in DOMAIN place |-> s[place[n]]]  BY DEF Kept, c
<1> HIDE DEF place
<1>9. place \in [1..c -> DOMAIN s] /\ \A n \in 1..c : s[place[n]] \in S  BY <1>7
<1>10. \A m, n \in 1..c : m < n => place[m] < place[n]  BY <1>7
<1>11. Kept(s, S) = [n \in 1..c |-> s[place[n]]]  BY <1>7, <1>8
<1>13. \A k \in DOMAIN s : s[k] \in S => \E n \in 1..c : place[n] = k
  <2>1. ASSUME NEW m \in 1..c, NEW n \in 1..c, m # n  PROVE place[m] # place[n]
    <3>1. m < n \/ n < m  BY <1>3, <2>1
    <3>2. place[m] < place[n] \/ place[n] < place[m]  BY <1>10, <3>1
    <3>3. place[m] \in Nat /\ place[n] \in Nat  BY <1>1, <1>9
    <3> QED  BY <3>2, <3>3
  <2>2. place \in [1..c -> places]  BY <1>7
  <2> HIDE DEF places
  <2>3. \A x \in places : \E n \in 1..c : place[n] = x  BY <1>2, <2>1, <2>2, AllPicked DEF c
  <2> QED  BY <2>3 DEF places
<1>12. Places(s, S, c, place)  BY <1>9, <1>10, <1>13 DEF Places
<1> QED  BY <1>3, <1>11, <1>12

\* Candidates can be sorted by what SortKey says of them.
Sortable(S) ==
  /\ IsFiniteSet(S)
  /\ \A c \in S : \A n \in 1..4 : SortKey(c)[n] \in Int
  /\ \A c, d \in S : (\A n \in 1..4 : SortKey(c)[n] = SortKey(d)[n]) => c = d

\* Ranked enumerates them, each once.
LEMMA RankedIs ==
  ASSUME NEW S, Sortable(S)
  PROVE  /\ Cardinality(S) \in Nat /\ Ranked(S) \in [1..Cardinality(S) -> S]
         /\ \A m, n \in 1..Cardinality(S) : m # n => Ranked(S)[m] # Ranked(S)[n]
         /\ \A x \in S : \E n \in 1..Cardinality(S) : Ranked(S)[n] = x
<1> DEFINE R == {p \in S \X S : Before(p[1], p[2])}
           C == Cardinality(S)
           Sorted(s) == \A m, n \in DOMAIN s : m < n => Before(s[m], s[n])
<1>1. IsFiniteSet(S) /\ C \in Nat  BY FS_CardinalityType DEF Sortable
<1>2. ASSUME NEW a, NEW b
      PROVE  Before(a, b) <=> \/ SortKey(a)[1] < SortKey(b)[1]
                              \/ SortKey(a)[1] = SortKey(b)[1] /\ SortKey(a)[2] < SortKey(b)[2]
                              \/ /\ SortKey(a)[1] = SortKey(b)[1] /\ SortKey(a)[2] = SortKey(b)[2]
                                 /\ SortKey(a)[3] < SortKey(b)[3]
                              \/ /\ SortKey(a)[1] = SortKey(b)[1] /\ SortKey(a)[2] = SortKey(b)[2]
                                 /\ SortKey(a)[3] = SortKey(b)[3] /\ SortKey(a)[4] < SortKey(b)[4]
  <2> DEFINE k == SortKey(a)
             l == SortKey(b)
             Less(n) == k[n] < l[n] /\ \A m \in 1..(n - 1) : k[m] = l[m]
  <2>1. Before(a, b) <=> \E n \in 1..4 : Less(n)  BY DEF Before
  <2> HIDE DEF k, l
  <2>2. (\E n \in 1..4 : Less(n)) <=> Less(1) \/ Less(2) \/ Less(3) \/ Less(4)
    <3>1. \A n \in 1..4 : n = 1 \/ n = 2 \/ n = 3 \/ n = 4  OBVIOUS
    <3>2. 1 \in 1..4 /\ 2 \in 1..4 /\ 3 \in 1..4 /\ 4 \in 1..4  OBVIOUS
    <3> HIDE DEF Less
    <3> QED  BY <3>1, <3>2
  <2>3. Less(1) <=> k[1] < l[1]  OBVIOUS
  <2>4. Less(2) <=> k[1] = l[1] /\ k[2] < l[2]  OBVIOUS
  <2>5. Less(3) <=> k[1] = l[1] /\ k[2] = l[2] /\ k[3] < l[3]
    <3>1. \A m \in 1..(3 - 1) : m = 1 \/ m = 2  OBVIOUS
    <3>2. 1 \in 1..(3 - 1) /\ 2 \in 1..(3 - 1)  OBVIOUS
    <3> QED  BY <3>1, <3>2
  <2>6. Less(4) <=> k[1] = l[1] /\ k[2] = l[2] /\ k[3] = l[3] /\ k[4] < l[4]
    <3>1. \A m \in 1..(4 - 1) : m = 1 \/ m = 2 \/ m = 3  OBVIOUS
    <3>2. 1 \in 1..(4 - 1) /\ 2 \in 1..(4 - 1) /\ 3 \in 1..(4 - 1)  OBVIOUS
    <3> QED  BY <3>1, <3>2
  <2> HIDE DEF Less
  <2> QED  BY <2>1, <2>2, <2>3, <2>4, <2>5, <2>6 DEF k, l
<1>3. \A c \in S : /\ SortKey(c)[1] \in Int /\ SortKey(c)[2] \in Int
                   /\ SortKey(c)[3] \in Int /\ SortKey(c)[4] \in Int
  BY DEF Sortable
<1>4. ASSUME NEW c \in S, NEW d \in S, SortKey(c)[1] = SortKey(d)[1], SortKey(c)[2] = SortKey(d)[2],
             SortKey(c)[3] = SortKey(d)[3], SortKey(c)[4] = SortKey(d)[4]
      PROVE  c = d
  <2>1. \A n \in 1..4 : n = 1 \/ n = 2 \/ n = 3 \/ n = 4  OBVIOUS
  <2>2. \A n \in 1..4 : SortKey(c)[n] = SortKey(d)[n]  BY <1>4, <2>1
  <2> QED  BY <2>2 DEF Sortable
<1>5. \A x \in S : ~Before(x, x)  BY <1>2, <1>3
<1>6. \A x, y, z \in S : Before(x, y) /\ Before(y, z) => Before(x, z)  BY <1>2, <1>3
<1>7. ASSUME NEW x \in S, NEW y \in S, x # y  PROVE Before(x, y) \/ Before(y, x)
  <2>1. \/ SortKey(x)[1] # SortKey(y)[1] \/ SortKey(x)[2] # SortKey(y)[2]
        \/ SortKey(x)[3] # SortKey(y)[3] \/ SortKey(x)[4] # SortKey(y)[4]
    BY <1>4, <1>7
  <2> QED  BY <1>2, <1>3, <2>1
<1>8. \A x, y : <<x, y>> \in R <=> x \in S /\ y \in S /\ Before(x, y)  OBVIOUS
<1> HIDE DEF R
<1>9. IsOrder(S, R)  BY <1>5, <1>6, <1>7, <1>8 DEF IsOrder
<1>10. \E s \in [1..C -> S] : \A m, n \in 1..C : m < n => <<s[m], s[n]>> \in R
  BY <1>1, <1>9, EnumerationExists
<1>11. \E s \in [1..C -> S] : Sorted(s)  BY <1>8, <1>10
<1> DEFINE r == CHOOSE s \in [1..C -> S] : Sorted(s)
<1>12. r \in [1..C -> S] /\ Sorted(r)
  <2> HIDE DEF C, Sorted
  <2> QED  BY <1>11
<1>13. Ranked(S) = r  BY DEF Ranked
<1> HIDE DEF r
<1>14. ASSUME NEW m \in 1..C, NEW n \in 1..C, m # n  PROVE r[m] # r[n]
  <2>1. m < n \/ n < m  BY <1>14
  <2>2. Before(r[m], r[n]) \/ Before(r[n], r[m])  BY <1>12, <2>1
  <2>3. r[m] \in S /\ r[n] \in S  BY <1>12
  <2> QED  BY <1>5, <2>2, <2>3
<1>15. \A x \in S : \E n \in 1..C : r[n] = x  BY <1>1, <1>12, <1>14, AllPicked
<1> QED  BY <1>1, <1>12, <1>13, <1>14, <1>15

\* A file of candidates keeps the first of a sequence: F is made of the first of s.
FirstOf(F, s) == \E m \in 0..Len(s) : DOMAIN F = 1..m /\ \A k \in 1..m : F[k] = s[k]

\* The least of two numbers.
LEMMA PairMin ==
  ASSUME NEW a \in Int, NEW b \in Int
  PROVE  Min({a, b}) \in {a, b} /\ Min({a, b}) <= a /\ Min({a, b}) <= b
<1>1. \E x \in {a, b} : \A y \in {a, b} : x =< y
  <2>1. CASE a <= b  BY <2>1
  <2>2. CASE b <= a  BY <2>2
  <2> QED  BY <2>1, <2>2
<1>2. Min({a, b}) \in {a, b} /\ \A y \in {a, b} : Min({a, b}) =< y  BY <1>1 DEF Min
<1> QED  BY <1>2

\* The greatest of two numbers.
LEMMA PairMax ==
  ASSUME NEW a \in Int, NEW b \in Int
  PROVE  Max({a, b}) \in {a, b} /\ Max({a, b}) >= a /\ Max({a, b}) >= b
<1>1. \E x \in {a, b} : \A y \in {a, b} : x >= y
  <2>1. CASE a >= b  BY <2>1
  <2>2. CASE b >= a  BY <2>2
  <2> QED  BY <2>1, <2>2
<1>2. Max({a, b}) \in {a, b} /\ \A y \in {a, b} : Max({a, b}) >= y  BY <1>1 DEF Max
<1> QED  BY <1>2

\* The beginning of a sequence.
LEMMA SubSeqIs ==
  ASSUME NEW T, NEW s \in Seq(T), NEW m \in 0..Len(s)
  PROVE  FirstOf(SubSeq(s, 1, m), s) /\ SubSeq(s, 1, m) \in Seq(T)
<1>1. Len(s) \in Nat  OBVIOUS
<1>2. SubSeq(s, 1, m) \in Seq(T) /\ Len(SubSeq(s, 1, m)) = m  BY <1>1
<1>3. DOMAIN SubSeq(s, 1, m) = 1..m  BY <1>2
<1>4. \A k \in 1..m : SubSeq(s, 1, m)[k] = s[k]  BY <1>1
<1> QED  BY <1>2, <1>3, <1>4 DEF FirstOf

\* What is left after a limit is the beginning.
LEMMA FirstLimitedIs ==
  ASSUME NEW T, NEW s \in Seq(T), NEW n \in Int
  PROVE  FirstOf(FirstLimited(s, n), s) /\ FirstLimited(s, n) \in Seq(T)
<1> DEFINE x == Max({n, 0})
           m == Min({Len(s), x})
<1>1. Len(s) \in Nat  OBVIOUS
<1>2. x \in Int /\ x >= 0
  <2>1. 0 \in Int  OBVIOUS
  <2>2. Max({n, 0}) \in {n, 0} /\ Max({n, 0}) >= n /\ Max({n, 0}) >= 0  BY <2>1, PairMax, Zenon
  <2> QED  BY <2>2
<1> HIDE DEF x
<1>3. m \in {Len(s), x} /\ m <= Len(s)
  <2>1. Len(s) \in Int /\ x \in Int  BY <1>1, <1>2
  <2> QED  BY <2>1, PairMin, Zenon
<1>4. FirstLimited(s, n) = SubSeq(s, 1, m)  BY DEF FirstLimited, x
<1> HIDE DEF m
<1>5. m \in 0..Len(s)  BY <1>1, <1>2, <1>3
<1> QED  BY <1>4, <1>5, SubSeqIs

\* So it is when the limit is compared after appending.
LEMMA FirstAppendedIs ==
  ASSUME NEW T, NEW s \in Seq(T), limit \in Nat
  PROVE  FirstOf(FirstAppended(s), s) /\ FirstAppended(s) \in Seq(T)
<1> DEFINE x == Max({limit, 1})
           m == Min({Len(s), x})
<1>1. Len(s) \in Nat  OBVIOUS
<1>2. x \in Int /\ x >= 0
  <2>1. limit \in Int /\ 1 \in Int  OBVIOUS
  <2>2. Max({limit, 1}) \in {limit, 1} /\ Max({limit, 1}) >= limit /\ Max({limit, 1}) >= 1
    BY <2>1, PairMax, Zenon
  <2> QED  BY <2>1, <2>2
<1> HIDE DEF x
<1>3. m \in {Len(s), x} /\ m <= Len(s)
  <2>1. Len(s) \in Int /\ x \in Int  BY <1>1, <1>2
  <2> QED  BY <2>1, PairMin, Zenon
<1>4. FirstAppended(s) = SubSeq(s, 1, m)  BY DEF FirstAppended, x
<1> HIDE DEF m
<1>5. m \in 0..Len(s)  BY <1>1, <1>2, <1>3
<1> QED  BY <1>4, <1>5, SubSeqIs
-----------------------------------------------------------------------------
(* What the rules propose *)

\* The checkout is one of the instances, and stays so: no rule writes to it.
Checkout ==
  /\ IsFiniteSet(DOMAIN repo)
  /\ \A p \in DOMAIN repo : repo[p] \in Seq(Lines)
  /\ \A p, q \in DOMAIN repo : PathRank[p] \in Nat /\ (PathRank[p] = PathRank[q] => p = q)
  /\ limit \in Nat

\* The members of F stand for members of s at places of their own: F comes from s by
\* choosing, and by cutting.
Drawn(F, s, S, place) ==
  /\ place \in [DOMAIN F -> DOMAIN s]
  /\ \A m, n \in DOMAIN F : m # n => place[m] # place[n]
  /\ \A n \in DOMAIN F : s[place[n]] \in S

\* What is drawn from a sequence by filtering and cutting it.
LEMMA DrawnFromKept ==
  ASSUME NEW T, NEW s \in Seq(T), NEW S, NEW U, NEW K \in Seq(U), NEW F,
         DOMAIN K = DOMAIN Kept(s, S), FirstOf(F, K)
  PROVE  \E place : /\ Drawn(F, s, S, place)
                    /\ \A n \in DOMAIN F : F[n] = K[n] /\ n \in DOMAIN K /\ Kept(s, S)[n] = s[place[n]]
<1> PICK d \in Nat : \E f : Places(s, S, d, f) /\ Kept(s, S) = [n \in 1..d |-> s[f[n]]]  BY KeptIs
<1>0. PICK f : Places(s, S, d, f) /\ Kept(s, S) = [n \in 1..d |-> s[f[n]]]  OBVIOUS
<1>1. /\ f \in [1..d -> DOMAIN s]
      /\ \A m, n \in 1..d : m < n => f[m] < f[n]
      /\ \A n \in 1..d : s[f[n]] \in S
      /\ Kept(s, S) = [n \in 1..d |-> s[f[n]]]
  BY <1>0 DEF Places
<1>2. PICK m \in 0..Len(K) : DOMAIN F = 1..m /\ \A k \in 1..m : F[k] = K[k]  BY DEF FirstOf
<1>3. DOMAIN K = 1..Len(K) /\ Len(K) \in Nat /\ DOMAIN K = 1..d  BY <1>1
<1>4. \A n \in DOMAIN F : n \in 1..d /\ n \in DOMAIN K  BY <1>2, <1>3
<1> DEFINE place == [n \in DOMAIN F |-> f[n]]
<1>5. place \in [DOMAIN F -> DOMAIN s]  BY <1>1, <1>4
<1>6. \A n \in DOMAIN F : place[n] = f[n] /\ s[f[n]] \in S /\ Kept(s, S)[n] = s[f[n]]  BY <1>1, <1>4
<1>7. ASSUME NEW i \in DOMAIN F, NEW j \in DOMAIN F, i # j  PROVE place[i] # place[j]
  <2>1. i \in 1..d /\ j \in 1..d /\ (i < j \/ j < i)  BY <1>4, <1>7
  <2>2. f[i] < f[j] \/ f[j] < f[i]  BY <1>1, <2>1
  <2>3. f[i] \in Nat /\ f[j] \in Nat
    <3>1. DOMAIN s \subseteq Nat  OBVIOUS
    <3> QED  BY <1>1, <2>1, <3>1
  <2> QED  BY <1>6, <2>2, <2>3
<1> HIDE DEF place
<1>8. Drawn(F, s, S, place)  BY <1>5, <1>6, <1>7 DEF Drawn
<1>9. \A n \in DOMAIN F : F[n] = K[n] /\ n \in DOMAIN K /\ Kept(s, S)[n] = s[place[n]]
  BY <1>2, <1>4, <1>6
<1> QED  BY <1>8, <1>9

\* F are the candidates of open seeds, of files of the shape a rule looks for.
SeedsOf(F, seeds, known, assets, place) ==
  /\ Drawn(F, seeds, {seed \in ToSet(seeds) : OpenSeed(seed, known, assets)}, place)
  /\ \A n \in DOMAIN F :
       LET seed == seeds[place[n]] IN F[n] = Candidate(SeedKey(seed), seed.paths, NoFunction, 0)

FilesOf(F, rule, known, order, place) ==
  /\ Drawn(F, order, {path \in DOMAIN repo : OpenFile(rule, path, known)}, place)
  /\ \A n \in DOMAIN F :
       LET path == order[place[n]] IN F[n] = Candidate(FileKey(rule, path), {path}, NoFunction, 0)

\* A file of seeds is made of open seeds.
LEMMA OpenSeedsAre ==
  ASSUME NEW T, NEW seeds \in Seq(T), NEW known, NEW assets, Checkout
  PROVE  LET F == OpenSeeds(seeds, known, assets)
         IN  /\ F \in Seq({Candidate(SeedKey(seed), seed.paths, NoFunction, 0) : seed \in T})
             /\ \E place : SeedsOf(F, seeds, known, assets, place)
<1> DEFINE open == {seed \in ToSet(seeds) : OpenSeed(seed, known, assets)}
           kept == Kept(seeds, open)
           C(seed) == Candidate(SeedKey(seed), seed.paths, NoFunction, 0)
           K == [n \in DOMAIN kept |-> C(kept[n])]
           F == FirstAppended(K)
<1> PICK d \in Nat : \E f : Places(seeds, open, d, f) /\ kept = [n \in 1..d |-> seeds[f[n]]]
  <2> HIDE DEF open
  <2> QED  BY KeptIs
<1>0. PICK f : Places(seeds, open, d, f) /\ kept = [n \in 1..d |-> seeds[f[n]]]
  <2> HIDE DEF open, kept
  <2> QED  OBVIOUS
<1>1. f \in [1..d -> DOMAIN seeds] /\ kept = [n \in 1..d |-> seeds[f[n]]]  BY <1>0 DEF Places
<1>2. DOMAIN K = DOMAIN kept /\ DOMAIN kept = 1..d  BY <1>1
<1> HIDE DEF open, kept, C
<1>3. \A n \in 1..d : seeds[f[n]] \in T
  <2>1. \A k \in DOMAIN seeds : seeds[k] \in T  OBVIOUS
  <2> QED  BY <1>1, <2>1
<1>4. \A n \in 1..d : kept[n] \in T  BY <1>1, <1>3
<1>5. K \in Seq({C(seed) : seed \in T}) /\ Len(K) = d  BY <1>2, <1>4
<1>6. limit \in Nat  BY DEF Checkout
<1>7. FirstOf(F, K) /\ F \in Seq({C(seed) : seed \in T})
  <2> DEFINE U == {C(seed) : seed \in T}
  <2> HIDE DEF K, U
  <2>1. K \in Seq(U)  BY <1>5 DEF U
  <2> QED  BY <1>6, <2>1, FirstAppendedIs DEF U
<1>8. DOMAIN K = 1..d /\ DOMAIN K = DOMAIN Kept(seeds, open) /\ \A n \in DOMAIN K : K[n] = C(kept[n])
  BY <1>2 DEF kept
<1>9. OpenSeeds(seeds, known, assets) = F  BY DEF OpenSeeds, kept, open, C
<1> HIDE DEF K, F
<1>10. PICK place : /\ Drawn(F, seeds, open, place)
                    /\ \A n \in DOMAIN F : F[n] = K[n] /\ n \in DOMAIN K /\ Kept(seeds, open)[n] = seeds[place[n]]
  <2> DEFINE U == {C(seed) : seed \in T}
  <2>1. K \in Seq(U) /\ DOMAIN K = DOMAIN Kept(seeds, open) /\ FirstOf(F, K)  BY <1>5, <1>7, <1>8
  <2> HIDE DEF U
  <2> QED  BY <2>1, DrawnFromKept
<1>11. \A n \in DOMAIN F : F[n] = C(seeds[place[n]])  BY <1>8, <1>10 DEF kept
<1>12. SeedsOf(F, seeds, known, assets, place)  BY <1>10, <1>11 DEF SeedsOf, open, C
<1> QED  BY <1>7, <1>9, <1>12 DEF C

\* A file of a rule about files is made of files of the shape it looks for.
LEMMA FileRuleIs ==
  ASSUME NEW rule, NEW known, NEW order \in Seq(DOMAIN repo), Checkout
  PROVE  \E place : FilesOf(FileRule(rule, known, order), rule, known, order, place)
<1> DEFINE open == {path \in DOMAIN repo : OpenFile(rule, path, known)}
           kept == Kept(order, open)
           C(path) == Candidate(FileKey(rule, path), {path}, NoFunction, 0)
           U == {C(path) : path \in DOMAIN repo}
           K == [n \in DOMAIN kept |-> C(kept[n])]
           F == FirstAppended(K)
<1> PICK d \in Nat : \E f : Places(order, open, d, f) /\ kept = [n \in 1..d |-> order[f[n]]]
  <2> HIDE DEF open
  <2> QED  BY KeptIs
<1>0. PICK f : Places(order, open, d, f) /\ kept = [n \in 1..d |-> order[f[n]]]
  <2> HIDE DEF open, kept
  <2> QED  OBVIOUS
<1>1. f \in [1..d -> DOMAIN order] /\ kept = [n \in 1..d |-> order[f[n]]]  BY <1>0 DEF Places
<1>2. DOMAIN K = DOMAIN kept /\ DOMAIN kept = 1..d  BY <1>1
<1> HIDE DEF open, kept, C
<1>3. \A n \in 1..d : kept[n] \in DOMAIN repo
  <2>1. \A k \in DOMAIN order : order[k] \in DOMAIN repo  OBVIOUS
  <2> QED  BY <1>1, <2>1
<1>4. K \in Seq(U) /\ Len(K) = d  BY <1>2, <1>3
<1>5. limit \in Nat  BY DEF Checkout
<1>6. FirstOf(F, K)
  <2> HIDE DEF K, U
  <2> QED  BY <1>4, <1>5, FirstAppendedIs
<1>7. DOMAIN K = 1..d /\ DOMAIN K = DOMAIN Kept(order, open) /\ \A n \in DOMAIN K : K[n] = C(kept[n])
  BY <1>2 DEF kept
<1>8. FileRule(rule, known, order) = F  BY DEF FileRule, kept, open, C
<1> HIDE DEF K, F, U
<1>9. PICK place : /\ Drawn(F, order, open, place)
                   /\ \A n \in DOMAIN F : F[n] = K[n] /\ n \in DOMAIN K /\ Kept(order, open)[n] = order[place[n]]
  <2>1. K \in Seq(U) /\ DOMAIN K = DOMAIN Kept(order, open) /\ FirstOf(F, K)  BY <1>4, <1>6, <1>7
  <2> QED  BY <2>1, DrawnFromKept
<1>10. \A n \in DOMAIN F : F[n] = C(order[place[n]])  BY <1>7, <1>9 DEF kept
<1>11. FilesOf(F, rule, known, order, place)  BY <1>9, <1>10 DEF FilesOf, open, C
<1> QED  BY <1>8, <1>11
-----------------------------------------------------------------------------
(* What the rules rank *)

\* Whatever the file, the search finds heads only.
LEMMA SearchTypes ==
  ASSUME NEW lines \in Seq(Lines)
  PROVE  ToSet(GoFunctions(lines)) \subseteq {Record(lines, k) : k \in Heads(lines)}
<1> DEFINE from == CHOOSE f : f = [i \in 1..(Len(lines) + 1) |-> Search(lines, f, i)]
           n == Len(lines)
           R == {Record(lines, k) : k \in Heads(lines)}
           T == {m \in 0..n : ~\A i \in (n + 1 - m)..(n + 1) : from[i] \in Seq(R)}
<1>1. from = [i \in 1..(Len(lines) + 1) |-> Search(lines, from, i)]  BY SearchExists
<1>2. GoFunctions(lines) = from[1]  BY DEF GoFunctions, Search, Record, Resume
<1>3. n \in Nat  BY LineIs
<1> HIDE DEF from
<1>4. \A i \in 1..(n + 1) : from[i] = Search(lines, from, i)  BY <1>1
<1>5. 0 \notin T
  <2>1. n + 1 \in 1..(n + 1) /\ n + 1 > n  BY <1>3
  <2>2. from[n + 1] = <<>>  BY <1>4, <2>1 DEF Search
  <2>3. \A i \in (n + 1 - 0)..(n + 1) : i = n + 1  BY <1>3
  <2>4. <<>> \in Seq(R)  OBVIOUS
  <2> HIDE DEF R
  <2> QED  BY <2>2, <2>3, <2>4
<1>6. ASSUME NEW m \in 1..n, m - 1 \notin T  PROVE m \notin T
  <2> DEFINE h == n + 1 - m
  <2>1. h \in 1..n /\ h + 1 \in (h + 1)..(n + 1) /\ ~(h > n) /\ h \in 1..(n + 1)  BY <1>3
  <2>2. \A i \in (h + 1)..(n + 1) : from[i] \in Seq(R)
    <3>1. m - 1 \in 0..n /\ n + 1 - (m - 1) = h + 1  BY <1>3
    <3> HIDE DEF R
    <3> QED  BY <1>6, <3>1
  <2>3. from[h] \in Seq(R)
    <3>1. CASE lines[h].func = Nil
      <4>1. from[h] = from[h + 1]  BY <1>4, <2>1, <3>1 DEF Search
      <4> HIDE DEF R, h
      <4> QED  BY <2>1, <2>2, <4>1
    <3>2. CASE lines[h].func # Nil
      <4>1. from[h] = <<Record(lines, h)>> \o from[Resume(lines, h)]  BY <1>4, <2>1, <3>2 DEF Search
      <4>2. Record(lines, h) \in R  BY <2>1, <3>2 DEF Heads
      <4>3. Resume(lines, h) \in (h + 1)..(n + 1)  BY <2>1, ResumeIs
      <4>4. from[Resume(lines, h)] \in Seq(R)
        <5> HIDE DEF R, h
        <5> QED  BY <2>2, <4>3
      <4> HIDE DEF R, h
      <4> QED  BY <4>1, <4>2, <4>4, ToSetCons
    <3> QED  BY <3>1, <3>2
  <2>4. \A i \in h..(n + 1) : i = h \/ i \in (h + 1)..(n + 1)  BY <1>3, <2>1
  <2> HIDE DEF R
  <2>5. \A i \in h..(n + 1) : from[i] \in Seq(R)  BY <2>2, <2>3, <2>4
  <2> QED  BY <2>5
<1> HIDE DEF T
<1>7. n \notin T  BY <1>3, <1>5, <1>6, UpTo
<1> USE DEF T
<1>8. n \in 0..n /\ 1 \in (n + 1 - n)..(n + 1)  BY <1>3
<1> HIDE DEF R
<1>9. from[1] \in Seq(R)  BY <1>7, <1>8
<1>10. \A k \in DOMAIN from[1] : from[1][k] \in R  BY <1>9
<1> QED  BY <1>2, <1>10 DEF ToSet, R

\* The text of a function is part of the file.
LEMMA BodyIs ==
  ASSUME NEW lines \in Seq(Lines), NEW k \in Heads(lines)
  PROVE  IsFiniteSet(DOMAIN Body(lines, Record(lines, k)))
<1> DEFINE n == Len(lines)
           l == LastLine(lines, k)
<1>1. n \in Nat /\ k \in 1..n  BY LineIs DEF Heads
<1>2. l \in Nat /\ l <= n
  <2>1. CASE Ends(lines, k) = {}
    <3>1. l = Min({k + FallbackLines, n})  BY <2>1 DEF LastLine
    <3>2. k + FallbackLines \in Int /\ n \in Int /\ k + FallbackLines >= 0  BY <1>1 DEF FallbackLines
    <3>3. Min({k + FallbackLines, n}) \in {k + FallbackLines, n} /\ Min({k + FallbackLines, n}) <= n
      BY <3>2, PairMin, Zenon
    <3> HIDE DEF l
    <3> QED  BY <1>1, <3>1, <3>2, <3>3
  <2>2. CASE Ends(lines, k) # {}
    <3>1. Ends(lines, k) \in SUBSET Nat /\ \A j \in Ends(lines, k) : j <= n  BY <1>1 DEF Ends
    <3>2. l = Min(Ends(lines, k))  BY <2>2 DEF LastLine
    <3> HIDE DEF l
    <3> QED  BY <2>2, <3>1, <3>2, MinIs
  <2> QED  BY <2>1, <2>2
<1>3. Body(lines, Record(lines, k)) = SubSeq(lines, k, l)  BY DEF Body, Record
<1> HIDE DEF l
<1> DEFINE b == SubSeq(lines, k, l)
<1>4. b \in Seq(Lines)  BY <1>1, <1>2
<1> HIDE DEF b
<1>5. DOMAIN b = 1..Len(b) /\ 1 \in Int /\ Len(b) \in Int  BY <1>4
<1>6. IsFiniteSet(1..Len(b))  BY <1>5, FS_Interval
<1> QED  BY <1>3, <1>5, <1>6 DEF b

\* What is counted in it is finite,
LEMMA CountedIs ==
  ASSUME NEW body, IsFiniteSet(DOMAIN body)
  PROVE  /\ IsFiniteSet(ActiveHits(body)) /\ IsFiniteSet(TerminalGaps(body))
         /\ IsFiniteSet(ActiveOwners(body)) /\ IsFiniteSet(OptionalGaps(body))
<1>1. IsFiniteSet((DOMAIN body) \X Receivers)  BY ReceiversAssumption, FS_Product
<1>2. ActiveHits(body) \in SUBSET ((DOMAIN body) \X Receivers)  BY DEF ActiveHits, TerminalHits
<1>3. TerminalGaps(body) \in SUBSET ActiveHits(body)  BY DEF TerminalGaps
<1>4. ActiveOwners(body) \in SUBSET Receivers  BY <1>2 DEF ActiveOwners
<1>5. OptionalGaps(body) \in SUBSET (DOMAIN body)  BY DEF OptionalGaps
<1>6. IsFiniteSet(ActiveHits(body))  BY <1>1, <1>2, FS_Subset
<1> QED  BY <1>3, <1>4, <1>5, <1>6, ReceiversAssumption, FS_Subset

\* and scores are numbers.
LEMMA ScoresAre ==
  ASSUME Checkout, NEW p \in DOMAIN repo
  PROVE  /\ IngressScore(p) \in Int
         /\ \A k \in Heads(repo[p]) : /\ TerminalScore(p, Record(repo[p], k)) \in Int
                                      /\ OptionalScore(p, Record(repo[p], k)) \in Int
<1>1. repo[p] \in Seq(Lines)  BY DEF Checkout
<1>2. ASSUME NEW S, IsFiniteSet(S), NEW b \in Int
      PROVE  Cardinality(S) \in Int /\ Min({Cardinality(S), b}) \in Int
  <2>1. Cardinality(S) \in Int  BY <1>2, FS_CardinalityType
  <2>2. Min({Cardinality(S), b}) \in {Cardinality(S), b}  BY <2>1, PairMin, Zenon
  <2> QED  BY <2>1, <2>2
<1>3. IngressScore(p) \in Int
  <2>1. IsFiniteSet(DOMAIN repo[p])
    <3>1. DOMAIN repo[p] = 1..Len(repo[p]) /\ Len(repo[p]) \in Nat  BY <1>1
    <3> QED  BY <3>1, FS_Interval
  <2>2. IngressHits(p) \in SUBSET (DOMAIN repo[p])  BY DEF IngressHits
  <2>3. IsFiniteSet(IngressHits(p)) /\ 5 \in Int  BY <2>1, <2>2, FS_Subset
  <2>4. Min({Cardinality(IngressHits(p)), 5}) \in Int  BY <1>2, <2>3
  <2> QED  BY <2>4 DEF IngressScore
<1>4. ASSUME NEW k \in Heads(repo[p])  PROVE TerminalScore(p, Record(repo[p], k)) \in Int
  <2> DEFINE fn == Record(repo[p], k)
             body == Body(repo[p], fn)
  <2>1. IsFiniteSet(DOMAIN body)  BY <1>1, BodyIs
  <2> HIDE DEF body
  <2>2. /\ IsFiniteSet(ActiveHits(body)) /\ IsFiniteSet(TerminalGaps(body)) /\ IsFiniteSet(ActiveOwners(body))
        /\ 8 \in Int
    BY <2>1, CountedIs
  <2>3. /\ Min({Cardinality(ActiveHits(body)), 8}) \in Int
        /\ Cardinality(TerminalGaps(body)) \in Int /\ Cardinality(ActiveOwners(body)) \in Int
    BY <1>2, <2>2
  <2>4. Points(p, fn.name) \in Int  BY DEF Points
  <2> HIDE DEF fn
  <2>5. TerminalScore(p, fn) =
          40 + 3 * Min({Cardinality(ActiveHits(body)), 8}) + 12 * Cardinality(TerminalGaps(body))
          + 4 * Cardinality(ActiveOwners(body)) + Points(p, fn.name)
          + (IF \E h \in ActiveHits(body) : "commit" \in body[h[1]].marks THEN 8 ELSE 0)
    BY DEF TerminalScore, body
  <2> DEFINE x == Min({Cardinality(ActiveHits(body)), 8})
             y == Cardinality(TerminalGaps(body))
             z == Cardinality(ActiveOwners(body))
             w == IF \E h \in ActiveHits(body) : "commit" \in body[h[1]].marks THEN 8 ELSE 0
             v == Points(p, fn.name)
  <2>6. w \in Int  OBVIOUS
  <2>7. TerminalScore(p, fn) = 40 + 3 * x + 12 * y + 4 * z + v + w  BY <2>5
  <2>8. x \in Int /\ y \in Int /\ z \in Int /\ v \in Int  BY <2>3, <2>4
  <2> HIDE DEF x, y, z, v, w
  <2>9. TerminalScore(p, fn) \in Int  BY <2>6, <2>7, <2>8
  <2> QED  BY <2>9 DEF fn
<1>5. ASSUME NEW k \in Heads(repo[p])  PROVE OptionalScore(p, Record(repo[p], k)) \in Int
  <2> DEFINE fn == Record(repo[p], k)
             gaps == OptionalGaps(Body(repo[p], fn))
             x == Min({Cardinality(gaps), 4})
             v == IF p \in SignalPaths THEN 24 ELSE 0
             w == IF \E j \in gaps : StrongLater(Body(repo[p], fn), j) THEN 12 ELSE 0
  <2>1. IsFiniteSet(DOMAIN Body(repo[p], fn))  BY <1>1, BodyIs
  <2>2. IsFiniteSet(gaps) /\ 4 \in Int
    <3> DEFINE body == Body(repo[p], fn)
    <3> HIDE DEF body
    <3>1. IsFiniteSet(OptionalGaps(body))  BY <2>1, CountedIs DEF body
    <3> QED  BY <3>1 DEF body
  <2>3. x \in Int
    <3> HIDE DEF gaps
    <3> QED  BY <1>2, <2>2
  <2>4. v \in Int /\ w \in Int  OBVIOUS
  <2>5. OptionalScore(p, fn) = 42 + 12 * x + v + w  BY DEF OptionalScore
  <2> HIDE DEF x, v, w
  <2>6. OptionalScore(p, fn) \in Int  BY <2>3, <2>4, <2>5
  <2> QED  BY <2>6
<1> QED  BY <1>3, <1>4, <1>5

\* Candidates about one file each, at most one of them about a function, can be sorted.
LEMMA SortableIs ==
  ASSUME Checkout, NEW S, IsFiniteSet(S),
         \A c \in S : \E p \in DOMAIN repo :
           /\ c.paths = {p} /\ c.score \in Int
           /\ c.fn = NoFunction \/ \E k \in Heads(repo[p]) : c.fn = Record(repo[p], k),
         \A c, d \in S : c.paths = d.paths /\ c.fn.first = d.fn.first => c = d
  PROVE  Sortable(S)
<1>1. ASSUME NEW c \in S, NEW p \in DOMAIN repo, c.paths = {p}
      PROVE  /\ SortKey(c)[1] = -c.score /\ SortKey(c)[2] = PathRank[p]
             /\ SortKey(c)[3] = IF c.fn = NoFunction THEN 0 ELSE NameRank[c.fn.name]
             /\ SortKey(c)[4] = c.fn.first
  <2>1. (CHOOSE q \in c.paths : TRUE) = p  BY <1>1
  <2> QED  BY <2>1 DEF SortKey
<1>2. ASSUME NEW c \in S, NEW n \in 1..4  PROVE SortKey(c)[n] \in Int
  <2>1. PICK p \in DOMAIN repo :
          /\ c.paths = {p} /\ c.score \in Int
          /\ c.fn = NoFunction \/ \E k \in Heads(repo[p]) : c.fn = Record(repo[p], k)
    OBVIOUS
  <2>2. SortKey(c)[1] \in Int /\ SortKey(c)[2] \in Int  BY <1>1, <2>1 DEF Checkout
  <2>3. SortKey(c)[3] \in Int /\ SortKey(c)[4] \in Int
    <3>1. CASE c.fn = NoFunction  BY <1>1, <2>1, <3>1 DEF NoFunction
    <3>2. CASE c.fn # NoFunction
      <4>1. PICK k \in Heads(repo[p]) : c.fn = Record(repo[p], k)  BY <2>1, <3>2
      <4>2. repo[p] \in Seq(Lines)  BY DEF Checkout
      <4>3. k \in 1..Len(repo[p]) /\ repo[p][k].func \in Names  BY <4>2, LineIs DEF Heads
      <4>4. c.fn.first \in Int /\ c.fn.name \in Names  BY <4>1, <4>3 DEF Record
      <4>5. NameRank[c.fn.name] \in Int  BY <4>4, RanksAssumption
      <4> QED  BY <1>1, <2>1, <3>2, <4>4, <4>5
    <3> QED  BY <3>1, <3>2
  <2>4. n = 1 \/ n = 2 \/ n = 3 \/ n = 4  OBVIOUS
  <2> QED  BY <2>2, <2>3, <2>4
<1>3. ASSUME NEW c \in S, NEW d \in S, \A n \in 1..4 : SortKey(c)[n] = SortKey(d)[n]  PROVE c = d
  <2>1. PICK p \in DOMAIN repo : c.paths = {p}  OBVIOUS
  <2>2. PICK q \in DOMAIN repo : d.paths = {q}  OBVIOUS
  <2>3. SortKey(c)[2] = SortKey(d)[2] /\ SortKey(c)[4] = SortKey(d)[4]
    <3>1. 2 \in 1..4 /\ 4 \in 1..4  OBVIOUS
    <3> QED  BY <1>3, <3>1
  <2>4. PathRank[p] = PathRank[q] /\ c.fn.first = d.fn.first  BY <1>1, <2>1, <2>2, <2>3
  <2>5. p = q  BY <2>4 DEF Checkout
  <2> QED  BY <2>1, <2>2, <2>4, <2>5
<1> QED  BY <1>2, <1>3 DEF Sortable

\* The files the state-ingress rule ranks.
LEMMA IngressSortable ==
  ASSUME Checkout  PROVE Sortable(IngressCandidates)
<1> DEFINE C(p) == Candidate(FileKey("state-ingress", p), {p}, NoFunction, IngressScore(p))
           P == {q \in DOMAIN repo : OwnedByUser(q)}
           g == [p \in P |-> C(p)]
           S == {C(p) : p \in P}
<1>1. IngressCandidates = S  BY DEF IngressCandidates
<1>2. IsFiniteSet(S)
  <2>1. P \in SUBSET (DOMAIN repo)  OBVIOUS
  <2> HIDE DEF P, C
  <2>2. IsFiniteSet(P)  BY <2>1, FS_Subset DEF Checkout
  <2> HIDE DEF g
  <2>3. IsFiniteSet({g[p] : p \in P})  BY <2>2, FiniteImage
  <2>4. S = {g[p] : p \in P}  BY DEF g
  <2> QED  BY <2>3, <2>4
<1>3. \A p \in P : C(p).paths = {p} /\ C(p).score \in Int /\ C(p).fn = NoFunction
  BY ScoresAre DEF Candidate
<1>4. \A c \in S : \E p \in DOMAIN repo :
        /\ c.paths = {p} /\ c.score \in Int
        /\ c.fn = NoFunction \/ \E k \in Heads(repo[p]) : c.fn = Record(repo[p], k)
  BY <1>3
<1>5. ASSUME NEW c \in S, NEW d \in S, c.paths = d.paths  PROVE c = d
  <2>1. PICK p \in P : c = C(p)  OBVIOUS
  <2>2. PICK q \in P : d = C(q)  OBVIOUS
  <2> HIDE DEF C, P
  <2>3. {p} = {q}  BY <1>3, <1>5, <2>1, <2>2
  <2>4. p = q  BY <2>3
  <2> QED  BY <2>1, <2>2, <2>4
<1> HIDE DEF S
<1>6. Sortable(S)  BY <1>2, <1>4, <1>5, SortableIs
<1> QED  BY <1>1, <1>6

\* A set of candidates about functions, one that G tells for a function.
OfFunctions(S, G) ==
  \A c \in S : \E p \in DOMAIN repo : \E k \in Heads(repo[p]) :
    c = G[<<p, Record(repo[p], k)>>] /\ c.paths = {p} /\ c.fn = Record(repo[p], k) /\ c.score \in Int

\* Sets of candidates about functions can be ranked too.
LEMMA FunctionsSortable ==
  ASSUME Checkout, NEW S, NEW G, OfFunctions(S, G)
  PROVE  Sortable(S)
<1> DEFINE R(p) == {Record(repo[p], k) : k \in Heads(repo[p])}
           RR == {R(p) : p \in DOMAIN repo}
           D == (DOMAIN repo) \X (UNION RR)
<1>1. IsFiniteSet(DOMAIN repo) /\ \A p \in DOMAIN repo : repo[p] \in Seq(Lines)  BY DEF Checkout
<1>2. ASSUME NEW p \in DOMAIN repo  PROVE IsFiniteSet(R(p))
  <2> DEFINE H == Heads(repo[p])
             f == [k \in H |-> Record(repo[p], k)]
  <2>1. H \in SUBSET (1..Len(repo[p])) /\ Len(repo[p]) \in Int /\ 1 \in Int  BY <1>1, LineIs DEF Heads
  <2> HIDE DEF H
  <2>2. IsFiniteSet(1..Len(repo[p]))
    <3> DEFINE e == Len(repo[p])
    <3>1. e \in Int /\ 1 \in Int  BY <2>1
    <3> HIDE DEF e
    <3>2. IsFiniteSet(1..e)  BY <3>1, FS_Interval
    <3> QED  BY <3>2 DEF e
  <2>3. IsFiniteSet(H)  BY <2>1, <2>2, FS_Subset
  <2> HIDE DEF f
  <2>4. IsFiniteSet({f[k] : k \in H})  BY <2>3, FiniteImage
  <2>5. R(p) = {f[k] : k \in H}  BY DEF f, H
  <2> QED  BY <2>4, <2>5
<1>3. IsFiniteSet(RR)
  <2> DEFINE f == [p \in DOMAIN repo |-> R(p)]
  <2> HIDE DEF R, f
  <2>1. IsFiniteSet({f[p] : p \in DOMAIN repo})  BY <1>1, FiniteImage
  <2>2. RR = {f[p] : p \in DOMAIN repo}  BY DEF f
  <2> QED  BY <2>1, <2>2
<1>4. IsFiniteSet(UNION RR)
  <2> HIDE DEF R
  <2>1. \A T \in RR : IsFiniteSet(T)  BY <1>2
  <2> HIDE DEF RR
  <2> QED  BY <1>3, <2>1, FS_UNION
<1>5. IsFiniteSet(D)
  <2> HIDE DEF RR
  <2> QED  BY <1>1, <1>4, FS_Product
<1>6. IsFiniteSet(S)
  <2> DEFINE I == {G[x] : x \in D}
  <2>1. IsFiniteSet(I)
    <3> HIDE DEF D
    <3> QED  BY <1>5, FiniteImage
  <2>2. ASSUME NEW c \in S  PROVE c \in I
    <3>1. PICK p \in DOMAIN repo : \E k \in Heads(repo[p]) : c = G[<<p, Record(repo[p], k)>>]
      BY DEF OfFunctions
    <3>2. PICK k \in Heads(repo[p]) : c = G[<<p, Record(repo[p], k)>>]  BY <3>1
    <3>3. Record(repo[p], k) \in R(p)  OBVIOUS
    <3>4. R(p) \in RR  OBVIOUS
    <3> HIDE DEF R, RR
    <3>5. <<p, Record(repo[p], k)>> \in D  BY <3>3, <3>4
    <3> HIDE DEF D
    <3> QED  BY <3>2, <3>5
  <2> HIDE DEF I
  <2>3. S \in SUBSET I  BY <2>2
  <2> QED  BY <2>1, <2>3, FS_Subset
<1>7. \A c \in S : \E p \in DOMAIN repo :
        /\ c.paths = {p} /\ c.score \in Int
        /\ c.fn = NoFunction \/ \E k \in Heads(repo[p]) : c.fn = Record(repo[p], k)
  <2> TAKE c \in S
  <2>1. PICK p \in DOMAIN repo : \E k \in Heads(repo[p]) :
          c.paths = {p} /\ c.fn = Record(repo[p], k) /\ c.score \in Int
    BY DEF OfFunctions
  <2> QED  BY <2>1
<1>8. ASSUME NEW c \in S, NEW d \in S, c.paths = d.paths, c.fn.first = d.fn.first  PROVE c = d
  <2> DEFINE Is(x, p, k) == /\ x = G[<<p, Record(repo[p], k)>>] /\ x.paths = {p}
                            /\ x.fn = Record(repo[p], k)
  <2>0. \A x \in S : \E p \in DOMAIN repo : \E k \in Heads(repo[p]) : Is(x, p, k)  BY DEF OfFunctions
  <2>1. PICK p \in DOMAIN repo : \E k : Is(c, p, k)
    <3> HIDE DEF Is
    <3> QED  BY <2>0
  <2> PICK k : Is(c, p, k)  BY <2>1
  <2>2. PICK q \in DOMAIN repo : \E l : Is(d, q, l)
    <3> HIDE DEF Is
    <3> QED  BY <2>0
  <2> PICK l : Is(d, q, l)  BY <2>2
  <2>3. p = q  BY <1>8
  <2>4. c.fn.first = k /\ d.fn.first = l
    <3>1. Record(repo[p], k).first = k /\ Record(repo[q], l).first = l  BY DEF Record
    <3> QED  BY <3>1
  <2>5. k = l  BY <1>8, <2>4
  <2> QED  BY <2>3, <2>5
<1> QED  BY <1>6, <1>7, <1>8, SortableIs

\* The functions the other two rules rank.
LEMMA TerminalSortable ==
  ASSUME Checkout, NEW known  PROVE Sortable(TerminalCandidates(known))
<1> DEFINE rule == "terminal-action-error"
           X == {<<p, Record(repo[p], k)>> : p \in DOMAIN repo, k \in Nat}
           C(p, fn) == Candidate(FunctionKey(rule, p, fn.name), {p}, fn, TerminalScore(p, fn))
           G == [x \in X |-> C(x[1], x[2])]
<1>1. ASSUME NEW c \in TerminalCandidates(known)
      PROVE  \E p \in DOMAIN repo : \E k \in Heads(repo[p]) :
               c = G[<<p, Record(repo[p], k)>>] /\ c.paths = {p} /\ c.fn = Record(repo[p], k) /\ c.score \in Int
  <2>1. PICK p \in DOMAIN repo : c \in TerminalIn(p, known)  BY DEF TerminalCandidates
  <2>2. PICK fn \in FunctionsOf(p) : c = C(p, fn)  BY <2>1 DEF TerminalIn
  <2>3. repo[p] \in Seq(Lines)  BY DEF Checkout
  <2>4. PICK k \in Heads(repo[p]) : fn = Record(repo[p], k)  BY <2>3, SearchTypes DEF FunctionsOf
  <2>5. <<p, fn>> \in X  BY <2>4 DEF Heads
  <2> HIDE DEF X
  <2>6. G[<<p, fn>>] = C(p, fn)  BY <2>5
  <2>7. C(p, fn).paths = {p} /\ C(p, fn).fn = fn /\ C(p, fn).score = TerminalScore(p, fn)  BY DEF Candidate
  <2>8. TerminalScore(p, fn) \in Int  BY <2>4, ScoresAre
  <2> HIDE DEF C, G
  <2> QED  BY <2>2, <2>4, <2>6, <2>7, <2>8
<1> HIDE DEF G
<1>2. OfFunctions(TerminalCandidates(known), G)  BY <1>1 DEF OfFunctions
<1> QED  BY <1>2, FunctionsSortable

\* So can the candidates of the optional-sibling rule.
LEMMA OptionalSortable ==
  ASSUME Checkout, NEW known  PROVE Sortable(OptionalCandidates(known))
<1> DEFINE rule == "optional-sibling-early-return"
           X == {<<p, Record(repo[p], k)>> : p \in DOMAIN repo, k \in Nat}
           C(p, fn) == Candidate(FunctionKey(rule, p, fn.name), {p}, fn, OptionalScore(p, fn))
           G == [x \in X |-> C(x[1], x[2])]
<1>1. ASSUME NEW c \in OptionalCandidates(known)
      PROVE  \E p \in DOMAIN repo : \E k \in Heads(repo[p]) :
               c = G[<<p, Record(repo[p], k)>>] /\ c.paths = {p} /\ c.fn = Record(repo[p], k) /\ c.score \in Int
  <2>1. PICK p \in DOMAIN repo : c \in OptionalIn(p, known)  BY DEF OptionalCandidates
  <2>2. PICK fn \in FunctionsOf(p) : c = C(p, fn)  BY <2>1 DEF OptionalIn
  <2>3. repo[p] \in Seq(Lines)  BY DEF Checkout
  <2>4. PICK k \in Heads(repo[p]) : fn = Record(repo[p], k)  BY <2>3, SearchTypes DEF FunctionsOf
  <2>5. <<p, fn>> \in X  BY <2>4 DEF Heads
  <2> HIDE DEF X
  <2>6. G[<<p, fn>>] = C(p, fn)  BY <2>5
  <2>7. C(p, fn).paths = {p} /\ C(p, fn).fn = fn /\ C(p, fn).score = OptionalScore(p, fn)  BY DEF Candidate
  <2>8. OptionalScore(p, fn) \in Int  BY <2>4, ScoresAre
  <2> HIDE DEF C, G
  <2> QED  BY <2>2, <2>4, <2>6, <2>7, <2>8
<1> HIDE DEF G
<1>2. OfFunctions(OptionalCandidates(known), G)  BY <1>1 DEF OfFunctions
<1> QED  BY <1>2, FunctionsSortable

\* What is ranked and cut is made of what is ranked.
LEMMA RankedFile ==
  ASSUME NEW S, Sortable(S), NEW n \in Int
  PROVE  FirstLimited(Ranked(S), n) \in Seq(S)
<1>1. Ranked(S) \in Seq(S)  BY RankedIs
<1> QED  BY <1>1, FirstLimitedIs

\* The dynamic part of a state-ingress file: files that user statements own, each once.
LEMMA DynamicIngressIs ==
  ASSUME Checkout, NEW known, NEW e \in Int
  PROVE  LET F == DynamicIngress(known, e)
         IN  /\ F \in Seq({c \in IngressCandidates : Fresh(c.key, known)})
             /\ \A m, n \in DOMAIN F : m # n => F[m] # F[n]
<1> DEFINE S == IngressCandidates
           s == Ranked(S)
           fresh == {c \in S : Fresh(c.key, known)}
           K == Kept(s, fresh)
           F == FirstLimited(K, limit - e)
           C == Cardinality(S)
<1>1. C \in Nat /\ s \in [1..C -> S] /\ \A m, n \in 1..C : m # n => s[m] # s[n]
  BY IngressSortable, RankedIs
<1>2. s \in Seq(S) /\ DOMAIN s = 1..C  BY <1>1
<1> HIDE DEF s
<1>3. PICK d \in Nat : \E f : Places(s, fresh, d, f) /\ K = [n \in 1..d |-> s[f[n]]]
  <2>1. s \in Seq(S)  BY <1>2
  <2> HIDE DEF fresh, S
  <2>2. \E d \in Nat : \E f : Places(s, fresh, d, f) /\ Kept(s, fresh) = [n \in 1..d |-> s[f[n]]]
    BY <2>1, KeptIs
  <2> QED  BY <2>2
<1>4. PICK f : Places(s, fresh, d, f) /\ K = [n \in 1..d |-> s[f[n]]]
  <2> HIDE DEF fresh, S, K
  <2> QED  BY <1>3
<1> HIDE DEF fresh, K
<1>5. \A n \in 1..d : f[n] \in 1..C /\ s[f[n]] \in fresh  BY <1>2, <1>4 DEF Places
<1>6. K \in Seq(fresh) /\ DOMAIN K = 1..d  BY <1>4, <1>5
<1>7. ASSUME NEW m \in 1..d, NEW n \in 1..d, m # n  PROVE K[m] # K[n]
  <2>1. m < n \/ n < m  BY <1>7
  <2>2. f[m] < f[n] \/ f[n] < f[m]  BY <1>4, <2>1 DEF Places
  <2>3. f[m] \in 1..C /\ f[n] \in 1..C  BY <1>5
  <2>4. f[m] # f[n]  BY <2>2, <2>3
  <2>5. s[f[m]] # s[f[n]]  BY <1>1, <2>3, <2>4
  <2> QED  BY <1>4, <2>5
<1>8. limit - e \in Int  BY DEF Checkout
<1>9. FirstOf(F, K) /\ F \in Seq(fresh)
  <2> DEFINE l == limit - e
  <2>1. l \in Int  BY <1>8
  <2> HIDE DEF l
  <2>2. FirstOf(FirstLimited(K, l), K) /\ FirstLimited(K, l) \in Seq(fresh)  BY <1>6, <2>1, FirstLimitedIs
  <2> QED  BY <2>2 DEF l
<1>10. DynamicIngress(known, e) = F  BY DEF DynamicIngress, K, s, fresh
<1> HIDE DEF F
<1>11. \A n \in DOMAIN F : n \in 1..d /\ F[n] = K[n]
  <2>1. PICK m \in 0..Len(K) : DOMAIN F = 1..m /\ \A k \in 1..m : F[k] = K[k]  BY <1>9 DEF FirstOf
  <2>2. Len(K) \in Nat /\ DOMAIN K = 1..Len(K)  BY <1>6
  <2>3. Len(K) = d  BY <1>6, <2>2
  <2> QED  BY <2>1, <2>3
<1>12. \A m, n \in DOMAIN F : m # n => F[m] # F[n]  BY <1>7, <1>11
<1> QED  BY <1>9, <1>10, <1>12 DEF fresh
-----------------------------------------------------------------------------
(* Files of candidates *)

\* Every candidate of a file is new to the queue, and one of the pooled-session and
\* session-restore rules is about a file without a state-ingress target.
NewTo(F, known) ==
  \A n \in DOMAIN F :
    LET key == F[n].key
    IN  /\ key \notin known
        /\ key[1] \in {"pooled-session-state", "user-session-state-restore"} =>
             \E q : key = FileKey(key[1], q) /\ FileKey("state-ingress", q) \notin known

\* No two candidates of a file are about the same source.
Apart(F) == \A m, n \in DOMAIN F : m # n => F[m].paths \cap F[n].paths = {}

Seeds(seeds) == {seeds[n] : n \in 1..4}

\* The tables of seeds are sequences.
LEMMA TablesAre ==
  /\ IdentityTokenSeeds \in Seq(Seeds(IdentityTokenSeeds)) /\ DOMAIN IdentityTokenSeeds = 1..4
  /\ StateIngressSeeds \in Seq(Seeds(StateIngressSeeds)) /\ DOMAIN StateIngressSeeds = 1..4
<1>1. ASSUME NEW a, NEW b, NEW c, NEW d
      PROVE  <<a, b, c, d>> \in Seq({<<a, b, c, d>>[n] : n \in 1..4}) /\ DOMAIN <<a, b, c, d>> = 1..4
  OBVIOUS
<1> QED  BY <1>1 DEF IdentityTokenSeeds, StateIngressSeeds, Seeds

\* A file of seeds is new and, if the table is, apart.
LEMMA SeedsFile ==
  ASSUME Checkout, NEW T, NEW seeds \in Seq(T), NEW known, NEW assets
  PROVE  LET F == OpenSeeds(seeds, known, assets)
         IN  /\ NewTo(F, known)
             /\ \A n \in DOMAIN F : \E k \in DOMAIN seeds : F[n].paths = seeds[k].paths
             /\ (\A k, l \in DOMAIN seeds : k # l => seeds[k].paths \cap seeds[l].paths = {}) => Apart(F)
<1> DEFINE F == OpenSeeds(seeds, known, assets)
           open == {seed \in ToSet(seeds) : OpenSeed(seed, known, assets)}
<1>0. PICK place : SeedsOf(F, seeds, known, assets, place)  BY OpenSeedsAre
<1> HIDE DEF F
<1>1. /\ Drawn(F, seeds, open, place)
      /\ \A n \in DOMAIN F :
           LET seed == seeds[place[n]] IN F[n] = Candidate(SeedKey(seed), seed.paths, NoFunction, 0)
  BY <1>0 DEF SeedsOf
<1>2. ASSUME NEW n \in DOMAIN F
      PROVE  /\ place[n] \in DOMAIN seeds /\ F[n].paths = seeds[place[n]].paths
             /\ F[n].key = <<"seed", seeds[place[n]].name>> /\ F[n].key \notin known
  <2> DEFINE seed == seeds[place[n]]
  <2>1. place[n] \in DOMAIN seeds /\ seed \in open /\ F[n] = Candidate(SeedKey(seed), seed.paths, NoFunction, 0)
    BY <1>1 DEF Drawn
  <2> HIDE DEF seed
  <2>2. SeedKey(seed) \notin known  BY <2>1 DEF OpenSeed, Fresh
  <2>3. F[n].key = SeedKey(seed) /\ F[n].paths = seed.paths  BY <2>1 DEF Candidate
  <2> QED  BY <2>1, <2>2, <2>3 DEF SeedKey, seed
<1>3. NewTo(F, known)
  <2>1. ASSUME NEW n \in DOMAIN F  PROVE F[n].key[1] \notin {"pooled-session-state", "user-session-state-restore"}
    BY <1>2
  <2> QED  BY <1>2, <2>1 DEF NewTo
<1>4. ASSUME \A k, l \in DOMAIN seeds : k # l => seeds[k].paths \cap seeds[l].paths = {}  PROVE Apart(F)
  <2> SUFFICES ASSUME NEW m \in DOMAIN F, NEW n \in DOMAIN F, m # n  PROVE F[m].paths \cap F[n].paths = {}
    BY DEF Apart
  <2>1. place[m] # place[n]  BY <1>1 DEF Drawn
  <2> QED  BY <1>2, <1>4, <2>1
<1> QED  BY <1>2, <1>3, <1>4 DEF F

\* The rules about files give each file once, in whatever order the files are listed.
LEMMA FilesFile ==
  ASSUME Checkout, NEW rule \in {"pooled-session-state", "user-session-state-restore"}, NEW known,
         NEW order \in Orders(rule)
  PROVE  NewTo(FileRule(rule, known, order), known) /\ Apart(FileRule(rule, known, order))
<1> DEFINE F == FileRule(rule, known, order)
           open == {path \in DOMAIN repo : OpenFile(rule, path, known)}
<1>1. Cardinality(DOMAIN repo) \in Nat  BY FS_CardinalityType DEF Checkout
<1>2. order \in [1..Cardinality(DOMAIN repo) -> DOMAIN repo] /\ IsInjective(order)  BY DEF Orders
<1>3. order \in Seq(DOMAIN repo) /\ DOMAIN order = 1..Cardinality(DOMAIN repo)  BY <1>1, <1>2
<1>0. PICK place : FilesOf(F, rule, known, order, place)  BY <1>3, FileRuleIs
<1> HIDE DEF F
<1>4. /\ Drawn(F, order, open, place)
      /\ \A n \in DOMAIN F :
           LET path == order[place[n]] IN F[n] = Candidate(FileKey(rule, path), {path}, NoFunction, 0)
  BY <1>0 DEF FilesOf
<1>5. ASSUME NEW n \in DOMAIN F
      PROVE  LET path == order[place[n]]
             IN  /\ place[n] \in DOMAIN order /\ path \in DOMAIN repo
                 /\ F[n].paths = {path} /\ F[n].key = FileKey(rule, path)
                 /\ FileKey(rule, path) \notin known /\ FileKey("state-ingress", path) \notin known
  <2> DEFINE path == order[place[n]]
  <2>1. place[n] \in DOMAIN order /\ path \in open /\ F[n] = Candidate(FileKey(rule, path), {path}, NoFunction, 0)
    BY <1>4 DEF Drawn
  <2> HIDE DEF path
  <2>2. path \in DOMAIN repo /\ FileKey(rule, path) \notin known /\ FileKey("state-ingress", path) \notin known
    BY <2>1 DEF OpenFile, Fresh
  <2>3. F[n].key = FileKey(rule, path) /\ F[n].paths = {path}  BY <2>1 DEF Candidate
  <2> QED  BY <2>1, <2>2, <2>3 DEF path
<1>6. \A path : FileKey(rule, path)[1] = rule  BY DEF FileKey
<1>7. NewTo(F, known)
  <2> SUFFICES ASSUME NEW n \in DOMAIN F
               PROVE  /\ F[n].key \notin known
                      /\ \E q :
                           F[n].key = FileKey(F[n].key[1], q) /\ FileKey("state-ingress", q) \notin known
    BY DEF NewTo
  <2> DEFINE path == order[place[n]]
  <2>1. /\ path \in DOMAIN repo /\ F[n].key = FileKey(rule, path)
        /\ F[n].key \notin known /\ FileKey("state-ingress", path) \notin known
    BY <1>5
  <2> HIDE DEF path
  <2>2. F[n].key[1] = rule  BY <1>6, <2>1
  <2> QED  BY <2>1, <2>2
<1>8. Apart(F)
  <2> SUFFICES ASSUME NEW m \in DOMAIN F, NEW n \in DOMAIN F, m # n  PROVE F[m].paths \cap F[n].paths = {}
    BY DEF Apart
  <2>1. place[m] # place[n]  BY <1>4 DEF Drawn
  <2>2. order[place[m]] # order[place[n]]  BY <1>2, <1>5, <2>1 DEF IsInjective
  <2> QED  BY <1>5, <2>2
<1> QED  BY <1>7, <1>8 DEF F

\* No two seeds of a table share a source.
LEMMA IdentityTokenApart ==
  \A k, l \in 1..4 : k # l => IdentityTokenSeeds[k].paths \cap IdentityTokenSeeds[l].paths = {}
<1> DEFINE s == IdentityTokenSeeds
<1>1. /\ s[1].paths = {<<"pkg", "ddl", "job_scheduler.go">>, <<"pkg", "ddl", "reorg.go">>, <<"pkg", "ddl", "ddl.go">>}
      /\ s[2].paths = {<<"br", "pkg", "registry", "registration.go">>, <<"br", "pkg", "registry", "heartbeat.go">>}
      /\ s[3].paths = {<<"br", "pkg", "utils", "storewatch", "watching.go">>, <<"br", "pkg", "backup", "store.go">>,
                       <<"br", "pkg", "restore", "data", "data.go">>}
      /\ s[4].paths = {<<"pkg", "planner", "core", "optimizer.go">>,
                       <<"pkg", "domain", "infosync", "tiflash_manager.go">>,
                       <<"pkg", "store", "copr", "mpp_probe.go">>}
  BY DEF IdentityTokenSeeds, Seed
<1> HIDE DEF s
<1>2. /\ \A p \in s[1].paths : p[1] = "pkg" /\ p[2] = "ddl"
      /\ \A p \in s[2].paths : p[1] = "br" /\ p[3] = "registry"
      /\ \A p \in s[3].paths : p[1] = "br" /\ p[3] # "registry"
      /\ \A p \in s[4].paths : p[1] = "pkg" /\ p[2] # "ddl"
  BY <1>1
<1>3. \A k \in 1..4 : k = 1 \/ k = 2 \/ k = 3 \/ k = 4  OBVIOUS
<1>4. \A k, l \in 1..4 : k < l => s[k].paths \cap s[l].paths = {}  BY <1>2, <1>3
<1>5. ASSUME NEW k \in 1..4, NEW l \in 1..4, k # l  PROVE s[k].paths \cap s[l].paths = {}
  <2>1. k < l \/ l < k  BY <1>5
  <2> QED  BY <1>4, <2>1
<1> QED  BY <1>5 DEF s

\* Nor do those of this table, and the scan of the same rule proposes none of their sources.
LEMMA StateIngressApart ==
  /\ \A k, l \in 1..4 : k # l => StateIngressSeeds[k].paths \cap StateIngressSeeds[l].paths = {}
  /\ \A k \in 1..4 : \A p \in StateIngressSeeds[k].paths : ~OwnedByUser(p)
<1> DEFINE s == StateIngressSeeds
           session == <<"pkg", "session", "session.go">>
<1>1. /\ s[1].paths = {<<"pkg", "planner", "core", "planbuilder.go">>, session}
      /\ s[2].paths = {<<"pkg", "ddl", "foreign_key.go">>}
      /\ s[3].paths = {<<"pkg", "executor", "simple.go">>}
      /\ s[4].paths = {<<"pkg", "planner", "indexadvisor", "utils.go">>}
  BY DEF StateIngressSeeds, Seed
<1> HIDE DEF s
<1>2. /\ \A p \in s[1].paths : p[3] \in {"core", "session.go"}
      /\ \A p \in s[2].paths : p[3] = "foreign_key.go"
      /\ \A p \in s[3].paths : p[3] = "simple.go"
      /\ \A p \in s[4].paths : p[3] = "indexadvisor"
  BY <1>1
<1>3. \A k \in 1..4 : k = 1 \/ k = 2 \/ k = 3 \/ k = 4  OBVIOUS
<1>4. \A k, l \in 1..4 : k < l => s[k].paths \cap s[l].paths = {}  BY <1>2, <1>3
<1>5. ASSUME NEW k \in 1..4, NEW l \in 1..4, k # l  PROVE s[k].paths \cap s[l].paths = {}
  <2>1. k < l \/ l < k  BY <1>5
  <2> QED  BY <1>4, <2>1
<1>6. In(session, Background \cup {<<"pkg", "ddl">>})
  <2> DEFINE d == <<"pkg", "session">>
  <2>1. Len(d) = 2 /\ Len(session) = 3  OBVIOUS
  <2>2. SubSeq(d, 1, 2) = SubSeq(session, 1, 2)  OBVIOUS
  <2>3. d # session  BY <2>1
  <2>4. d \in Background \cup {<<"pkg", "ddl">>}  BY DEF Background
  <2>5. IsStrictPrefix(d, session)  BY <2>1, <2>2, <2>3 DEF IsStrictPrefix, IsPrefix
  <2> QED  BY <2>4, <2>5 DEF In
<1>7. \A k \in 1..4 : \A p \in s[k].paths : p \in KnownIngressPaths \/ p = session
  BY <1>1, <1>3 DEF KnownIngressPaths
<1>8. \A p : OwnedByUser(p) => p \notin KnownIngressPaths /\ ~In(p, Background \cup {<<"pkg", "ddl">>})
  BY DEF OwnedByUser
<1> HIDE DEF session
<1>9. \A k \in 1..4 : \A p \in s[k].paths : ~OwnedByUser(p)  BY <1>6, <1>7, <1>8
<1> QED  BY <1>5, <1>9 DEF s

\* A state-ingress file: seeds, then files.
LEMMA StateIngressFile ==
  ASSUME Checkout, NEW known, NEW assets
  PROVE  NewTo(StateIngress(known, assets), known) /\ Apart(StateIngress(known, assets))
<1> DEFINE s == StateIngressSeeds
           T == Seeds(s)
           A == {Candidate(SeedKey(seed), seed.paths, NoFunction, 0) : seed \in T}
           B == {c \in IngressCandidates : Fresh(c.key, known)}
           a == OpenSeeds(s, known, assets)
           b == DynamicIngress(known, Len(a))
           F == a \o b
<1>1. s \in Seq(T) /\ DOMAIN s = 1..4  BY TablesAre
<1>2. a \in Seq(A) /\ NewTo(a, known) /\ Apart(a) /\ \A n \in DOMAIN a : \E k \in 1..4 : a[n].paths = s[k].paths
  <2> HIDE DEF s, T
  <2>1. a \in Seq(A)  BY <1>1, OpenSeedsAre
  <2>2. \A k, l \in DOMAIN s : k # l => s[k].paths \cap s[l].paths = {}  BY <1>1, StateIngressApart DEF s
  <2> HIDE DEF A, b, F
  <2>3. s \in Seq(T)  BY <1>1
  <2>4. /\ NewTo(OpenSeeds(s, known, assets), known)
        /\ \A n \in DOMAIN OpenSeeds(s, known, assets) :
             \E k \in DOMAIN s : OpenSeeds(s, known, assets)[n].paths = s[k].paths
        /\ Apart(OpenSeeds(s, known, assets))
    BY <2>2, <2>3, SeedsFile
  <2>5. DOMAIN s = 1..4  BY <1>1
  <2> QED  BY <2>1, <2>4, <2>5
<1>3. StateIngress(known, assets) = F  BY DEF StateIngress
<1> HIDE DEF a, A
<1>4. Len(a) \in Int /\ Len(a) \in Nat /\ DOMAIN a = 1..Len(a)  BY <1>2
<1>5. b \in Seq(B) /\ \A m, n \in DOMAIN b : m # n => b[m] # b[n]  BY <1>4, DynamicIngressIs
<1> HIDE DEF b, B
<1>6. Len(b) \in Nat /\ DOMAIN b = 1..Len(b)  BY <1>5
<1>7. /\ DOMAIN F = 1..(Len(a) + Len(b))
      /\ \A n \in 1..Len(a) : F[n] = a[n]
      /\ \A n \in 1..(Len(a) + Len(b)) : n > Len(a) => F[n] = b[n - Len(a)]
  BY <1>2, <1>5
<1> HIDE DEF F
<1>8. ASSUME NEW n \in DOMAIN F
      PROVE  \/ n \in DOMAIN a /\ F[n] = a[n]
             \/ n - Len(a) \in DOMAIN b /\ F[n] = b[n - Len(a)]
  BY <1>4, <1>6, <1>7
<1>9. ASSUME NEW m \in DOMAIN b
      PROVE  \E p : /\ OwnedByUser(p) /\ b[m] = Candidate(FileKey("state-ingress", p), {p}, NoFunction, IngressScore(p))
                    /\ b[m].key \notin known /\ b[m].paths = {p} /\ b[m].key = FileKey("state-ingress", p)
  <2>1. b[m] \in B  BY <1>5
  <2>2. b[m] \in IngressCandidates /\ b[m].key \notin known  BY <2>1 DEF B, Fresh
  <2>3. PICK p \in DOMAIN repo :
          OwnedByUser(p) /\ b[m] = Candidate(FileKey("state-ingress", p), {p}, NoFunction, IngressScore(p))
    BY <2>2 DEF IngressCandidates
  <2>4. b[m].paths = {p} /\ b[m].key = FileKey("state-ingress", p)  BY <2>3 DEF Candidate
  <2> QED  BY <2>2, <2>3, <2>4
<1>10. NewTo(F, known)
  <2> SUFFICES ASSUME NEW n \in DOMAIN F
               PROVE  /\ F[n].key \notin known
                      /\ F[n].key[1] \in {"pooled-session-state", "user-session-state-restore"} =>
                           \E q :
                             F[n].key = FileKey(F[n].key[1], q) /\ FileKey("state-ingress", q) \notin known
    BY DEF NewTo
  <2>1. CASE n \in DOMAIN a /\ F[n] = a[n]  BY <1>2, <2>1 DEF NewTo
  <2>2. CASE n - Len(a) \in DOMAIN b /\ F[n] = b[n - Len(a)]
    <3>1. PICK p : F[n].key \notin known /\ F[n].key = FileKey("state-ingress", p)  BY <1>9, <2>2
    <3>2. F[n].key[1] = "state-ingress"  BY <3>1 DEF FileKey
    <3> QED  BY <3>1, <3>2
  <2> QED  BY <1>8, <2>1, <2>2
<1>11. Apart(F)
  <2>1. ASSUME NEW m \in DOMAIN a, NEW n \in DOMAIN b  PROVE a[m].paths \cap b[n].paths = {}
    <3>1. PICK p : OwnedByUser(p) /\ b[n].paths = {p}  BY <1>9
    <3>2. PICK k \in 1..4 : a[m].paths = s[k].paths  BY <1>2
    <3>3. p \notin s[k].paths  BY <3>1, StateIngressApart
    <3> QED  BY <3>1, <3>2, <3>3
  <2>2. ASSUME NEW m \in DOMAIN b, NEW n \in DOMAIN b, m # n  PROVE b[m].paths \cap b[n].paths = {}
    <3> DEFINE C(p) == Candidate(FileKey("state-ingress", p), {p}, NoFunction, IngressScore(p))
    <3>1. PICK p : b[m] = C(p) /\ b[m].paths = {p}  BY <1>9
    <3>2. PICK q : b[n] = C(q) /\ b[n].paths = {q}  BY <1>9
    <3> HIDE DEF C
    <3>3. p # q  BY <1>5, <2>2, <3>1, <3>2
    <3> QED  BY <3>1, <3>2, <3>3
  <2> SUFFICES ASSUME NEW m \in DOMAIN F, NEW n \in DOMAIN F, m # n  PROVE F[m].paths \cap F[n].paths = {}
    BY DEF Apart
  <2>3. CASE m \in DOMAIN a /\ F[m] = a[m] /\ n \in DOMAIN a /\ F[n] = a[n]  BY <1>2, <2>3 DEF Apart
  <2>4. CASE m \in DOMAIN a /\ F[m] = a[m] /\ n - Len(a) \in DOMAIN b /\ F[n] = b[n - Len(a)]  BY <2>1, <2>4
  <2>5. CASE n \in DOMAIN a /\ F[n] = a[n] /\ m - Len(a) \in DOMAIN b /\ F[m] = b[m - Len(a)]  BY <2>1, <2>5
  <2>6. CASE /\ n - Len(a) \in DOMAIN b /\ F[n] = b[n - Len(a)]
             /\ m - Len(a) \in DOMAIN b /\ F[m] = b[m - Len(a)]
    <3>1. m \in Int /\ n \in Int  BY <1>7, <1>4, <1>6
    <3>2. m - Len(a) # n - Len(a)  BY <1>4, <3>1
    <3> QED  BY <2>2, <2>6, <3>2
  <2> QED  BY <1>8, <2>3, <2>4, <2>5, <2>6
<1> QED  BY <1>3, <1>10, <1>11

\* The rules about functions propose only what is new.
LEMMA TerminalFile ==
  ASSUME Checkout, NEW known  PROVE NewTo(FirstLimited(Ranked(TerminalCandidates(known)), limit), known)
<1> DEFINE S == TerminalCandidates(known)
           F == FirstLimited(Ranked(S), limit)
<1>1. \A c \in S : c.key \notin known /\ c.key[1] = "terminal-action-error"
  <2> SUFFICES ASSUME NEW c \in S  PROVE c.key \notin known /\ c.key[1] = "terminal-action-error"  OBVIOUS
  <2>1. PICK p \in DOMAIN repo : c \in TerminalIn(p, known)  BY DEF TerminalCandidates
  <2> DEFINE key(fn) == FunctionKey("terminal-action-error", p, fn.name)
  <2>2. PICK fn : key(fn) \notin known /\ c = Candidate(key(fn), {p}, fn, TerminalScore(p, fn))
    BY <2>1 DEF TerminalIn, Fresh
  <2>3. c.key = key(fn)  BY <2>2 DEF Candidate
  <2> QED  BY <2>2, <2>3 DEF FunctionKey
<1>2. limit \in Int  BY DEF Checkout
<1>3. Sortable(S)  BY TerminalSortable
<1> HIDE DEF S
<1>4. F \in Seq(S)  BY <1>2, <1>3, RankedFile
<1> HIDE DEF F
<1>5. \A n \in DOMAIN F : F[n] \in S  BY <1>4
<1>6. NewTo(F, known)  BY <1>1, <1>5 DEF NewTo
<1> QED  BY <1>6 DEF F, S

\* So does the optional-sibling rule.
LEMMA OptionalFile ==
  ASSUME Checkout, NEW known  PROVE NewTo(FirstLimited(Ranked(OptionalCandidates(known)), limit), known)
<1> DEFINE S == OptionalCandidates(known)
           F == FirstLimited(Ranked(S), limit)
<1>1. \A c \in S : c.key \notin known /\ c.key[1] = "optional-sibling-early-return"
  <2> SUFFICES ASSUME NEW c \in S  PROVE c.key \notin known /\ c.key[1] = "optional-sibling-early-return"  OBVIOUS
  <2>1. PICK p \in DOMAIN repo : c \in OptionalIn(p, known)  BY DEF OptionalCandidates
  <2> DEFINE key(fn) == FunctionKey("optional-sibling-early-return", p, fn.name)
  <2>2. PICK fn : key(fn) \notin known /\ c = Candidate(key(fn), {p}, fn, OptionalScore(p, fn))
    BY <2>1 DEF OptionalIn, Fresh
  <2>3. c.key = key(fn)  BY <2>2 DEF Candidate
  <2> QED  BY <2>2, <2>3 DEF FunctionKey
<1>2. limit \in Int  BY DEF Checkout
<1>3. Sortable(S)  BY OptionalSortable
<1> HIDE DEF S
<1>4. F \in Seq(S)  BY <1>2, <1>3, RankedFile
<1> HIDE DEF F
<1>5. \A n \in DOMAIN F : F[n] \in S  BY <1>4
<1>6. NewTo(F, known)  BY <1>1, <1>5 DEF NewTo
<1> QED  BY <1>6 DEF F, S

\* What a scan writes.
LEMMA FoundIs ==
  ASSUME Checkout, NEW rule \in Rules, NEW known, NEW assets, NEW order \in Orders(rule)
  PROVE  LET F == Found(rule, known, assets, order)
         IN  /\ NewTo(F, known)
             /\ rule \notin {"terminal-action-error", "optional-sibling-early-return"} => Apart(F)
<1>1. CASE rule = "identity-token"
  <2> DEFINE s == IdentityTokenSeeds
             T == Seeds(s)
  <2>1. Found(rule, known, assets, order) = OpenSeeds(s, known, assets)  BY <1>1 DEF Found
  <2>2. s \in Seq(T) /\ DOMAIN s = 1..4  BY TablesAre
  <2>3. \A k, l \in DOMAIN s : k # l => s[k].paths \cap s[l].paths = {}  BY <2>2, IdentityTokenApart
  <2> HIDE DEF s, T
  <2>4. NewTo(OpenSeeds(s, known, assets), known) /\ Apart(OpenSeeds(s, known, assets))
    BY <2>2, <2>3, SeedsFile
  <2> QED  BY <2>1, <2>4
<1>2. CASE rule = "state-ingress"
  <2>1. Found(rule, known, assets, order) = StateIngress(known, assets)  BY <1>2 DEF Found
  <2> QED  BY <2>1, StateIngressFile
<1>3. CASE rule \in {"pooled-session-state", "user-session-state-restore"}
  <2>1. Found(rule, known, assets, order) = FileRule(rule, known, order)  BY <1>3 DEF Found
  <2> QED  BY <1>3, <2>1, FilesFile
<1>4. CASE rule = "terminal-action-error"
  <2>1. Found(rule, known, assets, order) = FirstLimited(Ranked(TerminalCandidates(known)), limit)
    BY <1>4 DEF Found
  <2> QED  BY <1>4, <2>1, TerminalFile
<1>5. CASE rule = "optional-sibling-early-return"
  <2>1. Found(rule, known, assets, order) = FirstLimited(Ranked(OptionalCandidates(known)), limit)
    BY <1>5 DEF Found
  <2> QED  BY <1>5, <2>1, OptionalFile
<1> QED  BY <1>1, <1>2, <1>3, <1>4, <1>5 DEF Rules
-----------------------------------------------------------------------------
(* Runs *)

\* Scanners, one record each.
IsScan(x) == x = [pc |-> x.pc, rule |-> x.rule, known |-> x.known, assets |-> x.assets, file |-> x.file]
Typed == scan = [s \in Scanners |-> scan[s]] /\ \A s \in Scanners : IsScan(scan[s])

\* Who has yet to scan has a rule; what was written was new when the queue was read.
Scanned ==
  \A s \in Scanners :
    /\ scan[s].pc \in {"assets", "scan"} => scan[s].rule \in Rules
    /\ scan[s].pc = "written" => NewTo(scan[s].file, scan[s].known)

\* When nobody interferes, one scanner works at a time and the keys it has read are
\* those of the queue until it imports.
Undisturbed ==
  habit = {} =>
    \A s \in Scanners :
      /\ scan[s].pc # "imported"
      /\ Busy(s) => scan[s].known = DOMAIN target
      /\ \A o \in Scanners : Busy(s) /\ Busy(o) => s = o

RunInv == Checkout /\ Typed /\ Scanned /\ OneCandidatePerSource /\ Undisturbed

\* What the steps of a run make of its record.
LEMMA ScanSteps ==
  ASSUME NEW x, IsScan(x), NEW a, NEW b, NEW y
  PROVE  /\ y = [x EXCEPT !.pc = a, !.file = b] =>
              y = [pc |-> a, rule |-> x.rule, known |-> x.known, assets |-> x.assets, file |-> b]
         /\ y = [x EXCEPT !.pc = a, !.assets = b] =>
              y = [pc |-> a, rule |-> x.rule, known |-> x.known, assets |-> b, file |-> x.file]
         /\ y = [x EXCEPT !.pc = a] =>
              y = [pc |-> a, rule |-> x.rule, known |-> x.known, assets |-> x.assets, file |-> x.file]
<1>1. DOMAIN x = {"pc", "rule", "known", "assets", "file"}  BY DEF IsScan
<1>2. ASSUME y = [x EXCEPT !.pc = a, !.file = b]
      PROVE  y = [pc |-> a, rule |-> x.rule, known |-> x.known, assets |-> x.assets, file |-> b]
  BY <1>1, <1>2 DEF IsScan
<1>3. ASSUME y = [x EXCEPT !.pc = a, !.assets = b]
      PROVE  y = [pc |-> a, rule |-> x.rule, known |-> x.known, assets |-> b, file |-> x.file]
  BY <1>1, <1>3 DEF IsScan
<1>4. ASSUME y = [x EXCEPT !.pc = a]
      PROVE  y = [pc |-> a, rule |-> x.rule, known |-> x.known, assets |-> x.assets, file |-> x.file]
  BY <1>1, <1>4 DEF IsScan
<1> QED  BY <1>2, <1>3, <1>4

\* The record of a run that has read the queue.
LEMMA ScanBegins ==
  ASSUME NEW a, NEW r, NEW k, NEW y, y = [NoScan EXCEPT !.pc = a, !.rule = r, !.known = k]
  PROVE  y = [pc |-> a, rule |-> r, known |-> k, assets |-> {}, file |-> <<>>]
<1> DEFINE x == NoScan
<1>1. DOMAIN x = {"pc", "rule", "known", "assets", "file"} /\ x.assets = {} /\ x.file = <<>> /\ IsScan(x)
  BY DEF NoScan, IsScan
<1> HIDE DEF x
<1>2. y = [x EXCEPT !.pc = a, !.rule = r, !.known = k]  BY DEF x
<1> QED  BY <1>1, <1>2 DEF IsScan

\* The invariant holds when the scanners begin.
LEMMA InitRun == Init => RunInv
<1> SUFFICES ASSUME Init  PROVE RunInv  OBVIOUS
<1>1. Checkout  BY InstancesAssumption, RanksAssumption DEF Init, Checkout
<1>2. scan = [s \in Scanners |-> NoScan]  BY DEF Init
<1>3. Typed  BY <1>2 DEF Typed, IsScan, NoScan
<1>4. Scanned  BY <1>2 DEF Scanned, NoScan
<1>5. OneCandidatePerSource  BY <1>2 DEF OneCandidatePerSource, NoScan
<1>6. Undisturbed  BY <1>2 DEF Undisturbed, Busy, NoScan
<1> QED  BY <1>1, <1>3, <1>4, <1>5, <1>6 DEF RunInv

\* What another scanner's step leaves of a run.
LEMMA OneMoves ==
  ASSUME Typed, NEW s \in Scanners, NEW x, scan' = [scan EXCEPT ![s] = x], IsScan(x)
  PROVE  Typed' /\ scan'[s] = x /\ \A o \in Scanners : o # s => scan'[o] = scan[o]
<1>1. scan'[s] = x /\ \A o \in Scanners : o # s => scan'[o] = scan[o]  BY DEF Typed
<1>2. scan' = [o \in Scanners |-> scan'[o]]  BY DEF Typed
<1>3. \A o \in Scanners : IsScan(scan'[o])  BY <1>1 DEF Typed
<1> QED  BY <1>1, <1>2, <1>3 DEF Typed

\* Reading the queue.
LEMMA ReadTargetsRun ==
  ASSUME RunInv, NEW s \in Scanners, NEW rule \in Rules, ReadTargets(s, rule), UNCHANGED <<repo, habit, limit>>
  PROVE  RunInv'
<1> DEFINE pc == IF rule \in Seeded THEN "assets" ELSE "scan"
           x == [pc |-> pc, rule |-> rule, known |-> DOMAIN target, assets |-> {}, file |-> <<>>]
<1>1. Checkout'  BY DEF RunInv, Checkout
<1>0. [NoScan EXCEPT !.pc = pc, !.rule = rule, !.known = DOMAIN target] = x
  <2> HIDE DEF pc
  <2> QED  BY ScanBegins
<1>2. scan' = [scan EXCEPT ![s] = x] /\ target' = target  BY <1>0 DEF ReadTargets
<1>3. IsScan(x) /\ x.pc \in {"assets", "scan"} /\ x.rule = rule /\ x.known = DOMAIN target /\ x.file = <<>>
  BY DEF IsScan
<1> HIDE DEF x
<1>4. Typed' /\ scan'[s] = x /\ \A o \in Scanners : o # s => scan'[o] = scan[o]
  BY <1>2, <1>3, OneMoves DEF RunInv
<1>5. Scanned'  BY <1>3, <1>4 DEF RunInv, Scanned, NewTo
<1>6. OneCandidatePerSource'
  <2>1. DOMAIN scan'[s].file = {}  BY <1>3, <1>4
  <2> QED  BY <1>4, <2>1 DEF RunInv, OneCandidatePerSource
<1>7. Undisturbed'
  <2> SUFFICES ASSUME habit = {}, NEW o \in Scanners
               PROVE  /\ scan'[o].pc # "imported"
                      /\ Busy(o)' => scan'[o].known = DOMAIN target
                      /\ \A q \in Scanners : Busy(o)' /\ Busy(q)' => o = q
    BY <1>2 DEF Undisturbed
  <2>1. \A q \in Scanners : ~Busy(q)  BY DEF ReadTargets
  <2>2. \A q \in Scanners : Busy(q)' => q = s  BY <1>4, <2>1 DEF Busy
  <2>3. scan'[o].pc # "imported"  BY <1>3, <1>4 DEF RunInv, Undisturbed
  <2> QED  BY <1>3, <1>4, <2>2, <2>3
<1> QED  BY <1>1, <1>4, <1>5, <1>6, <1>7 DEF RunInv

\* A step within a run: reading the assets, writing the file.
LEMMA WithinRun ==
  ASSUME RunInv, NEW s \in Scanners, NEW x, scan' = [scan EXCEPT ![s] = x], IsScan(x),
         x.known = scan[s].known, x.rule = scan[s].rule,
         scan[s].pc \in {"assets", "scan"}, x.pc \in {"scan", "written"},
         UNCHANGED <<repo, habit, limit, target>>,
         x.pc = "written" => NewTo(x.file, x.known),
         x.rule \in Rules \ {"terminal-action-error", "optional-sibling-early-return"} => Apart(x.file)
  PROVE  RunInv'
<1>1. Checkout'  BY DEF RunInv, Checkout
<1>2. Typed' /\ scan'[s] = x /\ \A o \in Scanners : o # s => scan'[o] = scan[o]
  BY OneMoves DEF RunInv
<1>3. Scanned'
  <2> SUFFICES ASSUME NEW o \in Scanners
               PROVE  /\ scan'[o].pc \in {"assets", "scan"} => scan'[o].rule \in Rules
                      /\ scan'[o].pc = "written" => NewTo(scan'[o].file, scan'[o].known)
    BY DEF Scanned
  <2>1. CASE o = s  BY <1>2, <2>1 DEF RunInv, Scanned
  <2>2. CASE o # s  BY <1>2, <2>2 DEF RunInv, Scanned
  <2> QED  BY <2>1, <2>2
<1>4. OneCandidatePerSource'  BY <1>2 DEF RunInv, OneCandidatePerSource, Apart
<1>5. Undisturbed'
  <2>1. \A o \in Scanners : Busy(o)' <=> Busy(o)  BY <1>2 DEF Busy
  <2>2. \A o \in Scanners : scan'[o].known = scan[o].known  BY <1>2
  <2>3. \A o \in Scanners : scan[o].pc # "imported" => scan'[o].pc # "imported"  BY <1>2
  <2> QED  BY <2>1, <2>2, <2>3 DEF RunInv, Undisturbed
<1> QED  BY <1>1, <1>2, <1>3, <1>4, <1>5 DEF RunInv

\* Reading the assets.
LEMMA ReadAssetsRun ==
  ASSUME RunInv, NEW s \in Scanners, ReadAssets(s), UNCHANGED <<repo, habit, limit>>
  PROVE  RunInv'
<1> DEFINE y == scan[s]
           x == [pc |-> "scan", rule |-> y.rule, known |-> y.known, assets |-> covered, file |-> y.file]
<1>1. IsScan(y)  BY DEF RunInv, Typed
<1>2. scan' = [scan EXCEPT ![s] = [y EXCEPT !.pc = "scan", !.assets = covered]]  BY DEF ReadAssets
<1>3. [y EXCEPT !.pc = "scan", !.assets = covered] = x
  <2> HIDE DEF y
  <2> QED  BY <1>1, ScanSteps
<1>4. scan' = [scan EXCEPT ![s] = x]  BY <1>2, <1>3
<1>5. IsScan(x) /\ x.known = y.known /\ x.rule = y.rule /\ x.pc = "scan" /\ x.file = y.file  BY DEF IsScan
<1> HIDE DEF x
<1>6. x.rule \in Rules \ {"terminal-action-error", "optional-sibling-early-return"} => Apart(x.file)
  BY <1>5 DEF RunInv, OneCandidatePerSource, Apart
<1>7. y.pc = "assets" /\ target' = target  BY DEF ReadAssets
<1> QED  BY <1>4, <1>5, <1>6, <1>7, WithinRun

\* Scanning the checkout and writing the file.
LEMMA ScanRun ==
  ASSUME RunInv, NEW s \in Scanners, Scan(s), UNCHANGED <<repo, habit, limit>>
  PROVE  RunInv'
<1> DEFINE y == scan[s]
<1>1. PICK order \in Orders(y.rule) :
        scan' = [scan EXCEPT ![s] = [y EXCEPT !.pc = "written", !.file = Found(y.rule, y.known, y.assets, order)]]
  BY DEF Scan
<1> DEFINE F == Found(y.rule, y.known, y.assets, order)
           x == [pc |-> "written", rule |-> y.rule, known |-> y.known, assets |-> y.assets, file |-> F]
<1>2. IsScan(y) /\ y.pc = "scan" /\ y.rule \in Rules /\ target' = target  BY DEF RunInv, Typed, Scanned, Scan
<1>3. /\ NewTo(F, y.known)
      /\ y.rule \notin {"terminal-action-error", "optional-sibling-early-return"} => Apart(F)
  <2>1. Checkout  BY DEF RunInv
  <2> HIDE DEF y
  <2> QED  BY <1>1, <1>2, <2>1, FoundIs
<1> HIDE DEF F
<1>4. [y EXCEPT !.pc = "written", !.file = F] = x
  <2> HIDE DEF y
  <2> QED  BY <1>2, ScanSteps
<1>5. scan' = [scan EXCEPT ![s] = x]  BY <1>1, <1>4 DEF F
<1>6. IsScan(x) /\ x.known = y.known /\ x.rule = y.rule /\ x.pc = "written" /\ x.file = F  BY DEF IsScan
<1> HIDE DEF x
<1> QED  BY <1>2, <1>3, <1>5, <1>6, WithinRun

\* Importing.
LEMMA ImportRun ==
  ASSUME RunInv, NEW s \in Scanners, Import(s), UNCHANGED <<repo, habit, limit>>
  PROVE  RunInv'
<1> DEFINE y == scan[s]
           x == IF "reimport" \in habit THEN [y EXCEPT !.pc = "imported"] ELSE NoScan
<1>1. Checkout'  BY DEF RunInv, Checkout
<1>2. scan' = [scan EXCEPT ![s] = x]  BY DEF Import
<1>3. /\ IsScan(x) /\ x.pc \in {"idle", "imported"}
      /\ "reimport" \in habit => x.rule = y.rule /\ x.file = y.file
      /\ "reimport" \notin habit => x.pc = "idle" /\ x.file = <<>>
  <2>1. CASE "reimport" \in habit
    <3>1. IsScan(y)  BY DEF RunInv, Typed
    <3> HIDE DEF y
    <3>2. x = [pc |-> "imported", rule |-> y.rule, known |-> y.known, assets |-> y.assets, file |-> y.file]
      BY <2>1, <3>1, ScanSteps
    <3> QED  BY <2>1, <3>2 DEF IsScan
  <2>2. CASE "reimport" \notin habit  BY <2>2 DEF NoScan, IsScan
  <2> QED  BY <2>1, <2>2
<1> HIDE DEF x
<1>4. Typed' /\ scan'[s] = x /\ \A o \in Scanners : o # s => scan'[o] = scan[o]
  BY <1>2, <1>3, OneMoves DEF RunInv
<1>5. Scanned'
  <2> SUFFICES ASSUME NEW o \in Scanners
               PROVE  /\ scan'[o].pc \in {"assets", "scan"} => scan'[o].rule \in Rules
                      /\ scan'[o].pc = "written" => NewTo(scan'[o].file, scan'[o].known)
    BY DEF Scanned
  <2>1. CASE o = s  BY <1>3, <1>4, <2>1
  <2>2. CASE o # s  BY <1>4, <2>2 DEF RunInv, Scanned
  <2> QED  BY <2>1, <2>2
<1>6. OneCandidatePerSource'
  <2>1. \A o \in Scanners : \/ scan'[o].file = scan[o].file /\ scan'[o].rule = scan[o].rule
                            \/ DOMAIN scan'[o].file = {}
    BY <1>3, <1>4
  <2> QED  BY <2>1 DEF RunInv, OneCandidatePerSource
<1>7. Undisturbed'
  <2> SUFFICES ASSUME habit = {}, NEW o \in Scanners
               PROVE  scan'[o].pc # "imported" /\ ~Busy(o)'
    BY DEF Undisturbed
  <2>1. y.pc = "written" /\ x.pc = "idle"  BY <1>3 DEF Import
  <2>2. \A q \in Scanners : q # s => ~Busy(q) /\ scan[q].pc # "imported"
    BY <2>1 DEF RunInv, Undisturbed, Busy
  <2> QED  BY <1>4, <2>1, <2>2 DEF Busy
<1> QED  BY <1>1, <1>4, <1>5, <1>6, <1>7 DEF RunInv

\* People change no run, and no key of the queue goes.
LEMMA OthersRun ==
  ASSUME RunInv, UNCHANGED <<repo, habit, limit, scan>>, DOMAIN target' = DOMAIN target
  PROVE  RunInv'
<1>1. Checkout' /\ Typed' /\ OneCandidatePerSource'  BY DEF RunInv, Checkout, Typed, OneCandidatePerSource
<1>2. Scanned'  BY DEF RunInv, Scanned
<1>3. Undisturbed'  BY DEF RunInv, Undisturbed, Busy
<1> QED  BY <1>1, <1>2, <1>3 DEF RunInv

\* Every step keeps the invariant.
LEMMA NextRun == RunInv /\ [Next]_vars => RunInv'
<1> SUFFICES ASSUME RunInv, [Next]_vars  PROVE RunInv'  OBVIOUS
<1>1. CASE Next
  <2>0. UNCHANGED <<repo, habit, limit>>  BY <1>1 DEF Next
  <2>1. ASSUME NEW s \in Scanners, NEW rule \in Rules, ReadTargets(s, rule)  PROVE RunInv'
    BY <2>0, <2>1, ReadTargetsRun
  <2>2. ASSUME NEW s \in Scanners, ReadAssets(s)  PROVE RunInv'  BY <2>0, <2>2, ReadAssetsRun
  <2>3. ASSUME NEW s \in Scanners, Scan(s)  PROVE RunInv'  BY <2>0, <2>3, ScanRun
  <2>4. ASSUME NEW s \in Scanners, Import(s)  PROVE RunInv'  BY <2>0, <2>4, ImportRun
  <2>5. ASSUME NEW k \in DOMAIN target, Settle(k)  PROVE RunInv'
    <3>1. DOMAIN target' = DOMAIN target /\ scan' = scan  BY <2>5 DEF Settle
    <3> QED  BY <2>0, <3>1, OthersRun
  <2>6. ASSUME NEW a \in Recorded, Cover(a)  PROVE RunInv'
    <3>1. target' = target /\ scan' = scan  BY <2>6 DEF Cover
    <3> QED  BY <2>0, <3>1, OthersRun
  <2> QED  BY <1>1, <2>1, <2>2, <2>3, <2>4, <2>5, <2>6 DEF Next
<1>2. CASE UNCHANGED vars
  <2>1. UNCHANGED <<repo, habit, limit, scan>> /\ target' = target  BY <1>2 DEF vars
  <2> QED  BY <2>1, OthersRun
<1> QED  BY <1>1, <1>2

\* The invariant holds.
THEOREM RunInvHolds == Spec => []RunInv
<1> QED  BY InitRun, NextRun, PTL DEF Spec

\* No two candidates of a file are about the same source: the tables of the seeds and
\* of the paths a scan leaves alone agree, and a rule about files lists each once,
\* for any checkout, limit and order of its files.
THEOREM OneCandidatePerSourceHolds == Spec => []OneCandidatePerSource
<1>1. RunInv => OneCandidatePerSource  BY DEF RunInv
<1> QED  BY <1>1, RunInvHolds, PTL

\* When nobody interferes, a scanner that lets go of its file has imported it.
LEMMA ImportedBy ==
  ASSUME RunInv, Next, habit = {}, NEW s \in Scanners, scan[s].pc = "written", scan'[s] = NoScan
  PROVE  /\ Import(s)
         /\ DOMAIN target' = {scan[s].file[n].key : n \in DOMAIN scan[s].file} \cup DOMAIN target
<1>1. scan'[s] # scan[s]  BY DEF NoScan
<1>2. Busy(s)  BY DEF Busy
<1>3. Import(s)
  <2>1. ASSUME NEW o \in Scanners, NEW rule \in Rules, ReadTargets(o, rule)  PROVE FALSE
    BY <1>2, <2>1 DEF ReadTargets
  <2>2. ASSUME NEW o \in Scanners, o # s, NEW x, scan' = [scan EXCEPT ![o] = x]  PROVE FALSE
    BY <1>1, <2>2 DEF RunInv, Typed
  <2>3. ASSUME NEW o \in Scanners, ReadAssets(o) \/ Scan(o)  PROVE FALSE
    <3>1. o # s  BY <2>3 DEF ReadAssets, Scan
    <3>2. \E x : scan' = [scan EXCEPT ![o] = x]  BY <2>3 DEF ReadAssets, Scan
    <3> QED  BY <2>2, <3>1, <3>2
  <2>4. ASSUME NEW o \in Scanners, Import(o), o # s  PROVE FALSE
    <3>1. \E x : scan' = [scan EXCEPT ![o] = x]  BY <2>4 DEF Import
    <3> QED  BY <2>2, <2>4, <3>1
  <2>5. ASSUME NEW k, Settle(k)  PROVE FALSE  BY <1>1, <2>5 DEF Settle
  <2>6. ASSUME NEW a, Cover(a)  PROVE FALSE  BY <1>1, <2>6 DEF Cover
  <2> QED  BY <2>1, <2>3, <2>4, <2>5, <2>6 DEF Next
<1> QED  BY <1>3 DEF Import

\* ImportOnlyAdds: what a rule writes is new to the queue it has read, and when nobody
\* interferes that is the queue the file is imported into.
THEOREM ImportOnlyAddsHolds == Spec => ImportOnlyAdds
<1> DEFINE Adds ==
      habit = {} /\ (\E s \in Scanners : scan[s].pc = "written" /\ scan'[s] = NoScan) =>
        /\ \A k \in DOMAIN target : target'[k] = target[k]
        /\ \A p \in DOMAIN repo, rule \in {"pooled-session-state", "user-session-state-restore"} :
             FileKey("state-ingress", p) \in DOMAIN target /\ FileKey(rule, p) \in DOMAIN target' =>
               FileKey(rule, p) \in DOMAIN target
<1>1. RunInv /\ [Next]_vars => [Adds]_vars
  <2> SUFFICES ASSUME RunInv, Next, habit = {},
                      NEW s \in Scanners, scan[s].pc = "written", scan'[s] = NoScan
               PROVE  /\ \A k \in DOMAIN target : target'[k] = target[k]
                      /\ \A p \in DOMAIN repo, rule \in {"pooled-session-state", "user-session-state-restore"} :
                           FileKey("state-ingress", p) \in DOMAIN target /\ FileKey(rule, p) \in DOMAIN target' =>
                             FileKey(rule, p) \in DOMAIN target
    OBVIOUS
  <2>1. Busy(s) /\ scan[s].known = DOMAIN target  BY DEF RunInv, Undisturbed, Busy
  <2>2. Import(s)  BY ImportedBy
  <2> DEFINE F == scan[s].file
             keys == {F[n].key : n \in DOMAIN F}
  <2>4. target' = [k \in keys \cup DOMAIN target |-> IF k \in keys THEN "candidate" ELSE target[k]]
    BY <2>2 DEF Import
  <2>5. NewTo(F, DOMAIN target)  BY <2>1 DEF RunInv, Scanned
  <2> HIDE DEF F
  <2>6. \A k \in keys : k \notin DOMAIN target  BY <2>5 DEF NewTo
  <2> HIDE DEF keys
  <2>7. \A k \in DOMAIN target : target'[k] = target[k]  BY <2>4, <2>6
  <2>8. ASSUME NEW p \in DOMAIN repo, NEW rule \in {"pooled-session-state", "user-session-state-restore"},
               FileKey("state-ingress", p) \in DOMAIN target, FileKey(rule, p) \in DOMAIN target',
               FileKey(rule, p) \notin DOMAIN target
        PROVE  FALSE
    <3>1. FileKey(rule, p) \in keys  BY <2>4, <2>8
    <3>2. PICK n \in DOMAIN F : F[n].key = FileKey(rule, p)  BY <3>1 DEF keys
    <3>3. F[n].key[1] = rule  BY <3>2 DEF FileKey
    <3>4. PICK q : FileKey(rule, p) = FileKey(rule, q) /\ FileKey("state-ingress", q) \notin DOMAIN target
      BY <2>5, <3>2, <3>3 DEF NewTo
    <3>5. FileKey("state-ingress", p) = FileKey("state-ingress", q)  BY <3>4 DEF FileKey
    <3> QED  BY <2>8, <3>4, <3>5
  <2> QED  BY <2>7, <2>8
<1>2. Spec => [][Adds]_vars  BY <1>1, RunInvHolds, PTL DEF Spec
<1> QED  BY <1>2 DEF ImportOnlyAdds

-----------------------------------------------------------------------------
(* What a file leaves out *)

KeysOf(F) == {F[n].key : n \in DOMAIN F}

\* F has keys of W only, and all of them unless it reached the limit.
Full(F, W) ==
  /\ Len(F) \in Nat /\ DOMAIN F = 1..Len(F)
  /\ KeysOf(F) \subseteq W
  /\ W \subseteq KeysOf(F) \/ Len(F) >= limit

\* What a limit leaves of a sequence: all of it, or as much as the limit.
LEMMA LimitedFills ==
  ASSUME NEW T, NEW s \in Seq(T), NEW n \in Int
  PROVE  LET F == FirstLimited(s, n)
         IN  F \in Seq(T) /\ (\A k \in DOMAIN F : k \in DOMAIN s /\ F[k] = s[k]) /\ (F = s \/ Len(F) >= n)
<1> DEFINE x == Max({n, 0})
           m == Min({Len(s), x})
           F == SubSeq(s, 1, m)
<1>1. Len(s) \in Nat /\ DOMAIN s = 1..Len(s)  OBVIOUS
<1>2. x \in {n, 0} /\ x >= n /\ x >= 0
  <2>1. n \in Int /\ 0 \in Int  OBVIOUS
  <2> QED  BY <2>1, PairMax, Zenon
<1> HIDE DEF x
<1>3. m \in {Len(s), x} /\ m <= Len(s)
  <2>1. Len(s) \in Int /\ x \in Int  BY <1>1, <1>2
  <2> QED  BY <2>1, PairMin, Zenon
<1>4. FirstLimited(s, n) = F  BY DEF FirstLimited, x
<1> HIDE DEF m
<1>5. m \in 0..Len(s)  BY <1>1, <1>2, <1>3
<1>6. F \in Seq(T) /\ Len(F) = m /\ DOMAIN F = 1..m /\ \A k \in 1..m : F[k] = s[k]  BY <1>5
<1>7. F = s \/ m >= n
  <2>1. CASE m = Len(s)
    <3>1. F = s  BY <2>1
    <3> QED  BY <3>1
  <2>2. CASE m = x  BY <1>2, <2>2
  <2> QED  BY <1>3, <2>1, <2>2
<1> HIDE DEF F
<1>8. \A k \in DOMAIN F : k \in DOMAIN s /\ F[k] = s[k]  BY <1>1, <1>5, <1>6
<1> QED  BY <1>4, <1>6, <1>7, <1>8

\* So it is with a rule that appends first.
LEMMA AppendedFills ==
  ASSUME NEW T, NEW s \in Seq(T), limit \in Nat
  PROVE  LET F == FirstAppended(s)
         IN  F \in Seq(T) /\ (\A k \in DOMAIN F : k \in DOMAIN s /\ F[k] = s[k]) /\ (F = s \/ Len(F) >= limit)
<1> DEFINE x == Max({limit, 1})
<1>1. x \in {limit, 1} /\ x >= limit /\ x >= 1
  <2>1. limit \in Int /\ 1 \in Int  OBVIOUS
  <2> QED  BY <2>1, PairMax, Zenon
<1>2. Max({x, 0}) = x
  <2> HIDE DEF x
  <2>1. x \in Int /\ 0 \in Int  BY <1>1
  <2>2. Max({x, 0}) \in {x, 0} /\ Max({x, 0}) >= x /\ Max({x, 0}) >= 0  BY <2>1, PairMax, Zenon
  <2> QED  BY <1>1, <2>2
<1>3. FirstAppended(s) = FirstLimited(s, x)  BY <1>2 DEF FirstAppended, FirstLimited
<1> HIDE DEF x
<1>4. x \in Int  BY <1>1
<1> DEFINE F == FirstLimited(s, x)
<1>5. F \in Seq(T) /\ (\A k \in DOMAIN F : k \in DOMAIN s /\ F[k] = s[k]) /\ (F = s \/ Len(F) >= x)
  BY <1>4, LimitedFills
<1>6. Len(F) \in Nat  BY <1>5
<1> HIDE DEF F
<1>7. F = s \/ Len(F) >= limit  BY <1>1, <1>5, <1>6
<1> QED  BY <1>3, <1>5, <1>7 DEF F

\* What is kept of a sequence: a sequence of all its members that are in the set.
LEMMA KeptFills ==
  ASSUME NEW T, NEW s \in Seq(T), NEW S
  PROVE  /\ Kept(s, S) \in Seq(T \cap S)
         /\ \A k \in DOMAIN s : s[k] \in S => \E n \in DOMAIN Kept(s, S) : Kept(s, S)[n] = s[k]
<1> PICK c \in Nat : \E f : Places(s, S, c, f) /\ Kept(s, S) = [n \in 1..c |-> s[f[n]]]  BY KeptIs
<1>1. PICK f : Places(s, S, c, f) /\ Kept(s, S) = [n \in 1..c |-> s[f[n]]]  OBVIOUS
<1> DEFINE K == Kept(s, S)
<1>2. K = [n \in 1..c |-> s[f[n]]]  BY <1>1
<1> HIDE DEF K
<1>3. \A n \in 1..c : f[n] \in DOMAIN s /\ s[f[n]] \in S  BY <1>1 DEF Places
<1>4. \A k \in DOMAIN s : s[k] \in T  OBVIOUS
<1>5. K \in Seq(T \cap S) /\ DOMAIN K = 1..c  BY <1>2, <1>3, <1>4
<1>6. \A k \in DOMAIN s : s[k] \in S => \E n \in 1..c : K[n] = s[k]  BY <1>1, <1>2 DEF Places
<1> QED  BY <1>5, <1>6 DEF K

\* A limit on the candidates of a sequence.
LEMMA LimitedIsFull ==
  ASSUME NEW T, NEW s \in Seq(T), limit \in Nat,
         NEW F \in {FirstLimited(s, limit), FirstAppended(s)}
  PROVE  Full(F, KeysOf(s)) /\ F \in Seq(T)
<1>1. F \in Seq(T) /\ (\A k \in DOMAIN F : k \in DOMAIN s /\ F[k] = s[k]) /\ (F = s \/ Len(F) >= limit)
  <2>1. limit \in Int  OBVIOUS
  <2>2. CASE F = FirstLimited(s, limit)  BY <2>1, <2>2, LimitedFills
  <2>3. CASE F = FirstAppended(s)  BY <2>3, AppendedFills
  <2> QED  BY <2>2, <2>3
<1>2. Len(F) \in Nat /\ DOMAIN F = 1..Len(F)  BY <1>1
<1>3. KeysOf(F) \subseteq KeysOf(s)  BY <1>1 DEF KeysOf
<1> QED  BY <1>1, <1>2, <1>3 DEF Full

\* The keys of the seeds and of the files that are wanted, but those that are known.
SeedKeys(seeds, known, assets) == {SeedKey(x) : x \in {y \in ToSet(seeds) : OpenSeed(y, known, assets)}}

\* A file of seeds is full.
LEMMA SeedsFull ==
  ASSUME Checkout, NEW T, NEW seeds \in Seq(T), NEW known, NEW assets
  PROVE  /\ Full(OpenSeeds(seeds, known, assets), SeedKeys(seeds, known, assets))
         /\ \E U : OpenSeeds(seeds, known, assets) \in Seq(U)
<1> DEFINE open == {seed \in ToSet(seeds) : OpenSeed(seed, known, assets)}
           kept == Kept(seeds, open)
           C(seed) == Candidate(SeedKey(seed), seed.paths, NoFunction, 0)
           K == [n \in DOMAIN kept |-> C(kept[n])]
           U == {C(seed) : seed \in open}
<1>1. /\ kept \in Seq(T \cap open)
      /\ \A k \in DOMAIN seeds : seeds[k] \in open => \E n \in DOMAIN kept : kept[n] = seeds[k]
  <2> HIDE DEF open
  <2> QED  BY KeptFills
<1>2. OpenSeeds(seeds, known, assets) = FirstAppended(K)  BY DEF OpenSeeds
<1>3. \A x \in open : \E k \in DOMAIN seeds : seeds[k] = x  BY DEF ToSet
<1>4. \A x : C(x).key = SeedKey(x)  BY DEF Candidate
<1> HIDE DEF open, kept, C
<1>5. DOMAIN kept = 1..Len(kept) /\ Len(kept) \in Nat /\ \A n \in DOMAIN kept : kept[n] \in open  BY <1>1
<1>6. K \in Seq(U) /\ DOMAIN K = DOMAIN kept /\ \A n \in DOMAIN K : K[n] = C(kept[n])  BY <1>5
<1>7. \A x \in open : \E n \in DOMAIN kept : kept[n] = x  BY <1>1, <1>3
<1> HIDE DEF K, U
<1>8. KeysOf(K) = {SeedKey(x) : x \in open}
  <2>1. \A n \in DOMAIN K : K[n].key = SeedKey(kept[n])  BY <1>4, <1>6
  <2> QED  BY <1>5, <1>6, <1>7, <2>1 DEF KeysOf
<1>9. Full(FirstAppended(K), KeysOf(K)) /\ FirstAppended(K) \in Seq(U)
  BY <1>6, LimitedIsFull DEF Checkout
<1> QED  BY <1>2, <1>8, <1>9 DEF SeedKeys, open

\* A file of a rule about files is full.
LEMMA FilesFull ==
  ASSUME Checkout, NEW rule \in {"pooled-session-state", "user-session-state-restore"}, NEW known,
         NEW order \in Orders(rule)
  PROVE  Full(FileRule(rule, known, order), {FileKey(rule, p) : p \in {q \in DOMAIN repo : OpenFile(rule, q, known)}})
<1> DEFINE open == {path \in DOMAIN repo : OpenFile(rule, path, known)}
           kept == Kept(order, open)
           C(path) == Candidate(FileKey(rule, path), {path}, NoFunction, 0)
           K == [n \in DOMAIN kept |-> C(kept[n])]
           U == {C(path) : path \in open}
           c == Cardinality(DOMAIN repo)
<1>1. c \in Nat /\ IsFiniteSet(DOMAIN repo)  BY FS_CardinalityType DEF Checkout
<1>2. order \in [1..c -> DOMAIN repo] /\ IsInjective(order)  BY DEF Orders
<1>3. order \in Seq(DOMAIN repo) /\ DOMAIN order = 1..c  BY <1>1, <1>2
<1>4. \A p \in DOMAIN repo : \E n \in 1..c : order[n] = p
  <2>1. \A m, n \in 1..c : m # n => order[m] # order[n]  BY <1>2, <1>3 DEF IsInjective
  <2> QED  BY <1>1, <1>2, <2>1, AllPicked
<1> HIDE DEF c
<1>5. /\ kept \in Seq(DOMAIN repo \cap open)
      /\ \A k \in DOMAIN order : order[k] \in open => \E n \in DOMAIN kept : kept[n] = order[k]
  <2> DEFINE P == DOMAIN repo
  <2>1. order \in Seq(P)  BY <1>3
  <2> HIDE DEF open, P, K
  <2>2. /\ Kept(order, open) \in Seq(P \cap open)
        /\ \A k \in DOMAIN order : order[k] \in open => \E n \in DOMAIN Kept(order, open) : Kept(order, open)[n] = order[k]
    BY <2>1, KeptFills
  <2> QED  BY <2>2 DEF P
<1>6. FileRule(rule, known, order) = FirstAppended(K)  BY DEF FileRule
<1>7. open \subseteq DOMAIN repo  OBVIOUS
<1>8. \A x : C(x).key = FileKey(rule, x)  BY DEF Candidate
<1> HIDE DEF open, kept, C
<1>9. DOMAIN kept = 1..Len(kept) /\ Len(kept) \in Nat /\ \A n \in DOMAIN kept : kept[n] \in open  BY <1>5
<1>10. K \in Seq(U) /\ DOMAIN K = DOMAIN kept /\ \A n \in DOMAIN K : K[n] = C(kept[n])  BY <1>9
<1>11. \A x \in open : \E n \in DOMAIN kept : kept[n] = x  BY <1>3, <1>4, <1>5, <1>7
<1> HIDE DEF K, U
<1>12. KeysOf(K) = {FileKey(rule, x) : x \in open}
  <2>1. \A n \in DOMAIN K : K[n].key = FileKey(rule, kept[n])  BY <1>8, <1>10
  <2> QED  BY <1>9, <1>10, <1>11, <2>1 DEF KeysOf
<1>13. Full(FirstAppended(K), KeysOf(K))  BY <1>10, LimitedIsFull DEF Checkout
<1> QED  BY <1>6, <1>12, <1>13 DEF open

\* A file of ranked candidates is full.
LEMMA RankedFull ==
  ASSUME NEW S, Sortable(S), limit \in Nat
  PROVE  Full(FirstLimited(Ranked(S), limit), {c.key : c \in S})
<1> DEFINE s == Ranked(S)
           c == Cardinality(S)
<1>1. c \in Nat /\ s \in [1..c -> S] /\ \A x \in S : \E n \in 1..c : s[n] = x  BY RankedIs
<1> HIDE DEF s, c
<1>2. s \in Seq(S) /\ DOMAIN s = 1..c  BY <1>1
<1>3. KeysOf(s) = {x.key : x \in S}  BY <1>1, <1>2 DEF KeysOf
<1>4. Full(FirstLimited(s, limit), KeysOf(s))  BY <1>2, LimitedIsFull
<1> QED  BY <1>3, <1>4 DEF s

\* A state-ingress file is full: seeds first, then files for what the limit leaves.
LEMMA StateIngressFull ==
  ASSUME Checkout, NEW known, NEW assets
  PROVE  Full(StateIngress(known, assets),
              SeedKeys(StateIngressSeeds, known, assets) \cup {c.key : c \in {d \in IngressCandidates : Fresh(d.key, known)}})
<1> DEFINE seeds == StateIngressSeeds
           S == IngressCandidates
           fresh == {d \in S : Fresh(d.key, known)}
           s == Ranked(S)
           K == Kept(s, fresh)
           a == OpenSeeds(seeds, known, assets)
           n == limit - Len(a)
           b == FirstLimited(K, n)
           A == SeedKeys(seeds, known, assets)
           B == {c.key : c \in fresh}
           c == Cardinality(S)
<1>1. StateIngress(known, assets) = a \o b  BY DEF StateIngress, DynamicIngress
<1>2. Full(a, A) /\ \E U : a \in Seq(U)
  <2>1. seeds \in Seq(Seeds(seeds))  BY TablesAre
  <2> HIDE DEF seeds
  <2> QED  BY <2>1, SeedsFull
<1>3. c \in Nat /\ s \in [1..c -> S] /\ \A x \in S : \E k \in 1..c : s[k] = x  BY IngressSortable, RankedIs
<1> HIDE DEF s, c
<1>4. s \in Seq(S) /\ DOMAIN s = 1..c  BY <1>3
<1>5. /\ K \in Seq(S \cap fresh)
      /\ \A k \in DOMAIN s : s[k] \in fresh => \E m \in DOMAIN K : K[m] = s[k]
  <2>1. s \in Seq(S)  BY <1>4
  <2> HIDE DEF fresh, S, a, n, b, A, B
  <2>2. /\ Kept(s, fresh) \in Seq(S \cap fresh)
        /\ \A k \in DOMAIN s : s[k] \in fresh => \E m \in DOMAIN Kept(s, fresh) : Kept(s, fresh)[m] = s[k]
    BY <2>1, KeptFills
  <2> QED  BY <2>2
<1>6. \A x \in fresh : \E m \in DOMAIN K : K[m] = x  BY <1>3, <1>4, <1>5
<1> HIDE DEF K, fresh, a, A
<1>7. KeysOf(K) = B
  <2>1. \A m \in DOMAIN K : K[m] \in fresh  BY <1>5
  <2> QED  BY <1>6, <2>1 DEF KeysOf
<1>8. Len(a) \in Nat /\ DOMAIN a = 1..Len(a) /\ KeysOf(a) \subseteq A /\ (A \subseteq KeysOf(a) \/ Len(a) >= limit)
  BY <1>2 DEF Full
<1>9. limit \in Nat /\ n \in Int  BY <1>8 DEF Checkout
<1> DEFINE V == S \cap fresh
<1>10. b \in Seq(V) /\ (\A k \in DOMAIN b : k \in DOMAIN K /\ b[k] = K[k]) /\ (b = K \/ Len(b) >= n)
  <2>1. K \in Seq(V)  BY <1>5
  <2> HIDE DEF V, n
  <2> QED  BY <1>9, <2>1, LimitedFills
<1> HIDE DEF b, B, V
<1>11. Len(b) \in Nat /\ DOMAIN b = 1..Len(b)  BY <1>10
<1>12. KeysOf(b) \subseteq B /\ (KeysOf(b) = B \/ Len(b) >= n)  BY <1>7, <1>10 DEF KeysOf
<1> DEFINE F == a \o b
<1>13. /\ Len(F) = Len(a) + Len(b) /\ DOMAIN F = 1..(Len(a) + Len(b))
       /\ \A k \in 1..Len(a) : F[k] = a[k]
       /\ \A k \in 1..(Len(a) + Len(b)) : k > Len(a) => F[k] = b[k - Len(a)]
  <2>1. PICK U : a \in Seq(U)  BY <1>2
  <2> QED  BY <1>10, <2>1
<1> HIDE DEF F
<1>14. KeysOf(F) = KeysOf(a) \cup KeysOf(b)
  <2>1. ASSUME NEW k \in DOMAIN F  PROVE F[k].key \in KeysOf(a) \cup KeysOf(b)
    <3>1. CASE k \in 1..Len(a)  BY <1>8, <1>13, <3>1 DEF KeysOf
    <3>2. CASE k \notin 1..Len(a)
      <4>1. k > Len(a) /\ k - Len(a) \in DOMAIN b  BY <1>8, <1>11, <1>13, <3>2
      <4>2. F[k] = b[k - Len(a)]  BY <1>13, <4>1
      <4> QED  BY <4>1, <4>2 DEF KeysOf
    <3> QED  BY <3>1, <3>2
  <2>2. ASSUME NEW k \in DOMAIN a  PROVE a[k].key \in KeysOf(F)
    <3>1. k \in DOMAIN F /\ F[k] = a[k]  BY <1>8, <1>11, <1>13
    <3> QED  BY <3>1 DEF KeysOf
  <2>3. ASSUME NEW k \in DOMAIN b  PROVE b[k].key \in KeysOf(F)
    <3> DEFINE l == k + Len(a)
    <3>1. l \in DOMAIN F /\ l > Len(a) /\ l - Len(a) = k  BY <1>8, <1>11, <1>13
    <3>2. F[l] = b[k]  BY <1>13, <3>1
    <3> HIDE DEF l
    <3> QED  BY <3>1, <3>2 DEF KeysOf
  <2> QED  BY <2>1, <2>2, <2>3 DEF KeysOf
<1>15. A \cup B \subseteq KeysOf(F) \/ Len(F) >= limit
  <2>1. CASE Len(a) >= limit  BY <1>8, <1>9, <1>11, <1>13, <2>1
  <2>2. CASE Len(b) >= n  BY <1>8, <1>9, <1>11, <1>13, <2>2
  <2>3. CASE A \subseteq KeysOf(a) /\ KeysOf(b) = B  BY <1>14, <2>3
  <2> QED  BY <1>8, <1>12, <2>1, <2>2, <2>3
<1>16. KeysOf(F) \subseteq A \cup B  BY <1>8, <1>12, <1>14
<1>17. Len(F) \in Nat /\ DOMAIN F = 1..Len(F)  BY <1>8, <1>11, <1>13
<1>18. Full(F, A \cup B)  BY <1>15, <1>16, <1>17 DEF Full
<1> QED  BY <1>1, <1>18 DEF A, B, F, fresh

\* Whatever rule has run, its file is full.
LEMMA FoundFull ==
  ASSUME Checkout, NEW rule \in Rules, NEW known, NEW assets, NEW order \in Orders(rule)
  PROVE  Full(Found(rule, known, assets, order), Wanted(rule, known, assets) \ known)
<1> DEFINE W == Wanted(rule, known, assets) \ known
           seeds(q) == {x \in ToSet(q) : /\ x.asset \notin assets /\ x.paths \subseteq DOMAIN repo
                                         /\ \E p \in x.paths : Marked(repo[p], "marker")}
           Keyed(q) == {SeedKey(x) : x \in seeds(q)}
<1>1. \A q : SeedKeys(q, known, assets) = Keyed(q) \ known
  BY DEF SeedKeys, OpenSeed, Fresh
<1>2. CASE rule = "identity-token"
  <2> DEFINE s == IdentityTokenSeeds
  <2>1. Found(rule, known, assets, order) = OpenSeeds(s, known, assets)  BY <1>2 DEF Found
  <2>2. W = Keyed(s) \ known  BY <1>2 DEF Wanted
  <2>3. s \in Seq(Seeds(s))  BY TablesAre
  <2> HIDE DEF s, W, Keyed
  <2>4. Full(OpenSeeds(s, known, assets), SeedKeys(s, known, assets))  BY <2>3, SeedsFull
  <2> QED  BY <1>1, <2>1, <2>2, <2>4 DEF W
<1>3. CASE rule = "state-ingress"
  <2> DEFINE s == StateIngressSeeds
             O == {p \in DOMAIN repo : OwnedByUser(p)}
             B == {c.key : c \in {d \in IngressCandidates : Fresh(d.key, known)}}
  <2>1. Found(rule, known, assets, order) = StateIngress(known, assets)  BY <1>3 DEF Found
  <2>2. W = (Keyed(s) \cup {FileKey(rule, p) : p \in O}) \ known  BY <1>3 DEF Wanted
  <2>3. B = {FileKey(rule, p) : p \in O} \ known
    <3> DEFINE C(p) == Candidate(FileKey("state-ingress", p), {p}, NoFunction, IngressScore(p))
    <3>1. IngressCandidates = {C(p) : p \in O}  BY DEF IngressCandidates
    <3>2. \A p : C(p).key = FileKey(rule, p)  BY <1>3 DEF Candidate
    <3> HIDE DEF C, O
    <3>3. \A k : k \in B <=> \E p \in O : k = FileKey(rule, p) /\ k \notin known
      BY <3>1, <3>2 DEF Fresh
    <3> QED  BY <3>3
  <2> HIDE DEF s, W, Keyed, B, O
  <2>4. Full(StateIngress(known, assets), SeedKeys(s, known, assets) \cup B)  BY StateIngressFull DEF s, B
  <2>5. SeedKeys(s, known, assets) \cup B = W  BY <1>1, <2>2, <2>3
  <2> QED  BY <2>1, <2>4, <2>5 DEF W
<1>4. CASE rule \in {"pooled-session-state", "user-session-state-restore"}
  <2> DEFINE O == {p \in DOMAIN repo : OpenFile(rule, p, known)}
  <2>1. Found(rule, known, assets, order) = FileRule(rule, known, order)  BY <1>4 DEF Found
  <2>2. {FileKey(rule, p) : p \in O} = W
    <3> DEFINE free == {p \in DOMAIN repo : FileKey("state-ingress", p) \notin known}
    <3>1. CASE rule = "pooled-session-state"
      <4>1. W = {FileKey(rule, p) : p \in {q \in free : DirtiesPooledSession(q)}} \ known  BY <3>1 DEF Wanted
      <4>2. O = {p \in free : DirtiesPooledSession(p) /\ FileKey(rule, p) \notin known}
        BY <3>1 DEF OpenFile, Fresh
      <4> HIDE DEF W, O, free
      <4> QED  BY <4>1, <4>2
    <3>2. CASE rule = "user-session-state-restore"
      <4>1. W = {FileKey(rule, p) : p \in {q \in free : ResetsUserSession(q)}} \ known  BY <3>2 DEF Wanted
      <4>2. O = {p \in free : ResetsUserSession(p) /\ FileKey(rule, p) \notin known}
        BY <3>2 DEF OpenFile, Fresh
      <4> HIDE DEF W, O, free
      <4> QED  BY <4>1, <4>2
    <3> QED  BY <1>4, <3>1, <3>2
  <2>3. Full(FileRule(rule, known, order), {FileKey(rule, p) : p \in O})  BY <1>4, FilesFull
  <2> QED  BY <2>1, <2>2, <2>3
<1>5. CASE rule = "terminal-action-error"
  <2> DEFINE S(k) == TerminalCandidates(k)
  <2>1. Found(rule, known, assets, order) = FirstLimited(Ranked(S(known)), limit)  BY <1>5 DEF Found
  <2>2. W = {c.key : c \in S({})} \ known  BY <1>5 DEF Wanted
  <2>3. ASSUME NEW k, NEW c
        PROVE  c \in S(k) <=> c \in S({}) /\ c.key \notin k
    <3> DEFINE D == DOMAIN repo \ (KnownTerminalPaths \cup ScreenedPaths)
               Shaped(p) == {fn \in FunctionsOf(p) : /\ fn.name \notin Constructors
                                                     /\ Cardinality(ActiveOwners(Body(repo[p], fn))) >= 2
                                                     /\ TerminalGaps(Body(repo[p], fn)) # {}}
               key(p, fn) == FunctionKey("terminal-action-error", p, fn.name)
               C(p, fn) == Candidate(key(p, fn), {p}, fn, TerminalScore(p, fn))
    <3>1. \A p, fn : C(p, fn).key = key(p, fn)  BY DEF Candidate
    <3>2. \A l, p : TerminalIn(p, l) = {C(p, fn) : fn \in {x \in Shaped(p) : key(p, x) \notin l}}
      BY DEF TerminalIn, Fresh
    <3> HIDE DEF Shaped, C, key
    <3>3. \A l : c \in TerminalCandidates(l) <=> \E p \in D : \E fn \in Shaped(p) : c = C(p, fn) /\ key(p, fn) \notin l
      BY <3>2 DEF TerminalCandidates
    <3> HIDE DEF D
    <3> QED  BY <3>1, <3>3
  <2>4. Sortable(S(known)) /\ limit \in Nat  BY TerminalSortable DEF Checkout
  <2> HIDE DEF S, W
  <2>5. Full(FirstLimited(Ranked(S(known)), limit), {c.key : c \in S(known)})  BY <2>4, RankedFull
  <2>6. {c.key : c \in S(known)} = W  BY <2>2, <2>3
  <2> QED  BY <2>1, <2>5, <2>6 DEF W
<1>6. CASE rule = "optional-sibling-early-return"
  <2> DEFINE S(k) == OptionalCandidates(k)
  <2>1. Found(rule, known, assets, order) = FirstLimited(Ranked(S(known)), limit)  BY <1>6 DEF Found
  <2>2. W = {c.key : c \in S({})} \ known  BY <1>6 DEF Wanted
  <2>3. ASSUME NEW k, NEW c
        PROVE  c \in S(k) <=> c \in S({}) /\ c.key \notin k
    <3> DEFINE D == DOMAIN repo \ (ScreenedPaths \cup PartitionPaths)
               Shaped(p) == {fn \in FunctionsOf(p) : /\ <<p, fn.name>> \notin KnownOptionalFunctions
                                                     /\ OptionalGaps(Body(repo[p], fn)) # {}}
               key(p, fn) == FunctionKey("optional-sibling-early-return", p, fn.name)
               C(p, fn) == Candidate(key(p, fn), {p}, fn, OptionalScore(p, fn))
    <3>1. \A p, fn : C(p, fn).key = key(p, fn)  BY DEF Candidate
    <3>2. \A l, p : OptionalIn(p, l) = {C(p, fn) : fn \in {x \in Shaped(p) : key(p, x) \notin l}}
      BY DEF OptionalIn, Fresh
    <3> HIDE DEF Shaped, C, key
    <3>3. \A l : c \in OptionalCandidates(l) <=> \E p \in D : \E fn \in Shaped(p) : c = C(p, fn) /\ key(p, fn) \notin l
      BY <3>2 DEF OptionalCandidates
    <3> HIDE DEF D
    <3> QED  BY <3>1, <3>3
  <2>4. Sortable(S(known)) /\ limit \in Nat  BY OptionalSortable DEF Checkout
  <2> HIDE DEF S, W
  <2>5. Full(FirstLimited(Ranked(S(known)), limit), {c.key : c \in S(known)})  BY <2>4, RankedFull
  <2>6. {c.key : c \in S(known)} = W  BY <2>2, <2>3
  <2> QED  BY <2>1, <2>5, <2>6 DEF W
<1> QED  BY <1>2, <1>3, <1>4, <1>5, <1>6 DEF Rules

\* What a rule wants depends on the checkout only, and nobody changes the checkout.
LEMMA WantedStays ==
  ASSUME UNCHANGED repo, NEW rule, NEW known, NEW assets
  PROVE  Wanted(rule, known, assets)' = Wanted(rule, known, assets)
<1>1. \A p : OwnedByUser(p)' <=> OwnedByUser(p)
  BY DEF OwnedByUser, UseCurSession, ExecuteInternal, LiveHit
<1>2. \A p : DirtiesPooledSession(p)' <=> DirtiesPooledSession(p)  BY DEF DirtiesPooledSession
<1>3. \A p : ResetsUserSession(p)' <=> ResetsUserSession(p)  BY DEF ResetsUserSession
<1>4. \A p : FunctionsOf(p)' = FunctionsOf(p)  BY DEF FunctionsOf
<1>5. \A p, fn : TerminalScore(p, fn)' = TerminalScore(p, fn)  BY DEF TerminalScore
<1>6. \A p, fn : OptionalScore(p, fn)' = OptionalScore(p, fn)  BY DEF OptionalScore
<1>7. \A p : TerminalIn(p, {})' = TerminalIn(p, {})  BY <1>4, <1>5 DEF TerminalIn
<1>8. \A p : OptionalIn(p, {})' = OptionalIn(p, {})  BY <1>4, <1>6 DEF OptionalIn
<1>9. TerminalCandidates({})' = TerminalCandidates({})  BY <1>7 DEF TerminalCandidates
<1>10. OptionalCandidates({})' = OptionalCandidates({})  BY <1>8 DEF OptionalCandidates
<1> QED  BY <1>1, <1>2, <1>3, <1>9, <1>10 DEF Wanted

\* The files that are written are full.
Filled ==
  \A s \in Scanners : \A r, k, a, F :
    scan[s].pc = "written" /\ scan[s].rule = r /\ scan[s].known = k /\ scan[s].assets = a /\ scan[s].file = F =>
      Full(F, Wanted(r, k, a) \ k)

\* Only Scan writes a file, and no step changes one.
LEMMA WrittenBy ==
  ASSUME RunInv, [Next]_vars, NEW s \in Scanners, scan'[s].pc = "written"
  PROVE  /\ UNCHANGED <<repo, limit>>
         /\ \/ scan'[s] = scan[s]
            \/ /\ scan[s].pc = "scan" /\ scan[s].rule \in Rules
               /\ \E order \in Orders(scan[s].rule) :
                    scan'[s].file = Found(scan[s].rule, scan[s].known, scan[s].assets, order)
               /\ scan'[s].rule = scan[s].rule /\ scan'[s].known = scan[s].known /\ scan'[s].assets = scan[s].assets
<1>1. CASE UNCHANGED vars  BY <1>1 DEF vars
<1>2. CASE Next
  <2>0. UNCHANGED <<repo, limit>>  BY <1>2 DEF Next
  <2>1. ASSUME NEW o \in Scanners, NEW x, scan' = [scan EXCEPT ![o] = x], o # s  PROVE scan'[s] = scan[s]
    BY <2>1 DEF RunInv, Typed
  <2>2. ASSUME NEW x, scan' = [scan EXCEPT ![s] = x]  PROVE scan'[s] = x  BY <2>2 DEF RunInv, Typed
  <2>8. IsScan(scan[s])  BY DEF RunInv, Typed
  <2>9. \A o \in Scanners : (\E rule \in Rules : ReadTargets(o, rule)) \/ ReadAssets(o) \/ Scan(o) \/ Import(o) =>
          \E x : scan' = [scan EXCEPT ![o] = x]
    BY DEF ReadTargets, ReadAssets, Scan, Import
  <2>3. ASSUME NEW rule \in Rules, ReadTargets(s, rule)  PROVE FALSE
    <3>1. PICK x : scan' = [scan EXCEPT ![s] = x]
                   /\ x = [NoScan EXCEPT !.pc = IF rule \in Seeded THEN "assets" ELSE "scan",
                                         !.rule = rule, !.known = DOMAIN target]
      BY <2>3 DEF ReadTargets
    <3>2. x.pc \in {"assets", "scan"}
      <4> DEFINE b == IF rule \in Seeded THEN "assets" ELSE "scan"
      <4>1. b \in {"assets", "scan"}  OBVIOUS
      <4> HIDE DEF b
      <4>2. x = [pc |-> b, rule |-> rule, known |-> DOMAIN target, assets |-> {}, file |-> <<>>]
        BY <3>1, ScanBegins DEF b
      <4> QED  BY <4>1, <4>2
    <3> QED  BY <2>2, <3>1, <3>2
  <2>4. ASSUME ReadAssets(s)  PROVE FALSE
    <3>1. PICK x : scan' = [scan EXCEPT ![s] = x] /\ x = [scan[s] EXCEPT !.pc = "scan", !.assets = covered]
      BY <2>4 DEF ReadAssets
    <3>2. x.pc = "scan"
      <4> DEFINE y == scan[s]
      <4>1. IsScan(y) /\ x = [y EXCEPT !.pc = "scan", !.assets = covered]  BY <2>8, <3>1
      <4> HIDE DEF y
      <4>2. DOMAIN y = {"pc", "rule", "known", "assets", "file"}  BY <4>1 DEF IsScan
      <4> QED  BY <4>1, <4>2
    <3> QED  BY <2>2, <3>1, <3>2
  <2>5. ASSUME Import(s)  PROVE FALSE
    <3>1. scan' = [scan EXCEPT ![s] = IF "reimport" \in habit THEN [scan[s] EXCEPT !.pc = "imported"] ELSE NoScan]
      BY <2>5 DEF Import
    <3>2. [scan[s] EXCEPT !.pc = "imported"].pc = "imported" /\ NoScan.pc = "idle"
      <4> DEFINE y == scan[s]
      <4>1. DOMAIN y = {"pc", "rule", "known", "assets", "file"}  BY <2>8 DEF IsScan
      <4> HIDE DEF y
      <4>2. [y EXCEPT !.pc = "imported"].pc = "imported"  BY <4>1
      <4> QED  BY <4>2 DEF NoScan, y
    <3> QED  BY <2>2, <3>1, <3>2
  <2>6. ASSUME Scan(s)
        PROVE  /\ scan[s].pc = "scan" /\ scan[s].rule \in Rules
               /\ \E order \in Orders(scan[s].rule) :
                    scan'[s].file = Found(scan[s].rule, scan[s].known, scan[s].assets, order)
               /\ scan'[s].rule = scan[s].rule /\ scan'[s].known = scan[s].known /\ scan'[s].assets = scan[s].assets
    <3>1. PICK order \in Orders(scan[s].rule) :
            scan' = [scan EXCEPT ![s] = [scan[s] EXCEPT !.pc = "written",
                       !.file = Found(scan[s].rule, scan[s].known, scan[s].assets, order)]]
      BY <2>6 DEF Scan
    <3> DEFINE F == Found(scan[s].rule, scan[s].known, scan[s].assets, order)
               x == [scan[s] EXCEPT !.pc = "written", !.file = F]
    <3>2. scan'[s] = x  BY <2>2, <3>1
    <3> HIDE DEF F
    <3>3. x = [pc |-> "written", rule |-> scan[s].rule, known |-> scan[s].known, assets |-> scan[s].assets, file |-> F]
      BY <2>8, ScanSteps
    <3>4. scan[s].pc = "scan" /\ scan[s].rule \in Rules  BY <2>6 DEF Scan, RunInv, Scanned
    <3> QED  BY <3>2, <3>3, <3>4 DEF F
  <2>7. ASSUME NEW o \in Scanners, o # s,
               (\E rule \in Rules : ReadTargets(o, rule)) \/ ReadAssets(o) \/ Scan(o) \/ Import(o)
        PROVE  scan'[s] = scan[s]
    BY <2>1, <2>7, <2>9
  <2>10. (\E k \in DOMAIN target : Settle(k)) \/ (\E a \in Recorded : Cover(a)) => scan' = scan
    BY DEF Settle, Cover
  <2> QED  BY <1>2, <2>0, <2>3, <2>4, <2>5, <2>6, <2>7, <2>10 DEF Next
<1> QED  BY <1>1, <1>2

\* Every step keeps the files full.
LEMMA NextFilled == RunInv /\ Filled /\ [Next]_vars => Filled'
<1> SUFFICES ASSUME RunInv, Filled, [Next]_vars, NEW s \in Scanners, NEW r, NEW k, NEW a, NEW F,
                    scan'[s].pc = "written", scan'[s].rule = r, scan'[s].known = k, scan'[s].assets = a,
                    scan'[s].file = F
             PROVE  Full(F, Wanted(r, k, a) \ k)'
  BY DEF Filled
<1>1. UNCHANGED <<repo, limit>>  BY WrittenBy
<1>2. Wanted(r, k, a)' = Wanted(r, k, a)  BY <1>1, WantedStays
<1>3. Full(F, Wanted(r, k, a) \ k)
  <2>1. CASE scan'[s] = scan[s]  BY <2>1 DEF Filled
  <2>2. CASE scan'[s] # scan[s]
    <3>1. r \in Rules /\ \E order \in Orders(r) : F = Found(r, k, a, order)  BY <2>2, WrittenBy
    <3>2. Checkout  BY DEF RunInv
    <3> QED  BY <3>1, <3>2, FoundFull
  <2> QED  BY <2>1, <2>2
<1> QED  BY <1>1, <1>2, <1>3 DEF Full

\* NothingHeldBack: a file has all that its rule wants of the checkout and the queue
\* does not have, or as much as the limit lets through, for any checkout and limit.
THEOREM NothingHeldBackHolds == Spec => NothingHeldBack
<1> DEFINE Freed ==
      habit = {} /\ limit > 0 =>
        \A s \in Scanners : scan[s].pc = "written" /\ scan'[s] = NoScan =>
          LET open == Wanted(scan[s].rule, DOMAIN target, scan[s].assets) \ DOMAIN target
          IN  \/ open \subseteq DOMAIN target'
              \/ Len(scan[s].file) >= limit /\ open \cap DOMAIN target' # {}
<1>1. RunInv /\ Filled /\ [Next]_vars => [Freed]_vars
  <2> SUFFICES ASSUME RunInv, Filled, Next, habit = {}, limit > 0,
                      NEW s \in Scanners, scan[s].pc = "written", scan'[s] = NoScan
               PROVE  LET open == Wanted(scan[s].rule, DOMAIN target, scan[s].assets) \ DOMAIN target
                      IN  \/ open \subseteq DOMAIN target'
                          \/ Len(scan[s].file) >= limit /\ open \cap DOMAIN target' # {}
    OBVIOUS
  <2> DEFINE F == scan[s].file
             open == Wanted(scan[s].rule, DOMAIN target, scan[s].assets) \ DOMAIN target
  <2>1. Busy(s) /\ scan[s].known = DOMAIN target  BY DEF RunInv, Undisturbed, Busy
  <2>2. Full(F, open)  BY <2>1 DEF Filled
  <2>3. DOMAIN target' = KeysOf(F) \cup DOMAIN target  BY ImportedBy DEF KeysOf
  <2> HIDE DEF F, open
  <2>4. KeysOf(F) \subseteq open /\ (open \subseteq KeysOf(F) \/ Len(F) >= limit)
        /\ DOMAIN F = 1..Len(F) /\ Len(F) \in Nat
    BY <2>2 DEF Full
  <2>5. CASE open \subseteq KeysOf(F)  BY <2>3, <2>5 DEF open, F
  <2>6. CASE Len(F) >= limit
    <3>1. 1 \in DOMAIN F
      <4>1. limit \in Nat  BY DEF RunInv, Checkout
      <4> QED  BY <2>4, <2>6, <4>1
    <3>2. F[1].key \in KeysOf(F)  BY <3>1 DEF KeysOf
    <3> QED  BY <2>3, <2>4, <2>6, <3>2 DEF open, F
  <2> QED  BY <2>4, <2>5, <2>6
<1>2. Init => Filled  BY DEF Init, Filled, NoScan
<1>3. Spec => []Filled  BY <1>2, NextFilled, RunInvHolds, PTL DEF Spec
<1>4. Spec => [][Freed]_vars  BY <1>1, <1>3, RunInvHolds, PTL DEF Spec
<1> QED  BY <1>4 DEF NothingHeldBack

\* FunctionsFound is a fact about the checkout, which nobody changes: whatever its
\* files, the brace counter of iter_go_functions finds every function of those that
\* gofmt may have written, and finds the text of those, and only those, that no
\* signature cuts.
THEOREM FunctionsFoundHolds == Spec => []FunctionsFound
<1>1. Checkout => FunctionsFound
  <2> SUFFICES ASSUME Checkout, NEW p \in DOMAIN repo, Formatted(repo[p]), ~Swallows(repo[p])
               PROVE  /\ {fn.first : fn \in FunctionsOf(p)} = {fn.first : fn \in TrueFunctions(repo[p])}
                      /\ \A fn \in TrueFunctions(repo[p]) : ~OneLiner(repo[p][fn.first]) =>
                           (fn \in FunctionsOf(p) <=> ~CutAtSignature(repo[p], fn.first))
    BY DEF FunctionsFound
  <2>1. repo[p] \in Seq(Lines)  BY DEF Checkout
  <2> QED  BY <2>1, FoundAreTrue DEF FunctionsOf
<1>2. RunInv => Checkout  BY DEF RunInv
<1> QED  BY <1>1, <1>2, RunInvHolds, PTL
=============================================================================
