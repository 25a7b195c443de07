---------------------------- MODULE TextScanProofs ----------------------------
(***************************************************************************)
(* Proofs about TextScan, for texts of any length: the scanner of          *)
(* responses finds the end of the header, which stays where it is while    *)
(* more arrives, and finds the fields; sanitized addresses are stable, as  *)
(* long as was allocated when a short holds their length, and decode to    *)
(* what they were; the file that was picked is the one that is opened when *)
(* its address fits; the automata of the URL splitter take a URL apart     *)
(* where it is cut by its definition; and links stay where their page is.  *)
(*                                                                         *)
(* The loops are recursive functions of the position.  For each there is   *)
(* a lemma that the function exists, and one that says what it gives, by   *)
(* the least position, or distance from the end, for which it would not.   *)
(***************************************************************************)
EXTENDS TextScan, SequenceTheorems, FiniteSetTheorems, WellFoundedInduction, TLAPS

(* A set of naturals that is not empty has a least element.                *)
LEMMA Least ==
  ASSUME NEW T, T \subseteq Nat, T # {}
  PROVE  \E x \in T : \A y \in T : x <= y
<1> DEFINE Less == {ss \in Nat \X Nat : ss[1] < ss[2]}
<1>1. IsWellFoundedOn(Less, Nat)
  <2>1. IsWellFoundedOn(OpToRel(<, Nat), Nat)
    BY NatLessThanWellFounded
  <2>2. Less = OpToRel(<, Nat)
    BY DEF OpToRel
  <2> HIDE DEF Less
  <2>3. ASSUME NEW f \in [Nat -> Nat], \A n \in Nat : <<f[n + 1], f[n]>> \in Less
        PROVE  FALSE
    BY <2>1, <2>2, <2>3 DEF IsWellFoundedOn
  <2> QED
    BY <2>3 DEF IsWellFoundedOn
<1> HIDE DEF Less
<1>2. \E x \in T : \A y \in T : ~ (<<y, x>> \in Less)
  BY <1>1, WFMin
<1>3. PICK x \in T : \A y \in T : ~ (<<y, x>> \in Less)
  BY <1>2
<1>4. ASSUME NEW y \in T
      PROVE  x <= y
  <2>1. x \in Nat /\ y \in Nat /\ ~ (<<y, x>> \in Less)
    BY <1>3
  <2> QED
    BY <2>1 DEF Less
<1> QED
  BY <1>4

-----------------------------------------------------------------------------
(* The end of a header.  HTTPFindHeaderEnd goes on at a position i with or  *)
(* without a line break before it; what it will find depends on the bytes   *)
(* from there on, read as if they were the beginning of a text.             *)

(* Where the line break that begins at i ends. *)
BreakEnd(s, i) == IF s[i] = "CR" /\ i < Len(s) /\ s[i + 1] = "LF" THEN i + 1 ELSE i

(* A line break begins at j, for a scanner that begins at i.               *)
BreakAt(s, i, j) == s[j] \in Breaks /\ ~(j > i /\ s[j] = "LF" /\ s[j - 1] = "CR")

EmptyFrom(s, i) ==
  {BreakEnd(s, j) : j \in {k \in i + 1 .. Len(s) : BreakAt(s, i, k) /\ EndsLine(s, k - 1)}}

First(E) ==
  LET first == {end \in E : \A e \in E : end <= e}
  IN  IF first = {} THEN -1 ELSE CHOOSE end \in first : TRUE

(* What is found from i on. *)
Found(s, i, lineBreaks) ==
  IF lineBreaks = 1 /\ i <= Len(s) /\ s[i] \in Breaks THEN BreakEnd(s, i)
  ELSE First(EmptyFrom(s, i))

LEMMA FirstIs ==
  ASSUME NEW E, E \subseteq Nat, NEW e \in E, \A d \in E : e <= d
  PROVE  First(E) = e
<1> DEFINE first == {end \in E : \A d \in E : end <= d}
<1>1. \A d \in first : d = e
  <2> SUFFICES ASSUME NEW d \in first PROVE d = e
    OBVIOUS
  <2>1. d \in Nat /\ e \in Nat /\ d <= e /\ e <= d
    OBVIOUS
  <2> QED
    BY <2>1
<1>2. e \in first
  OBVIOUS
<1>3. First(E) = IF first = {} THEN -1 ELSE CHOOSE end \in first : TRUE
  BY DEF First
<1> HIDE DEF first
<1>4. (CHOOSE end \in first : TRUE) \in first
  BY <1>2
<1> QED
  BY <1>1, <1>2, <1>3, <1>4

LEMMA FirstOfNone == First({}) = -1
BY DEF First

LEMMA EmptyFromStart ==
  ASSUME NEW S, NEW s \in Seq(S)
  PROVE  EmptyFrom(s, 1) = EmptyLines(s)
<1>1. Len(s) \in Nat /\ DOMAIN s = 1 .. Len(s)
  OBVIOUS
<1>2. ASSUME NEW e \in EmptyFrom(s, 1)
      PROVE  e \in EmptyLines(s)
  <2>1. PICK j \in 2 .. Len(s) : e = BreakEnd(s, j) /\ BreakAt(s, 1, j) /\ EndsLine(s, j - 1)
    BY <1>1 DEF EmptyFrom
  <2>2. e \in 1 .. Len(s) /\ (e = j \/ e = j + 1)
    BY <1>1, <2>1 DEF BreakEnd
  <2>3. IsBreak(s, j, e)
    BY <1>1, <2>1 DEF BreakEnd, BreakAt, IsBreak, Breaks
  <2>4. j \in (1 .. e) \ {1} /\ j >= e - 1
    BY <1>1, <2>1, <2>2
  <2> QED
    BY <1>1, <2>1, <2>2, <2>3, <2>4 DEF EmptyLines
<1>3. ASSUME NEW e \in EmptyLines(s)
      PROVE  e \in EmptyFrom(s, 1)
  <2>1. e \in 1 .. Len(s)
    BY <1>1 DEF EmptyLines
  <2>2. PICK j \in (1 .. e) \ {1} : j >= e - 1 /\ IsBreak(s, j, e) /\ EndsLine(s, j - 1)
    BY DEF EmptyLines
  <2>3. j \in 2 .. Len(s)
    BY <1>1, <2>1, <2>2
  <2>4. e = BreakEnd(s, j) /\ BreakAt(s, 1, j)
    BY <1>1, <2>1, <2>2, <2>3 DEF BreakEnd, BreakAt, IsBreak, Breaks
  <2> QED
    BY <1>1, <2>2, <2>3, <2>4 DEF EmptyFrom
<1> QED
  BY <1>2, <1>3

(* Behind a byte that is no line break nothing has changed. *)
LEMMA EmptyFromSkip ==
  ASSUME NEW S, NEW s \in Seq(S), NEW i \in Nat \ {0}, i <= Len(s), s[i] \notin Breaks
  PROVE  EmptyFrom(s, i) = EmptyFrom(s, i + 1)
<1>1. Len(s) \in Nat
  OBVIOUS
<1>2. ASSUME NEW k \in i + 1 .. Len(s), BreakAt(s, i, k), EndsLine(s, k - 1)
      PROVE  k \in i + 2 .. Len(s) /\ BreakAt(s, i + 1, k)
  <2>1. k - 1 # i
    BY <1>2 DEF EndsLine
  <2> QED
    BY <1>1, <1>2, <2>1 DEF BreakAt
<1>3. ASSUME NEW k \in i + 2 .. Len(s), BreakAt(s, i + 1, k)
      PROVE  k \in i + 1 .. Len(s) /\ BreakAt(s, i, k)
  BY <1>1, <1>3 DEF BreakAt
<1>4. {k \in i + 1 .. Len(s) : BreakAt(s, i, k) /\ EndsLine(s, k - 1)}
      = {k \in (i + 1) + 1 .. Len(s) : BreakAt(s, i + 1, k) /\ EndsLine(s, k - 1)}
  BY <1>1, <1>2, <1>3
<1> QED
  BY <1>4, Zenon DEF EmptyFrom

(* The empty lines behind a line break begin where it ends. *)
LEMMA BehindBreak ==
  ASSUME NEW S, NEW s \in Seq(S), NEW i \in Nat \ {0}, i <= Len(s), s[i] \in Breaks,
         NEW k \in i + 1 .. Len(s), BreakAt(s, i, k)
  PROVE  k >= BreakEnd(s, i) + 1 /\ BreakAt(s, BreakEnd(s, i) + 1, k)
BY DEF BreakAt, BreakEnd, Breaks

LEMMA FoundSteps ==
  ASSUME NEW S, NEW s \in Seq(S), NEW i \in Nat \ {0}, NEW b \in 0 .. 1
  PROVE  Found(s, i, b) =
           IF i > Len(s) THEN -1
           ELSE IF s[i] \notin Breaks THEN Found(s, i + 1, 0)
           ELSE IF b = 1 THEN BreakEnd(s, i) ELSE Found(s, BreakEnd(s, i) + 1, 1)
<1>1. Len(s) \in Nat
  OBVIOUS
<1>2. CASE i > Len(s)
  <2>1. EmptyFrom(s, i) = {}
    BY <1>1, <1>2 DEF EmptyFrom
  <2> QED
    BY <1>1, <1>2, <2>1, FirstOfNone DEF Found
<1>3. CASE i <= Len(s) /\ s[i] \notin Breaks
  BY <1>1, <1>3, EmptyFromSkip DEF Found
<1>4. CASE i <= Len(s) /\ s[i] \in Breaks /\ b = 1
  BY <1>1, <1>4 DEF Found
<1>5. CASE i <= Len(s) /\ s[i] \in Breaks /\ b = 0
  <2> DEFINE l == BreakEnd(s, i)
  <2>1. l \in i .. Len(s) /\ EndsLine(s, l) /\ (l = i \/ l = i + 1)
    BY <1>1, <1>5 DEF BreakEnd, EndsLine, Breaks
  <2>2. ASSUME NEW k \in i + 1 .. Len(s), BreakAt(s, i, k)
        PROVE  k >= l + 1 /\ BreakAt(s, l + 1, k)
    BY <1>5, <2>2, BehindBreak
  <2>3. ASSUME NEW k \in l + 1 .. Len(s), BreakAt(s, l + 1, k)
        PROVE  k = l + 1 \/ BreakAt(s, i, k)
    BY <1>1, <2>1, <2>3 DEF BreakAt
  <2>4. CASE l + 1 <= Len(s) /\ s[l + 1] \in Breaks
    <3>1. BreakAt(s, i, l + 1)
      BY <1>1, <1>5, <2>1, <2>4 DEF BreakAt, BreakEnd, EndsLine, Breaks
    <3>2. l + 1 \in i + 1 .. Len(s)
      BY <1>1, <2>1, <2>4
    <3>3. (l + 1) - 1 = l
      BY <2>1
    <3>4. BreakEnd(s, l + 1) \in EmptyFrom(s, i)
      BY <2>1, <3>1, <3>2, <3>3 DEF EmptyFrom
    <3>5. ASSUME NEW e \in EmptyFrom(s, i)
          PROVE  e \in Nat /\ BreakEnd(s, l + 1) <= e
      <4>1. PICK k \in i + 1 .. Len(s) : e = BreakEnd(s, k) /\ BreakAt(s, i, k)
        BY DEF EmptyFrom
      <4>2. k >= l + 1
        BY <2>2, <4>1
      <4>3. e \in Nat /\ e >= k
        BY <1>1, <4>1 DEF BreakEnd
      <4>4. BreakEnd(s, l + 1) <= l + 2
        BY <1>1, <2>1 DEF BreakEnd
      <4>5. BreakEnd(s, l + 1) \in Nat
        BY <1>1, <2>1 DEF BreakEnd
      <4> QED
        BY <2>1, <4>1, <4>2, <4>3, <4>4, <4>5
    <3>6. First(EmptyFrom(s, i)) = BreakEnd(s, l + 1)
      BY <3>4, <3>5, FirstIs
    <3>7. Found(s, i, b) = First(EmptyFrom(s, i)) /\ Found(s, l + 1, 1) = BreakEnd(s, l + 1)
      BY <1>5, <2>4 DEF Found
    <3>8. ~ (i > Len(s))
      BY <1>1, <1>5
    <3> QED
      BY <1>5, <3>6, <3>7, <3>8
  <2>5. CASE ~ (l + 1 <= Len(s) /\ s[l + 1] \in Breaks)
    <3>1. ASSUME NEW k \in i + 1 .. Len(s), BreakAt(s, i, k)
          PROVE  k \in (l + 1) + 1 .. Len(s) /\ BreakAt(s, l + 1, k)
      <4>1. k >= l + 1 /\ BreakAt(s, l + 1, k)
        BY <2>2, <3>1
      <4>2. k # l + 1
        BY <1>1, <2>5, <3>1 DEF BreakAt
      <4> QED
        BY <1>1, <2>1, <4>1, <4>2
    <3>2. ASSUME NEW k \in (l + 1) + 1 .. Len(s), BreakAt(s, l + 1, k)
          PROVE  k \in i + 1 .. Len(s) /\ BreakAt(s, i, k)
      <4>1. k \in l + 1 .. Len(s) /\ k # l + 1 /\ k \in i + 1 .. Len(s)
        BY <1>1, <2>1
      <4> QED
        BY <2>3, <3>2, <4>1
    <3>3. {k \in i + 1 .. Len(s) : BreakAt(s, i, k) /\ EndsLine(s, k - 1)}
          = {k \in (l + 1) + 1 .. Len(s) : BreakAt(s, l + 1, k) /\ EndsLine(s, k - 1)}
      BY <3>1, <3>2
    <3>4. EmptyFrom(s, i) = EmptyFrom(s, l + 1)
      BY <3>3, Zenon DEF EmptyFrom
    <3>5. Found(s, i, b) = First(EmptyFrom(s, i)) /\ Found(s, l + 1, 1) = First(EmptyFrom(s, l + 1))
      BY <1>5, <2>5 DEF Found
    <3>6. ~ (i > Len(s))
      BY <1>1, <1>5
    <3> QED
      BY <1>5, <3>4, <3>5, <3>6
  <2> QED
    BY <2>4, <2>5
<1> QED
  BY <1>1, <1>2, <1>3, <1>4, <1>5

(* A turn of the loop of HTTPFindHeaderEnd, where f says what later turns  *)
(* find.                                                                   *)
Turn(s, f, i, lineBreaks) ==
  IF i > Len(s) THEN -1
  ELSE IF s[i] \notin Breaks THEN f[i + 1][0]
  ELSE IF lineBreaks = 1 THEN BreakEnd(s, i) ELSE f[BreakEnd(s, i) + 1][1]

Scans(s, f) == f = [i \in Nat |-> [lineBreaks \in 0 .. 1 |-> Turn(s, f, i, lineBreaks)]]

LEMMA ScanExists ==
  ASSUME NEW S, NEW s \in Seq(S)
  PROVE  \E f : Scans(s, f)
<1> DEFINE G == [i \in Nat |-> [b \in 0 .. 1 |-> Found(s, i, b)]]
           g == [i \in Nat |-> [b \in 0 .. 1 |->
                   IF i = 0 THEN Turn(s, G, i, b) ELSE Found(s, i, b)]]
<1>1. ASSUME NEW i \in Nat, NEW b \in 0 .. 1
      PROVE  Turn(s, G, i, b) = Turn(s, g, i, b)
  <2>1. i + 1 \in Nat \ {0} /\ BreakEnd(s, i) + 1 \in Nat \ {0} /\ 0 \in 0 .. 1 /\ 1 \in 0 .. 1
    BY DEF BreakEnd
  <2>2. \A j \in Nat \ {0} : \A c \in 0 .. 1 : G[j][c] = g[j][c]
    OBVIOUS
  <2> HIDE DEF G, g
  <2> QED
    BY <2>1, <2>2 DEF Turn
<1>2. ASSUME NEW i \in Nat \ {0}, NEW b \in 0 .. 1
      PROVE  Found(s, i, b) = Turn(s, G, i, b)
  <2>1. i + 1 \in Nat \ {0} /\ BreakEnd(s, i) + 1 \in Nat \ {0} /\ 0 \in 0 .. 1 /\ 1 \in 0 .. 1
    BY DEF BreakEnd
  <2>2. G[i + 1][0] = Found(s, i + 1, 0) /\ G[BreakEnd(s, i) + 1][1] = Found(s, BreakEnd(s, i) + 1, 1)
    BY <2>1
  <2> HIDE DEF G
  <2> QED
    BY <2>2, FoundSteps DEF Turn
<1>3. ASSUME NEW i \in Nat, NEW b \in 0 .. 1
      PROVE  g[i][b] = Turn(s, g, i, b)
  BY <1>1, <1>2
<1>4. g = [i \in Nat |-> [b \in 0 .. 1 |-> g[i][b]]]
  OBVIOUS
<1> HIDE DEF g
<1>5. g = [i \in Nat |-> [b \in 0 .. 1 |-> Turn(s, g, i, b)]]
  BY <1>3, <1>4
<1> QED
  BY <1>5 DEF Scans

LEMMA ScanFinds ==
  ASSUME NEW S, NEW s \in Seq(S), NEW f, Scans(s, f)
  PROVE  f[1][0] = Found(s, 1, 0)
<1>1. Len(s) \in Nat
  OBVIOUS
<1>2. \A i \in Nat \ {0}, b \in 0 .. 1 : f[i][b] = Turn(s, f, i, b)
  <2> DEFINE h == [i \in Nat |-> [lineBreaks \in 0 .. 1 |-> Turn(s, f, i, lineBreaks)]]
  <2>1. f = h
    BY DEF Scans
  <2>2. \A i \in Nat \ {0}, b \in 0 .. 1 : h[i][b] = Turn(s, f, i, b)
    OBVIOUS
  <2> HIDE DEF h
  <2> QED
    BY <2>1, <2>2
<1> DEFINE Differ(i) == \E b \in 0 .. 1 : f[i][b] # Found(s, i, b)
           T == {d \in Nat : \E i \in 1 .. Len(s) : d = Len(s) - i /\ Differ(i)}
<1>3. \A i \in Nat \ {0} : i > Len(s) => ~ Differ(i)
  BY <1>1, <1>2, FoundSteps DEF Turn
<1>4. T = {}
  <2> SUFFICES ASSUME T # {} PROVE FALSE
    OBVIOUS
  <2>1. PICK d \in T : \A e \in T : d <= e
    BY Least, T \subseteq Nat
  <2>2. PICK i \in 1 .. Len(s) : d = Len(s) - i /\ Differ(i)
    BY <2>1
  <2>3. ASSUME NEW j \in Nat, j > i
        PROVE  ~ Differ(j)
    <3>1. CASE j > Len(s)
      BY <1>3, <2>3, <3>1
    <3>2. CASE j <= Len(s)
      <4>1. Len(s) - j \in Nat /\ ~ (d <= Len(s) - j) /\ j \in 1 .. Len(s)
        BY <1>1, <2>2, <2>3, <3>2
      <4> HIDE DEF Differ
      <4> QED
        BY <2>1, <4>1
    <3> QED
      BY <1>1, <3>1, <3>2
  <2>4. i + 1 \in Nat /\ i + 1 > i /\ BreakEnd(s, i) + 1 \in Nat /\ BreakEnd(s, i) + 1 > i
    BY <1>1 DEF BreakEnd
  <2>5. f[i + 1][0] = Found(s, i + 1, 0) /\ f[BreakEnd(s, i) + 1][1] = Found(s, BreakEnd(s, i) + 1, 1)
    BY <2>3, <2>4
  <2>6. PICK b \in 0 .. 1 : f[i][b] # Found(s, i, b)
    BY <2>2
  <2>7. f[i][b] = Turn(s, f, i, b)
    BY <1>2
  <2> QED
    BY <2>5, <2>6, <2>7, FoundSteps DEF Turn
<1>5. ~ Differ(1)
  <2>1. CASE Len(s) = 0
    BY <1>3, <2>1
  <2>2. CASE Len(s) # 0
    <3>1. 1 \in 1 .. Len(s) /\ Len(s) - 1 \in Nat
      BY <1>1, <2>2
    <3> HIDE DEF Differ
    <3> QED
      BY <1>4, <3>1
  <2> QED
    BY <2>1, <2>2
<1> QED
  BY <1>5

(* HTTPFindHeaderEnd finds the first empty line, whatever the text.        *)
LEMMA HeaderEndScanned ==
  ASSUME NEW S, NEW s \in Seq(S)
  PROVE  HTTPFindHeaderEnd(s) = HeaderEnd(s)
<1> DEFINE f == CHOOSE f : Scans(s, f)
<1>1. Scans(s, f)
  BY ScanExists
<1>2. HTTPFindHeaderEnd(s) = f[1][0]
  BY DEF HTTPFindHeaderEnd, Scans, Turn, BreakEnd
<1> HIDE DEF f
<1>3. f[1][0] = Found(s, 1, 0)
  BY <1>1, ScanFinds
<1>4. Found(s, 1, 0) = First(EmptyLines(s))
  BY EmptyFromStart DEF Found
<1>5. HeaderEnd(s) = First(EmptyLines(s))
  BY DEF HeaderEnd, First
<1> QED
  BY <1>2, <1>3, <1>4, <1>5

-----------------------------------------------------------------------------
(* The texts of the system. *)

IInv == bytes \in Alphabets /\ buf \in Seq(bytes)

(* A text has the bytes of its alphabet only.                              *)
THEOREM TextInvariance == Spec => []IInv
<1>1. Init => IInv
  BY DEF Init, IInv
<1>2. IInv /\ [Next]_<<buf, bytes>> => IInv'
  BY DEF IInv, Next, Receive
<1> QED
  BY <1>1, <1>2, PTL DEF Spec

(* The scanner finds the end of the header where it is (http_response.c:4). *)
THEOREM HeaderEndIsFound == Spec => []HeaderEndFound
<1>1. IInv => HeaderEndFound
  BY HeaderEndScanned DEF IInv, HeaderEndFound
<1> QED
  BY <1>1, TextInvariance, PTL

(* A byte more leaves the empty lines before the last byte as they are.     *)
LEMMA EmptyLinesStay ==
  ASSUME NEW S, NEW s \in Seq(S), NEW b \in S, NEW e \in Nat, e < Len(s)
  PROVE  e \in EmptyLines(Append(s, b)) <=> e \in EmptyLines(s)
<1> DEFINE t == Append(s, b)
<1>1. Len(s) \in Nat /\ Len(t) = Len(s) + 1 /\ DOMAIN s = 1 .. Len(s) /\ DOMAIN t = 1 .. Len(t)
  OBVIOUS
<1>2. \A k \in 1 .. Len(s) : t[k] = s[k]
  OBVIOUS
<1> HIDE DEF t
<1>3. ASSUME NEW i \in (1 .. e) \ {1}
      PROVE  /\ IsBreak(t, i, e) <=> IsBreak(s, i, e)
             /\ EndsLine(t, i - 1) <=> EndsLine(s, i - 1)
  <2>1. /\ i \in 1 .. Len(s) /\ i - 1 \in 1 .. Len(s) /\ i + 1 \in 1 .. Len(s)
        /\ e \in 1 .. Len(s) /\ (i - 1) + 1 = i
    BY <1>1
  <2>2. /\ i < Len(t) /\ i < Len(s) /\ i - 1 < Len(t) /\ i - 1 < Len(s)
    BY <1>1
  <2>3. t[i] = s[i] /\ t[i - 1] = s[i - 1] /\ t[i + 1] = s[i + 1] /\ t[e] = s[e]
    BY <1>2, <2>1
  <2> QED
    BY <2>1, <2>2, <2>3 DEF IsBreak, EndsLine
<1>4. e \in DOMAIN t <=> e \in DOMAIN s
  BY <1>1
<1> QED
  BY <1>3, <1>4 DEF EmptyLines, t

LEMMA HeaderEndIsFirst ==
  ASSUME NEW S, NEW s \in Seq(S)
  PROVE  \/ HeaderEnd(s) = -1 /\ EmptyLines(s) = {}
         \/ /\ HeaderEnd(s) \in EmptyLines(s)
            /\ HeaderEnd(s) \in 1 .. Len(s)
            /\ \A e \in EmptyLines(s) : HeaderEnd(s) <= e
<1>1. EmptyLines(s) \subseteq 1 .. Len(s) /\ Len(s) \in Nat
  BY DEF EmptyLines
<1>2. HeaderEnd(s) = First(EmptyLines(s))
  BY DEF HeaderEnd, First
<1>3. CASE EmptyLines(s) = {}
  BY <1>2, <1>3, FirstOfNone
<1>4. CASE EmptyLines(s) # {}
  <2>1. EmptyLines(s) \subseteq Nat
    BY <1>1
  <2>2. PICK e \in EmptyLines(s) : \A d \in EmptyLines(s) : e <= d
    BY <1>4, <2>1, Least
  <2>3. First(EmptyLines(s)) = e
    BY <2>1, <2>2, FirstIs
  <2> QED
    BY <1>1, <1>2, <2>2, <2>3
<1> QED
  BY <1>3, <1>4

LEMMA HeaderEndKept ==
  ASSUME NEW S, NEW s \in Seq(S), NEW b \in S, HeaderEnd(s) # -1
  PROVE  \/ HeaderEnd(Append(s, b)) = HeaderEnd(s)
         \/ /\ HeaderEnd(s) = Len(s) /\ s[Len(s)] = "CR" /\ b = "LF"
            /\ HeaderEnd(Append(s, b)) = Len(s) + 1
<1> DEFINE t == Append(s, b)
           h == HeaderEnd(s)
<1>1. /\ Len(s) \in Nat /\ Len(t) = Len(s) + 1 /\ DOMAIN s = 1 .. Len(s) /\ DOMAIN t = 1 .. Len(t)
      /\ t \in Seq(S)
  OBVIOUS
<1>2. (\A k \in 1 .. Len(s) : t[k] = s[k]) /\ t[Len(s) + 1] = b
  OBVIOUS
<1>3. h \in EmptyLines(s) /\ h \in 1 .. Len(s) /\ \A e \in EmptyLines(s) : h <= e
  BY HeaderEndIsFirst
<1>4. EmptyLines(t) \subseteq Nat
  BY <1>1 DEF EmptyLines
<1>5. \A e \in EmptyLines(t) : h <= e
  <2> SUFFICES ASSUME NEW e \in EmptyLines(t), e < h PROVE FALSE
    BY <1>3, <1>4
  <2>1. e \in Nat /\ e < Len(s)
    BY <1>1, <1>3, <1>4
  <2>2. e \in EmptyLines(s)
    BY <2>1, EmptyLinesStay
  <2> QED
    BY <1>3, <2>1, <2>2
<1>6. First(EmptyLines(t)) = HeaderEnd(t)
  BY DEF HeaderEnd, First
<1>7. CASE h < Len(s)
  <2>1. h \in EmptyLines(t)
    BY <1>3, <1>7, EmptyLinesStay
  <2> QED
    BY <1>4, <1>5, <1>6, <2>1, FirstIs
<1>8. CASE h = Len(s)
  <2>1. PICK i \in (1 .. h) \ {1} : i >= h - 1 /\ IsBreak(s, i, h) /\ EndsLine(s, i - 1)
    BY <1>3 DEF EmptyLines
  <2>2. i \in 1 .. Len(s) /\ i - 1 \in 1 .. Len(s) /\ (i - 1) + 1 = i /\ i < Len(t) /\ i - 1 < Len(t)
        /\ i - 1 < Len(s) /\ h \in 1 .. Len(s) /\ h < Len(t)
    BY <1>1, <1>8, <2>1
  <2>3. t[i] = s[i] /\ t[i - 1] = s[i - 1] /\ t[h] = s[h] /\ t[h + 1] = b
    BY <1>2, <1>8, <2>2
  <2> HIDE DEF t, h
  <2>4. EndsLine(t, i - 1)
    BY <2>1, <2>2, <2>3 DEF EndsLine
  <2>5. CASE s[h] = "CR" /\ b = "LF"
    <3>1. i = h
      BY <2>1, <2>2, <2>5 DEF IsBreak
    <3>2. IsBreak(t, i, h + 1)
      BY <2>3, <2>5, <3>1 DEF IsBreak
    <3>3. h + 1 \in EmptyLines(t)
      <4>1. h + 1 \in DOMAIN t /\ i \in (1 .. h + 1) \ {1} /\ i >= (h + 1) - 1
        BY <1>1, <1>8, <2>1, <2>2, <3>1, SMTT(30)
      <4> QED
        BY <2>4, <3>2, <4>1 DEF EmptyLines
    <3>4. h \notin EmptyLines(t)
      <4> SUFFICES ASSUME NEW j \in (1 .. h) \ {1}, j >= h - 1, IsBreak(t, j, h) PROVE FALSE
        BY DEF EmptyLines
      <4> QED
        BY <1>1, <1>8, <2>2, <2>3, <2>5 DEF IsBreak
    <3>5. \A e \in EmptyLines(t) : h + 1 <= e
      BY <1>4, <1>5, <2>2, <3>4
    <3>6. HeaderEnd(t) = h + 1
      BY <1>4, <1>6, <3>3, <3>5, FirstIs
    <3> QED
      BY <1>8, <2>5, <3>6 DEF t, h
  <2>6. CASE ~ (s[h] = "CR" /\ b = "LF")
    <3>1. IsBreak(t, i, h)
      BY <1>8, <2>1, <2>2, <2>3, <2>6 DEF IsBreak
    <3>2. h \in EmptyLines(t)
      BY <1>1, <1>8, <2>1, <2>2, <2>4, <3>1 DEF EmptyLines
    <3>3. HeaderEnd(t) = h
      BY <1>4, <1>5, <1>6, <3>2, FirstIs
    <3> QED
      BY <3>3 DEF t, h
  <2> QED
    BY <2>5, <2>6
<1> QED
  BY <1>1, <1>3, <1>7, <1>8

(* A header that was found stays where it is when more is received, but for *)
(* an LF that its last CR waits for (uri/http.c:275).                       *)
THEOREM HeaderEndIsStable == Spec => HeaderEndStays
<1> DEFINE Stays ==
      HTTPFindHeaderEnd(buf) # -1 =>
        \/ HTTPFindHeaderEnd(buf') = HTTPFindHeaderEnd(buf)
        \/ /\ HTTPFindHeaderEnd(buf) = Len(buf) /\ Last(buf) = "CR" /\ Last(buf') = "LF"
           /\ HTTPFindHeaderEnd(buf') = Len(buf')
<1>1. ASSUME IInv, [Next]_<<buf, bytes>>
      PROVE  [Stays]_buf
  <2>1. CASE UNCHANGED buf
    BY <2>1
  <2>2. CASE \E byte \in bytes : Receive(byte)
    <3>1. PICK b \in bytes : buf' = Append(buf, b)
      BY <2>2 DEF Receive
    <3>2. buf \in Seq(bytes) /\ buf' \in Seq(bytes) /\ Len(buf') = Len(buf) + 1 /\ Len(buf) \in Nat
          /\ buf'[Len(buf) + 1] = b
      BY <1>1, <3>1 DEF IInv
    <3>3. HTTPFindHeaderEnd(buf) = HeaderEnd(buf) /\ HTTPFindHeaderEnd(buf') = HeaderEnd(buf')
      BY <3>2, HeaderEndScanned
    <3>4. Last(buf) = buf[Len(buf)] /\ Last(buf') = b
      BY <3>2 DEF Last
    <3>5. HeaderEnd(buf) # -1 =>
            \/ HeaderEnd(buf') = HeaderEnd(buf)
            \/ /\ HeaderEnd(buf) = Len(buf) /\ buf[Len(buf)] = "CR" /\ b = "LF"
               /\ HeaderEnd(buf') = Len(buf) + 1
      BY <3>1, <3>2, HeaderEndKept
    <3> QED
      BY <3>2, <3>3, <3>4, <3>5
  <2> QED
    BY <1>1, <2>1, <2>2 DEF Next
<1> QED
  BY <1>1, TextInvariance, PTL DEF Spec, HeaderEndStays

-----------------------------------------------------------------------------
(* The pieces of a text one after the other.  F[k] are the first k of them. *)

Joins(p, F, n, S) ==
  /\ F \in [0 .. n -> Seq(S)]
  /\ F[0] = <<>>
  /\ \A k \in 1 .. n : F[k] = F[k - 1] \o p[k]

Flatten(p, f, n) ==
  f = [k \in 1 .. n |-> IF k = 1 THEN p[k] ELSE f[k - 1] \o p[k]]

LEMMA FlattenExists ==
  ASSUME NEW p, NEW n \in Nat
  PROVE  \E f : Flatten(p, f, n)
<1> DEFINE T == {m \in Nat : ~ \E f : Flatten(p, f, m)}
<1> SUFFICES ASSUME T # {}
             PROVE  FALSE
  OBVIOUS
<1>1. PICK m \in T : \A k \in T : m <= k
  BY Least, T \subseteq Nat
<1>2. CASE m = 0
  <2>1. \A f : [k \in 1 .. 0 |-> p[k]] = [k \in 1 .. 0 |-> IF k = 1 THEN p[k] ELSE f[k - 1] \o p[k]]
    OBVIOUS
  <2>2. Flatten(p, [k \in 1 .. 0 |-> p[k]], 0)
    BY <2>1 DEF Flatten
  <2> QED
    BY <1>1, <1>2, <2>2
<1>3. CASE m # 0
  <2>1. m - 1 \in Nat /\ m - 1 \notin T
    BY <1>1, <1>3
  <2>2. PICK f : Flatten(p, f, m - 1)
    BY <2>1
  <2> DEFINE h == [k \in 1 .. m |-> IF k = m THEN (IF m = 1 THEN p[m] ELSE f[m - 1] \o p[m]) ELSE f[k]]
  <2>3. ASSUME NEW k \in 1 .. m
        PROVE  h[k] = IF k = 1 THEN p[k] ELSE h[k - 1] \o p[k]
    <3>1. CASE k = m
      BY <3>1
    <3>2. CASE k # m
      <4>1. k \in 1 .. m - 1 /\ (k # 1 => k - 1 \in 1 .. m /\ k - 1 # m)
        BY <3>2, <2>1
      <4> DEFINE e == [j \in 1 .. m - 1 |-> IF j = 1 THEN p[j] ELSE f[j - 1] \o p[j]]
      <4>2. f = e
        BY <2>2 DEF Flatten
      <4>3. e[k] = IF k = 1 THEN p[k] ELSE f[k - 1] \o p[k]
        BY <4>1
      <4> HIDE DEF e
      <4>4. h[k] = f[k] /\ (k # 1 => h[k - 1] = f[k - 1])
        BY <3>2, <4>1
      <4> QED
        BY <4>2, <4>3, <4>4
    <3> QED
      BY <3>1, <3>2
  <2>4. h = [k \in 1 .. m |-> h[k]]
    OBVIOUS
  <2> HIDE DEF h
  <2>5. h = [k \in 1 .. m |-> IF k = 1 THEN p[k] ELSE h[k - 1] \o p[k]]
    BY <2>3, <2>4
  <2> QED
    BY <1>1, <2>5 DEF Flatten
<1> QED
  BY <1>2, <1>3

LEMMA Concatenated ==
  ASSUME NEW S, NEW s \in Seq(S), NEW t \in Seq(S)
  PROVE  /\ s \o t \in Seq(S) /\ Len(s) \in Nat /\ Len(t) \in Nat
         /\ Len(s \o t) = Len(s) + Len(t)
         /\ \A j \in 1 .. Len(s) : (s \o t)[j] = s[j]
         /\ \A j \in 1 .. Len(t) : (s \o t)[Len(s) + j] = t[j]
OBVIOUS

(* FlattenSeq joins the pieces.                                            *)
LEMMA FlattenJoins ==
  ASSUME NEW S, NEW p \in Seq(Seq(S))
  PROVE  \E F : Joins(p, F, Len(p), S) /\ FlattenSeq(p) = F[Len(p)]
<1> DEFINE n == Len(p)
           f == CHOOSE f : Flatten(p, f, n)
<1>1. n \in Nat /\ \A k \in 1 .. n : p[k] \in Seq(S)
  OBVIOUS
<1> HIDE DEF n
<1>2. Flatten(p, f, n)
  BY <1>1, FlattenExists
<1>3. n # 0 => FlattenSeq(p) = f[n]
  BY DEF FlattenSeq, Flatten, n
<1> HIDE DEF f
<1>4. \A k \in 1 .. n : f[k] = IF k = 1 THEN p[k] ELSE f[k - 1] \o p[k]
  <2> DEFINE e == [j \in 1 .. n |-> IF j = 1 THEN p[j] ELSE f[j - 1] \o p[j]]
  <2>1. f = e
    BY <1>2 DEF Flatten
  <2>2. \A k \in 1 .. n : e[k] = IF k = 1 THEN p[k] ELSE f[k - 1] \o p[k]
    OBVIOUS
  <2> HIDE DEF e
  <2> QED
    BY <2>1, <2>2
<1> DEFINE F == [k \in 0 .. n |-> IF k = 0 THEN <<>> ELSE f[k]]
<1>5. \A k \in 1 .. n : F[k] = F[k - 1] \o p[k]
  <2> SUFFICES ASSUME NEW k \in 1 .. n PROVE F[k] = F[k - 1] \o p[k]
    OBVIOUS
  <2>1. CASE k = 1
    <3>1. 0 \in 0 .. n /\ 1 \in 0 .. n /\ f[1] = p[1]
      BY <1>1, <1>4, <2>1
    <3>2. F[1] = p[1] /\ F[0] = <<>> /\ k - 1 = 0
      BY <2>1, <3>1
    <3>3. <<>> \o p[1] = p[1]
      BY <1>1, <2>1
    <3> HIDE DEF F
    <3> QED
      BY <2>1, <3>2, <3>3
  <2>2. CASE k # 1
    <3>1. k \in 0 .. n /\ k # 0 /\ k - 1 \in 0 .. n /\ k - 1 # 0
      BY <1>1, <2>2
    <3>2. F[k] = f[k] /\ F[k - 1] = f[k - 1]
      BY <3>1
    <3> HIDE DEF F
    <3> QED
      BY <1>4, <2>2, <3>2
  <2> QED
    BY <2>1, <2>2
<1>6. F[0] = <<>> /\ <<>> \in Seq(S)
  BY <1>1
<1>10. F = [k \in 0 .. n |-> F[k]]
  OBVIOUS
<1>7. FlattenSeq(p) = F[n]
  <2>1. CASE n = 0
    <3>1. FlattenSeq(p) = p /\ p = <<>>
      BY <2>1 DEF FlattenSeq, n
    <3> QED
      BY <1>6, <2>1, <3>1
  <2>2. CASE n # 0
    BY <1>1, <1>3, <2>2
  <2> QED
    BY <2>1, <2>2
<1> HIDE DEF F
<1> DEFINE T == {k \in Nat : k <= n /\ F[k] \notin Seq(S)}
<1>8. T = {}
  <2> SUFFICES ASSUME T # {} PROVE FALSE
    OBVIOUS
  <2>1. PICK k \in T : \A j \in T : k <= j
    BY Least, T \subseteq Nat
  <2>2. k # 0
    BY <1>6, <2>1
  <2>3. k - 1 \in Nat /\ k - 1 <= n /\ k - 1 \notin T /\ k \in 1 .. n
    BY <1>1, <2>1, <2>2
  <2>4. F[k] = F[k - 1] \o p[k] /\ F[k - 1] \in Seq(S) /\ p[k] \in Seq(S)
    BY <1>1, <1>5, <2>3
  <2>5. F[k] \in Seq(S)
    BY <2>4, Concatenated
  <2> QED
    BY <2>1, <2>5
<1>9. F \in [0 .. n -> Seq(S)]
  <2>1. \A k \in 0 .. n : F[k] \in Seq(S)
    BY <1>8
  <2> QED
    BY <1>10, <2>1
<1> QED
  BY <1>5, <1>6, <1>7, <1>9 DEF Joins, n

(* Where piece k is found in the first m.                                  *)
PieceAt(p, F, k, m, S) ==
  /\ F[k - 1] \in Seq(S) /\ F[m] \in Seq(S)
  /\ Len(F[k - 1]) \in Nat /\ Len(F[m]) \in Nat /\ Len(p[k]) \in Nat
  /\ Len(F[k]) = Len(F[k - 1]) + Len(p[k])
  /\ Len(F[k]) <= Len(F[m])
  /\ \A j \in 1 .. Len(p[k]) : F[m][Len(F[k - 1]) + j] = p[k][j]

LEMMA JoinedPiece ==
  ASSUME NEW S, NEW n \in Nat, NEW p, \A i \in 1 .. n : p[i] \in Seq(S), NEW F, Joins(p, F, n, S),
         NEW k \in 1 .. n, NEW m \in k .. n
  PROVE  PieceAt(p, F, k, m, S)
<1>1. \A i \in 0 .. n : F[i] \in Seq(S)
  BY DEF Joins
<1>2. ASSUME NEW i \in 1 .. n
      PROVE  /\ F[i] = F[i - 1] \o p[i] /\ F[i - 1] \in Seq(S) /\ p[i] \in Seq(S)
             /\ Len(F[i - 1]) \in Nat /\ Len(p[i]) \in Nat /\ Len(F[i]) = Len(F[i - 1]) + Len(p[i])
  <2>1. i - 1 \in 0 .. n
    OBVIOUS
  <2>2. F[i] = F[i - 1] \o p[i]
    BY DEF Joins
  <2>3. F[i - 1] \in Seq(S) /\ p[i] \in Seq(S)
    BY <1>1, <2>1
  <2> QED
    BY <2>2, <2>3, Concatenated
<1> DEFINE a == Len(F[k - 1])
           l == Len(p[k])
           There(i) == a + l <= Len(F[i]) /\ \A j \in 1 .. l : F[i][a + j] = p[k][j]
           T == {i \in Nat : i \in k .. n /\ ~ There(i)}
<1>3. a \in Nat /\ l \in Nat /\ Len(F[k]) = a + l
  BY <1>2
<1> HIDE DEF a, l, There
<1>4. There(k)
  <2>1. F[k] = F[k - 1] \o p[k] /\ F[k - 1] \in Seq(S) /\ p[k] \in Seq(S)
    BY <1>2
  <2>2. \A j \in 1 .. Len(p[k]) : (F[k - 1] \o p[k])[Len(F[k - 1]) + j] = p[k][j]
    <3>1. \A s, t \in Seq(S) : \A j \in 1 .. Len(t) : (s \o t)[Len(s) + j] = t[j]
      OBVIOUS
    <3> QED
      BY <2>1, <3>1, Zenon
  <2>3. \A j \in 1 .. l : F[k][a + j] = p[k][j]
    BY <2>1, <2>2, Zenon DEF a, l
  <2>4. a + l <= Len(F[k])
    BY <1>3
  <2> QED
    BY <2>3, <2>4 DEF There
<1>5. ASSUME NEW i \in k + 1 .. n, There(i - 1)
      PROVE  There(i)
  <2>1. i \in 1 .. n
    OBVIOUS
  <2>2. Len(F[i - 1]) \in Nat /\ Len(p[i]) \in Nat /\ Len(F[i]) = Len(F[i - 1]) + Len(p[i])
    BY <1>2, <2>1
  <2>3. \A j \in 1 .. Len(F[i - 1]) : F[i][j] = F[i - 1][j]
    <3>1. F[i] = F[i - 1] \o p[i] /\ F[i - 1] \in Seq(S) /\ p[i] \in Seq(S)
      BY <1>2, <2>1
    <3>2. \A j \in 1 .. Len(F[i - 1]) : (F[i - 1] \o p[i])[j] = F[i - 1][j]
      BY <3>1, Concatenated, ZenonT(60)
    <3> QED
      BY <3>1, <3>2, Zenon
  <2>4. a + l <= Len(F[i])
    <3> DEFINE x == Len(F[i - 1])
               y == Len(p[i])
               z == Len(F[i])
    <3>1. x \in Nat /\ y \in Nat /\ z = x + y
      BY <2>2
    <3>2. a + l <= x
      BY <1>5 DEF There
    <3> HIDE DEF x, y, z
    <3>3. a + l <= z
      BY <1>3, <3>1, <3>2
    <3> QED
      BY <3>3 DEF z
  <2>5. ASSUME NEW j \in 1 .. l
        PROVE  F[i][a + j] = p[k][j]
    <3>1. a + j \in 1 .. Len(F[i - 1])
      BY <1>3, <1>5, <2>2 DEF There
    <3> QED
      BY <1>5, <2>3, <3>1 DEF There
  <2> QED
    BY <2>4, <2>5 DEF There
<1>6. T = {}
  <2> SUFFICES ASSUME T # {} PROVE FALSE
    OBVIOUS
  <2>1. PICK i \in T : \A j \in T : i <= j
    BY Least, T \subseteq Nat
  <2>2. i # k
    BY <1>4, <2>1
  <2>3. i - 1 \in Nat /\ i - 1 \in k .. n /\ i - 1 \notin T /\ i \in k + 1 .. n
    BY <2>1, <2>2
  <2> QED
    BY <1>5, <2>1, <2>3
<1>7. There(m)
  <2>1. m \in Nat
    OBVIOUS
  <2> QED
    BY <1>6, <2>1
<1>8. F[k - 1] \in Seq(S) /\ F[m] \in Seq(S)
  <2>1. m \in 0 .. n
    OBVIOUS
  <2> QED
    BY <1>1, <1>2, <2>1
<1>9. Len(F[m]) \in Nat
  BY <1>8
<1> QED
  BY <1>3, <1>7, <1>8, <1>9 DEF There, a, l, PieceAt

(* One byte at a time. *)
LEMMA FlattenSingles ==
  ASSUME NEW S, NEW s \in Seq(S)
  PROVE  FlattenSeq([i \in DOMAIN s |-> <<s[i]>>]) = s
<1> DEFINE p == [i \in DOMAIN s |-> <<s[i]>>]
           n == Len(s)
<1>1. n \in Nat /\ DOMAIN s = 1 .. n /\ \A i \in 1 .. n : s[i] \in S
  OBVIOUS
<1>2. p \in Seq(Seq(S)) /\ Len(p) = n /\ \A i \in 1 .. n : p[i] = <<s[i]>>
  <2>1. p = [i \in 1 .. n |-> <<s[i]>>]
    BY <1>1
  <2>2. \A i \in 1 .. n : <<s[i]>> \in Seq(S)
    BY <1>1
  <2> QED
    BY <1>1, <2>1, <2>2
<1> HIDE DEF p
<1>3. PICK F : Joins(p, F, n, S) /\ FlattenSeq(p) = F[n]
  BY <1>2, FlattenJoins
<1> DEFINE T == {k \in Nat : k <= n /\ F[k] # SubSeq(s, 1, k)}
<1>4. T = {}
  <2> SUFFICES ASSUME T # {} PROVE FALSE
    OBVIOUS
  <2>1. PICK k \in T : \A j \in T : k <= j
    BY Least, T \subseteq Nat
  <2>2. k # 0
    BY <1>3, <2>1 DEF Joins
  <2>3. k - 1 \in Nat /\ k - 1 <= n /\ k - 1 \notin T /\ k \in 1 .. n
    BY <1>1, <2>1, <2>2
  <2>4. F[k] = F[k - 1] \o p[k] /\ F[k - 1] = SubSeq(s, 1, k - 1) /\ p[k] = <<s[k]>>
    BY <1>2, <1>3, <2>3 DEF Joins
  <2>5. SubSeq(s, 1, k) = SubSeq(s, 1, k - 1) \o <<s[k]>>
    BY <1>1, <2>3
  <2> QED
    BY <2>1, <2>4, <2>5
<1>5. F[n] = SubSeq(s, 1, n)
  BY <1>1, <1>4
<1>6. SubSeq(s, 1, n) = s
  BY <1>1
<1> QED
  BY <1>3, <1>5, <1>6 DEF p

-----------------------------------------------------------------------------
(* Bytes and their codes. *)

LEMMA TheBytes ==
  /\ DOMAIN Bytes = 1 .. 16 /\ Len(Bytes) = 16
  /\ Bytes[1] = "NUL" /\ Bytes[2] \notin {"0", "1", "a", "b"}
  /\ Bytes[3] = "#" /\ Bytes[4] = "%" /\ Bytes[5] = "-" /\ Bytes[6] = "." /\ Bytes[7] = "/"
  /\ Bytes[8] = "0" /\ Bytes[9] = "1" /\ Bytes[10] = ":" /\ Bytes[11] = "?" /\ Bytes[12] = "@"
  /\ Bytes[13] = "[" /\ Bytes[14] = "]" /\ Bytes[15] = "a" /\ Bytes[16] = "b"
<1>1. DOMAIN Bytes = 1 .. 16 /\ Len(Bytes) = 16
  BY DEF Bytes
<1>2. Bytes[2] \notin {"0", "1", "a", "b"}
  <2>1. Bytes[2] = " "
    BY DEF Bytes
  <2> QED
    BY <2>1, Zenon
<1>3. /\ Bytes[1] = "NUL" /\ Bytes[3] = "#" /\ Bytes[4] = "%" /\ Bytes[5] = "-"
      /\ Bytes[6] = "." /\ Bytes[7] = "/" /\ Bytes[8] = "0" /\ Bytes[9] = "1"
      /\ Bytes[10] = ":" /\ Bytes[11] = "?" /\ Bytes[12] = "@" /\ Bytes[13] = "["
      /\ Bytes[14] = "]" /\ Bytes[15] = "a" /\ Bytes[16] = "b"
  BY DEF Bytes
<1> QED
  BY <1>1, <1>2, <1>3

LEMMA CodeOf ==
  ASSUME NEW c \in Range(Bytes)
  PROVE  Code(c) \in 0 .. 15 /\ Bytes[Code(c) + 1] = c
<1>1. DOMAIN Bytes = 1 .. 16
  BY TheBytes
<1>2. \E i \in DOMAIN Bytes : Bytes[i] = c
  BY DEF Range
<1> DEFINE i == CHOOSE i \in DOMAIN Bytes : Bytes[i] = c
<1>3. i \in DOMAIN Bytes /\ Bytes[i] = c
  BY <1>2
<1>4. Code(c) = i - 1
  BY DEF Code
<1> HIDE DEF i
<1>5. i \in 1 .. 16 /\ (i - 1) + 1 = i
  BY <1>1, <1>3
<1> QED
  BY <1>3, <1>4, <1>5

LEMMA HexRead ==
  ASSUME NEW k \in 0 .. 3
  PROVE  Hex[k + 1] \in Alnum /\ Hex[k + 1] # "%" /\ from_hex(Hex[k + 1]) = k
<1>1. Code("0") = 7 /\ Code("1") = 8 /\ Code("a") = 14 /\ Code("b") = 15
  <2>1. {"0", "1", "a", "b"} \subseteq Range(Bytes)
    BY TheBytes DEF Range
  <2>2. ASSUME NEW n \in 0 .. 15
        PROVE  /\ Bytes[n + 1] = "0" => n = 7
               /\ Bytes[n + 1] = "1" => n = 8
               /\ Bytes[n + 1] = "a" => n = 14
               /\ Bytes[n + 1] = "b" => n = 15
    <3>1. \/ n = 0 \/ n = 1 \/ n = 2 \/ n = 3 \/ n = 4 \/ n = 5 \/ n = 6 \/ n = 7 \/ n = 8
          \/ n = 9 \/ n = 10 \/ n = 11 \/ n = 12 \/ n = 13 \/ n = 14 \/ n = 15
      OBVIOUS
    <3> QED
      BY <3>1, TheBytes
  <2> QED
    BY <2>1, <2>2, CodeOf
<1>2. Cardinality(Decimal) = 2
  <2>1. IsFiniteSet({"0"}) /\ Cardinality({"0"}) = 1
    BY FS_Singleton
  <2>2. Cardinality({"0"} \cup {"1"}) = Cardinality({"0"}) + 1
    BY <2>1, FS_AddElement, "1" \notin {"0"}
  <2>3. Decimal = {"0"} \cup {"1"}
    BY DEF Decimal
  <2> QED
    BY <2>1, <2>2, <2>3
<1>3. /\ from_hex("0") = 0 /\ from_hex("1") = 1 /\ from_hex("a") = 2 /\ from_hex("b") = 3
  <2>1. "0" \in Decimal /\ "1" \in Decimal /\ "a" \notin Decimal /\ "b" \notin Decimal
    BY DEF Decimal
  <2> QED
    BY <1>1, <1>2, <2>1 DEF from_hex
<1>4. Hex[1] = "0" /\ Hex[2] = "1" /\ Hex[3] = "a" /\ Hex[4] = "b"
  BY DEF Hex
<1>5. {"0", "1", "a", "b"} \subseteq Alnum
  BY DEF Alnum, Alpha, Decimal
<1>6. k = 0 \/ k = 1 \/ k = 2 \/ k = 3
  OBVIOUS
<1> QED
  BY <1>3, <1>4, <1>5, <1>6

LEMMA OrOfDigits ==
  ASSUME NEW q \in 0 .. 3, NEW r \in 0 .. 3
  PROVE  Or((4 * q) % 16, r % 16) = 4 * q + r
<1>1. (4 * q) % 16 = 4 * q /\ r % 16 = r
  OBVIOUS
<1>2. q = 0 \/ q = 1 \/ q = 2 \/ q = 3
  OBVIOUS
<1>3. r = 0 \/ r = 1 \/ r = 2 \/ r = 3
  OBVIOUS
<1> QED
  BY <1>1, <1>2, <1>3 DEF Or

(* The byte that url_decode makes of the two digits of an escape.          *)
Decoded(s, i) ==
  Chr(Or((Len(Hex) * from_hex(s[i + 1])) % Len(Bytes), from_hex(s[i + 2]) % Len(Bytes)))

LEMMA EscapeDecodes ==
  ASSUME NEW c \in Range(Bytes), NEW s, NEW i \in Nat,
         s[i + 1] = Escape(c)[2], s[i + 2] = Escape(c)[3]
  PROVE  Decoded(s, i) = c
<1> DEFINE n == Code(c)
           q == n \div 4
           r == n % 4
<1>1. n \in 0 .. 15 /\ Bytes[n + 1] = c
  BY CodeOf
<1> HIDE DEF n
<1>2. q \in 0 .. 3 /\ r \in 0 .. 3 /\ 4 * q + r = n /\ n % 16 = n
  BY <1>1
<1>3. Len(Hex) = 4 /\ Len(Bytes) = 16
  BY TheBytes DEF Hex
<1>4. Escape(c)[2] = Hex[q + 1] /\ Escape(c)[3] = Hex[r + 1]
  BY <1>3 DEF Escape, n
<1> HIDE DEF q, r
<1>5. from_hex(s[i + 1]) = q /\ from_hex(s[i + 2]) = r
  BY <1>2, <1>4, HexRead
<1>6. Or((4 * q) % 16, r % 16) = n
  BY <1>2, OrOfDigits
<1>7. Decoded(s, i) = Chr(n)
  BY <1>3, <1>5, <1>6 DEF Decoded
<1> QED
  BY <1>1, <1>2, <1>3, <1>7 DEF Chr

-----------------------------------------------------------------------------
(* A turn of the loop of url_decode, where f says what later turns make.   *)
DecodeTurn(s, f, i) ==
  IF i > Len(s) THEN <<>>
  ELSE IF s[i] # "%" THEN <<s[i]>> \o f[i + 1]
  ELSE IF i + 2 > Len(s) THEN f[i + 1]
  ELSE <<Decoded(s, i)>> \o f[i + 3]

Decodes(s, f) == f = [i \in 1 .. Len(s) + 3 |-> DecodeTurn(s, f, i)]

LEMMA DecodeExists ==
  ASSUME NEW S, NEW s \in Seq(S)
  PROVE  \E f : Decodes(s, f)
<1> DEFINE n == Len(s) + 3
           Part(m, f) == f = [i \in 1 .. n |-> IF i > n - m THEN DecodeTurn(s, f, i) ELSE <<>>]
           T == {m \in Nat : m <= n /\ ~ \E f : Part(m, f)}
<1>1. n \in Nat /\ Len(s) \in Nat
  OBVIOUS
<1>2. T = {}
  <2> SUFFICES ASSUME T # {} PROVE FALSE
    OBVIOUS
  <2>1. PICK m \in T : \A k \in T : m <= k
    BY Least, T \subseteq Nat
  <2>2. m # 0
    <3> DEFINE e == [i \in 1 .. n |-> <<>>]
    <3>1. \A i \in 1 .. n : ~ (i > n - 0)
      BY <1>1
    <3>2. e = [i \in 1 .. n |-> IF i > n - 0 THEN DecodeTurn(s, e, i) ELSE <<>>]
      BY <3>1, Zenon
    <3> QED
      BY <2>1, <3>2
  <2>3. m - 1 \in Nat /\ m - 1 <= n /\ m - 1 \notin T /\ m \in Nat /\ m <= n
    <3> HIDE DEF Part, n
    <3> QED
      BY <1>1, <2>1, <2>2
  <2>4. PICK g : Part(m - 1, g)
    BY <2>3
  <2> DEFINE i0 == (n - m) + 1
             h == [i \in 1 .. n |-> IF i = i0 THEN DecodeTurn(s, g, i0) ELSE g[i]]
  <2>5. i0 \in 1 .. n
    BY <1>1, <2>1, <2>2
  <2>6. ASSUME NEW i \in 1 .. n, i >= i0
        PROVE  DecodeTurn(s, h, i) = DecodeTurn(s, g, i)
    <3>1. /\ i <= Len(s) => i + 1 \in 1 .. n /\ i + 1 # i0
          /\ i + 2 <= Len(s) => i + 3 \in 1 .. n /\ i + 3 # i0
      BY <1>1, <2>5, <2>6
    <3>2. \A j \in 1 .. n : j # i0 => h[j] = g[j]
      OBVIOUS
    <3> HIDE DEF h, i0, n
    <3>3. i \in Nat
      BY <1>1
    <3> QED
      BY <1>1, <3>1, <3>2, <3>3 DEF DecodeTurn
  <2>7. ASSUME NEW i \in 1 .. n
        PROVE  h[i] = IF i > n - m THEN DecodeTurn(s, h, i) ELSE <<>>
    <3> DEFINE e == [k \in 1 .. n |-> IF k > n - (m - 1) THEN DecodeTurn(s, g, k) ELSE <<>>]
    <3>1. g = e
      BY <2>4
    <3>2. e[i] = IF i > n - (m - 1) THEN DecodeTurn(s, g, i) ELSE <<>>
      OBVIOUS
    <3> HIDE DEF e
    <3>3. g[i] = IF i > n - (m - 1) THEN DecodeTurn(s, g, i) ELSE <<>>
      BY <3>1, <3>2
    <3>4. CASE i = i0
      <4>1. h[i] = DecodeTurn(s, g, i) /\ i > n - m /\ i >= i0
        BY <1>1, <2>1, <3>4
      <4> QED
        BY <2>6, <4>1
    <3>5. CASE i # i0
      <4>1. h[i] = g[i]
        BY <3>5
      <4>2. i > n - m <=> i > n - (m - 1)
        BY <1>1, <2>1, <3>5
      <4>3. i > n - m => i >= i0
        BY <1>1, <2>1
      <4> HIDE DEF h, i0, n
      <4> QED
        BY <2>6, <3>3, <4>1, <4>2, <4>3
    <3> QED
      BY <3>4, <3>5
  <2>8. h = [i \in 1 .. n |-> h[i]]
    OBVIOUS
  <2> HIDE DEF h
  <2>9. h = [i \in 1 .. n |-> IF i > n - m THEN DecodeTurn(s, h, i) ELSE <<>>]
    BY <2>7, <2>8
  <2> QED
    BY <2>1, <2>9
<1>3. n \notin T
  BY <1>2
<1>4. PICK f : Part(n, f)
  BY <1>1, <1>3
<1>5. \A i \in 1 .. n : i > n - n
  BY <1>1
<1>6. f = [i \in 1 .. n |-> DecodeTurn(s, f, i)]
  BY <1>4, <1>5
<1> QED
  BY <1>6 DEF Decodes

Reads(s, f) == \A i \in 1 .. Len(s) + 3 : f[i] = DecodeTurn(s, f, i)

LEMMA DecodeUnfolds ==
  ASSUME NEW S, NEW s \in Seq(S)
  PROVE  \E f : url_decode(s) = f[1] /\ Reads(s, f)
<1> DEFINE f == CHOOSE f : Decodes(s, f)
<1>1. Decodes(s, f)
  BY DecodeExists
<1>2. url_decode(s) = f[1]
  BY DEF url_decode, Decodes, DecodeTurn, Decoded
<1> HIDE DEF f
<1>3. \A i \in 1 .. Len(s) + 3 : f[i] = DecodeTurn(s, f, i)
  <2> DEFINE e == [i \in 1 .. Len(s) + 3 |-> DecodeTurn(s, f, i)]
  <2>1. f = e
    BY <1>1 DEF Decodes
  <2>2. \A i \in 1 .. Len(s) + 3 : e[i] = DecodeTurn(s, f, i)
    OBVIOUS
  <2> HIDE DEF e
  <2> QED
    BY <2>1, <2>2
<1> QED
  BY <1>2, <1>3 DEF Reads

LEMMA Suffix ==
  ASSUME NEW S, NEW t \in Seq(S), NEW k \in 1 .. Len(t)
  PROVE  SubSeq(t, k, Len(t)) = <<t[k]>> \o SubSeq(t, k + 1, Len(t))
<1> DEFINE n == Len(t)
           l == SubSeq(t, k, n)
           m == SubSeq(t, k + 1, n)
           r == <<t[k]>> \o m
<1>1. n \in Nat /\ k \in Nat /\ k <= n /\ t[k] \in S
  OBVIOUS
<1>2. l \in Seq(S) /\ Len(l) = (n - k) + 1 /\ \A j \in 1 .. (n - k) + 1 : l[j] = t[(k + j) - 1]
  BY <1>1
<1>3. m \in Seq(S) /\ Len(m) = n - k /\ \A j \in 1 .. n - k : m[j] = t[(k + j)]
  BY <1>1
<1>4. <<t[k]>> \in Seq(S) /\ Len(<<t[k]>>) = 1 /\ <<t[k]>>[1] = t[k]
  BY <1>1
<1> HIDE DEF l, m, n
<1>5. r \in Seq(S) /\ Len(r) = 1 + (n - k) /\ r[1] = t[k] /\ \A j \in 1 .. n - k : r[1 + j] = m[j]
  <2> DEFINE h == <<t[k]>>
  <2>1. h \in Seq(S) /\ Len(h) = 1 /\ h[1] = t[k] /\ m \in Seq(S)
    BY <1>3, <1>4
  <2> HIDE DEF h
  <2>2. /\ h \o m \in Seq(S) /\ Len(h \o m) = Len(h) + Len(m)
        /\ \A j \in 1 .. Len(h) : (h \o m)[j] = h[j]
        /\ \A j \in 1 .. Len(m) : (h \o m)[Len(h) + j] = m[j]
    <3>1. \A u, v \in Seq(S) :
            /\ u \o v \in Seq(S) /\ Len(u \o v) = Len(u) + Len(v)
            /\ \A j \in 1 .. Len(u) : (u \o v)[j] = u[j]
            /\ \A j \in 1 .. Len(v) : (u \o v)[Len(u) + j] = v[j]
      BY Concatenated
    <3> HIDE DEF r
    <3> QED
      BY <2>1, <3>1, Zenon
  <2>3. r = h \o m
    BY DEF h
  <2> HIDE DEF r
  <2> QED
    BY <1>1, <1>3, <2>1, <2>2, <2>3
<1> HIDE DEF r
<1>6. ASSUME NEW j \in 1 .. (n - k) + 1
      PROVE  l[j] = r[j]
  <2>1. CASE j = 1
    BY <1>1, <1>2, <1>5, <2>1
  <2>2. CASE j # 1
    <3>1. j - 1 \in 1 .. n - k /\ 1 + (j - 1) = j /\ k + (j - 1) = (k + j) - 1
      BY <1>1, <2>2
    <3>2. r[j] = m[j - 1] /\ m[j - 1] = t[(k + j) - 1]
      BY <1>3, <1>5, <3>1
    <3> QED
      BY <1>2, <3>2
  <2> QED
    BY <2>1, <2>2
<1>7. Len(l) = Len(r) /\ Len(l) = (n - k) + 1
  BY <1>1, <1>2, <1>5
<1>8. l = r
  BY <1>2, <1>5, <1>6, <1>7
<1> QED
  BY <1>8 DEF l, r, m, n

(* Where in s each byte of t is: pos[k] bytes of s come before byte k + 1. *)
Places(s, t, pos) ==
  /\ \A k \in 0 .. Len(t) : pos[k] \in Nat /\ pos[k] <= Len(s)
  /\ pos[Len(t)] = Len(s)
  /\ \A k \in 1 .. Len(t) :
       \/ pos[k] = pos[k - 1] + 1 /\ s[pos[k - 1] + 1] = t[k] /\ t[k] # "%"
       \/ /\ pos[k] = pos[k - 1] + 3 /\ s[pos[k - 1] + 1] = "%"
          /\ Decoded(s, pos[k - 1] + 1) = t[k]

LEMMA CodeIsRead ==
  ASSUME NEW S, NEW s \in Seq(S), NEW t \in Seq(S), NEW f, Reads(s, f),
         NEW pos, Places(s, t, pos)
  PROVE  f[pos[0] + 1] = t
<1> DEFINE n == Len(t)
           Wrong(d) == f[pos[n - d] + 1] # SubSeq(t, (n - d) + 1, n)
           T == {d \in Nat : d <= n /\ Wrong(d)}
<1>1. n \in Nat /\ Len(s) \in Nat
  OBVIOUS
<1> HIDE DEF n
<1>2. T = {}
  <2> SUFFICES ASSUME T # {} PROVE FALSE
    OBVIOUS
  <2>1. PICK d \in T : \A e \in T : d <= e
    BY Least, T \subseteq Nat
  <2> HIDE DEF Wrong
  <2>2. d \in Nat /\ d <= n /\ Wrong(d)
    BY <2>1
  <2>3. CASE d = 0
    <3>1. SubSeq(t, n + 1, n) = <<>>
      BY <1>1 DEF n
    <3>2. n - d = n /\ pos[n] = Len(s)
      BY <1>1, <2>3 DEF n, Places
    <3>3. f[Len(s) + 1] = <<>>
      <4>1. f[Len(s) + 1] = DecodeTurn(s, f, Len(s) + 1)
        BY <1>1 DEF Reads
      <4>2. Len(s) + 1 > Len(s)
        BY <1>1
      <4> QED
        BY <4>1, <4>2 DEF DecodeTurn
    <3> QED
      BY <2>2, <3>1, <3>2, <3>3 DEF Wrong
  <2>4. CASE d # 0
    <3> DEFINE k == (n - d) + 1
               x == pos[k - 1]
               y == pos[k]
               i == x + 1
    <3>1. k \in 1 .. n /\ k - 1 = n - d /\ k \in 0 .. n /\ k - 1 \in 0 .. n
      BY <1>1, <2>2, <2>4
    <3>2. d - 1 \in Nat /\ d - 1 <= n /\ d - 1 \notin T /\ n - (d - 1) = k
      BY <1>1, <2>1, <2>2, <2>4
    <3> HIDE DEF k
    <3>3. f[y + 1] = SubSeq(t, k + 1, n)
      BY <3>2 DEF Wrong
    <3>4. SubSeq(t, k, n) = <<t[k]>> \o SubSeq(t, k + 1, n)
      BY <3>1, Suffix DEF n
    <3>5. f[i] # SubSeq(t, k, n)
      BY <2>2, <3>1 DEF Wrong, k
    <3>6. x \in Nat /\ y \in Nat /\ y <= Len(s) /\ x <= Len(s)
      BY <3>1 DEF n, Places
    <3>7. \/ y = x + 1 /\ s[i] = t[k] /\ t[k] # "%"
          \/ y = x + 3 /\ s[i] = "%" /\ Decoded(s, i) = t[k]
      BY <3>1 DEF n, Places
    <3> HIDE DEF x, y
    <3>8. f[i] = DecodeTurn(s, f, i)
      <4>1. i \in 1 .. Len(s) + 3
        BY <1>1, <3>6
      <4> QED
        BY <4>1 DEF Reads
    <3>9. CASE y = x + 1 /\ s[i] = t[k] /\ t[k] # "%"
      <4>1. ~ (i > Len(s)) /\ i + 1 = y + 1
        BY <1>1, <3>6, <3>9
      <4> QED
        BY <3>3, <3>4, <3>5, <3>8, <3>9, <4>1 DEF DecodeTurn
    <3>10. CASE y = x + 3 /\ s[i] = "%" /\ Decoded(s, i) = t[k]
      <4>1. ~ (i > Len(s)) /\ ~ (i + 2 > Len(s)) /\ i + 3 = y + 1
        BY <1>1, <3>6, <3>10
      <4> QED
        BY <3>3, <3>4, <3>5, <3>8, <3>10, <4>1 DEF DecodeTurn
    <3> QED
      BY <3>7, <3>9, <3>10
  <2> QED
    BY <2>3, <2>4
<1>3. ~ Wrong(n)
  <2> HIDE DEF Wrong
  <2> QED
    BY <1>1, <1>2
<1>4. SubSeq(t, 1, n) = t /\ n - n = 0 /\ 0 + 1 = 1
  BY <1>1 DEF n
<1> QED
  BY <1>3, <1>4

(* A byte is left as it is or escaped. *)
Codes(t, p) ==
  /\ Len(p) = Len(t)
  /\ \A k \in 1 .. Len(t) : \/ p[k] = <<t[k]>> /\ t[k] # "%"
                            \/ p[k] = Escape(t[k]) /\ t[k] \in Range(Bytes)

EndsWith(s, a, w) == Len(s) = a + Len(w) /\ \A j \in 1 .. Len(w) : s[a + j] = w[j]

(* What was coded and stands at the end of s is read as what it was.       *)
LEMMA PiecesDecode ==
  ASSUME NEW S, NEW s \in Seq(S), NEW t \in Seq(S), NEW p \in Seq(Seq(S)), Codes(t, p),
         NEW a \in Nat, EndsWith(s, a, FlattenSeq(p)),
         NEW f, Reads(s, f)
  PROVE  f[a + 1] = t
<1> DEFINE n == Len(t)
<1>1. n \in Nat /\ n = Len(p) /\ \A k \in 1 .. n : p[k] \in Seq(S)
  BY DEF Codes
<1> HIDE DEF n
<1>2. PICK F : Joins(p, F, n, S) /\ FlattenSeq(p) = F[n]
  BY <1>1, FlattenJoins
<1> DEFINE pos == [k \in 0 .. n |-> a + Len(F[k])]
<1>3. \A k \in 0 .. n : Len(F[k]) \in Nat
  BY <1>2 DEF Joins
<1>4. pos[0] = a
  <2>3. 0 \in 0 .. n
    BY <1>1
  <2>1. pos[0] = a + Len(F[0]) /\ F[0] = <<>>
    BY <1>2, <2>3 DEF Joins
  <2>2. Len(<<>>) = 0
    OBVIOUS
  <2> QED
    BY <2>1, <2>2
<1>5. pos[n] = Len(s)
  BY <1>1, <1>2 DEF EndsWith
<1>6. ASSUME NEW k \in 1 .. n
      PROVE  /\ Len(F[k - 1]) \in Nat /\ Len(F[k]) = Len(F[k - 1]) + Len(p[k]) /\ Len(p[k]) \in Nat
             /\ Len(F[k]) <= Len(F[n]) /\ Len(F[n]) \in Nat
             /\ \A j \in 1 .. Len(p[k]) : s[a + Len(F[k - 1]) + j] = p[k][j]
  <2>0. n \in k .. n
    BY <1>1
  <2>1. /\ Len(F[k - 1]) \in Nat /\ Len(F[k]) = Len(F[k - 1]) + Len(p[k])
        /\ Len(p[k]) \in Nat /\ Len(F[k]) <= Len(F[n]) /\ Len(F[n]) \in Nat
        /\ \A j \in 1 .. Len(p[k]) : F[n][Len(F[k - 1]) + j] = p[k][j]
    <3>1. \A i \in 1 .. n : p[i] \in Seq(S)
      BY <1>1
    <3>2. n \in Nat /\ Joins(p, F, n, S)
      BY <1>1, <1>2
    <3>3. PieceAt(p, F, k, n, S)
      BY <2>0, <3>1, <3>2, JoinedPiece
    <3> QED
      BY <3>3 DEF PieceAt
  <2>2. ASSUME NEW j \in 1 .. Len(p[k])
        PROVE  s[a + Len(F[k - 1]) + j] = p[k][j]
    <3> DEFINE x == Len(F[k - 1])
               y == Len(F[k])
               z == Len(F[n])
               l == Len(p[k])
    <3>1. x \in Nat /\ y = x + l /\ l \in Nat /\ y <= z /\ z \in Nat /\ j \in 1 .. l
      BY <2>1
    <3>2. F[n][x + j] = p[k][j]
      BY <2>1
    <3>3. \A i \in 1 .. z : s[a + i] = F[n][i]
      BY <1>2 DEF EndsWith
    <3> HIDE DEF x, y, z, l
    <3>4. x + j \in 1 .. z /\ a + (x + j) = (a + x) + j
      BY <3>1
    <3>5. s[(a + x) + j] = p[k][j]
      BY <3>2, <3>3, <3>4
    <3> QED
      BY <3>5 DEF x
  <2> QED
    BY <2>1, <2>2
<1>7. ASSUME NEW k \in 0 .. n
      PROVE  pos[k] \in Nat /\ pos[k] <= Len(s)
  <2>1. CASE k = 0
    <3>1. Len(F[n]) \in Nat /\ Len(s) = a + Len(F[n])
      BY <1>1, <1>2, <1>3 DEF EndsWith
    <3> QED
      BY <1>4, <2>1, <3>1
  <2>2. CASE k # 0
    <3>1. k \in 1 .. n
      BY <2>2
    <3>2. Len(F[k]) \in Nat /\ Len(F[k]) <= Len(F[n]) /\ Len(F[n]) \in Nat
      BY <1>3, <1>6, <3>1
    <3>3. pos[k] = a + Len(F[k]) /\ Len(s) = a + Len(F[n])
      BY <1>2 DEF EndsWith
    <3> QED
      BY <3>2, <3>3
  <2> QED
    BY <2>1, <2>2
<1>8. ASSUME NEW k \in 1 .. n
      PROVE  \/ pos[k] = pos[k - 1] + 1 /\ s[pos[k - 1] + 1] = t[k] /\ t[k] # "%"
             \/ /\ pos[k] = pos[k - 1] + 3 /\ s[pos[k - 1] + 1] = "%"
                /\ Decoded(s, pos[k - 1] + 1) = t[k]
  <2> DEFINE x == pos[k - 1]
  <2>1. k - 1 \in 0 .. n /\ k \in 0 .. n
    BY <1>1
  <2>2. x \in Nat /\ x = a + Len(F[k - 1]) /\ pos[k] = x + Len(p[k])
    <3>1. x = a + Len(F[k - 1]) /\ pos[k] = a + Len(F[k])
      BY <2>1
    <3>2. Len(F[k - 1]) \in Nat /\ Len(F[k]) = Len(F[k - 1]) + Len(p[k]) /\ Len(p[k]) \in Nat
      BY <1>6
    <3> DEFINE u == Len(F[k - 1])
               v == Len(F[k])
               w == Len(p[k])
    <3>3. x = a + u /\ pos[k] = a + v /\ u \in Nat /\ v = u + w /\ w \in Nat
      BY <3>1, <3>2
    <3> HIDE DEF pos, x, u, v, w
    <3>4. x \in Nat /\ x = a + u /\ pos[k] = x + w
      BY <3>3
    <3> QED
      BY <3>4 DEF u, w
  <2>3. \A j \in 1 .. Len(p[k]) : s[x + j] = p[k][j]
    BY <1>6, <2>2
  <2> HIDE DEF pos
  <2>4. CASE p[k] = <<t[k]>> /\ t[k] # "%"
    <3>1. Len(p[k]) = 1 /\ p[k][1] = t[k]
      BY <2>4
    <3> QED
      BY <2>2, <2>3, <2>4, <3>1
  <2>5. CASE p[k] = Escape(t[k]) /\ t[k] \in Range(Bytes)
    <3>1. Len(p[k]) = 3 /\ p[k][1] = "%"
      BY <2>5 DEF Escape
    <3>2. s[x + 1] = "%" /\ s[x + 2] = Escape(t[k])[2] /\ s[x + 3] = Escape(t[k])[3]
      BY <2>3, <2>5, <3>1
    <3>3. (x + 1) + 1 = x + 2 /\ (x + 1) + 2 = x + 3 /\ x + 1 \in Nat
      BY <2>2
    <3>5. s[(x + 1) + 1] = Escape(t[k])[2] /\ s[(x + 1) + 2] = Escape(t[k])[3]
      BY <3>2, <3>3
    <3>4. Decoded(s, x + 1) = t[k]
      BY <2>5, <3>3, <3>5, EscapeDecodes
    <3> QED
      BY <2>2, <3>1, <3>2, <3>4
  <2> QED
    BY <2>4, <2>5 DEF Codes, n
<1> HIDE DEF pos
<1>9. f[pos[0] + 1] = t
  <2>1. pos[Len(t)] = Len(s)
    BY <1>5 DEF n
  <2>2. \A k \in 0 .. Len(t) : pos[k] \in Nat /\ pos[k] <= Len(s)
    BY <1>7 DEF n
  <2>3. \A k \in 1 .. Len(t) :
          \/ pos[k] = pos[k - 1] + 1 /\ s[pos[k - 1] + 1] = t[k] /\ t[k] # "%"
          \/ /\ pos[k] = pos[k - 1] + 3 /\ s[pos[k - 1] + 1] = "%"
             /\ Decoded(s, pos[k - 1] + 1) = t[k]
    BY <1>8 DEF n
  <2>4. Places(s, t, pos)
    BY <2>1, <2>2, <2>3 DEF Places
  <2> QED
    BY <2>4, CodeIsRead
<1> QED
  BY <1>4, <1>9

-----------------------------------------------------------------------------
(* Sanitized addresses. *)

Safe == Unreserved \cup {":", "/", "?", "&", "=", "%", ";"}

LEMMA SafeIs == \A c : is_char_urlsafe(c) <=> c \in Safe
BY DEF is_char_urlsafe, Safe

SanitizedPieces(str) ==
  [i \in DOMAIN str |-> IF is_char_urlsafe(str[i]) THEN <<str[i]>> ELSE Escape(str[i])]
Scheme(str) == IF Has(str, ":") THEN <<>> ELSE DefaultScheme

LEMMA EscapeIsSafe ==
  ASSUME NEW c \in Range(Bytes)
  PROVE  Escape(c) \in Seq(Alnum \cup {"%"}) /\ Len(Escape(c)) = 3
<1> DEFINE n == Code(c)
           q == n \div 4
           r == n % 4
<1>1. n \in 0 .. 15
  BY CodeOf
<1> HIDE DEF n
<1>2. q \in 0 .. 3 /\ r \in 0 .. 3
  BY <1>1
<1>3. Escape(c) = <<"%", Hex[q + 1], Hex[r + 1]>>
  <2>1. Len(Hex) = 4
    BY DEF Hex
  <2> QED
    BY <2>1 DEF Escape, n
<1> HIDE DEF q, r
<1>4. Hex[q + 1] \in Alnum /\ Hex[r + 1] \in Alnum
  BY <1>2, HexRead
<1> QED
  BY <1>3, <1>4

LEMMA PiecesAreSafe ==
  ASSUME NEW str \in Seq(Range(Bytes))
  PROVE  SanitizedPieces(str) \in Seq(Seq(Safe)) /\ Len(SanitizedPieces(str)) = Len(str)
<1>1. Len(str) \in Nat /\ DOMAIN str = 1 .. Len(str) /\ \A i \in 1 .. Len(str) : str[i] \in Range(Bytes)
  OBVIOUS
<1>2. ASSUME NEW c \in Range(Bytes)
      PROVE  (IF is_char_urlsafe(c) THEN <<c>> ELSE Escape(c)) \in Seq(Safe)
  <2>1. CASE is_char_urlsafe(c)
    BY <2>1, SafeIs
  <2>2. CASE ~ is_char_urlsafe(c)
    <3>1. Alnum \cup {"%"} \subseteq Safe
      BY DEF Safe, Unreserved
    <3>2. Escape(c) \in Seq(Safe)
      BY <3>1, EscapeIsSafe
    <3> QED
      BY <2>2, <3>2
  <2> QED
    BY <2>1, <2>2
<1>3. SanitizedPieces(str)
      = [i \in 1 .. Len(str) |-> IF is_char_urlsafe(str[i]) THEN <<str[i]>> ELSE Escape(str[i])]
  BY <1>1 DEF SanitizedPieces
<1> QED
  BY <1>1, <1>2, <1>3

LEMMA SanitizedIs ==
  ASSUME NEW str
  PROVE  url_sanitize(str) = Scheme(str) \o FlattenSeq(SanitizedPieces(str))
BY DEF url_sanitize, Scheme, SanitizedPieces

LEMMA SchemeIsSafe == DefaultScheme \in Seq(Safe) /\ Len(DefaultScheme) = 4 /\ Has(DefaultScheme, ":")
<1>1. DefaultScheme \in Seq(Safe) /\ Len(DefaultScheme) = 4
  BY DEF DefaultScheme, Safe, Unreserved, Alnum, Alpha, Words
<1>2. 2 \in DOMAIN DefaultScheme /\ DefaultScheme[2] = ":"
  BY DEF DefaultScheme
<1> QED
  BY <1>1, <1>2 DEF Has

(* What is sanitized has safe bytes only, and a colon. *)
LEMMA SanitizedIsSafe ==
  ASSUME NEW str \in Seq(Range(Bytes))
  PROVE  url_sanitize(str) \in Seq(Safe) /\ Has(url_sanitize(str), ":")
<1> DEFINE p == SanitizedPieces(str)
           n == Len(str)
           w == FlattenSeq(p)
<1>1. n \in Nat /\ DOMAIN str = 1 .. n
  OBVIOUS
<1>2. p \in Seq(Seq(Safe)) /\ Len(p) = n
  BY PiecesAreSafe
<1>3. \A i \in 1 .. n : p[i] \in Seq(Safe)
  BY <1>2
<1>4. \A k \in 1 .. n : str[k] = ":" => p[k] = <<":">>
  BY <1>1 DEF SanitizedPieces, is_char_urlsafe
<1> HIDE DEF p
<1>5. PICK F : Joins(p, F, n, Safe) /\ w = F[n]
  BY <1>2, FlattenJoins
<1>6. w \in Seq(Safe)
  BY <1>1, <1>5 DEF Joins
<1>7. CASE ~ Has(str, ":")
  <2>1. url_sanitize(str) = DefaultScheme \o w
    BY <1>7, SanitizedIs DEF Scheme, p
  <2> HIDE DEF w
  <2>2. /\ DefaultScheme \o w \in Seq(Safe) /\ Len(DefaultScheme \o w) = Len(DefaultScheme) + Len(w)
        /\ Len(w) \in Nat
        /\ \A j \in 1 .. Len(DefaultScheme) : (DefaultScheme \o w)[j] = DefaultScheme[j]
    <3> DEFINE x == DefaultScheme
    <3>1. x \in Seq(Safe)
      BY SchemeIsSafe
    <3> HIDE DEF x
    <3>2. /\ x \o w \in Seq(Safe) /\ Len(x \o w) = Len(x) + Len(w) /\ Len(w) \in Nat
          /\ \A j \in 1 .. Len(x) : (x \o w)[j] = x[j]
      BY <1>6, <3>1, Concatenated
    <3> QED
      BY <3>2 DEF x
  <2>3. DefaultScheme[2] = ":"
    BY DEF DefaultScheme
  <2>4. 2 \in DOMAIN (DefaultScheme \o w) /\ (DefaultScheme \o w)[2] = ":"
    BY <2>2, <2>3, SchemeIsSafe
  <2> QED
    BY <2>1, <2>2, <2>4 DEF Has
<1>8. CASE Has(str, ":")
  <2>1. url_sanitize(str) = w
    <3>1. <<>> \o w = w
      BY <1>6
    <3> QED
      BY <1>8, <3>1, SanitizedIs DEF Scheme, p
  <2>2. PICK k \in 1 .. n : str[k] = ":"
    BY <1>1, <1>8 DEF Has
  <2>3. n \in k .. n
    BY <1>1
  <2>4. PieceAt(p, F, k, n, Safe)
    BY <1>1, <1>3, <1>5, <2>3, JoinedPiece
  <2>5. p[k][1] = ":" /\ Len(p[k]) = 1
    <3>1. p[k] = <<":">>
      BY <1>4, <2>2
    <3>2. Len(<<":">>) = 1 /\ <<":">>[1] = ":"
      OBVIOUS
    <3> QED
      BY <3>1, <3>2
  <2>6. F[n][Len(F[k - 1]) + 1] = ":"
    BY <2>4, <2>5 DEF PieceAt
  <2> DEFINE x == Len(F[k - 1])
             y == Len(F[k])
             z == Len(F[n])
  <2>7. x \in Nat /\ z \in Nat /\ y = x + 1 /\ y <= z
    BY <2>4, <2>5 DEF PieceAt
  <2> HIDE DEF x, y, z
  <2>8. x + 1 \in 1 .. z
    BY <2>7
  <2>9. DOMAIN w = 1 .. Len(w)
    BY <1>6
  <2>10. Len(F[k - 1]) + 1 \in DOMAIN w /\ w[Len(F[k - 1]) + 1] = ":"
    BY <1>5, <2>6, <2>8, <2>9 DEF x, z
  <2> QED
    BY <1>6, <2>1, <2>10 DEF Has
<1> QED
  BY <1>7, <1>8

(* Safe bytes with a colon stay as they are. *)
LEMMA SafeIsKept ==
  ASSUME NEW s \in Seq(Safe), Has(s, ":")
  PROVE  url_sanitize(s) = s
<1>1. \A i \in DOMAIN s : is_char_urlsafe(s[i])
  BY SafeIs
<1>2. SanitizedPieces(s) = [i \in DOMAIN s |-> <<s[i]>>]
  BY <1>1 DEF SanitizedPieces
<1>3. FlattenSeq(SanitizedPieces(s)) = s
  BY <1>2, FlattenSingles
<1>4. <<>> \o s = s
  OBVIOUS
<1> QED
  BY <1>3, <1>4, SanitizedIs DEF Scheme

(* The length of pieces of three bytes, those in E, and of one. *)
LEMMA JoinedSize ==
  ASSUME NEW S, NEW p \in Seq(Seq(S)), NEW E \in SUBSET (1 .. Len(p)),
         \A k \in 1 .. Len(p) : Len(p[k]) = IF k \in E THEN 3 ELSE 1
  PROVE  /\ FlattenSeq(p) \in Seq(S)
         /\ Cardinality(E) \in Nat
         /\ Len(FlattenSeq(p)) = Len(p) + 2 * Cardinality(E)
<1> DEFINE n == Len(p)
           w == FlattenSeq(p)
           U(k) == {i \in 1 .. k : i \in E}
           u(k) == Cardinality(U(k))
<1>1. /\ n \in Nat /\ E \in SUBSET (1 .. n)
      /\ \A k \in 1 .. n : p[k] \in Seq(S) /\ Len(p[k]) = IF k \in E THEN 3 ELSE 1
  OBVIOUS
<1>2. PICK F : Joins(p, F, n, S) /\ w = F[n]
  BY FlattenJoins
<1>3. \A k \in Nat : IsFiniteSet(U(k)) /\ u(k) \in Nat
  <2> SUFFICES ASSUME NEW k \in Nat PROVE IsFiniteSet(U(k)) /\ u(k) \in Nat
    OBVIOUS
  <2>1. IsFiniteSet(1 .. k) /\ U(k) \in SUBSET (1 .. k)
    BY FS_Interval
  <2>2. IsFiniteSet(U(k))
    BY <2>1, FS_Subset
  <2> QED
    BY <2>2, FS_CardinalityType
<1>4. u(0) = 0
  <2>1. U(0) = {}
    OBVIOUS
  <2> QED
    BY <2>1, FS_EmptySet
<1>5. ASSUME NEW k \in 1 .. n
      PROVE  u(k) = IF k \in E THEN u(k - 1) + 1 ELSE u(k - 1)
  <2>1. k - 1 \in Nat /\ IsFiniteSet(U(k - 1)) /\ k \notin U(k - 1)
    BY <1>1, <1>3
  <2>2. CASE k \notin E
    <3>1. U(k) = U(k - 1)
      BY <2>2
    <3> QED
      BY <2>2, <3>1
  <2>3. CASE k \in E
    <3>1. U(k) = U(k - 1) \cup {k}
      BY <2>3
    <3>2. Cardinality(U(k - 1) \cup {k}) = Cardinality(U(k - 1)) + 1
      BY <2>1, FS_AddElement
    <3> QED
      BY <2>3, <3>1, <3>2
  <2> QED
    BY <2>2, <2>3
<1> HIDE DEF U, n
<1> DEFINE Wrong(k) == Len(F[k]) # k + 2 * u(k)
           T == {k \in Nat : k <= n /\ Wrong(k)}
<1>6. T = {}
  <2> SUFFICES ASSUME T # {} PROVE FALSE
    OBVIOUS
  <2>1. PICK k \in T : \A j \in T : k <= j
    BY Least, T \subseteq Nat
  <2> HIDE DEF Wrong
  <2>2. k \in Nat /\ k <= n /\ Wrong(k)
    BY <2>1
  <2>3. k # 0
    <3>1. F[0] = <<>> /\ Len(<<>>) = 0
      BY <1>2 DEF Joins
    <3>2. 0 + 2 * u(0) = 0
      BY <1>4
    <3>3. ~ Wrong(0)
      BY <3>1, <3>2 DEF Wrong
    <3> QED
      BY <2>2, <3>3
  <2>4. k - 1 \in Nat /\ k - 1 <= n /\ k - 1 \notin T /\ k \in 1 .. n /\ k \in k .. n
    BY <1>1, <2>1, <2>2, <2>3
  <2>5. ~ Wrong(k - 1)
    BY <2>4
  <2>6. PieceAt(p, F, k, k, S)
    BY <1>1, <1>2, <2>4, JoinedPiece
  <2>7. Len(F[k]) = Len(F[k - 1]) + Len(p[k])
    BY <2>6 DEF PieceAt
  <2>8. Len(p[k]) = IF k \in E THEN 3 ELSE 1
    BY <1>1, <2>4
  <2> DEFINE v == u(k)
             v1 == u(k - 1)
  <2>9. v1 \in Nat /\ v = IF k \in E THEN v1 + 1 ELSE v1
    BY <1>3, <1>5, <2>4
  <2>10. Len(F[k - 1]) = (k - 1) + 2 * v1 /\ Len(F[k]) # k + 2 * v
    BY <2>2, <2>5 DEF Wrong
  <2> HIDE DEF v, v1
  <2> QED
    BY <2>2, <2>7, <2>8, <2>9, <2>10
<1>7. Len(w) = n + 2 * u(n)
  <2>1. n \notin T
    BY <1>6
  <2> QED
    BY <1>1, <1>2, <2>1
<1>8. w \in Seq(S)
  BY <1>1, <1>2 DEF Joins
<1>9. U(n) = E /\ u(n) \in Nat
  BY <1>1, <1>3 DEF U
<1> HIDE DEF w
<1> QED
  BY <1>7, <1>8, <1>9 DEF w, n

(* The size that is asked for is the length as a short.                     *)
LEMMA SizeIsRight ==
  ASSUME NEW str \in Seq(Range(Bytes))
  PROVE  /\ SanitizedSize(str) = Short(Len(url_sanitize(str)) + 1)
         /\ Len(url_sanitize(str)) \in Nat
<1> DEFINE p == SanitizedPieces(str)
           n == Len(str)
           w == FlattenSeq(p)
           E == {i \in DOMAIN str : ~ is_char_urlsafe(str[i])}
           c == Cardinality(E)
           a == IF Has(str, ":") THEN 0 ELSE 4
<1>1. n \in Nat /\ DOMAIN str = 1 .. n /\ \A i \in 1 .. n : str[i] \in Range(Bytes)
  OBVIOUS
<1>2. p \in Seq(Seq(Safe)) /\ Len(p) = n
  BY PiecesAreSafe
<1>3. \A k \in 1 .. n : Len(p[k]) = IF k \in E THEN 3 ELSE 1
  <2> SUFFICES ASSUME NEW k \in 1 .. n
               PROVE  Len(p[k]) = IF k \in E THEN 3 ELSE 1
    OBVIOUS
  <2>1. p[k] = IF is_char_urlsafe(str[k]) THEN <<str[k]>> ELSE Escape(str[k])
    BY <1>1 DEF SanitizedPieces
  <2>2. Len(<<str[k]>>) = 1 /\ Len(Escape(str[k])) = 3
    BY <1>1, EscapeIsSafe
  <2>3. k \in E <=> ~ is_char_urlsafe(str[k])
    BY <1>1
  <2> HIDE DEF p, E
  <2> QED
    BY <2>1, <2>2, <2>3
<1>4. E \in SUBSET (1 .. n)
  BY <1>1
<1> HIDE DEF p, E
<1>5. w \in Seq(Safe) /\ c \in Nat /\ Len(w) = n + 2 * c
  BY <1>2, <1>3, <1>4, JoinedSize
<1>6. SanitizedSize(str) = Short(n + 1 + 2 * c + a)
  BY SchemeIsSafe DEF SanitizedSize, E
<1>7. url_sanitize(str) = Scheme(str) \o w
  BY SanitizedIs DEF p
<1> HIDE DEF w, c
<1>8. Len(Scheme(str) \o w) = a + Len(w)
  <2>1. Len(<<>>) = 0 /\ <<>> \in Seq(Safe)
    OBVIOUS
  <2>2. Scheme(str) \in Seq(Safe) /\ Len(Scheme(str)) = a
    <3>1. CASE Has(str, ":")
      BY <2>1, <3>1 DEF Scheme
    <3>2. CASE ~ Has(str, ":")
      BY <3>2, SchemeIsSafe DEF Scheme
    <3> QED
      BY <3>1, <3>2
  <2>3. \A x, y \in Seq(Safe) : Len(x \o y) = Len(x) + Len(y)
    OBVIOUS
  <2> QED
    BY <1>5, <2>2, <2>3
<1>9. a \in Nat
  OBVIOUS
<1> HIDE DEF a, n
<1>10. Len(url_sanitize(str)) + 1 = n + 1 + 2 * c + a /\ Len(url_sanitize(str)) \in Nat
  BY <1>1, <1>5, <1>7, <1>8, <1>9
<1> QED
  BY <1>6, <1>10

LEMMA Divided ==
  ASSUME NEW x \in Int, NEW m \in Nat \ {0}
  PROVE  x % m \in 0 .. m - 1 /\ x \div m \in Int /\ x = m * (x \div m) + (x % m)
BY SMT

(* A number is what it was before it was cut off exactly when there was     *)
(* nothing to cut off.                                                      *)
LEMMA Remains ==
  ASSUME NEW x \in Nat, NEW m \in Nat, x < m
  PROVE  x % m = x
<1>1. m \in Nat \ {0}
  OBVIOUS
<1> DEFINE q == x \div m
           r == x % m
<1>2. r \in 0 .. m - 1 /\ q \in Int /\ x = m * q + r
  BY <1>1, Divided
<1> HIDE DEF q, r
<1>3. q = 0
  <2>1. CASE q >= 1
    <3>1. m * q >= m
      BY <1>1, <1>2, <2>1
    <3> QED
      BY <1>1, <1>2, <3>1
  <2>2. CASE q <= -1
    <3>1. m * q <= -m
      BY <1>1, <1>2, <2>2
    <3> QED
      BY <1>1, <1>2, <3>1
  <2> QED
    BY <1>2, <2>1, <2>2
<1>4. m * 0 = 0
  OBVIOUS
<1> QED
  BY <1>2, <1>3, <1>4 DEF r

LEMMA ShortHolds ==
  ASSUME NEW n \in Nat
  PROVE  Short(n) = n <=> n <= ShortMax
<1> DEFINE half == ShortMax + 1
           m == 2 * half
           r == (n + half) % m
<1>1. half \in Nat \ {0} /\ m \in Nat \ {0} /\ n + half \in Nat /\ m = half + half
  BY ShortAssumption
<1>2. Short(n) = r - half
  BY DEF Short
<1>3. ShortMax = half - 1
  BY ShortAssumption
<1> HIDE DEF half, m
<1>4. r \in 0 .. m - 1
  BY <1>1, Divided
<1>5. n + half < m => r = n + half
  BY <1>1, Remains
<1> HIDE DEF r
<1> QED
  BY <1>1, <1>2, <1>3, <1>4, <1>5

(* Bytes that were not percent signs, read one by one.                     *)
LEMMA ReadByte ==
  ASSUME NEW S, NEW s \in Seq(S), NEW f, Reads(s, f), NEW i \in 1 .. Len(s), s[i] # "%",
         NEW j, j = i + 1
  PROVE  f[i] = <<s[i]>> \o f[j]
<1>1. f[i] = DecodeTurn(s, f, i)
  <2>1. i \in 1 .. Len(s) + 3
    OBVIOUS
  <2> QED
    BY <2>1 DEF Reads
<1>2. ~ (i > Len(s))
  OBVIOUS
<1> QED
  BY <1>1, <1>2 DEF DecodeTurn

LEMMA Behind ==
  ASSUME NEW S, NEW x \in Seq(S), NEW y \in Seq(S)
  PROVE  EndsWith(x \o y, Len(x), y) /\ \A j \in 1 .. Len(x) : (x \o y)[j] = x[j]
BY Concatenated DEF EndsWith

LEMMA SanitizedDecodes ==
  ASSUME NEW str \in Seq(Range(Bytes)), ~ Has(str, "%")
  PROVE  url_decode(url_sanitize(str)) = Scheme(str) \o str
<1> DEFINE S == Safe \cup Range(Bytes)
           p == SanitizedPieces(str)
           w == FlattenSeq(p)
           s == url_sanitize(str)
<1>1. s \in Seq(S) /\ s \in Seq(Safe)
  BY SanitizedIsSafe
<1>2. p \in Seq(Seq(Safe)) /\ Len(p) = Len(str) /\ Len(str) \in Nat
  BY PiecesAreSafe
<1>3. p \in Seq(Seq(S)) /\ str \in Seq(S)
  <2>1. Seq(Safe) \subseteq Seq(S)
    OBVIOUS
  <2> HIDE DEF p, S
  <2> QED
    BY <1>2, <2>1 DEF S
<1>4. Codes(str, p)
  <2> SUFFICES ASSUME NEW k \in 1 .. Len(str)
               PROVE  \/ p[k] = <<str[k]>> /\ str[k] # "%"
                      \/ p[k] = Escape(str[k]) /\ str[k] \in Range(Bytes)
    BY <1>2 DEF Codes
  <2>1. k \in DOMAIN str /\ str[k] \in Range(Bytes)
    OBVIOUS
  <2>2. str[k] # "%"
    BY <2>1 DEF Has
  <2> QED
    BY <2>1, <2>2 DEF SanitizedPieces
<1>5. s = Scheme(str) \o w
  BY SanitizedIs
<1>6. w \in Seq(Safe)
  <2>1. PICK F : Joins(p, F, Len(p), Safe) /\ w = F[Len(p)]
    BY <1>2, FlattenJoins
  <2>2. Len(p) \in 0 .. Len(p)
    BY <1>2
  <2>3. F \in [0 .. Len(p) -> Seq(Safe)]
    BY <2>1 DEF Joins
  <2> HIDE DEF w, p
  <2> QED
    BY <2>1, <2>2, <2>3
<1>7. PICK f : url_decode(s) = f[1] /\ Reads(s, f)
  BY <1>1, DecodeUnfolds
<1> HIDE DEF s, p, S
<1>8. CASE Has(str, ":")
  <2>1. Scheme(str) = <<>>
    BY <1>8 DEF Scheme
  <2>2. s = w
    <3>1. <<>> \o w = w
      BY <1>6
    <3> QED
      BY <1>5, <2>1, <3>1
  <2> HIDE DEF w
  <2>3. EndsWith(s, 0, w)
    BY <1>6, <2>2 DEF EndsWith
  <2>4. f[0 + 1] = str
    BY <1>1, <1>3, <1>4, <1>7, <2>3, PiecesDecode DEF w
  <2>5. <<>> \o str = str
    OBVIOUS
  <2> QED
    BY <1>7, <2>1, <2>4, <2>5 DEF s
<1>9. CASE ~ Has(str, ":")
  <2>1. Scheme(str) = DefaultScheme
    BY <1>9 DEF Scheme
  <2> HIDE DEF w
  <2>2. EndsWith(s, 4, w) /\ \A j \in 1 .. 4 : s[j] = DefaultScheme[j]
    <3>1. /\ EndsWith(DefaultScheme \o w, Len(DefaultScheme), w)
          /\ \A j \in 1 .. Len(DefaultScheme) : (DefaultScheme \o w)[j] = DefaultScheme[j]
      BY <1>6, SchemeIsSafe, Behind
    <3> QED
      BY <1>5, <2>1, <3>1, SchemeIsSafe
  <2>3. f[4 + 1] = str
    BY <1>1, <1>3, <1>4, <1>7, <2>2, PiecesDecode DEF w
  <2>4. s[1] = "http" /\ s[2] = ":" /\ s[3] = "/" /\ s[4] = "/"
    BY <2>2 DEF DefaultScheme
  <2>5. {1, 2, 3, 4} \subseteq 1 .. Len(s)
    BY <1>6, <2>2 DEF EndsWith
  <2>6. f[1] = <<"http">> \o f[2] /\ f[2] = <<":">> \o f[3] /\ f[3] = <<"/">> \o f[4]
        /\ f[4] = <<"/">> \o f[5]
    <3>1. f[1] = <<"http">> \o f[2]
      BY <1>1, <1>7, <2>4, <2>5, ReadByte, 2 = 1 + 1
    <3>2. f[2] = <<":">> \o f[3]
      BY <1>1, <1>7, <2>4, <2>5, ReadByte, 3 = 2 + 1
    <3>3. f[3] = <<"/">> \o f[4]
      BY <1>1, <1>7, <2>4, <2>5, ReadByte, 4 = 3 + 1
    <3>4. f[4] = <<"/">> \o f[5]
      BY <1>1, <1>7, <2>4, <2>5, ReadByte, 5 = 4 + 1
    <3> QED
      BY <3>1, <3>2, <3>3, <3>4
  <2>7. f[1] = <<"http">> \o (<<":">> \o (<<"/">> \o (<<"/">> \o str)))
    BY <2>3, <2>6
  <2>8. f[1] = DefaultScheme \o str
    BY <2>7 DEF DefaultScheme
  <2> QED
    BY <1>7, <2>1, <2>8 DEF s
<1> QED
  BY <1>8, <1>9

(* What is sanitized stays as it is when it is sanitized again, has the     *)
(* length that was allocated when that is a short, and decodes to what it   *)
(* was (utils.c:289).                                                       *)
THEOREM SanitizedIsStable == Spec => []SanitizeStable
<1>1. IInv => SanitizeStable
  <2> SUFFICES ASSUME IInv, IsAddress
               PROVE  /\ url_sanitize(url_sanitize(buf)) = url_sanitize(buf)
                      /\ SanitizedSize(buf) = Len(url_sanitize(buf)) + 1 <=>
                           Len(url_sanitize(buf)) + 1 <= ShortMax
                      /\ ~Has(buf, "%") => url_decode(url_sanitize(buf)) = Scheme(buf) \o buf
    BY Zenon DEF SanitizeStable, Scheme
  <2>1. buf \in Seq(Range(Bytes))
    BY DEF IInv, IsAddress
  <2>2. url_sanitize(url_sanitize(buf)) = url_sanitize(buf)
    BY <2>1, SanitizedIsSafe, SafeIsKept
  <2>3. SanitizedSize(buf) = Len(url_sanitize(buf)) + 1 <=>
          Len(url_sanitize(buf)) + 1 <= ShortMax
    <3> DEFINE n == Len(url_sanitize(buf)) + 1
    <3>1. SanitizedSize(buf) = Short(n) /\ n \in Nat
      BY <2>1, SizeIsRight
    <3> HIDE DEF n
    <3>2. SanitizedSize(buf) = n <=> n <= ShortMax
      BY <3>1, ShortHolds
    <3> QED
      BY <3>2 DEF n
  <2>4. ~Has(buf, "%") => url_decode(url_sanitize(buf)) = Scheme(buf) \o buf
    BY <2>1, SanitizedDecodes
  <2> QED
    BY <2>2, <2>3, <2>4
<1> QED
  BY <1>1, TextInvariance, PTL

-----------------------------------------------------------------------------
(* The file that was picked. *)

NoNul == Range(Bytes) \ {"NUL"}

Escaped(path) == {i \in DOMAIN path : path[i] \notin Unreserved \cup {"/"}}

LEMMA EncodedPath ==
  ASSUME NEW path \in Seq(NoNul)
  PROVE  /\ url_encode(path) \in Seq(Safe)
         /\ \A u \in Seq(Safe) : \A f : Reads(u \o url_encode(path), f) => f[Len(u) + 1] = path
         /\ Cardinality(Escaped(path)) \in Nat
         /\ Len(url_encode(path)) = Len(path) + 2 * Cardinality(Escaped(path))
<1> DEFINE p == [i \in DOMAIN path |-> IF path[i] \in Unreserved \cup {"/"} THEN <<path[i]>>
                                       ELSE Escape(path[i])]
           w == FlattenSeq(p)
           n == Len(path)
           S == Safe \cup Range(Bytes)
<1>1. n \in Nat /\ DOMAIN path = 1 .. n /\ \A i \in 1 .. n : path[i] \in Range(Bytes)
  BY DEF NoNul
<1>2. ASSUME NEW c \in Range(Bytes)
      PROVE  (IF c \in Unreserved \cup {"/"} THEN <<c>> ELSE Escape(c)) \in Seq(Safe)
  <2>1. Alnum \cup {"%"} \subseteq Safe /\ Unreserved \cup {"/"} \subseteq Safe
    BY DEF Safe, Unreserved
  <2>2. CASE c \in Unreserved \cup {"/"}
    BY <2>1, <2>2
  <2>3. CASE c \notin Unreserved \cup {"/"}
    <3>1. Escape(c) \in Seq(Safe)
      BY <2>1, EscapeIsSafe
    <3> QED
      BY <2>3, <3>1
  <2> QED
    BY <2>2, <2>3
<1>3. p \in Seq(Seq(Safe)) /\ Len(p) = n
  <2>1. p = [i \in 1 .. n |-> IF path[i] \in Unreserved \cup {"/"} THEN <<path[i]>>
                              ELSE Escape(path[i])]
    BY <1>1
  <2> QED
    BY <1>1, <1>2, <2>1
<1>4. Codes(path, p)
  <2> SUFFICES ASSUME NEW k \in 1 .. n
               PROVE  \/ p[k] = <<path[k]>> /\ path[k] # "%"
                      \/ p[k] = Escape(path[k]) /\ path[k] \in Range(Bytes)
    BY <1>3 DEF Codes
  <2>1. "%" \notin Unreserved \cup {"/"}
    BY DEF Unreserved, Alnum, Alpha, Words, Decimal
  <2> QED
    BY <1>1, <2>1
<1>5. url_encode(path) = w
  BY DEF url_encode
<1>6. /\ w \in Seq(Safe) /\ Cardinality(Escaped(path)) \in Nat
      /\ Len(w) = n + 2 * Cardinality(Escaped(path))
  <2> DEFINE E == Escaped(path)
  <2>1. E \in SUBSET (1 .. n) /\ \A k \in 1 .. n : k \in E <=> path[k] \notin Unreserved \cup {"/"}
    BY <1>1 DEF Escaped
  <2>2. \A k \in 1 .. n : Len(p[k]) = IF k \in E THEN 3 ELSE 1
    <3> SUFFICES ASSUME NEW k \in 1 .. n PROVE Len(p[k]) = IF k \in E THEN 3 ELSE 1
      OBVIOUS
    <3>1. p[k] = IF path[k] \in Unreserved \cup {"/"} THEN <<path[k]>> ELSE Escape(path[k])
      BY <1>1
    <3>2. Len(<<path[k]>>) = 1 /\ Len(Escape(path[k])) = 3
      BY <1>1, EscapeIsSafe
    <3> HIDE DEF p, E
    <3> QED
      BY <2>1, <3>1, <3>2
  <2> HIDE DEF p, E
  <2> QED
    BY <1>3, <2>1, <2>2, JoinedSize DEF E
<1> HIDE DEF p
<1>7. p \in Seq(Seq(S)) /\ path \in Seq(S)
  <2>1. Seq(Safe) \subseteq Seq(S)
    OBVIOUS
  <2> HIDE DEF S
  <2> QED
    BY <1>1, <1>3, <2>1 DEF S, NoNul
<1>8. ASSUME NEW u \in Seq(Safe), NEW f, Reads(u \o w, f)
      PROVE  f[Len(u) + 1] = path
  <2> HIDE DEF w
  <2>1. EndsWith(u \o w, Len(u), w) /\ u \o w \in Seq(Safe) /\ Len(u) \in Nat
    BY <1>6, Behind
  <2>2. u \o w \in Seq(S)
    BY <2>1
  <2> HIDE DEF S
  <2> QED
    BY <1>4, <1>7, <1>8, <2>1, <2>2, PiecesDecode DEF w
<1> QED
  BY <1>5, <1>6, <1>8

LEMMA TheMin ==
  ASSUME NEW E, E \subseteq Nat, NEW e \in E, \A d \in E : e <= d
  PROVE  Min(E) = e
<1>1. \A x \in E : (\A y \in E : x <= y) => x = e
  <2> SUFFICES ASSUME NEW x \in E, \A y \in E : x <= y PROVE x = e
    OBVIOUS
  <2>1. x \in Nat /\ e \in Nat /\ x <= e /\ e <= x
    OBVIOUS
  <2> QED
    BY <2>1
<1>2. (CHOOSE x \in E : \A y \in E : x <= y) = e
  <2> DEFINE P(x) == x \in E /\ \A y \in E : x <= y
  <2>1. P(e) /\ \A x : P(x) => x = e
    BY <1>1
  <2> HIDE DEF P
  <2>2. (CHOOSE x : P(x)) = e
    BY <2>1
  <2> QED
    BY <2>2 DEF P
<1> QED
  BY <1>2 DEF Min

LEMMA SomeBytes == {"/", ":", "a", "%", "1"} \subseteq NoNul
<1>1. {4, 7, 9, 10, 15} \subseteq DOMAIN Bytes
  BY TheBytes
<1> QED
  BY <1>1, TheBytes DEF NoNul, Range

LEMMA Exchanged ==
  ASSUME NEW M \in Seq(NoNul)
  PROVE  /\ Exchange(M) \in Seq(NoNul) /\ Len(Exchange(M)) = Len(M)
         /\ Exchange(Exchange(M)) = M
         /\ \A i \in 1 .. Len(M) : M[i] # ":" => Exchange(M)[i] # "/"
         /\ Escaped(Exchange(M)) = {i \in DOMAIN M : M[i] \notin Unreserved \cup {":"}}
<1> DEFINE E == Exchange(M)
<1>1. DOMAIN M = 1 .. Len(M) /\ Len(M) \in Nat /\ \A i \in 1 .. Len(M) : M[i] \in NoNul
  OBVIOUS
<1>2. E = [i \in 1 .. Len(M) |-> IF M[i] = "/" THEN ":" ELSE IF M[i] = ":" THEN "/" ELSE M[i]]
  BY <1>1 DEF Exchange
<1>3. E \in Seq(NoNul) /\ Len(E) = Len(M) /\ DOMAIN E = 1 .. Len(M)
  BY <1>1, <1>2, SomeBytes
<1>4. \A i \in 1 .. Len(M) : E[i] = IF M[i] = "/" THEN ":" ELSE IF M[i] = ":" THEN "/" ELSE M[i]
  BY <1>2
<1> HIDE DEF E
<1>5. Exchange(E) = [i \in 1 .. Len(M) |-> IF E[i] = "/" THEN ":" ELSE IF E[i] = ":" THEN "/" ELSE E[i]]
  BY <1>3 DEF Exchange
<1>6. M = [i \in 1 .. Len(M) |-> M[i]]
  BY <1>1
<1>7. Exchange(E) = [i \in 1 .. Len(M) |-> M[i]]
  BY <1>4, <1>5
<1>8. Escaped(E) = {i \in DOMAIN M : M[i] \notin Unreserved \cup {":"}}
  <2>1. ":" \notin Unreserved /\ "/" \notin Unreserved
    BY DEF Unreserved, Alnum, Alpha, Words, Decimal
  <2>2. \A i \in 1 .. Len(M) :
          E[i] \in Unreserved \cup {"/"} <=> M[i] \in Unreserved \cup {":"}
    BY <1>4, <2>1
  <2> QED
    BY <1>1, <1>3, <2>2 DEF Escaped
<1> QED
  BY <1>3, <1>4, <1>6, <1>7, <1>8 DEF E

LEMMA PickedPath ==
  ASSUME NEW dirs \in Volumes, NEW fName \in Seq(NoNul)
  PROVE  /\ MacPath(dirs, fName) \in Seq(NoNul)
         /\ Len(MacPath(dirs, fName)) \in Nat \ {0} /\ MacPath(dirs, fName)[1] # ":"
<1> DEFINE p == [i \in DOMAIN dirs |-> Append(Reverse(dirs)[i], ":")]
           w == FlattenSeq(p)
<1>1. p \in Seq(Seq(NoNul)) /\ Len(p) \in Nat \ {0} /\ Len(p[1]) \in Nat \ {0} /\ p[1][1] # ":"
  <2> DEFINE l == Len(dirs)
             r == Reverse(dirs)
  <2>1. /\ DOMAIN dirs = 1 .. l /\ l \in Nat \ {0}
        /\ \A i \in 1 .. l : r[i] \in Seq(NoNul)
        /\ Len(r[1]) \in Nat \ {0} /\ r[1][1] # ":"
    <3>1. CASE dirs = << <<"a">> >>
      <4>1. DOMAIN dirs = 1 .. 1 /\ l = 1 /\ r[1] = <<"a">>
        BY <3>1 DEF Reverse
      <4>2. <<"a">> \in Seq(NoNul) /\ Len(<<"a">>) = 1
        BY SomeBytes
      <4> HIDE DEF r, l
      <4>3. \A i \in 1 .. l : r[i] \in Seq(NoNul)
        <5>1. \A i \in 1 .. 1 : i = 1
          OBVIOUS
        <5>2. r[1] \in Seq(NoNul)
          BY <4>1, <4>2
        <5> QED
          BY <4>1, <5>1, <5>2, Zenon
      <4>4. Len(r[1]) = 1 /\ r[1][1] = "a" /\ l \in Nat \ {0}
        BY <4>1, <4>2
      <4> QED
        BY <4>1, <4>3, <4>4
    <3>2. CASE dirs = << <<"%">>, <<"/">> >>
      <4>1. DOMAIN dirs = 1 .. 2 /\ l = 2 /\ r[1] = <<"/">> /\ r[2] = <<"%">>
        BY <3>2 DEF Reverse
      <4>2. <<"/">> \in Seq(NoNul) /\ <<"%">> \in Seq(NoNul) /\ Len(<<"/">>) = 1
        BY SomeBytes
      <4> HIDE DEF r, l
      <4>3. \A i \in 1 .. l : r[i] \in Seq(NoNul)
        <5>1. \A i \in 1 .. 2 : i = 1 \/ i = 2
          OBVIOUS
        <5>2. r[1] \in Seq(NoNul) /\ r[2] \in Seq(NoNul)
          BY <4>1, <4>2
        <5> QED
          BY <4>1, <5>1, <5>2, Zenon
      <4> QED
        BY <4>1, <4>2, <4>3
    <3> QED
      BY <3>1, <3>2 DEF Volumes
  <2> HIDE DEF l, r
  <2>2. \A x \in Seq(NoNul) :
          /\ Append(x, ":") \in Seq(NoNul) /\ Len(Append(x, ":")) = Len(x) + 1
          /\ Len(x) # 0 => Append(x, ":")[1] = x[1]
    BY SomeBytes
  <2>3. p = [i \in 1 .. l |-> Append(r[i], ":")]
    BY <2>1 DEF r
  <2> HIDE DEF p
  <2>4. p \in Seq(Seq(NoNul)) /\ Len(p) = l /\ p[1] = Append(r[1], ":")
    BY <2>1, <2>2, <2>3
  <2>5. r[1] \in Seq(NoNul)
    BY <2>1
  <2> QED
    BY <2>1, <2>2, <2>4, <2>5
<1>2. MacPath(dirs, fName) = w \o fName
  BY DEF MacPath
<1> DEFINE n == Len(p)
<1> HIDE DEF p
<1>3. PICK F : Joins(p, F, n, NoNul) /\ w = F[n]
  BY <1>1, FlattenJoins
<1>4. n \in Nat /\ 1 \in 1 .. n /\ n \in 1 .. n /\ \A i \in 1 .. n : p[i] \in Seq(NoNul)
  BY <1>1
<1>5. PieceAt(p, F, 1, n, NoNul)
  BY <1>3, <1>4, JoinedPiece
<1>6. F[1 - 1] = <<>> /\ Len(<<>>) = 0
  BY <1>3 DEF Joins
<1>7. w \in Seq(NoNul) /\ Len(w) \in Nat \ {0} /\ w[1] # ":"
  <2> DEFINE l == Len(p[1])
             m == Len(F[1])
             z == Len(F[n])
  <2>1. l \in Nat \ {0} /\ m = 0 + l /\ m <= z /\ z \in Nat
    BY <1>1, <1>5, <1>6 DEF PieceAt
  <2>2. F[n][0 + 1] = p[1][1]
    BY <1>1, <1>5, <1>6 DEF PieceAt
  <2>3. F[n] \in Seq(NoNul)
    BY <1>5 DEF PieceAt
  <2> HIDE DEF l, m
  <2>4. z \in Nat \ {0}
    BY <2>1
  <2> QED
    BY <1>1, <1>3, <2>2, <2>3, <2>4
<1> HIDE DEF w
<1>8. /\ w \o fName \in Seq(NoNul) /\ Len(w \o fName) = Len(w) + Len(fName) /\ Len(fName) \in Nat
      /\ \A j \in 1 .. Len(w) : (w \o fName)[j] = w[j]
  BY <1>7, Concatenated
<1> QED
  BY <1>2, <1>7, <1>8

(* A sequence with a prefix of m elements. *)
Prefixed(z, m, x, y, S) ==
  /\ z \in Seq(S) /\ Len(y) \in Nat /\ Len(z) = m + Len(y)
  /\ \A j \in 1 .. m : z[j] = x[j]
  /\ \A j \in 1 .. Len(y) : z[m + j] = y[j]

LEMMA PrefixIsThere ==
  ASSUME NEW S, NEW x \in Seq(S), NEW y \in Seq(S), NEW m, m = Len(x), NEW z, z = x \o y
  PROVE  Prefixed(z, m, x, y, S)
BY Concatenated DEF Prefixed

LEMMA RestIs ==
  ASSUME NEW S, NEW s \in Seq(S), NEW k \in Nat \ {0}, NEW n, n = Len(s), k <= n
  PROVE  /\ SubSeq(s, k, n) \in Seq(S) /\ Len(SubSeq(s, k, n)) = (n - k) + 1
         /\ \A j \in 1 .. (n - k) + 1 : SubSeq(s, k, n)[j] = s[(k - 1) + j]
OBVIOUS

LEMMA PathOfFive ==
  ASSUME NEW S, NEW s \in Seq(S), NEW m \in Nat, Len(s) = 5 + m
  PROVE  /\ SubSeq(s, 3, Len(s)) \in Seq(S) /\ Len(SubSeq(s, 3, Len(s))) = 3 + m
         /\ \A j \in 1 .. 3 + m : SubSeq(s, 3, Len(s))[j] = s[2 + j]
OBVIOUS

LEMMA SameSequence ==
  ASSUME NEW S, NEW x \in Seq(S), NEW y \in Seq(S), Len(x) = Len(y),
         \A j \in 1 .. Len(x) : x[j] = y[j]
  PROVE  x = y
OBVIOUS

(* A string ends at its first NUL: one that has none is whole. *)
LEMMA NoNulInside ==
  ASSUME NEW d \in Seq(NoNul)
  PROVE  SubSeq(d, 1, From(d, 1, {}) - 1) = d
<1> DEFINE n == Len(d)
           a == Append(d, "NUL")
           I == {i \in 1 .. n + 1 : a[i] \in {} \cup {"NUL"}}
<1>1. n \in Nat /\ \A i \in 1 .. n : d[i] \in NoNul
  OBVIOUS
<1>2. /\ \A i \in 1 .. n : a[i] # "NUL"
      /\ a[n + 1] = "NUL"
  <2>1. \A i \in 1 .. n : a[i] = d[i]
    OBVIOUS
  <2>2. a[n + 1] = "NUL"
    OBVIOUS
  <2> HIDE DEF a
  <2> QED
    BY <1>1, <2>1, <2>2 DEF NoNul
<1> HIDE DEF a
<1>3. n + 1 \in I /\ I \subseteq Nat /\ \A i \in I : n + 1 <= i
  BY <1>1, <1>2
<1>4. From(d, 1, {}) = Min(I)
  BY <1>3 DEF From, SelectInSubSeq, a
<1>5. From(d, 1, {}) = n + 1
  BY <1>3, <1>4, TheMin
<1>6. (n + 1) - 1 = n /\ SubSeq(d, 1, n) = d
  BY <1>1
<1> QED
  BY <1>5, <1>6

(* The path behind the slashes is the one of the URL. *)
LEMMA FileOpened ==
  ASSUME NEW path \in Seq(NoNul), Len(path) # 0, path[1] # "/", Len(path) <= ByteMax,
         NEW uri, uri = <<"file", ":", "/", "/", "/">> \o url_encode(path)
  PROVE  FileProviderInit(url_sanitize(uri)) = [room |-> 3, name |-> Exchange(path)]
<1> DEFINE e == url_encode(path)
           u == <<"/", "/", "/">>
           v == <<"file", ":", "/", "/", "/">>
           d == u \o path
           n == Len(d)
<1>1. e \in Seq(Safe) /\ \A x \in Seq(Safe) : \A f : Reads(x \o e, f) => f[Len(x) + 1] = path
  BY EncodedPath
<1> HIDE DEF e
<1>2. u \in Seq(Safe) /\ Len(u) = 3 /\ u[1] = "/" /\ u[2] = "/" /\ u[3] = "/"
  BY DEF Safe
<1>3. v \in Seq(Safe) /\ Len(v) = 5 /\ v[2] = ":" /\ v[3] = "/" /\ v[4] = "/" /\ v[5] = "/"
  BY DEF Safe, Unreserved, Alnum, Alpha, Words
<1>4. u \in Seq(NoNul)
  BY SomeBytes
<1> HIDE DEF u, v
<1>5. /\ uri \in Seq(Safe) /\ Len(uri) = 5 + Len(e) /\ Len(e) \in Nat
      /\ \A j \in 1 .. 5 : uri[j] = v[j]
      /\ \A j \in 1 .. Len(e) : uri[5 + j] = e[j]
  <2>1. uri = v \o e
    BY DEF v, e
  <2>2. Prefixed(uri, 5, v, e, Safe)
    BY <1>1, <1>3, <2>1, PrefixIsThere
  <2> QED
    BY <2>2 DEF Prefixed
<1>6. url_sanitize(uri) = uri
  <2>1. 2 \in DOMAIN uri /\ uri[2] = ":"
    BY <1>3, <1>5
  <2> QED
    BY <1>5, <2>1, SafeIsKept DEF Has
<1>7. SubSeq(uri, 3, Len(uri)) = u \o e
  <2> DEFINE l == SubSeq(uri, 3, Len(uri))
             r == u \o e
  <2>1. l \in Seq(Safe) /\ Len(l) = 3 + Len(e) /\ \A j \in 1 .. 3 + Len(e) : l[j] = uri[2 + j]
    <3> DEFINE m == Len(e)
    <3>1. uri \in Seq(Safe) /\ m \in Nat /\ Len(uri) = 5 + m
      BY <1>5
    <3> HIDE DEF m
    <3>2. l \in Seq(Safe) /\ Len(l) = 3 + m /\ \A j \in 1 .. 3 + m : l[j] = uri[2 + j]
      BY <3>1, PathOfFive
    <3> QED
      BY <3>2 DEF m
  <2>2. /\ r \in Seq(Safe) /\ Len(r) = 3 + Len(e)
        /\ \A j \in 1 .. 3 : r[j] = u[j]
        /\ \A j \in 1 .. Len(e) : r[3 + j] = e[j]
    <3>1. Prefixed(r, 3, u, e, Safe)
      BY <1>1, <1>2, PrefixIsThere
    <3> HIDE DEF r
    <3> QED
      BY <3>1 DEF Prefixed
  <2> HIDE DEF l, r
  <2>3. ASSUME NEW j \in 1 .. 3 + Len(e)
        PROVE  l[j] = r[j]
    <3>1. CASE j \in 1 .. 3
      <4>1. j = 1 \/ j = 2 \/ j = 3
        BY <3>1
      <4>2. l[1] = "/" /\ l[2] = "/" /\ l[3] = "/"
        BY <1>3, <1>5, <2>1
      <4> QED
        BY <1>2, <2>2, <4>1, <4>2
    <3>2. CASE j \notin 1 .. 3
      <4>1. j - 3 \in 1 .. Len(e) /\ 3 + (j - 3) = j /\ 5 + (j - 3) = 2 + j
        BY <1>5, <3>2
      <4>2. l[j] = uri[5 + (j - 3)]
        BY <2>1, <4>1
      <4>3. r[3 + (j - 3)] = e[j - 3] /\ uri[5 + (j - 3)] = e[j - 3]
        BY <1>5, <2>2, <4>1
      <4> QED
        BY <4>1, <4>2, <4>3
    <3> QED
      BY <3>1, <3>2
  <2>4. l = r
    BY <2>1, <2>2, <2>3, SameSequence
  <2> QED
    BY <2>4 DEF l, r
<1>8. url_decode(u \o e) = d
  <2> DEFINE s == u \o e
  <2>1. /\ s \in Seq(Safe) /\ Len(s) = 3 + Len(e)
        /\ \A j \in 1 .. 3 : s[j] = u[j]
    <3>1. Prefixed(s, 3, u, e, Safe)
      BY <1>1, <1>2, PrefixIsThere
    <3> HIDE DEF s
    <3> QED
      BY <3>1 DEF Prefixed
  <2> HIDE DEF s
  <2>2. PICK f : url_decode(s) = f[1] /\ Reads(s, f)
    BY <2>1, DecodeUnfolds
  <2>3. f[4] = path
    <3>1. f[Len(u) + 1] = path
      BY <1>1, <1>2, <2>2 DEF s
    <3> QED
      BY <1>2, <3>1
  <2>4. s[1] = "/" /\ s[2] = "/" /\ s[3] = "/" /\ {1, 2, 3} \subseteq 1 .. Len(s)
    BY <1>2, <1>5, <2>1
  <2> HIDE DEF u
  <2>10. s \in Seq(Safe) /\ Reads(s, f)
    BY <2>1, <2>2
  <2>5. f[1] = <<"/">> \o f[2]
    BY <2>4, <2>10, ReadByte, 2 = 1 + 1
  <2>6. f[2] = <<"/">> \o f[3]
    BY <2>4, <2>10, ReadByte, 3 = 2 + 1
  <2>7. f[3] = <<"/">> \o f[4]
    BY <2>4, <2>10, ReadByte, 4 = 3 + 1
  <2>8. f[1] = <<"/">> \o (<<"/">> \o (<<"/">> \o path))
    BY <2>3, <2>5, <2>6, <2>7
  <2>9. <<"/">> \o (<<"/">> \o (<<"/">> \o path)) = <<"/", "/", "/">> \o path
    OBVIOUS
  <2> QED
    BY <2>2, <2>8, <2>9 DEF s, u
<1>9. /\ d \in Seq(NoNul) /\ n = 3 + Len(path) /\ Len(path) \in Nat \ {0}
      /\ \A j \in 1 .. 3 : d[j] = u[j]
      /\ \A j \in 1 .. Len(path) : d[3 + j] = path[j]
  <2>1. Prefixed(d, 3, u, path, NoNul)
    BY <1>2, <1>4, PrefixIsThere
  <2> HIDE DEF d
  <2> QED
    BY <2>1 DEF Prefixed
<1> HIDE DEF d
<1>10. SubSeq(d, 1, From(d, 1, {}) - 1) = d
  BY <1>9, NoNulInside
<1> DEFINE a == Append(d, "NUL")
           I == {i \in 1 .. n + 1 : a[i] # "/"}
<1>11. \A i \in 1 .. n : a[i] = d[i]
  BY <1>9
<1> HIDE DEF a
<1>12. 4 \in I /\ I \subseteq Nat /\ \A i \in I : 4 <= i
  <2>1. d[4] = path[1] /\ 4 \in 1 .. n
    BY <1>9
  <2>2. ASSUME NEW i \in I
        PROVE  4 <= i
    <3>1. i \in 1 .. 3 => i = 1 \/ i = 2 \/ i = 3
      OBVIOUS
    <3>2. a[1] = "/" /\ a[2] = "/" /\ a[3] = "/"
      BY <1>2, <1>9, <1>11
    <3>3. i \notin 1 .. 3 /\ i \in Nat /\ i >= 1
      BY <1>9, <3>1, <3>2
    <3> QED
      BY <3>3
  <2> QED
    BY <1>9, <1>11, <2>1, <2>2
<1>13. SelectInSubSeq(Append(d, "NUL"), 1, n + 1, LAMBDA c : c # "/") = 4
  <2>1. SelectInSubSeq(Append(d, "NUL"), 1, n + 1, LAMBDA c : c # "/") = Min(I)
    BY <1>12 DEF SelectInSubSeq, a
  <2> QED
    BY <1>12, <2>1, TheMin
<1>14. SubSeq(d, 4, n) = path
  <2> DEFINE l == SubSeq(d, 4, n)
  <2>1. l \in Seq(NoNul) /\ Len(l) = Len(path) /\ \A j \in 1 .. Len(path) : l[j] = d[3 + j]
    BY <1>9
  <2> HIDE DEF l
  <2>2. \A j \in 1 .. Len(path) : l[j] = path[j]
    BY <1>9, <2>1
  <2>3. l = path
    BY <2>1, <2>2, SameSequence
  <2> QED
    BY <2>3 DEF l
<1>15. 4 + Byte(n + 1 - 4, ByteMax) - 1 = n
  <2>1. n + 1 - 4 = Len(path) /\ Len(path) < ByteMax + 1 /\ ByteMax + 1 \in Nat
    BY <1>9, UriAssumption
  <2>2. Byte(Len(path), ByteMax) = Len(path)
    BY <1>9, <2>1, Remains DEF Byte
  <2> QED
    BY <1>9, <2>1, <2>2
<1>16. FileProviderInit(uri) =
         [room |-> 4 - 1, name |-> Exchange(SubSeq(d, 4, 4 + Byte(n + 1 - 4, ByteMax) - 1))]
  BY <1>7, <1>8, <1>10, <1>13 DEF FileProviderInit
<1> QED
  BY <1>6, <1>14, <1>15, <1>16, 4 - 1 = 3

(* The address is put together whole, or does not fit.                     *)
LEMMA AddressOf ==
  ASSUME NEW dirs, NEW fName, NEW path \in Seq(NoNul), path = GetFilePathName(dirs, fName)
  PROVE  LET picked == PageWindowOpenFile(dirs, fName)
             long   == Len(path) + 2 * Cardinality(Escaped(path)) + 6 > UriSize
         IN  /\ picked.overrun <=> long
             /\ ~ long => /\ picked.uri = <<"file", ":", "/", "/", "/">> \o url_encode(path)
                          /\ Len(path) <= ByteMax
<1> DEFINE e == url_encode(path)
           n == Len(e)
           c == Cardinality(Escaped(path))
           v == <<"file", ":", "/", "/", "/">>
           copied == IF n > UriSize THEN SubSeq(e, 1, UriSize) ELSE e
           uri == v \o copied
           picked == PageWindowOpenFile(dirs, fName)
<1>1. e \in Seq(Safe) /\ n \in Nat /\ c \in Nat /\ n = Len(path) + 2 * c /\ Len(path) \in Nat
  BY EncodedPath
<1>2. picked = [uri |-> uri, overrun |-> Len(uri) + 1 > UriSize]
  BY DEF PageWindowOpenFile
<1> HIDE DEF picked, e, c
<1>3. v \in Seq(Safe) /\ Len(v) = 5
  BY DEF Safe, Unreserved, Alnum, Alpha, Words
<1>4. UriSize \in Nat \ {0} /\ UriSize <= ByteMax + 1 /\ ByteMax \in Nat
  BY UriAssumption
<1>5. copied \in Seq(Safe) /\ Len(copied) = IF n > UriSize THEN UriSize ELSE n
  <2>1. CASE n > UriSize
    <3>1. (UriSize - 1) + 1 = UriSize /\ 1 \in Nat \ {0} /\ UriSize \in 1 .. Len(e)
      BY <1>1, <1>4, <2>1
    <3>2. SubSeq(e, 1, UriSize) \in Seq(Safe) /\ Len(SubSeq(e, 1, UriSize)) = UriSize
      BY <1>1, <1>4, <3>1
    <3> QED
      BY <2>1, <3>2
  <2>2. CASE ~ (n > UriSize)
    BY <1>1, <2>2
  <2> QED
    BY <2>1, <2>2
<1>6. n <= UriSize => copied = e
  BY <1>1, <1>4
<1> HIDE DEF v, copied
<1>7. Len(uri) = 5 + Len(copied) /\ Len(copied) \in Nat
  <2>1. copied \in Seq(Safe) /\ v \in Seq(Safe)
    BY <1>3, <1>5
  <2>2. Len(v \o copied) = Len(v) + Len(copied) /\ Len(copied) \in Nat
    BY <2>1, Concatenated
  <2> QED
    BY <1>3, <2>2
<1> HIDE DEF n, uri
<1>8. picked.overrun <=> n + 6 > UriSize
  <2>1. picked.overrun = (Len(uri) + 1 > UriSize)
    BY <1>2
  <2>2. n \in Nat /\ UriSize \in Nat
    BY <1>1, <1>4
  <2> DEFINE l == Len(copied)
  <2>3. l \in Nat /\ Len(uri) = 5 + l /\ l = IF n > UriSize THEN UriSize ELSE n
    BY <1>5, <1>7
  <2> HIDE DEF l
  <2>4. Len(uri) + 1 > UriSize <=> n + 6 > UriSize
    BY <2>2, <2>3
  <2> QED
    BY <2>1, <2>4
<1>9. ~ (n + 6 > UriSize) => picked.uri = v \o e /\ Len(path) <= ByteMax
  BY <1>1, <1>2, <1>4, <1>6 DEF uri
<1>10. n + 6 = Len(path) + 2 * c + 6
  BY <1>1
<1> QED
  BY <1>8, <1>9, <1>10 DEF v, e, c, picked

(* The file that was picked is the file that is opened when its address     *)
(* fits in the buffer, which it does exactly up to the length said          *)
(* (window.c:1125, 1156, uri/file.c:64).                                    *)
THEOREM PickedFileIsOpened == Spec => []OpensPickedFile
<1>1. IInv => OpensPickedFile
  <2> SUFFICES ASSUME IInv, IsAddress, NEW dirs \in Volumes
               PROVE  LET path    == MacPath(dirs, buf)
                          escaped == {i \in DOMAIN path : path[i] \notin Unreserved \union {":"}}
                          picked  == PageWindowOpenFile(dirs, buf)
                          f       == FileProviderInit(url_sanitize(picked.uri))
                      IN  /\ picked.overrun <=> Len(path) + 2 * Cardinality(escaped) + 6 > UriSize
                          /\ ~picked.overrun => f.name = path /\ f.room >= 1
    BY DEF OpensPickedFile
  <2> DEFINE M == MacPath(dirs, buf)
             escaped == {i \in DOMAIN M : M[i] \notin Unreserved \union {":"}}
             path == GetFilePathName(dirs, buf)
             picked == PageWindowOpenFile(dirs, buf)
             uri == picked.uri
             long == Len(M) + 2 * Cardinality(escaped) + 6 > UriSize
  <2>1. buf \in Seq(NoNul)
    <3>1. bytes \subseteq NoNul
      BY AlphabetsAssumption DEF IInv, IsAddress, NoNul
    <3> QED
      BY <3>1 DEF IInv
  <2>2. M \in Seq(NoNul) /\ Len(M) \in Nat \ {0} /\ M[1] # ":"
    BY <2>1, PickedPath
  <2>3. path = Exchange(M)
    BY DEF GetFilePathName
  <2> HIDE DEF M, picked, path
  <2>4. /\ path \in Seq(NoNul) /\ Len(path) = Len(M) /\ Len(path) # 0 /\ path[1] # "/"
        /\ Exchange(path) = M /\ Escaped(path) = escaped
    BY <2>2, <2>3, Exchanged
  <2> HIDE DEF escaped
  <2>5. /\ picked.overrun <=> long
        /\ ~ long => /\ uri = <<"file", ":", "/", "/", "/">> \o url_encode(path)
                     /\ Len(path) <= ByteMax
    BY <2>4, AddressOf DEF picked, path
  <2> HIDE DEF long, uri
  <2>6. ~ long => FileProviderInit(url_sanitize(uri)) = [room |-> 3, name |-> Exchange(path)]
    BY <2>4, <2>5, FileOpened
  <2>7. ~ long => /\ FileProviderInit(url_sanitize(uri)).name = M
                  /\ FileProviderInit(url_sanitize(uri)).room >= 1
    BY <2>4, <2>6
  <2> QED
    BY <2>5, <2>7 DEF M, escaped, picked, long, uri
<1> QED
  BY <1>1, TextInvariance, PTL

-----------------------------------------------------------------------------
(* Induction over 0 .. n, for a set of the indices for which something     *)
(* holds, and a function whose value at an index follows from the one      *)
(* before it.                                                              *)

LEMMA Reached ==
  ASSUME NEW n \in Nat, NEW T, 0 \in T, \A k \in 1 .. n : k - 1 \in T => k \in T
  PROVE  \A k \in 0 .. n : k \in T
<1> DEFINE Out == {k \in Nat : k <= n /\ k \notin T}
<1>1. Out = {}
  <2> SUFFICES ASSUME Out # {} PROVE FALSE
    OBVIOUS
  <2>1. PICK k \in Out : \A j \in Out : k <= j
    BY Least, Out \subseteq Nat
  <2>2. k \in 1 .. n /\ k - 1 \in Nat /\ k - 1 <= n /\ ~ (k <= k - 1)
    BY <2>1
  <2>3. k - 1 \notin Out
    BY <2>1, <2>2
  <2> QED
    BY <2>1, <2>2, <2>3
<1> QED
  BY <1>1

Iterates(h, n, V, base, step) ==
  /\ h \in [0 .. n -> V] /\ h[0] = base
  /\ \A k \in 1 .. n : h[k - 1] \in V /\ h[k] = step[k][h[k - 1]]

LEMMA Iterated ==
  ASSUME NEW n \in Nat, NEW V, NEW base \in V, NEW step \in [1 .. n -> [V -> V]]
  PROVE  \E h : Iterates(h, n, V, base, step)
<1> DEFINE T == {m \in 0 .. n : \E h : Iterates(h, m, V, base, step)}
<1>1. 0 \in T
  <2> DEFINE h == [k \in 0 .. 0 |-> base]
  <2>1. h \in [0 .. 0 -> V] /\ h[0] = base
    OBVIOUS
  <2> HIDE DEF h
  <2>2. Iterates(h, 0, V, base, step)
    BY <2>1 DEF Iterates
  <2> QED
    BY <2>2
<1>2. ASSUME NEW m \in 1 .. n, m - 1 \in T
      PROVE  m \in T
  <2>1. PICK h : Iterates(h, m - 1, V, base, step)
    BY <1>2
  <2>2. /\ h \in [0 .. m - 1 -> V] /\ h[0] = base
        /\ \A k \in 1 .. m - 1 : h[k - 1] \in V /\ h[k] = step[k][h[k - 1]]
    BY <2>1, Zenon DEF Iterates
  <2> DEFINE g == [k \in 0 .. m |-> IF k = m THEN step[m][h[m - 1]] ELSE h[k]]
  <2>3. m - 1 \in 0 .. m - 1 /\ h[m - 1] \in V
    BY <2>2
  <2>4. step[m][h[m - 1]] \in V
    BY <2>3
  <2>5. \A k \in 0 .. m : k # m => k \in 0 .. m - 1 /\ h[k] \in V
    BY <2>2
  <2>6. g \in [0 .. m -> V] /\ g[0] = base
    BY <2>2, <2>4, <2>5
  <2>7. ASSUME NEW k \in 1 .. m
        PROVE  g[k - 1] \in V /\ g[k] = step[k][g[k - 1]]
    <3>1. CASE k = m
      BY <2>3, <3>1
    <3>2. CASE k # m
      <4>1. k \in 1 .. m - 1 /\ k - 1 # m /\ k - 1 \in 0 .. m /\ k \in 0 .. m
        BY <3>2
      <4> QED
        BY <2>2, <3>2, <4>1
    <3> QED
      BY <3>1, <3>2
  <2> HIDE DEF g
  <2>8. Iterates(g, m, V, base, step)
    BY <2>6, <2>7 DEF Iterates
  <2> QED
    BY <2>8
<1>3. \A k \in 0 .. n : k \in T
  BY <1>1, <1>2, Reached
<1> QED
  BY <1>3

-----------------------------------------------------------------------------
(* Numbers: what Number reads out of digits, as a long and as a short. *)

Reckons(h, d) ==
  h = [n \in 0 .. Len(d) |-> IF n = 0 THEN 0 ELSE 10 * h[n - 1] + DigitValue[d[n]]]

ReckonsShort(h, d) ==
  h = [n \in 0 .. Len(d) |-> IF n = 0 THEN 0 ELSE Short(10 * h[n - 1] + DigitValue[d[n]])]

LEMMA DigitIs == \A d \in Digits : DigitValue[d] \in 0 .. 9
<1> DEFINE t == <<"0", "1", "2", "3", "4", "5", "6", "7", "8", "9">>
<1> SUFFICES ASSUME NEW d \in Digits PROVE DigitValue[d] \in 0 .. 9
  OBVIOUS
<1>1. \E n \in 0 .. 9 : t[n + 1] = d
  <2>1. t[0 + 1] = "0" /\ t[1 + 1] = "1" /\ t[2 + 1] = "2" /\ t[3 + 1] = "3" /\ t[4 + 1] = "4"
    OBVIOUS
  <2>2. t[5 + 1] = "5" /\ t[6 + 1] = "6" /\ t[7 + 1] = "7" /\ t[8 + 1] = "8" /\ t[9 + 1] = "9"
    OBVIOUS
  <2> HIDE DEF t
  <2>3. {0, 1, 2, 3, 4, 5, 6, 7, 8, 9} \subseteq 0 .. 9
    OBVIOUS
  <2> QED
    BY <2>1, <2>2, <2>3 DEF Digits
<1>2. DigitValue[d] = CHOOSE n \in 0 .. 9 : t[n + 1] = d
  BY DEF DigitValue
<1> HIDE DEF t
<1> QED
  BY <1>1, <1>2

LEMMA ShortIs ==
  ASSUME NEW n \in Int
  PROVE  /\ Short(n) \in -(ShortMax + 1) .. ShortMax
         /\ \E q \in Int : Short(n) = n + q * (2 * (ShortMax + 1))
<1> DEFINE half == ShortMax + 1
           m == 2 * half
           r == (n + half) % m
           q == (n + half) \div m
<1>1. half \in Nat \ {0} /\ m \in Nat \ {0} /\ n + half \in Int /\ m = half + half
  BY ShortAssumption
<1> HIDE DEF half, m
<1>2. r \in 0 .. m - 1 /\ q \in Int /\ n + half = m * q + r
  BY <1>1, Divided
<1>3. Short(n) = r - half
  BY DEF Short, half, m
<1> HIDE DEF r, q
<1>4. r - half = n + (-q) * m
  <2>1. (-q) * m = -(m * q) /\ m * q \in Int
    BY <1>1, <1>2
  <2> QED
    BY <1>1, <1>2, <2>1
<1>5. r - half \in -half .. half - 1
  BY <1>1, <1>2
<1> QED
  BY <1>1, <1>2, <1>3, <1>4, <1>5, ShortAssumption DEF half, m

LEMMA ReckonsExists ==
  ASSUME NEW d \in Seq(Digits)
  PROVE  /\ \E h \in [0 .. Len(d) -> Int] : Reckons(h, d)
         /\ \E h \in [0 .. Len(d) -> Int] : ReckonsShort(h, d)
<1> DEFINE n == Len(d)
<1>1. n \in Nat /\ \A k \in 1 .. n : DigitValue[d[k]] \in Int
  BY DigitIs
<1> HIDE DEF n
<1>2. \E h \in [0 .. n -> Int] : Reckons(h, d)
  <2> DEFINE step == [k \in 1 .. n |-> [v \in Int |-> 10 * v + DigitValue[d[k]]]]
  <2>1. step \in [1 .. n -> [Int -> Int]]
    BY <1>1
  <2>2. \A k \in 1 .. n, v \in Int : step[k][v] = 10 * v + DigitValue[d[k]]
    OBVIOUS
  <2> HIDE DEF step
  <2>3. PICK h : Iterates(h, n, Int, 0, step)
    BY <1>1, <2>1, Iterated, 0 \in Int
  <2>4. \A k \in 1 .. n : h[k] = 10 * h[k - 1] + DigitValue[d[k]]
    BY <1>1, <2>2, <2>3 DEF Iterates
  <2>5. h = [k \in 0 .. n |-> IF k = 0 THEN 0 ELSE 10 * h[k - 1] + DigitValue[d[k]]]
    BY <1>1, <2>3, <2>4 DEF Iterates
  <2>6. h \in [0 .. n -> Int]
    BY <2>3 DEF Iterates
  <2> QED
    BY <2>5, <2>6 DEF Reckons, n
<1>3. \E h \in [0 .. n -> Int] : ReckonsShort(h, d)
  <2> DEFINE step == [k \in 1 .. n |-> [v \in Int |-> Short(10 * v + DigitValue[d[k]])]]
  <2>1. step \in [1 .. n -> [Int -> Int]]
    <3>1. \A x \in Int : Short(x) \in Int
      <4> SUFFICES ASSUME NEW x \in Int PROVE Short(x) \in Int
        OBVIOUS
      <4>1. Short(x) \in -(ShortMax + 1) .. ShortMax
        BY ShortIs
      <4> QED
        BY <4>1, ShortAssumption
    <3>2. \A k \in 1 .. n, v \in Int : 10 * v + DigitValue[d[k]] \in Int
      BY <1>1
    <3> QED
      BY <3>1, <3>2
  <2>2. \A k \in 1 .. n, v \in Int : step[k][v] = Short(10 * v + DigitValue[d[k]])
    OBVIOUS
  <2> HIDE DEF step
  <2>3. PICK h : Iterates(h, n, Int, 0, step)
    BY <1>1, <2>1, Iterated, 0 \in Int
  <2>4. \A k \in 1 .. n : h[k] = Short(10 * h[k - 1] + DigitValue[d[k]])
    BY <1>1, <2>2, <2>3 DEF Iterates
  <2>5. h = [k \in 0 .. n |-> IF k = 0 THEN 0 ELSE Short(10 * h[k - 1] + DigitValue[d[k]])]
    BY <1>1, <2>3, <2>4 DEF Iterates
  <2>6. h \in [0 .. n -> Int]
    BY <2>3 DEF Iterates
  <2> QED
    BY <2>5, <2>6 DEF ReckonsShort, n
<1> QED
  BY <1>2, <1>3 DEF n

(* What is read is reckoned digit by digit. *)
LEMMA NumberUnfolds ==
  ASSUME NEW d \in Seq(Digits)
  PROVE  /\ \E h : Number(d, LAMBDA n : n) = h[Len(d)] /\ Reckons(h, d)
         /\ \E h : Number(d, Short) = h[Len(d)] /\ ReckonsShort(h, d)
<1>1. \E h : Number(d, LAMBDA n : n) = h[Len(d)] /\ Reckons(h, d)
  <2> DEFINE g == CHOOSE h : Reckons(h, d)
  <2>1. Reckons(g, d)
    BY ReckonsExists
  <2>2. Number(d, LAMBDA n : n) = g[Len(d)]
    BY DEF Number, Reckons
  <2> HIDE DEF g
  <2> QED
    BY <2>1, <2>2
<1>2. \E h : Number(d, Short) = h[Len(d)] /\ ReckonsShort(h, d)
  <2> DEFINE g == CHOOSE h : ReckonsShort(h, d)
  <2>1. ReckonsShort(g, d)
    BY ReckonsExists
  <2>2. Number(d, Short) = g[Len(d)]
    BY DEF Number, ReckonsShort
  <2> HIDE DEF g
  <2> QED
    BY <2>1, <2>2
<1> QED
  BY <1>1, <1>2

-----------------------------------------------------------------------------
(* The sum of the weights of a finite set of indices. *)

Chosen(s) == CHOOSE x \in s : TRUE

SumsTo(f, W, D, m) ==
  /\ f \in [{s \in SUBSET D : Cardinality(s) <= m} -> Int]
  /\ \A s \in SUBSET D :
       Cardinality(s) <= m =>
         f[s] = IF s = {} THEN 0 ELSE W[Chosen(s)] + f[s \ {Chosen(s)}]

LEMMA SmallerSet ==
  ASSUME NEW D, IsFiniteSet(D), NEW s \in SUBSET D, NEW x \in s
  PROVE  /\ s \ {x} \in SUBSET D
         /\ Cardinality(s) \in Nat \ {0} /\ Cardinality(s \ {x}) = Cardinality(s) - 1
<1>1. IsFiniteSet(s)
  BY FS_Subset
<1>2. Cardinality(s) \in Nat /\ Cardinality(s \ {x}) = Cardinality(s) - 1 /\ IsFiniteSet(s \ {x})
  BY <1>1, FS_RemoveElement, FS_CardinalityType
<1>3. Cardinality(s \ {x}) \in Nat
  BY <1>2, FS_CardinalityType
<1> QED
  BY <1>2, <1>3

LEMMA ChosenIs == \A s : s # {} => Chosen(s) \in s
BY DEF Chosen

LEMMA SumExists ==
  ASSUME NEW D, IsFiniteSet(D), NEW W \in [D -> Int]
  PROVE  \E f : SumsTo(f, W, D, Cardinality(D))
<1> DEFINE n == Cardinality(D)
           T == {m \in 0 .. n : \E f : SumsTo(f, W, D, m)}
<1>1. n \in Nat /\ \A s \in SUBSET D : Cardinality(s) \in Nat
  BY FS_Subset, FS_CardinalityType
<1> HIDE DEF n
<1>2. 0 \in T
  <2> DEFINE f == [s \in {s \in SUBSET D : Cardinality(s) <= 0} |-> 0]
  <2>1. ASSUME NEW s \in SUBSET D, Cardinality(s) <= 0
        PROVE  s = {}
    <3> SUFFICES ASSUME NEW x \in s PROVE FALSE
      OBVIOUS
    <3>1. Cardinality(s) \in Nat \ {0}
      BY SmallerSet
    <3> QED
      BY <2>1, <3>1
  <2>2. SumsTo(f, W, D, 0)
    BY <2>1 DEF SumsTo
  <2> HIDE DEF f
  <2> QED
    BY <1>1, <2>2
<1>3. ASSUME NEW m \in 1 .. n, m - 1 \in T
      PROVE  m \in T
  <2>1. PICK f : SumsTo(f, W, D, m - 1)
    BY <1>3
  <2> DEFINE X == {s \in SUBSET D : Cardinality(s) <= m}
             Sum(s) == IF s = {} THEN 0 ELSE W[Chosen(s)] + f[s \ {Chosen(s)}]
             g == [s \in X |-> IF Cardinality(s) = m THEN Sum(s) ELSE f[s]]
  <2>2. ASSUME NEW s \in SUBSET D, Cardinality(s) <= m - 1
        PROVE  f[s] \in Int /\ f[s] = Sum(s)
    BY <2>1, <2>2 DEF SumsTo
  <2>3. ASSUME NEW s \in X, s # {}
        PROVE  /\ Chosen(s) \in D /\ s \ {Chosen(s)} \in SUBSET D
               /\ Cardinality(s \ {Chosen(s)}) <= m - 1 /\ Cardinality(s \ {Chosen(s)}) # m
    <3>1. Chosen(s) \in s
      BY <2>3, ChosenIs
    <3>2. /\ s \ {Chosen(s)} \in SUBSET D
          /\ Cardinality(s) \in Nat \ {0} /\ Cardinality(s \ {Chosen(s)}) = Cardinality(s) - 1
      BY <3>1, SmallerSet
    <3> QED
      BY <3>1, <3>2
  <2>4. ASSUME NEW s \in X
        PROVE  Sum(s) \in Int
    <3>1. CASE s = {}
      BY <3>1
    <3>2. CASE s # {}
      <4>1. f[s \ {Chosen(s)}] \in Int /\ W[Chosen(s)] \in Int
        BY <2>2, <2>3, <3>2
      <4> QED
        BY <3>2, <4>1
    <3> QED
      BY <3>1, <3>2
  <2>5. ASSUME NEW s \in X
        PROVE  g[s] = Sum(s)
    <3>1. CASE Cardinality(s) = m
      BY <3>1
    <3>2. CASE Cardinality(s) # m
      <4>1. Cardinality(s) <= m - 1 /\ s \in SUBSET D
        BY <1>1, <3>2
      <4>2. f[s] = Sum(s)
        BY <2>2, <4>1
      <4> HIDE DEF Sum
      <4> QED
        BY <3>2, <4>2
    <3> QED
      BY <3>1, <3>2
  <2>6. ASSUME NEW s \in X, s # {}
        PROVE  g[s \ {Chosen(s)}] = f[s \ {Chosen(s)}]
    <3> DEFINE r == s \ {Chosen(s)}
    <3>1. r \in SUBSET D /\ Cardinality(r) <= m - 1 /\ Cardinality(r) # m
      BY <2>3, <2>6
    <3> HIDE DEF r
    <3>2. r \in X
      BY <1>1, <3>1
    <3>3. g[r] = f[r]
      BY <3>1, <3>2
    <3> QED
      BY <3>3 DEF r
  <2>7. g \in [X -> Int]
    <3>1. g = [s \in X |-> g[s]]
      OBVIOUS
    <3> HIDE DEF g, Sum, X
    <3> QED
      BY <2>4, <2>5, <3>1
  <2>8. SumsTo(g, W, D, m)
    <3> HIDE DEF g
    <3> QED
      BY <2>5, <2>6, <2>7 DEF SumsTo
  <2> HIDE DEF g
  <2> QED
    BY <2>8
<1>4. \A m \in 0 .. n : m \in T
  BY <1>1, <1>2, <1>3, Reached
<1> QED
  BY <1>1, <1>4 DEF n

Adds(f, W, D) ==
  f = [s \in SUBSET D |-> IF s = {} THEN 0 ELSE W[Chosen(s)] + f[s \ {Chosen(s)}]]

LEMMA AddsExists ==
  ASSUME NEW D, IsFiniteSet(D), NEW W \in [D -> Int]
  PROVE  \E f : Adds(f, W, D)
<1>1. PICK g : SumsTo(g, W, D, Cardinality(D))
  BY SumExists
<1>2. {x \in SUBSET D : Cardinality(x) <= Cardinality(D)} = SUBSET D
  BY FS_Subset
<1>3. g = [x \in SUBSET D |-> g[x]]
  BY <1>1, <1>2 DEF SumsTo
<1>4. \A x \in SUBSET D : g[x] = IF x = {} THEN 0 ELSE W[Chosen(x)] + g[x \ {Chosen(x)}]
  BY <1>1, <1>2 DEF SumsTo
<1>5. Adds(g, W, D)
  BY <1>3, <1>4 DEF Adds
<1> QED
  BY <1>5

LEMMA AddsUnfolds ==
  ASSUME NEW D, NEW W, NEW f, Adds(f, W, D)
  PROVE  \A s \in SUBSET D : f[s] = IF s = {} THEN 0 ELSE W[Chosen(s)] + f[s \ {Chosen(s)}]
<1> DEFINE g == [s \in SUBSET D |-> IF s = {} THEN 0 ELSE W[Chosen(s)] + f[s \ {Chosen(s)}]]
<1>1. f = g
  BY DEF Adds
<1>2. \A s \in SUBSET D : g[s] = IF s = {} THEN 0 ELSE W[Chosen(s)] + f[s \ {Chosen(s)}]
  OBVIOUS
<1> HIDE DEF g
<1> QED
  BY <1>1, <1>2

LEMMA SumIsNumber ==
  ASSUME NEW D, IsFiniteSet(D), NEW W \in [D -> Int], NEW f, Adds(f, W, D)
  PROVE  \A s \in SUBSET D : f[s] \in Int
<1> DEFINE n == Cardinality(D)
           T == {m \in Nat : \A s \in SUBSET D : Cardinality(s) = m => f[s] \in Int}
<1>1. n \in Nat /\ \A s \in SUBSET D : Cardinality(s) \in 0 .. n
  BY FS_Subset, FS_CardinalityType
<1>2. \A s \in SUBSET D : f[s] = IF s = {} THEN 0 ELSE W[Chosen(s)] + f[s \ {Chosen(s)}]
  BY AddsUnfolds
<1> HIDE DEF n
<1>3. 0 \in T
  <2>1. ASSUME NEW s \in SUBSET D, Cardinality(s) = 0
        PROVE  s = {}
    BY <2>1, SmallerSet
  <2>2. f[{}] = 0
    BY <1>2
  <2>3. ASSUME NEW s \in SUBSET D, Cardinality(s) = 0
        PROVE  f[s] \in Int
    BY <2>1, <2>2, <2>3
  <2> QED
    BY <2>3
<1>4. ASSUME NEW m \in 1 .. n, m - 1 \in T
      PROVE  m \in T
  <2>1. \A s \in SUBSET D : Cardinality(s) = m - 1 => f[s] \in Int
    BY <1>4
  <2>2. ASSUME NEW s \in SUBSET D, Cardinality(s) = m, s # {}
        PROVE  f[s] \in Int
    <3>1. Chosen(s) \in s
      BY <2>2, ChosenIs
    <3>2. s \ {Chosen(s)} \in SUBSET D /\ Cardinality(s \ {Chosen(s)}) = m - 1
      BY <2>2, <3>1, SmallerSet
    <3>3. f[s \ {Chosen(s)}] \in Int /\ W[Chosen(s)] \in Int
      BY <2>1, <3>1, <3>2
    <3> QED
      BY <1>2, <2>2, <3>3
  <2>3. \A s \in SUBSET D : s = {} => f[s] \in Int
    BY <1>2
  <2> QED
    BY <2>2, <2>3
<1>5. \A m \in 0 .. n : m \in T
  BY <1>1, <1>3, <1>4, Reached
<1> QED
  BY <1>1, <1>5

(* It does not depend on the element that is taken out first. *)
LEMMA SumInAnyOrder ==
  ASSUME NEW D, IsFiniteSet(D), NEW W \in [D -> Int], NEW f, Adds(f, W, D),
         NEW t \in SUBSET D, NEW x \in t
  PROVE  f[t] = W[x] + f[t \ {x}]
<1> DEFINE n == Cardinality(D)
           InAnyOrder(s) == \A e \in s : f[s] = W[e] + f[s \ {e}]
           T == {m \in Nat : \A s \in SUBSET D : Cardinality(s) = m => InAnyOrder(s)}
<1>1. n \in Nat /\ \A s \in SUBSET D : Cardinality(s) \in 0 .. n
  BY FS_Subset, FS_CardinalityType
<1>5. \A s \in SUBSET D : f[s] \in Int /\ f[s] = IF s = {} THEN 0 ELSE W[Chosen(s)] + f[s \ {Chosen(s)}]
  <2>1. \A s \in SUBSET D : f[s] \in Int
    BY SumIsNumber
  <2>2. \A s \in SUBSET D : f[s] = IF s = {} THEN 0 ELSE W[Chosen(s)] + f[s \ {Chosen(s)}]
    BY AddsUnfolds
  <2> QED
    BY <2>1, <2>2
<1> HIDE DEF n
<1>2. 0 \in T
  <2>1. ASSUME NEW s \in SUBSET D, Cardinality(s) = 0
        PROVE  s = {}
    BY <2>1, SmallerSet
  <2> QED
    BY <2>1
<1>3. ASSUME NEW m \in 1 .. n, m - 1 \in T
      PROVE  m \in T
  <2>1. \A s \in SUBSET D : Cardinality(s) = m - 1 => InAnyOrder(s)
    BY <1>3
  <2>2. ASSUME NEW s \in SUBSET D, Cardinality(s) = m, NEW e \in s
        PROVE  f[s] = W[e] + f[s \ {e}]
    <3> DEFINE c == Chosen(s)
               r == (s \ {c}) \ {e}
    <3>1. c \in s /\ f[s] = W[c] + f[s \ {c}]
      BY <1>5, ChosenIs
    <3> HIDE DEF c
    <3>2. CASE e = c
      BY <3>1, <3>2
    <3>3. CASE e # c
      <4>1. /\ s \ {c} \in SUBSET D /\ Cardinality(s \ {c}) = m - 1
            /\ s \ {e} \in SUBSET D /\ Cardinality(s \ {e}) = m - 1
        BY <2>2, <3>1, SmallerSet
      <4>2. InAnyOrder(s \ {c}) /\ InAnyOrder(s \ {e})
        BY <2>1, <4>1
      <4>3. e \in s \ {c} /\ c \in s \ {e} /\ (s \ {e}) \ {c} = r
        BY <3>1, <3>3
      <4> HIDE DEF r
      <4>4. f[s \ {c}] = W[e] + f[r] /\ f[s \ {e}] = W[c] + f[r]
        BY <4>2, <4>3 DEF r
      <4>5. W[e] \in Int /\ W[c] \in Int /\ f[r] \in Int
        BY <1>5, <3>1 DEF r
      <4> QED
        BY <3>1, <4>4, <4>5
    <3> QED
      BY <3>2, <3>3
  <2> QED
    BY <2>2
<1>4. \A m \in 0 .. n : m \in T
  BY <1>1, <1>2, <1>3, Reached
<1> QED
  BY <1>1, <1>4

LEMMA TheMax ==
  ASSUME NEW E, E \subseteq Int, NEW e \in E, \A d \in E : d <= e
  PROVE  Max(E) = e
<1>1. \A x \in E : (\A y \in E : x >= y) => x = e
  <2> SUFFICES ASSUME NEW x \in E, \A y \in E : x >= y PROVE x = e
    OBVIOUS
  <2>1. x \in Int /\ e \in Int /\ x <= e /\ x >= e
    OBVIOUS
  <2> QED
    BY <2>1
<1>2. \A y \in E : e >= y
  OBVIOUS
<1> DEFINE P(x) == x \in E /\ \A y \in E : x >= y
<1>3. P(e) /\ \A x : P(x) => x = e
  BY <1>1, <1>2
<1>4. Max(E) = CHOOSE x : P(x)
  BY DEF Max
<1> HIDE DEF P
<1> QED
  BY <1>3, <1>4

Powers(p, n) == p = [k \in 0 .. n |-> IF k = 0 THEN 1 ELSE 10 * p[k - 1]]

LEMMA PowersExist ==
  ASSUME NEW n \in Nat
  PROVE  \E p \in [0 .. n -> Int] : Powers(p, n)
<1> DEFINE step == [k \in 1 .. n |-> [v \in Int |-> 10 * v]]
<1>1. step \in [1 .. n -> [Int -> Int]] /\ \A k \in 1 .. n, v \in Int : step[k][v] = 10 * v
  OBVIOUS
<1> HIDE DEF step
<1>2. PICK p : Iterates(p, n, Int, 1, step)
  BY <1>1, Iterated, 1 \in Int
<1>3. p \in [0 .. n -> Int] /\ p[0] = 1 /\ \A k \in 1 .. n : p[k] = 10 * p[k - 1]
  BY <1>1, <1>2 DEF Iterates
<1>4. p = [k \in 0 .. n |-> IF k = 0 THEN 1 ELSE 10 * p[k - 1]]
  BY <1>3
<1> QED
  BY <1>3, <1>4 DEF Powers

(* The value of digits is a sum of powers of ten. *)
Weighs(s, a, b, p, f, W) ==
  /\ p[0] = 1 /\ \A k \in 0 .. Len(s) : p[k] \in Int
  /\ \A k \in 1 .. Len(s) : p[k] = 10 * p[k - 1]
  /\ W \in [a .. b -> Int] /\ \A i \in a .. b : W[i] = DigitValue[s[i]] * p[b - i]
  /\ Adds(f, W, a .. b)
  /\ Value(s, a .. b) = f[a .. b]

LEMMA ValueUnfolds ==
  ASSUME NEW S, NEW s \in Seq(S), NEW a \in 1 .. Len(s) + 1, NEW b \in a - 1 .. Len(s),
         \A i \in a .. b : s[i] \in Digits
  PROVE  \E p, f, W : Weighs(s, a, b, p, f, W)
<1> DEFINE n == Len(s)
           D == a .. b
           p == CHOOSE p : Powers(p, n)
           W == [i \in D |-> DigitValue[s[i]] * p[b - i]]
           f == CHOOSE f : Adds(f, W, D)
<1>1. n \in Nat /\ IsFiniteSet(D)
  BY FS_Interval
<1>2. Powers(p, n)
  BY <1>1, PowersExist
<1>3. /\ p[0] = 1 /\ \A k \in 0 .. n : p[k] \in Int
      /\ \A k \in 1 .. n : p[k] = 10 * p[k - 1]
  <2> HIDE DEF p, n
  <2> DEFINE q == [k \in 0 .. n |-> IF k = 0 THEN 1 ELSE 10 * p[k - 1]]
  <2>1. p = q
    BY <1>2 DEF Powers
  <2>2. q[0] = 1 /\ \A k \in 1 .. n : q[k] = 10 * p[k - 1]
    BY <1>1
  <2> HIDE DEF q
  <2>3. p[0] = 1 /\ \A k \in 1 .. n : p[k] = 10 * p[k - 1]
    BY <2>1, <2>2
  <2> DEFINE T == {k \in 0 .. n : p[k] \in Int}
  <2>4. 0 \in T
    BY <1>1, <2>3
  <2>5. ASSUME NEW k \in 1 .. n, k - 1 \in T
        PROVE  k \in T
    BY <2>3, <2>5
  <2>6. \A k \in 0 .. n : k \in T
    BY <1>1, <2>4, <2>5, Reached
  <2> QED
    BY <2>3, <2>6
<1> HIDE DEF p
<1>4. W \in [D -> Int] /\ \A i \in D : W[i] = DigitValue[s[i]] * p[b - i]
  <2>1. \A i \in D : DigitValue[s[i]] \in Int /\ p[b - i] \in Int
    <3> SUFFICES ASSUME NEW i \in D PROVE DigitValue[s[i]] \in Int /\ p[b - i] \in Int
      OBVIOUS
    <3>1. DigitValue[s[i]] \in 0 .. 9
      BY DigitIs
    <3>2. b - i \in 0 .. n
      BY <1>1
    <3>3. p[b - i] \in Int
      BY <1>3, <3>2
    <3>4. DigitValue[s[i]] \in Int
      BY <3>1
    <3> QED
      BY <3>3, <3>4
  <2>2. \A i \in D : DigitValue[s[i]] * p[b - i] \in Int
    BY <2>1
  <2> QED
    BY <2>2
<1> HIDE DEF W
<1>5. Adds(f, W, D)
  BY <1>1, <1>4, AddsExists
<1>6. Value(s, D) = f[D]
  <2> DEFINE Add(g) == g = [x \in SUBSET D |-> IF x = {} THEN 0
                           ELSE LET c == CHOOSE c \in x : TRUE
                                IN  DigitValue[s[c]] * p[Max(D) - c] + g[x \ {c}]]
  <2>1. Value(s, D) = (CHOOSE g : Add(g))[D]
    BY DEF Value, MapThenSumSet, MapThenFoldSet, Powers, p, n
  <2>2. \A g : Add(g) <=> Adds(g, W, D)
    <3>1. ASSUME NEW x \in SUBSET D, x # {}
          PROVE  W[Chosen(x)] = DigitValue[s[Chosen(x)]] * p[Max(D) - Chosen(x)]
      <4>1. Chosen(x) \in D
        BY <3>1, ChosenIs
      <4>2. b \in D /\ D \subseteq Int /\ \A d \in D : d <= b
        BY <1>1, <4>1
      <4>3. Max(D) = b
        BY <4>2, TheMax
      <4> QED
        BY <1>4, <4>1, <4>3
    <3>2. ASSUME NEW g
          PROVE  [x \in SUBSET D |-> IF x = {} THEN 0
                    ELSE LET c == CHOOSE c \in x : TRUE
                         IN  DigitValue[s[c]] * p[Max(D) - c] + g[x \ {c}]]
                 = [x \in SUBSET D |-> IF x = {} THEN 0 ELSE W[Chosen(x)] + g[x \ {Chosen(x)}]]
      <4> HIDE DEF D
      <4>1. \A x \in SUBSET D :
              (IF x = {} THEN 0 ELSE LET c == CHOOSE c \in x : TRUE
                                     IN  DigitValue[s[c]] * p[Max(D) - c] + g[x \ {c}])
              = IF x = {} THEN 0 ELSE W[Chosen(x)] + g[x \ {Chosen(x)}]
        BY <3>1 DEF Chosen
      <4> QED
        BY <4>1
    <3> QED
      BY <3>2 DEF Adds
  <2> HIDE DEF Add
  <2> QED
    BY <2>1, <2>2
<1> HIDE DEF f, D
<1>7. Weighs(s, a, b, p, f, W)
  BY <1>3, <1>4, <1>5, <1>6 DEF Weighs, D, n
<1> QED
  BY <1>7

LEMMA ReckonsUnfolds ==
  ASSUME NEW d \in Seq(Digits), NEW h
  PROVE  /\ Reckons(h, d) => /\ h[0] = 0
                             /\ \A k \in 1 .. Len(d) : h[k] = 10 * h[k - 1] + DigitValue[d[k]]
         /\ ReckonsShort(h, d) => /\ h[0] = 0
                                  /\ \A k \in 1 .. Len(d) :
                                       h[k] = Short(10 * h[k - 1] + DigitValue[d[k]])
<1> DEFINE n == Len(d)
           g == [k \in 0 .. n |-> IF k = 0 THEN 0 ELSE 10 * h[k - 1] + DigitValue[d[k]]]
           r == [k \in 0 .. n |-> IF k = 0 THEN 0 ELSE Short(10 * h[k - 1] + DigitValue[d[k]])]
<1>1. n \in Nat
  OBVIOUS
<1> HIDE DEF n
<1>2. g[0] = 0 /\ \A k \in 1 .. n : g[k] = 10 * h[k - 1] + DigitValue[d[k]]
  BY <1>1
<1>3. r[0] = 0 /\ \A k \in 1 .. n : r[k] = Short(10 * h[k - 1] + DigitValue[d[k]])
  BY <1>1
<1>4. (Reckons(h, d) => h = g) /\ (ReckonsShort(h, d) => h = r)
  BY DEF Reckons, ReckonsShort, n
<1> HIDE DEF g, r
<1> QED
  BY <1>2, <1>3, <1>4 DEF n

(* Reading digit by digit gives their value, and as a short that value     *)
(* but for multiples of what a short can hold.                             *)
LEMMA DigitsRead ==
  ASSUME NEW S, NEW s \in Seq(S), NEW a \in 1 .. Len(s) + 1, NEW b \in a - 1 .. Len(s),
         \A i \in a .. b : s[i] \in Digits
  PROVE  /\ Value(s, a .. b) \in Int
         /\ Number(SubSeq(s, a, b), LAMBDA n : n) = Value(s, a .. b)
         /\ Number(SubSeq(s, a, b), Short) \in -(ShortMax + 1) .. ShortMax
         /\ \E q \in Int : Number(SubSeq(s, a, b), Short)
                           = Value(s, a .. b) + q * (2 * (ShortMax + 1))
<1> DEFINE d == SubSeq(s, a, b)
           n == (b - a) + 1
           m == 2 * (ShortMax + 1)
<1>1. /\ d \in Seq(Digits) /\ Len(d) = n /\ n \in 0 .. Len(s) /\ Len(s) \in Nat
      /\ \A k \in 1 .. n : d[k] = s[(a - 1) + k]
  <2>1. /\ d \in Seq(S) /\ Len(d) = n /\ n \in 0 .. Len(s) /\ Len(s) \in Nat
        /\ \A k \in 1 .. n : d[k] = s[(a - 1) + k]
    OBVIOUS
  <2> HIDE DEF d
  <2>2. \A k \in 1 .. n : d[k] \in Digits
    BY <2>1, SMTT(30)
  <2>3. d \in Seq(Digits)
    BY <2>1, <2>2
  <2> QED
    BY <2>1, <2>3
<1> HIDE DEF d
<1>2. PICK p, f, W : Weighs(s, a, b, p, f, W)
  BY ValueUnfolds
<1>3. PICK h : Number(d, LAMBDA x : x) = h[n] /\ Reckons(h, d)
  BY <1>1, NumberUnfolds
<1>4. PICK g : Number(d, Short) = g[n] /\ ReckonsShort(g, d)
  BY <1>1, NumberUnfolds
<1>5. /\ h[0] = 0 /\ \A k \in 1 .. n : h[k] = 10 * h[k - 1] + DigitValue[d[k]]
      /\ g[0] = 0 /\ \A k \in 1 .. n : g[k] = Short(10 * g[k - 1] + DigitValue[d[k]])
  <2>1. d \in Seq(Digits) /\ Len(d) = n
    BY <1>1
  <2>2. h[0] = 0 /\ \A k \in 1 .. Len(d) : h[k] = 10 * h[k - 1] + DigitValue[d[k]]
    BY <2>1, <1>3, ReckonsUnfolds
  <2>3. g[0] = 0 /\ \A k \in 1 .. Len(d) : g[k] = Short(10 * g[k - 1] + DigitValue[d[k]])
    BY <2>1, <1>4, ReckonsUnfolds
  <2> HIDE DEF n
  <2> QED
    BY <2>1, <2>2, <2>3
<1>6. \A k \in 1 .. n : DigitValue[d[k]] \in Int
  <2> SUFFICES ASSUME NEW k \in 1 .. n PROVE DigitValue[d[k]] \in Int
    OBVIOUS
  <2>1. d[k] \in Digits
    BY <1>1
  <2>2. DigitValue[d[k]] \in 0 .. 9
    BY <2>1, DigitIs
  <2> QED
    BY <2>2
<1>7. /\ IsFiniteSet(a .. b)
      /\ \A x \in SUBSET (a .. b) : \A e \in x : f[x] = W[e] + f[x \ {e}]
      /\ f[{}] = 0
  <2>1. IsFiniteSet(a .. b) /\ W \in [a .. b -> Int] /\ Adds(f, W, a .. b)
    BY <1>2, FS_Interval DEF Weighs
  <2> DEFINE D == a .. b
  <2>5. IsFiniteSet(D) /\ W \in [D -> Int] /\ Adds(f, W, D)
    BY <2>1
  <2> HIDE DEF D
  <2>6. ASSUME NEW x \in SUBSET D, NEW e \in x
        PROVE  f[x] = W[e] + f[x \ {e}]
    BY <2>5, SumInAnyOrder
  <2>2. \A x \in SUBSET (a .. b) : \A e \in x : f[x] = W[e] + f[x \ {e}]
    BY <2>6 DEF D
  <2>3. {} \in SUBSET (a .. b)
    OBVIOUS
  <2>4. f[{}] = 0
    BY <2>1, <2>3, AddsUnfolds
  <2> QED
    BY <2>1, <2>2, <2>4
<1>8. /\ p[0] = 1 /\ \A k \in 0 .. Len(s) : p[k] \in Int
      /\ \A k \in 1 .. Len(s) : p[k] = 10 * p[k - 1]
      /\ \A i \in a .. b : W[i] = DigitValue[s[i]] * p[b - i]
      /\ Value(s, a .. b) = f[a .. b]
  BY <1>2 DEF Weighs
<1> DEFINE T == {k \in 0 .. n : h[k] \in Int /\ f[a .. (a + k) - 1] = h[k] * p[n - k]}
<1>9. \A k \in 0 .. n : k \in T
  <2>1. 0 \in T
    <3>1. a .. (a + 0) - 1 = {} /\ n - 0 \in 0 .. Len(s)
      BY <1>1
    <3>2. p[n - 0] \in Int
      BY <1>8, <3>1
    <3>3. 0 * p[n - 0] = 0
      BY <3>2
    <3> QED
      BY <1>1, <1>5, <1>7, <3>1, <3>3
  <2>2. ASSUME NEW k \in 1 .. n, k - 1 \in T
        PROVE  k \in T
    <3> DEFINE e == (a + k) - 1
               x == a .. e
               v == DigitValue[d[k]]
               t == p[n - k]
    <3>0. a \in Int /\ b \in Int /\ k \in 1 .. (b - a) + 1
      BY <1>1
    <3>1. e \in a .. b /\ e \in x /\ x \in SUBSET (a .. b) /\ x \ {e} = a .. (a + (k - 1)) - 1
      BY <3>0
    <3>2. b - e = n - k /\ n - k \in 0 .. Len(s) /\ n - (k - 1) \in 1 .. Len(s)
          /\ (n - (k - 1)) - 1 = n - k /\ e = (a - 1) + k
      BY <1>1
    <3>3. W[e] = v * t /\ v \in Int /\ t \in Int
      <4>1. W[e] = DigitValue[s[e]] * p[b - e]
        BY <1>8, <3>1
      <4>2. d[k] = s[(a - 1) + k] /\ v \in Int
        BY <1>1, <1>6
      <4>3. t \in Int
        BY <1>8, <3>2
      <4>4. d[k] = s[e] /\ p[b - e] = t
        BY <3>2, <4>2
      <4> QED
        BY <4>1, <4>2, <4>3, <4>4
    <3>4. p[n - (k - 1)] = 10 * t
      BY <1>8, <3>2
    <3>5. h[k - 1] \in Int /\ f[x \ {e}] = h[k - 1] * (10 * t) /\ h[k] = 10 * h[k - 1] + v
      BY <1>5, <2>2, <3>1, <3>4
    <3>6. f[x] = W[e] + f[x \ {e}]
      BY <1>7, <3>1
    <3> HIDE DEF e, x, v, t
    <3>7. h[k] \in Int /\ v * t + h[k - 1] * (10 * t) = h[k] * t
      <4> DEFINE y == h[k - 1]
      <4>1. y \in Int /\ v \in Int /\ t \in Int /\ h[k] = 10 * y + v
        BY <3>3, <3>5
      <4> HIDE DEF y
      <4>2. v * t + y * (10 * t) = (10 * y + v) * t
        BY <4>1
      <4>3. 10 * y + v \in Int
        BY <4>1
      <4> QED
        BY <4>1, <4>2, <4>3 DEF y
    <3>8. f[x] = h[k] * t
      BY <3>3, <3>5, <3>6, <3>7
    <3>9. h[k] \in Int /\ f[a .. (a + k) - 1] = h[k] * p[n - k]
      BY <3>7, <3>8 DEF e, x, t
    <3>10. k \in 0 .. n
      BY <1>1
    <3> QED
      BY <3>9, <3>10
  <2>3. n \in Nat
    BY <1>1
  <2> HIDE DEF T, n
  <2> QED
    BY <2>1, <2>2, <2>3, Reached
<1>10. h[n] \in Int /\ f[a .. b] = h[n]
  <2>1. (a + n) - 1 = b /\ n - n = 0
    OBVIOUS
  <2>3. n \in T
    BY <1>1, <1>9
  <2>2. h[n] \in Int /\ f[a .. b] = h[n] * p[0]
    BY <2>1, <2>3
  <2>4. h[n] * 1 = h[n]
    BY <2>2
  <2> QED
    BY <1>8, <2>2, <2>4
<1>11. \A k \in 0 .. n : h[k] \in Int
  BY <1>9
<1> HIDE DEF T
<1> DEFINE R == {k \in 0 .. n : /\ g[k] \in -(ShortMax + 1) .. ShortMax
                                /\ \E q \in Int : g[k] = h[k] + q * m}
<1>12. m \in Int
  BY ShortAssumption
<1>13. \A k \in 0 .. n : k \in R
  <2>1. 0 \in R
    <3>1. 0 = 0 + 0 * m /\ 0 \in Int /\ 0 \in -(ShortMax + 1) .. ShortMax
      BY <1>12, ShortAssumption
    <3> HIDE DEF m
    <3> QED
      BY <1>1, <1>5, <3>1
  <2>2. ASSUME NEW k \in 1 .. n, k - 1 \in R
        PROVE  k \in R
    <3> DEFINE v == DigitValue[d[k]]
               w == 10 * g[k - 1] + v
    <3>1. v \in Int /\ h[k] = 10 * h[k - 1] + v /\ g[k] = Short(w) /\ h[k - 1] \in Int
      BY <1>5, <1>6, <1>11
    <3>2. PICK q \in Int : g[k - 1] = h[k - 1] + q * m
      BY <2>2
    <3>3. w \in Int
      <4>1. g[k - 1] \in -(ShortMax + 1) .. ShortMax
        BY <2>2
      <4>2. g[k - 1] \in Int
        BY <4>1, ShortAssumption
      <4> HIDE DEF v
      <4> QED
        BY <3>1, <4>2
    <3> HIDE DEF v
    <3>4. PICK r \in Int : Short(w) = w + r * m
      BY <3>3, ShortIs
    <3>5. Short(w) \in -(ShortMax + 1) .. ShortMax
      BY <3>3, ShortIs
    <3> HIDE DEF m
    <3>6. w + r * m = h[k] + (10 * q + r) * m
      <4>1. q * m \in Int /\ r * m \in Int /\ (10 * q + r) * m = 10 * (q * m) + r * m
        BY <1>12, <3>2, <3>4
      <4> DEFINE qm == q * m
                 rm == r * m
                 sum == (10 * q + r) * m
                 before == g[k - 1]
                 exact == h[k - 1]
                 now == h[k]
      <4>2. /\ qm \in Int /\ rm \in Int /\ sum = 10 * qm + rm /\ w = 10 * before + v
            /\ before = exact + qm /\ now = 10 * exact + v /\ v \in Int /\ exact \in Int
        BY <3>1, <3>2, <4>1
      <4> HIDE DEF w, qm, rm, sum, before, exact, now
      <4>3. w + rm = now + sum
        BY <4>2
      <4> QED
        BY <4>3 DEF rm, sum, now
    <3>7. 10 * q + r \in Int
      BY <3>2, <3>4
    <3> HIDE DEF w
    <3> QED
      BY <3>1, <3>4, <3>5, <3>6, <3>7
  <2>3. n \in Nat
    BY <1>1
  <2> HIDE DEF R, n
  <2> QED
    BY <2>1, <2>2, <2>3, Reached
<1> HIDE DEF m
<1>14. n \in R
  BY <1>1, <1>13
<1> QED
  BY <1>3, <1>4, <1>8, <1>10, <1>14 DEF d, m

LEMMA SmallMultiple ==
  ASSUME NEW m \in Nat \ {0}, NEW z \in Int, m * z < m, -m < m * z
  PROVE  z = 0
<1>1. CASE z >= 1
  <2>1. z - 1 \in Nat /\ m * (z - 1) \in Nat /\ m * z = m * (z - 1) + m
    BY <1>1
  <2> QED
    BY <2>1
<1>2. CASE z <= -1
  <2>1. -(z + 1) \in Nat
    BY <1>2
  <2>2. m * (-(z + 1)) \in Nat
    BY <2>1
  <2>3. m * (-(z + 1)) = -(m * z) - m /\ m * z \in Int
    OBVIOUS
  <2> QED
    BY <2>2, <2>3
<1> QED
  BY <1>1, <1>2

(* A short is chosen by what it is modulo the number of shorts. *)
LEMMA ShortChosen ==
  ASSUME NEW v \in Int, NEW x \in -(ShortMax + 1) .. ShortMax, NEW q \in Int,
         x = v + q * (2 * (ShortMax + 1))
  PROVE  (CHOOSE n \in -(ShortMax + 1) .. ShortMax : (v - n) % (2 * (ShortMax + 1)) = 0) = x
<1> DEFINE m == 2 * (ShortMax + 1)
           R == -(ShortMax + 1) .. ShortMax
<1>1. /\ m \in Nat \ {0} /\ R \subseteq Int /\ x \in R /\ v - x = m * (-q) /\ -q \in Int
      /\ \A y, z \in R : y - z < m /\ -m < y - z
  BY ShortAssumption
<1>2. ASSUME NEW y \in R
      PROVE  ((v - y) % m = 0) <=> y = x
  <2> HIDE DEF m, R
  <2> DEFINE a == v - y
             k == a \div m
             r == a % m
  <2>4. a \in Int /\ y \in Int /\ x \in Int
    BY <1>1
  <2> HIDE DEF a
  <2>5. r \in 0 .. m - 1 /\ k \in Int /\ a = m * k + r
    BY <1>1, <2>4, Divided
  <2>1. a \in Int /\ r \in 0 .. m - 1 /\ k \in Int /\ a = m * k + r /\ y \in Int /\ x \in Int
    BY <2>4, <2>5
  <2>2. ASSUME r = 0
        PROVE  y = x
    <3>1. y - x = m * ((-q) - k)
      <4> HIDE DEF k, r
      <4>1. m * ((-q) - k) = m * (-q) - m * k /\ m * k \in Int /\ m * (-q) \in Int
        BY <1>1, <2>1
      <4> QED
        BY <1>1, <2>1, <2>2, <4>1 DEF a
    <3>2. (-q) - k \in Int /\ y - x < m /\ -m < y - x
      BY <1>1, <2>1
    <3> DEFINE z == (-q) - k
    <3> HIDE DEF z, a, k, r
    <3>3. z = 0
      BY <1>1, <3>1, <3>2, SmallMultiple DEF z
    <3> QED
      BY <1>1, <2>1, <3>1, <3>3 DEF z
  <2>3. ASSUME y = x
        PROVE  r = 0
    <3>1. r = m * ((-q) - k)
      <4> HIDE DEF k, r
      <4>2. a = m * (-q)
        BY <1>1, <2>1, <2>3 DEF a
      <4>1. m * ((-q) - k) = m * (-q) - m * k /\ m * k \in Int /\ m * (-q) \in Int /\ a = m * (-q)
        BY <1>1, <2>1, <4>2
      <4> QED
        BY <1>1, <2>1, <4>1
    <3> DEFINE z == (-q) - k
    <3>2. z \in Int
      BY <1>1, <2>1
    <3> HIDE DEF z, a, k, r
    <3>3. r = m * z
      BY <3>1 DEF z
    <3>4. z = 0
      BY <1>1, <2>1, <3>2, <3>3, SmallMultiple
    <3> QED
      BY <1>1, <3>3, <3>4
  <2> QED
    BY <2>2, <2>3 DEF r, a
<1> HIDE DEF R
<1>3. (CHOOSE n \in R : (v - n) % m = 0) = x
  <2> HIDE DEF m
  <2> DEFINE P(n) == n \in R /\ (v - n) % m = 0
  <2>1. P(x) /\ \A y : P(y) => y = x
    BY <1>1, <1>2
  <2> HIDE DEF P
  <2>2. (CHOOSE y : P(y)) = x
    BY <2>1
  <2> QED
    BY <2>2 DEF P
<1> QED
  BY <1>3 DEF R

(* The first index of J, or the one behind them all. *)
FirstIn(e, i, n, J) ==
  /\ e \in i .. n + 1 /\ (e <= n => e \in J)
  /\ \A j \in i .. n : j < e => j \notin J

LEMMA SkipsTo ==
  ASSUME NEW n \in Nat, NEW i \in Nat, i <= n + 1, NEW J, J \subseteq i .. n
  PROVE  FirstIn(Min(J \union {n + 1}), i, n, J)
<1> DEFINE e == Min(J \union {n + 1})
<1> DEFINE E == J \union {n + 1}
<1>1. E \subseteq Nat /\ E # {}
  OBVIOUS
<1>2. PICK x \in E : \A y \in E : x <= y
  BY <1>1, Least
<1> HIDE DEF E, e
<1>3. e = x
  BY <1>1, <1>2, TheMin DEF E, e
<1>4. x \in i .. n + 1 /\ (x <= n => x \in J)
  BY <1>2 DEF E
<1>5. \A j \in i .. n : j < x => j \notin E
  BY <1>2, <1>4
<1> QED
  BY <1>3, <1>4, <1>5 DEF E, e, FirstIn

(* The digits from i on. *)
LEMMA DigitsEnd ==
  ASSUME NEW S, NEW s \in Seq(S), NEW i \in 1 .. Len(s) + 1, NEW e \in i .. Len(s) + 1,
         e <= Len(s) => s[e] \notin Digits, \A j \in i .. Len(s) : j < e => s[j] \in Digits
  PROVE  DigitsFrom(s, i) = i .. e - 1 /\ \A j \in i .. e - 1 : s[j] \in Digits
<1>1. Len(s) \in Nat /\ i \in Nat /\ e \in Nat
  OBVIOUS
<1>2. ASSUME NEW j \in i .. e - 1
      PROVE  s[j] \in Digits /\ j \in DigitsFrom(s, i)
  BY <1>1 DEF DigitsFrom, IsDigit
<1>3. ASSUME NEW j \in DigitsFrom(s, i)
      PROVE  j \in i .. e - 1
  <2>1. j \in i .. Len(s) /\ \A k \in i .. j : s[k] \in Digits
    BY DEF DigitsFrom, IsDigit
  <2> QED
    BY <1>1, <2>1
<1> QED
  BY <1>2, <1>3

LEMMA StatusScanned ==
  ASSUME NEW S, NEW s \in Seq(S)
  PROVE  HTTPParseStatusCode(s) = StatusCode(s)
<1> DEFINE n == Len(s)
           space == Skip(s, 1, LAMBDA c : c # "SP")
           first == Skip(s, space, LAMBDA c : c = "SP")
           last == Skip(s, first, IsDigit)
           D == UNION {DigitsFrom(s, i) : i \in AfterSpaces(s)}
<1>0. n \in Nat
  OBVIOUS
<1>1. /\ space \in 1 .. n + 1 /\ (space <= n => s[space] = "SP")
      /\ \A j \in 1 .. n : j < space => s[j] # "SP"
  <2> DEFINE J == {j \in 1 .. n : ~(s[j] # "SP")}
  <2>1. space = Min(J \union {n + 1}) /\ J \subseteq 1 .. n
    BY DEF Skip
  <2>3. 1 \in Nat /\ 1 <= n + 1
    BY <1>0
  <2> HIDE DEF space, J, n
  <2>2. FirstIn(space, 1, n, J)
    BY <1>0, <2>1, <2>3, SkipsTo
  <2> QED
    BY <2>2 DEF J, FirstIn
<1> HIDE DEF space
<1>2. /\ first \in space .. n + 1 /\ (first <= n => s[first] # "SP")
      /\ \A j \in space .. n : j < first => s[j] = "SP"
  <2> DEFINE J == {j \in space .. n : ~(s[j] = "SP")}
  <2>1. first = Min(J \union {n + 1}) /\ J \subseteq space .. n
    BY DEF Skip
  <2>3. space \in Nat /\ space <= n + 1
    BY <1>0, <1>1
  <2> HIDE DEF first, J, n
  <2>2. FirstIn(first, space, n, J)
    BY <1>0, <2>1, <2>3, SkipsTo
  <2> QED
    BY <2>2 DEF J, FirstIn
<1> HIDE DEF first
<1>3. /\ last \in first .. n + 1 /\ (last <= n => s[last] \notin Digits)
      /\ \A j \in first .. n : j < last => s[j] \in Digits
  <2> DEFINE J == {j \in first .. n : ~(s[j] \in Digits)}
  <2>1. last = Min(J \union {n + 1}) /\ J \subseteq first .. n
    BY DEF Skip, IsDigit
  <2>3. first \in Nat /\ first <= n + 1
    BY <1>0, <1>1, <1>2
  <2> HIDE DEF last, J, n
  <2>2. FirstIn(last, first, n, J)
    BY <1>0, <2>1, <2>3, SkipsTo
  <2> QED
    BY <2>2 DEF J, FirstIn
<1> HIDE DEF last
<1>4. first \in 1 .. n + 1
  BY <1>0, <1>1, <1>2
<1>5. DigitsFrom(s, first) = first .. last - 1 /\ \A j \in first .. last - 1 : s[j] \in Digits
  BY <1>3, <1>4, DigitsEnd
<1>6. \A i \in AfterSpaces(s) : i = first
  <2> SUFFICES ASSUME NEW i \in AfterSpaces(s) PROVE i = first
    OBVIOUS
  <2>1. /\ i \in 2 .. n /\ s[i] # "SP" /\ s[i - 1] = "SP"
        /\ \A j, k \in 1 .. i - 1 : j < k /\ s[j] = "SP" => s[k] = "SP"
    BY DEF AfterSpaces
  <2>2. space <= i - 1 /\ space \in 1 .. i - 1 /\ s[space] = "SP"
    BY <1>0, <1>1, <2>1
  <2>3. ASSUME first < i PROVE FALSE
    <3>1. first # space
      BY <1>0, <1>1, <1>2, <2>1, <2>2, <2>3
    <3>2. first \in 1 .. i - 1 /\ space < first
      BY <1>0, <1>1, <1>2, <2>1, <2>3, <3>1
    <3>3. s[first] = "SP"
      BY <2>1, <2>2, <3>2
    <3> QED
      BY <1>0, <1>2, <2>1, <2>3, <3>3
  <2> QED
    BY <1>0, <1>1, <1>2, <2>1, <2>2, <2>3
<1>7. first <= n => first \in AfterSpaces(s)
  <2> SUFFICES ASSUME first <= n PROVE first \in AfterSpaces(s)
    OBVIOUS
  <2>1. space <= n /\ s[space] = "SP" /\ s[first] # "SP"
    BY <1>0, <1>1, <1>2
  <2>2. first \in 2 .. n /\ s[first - 1] = "SP" /\ space < first
    BY <1>0, <1>1, <1>2, <2>1
  <2>3. ASSUME NEW j \in 1 .. first - 1, NEW k \in 1 .. first - 1, j < k, s[j] = "SP"
        PROVE  s[k] = "SP"
    <3>1. space <= j
      BY <1>0, <1>1, <1>2, <2>3, <2>2
    <3> QED
      BY <1>0, <1>1, <1>2, <2>3, <2>2, <3>1
  <2> QED
    BY <1>0, <2>1, <2>2, <2>3 DEF AfterSpaces
<1>8. D = first .. last - 1
  <2>1. CASE first <= n
    <3>1. AfterSpaces(s) = {first}
      BY <1>6, <1>7, <2>1
    <3> QED
      BY <1>5, <3>1
  <2>2. CASE first > n
    <3>1. AfterSpaces(s) = {}
      <4> SUFFICES ASSUME NEW i \in AfterSpaces(s) PROVE FALSE
        OBVIOUS
      <4>1. i \in 2 .. n /\ i = first
        BY <1>6 DEF AfterSpaces
      <4> QED
        BY <1>0, <2>2, <4>1
    <3>2. first .. last - 1 = {}
      BY <1>0, <1>3, <1>4, <2>2
    <3> QED
      BY <3>1, <3>2
  <2> QED
    BY <1>0, <1>4, <2>1, <2>2
<1> DEFINE x == Number(SubSeq(s, first, last - 1), Short)
           v == Value(s, first .. last - 1)
<1>9. /\ v \in Int /\ x \in -(ShortMax + 1) .. ShortMax
      /\ \E q \in Int : x = v + q * (2 * (ShortMax + 1))
  <2>1. last - 1 \in first - 1 .. n
    BY <1>0, <1>3, <1>4
  <2> QED
    BY <1>4, <1>5, <2>1, DigitsRead
<1>10. HTTPParseStatusCode(s) = x
  BY DEF HTTPParseStatusCode, space, first, last
<1>11. StatusCode(s) = CHOOSE k \in -(ShortMax + 1) .. ShortMax : (v - k) % (2 * (ShortMax + 1)) = 0
  BY <1>8 DEF StatusCode
<1> HIDE DEF x, v
<1> QED
  BY <1>9, <1>10, <1>11, ShortChosen

-----------------------------------------------------------------------------
(* The length of the content: a loop over the lines. *)

LineEnd(s, line)  == Skip(s, line, LAMBDA c : c \notin Breaks)
NextLine(s, line) == Skip(s, LineEnd(s, line), LAMBDA c : c \in Breaks)
LineText(s, line) == SubSeq(s, line, LineEnd(s, line) - 1)
ColonIn(text)     == Skip(text, 1, LAMBDA c : c # ":")
Named(text)       == ColonIn(text) <= Len(text) /\ HeaderNameEquals(SubSeq(text, 1, ColonIn(text) - 1))
ValueIn(text)     ==
  LET value == Skip(text, ColonIn(text) + 1, LAMBDA c : c \in Blanks)
  IN  Number(SubSeq(text, value, Skip(text, value, IsDigit) - 1), LAMBDA n : n)

GoesOn(s, f) ==
  f = [line \in Nat |-> IF line > Len(s) THEN -1
                        ELSE IF Named(LineText(s, line)) THEN ValueIn(LineText(s, line))
                        ELSE f[NextLine(s, line)]]

LEMMA LineEnds ==
  ASSUME NEW S, NEW s \in Seq(S), NEW line \in 0 .. Len(s)
  PROVE  /\ LineEnd(s, line) \in line .. Len(s) + 1 /\ NextLine(s, line) \in line + 1 .. Len(s) + 1
         /\ LineEnd(s, line) <= Len(s) => s[LineEnd(s, line)] \in Breaks
         /\ \A j \in line .. Len(s) : j < LineEnd(s, line) => s[j] \notin Breaks
         /\ NextLine(s, line) >= LineEnd(s, line)
         /\ NextLine(s, line) <= Len(s) => s[NextLine(s, line)] \notin Breaks
         /\ \A j \in LineEnd(s, line) .. Len(s) : j < NextLine(s, line) => s[j] \in Breaks
<1> DEFINE n == Len(s)
           e == LineEnd(s, line)
           x == NextLine(s, line)
           J == {j \in line .. n : ~(s[j] \notin Breaks)}
           K == {j \in e .. n : ~(s[j] \in Breaks)}
<1>1. n \in Nat /\ line \in Nat /\ line <= n
  OBVIOUS
<1>2. e = Min(J \union {n + 1}) /\ x = Min(K \union {n + 1}) /\ J \subseteq line .. n
  BY DEF LineEnd, NextLine, Skip
<1> HIDE DEF n, e, x
<1>3. FirstIn(e, line, n, J)
  <2> HIDE DEF J, K
  <2>1. line <= n + 1
    BY <1>1
  <2> QED
    BY <1>1, <1>2, <2>1, SkipsTo
<1>4. e \in Nat /\ e <= n + 1
  BY <1>1, <1>3 DEF FirstIn
<1>5. FirstIn(x, e, n, K)
  <2>1. K \subseteq e .. n
    OBVIOUS
  <2> HIDE DEF J, K
  <2> QED
    BY <1>1, <1>2, <1>4, <2>1, SkipsTo
<1>6. x # line
  BY <1>1, <1>3, <1>5 DEF FirstIn
<1> QED
  BY <1>1, <1>3, <1>4, <1>5, <1>6 DEF FirstIn, n, e, x

LEMMA GoesOnExists ==
  ASSUME NEW S, NEW s \in Seq(S)
  PROVE  \E f : GoesOn(s, f)
<1> DEFINE n == Len(s)
           body(f, line) == IF line > n THEN -1
                            ELSE IF Named(LineText(s, line)) THEN ValueIn(LineText(s, line))
                            ELSE f[NextLine(s, line)]
           Until(f, d) == f = [line \in Nat |-> f[line]]
                          /\ \A line \in Nat : line + d > n => f[line] = body(f, line)
           T == {d \in 0 .. n + 1 : \E f : Until(f, d)}
<1>1. n \in Nat /\ \A line \in 0 .. n : NextLine(s, line) \in line + 1 .. n + 1
  BY LineEnds
<1> HIDE DEF n
<1>2. 0 \in T
  <2> DEFINE f == [line \in Nat |-> -1]
  <2>1. Until(f, 0)
    BY <1>1
  <2> HIDE DEF f, Until
  <2> QED
    BY <1>1, <2>1
<1>3. ASSUME NEW d \in 1 .. n + 1, d - 1 \in T
      PROVE  d \in T
  <2>1. PICK f : Until(f, d - 1)
    BY <1>3
  <2> DEFINE l == (n + 1) - d
             g == [line \in Nat |-> IF line = l THEN body(f, l) ELSE f[line]]
  <2>2. l \in 0 .. n
    BY <1>1
  <2>3. \A line \in Nat : line # l => g[line] = f[line]
    OBVIOUS
  <2>4. ASSUME NEW line \in Nat, line + d > n
        PROVE  body(f, line) = body(g, line)
    <3>1. line > n \/ (line \in 0 .. n /\ NextLine(s, line) \in Nat /\ NextLine(s, line) # l)
      BY <1>1, <2>4
    <3> HIDE DEF g
    <3> QED
      BY <2>3, <3>1
  <2>5. ASSUME NEW line \in Nat, line + d > n
        PROVE  g[line] = body(f, line)
    <3>1. CASE line = l
      BY <3>1
    <3>2. CASE line # l
      <4>1. line + (d - 1) > n
        BY <1>1, <2>2, <2>5, <3>2
      <4>2. f[line] = body(f, line)
        BY <2>1, <4>1
      <4> HIDE DEF g, body
      <4> QED
        BY <2>3, <3>2, <4>2
    <3> QED
      BY <3>1, <3>2
  <2>6. g = [line \in Nat |-> g[line]]
    OBVIOUS
  <2> HIDE DEF g, body
  <2>7. Until(g, d)
    BY <2>4, <2>5, <2>6
  <2> HIDE DEF Until
  <2> QED
    BY <2>7
<1>4. n + 1 \in T
  <2>1. n + 1 \in Nat /\ n + 1 \in 0 .. n + 1
    BY <1>1
  <2> HIDE DEF T
  <2> QED
    BY <1>2, <1>3, <2>1, Reached
<1>5. PICK f : Until(f, n + 1)
  BY <1>4
<1>6. \A line \in Nat : line + (n + 1) > n
  BY <1>1
<1>7. f = [line \in Nat |-> body(f, line)]
  <2>1. \A line \in Nat : f[line] = body(f, line)
    BY <1>5, <1>6
  <2>2. f = [line \in Nat |-> f[line]]
    BY <1>5
  <2> HIDE DEF body
  <2> QED
    BY <2>1, <2>2
<1>8. GoesOn(s, f)
  BY <1>7 DEF GoesOn, n
<1> QED
  BY <1>8

LEMMA ContentLengthUnfolds ==
  ASSUME NEW S, NEW s \in Seq(S)
  PROVE  \E f : /\ HTTPParseContentLength(s) = f[1]
                /\ \A line \in Nat :
                     f[line] = IF line > Len(s) THEN -1
                               ELSE IF Named(LineText(s, line)) THEN ValueIn(LineText(s, line))
                               ELSE f[NextLine(s, line)]
<1> DEFINE f == CHOOSE f : GoesOn(s, f)
           g == [line \in Nat |-> IF line > Len(s) THEN -1
                                  ELSE IF Named(LineText(s, line)) THEN ValueIn(LineText(s, line))
                                  ELSE f[NextLine(s, line)]]
<1>1. GoesOn(s, f)
  BY GoesOnExists
<1>2. HTTPParseContentLength(s) = f[1]
  BY DEF HTTPParseContentLength, GoesOn, Named, ValueIn, LineText, NextLine, ColonIn, LineEnd
<1> HIDE DEF f
<1>3. f = g
  BY <1>1 DEF GoesOn
<1>4. \A line \in Nat : g[line] = IF line > Len(s) THEN -1
                                  ELSE IF Named(LineText(s, line)) THEN ValueIn(LineText(s, line))
                                  ELSE f[NextLine(s, line)]
  OBVIOUS
<1> HIDE DEF g
<1> QED
  BY <1>2, <1>3, <1>4

(* A line begins at position l, or l is behind the text. *)
BeginsLine(s, l) == l = 1 \/ l > Len(s) \/ s[l - 1] \in Breaks

FieldsFrom(s, l) == {f \in LengthFields(s) : f[1] >= l}

ValueBehind(s, colon) ==
  LET first == {i \in colon + 1 .. Len(s) :
                  IsDigit(s[i]) /\ \A k \in colon + 1 .. i - 1 : s[k] \in Blanks}
  IN  Value(s, UNION {DigitsFrom(s, i) : i \in first})

(* What is found from the line at l on. *)
Content(s, l) ==
  IF FieldsFrom(s, l) = {} THEN -1 ELSE ValueBehind(s, Min({f[2] : f \in FieldsFrom(s, l)}))

ColonOf(s, line) == (line - 1) + ColonIn(LineText(s, line))

(* The text of a line, and its colon. *)
LEMMA LineTextIs ==
  ASSUME NEW S, NEW s \in Seq(S), NEW line \in 1 .. Len(s)
  PROVE  LET t == LineText(s, line)
             c == ColonIn(t)
         IN  /\ t \in Seq(S) /\ Len(t) = LineEnd(s, line) - line /\ Len(t) \in Nat
             /\ \A k \in 1 .. Len(t) : t[k] = s[(line - 1) + k]
             /\ c \in 1 .. Len(t) + 1 /\ (c <= Len(t) => t[c] = ":")
             /\ \A k \in 1 .. Len(t) : k < c => t[k] # ":"
<1> DEFINE t == LineText(s, line)
           c == ColonIn(t)
           e == LineEnd(s, line)
           n == Len(t)
<1>0. Len(s) \in Nat /\ line \in 0 .. Len(s)
  OBVIOUS
<1>1. e \in line .. Len(s) + 1
  BY <1>0, LineEnds
<1>2. t = SubSeq(s, line, e - 1)
  BY DEF LineText
<1> HIDE DEF e
<1>3. t \in Seq(S) /\ Len(t) = e - line /\ \A k \in 1 .. e - line : t[k] = s[(line - 1) + k]
  BY <1>0, <1>1, <1>2
<1> HIDE DEF t
<1> DEFINE J == {k \in 1 .. n : ~(t[k] # ":")}
<1>4. c = Min(J \union {n + 1}) /\ J \subseteq 1 .. n
  BY DEF ColonIn, Skip
<1>5. n \in Nat /\ 1 \in Nat /\ 1 <= n + 1
  BY <1>0, <1>1, <1>3
<1> HIDE DEF n, c, J
<1>6. FirstIn(c, 1, n, J)
  BY <1>4, <1>5, SkipsTo
<1>7. /\ c \in 1 .. n + 1 /\ (c <= n => t[c] = ":")
      /\ \A k \in 1 .. n : k < c => t[k] # ":"
  BY <1>6 DEF FirstIn, J
<1> QED
  BY <1>3, <1>5, <1>7 DEF n, c, t, e

(* The first field from a line on is that line, or on a later one. *)
LEMMA FieldOfLine ==
  ASSUME NEW S, NEW s \in Seq(S), NEW line \in 1 .. Len(s), BeginsLine(s, line)
  PROVE  /\ \A f \in HeaderFields(s) : f[1] >= line =>
              \/ /\ f = <<line, ColonOf(s, line)>>
                 /\ ColonIn(LineText(s, line)) <= Len(LineText(s, line))
              \/ f[1] >= NextLine(s, line)
         /\ ColonIn(LineText(s, line)) <= Len(LineText(s, line)) =>
              <<line, ColonOf(s, line)>> \in HeaderFields(s)
<1> DEFINE t == LineText(s, line)
           c == ColonIn(t)
           e == LineEnd(s, line)
           x == NextLine(s, line)
           n == Len(s)
<1>0. n \in Nat /\ line \in 0 .. n /\ line >= 1 /\ DOMAIN s = 1 .. n /\ ~(line > n)
  OBVIOUS
<1>1. /\ Len(t) = e - line
      /\ \A k \in 1 .. Len(t) : t[k] = s[(line - 1) + k]
      /\ c \in 1 .. Len(t) + 1 /\ (c <= Len(t) => t[c] = ":")
      /\ \A k \in 1 .. Len(t) : k < c => t[k] # ":"
  BY LineTextIs
<1>2. /\ e \in line .. n + 1 /\ x \in line + 1 .. n + 1
      /\ e <= n => s[e] \in Breaks
      /\ \A j \in line .. n : j < e => s[j] \notin Breaks
      /\ x >= e
      /\ \A j \in e .. n : j < x => s[j] \in Breaks
  BY <1>0, LineEnds
<1>3. ColonOf(s, line) = (line - 1) + c
  BY DEF ColonOf
<1>4. ":" \notin Breaks
  BY DEF Breaks
<1>5. line = 1 \/ s[line - 1] \in Breaks
  BY <1>0 DEF BeginsLine
<1> HIDE DEF t, c, e, x, n
<1>6. \A k \in line .. e - 1 : s[k] = t[(k - line) + 1] /\ (k - line) + 1 \in 1 .. Len(t)
  BY <1>0, <1>1, <1>2
<1>7. ASSUME NEW f \in HeaderFields(s), f[1] >= line
      PROVE  \/ f = <<line, (line - 1) + c>> /\ c <= Len(t)
             \/ f[1] >= x
  <2>1. PICK a \in 1 .. n, b \in 1 .. n :
           /\ f = <<a, b>> /\ a <= b /\ s[b] = ":"
           /\ a = 1 \/ s[a - 1] \in Breaks
           /\ \A k \in a .. b - 1 : s[k] \notin Breaks \union {":"}
    <3>1. /\ f \in (1 .. n) \X (1 .. n)
          /\ f[1] <= f[2] /\ s[f[2]] = ":"
          /\ f[1] = 1 \/ s[f[1] - 1] \in Breaks
          /\ \A k \in f[1] .. f[2] - 1 : s[k] \notin Breaks \union {":"}
      BY <1>0 DEF HeaderFields
    <3>2. f = <<f[1], f[2]>> /\ f[1] \in 1 .. n /\ f[2] \in 1 .. n
      BY <3>1
    <3> QED
      BY <3>1, <3>2
  <2>2. f[1] = a /\ a >= line
    BY <1>7, <2>1
  <2>3. CASE a = line
    <3>1. b < e
      <4> SUFFICES ASSUME ~ (b < e) PROVE FALSE
        OBVIOUS
      <4>1. e <= n /\ s[e] \in Breaks /\ (e = b \/ e \in a .. b - 1)
        BY <1>0, <1>2, <2>1, <2>3
      <4> QED
        BY <1>4, <2>1, <4>1
    <3>2. (b - line) + 1 \in 1 .. Len(t) /\ t[(b - line) + 1] = ":"
      <4>1. b \in line .. e - 1
        BY <1>0, <1>2, <2>1, <2>3, <3>1
      <4>2. s[b] = t[(b - line) + 1] /\ (b - line) + 1 \in 1 .. Len(t)
        BY <1>6, <4>1
      <4> QED
        BY <2>1, <4>2
    <3>3. c <= (b - line) + 1 /\ c <= Len(t) /\ t[c] = ":"
      BY <1>0, <1>1, <3>2
    <3>4. s[(line - 1) + c] = ":" /\ (line - 1) + c \in a .. b
      BY <1>0, <1>1, <2>1, <2>3, <3>3
    <3>5. (line - 1) + c = b
      BY <2>1, <3>4
    <3> QED
      BY <2>1, <2>3, <3>3, <3>5
  <2>4. CASE a # line
    <3>1. a - 1 \in line .. n /\ s[a - 1] \in Breaks
      BY <1>0, <2>1, <2>2, <2>4
    <3>2. a > e
      BY <1>2, <3>1
    <3>3. s[a] \notin Breaks
      BY <1>4, <2>1
    <3>4. ~ (a < x)
      BY <1>2, <2>1, <3>2, <3>3
    <3> QED
      BY <1>2, <2>1, <2>2, <3>4
  <2> QED
    BY <2>3, <2>4
<1>8. ASSUME c <= Len(t)
      PROVE  <<line, (line - 1) + c>> \in HeaderFields(s)
  <2> DEFINE b == (line - 1) + c
  <2>1. b \in 1 .. n /\ line \in 1 .. n /\ line <= b /\ s[b] = ":" /\ b < e
    BY <1>0, <1>1, <1>2, <1>8
  <2>2. \A k \in line .. b - 1 : s[k] \notin Breaks \union {":"}
    <3> SUFFICES ASSUME NEW k \in line .. b - 1 PROVE s[k] \notin Breaks /\ s[k] # ":"
      OBVIOUS
    <3>1. k \in line .. n /\ k < e /\ k \in line .. e - 1 /\ (k - line) + 1 < c
      BY <1>0, <1>1, <1>2, <2>1
    <3> QED
      BY <1>1, <1>2, <1>6, <3>1
  <2> HIDE DEF b
  <2> QED
    BY <1>0, <1>5, <2>1, <2>2 DEF HeaderFields, b
<1> QED
  BY <1>3, <1>7, <1>8 DEF t, c, x

FieldAt(s, a, m, field) == Len(field) = m /\ \A k \in 1 .. m : field[k] = s[a + k - 1]
NameAt(s, a, m)         == [k \in 1 .. m |-> Lower(s[a + k - 1])] = Name

LEMMA NameIsEqual ==
  ASSUME NEW S, NEW s \in Seq(S), NEW field \in Seq(S), NEW a \in Nat, NEW m \in Nat,
         FieldAt(s, a, m, field)
  PROVE  HeaderNameEquals(field) <=> NameAt(s, a, m)
<1> DEFINE g == [k \in 1 .. m |-> Lower(s[a + k - 1])]
<1>1. Len(Name) \in Nat /\ DOMAIN Name = 1 .. Len(Name) /\ Name = [k \in 1 .. Len(Name) |-> Name[k]]
  BY NameAssumption
<1>2. DOMAIN field = 1 .. m /\ Len(field) = m /\ \A k \in 1 .. m : field[k] = s[a + k - 1]
  BY DEF FieldAt
<1>3. DOMAIN g = 1 .. m /\ \A k \in 1 .. m : g[k] = Lower(field[k])
  BY <1>2
<1>5. g = [k \in 1 .. m |-> g[k]]
  OBVIOUS
<1> HIDE DEF g
<1>4. ASSUME g = Name PROVE Len(Name) = m
  <2>1. 1 .. m = 1 .. Len(Name)
    BY <1>1, <1>3, <1>4
  <2>2. m \in 1 .. Len(Name) \/ m = 0
    BY <2>1
  <2>3. Len(Name) \in 1 .. m \/ Len(Name) = 0
    BY <1>1, <2>1
  <2> QED
    BY <1>1, <2>2, <2>3
<1>6. ASSUME HeaderNameEquals(field) PROVE g = Name
  <2>1. Len(Name) = m /\ \A k \in 1 .. m : Lower(field[k]) = Name[k]
    BY <1>2, <1>6 DEF HeaderNameEquals
  <2> QED
    BY <1>1, <1>3, <1>5, <2>1
<1>7. ASSUME g = Name PROVE HeaderNameEquals(field)
  <2>1. Len(Name) = m /\ \A k \in 1 .. m : k <= Len(Name) /\ Lower(field[k]) = Name[k]
    BY <1>3, <1>4, <1>7
  <2> QED
    BY <1>2, <2>1 DEF HeaderNameEquals
<1> QED
  BY <1>6, <1>7 DEF g, NameAt

(* The field of a line has the name that is looked for exactly when it is  *)
(* one of the fields that count.                                           *)
LEMMA FieldIsNamed ==
  ASSUME NEW S, NEW s \in Seq(S), NEW line \in 1 .. Len(s), BeginsLine(s, line)
  PROVE  Named(LineText(s, line)) <=>
           /\ ColonIn(LineText(s, line)) <= Len(LineText(s, line))
           /\ <<line, ColonOf(s, line)>> \in LengthFields(s)
<1> DEFINE t == LineText(s, line)
           c == ColonIn(t)
           field == SubSeq(t, 1, c - 1)
           b == (line - 1) + c
<1>1. /\ t \in Seq(S) /\ Len(t) \in Nat
      /\ \A k \in 1 .. Len(t) : t[k] = s[(line - 1) + k]
      /\ c \in 1 .. Len(t) + 1
  BY LineTextIs
<1>2. ColonOf(s, line) = b
  BY DEF ColonOf
<1>3. c <= Len(t) => <<line, b>> \in HeaderFields(s)
  BY <1>2, FieldOfLine
<1> HIDE DEF t, c
<1>4. field \in Seq(S) /\ Len(field) = c - 1 /\ \A k \in 1 .. c - 1 : field[k] = t[k]
  BY <1>1
<1> HIDE DEF field
<1>5. line \in Nat /\ c - 1 \in Nat /\ \A k \in 1 .. c - 1 : field[k] = s[line + k - 1]
  <2>1. \A k \in 1 .. c - 1 : k \in 1 .. Len(t) /\ (line - 1) + k = line + k - 1
    BY <1>1
  <2>2. line \in Nat /\ c - 1 \in Nat
    BY <1>1
  <2> QED
    BY <1>1, <1>4, <2>1, <2>2
<1>6. HeaderNameEquals(field) <=> [k \in 1 .. c - 1 |-> Lower(s[line + k - 1])] = Name
  <2>1. FieldAt(s, line, c - 1, field)
    BY <1>4, <1>5 DEF FieldAt
  <2>2. HeaderNameEquals(field) <=> NameAt(s, line, c - 1)
    BY <1>4, <1>5, <2>1, NameIsEqual
  <2> QED
    BY <2>2 DEF NameAt
<1>7. b - line = c - 1
  BY <1>1
<1>8. <<line, b>>[1] = line /\ <<line, b>>[2] = b
  OBVIOUS
<1> HIDE DEF b
<1>9. c <= Len(t) =>
        (<<line, b>> \in LengthFields(s) <=> [k \in 1 .. c - 1 |-> Lower(s[line + k - 1])] = Name)
  BY <1>3, <1>7, <1>8 DEF LengthFields
<1> QED
  BY <1>2, <1>6, <1>9 DEF Named, t, c, field

LEMMA SkipIs ==
  ASSUME NEW S, NEW s \in Seq(S), NEW i \in 1 .. Len(s) + 1
  PROVE  /\ FirstIn(Skip(s, i, LAMBDA c : c \in Blanks), i, Len(s), {j \in i .. Len(s) : s[j] \notin Blanks})
         /\ FirstIn(Skip(s, i, IsDigit), i, Len(s), {j \in i .. Len(s) : s[j] \notin Digits})
<1> DEFINE n == Len(s)
           J == {j \in i .. n : s[j] \notin Blanks}
           K == {j \in i .. n : s[j] \notin Digits}
           a == Skip(s, i, LAMBDA c : c \in Blanks)
           b == Skip(s, i, IsDigit)
<1>1. n \in Nat /\ i \in Nat /\ i <= n + 1
  OBVIOUS
<1>2. a = Min(J \union {n + 1}) /\ J \subseteq i .. n
  BY DEF Skip
<1>3. b = Min(K \union {n + 1}) /\ K \subseteq i .. n
  BY DEF Skip, IsDigit
<1> HIDE DEF J, K, a, b, n
<1>4. FirstIn(a, i, n, J) /\ FirstIn(b, i, n, K)
  BY <1>1, <1>2, <1>3, SkipsTo
<1> QED
  BY <1>4 DEF a, b, J, K, n

(* The value of a field is read within its line: neither the spaces nor    *)
(* the digits behind the colon go over a line break.                       *)
LEMMA ValueRead ==
  ASSUME NEW S, NEW s \in Seq(S), NEW line \in 1 .. Len(s),
         ColonIn(LineText(s, line)) <= Len(LineText(s, line))
  PROVE  ValueIn(LineText(s, line)) = ValueBehind(s, ColonOf(s, line))
<1> DEFINE t == LineText(s, line)
           c == ColonIn(t)
           e == LineEnd(s, line)
           n == Len(s)
           m == Len(t)
           v == Skip(t, c + 1, LAMBDA x : x \in Blanks)
           d == Skip(t, v, IsDigit)
           b == (line - 1) + c
           V == (line - 1) + v
           D == (line - 1) + d
           first == {i \in b + 1 .. n : IsDigit(s[i]) /\ \A k \in b + 1 .. i - 1 : s[k] \in Blanks}
<1>0. n \in Nat /\ line \in 0 .. n /\ line >= 1 /\ line \in Nat
  OBVIOUS
<1>1. /\ t \in Seq(S) /\ m = e - line /\ m \in Nat
      /\ \A k \in 1 .. m : t[k] = s[(line - 1) + k]
      /\ c \in 1 .. m + 1 /\ c <= m
  BY LineTextIs
<1>2. e \in line .. n + 1 /\ (e <= n => s[e] \in Breaks)
  BY <1>0, LineEnds
<1>3. ColonOf(s, line) = b /\ t = SubSeq(s, line, e - 1)
  BY DEF ColonOf, LineText
<1>4. ValueIn(t) = Number(SubSeq(t, v, d - 1), LAMBDA x : x)
  BY DEF ValueIn
<1> HIDE DEF t, c, e
<1>5. /\ v \in c + 1 .. m + 1 /\ (v <= m => t[v] \notin Blanks)
      /\ \A j \in c + 1 .. m : j < v => t[j] \in Blanks
  <2>1. c + 1 \in 1 .. Len(t) + 1
    BY <1>1
  <2>2. FirstIn(v, c + 1, m, {j \in c + 1 .. m : t[j] \notin Blanks})
    BY <1>1, <2>1, SkipIs
  <2> HIDE DEF v, m
  <2> QED
    BY <2>2 DEF FirstIn
<1> HIDE DEF v
<1>6. /\ d \in v .. m + 1 /\ (d <= m => t[d] \notin Digits)
      /\ \A j \in v .. m : j < d => t[j] \in Digits
  <2>1. v \in 1 .. Len(t) + 1
    BY <1>1, <1>5
  <2>2. FirstIn(d, v, m, {j \in v .. m : t[j] \notin Digits})
    BY <1>1, <2>1, SkipIs
  <2> HIDE DEF d, m
  <2> QED
    BY <2>2 DEF FirstIn
<1> HIDE DEF d, m
<1>7. Blanks \cap Breaks = {} /\ Digits \cap Breaks = {} /\ Blanks \cap Digits = {}
  BY DEF Digits, Breaks, Blanks
<1>8. \A k \in line .. e - 1 : s[k] = t[(k - line) + 1] /\ (k - line) + 1 \in 1 .. m
  BY <1>0, <1>1, <1>2
<1>9. /\ V \in b + 1 .. n + 1 /\ V <= e /\ V > line /\ (V <= n => s[V] \notin Blanks)
      /\ \A j \in b + 1 .. n : j < V => s[j] \in Blanks
  <2>1. V \in b + 1 .. n + 1 /\ V <= e /\ V > line
    BY <1>0, <1>1, <1>2, <1>5
  <2>2. V <= n => s[V] \notin Blanks
    <3>1. CASE V = e
      BY <1>2, <1>7, <3>1
    <3>2. CASE V # e
      <4>1. V \in line .. e - 1 /\ (V - line) + 1 = v /\ v <= m
        BY <1>0, <1>1, <1>2, <1>5, <2>1, <3>2
      <4> QED
        BY <1>5, <1>8, <4>1
    <3> QED
      BY <3>1, <3>2
  <2>3. ASSUME NEW j \in b + 1 .. n, j < V PROVE s[j] \in Blanks
    <3>0. c \in Int /\ v \in Int /\ e \in Int /\ m = e - line /\ c >= 1 /\ line \in Int
      BY <1>0, <1>1, <1>2, <1>5
    <3>1. j \in Int /\ j >= line + c /\ j < e /\ j < (line - 1) + v
      BY <1>0, <2>1, <2>3, <3>0
    <3>2. j \in line .. e - 1
      BY <3>0, <3>1
    <3>3. (j - line) + 1 < v
      BY <3>0, <3>1
    <3>4. (j - line) + 1 \in c + 1 .. m
      BY <3>0, <3>1
    <3> QED
      BY <1>5, <1>8, <3>2, <3>3, <3>4
  <2> QED
    BY <2>1, <2>2, <2>3
<1>10. /\ D \in V .. n + 1 /\ (D <= n => s[D] \notin Digits)
       /\ \A j \in V .. n : j < D => s[j] \in Digits
  <2>1. D \in V .. n + 1 /\ D <= e
    BY <1>0, <1>1, <1>2, <1>5, <1>6
  <2>2. D <= n => s[D] \notin Digits
    <3>1. CASE D = e
      BY <1>2, <1>7, <3>1
    <3>2. CASE D # e
      <4>1. D \in line .. e - 1 /\ (D - line) + 1 = d /\ d <= m
        BY <1>0, <1>1, <1>2, <1>5, <1>6, <2>1, <3>2
      <4> QED
        BY <1>6, <1>8, <4>1
    <3> QED
      BY <3>1, <3>2
  <2>3. ASSUME NEW j \in V .. n, j < D PROVE s[j] \in Digits
    <3>1. j \in line .. e - 1 /\ (j - line) + 1 \in v .. m /\ (j - line) + 1 < d
      BY <1>0, <1>1, <1>2, <1>5, <1>6, <2>1, <2>3
    <3> QED
      BY <1>6, <1>8, <3>1
  <2> QED
    BY <2>1, <2>2, <2>3
<1>11. SubSeq(t, v, d - 1) = SubSeq(s, V, D - 1)
  <2>1. v \in Nat \ {0} /\ d \in Nat /\ V \in Nat \ {0} /\ D \in Nat /\ d >= v /\ D - V = d - v
        /\ d - 1 <= m /\ D - 1 <= n /\ m = Len(t)
    BY <1>0, <1>1, <1>5, <1>6, <1>10, <1>9 DEF m
  <2>2. \A k \in v .. d - 1 : k \in 1 .. m /\ t[k] = s[(line - 1) + k]
    BY <1>1, <1>5, <1>6
  <2>3. \A k \in 1 .. d - v : t[(v + k) - 1] = s[(V + k) - 1]
    <3> SUFFICES ASSUME NEW k \in 1 .. d - v PROVE t[(v + k) - 1] = s[(V + k) - 1]
      OBVIOUS
    <3>1. (v + k) - 1 \in v .. d - 1 /\ (line - 1) + ((v + k) - 1) = (V + k) - 1
      BY <1>0, <2>1
    <3> QED
      BY <2>2, <3>1
  <2> DEFINE x == SubSeq(t, v, d - 1)
             y == SubSeq(s, V, D - 1)
             l == d - v
  <2>4. x \in Seq(S) /\ Len(x) = l /\ \A k \in 1 .. l : x[k] = t[(v + k) - 1]
    <3>1. \A k \in 1 .. l : (v + k) - 1 = v + (k - 1)
      BY <2>1
    <3> QED
      BY <1>1, <2>1, <3>1
  <2>5. y \in Seq(S) /\ Len(y) = l /\ \A k \in 1 .. l : y[k] = s[(V + k) - 1]
    <3> HIDE DEF V, D
    <3>2. (D - 1) - V + 1 = l
      BY <2>1
    <3> HIDE DEF l
    <3>1. \A k \in 1 .. l : (V + k) - 1 = V + (k - 1)
      BY <2>1
    <3> QED
      BY <1>0, <2>1, <3>1, <3>2
  <2> HIDE DEF x, y, l
  <2>6. \A k \in 1 .. l : x[k] = y[k]
    BY <2>3, <2>4, <2>5 DEF l
  <2>7. x = y
    BY <2>4, <2>5, <2>6, SameSequence
  <2> QED
    BY <2>7 DEF x, y
<1> HIDE DEF V, D, b
<1>13. b \in Nat /\ V \in 1 .. n + 1 /\ D \in V .. n + 1 /\ b < V
  <2>1. b \in Nat
    BY <1>0, <1>1 DEF b
  <2> QED
    BY <1>0, <1>9, <1>10, <2>1
<1>14. DigitsFrom(s, V) = V .. D - 1 /\ \A j \in V .. D - 1 : s[j] \in Digits
  BY <1>10, <1>13, DigitsEnd
<1>15. \A i \in first : i = V /\ V <= n /\ s[V] \in Digits
  <2> SUFFICES ASSUME NEW i \in b + 1 .. n, s[i] \in Digits, \A k \in b + 1 .. i - 1 : s[k] \in Blanks
               PROVE  i = V
    BY DEF IsDigit
  <2>1. ~ (i < V)
    BY <1>7, <1>9
  <2>2. ~ (V < i)
    <3> SUFFICES ASSUME V < i PROVE FALSE
      OBVIOUS
    <3>1. V \in b + 1 .. i - 1 /\ V <= n
      BY <1>0, <1>13, <1>9
    <3> QED
      BY <1>9, <3>1
  <2> QED
    BY <1>0, <1>13, <2>1, <2>2
<1>16. V <= n /\ s[V] \in Digits => V \in first
  <2> SUFFICES ASSUME V <= n, s[V] \in Digits PROVE V \in first
    OBVIOUS
  <2>1. V \in b + 1 .. n /\ \A k \in b + 1 .. V - 1 : s[k] \in Blanks
    <3>1. V \in b + 1 .. n /\ \A k \in b + 1 .. V - 1 : k \in b + 1 .. n /\ k < V
      BY <1>0, <1>13, <1>9
    <3> QED
      BY <1>9, <3>1
  <2> QED
    BY <2>1 DEF IsDigit
<1> HIDE DEF first
<1>17. UNION {DigitsFrom(s, i) : i \in first} = V .. D - 1
  <2>1. CASE V <= n /\ s[V] \in Digits
    <3>1. first = {V}
      BY <1>15, <1>16, <2>1
    <3> QED
      BY <1>14, <3>1
  <2>2. CASE ~ (V <= n /\ s[V] \in Digits)
    <3>1. first = {}
      BY <1>15, <2>2
    <3>2. V .. D - 1 = {}
      <4> SUFFICES ASSUME NEW j \in V .. D - 1 PROVE FALSE
        OBVIOUS
      <4>1. V <= n /\ V \in V .. D - 1
        BY <1>0, <1>13
      <4> QED
        BY <1>14, <2>2, <4>1
    <3> QED
      BY <3>1, <3>2
  <2> QED
    BY <2>1, <2>2
<1>18. Number(SubSeq(s, V, D - 1), LAMBDA x : x) = Value(s, V .. D - 1)
  <2>1. V \in 1 .. Len(s) + 1 /\ D - 1 \in V - 1 .. Len(s)
    BY <1>0, <1>13 DEF n
  <2> QED
    BY <1>14, <2>1, DigitsRead
<1>19. ValueBehind(s, b) = Value(s, V .. D - 1)
  BY <1>17 DEF ValueBehind, first, n
<1> QED
  BY <1>3, <1>4, <1>11, <1>18, <1>19 DEF t

(* What the loop finds at a line is there, or behind the line. *)
LEMMA ContentSteps ==
  ASSUME NEW S, NEW s \in Seq(S), NEW line \in Nat \ {0}, BeginsLine(s, line)
  PROVE  /\ Content(s, line) = IF line > Len(s) THEN -1
                               ELSE IF Named(LineText(s, line)) THEN ValueIn(LineText(s, line))
                               ELSE Content(s, NextLine(s, line))
         /\ line <= Len(s) => /\ NextLine(s, line) \in line + 1 .. Len(s) + 1
                              /\ BeginsLine(s, NextLine(s, line))
<1> DEFINE n == Len(s)
           x == NextLine(s, line)
           e == LineEnd(s, line)
           t == LineText(s, line)
           b == ColonOf(s, line)
           own == <<line, b>>
<1>0. n \in Nat /\ DOMAIN s = 1 .. n
  OBVIOUS
<1>1. \A f \in LengthFields(s) : f \in HeaderFields(s) /\ f[1] \in 1 .. n /\ f[2] \in 1 .. n /\ f[1] <= f[2]
  BY <1>0 DEF LengthFields, HeaderFields
<1>2. CASE line > n
  <2>1. FieldsFrom(s, line) = {}
    BY <1>0, <1>1, <1>2 DEF FieldsFrom
  <2>2. Content(s, line) = -1
    BY <2>1 DEF Content
  <2> QED
    BY <1>0, <1>2, <2>2
<1>3. CASE line <= n
  <2>0. line \in 1 .. Len(s) /\ line \in 0 .. Len(s) /\ ~(line > n)
    BY <1>0, <1>3
  <2>1. /\ e \in line .. n + 1 /\ x \in line + 1 .. n + 1 /\ x >= e
        /\ e <= n => s[e] \in Breaks
        /\ x <= n => s[x] \notin Breaks
        /\ \A j \in e .. n : j < x => s[j] \in Breaks
    BY <2>0, LineEnds
  <2>2. BeginsLine(s, x)
    <3>1. CASE x > n
      BY <3>1 DEF BeginsLine
    <3>2. CASE x <= n
      <4>1. x # e
        BY <2>1, <3>2
      <4>2. x - 1 \in e .. n /\ x - 1 < x
        BY <1>0, <2>1, <3>2, <4>1
      <4> QED
        BY <2>1, <4>2 DEF BeginsLine
    <3> QED
      BY <1>0, <2>1, <3>1, <3>2
  <2>3. \A f \in HeaderFields(s) : f[1] >= line =>
          (f = own /\ ColonIn(t) <= Len(t)) \/ f[1] >= x
    BY <2>0, FieldOfLine
  <2>4. Named(t) <=> ColonIn(t) <= Len(t) /\ own \in LengthFields(s)
    BY <2>0, FieldIsNamed
  <2>5. /\ Len(t) = e - line /\ ColonIn(t) \in 1 .. Len(t) + 1
    BY <2>0, LineTextIs
  <2>6. b = (line - 1) + ColonIn(t)
    BY DEF ColonOf
  <2>7. own[1] = line /\ own[2] = b
    OBVIOUS
  <2> HIDE DEF own, b, t, e, x
  <2>8. ASSUME Named(t)
        PROVE  Content(s, line) = ValueIn(t)
    <3> DEFINE E == {f[2] : f \in FieldsFrom(s, line)}
    <3>1. own \in FieldsFrom(s, line)
      BY <2>0, <2>4, <2>7, <2>8 DEF FieldsFrom
    <3>2. b \in E
      BY <2>7, <3>1
    <3>3. b < x
      BY <2>0, <2>1, <2>4, <2>5, <2>6, <2>8
    <3>4. \A y \in E : y \in Nat /\ b <= y
      <4> SUFFICES ASSUME NEW f \in FieldsFrom(s, line) PROVE f[2] \in Nat /\ b <= f[2]
        OBVIOUS
      <4>1. /\ f \in HeaderFields(s) /\ f[1] \in 1 .. n /\ f[2] \in 1 .. n /\ f[1] <= f[2]
            /\ f[1] >= line
        BY <1>1 DEF FieldsFrom
      <4>2. f = own \/ f[1] >= x
        BY <2>3, <4>1
      <4>3. b \in Nat /\ x \in Nat
        BY <1>0, <2>0, <2>1, <2>5, <2>6
      <4> QED
        BY <1>0, <2>7, <3>3, <4>1, <4>2, <4>3
    <3>5. E \subseteq Nat
      BY <3>4
    <3> HIDE DEF E
    <3>6. Min(E) = b
      BY <3>2, <3>4, <3>5, TheMin
    <3>7. Content(s, line) = ValueBehind(s, b)
      BY <3>1, <3>6 DEF Content, E
    <3>8. ValueIn(t) = ValueBehind(s, b)
      BY <2>0, <2>4, <2>8, ValueRead DEF t, b
    <3> QED
      BY <3>7, <3>8
  <2>9. ASSUME ~ Named(t)
        PROVE  Content(s, line) = Content(s, x)
    <3>1. FieldsFrom(s, line) = FieldsFrom(s, x)
      <4>1. ASSUME NEW f \in LengthFields(s)
            PROVE  f[1] >= line <=> f[1] >= x
        <5>1. f[1] >= line => f[1] >= x
          BY <1>1, <2>3, <2>4, <2>9
        <5>2. f[1] \in Nat /\ x \in Nat /\ x >= line
          BY <1>0, <1>1, <2>0, <2>1
        <5> QED
          BY <5>1, <5>2
      <4> QED
        BY <4>1 DEF FieldsFrom
    <3> QED
      BY <3>1 DEF Content
  <2> QED
    BY <2>0, <2>1, <2>2, <2>8, <2>9 DEF t, x
<1> QED
  BY <1>0, <1>2, <1>3

LEMMA LengthScanned ==
  ASSUME NEW S, NEW s \in Seq(S)
  PROVE  HTTPParseContentLength(s) = ContentLength(s)
<1> DEFINE n == Len(s)
<1>0. n \in Nat
  OBVIOUS
<1>1. PICK f : /\ HTTPParseContentLength(s) = f[1]
               /\ \A line \in Nat :
                    f[line] = IF line > Len(s) THEN -1
                              ELSE IF Named(LineText(s, line)) THEN ValueIn(LineText(s, line))
                              ELSE f[NextLine(s, line)]
  BY ContentLengthUnfolds
<1> DEFINE T == {k \in 0 .. n + 1 : \A line \in 1 .. n + 1 :
                   line + k > n /\ BeginsLine(s, line) => f[line] = Content(s, line)}
<1>2. 0 \in T
  <2> SUFFICES ASSUME NEW line \in 1 .. n + 1, line > n, BeginsLine(s, line)
               PROVE  f[line] = Content(s, line)
    BY <1>0
  <2>1. line \in Nat \ {0} /\ line \in Nat /\ line > Len(s)
    BY <1>0
  <2>2. Content(s, line) = -1
    BY <2>1, ContentSteps
  <2> QED
    BY <1>1, <2>1, <2>2
<1>3. ASSUME NEW k \in 1 .. n + 1, k - 1 \in T
      PROVE  k \in T
  <2> SUFFICES ASSUME NEW line \in 1 .. n + 1, line + k > n, BeginsLine(s, line)
               PROVE  f[line] = Content(s, line)
    BY <1>0
  <2> DEFINE x == NextLine(s, line)
  <2>1. line \in Nat \ {0} /\ line \in Nat
    BY <1>0
  <2>2. /\ Content(s, line) = IF line > Len(s) THEN -1
                              ELSE IF Named(LineText(s, line)) THEN ValueIn(LineText(s, line))
                              ELSE Content(s, x)
        /\ line <= Len(s) => x \in line + 1 .. Len(s) + 1 /\ BeginsLine(s, x)
    BY <2>1, ContentSteps
  <2>3. f[line] = IF line > Len(s) THEN -1
                  ELSE IF Named(LineText(s, line)) THEN ValueIn(LineText(s, line))
                  ELSE f[x]
    BY <1>1, <2>1
  <2> HIDE DEF x
  <2>4. line <= Len(s) => f[x] = Content(s, x)
    <3> SUFFICES ASSUME line <= Len(s) PROVE f[x] = Content(s, x)
      OBVIOUS
    <3>1. x \in 1 .. n + 1 /\ x + (k - 1) > n /\ BeginsLine(s, x)
      BY <1>0, <2>1, <2>2
    <3> QED
      BY <1>3, <3>1
  <2>5. line > Len(s) \/ line <= Len(s)
    BY <1>0
  <2> QED
    BY <2>2, <2>3, <2>4, <2>5
<1>4. n \in T
  <2>1. n + 1 \in Nat /\ n \in 0 .. n + 1
    BY <1>0
  <2> HIDE DEF T
  <2> QED
    BY <1>2, <1>3, <2>1, Reached
<1>5. f[1] = Content(s, 1)
  <2>1. 1 \in 1 .. n + 1 /\ 1 + n > n /\ BeginsLine(s, 1)
    BY <1>0 DEF BeginsLine
  <2> QED
    BY <1>4, <2>1
<1>6. FieldsFrom(s, 1) = LengthFields(s)
  BY DEF FieldsFrom, LengthFields, HeaderFields
<1>7. Content(s, 1) = ContentLength(s)
  BY <1>6 DEF Content, ContentLength, ValueBehind
<1> QED
  BY <1>1, <1>5, <1>7

(* The status and the length that are found are those of the text, however *)
(* its lines are broken and whatever fields come before the one that is    *)
(* looked for (http_response.c:25, 55).                                    *)
THEOREM FieldsAreFound == Spec => []FindsFields
<1>1. IInv => FindsFields
  BY StatusScanned, LengthScanned DEF IInv, FindsFields
<1> QED
  BY <1>1, TextInvariance, PTL

-----------------------------------------------------------------------------
(* The parts of a URL are pieces of it.                                    *)

(* The bytes of u behind its first o, l of them. *)
Piece(x, u, o, l, S) ==
  /\ u \in Seq(S) /\ "NUL" \notin S
  /\ o \in Nat /\ l \in Nat /\ o + l <= Len(u)
  /\ x \in Seq(S) /\ Len(x) = l /\ \A k \in 1 .. l : x[k] = u[o + k]

(* The first position in i .. n whose byte is in C, or n + 1. *)
FirstAt(u, e, i, n, C) ==
  /\ e \in i .. n + 1 /\ (e <= n => u[e] \in C)
  /\ \A k \in i .. n : k < e => u[k] \notin C

LEMMA SamePiece ==
  ASSUME NEW u, NEW S, NEW o, NEW l, NEW x, NEW y, Piece(x, u, o, l, S), Piece(y, u, o, l, S)
  PROVE  x = y
<1>1. x \in Seq(S) /\ y \in Seq(S) /\ Len(x) = Len(y) /\ \A j \in 1 .. Len(x) : x[j] = y[j]
  BY DEF Piece
<1> QED
  BY <1>1, SameSequence

LEMMA PartOfPiece ==
  ASSUME NEW u, NEW S, NEW o, NEW l, NEW x, Piece(x, u, o, l, S),
         NEW i \in 1 .. l + 1, NEW j \in i - 1 .. l
  PROVE  Piece(SubSeq(x, i, j), u, o + (i - 1), j - (i - 1), S)
<1> DEFINE y == SubSeq(x, i, j)
           m == j - (i - 1)
<1>1. /\ x \in Seq(S) /\ Len(x) = l /\ o \in Nat /\ l \in Nat /\ o + l <= Len(u) /\ Len(u) \in Nat
      /\ \A k \in 1 .. l : x[k] = u[o + k]
      /\ u \in Seq(S) /\ "NUL" \notin S
  BY DEF Piece
<1>2. y \in Seq(S) /\ Len(y) = m /\ \A k \in 1 .. m : y[k] = x[(i - 1) + k]
  BY <1>1
<1>3. m \in Nat /\ o + (i - 1) \in Nat /\ (o + (i - 1)) + m <= Len(u)
  BY <1>1
<1>4. \A k \in 1 .. m : (i - 1) + k \in 1 .. l /\ o + ((i - 1) + k) = (o + (i - 1)) + k
  BY <1>1
<1> HIDE DEF y, m
<1>5. \A k \in 1 .. m : y[k] = u[(o + (i - 1)) + k]
  BY <1>1, <1>2, <1>4
<1>6. Piece(y, u, o + (i - 1), m, S)
  BY <1>1, <1>2, <1>3, <1>5 DEF Piece
<1> QED
  BY <1>6 DEF y, m

LEMMA FromInPiece ==
  ASSUME NEW u, NEW S, NEW o, NEW l, NEW x, Piece(x, u, o, l, S), NEW C
  PROVE  /\ From(x, 1, C) \in 1 .. l + 1
         /\ FirstAt(u, o + From(x, 1, C), o + 1, o + l, C)
<1> DEFINE a == Append(x, "NUL")
           I == {i \in 1 .. Len(x) + 1 : a[i] \in C \cup {"NUL"}}
           e == From(x, 1, C)
<1>1. /\ x \in Seq(S) /\ Len(x) = l /\ o \in Nat /\ l \in Nat /\ "NUL" \notin S
      /\ \A k \in 1 .. l : x[k] = u[o + k]
  BY DEF Piece
<1>2. (\A k \in 1 .. l : a[k] = x[k] /\ x[k] # "NUL") /\ a[l + 1] = "NUL"
  BY <1>1
<1>3. e = IF I # {} THEN Min(I) ELSE 0
  BY DEF From, SelectInSubSeq
<1> HIDE DEF a, e
<1>4. I \subseteq Nat /\ l + 1 \in I /\ \A i \in I : i <= l + 1
  BY <1>1, <1>2
<1>5. PICK m \in I : \A i \in I : m <= i
  BY <1>4, Least
<1> DEFINE J == I
<1>6. J \subseteq Nat /\ m \in J /\ \A i \in J : m <= i
  BY <1>4, <1>5
<1>7. e = Min(J)
  BY <1>3, <1>4
<1> HIDE DEF J
<1>8. e = m
  BY <1>6, <1>7, TheMin
<1>9. m \in 1 .. l + 1 /\ (m <= l => u[o + m] \in C)
  BY <1>1, <1>2, <1>5
<1>10. ASSUME NEW k \in o + 1 .. o + l, k < o + m
       PROVE  u[k] \notin C
  <2>1. k - o \in 1 .. l /\ k - o < m /\ o + (k - o) = k
    BY <1>1, <1>9, <1>10
  <2>2. k - o \notin I
    BY <1>5, <1>9, <2>1
  <2> QED
    BY <1>1, <1>2, <2>1, <2>2
<1>11. o + m \in o + 1 .. (o + l) + 1 /\ (o + m <= o + l => m <= l)
  BY <1>1, <1>9
<1> QED
  BY <1>8, <1>9, <1>10, <1>11 DEF FirstAt, e

(* Cut and Rest, the piece x being cut at e. *)
LEMMA CutPiece ==
  ASSUME NEW u, NEW S, NEW o, NEW l, NEW x, Piece(x, u, o, l, S), NEW C
  PROVE  LET e == From(x, 1, C) - 1
         IN  /\ e \in 0 .. l
             /\ Piece(Cut(x, C), u, o, e, S) /\ Piece(Rest(x, C), u, o + e, l - e, S)
             /\ FirstAt(u, (o + e) + 1, o + 1, o + l, C)
<1> DEFINE f == From(x, 1, C)
<1>1. f \in 1 .. l + 1 /\ FirstAt(u, o + f, o + 1, o + l, C)
  BY FromInPiece
<1>2. Cut(x, C) = SubSeq(x, 1, f - 1) /\ Rest(x, C) = SubSeq(x, f, Len(x))
  BY DEF Cut, Rest
<1>3. Len(x) = l /\ l \in Nat /\ o \in Nat
  BY DEF Piece
<1> HIDE DEF f
<1>4. f - 1 \in 0 .. l /\ f \in 1 .. l + 1 /\ 1 \in 1 .. l + 1 /\ f - 1 \in 1 - 1 .. l /\ l \in f - 1 .. l
      /\ o + (1 - 1) = o /\ (f - 1) - (1 - 1) = f - 1 /\ o + f = (o + (f - 1)) + 1
  BY <1>1, <1>3
<1>5. Piece(SubSeq(x, 1, f - 1), u, o + (1 - 1), (f - 1) - (1 - 1), S)
  BY <1>4, PartOfPiece
<1>6. Piece(SubSeq(x, f, l), u, o + (f - 1), l - (f - 1), S)
  BY <1>4, PartOfPiece
<1>7. /\ f - 1 \in 0 .. l
      /\ Piece(Cut(x, C), u, o, f - 1, S) /\ Piece(Rest(x, C), u, o + (f - 1), l - (f - 1), S)
      /\ FirstAt(u, (o + (f - 1)) + 1, o + 1, o + l, C)
  BY <1>1, <1>2, <1>3, <1>4, <1>5, <1>6
<1> QED
  BY <1>7, Zenon DEF f

LEMMA TailOfPiece ==
  ASSUME NEW u, NEW S, NEW o, NEW l \in Nat \ {0}, NEW x, Piece(x, u, o, l, S)
  PROVE  Piece(Tail(x), u, o + 1, l - 1, S) /\ x # <<>> /\ Head(x) = u[o + 1] /\ x[1] = u[o + 1]
         /\ Tail(x) = SubSeq(x, 2, Len(x))
<1>1. x \in Seq(S) /\ Len(x) = l /\ o \in Nat /\ x[1] = u[o + 1]
  BY DEF Piece
<1>2. Tail(x) = SubSeq(x, 2, Len(x))
  BY <1>1
<1>3. 2 \in 1 .. l + 1 /\ l \in 2 - 1 .. l /\ o + (2 - 1) = o + 1 /\ l - (2 - 1) = l - 1
  BY <1>1
<1>4. Piece(SubSeq(x, 2, l), u, o + (2 - 1), l - (2 - 1), S)
  BY <1>3, PartOfPiece
<1>5. x # <<>> /\ Head(x) = x[1]
  BY <1>1
<1>6. Piece(SubSeq(x, 2, l), u, o + 1, l - 1, S)
  BY <1>3, <1>4
<1> QED
  BY <1>1, <1>2, <1>5, <1>6

LEMMA EmptyPiece ==
  ASSUME NEW u, NEW S, NEW o, NEW l, NEW x, Piece(x, u, o, l, S)
  PROVE  x = <<>> <=> l = 0
BY DEF Piece

LEMMA FirstOfPiece ==
  ASSUME NEW u, NEW S, NEW o, NEW l \in Nat \ {0}, NEW x, Piece(x, u, o, l, S), NEW i, i = o + 1
  PROVE  x # <<>> /\ Head(x) = u[i]
<1>1. 1 \in 1 .. l /\ x \in Seq(S) /\ Len(x) = l
  BY DEF Piece
<1>2. x[1] = u[o + 1]
  BY <1>1 DEF Piece
<1> QED
  BY <1>1, <1>2

(* The bytes of u at i .. j are all in C. *)
AllIn(u, i, j, C) == \A k \in i .. j : u[k] \in C

LEMMA PieceOver ==
  ASSUME NEW u, NEW S, NEW o, NEW l, NEW x, Piece(x, u, o, l, S), NEW C
  PROVE  Over(x, C) <=> AllIn(u, o + 1, o + l, C)
<1>1. /\ x \in Seq(S) /\ Len(x) = l /\ o \in Nat /\ l \in Nat /\ DOMAIN x = 1 .. l
      /\ \A k \in 1 .. l : x[k] = u[o + k]
  BY DEF Piece
<1>2. \A k \in o + 1 .. o + l : k - o \in 1 .. l /\ o + (k - o) = k
  BY <1>1
<1>3. \A k \in 1 .. l : o + k \in o + 1 .. o + l
  BY <1>1
<1> QED
  BY <1>1, <1>2, <1>3 DEF Over, AllIn

LEMMA PieceHas ==
  ASSUME NEW u, NEW S, NEW o, NEW l, NEW x, Piece(x, u, o, l, S), NEW c
  PROVE  Has(x, c) <=> \E k \in o + 1 .. o + l : u[k] = c
<1> DEFINE There == \E k \in o + 1 .. o + l : u[k] = c
<1>1. /\ x \in Seq(S) /\ Len(x) = l /\ o \in Nat /\ l \in Nat /\ DOMAIN x = 1 .. l
      /\ \A k \in 1 .. l : x[k] = u[o + k]
  BY DEF Piece
<1>2. \A k \in o + 1 .. o + l : k - o \in 1 .. l /\ o + (k - o) = k
  BY <1>1
<1>3. \A k \in 1 .. l : o + k \in o + 1 .. o + l
  BY <1>1
<1>4. ASSUME Has(x, c) PROVE There
  <2>1. PICK k \in 1 .. l : x[k] = c
    BY <1>1, <1>4 DEF Has
  <2> QED
    BY <1>1, <1>3, <2>1
<1>5. ASSUME There PROVE Has(x, c)
  <2>1. PICK k \in o + 1 .. o + l : u[k] = c
    BY <1>5
  <2>2. k - o \in 1 .. l /\ x[k - o] = c
    BY <1>1, <1>2, <2>1
  <2> QED
    BY <1>1, <2>2 DEF Has
<1> QED
  BY <1>4, <1>5

-----------------------------------------------------------------------------
(* The automaton of the authority.  Behind the userinfo, from position i   *)
(* on, its state at p says what the bytes from i to p are.                 *)

V6Char == HexChar \cup {":", "."}

InHost(u, i, p) == i <= p /\ AllIn(u, i, p, HostChar)
InV6(u, i, p)   == i + 1 <= p /\ u[i] = "[" /\ AllIn(u, i + 1, p, V6Char)
AtZone(u, i, p) == InV6(u, i, p - 1) /\ u[p] = "%"
InZone(u, i, p) == \E j \in i .. p - 1 : AtZone(u, i, j) /\ AllIn(u, j + 1, p, ZoneChar)
V6Ends(u, i, p) == (InV6(u, i, p - 1) \/ InZone(u, i, p - 1)) /\ u[p] = "]"
AtPort(u, i, p) == (InHost(u, i, p - 1) \/ V6Ends(u, i, p - 1)) /\ u[p] = ":"
InPort(u, i, p) == \E c \in i .. p - 1 : AtPort(u, i, c) /\ AllIn(u, c + 1, p, Decimal)

LEMMA CharsOfHost ==
  /\ {"[", "]", ":", "@", "%"} \cap HostChar = {}
  /\ {"[", "]", "@", "%"} \cap V6Char = {}
  /\ {"[", "]", "@", ":"} \cap ZoneChar = {}
  /\ {"[", "]", "@", "%", ":"} \cap Decimal = {}
  /\ "%" \in ZoneChar /\ ":" \in V6Char
  /\ HostChar \cup V6Char \cup ZoneChar \cup Decimal \cup {":"} \subseteq UserinfoChar
  /\ {"[", "]", "@", "/", "?", "#"} \cap UserinfoChar = {}
BY DEF HostChar, V6Char, HexChar, ZoneChar, Decimal, UserinfoChar, Mark, Alnum, Alpha, Words

(* What one more byte makes of the state. *)
LEMMA HostCharIs ==
  ASSUME NEW s, s \notin {"s_http_userinfo", "s_http_userinfo_start"}, NEW ch
  PROVE  LET new == http_parse_host_char(s, ch)
         IN  /\ new = "s_http_host" <=> s \in {"s_http_host_start", "s_http_host"} /\ ch \in HostChar
             /\ new = "s_http_host_v6_start" <=> s = "s_http_host_start" /\ ch = "["
             /\ new = "s_http_host_v6" <=>
                  s \in {"s_http_host_v6", "s_http_host_v6_start"} /\ ch \in V6Char
             /\ new = "s_http_host_v6_zone_start" <=> s = "s_http_host_v6" /\ ch = "%"
             /\ new = "s_http_host_v6_zone" <=>
                  s \in {"s_http_host_v6_zone", "s_http_host_v6_zone_start"} /\ ch \in ZoneChar
             /\ new = "s_http_host_v6_end" <=>
                  s \in {"s_http_host_v6", "s_http_host_v6_zone"} /\ ch = "]"
             /\ new = "s_http_host_port_start" <=>
                  s \in {"s_http_host", "s_http_host_v6_end"} /\ ch = ":"
             /\ new = "s_http_host_port" <=>
                  s \in {"s_http_host_port", "s_http_host_port_start"} /\ ch \in Decimal
             /\ new \notin {"s_http_userinfo", "s_http_userinfo_start", "s_http_host_start"}
<1>1. HexChar \cup {":", "."} = V6Char
  BY DEF V6Char
<1> QED
  BY <1>1, CharsOfHost DEF http_parse_host_char

LEMMA HostGrows ==
  ASSUME NEW u, NEW i \in Nat, NEW p \in Nat, p >= i - 1, NEW q, q = p + 1
  PROVE  /\ InHost(u, i, q) <=> (p = i - 1 \/ InHost(u, i, p)) /\ u[q] \in HostChar
         /\ InV6(u, i, q) <=> ((p = i /\ u[i] = "[") \/ InV6(u, i, p)) /\ u[q] \in V6Char
         /\ AtZone(u, i, q) <=> InV6(u, i, p) /\ u[q] = "%"
         /\ InZone(u, i, q) <=> (AtZone(u, i, p) \/ InZone(u, i, p)) /\ u[q] \in ZoneChar
         /\ V6Ends(u, i, q) <=> (InV6(u, i, p) \/ InZone(u, i, p)) /\ u[q] = "]"
         /\ AtPort(u, i, q) <=> (InHost(u, i, p) \/ V6Ends(u, i, p)) /\ u[q] = ":"
         /\ InPort(u, i, q) <=> (AtPort(u, i, p) \/ InPort(u, i, p)) /\ u[q] \in Decimal
<1>0. q - 1 = p /\ q \in Nat /\ ~ (q <= p)
  OBVIOUS
<1>1. \A a \in Nat : \A C : a <= q => (AllIn(u, a, q, C) <=> (AllIn(u, a, p, C) /\ u[q] \in C))
  BY <1>0 DEF AllIn
<1>2. \A a, b \in Nat : \A C : a > b => AllIn(u, a, b, C)
  BY DEF AllIn
<1>3. InHost(u, i, q) <=> (p = i - 1 \/ InHost(u, i, p)) /\ u[q] \in HostChar
  BY <1>0, <1>1, <1>2 DEF InHost
<1>4. InV6(u, i, q) <=> ((p = i /\ u[i] = "[") \/ InV6(u, i, p)) /\ u[q] \in V6Char
  <2>1. CASE i + 1 <= q
    <3>1. i + 1 \in Nat /\ (i + 1 <= p \/ i + 1 > p) /\ (i + 1 > p => p = i)
      BY <2>1
    <3> QED
      BY <1>0, <1>1, <1>2, <2>1, <3>1 DEF InV6
  <2>2. CASE ~ (i + 1 <= q)
    BY <1>0, <2>2 DEF InV6
  <2> QED
    BY <2>1, <2>2
<1>5. InZone(u, i, q) <=> (AtZone(u, i, p) \/ InZone(u, i, p)) /\ u[q] \in ZoneChar
  <2>1. ASSUME InZone(u, i, q) PROVE (AtZone(u, i, p) \/ InZone(u, i, p)) /\ u[q] \in ZoneChar
    <3>1. PICK j \in i .. p : AtZone(u, i, j) /\ AllIn(u, j + 1, q, ZoneChar)
      BY <1>0, <2>1 DEF InZone
    <3>2. j + 1 \in Nat /\ j + 1 <= q
      BY <1>0
    <3>3. AllIn(u, j + 1, p, ZoneChar) /\ u[q] \in ZoneChar
      BY <1>1, <3>1, <3>2
    <3>4. j = p \/ j \in i .. p - 1
      OBVIOUS
    <3> QED
      BY <3>1, <3>3, <3>4 DEF InZone
  <2>2. ASSUME AtZone(u, i, p) \/ InZone(u, i, p), u[q] \in ZoneChar PROVE InZone(u, i, q)
    <3>1. AtZone(u, i, p) => p \in i .. q - 1 /\ AllIn(u, p + 1, p, ZoneChar)
      BY <1>0, <1>2 DEF AtZone, InV6
    <3>2. \E j \in i .. q - 1 : AtZone(u, i, j) /\ AllIn(u, j + 1, p, ZoneChar)
      <4>1. i .. p - 1 \subseteq i .. q - 1
        BY <1>0
      <4> QED
        BY <2>2, <3>1, <4>1 DEF InZone
    <3>3. PICK j \in i .. q - 1 : AtZone(u, i, j) /\ AllIn(u, j + 1, p, ZoneChar)
      BY <3>2
    <3>4. j + 1 \in Nat /\ j + 1 <= q
      BY <1>0
    <3> QED
      BY <1>1, <2>2, <3>3, <3>4 DEF InZone
  <2> QED
    BY <2>1, <2>2
<1>6. InPort(u, i, q) <=> (AtPort(u, i, p) \/ InPort(u, i, p)) /\ u[q] \in Decimal
  <2>1. ASSUME InPort(u, i, q) PROVE (AtPort(u, i, p) \/ InPort(u, i, p)) /\ u[q] \in Decimal
    <3>1. PICK j \in i .. p : AtPort(u, i, j) /\ AllIn(u, j + 1, q, Decimal)
      BY <1>0, <2>1 DEF InPort
    <3>2. j + 1 \in Nat /\ j + 1 <= q
      BY <1>0
    <3>3. AllIn(u, j + 1, p, Decimal) /\ u[q] \in Decimal
      BY <1>1, <3>1, <3>2
    <3>4. j = p \/ j \in i .. p - 1
      OBVIOUS
    <3> QED
      BY <3>1, <3>3, <3>4 DEF InPort
  <2>2. ASSUME AtPort(u, i, p) \/ InPort(u, i, p), u[q] \in Decimal PROVE InPort(u, i, q)
    <3>1. AtPort(u, i, p) => p \in i .. q - 1 /\ AllIn(u, p + 1, p, Decimal)
      BY <1>0, <1>2 DEF AtPort, InHost, V6Ends, InV6, InZone
    <3>2. \E j \in i .. q - 1 : AtPort(u, i, j) /\ AllIn(u, j + 1, p, Decimal)
      <4>1. i .. p - 1 \subseteq i .. q - 1
        BY <1>0
      <4> QED
        BY <2>2, <3>1, <4>1 DEF InPort
    <3>3. PICK j \in i .. q - 1 : AtPort(u, i, j) /\ AllIn(u, j + 1, p, Decimal)
      BY <3>2
    <3>4. j + 1 \in Nat /\ j + 1 <= q
      BY <1>0
    <3> QED
      BY <1>1, <2>2, <3>3, <3>4 DEF InPort
  <2> QED
    BY <2>1, <2>2
<1> QED
  BY <1>0, <1>3, <1>4, <1>5, <1>6 DEF AtZone, V6Ends, AtPort

FieldNames == {"schema", "userinfo", "host", "port", "path", "query", "fragment"}
FieldSet   == [off : Nat, len : Nat]
FieldsSet  == [FieldNames -> FieldSet]
HostStates == Unfinished \cup {"s_http_host", "s_http_host_v6_end", "s_http_host_port"}
HostZ      == [s : HostStates, u : FieldsSet]

LEMMA HostCharState == \A s, ch : http_parse_host_char(s, ch) \in HostStates
BY DEF http_parse_host_char, HostStates, Unfinished

(* What the step to the state new does to the fields. *)
HostStepped(z, p, r, new) ==
  /\ r \in HostZ /\ r.s = new
  /\ r.u["path"] = z.u["path"] /\ r.u["query"] = z.u["query"]
  /\ new \in {"s_http_host", "s_http_host_v6"} =>
       /\ r.u["host"] = [off |-> IF new # z.s THEN p ELSE z.u["host"].off,
                         len |-> z.u["host"].len + 1]
       /\ r.u["port"] = z.u["port"]
  /\ new \in {"s_http_host_v6_zone_start", "s_http_host_v6_zone"} =>
       /\ r.u["host"] = [off |-> z.u["host"].off, len |-> z.u["host"].len + 1]
       /\ r.u["port"] = z.u["port"]
  /\ new = "s_http_host_port" =>
       /\ r.u["host"] = z.u["host"]
       /\ r.u["port"] = IF new # z.s THEN [off |-> p, len |-> 1]
                        ELSE [off |-> z.u["port"].off, len |-> z.u["port"].len + 1]
  /\ new = "s_http_userinfo" => r.u["host"] = z.u["host"] /\ r.u["port"] = z.u["port"]
  /\ new \notin {"s_http_host", "s_http_host_v6", "s_http_host_v6_zone_start",
                 "s_http_host_v6_zone", "s_http_host_port", "s_http_userinfo"} => r.u = z.u

LEMMA HostStepIs ==
  ASSUME NEW buf0, NEW z \in HostZ, NEW p \in Nat
  PROVE  HostStepped(z, p, HostStep(buf0, z, p), http_parse_host_char(z.s, buf0[p]))
<1> DEFINE new == http_parse_host_char(z.s, buf0[p])
           u == z.u
           r == HostStep(buf0, z, p)
           first == new # z.s
<1>1. new \in HostStates
  BY HostCharState
<1>2. z.s \in HostStates /\ u \in [FieldNames -> FieldSet] /\ {"host", "port", "path", "query", "userinfo"} \subseteq FieldNames
  BY DEF HostZ, FieldsSet, FieldNames
<1>3. /\ u["host"] \in [off : Nat, len : Nat] /\ u["port"] \in [off : Nat, len : Nat]
      /\ u["userinfo"] \in [off : Nat, len : Nat]
  BY <1>2 DEF FieldSet
<1>4. r.s = new /\ r = [s |-> new, u |-> r.u]
  BY DEF HostStep
<1>5. r.u = CASE new \in {"s_http_host", "s_http_host_v6"} ->
                   [u EXCEPT !.host = [off |-> IF first THEN p ELSE @.off, len |-> @.len + 1]]
              [] new \in {"s_http_host_v6_zone_start", "s_http_host_v6_zone"} ->
                   [u EXCEPT !.host.len = @ + 1]
              [] new = "s_http_host_port" -> Extend(u, "port", p, first)
              [] new = "s_http_userinfo"  -> Extend(u, "userinfo", p, first)
              [] OTHER -> u
  BY Zenon DEF HostStep
<1> HIDE DEF new, r, first
<1> SUFFICES HostStepped(z, p, r, new)
  BY DEF new, r
<1>6. CASE new \in {"s_http_host", "s_http_host_v6"}
  <2> DEFINE h == [off |-> IF first THEN p ELSE u["host"].off, len |-> u["host"].len + 1]
  <2>1. r.u = [u EXCEPT !["host"] = h]
    BY <1>5, <1>6
  <2>2. h \in [off : Nat, len : Nat]
    BY <1>3
  <2>3. h = [off |-> IF first THEN p ELSE u["host"].off, len |-> u["host"].len + 1]
    OBVIOUS
  <2> HIDE DEF h, u
  <2>4. r.u \in [FieldNames -> FieldSet] /\ r.u["host"] = h /\ r.u["port"] = u["port"]
        /\ r.u["path"] = u["path"] /\ r.u["query"] = u["query"]
    BY <1>2, <2>1, <2>2 DEF FieldSet
  <2> QED
    BY <1>1, <1>4, <1>6, <2>3, <2>4 DEF HostStepped, HostZ, FieldsSet, u, first
<1>7. CASE new \in {"s_http_host_v6_zone_start", "s_http_host_v6_zone"}
  <2> DEFINE h == [off |-> u["host"].off, len |-> u["host"].len + 1]
  <2>0. [u["host"] EXCEPT !.len = @ + 1] = h
    BY <1>3
  <2>1. r.u = [u EXCEPT !.host.len = @ + 1]
    BY <1>5, <1>7
  <2>5. r.u = [u EXCEPT !["host"] = h]
    <3> DEFINE g == [u["host"] EXCEPT !.len = @ + 1]
    <3>1. r.u = [u EXCEPT !["host"] = g]
      BY <2>1
    <3>2. g = h
      BY <2>0
    <3> HIDE DEF g, h
    <3> QED
      BY <3>1, <3>2
  <2>2. h \in [off : Nat, len : Nat]
    BY <1>3
  <2>3. h = [off |-> u["host"].off, len |-> u["host"].len + 1]
    OBVIOUS
  <2> HIDE DEF h, u
  <2>4. r.u \in [FieldNames -> FieldSet] /\ r.u["host"] = h /\ r.u["port"] = u["port"]
        /\ r.u["path"] = u["path"] /\ r.u["query"] = u["query"]
    BY <1>2, <2>5, <2>2 DEF FieldSet
  <2> QED
    BY <1>1, <1>4, <1>7, <2>3, <2>4 DEF HostStepped, HostZ, FieldsSet, u, first
<1>8. ASSUME NEW f \in {"port", "userinfo"}
      PROVE  LET e == Extend(u, f, p, first)
             IN  /\ e \in [FieldNames -> FieldSet]
                 /\ e[f] = IF first THEN [off |-> p, len |-> 1]
                           ELSE [off |-> u[f].off, len |-> u[f].len + 1]
                 /\ \A g \in {"host", "port", "path", "query"} : g # f => e[g] = u[g]
  <2> DEFINE e == Extend(u, f, p, first)
             h == [off |-> IF first THEN p ELSE u[f].off, len |-> IF first THEN 1 ELSE u[f].len + 1]
  <2>1. u[f] \in [off : Nat, len : Nat] /\ f \in FieldNames
    BY <1>2, <1>3
  <2>2. e = [u EXCEPT ![f] = h]
    BY DEF Extend
  <2>3. h \in [off : Nat, len : Nat]
    BY <2>1
  <2>4. h = IF first THEN [off |-> p, len |-> 1] ELSE [off |-> u[f].off, len |-> u[f].len + 1]
    OBVIOUS
  <2> HIDE DEF e, h, u
  <2>5. /\ e \in [FieldNames -> FieldSet] /\ e[f] = h
        /\ \A g \in {"host", "port", "path", "query"} : g # f => e[g] = u[g]
    BY <1>2, <2>1, <2>2, <2>3 DEF FieldSet
  <2> QED
    BY <2>4, <2>5 DEF e
<1>9. CASE new = "s_http_host_port"
  <2>1. r.u = Extend(u, "port", p, first)
    BY <1>5, <1>9
  <2> DEFINE f == "port"
  <2>2. f \in {"port", "userinfo"} /\ r.u = Extend(u, f, p, first)
    BY <2>1
  <2> HIDE DEF f, u, first
  <2>3. /\ r.u \in [FieldNames -> FieldSet]
        /\ r.u[f] = IF first THEN [off |-> p, len |-> 1]
                    ELSE [off |-> u[f].off, len |-> u[f].len + 1]
        /\ \A g \in {"host", "port", "path", "query"} : g # f => r.u[g] = u[g]
    BY <1>8, <2>2
  <2> QED
    BY <1>1, <1>4, <1>9, <2>3 DEF HostStepped, HostZ, FieldsSet, u, f, first
<1>10. CASE new = "s_http_userinfo"
  <2>1. r.u = Extend(u, "userinfo", p, first)
    BY <1>5, <1>10
  <2> DEFINE f == "userinfo"
  <2>2. f \in {"port", "userinfo"} /\ r.u = Extend(u, f, p, first)
    BY <2>1
  <2> HIDE DEF f, u, first
  <2>3. /\ r.u \in [FieldNames -> FieldSet]
        /\ \A g \in {"host", "port", "path", "query"} : g # f => r.u[g] = u[g]
    BY <1>8, <2>2
  <2> QED
    BY <1>1, <1>4, <1>10, <2>3 DEF HostStepped, HostZ, FieldsSet, u, f
<1>11. CASE new \notin {"s_http_host", "s_http_host_v6", "s_http_host_v6_zone_start",
                        "s_http_host_v6_zone", "s_http_host_port", "s_http_userinfo"}
  <2>1. r.u = u
    BY <1>5, <1>11
  <2> QED
    BY <1>1, <1>2, <1>4, <1>11, <2>1 DEF HostStepped, HostZ, FieldsSet
<1> QED
  BY <1>6, <1>7, <1>9, <1>10, <1>11

HostRun(buf0, z, o, l, z0) ==
  z = [n \in 0 .. l |-> IF n = 0 THEN z0 ELSE HostStep(buf0, z[n - 1], o + n - 1)]

LEMMA HostRunTyped ==
  ASSUME NEW buf0, NEW o \in Nat \ {0}, NEW l \in Nat
  PROVE  \A k \in 1 .. l, v \in HostZ : HostStep(buf0, v, o + k - 1) \in HostZ
<1> SUFFICES ASSUME NEW k \in 1 .. l, NEW v \in HostZ
             PROVE  HostStep(buf0, v, o + k - 1) \in HostZ
  OBVIOUS
<1>1. o + k - 1 \in Nat
  OBVIOUS
<1>2. HostStepped(v, o + k - 1, HostStep(buf0, v, o + k - 1),
                  http_parse_host_char(v.s, buf0[o + k - 1]))
  BY <1>1, HostStepIs
<1> QED
  BY <1>2 DEF HostStepped

LEMMA HostRunExists ==
  ASSUME NEW buf0, NEW o \in Nat \ {0}, NEW l \in Nat, NEW z0 \in HostZ
  PROVE  \E z : HostRun(buf0, z, o, l, z0)
<1> DEFINE step == [k \in 1 .. l |-> [v \in HostZ |-> HostStep(buf0, v, o + k - 1)]]
<1>1. \A k \in 1 .. l, v \in HostZ : step[k][v] = HostStep(buf0, v, o + k - 1)
  OBVIOUS
<1>2. \A k \in 1 .. l, v \in HostZ : HostStep(buf0, v, o + k - 1) \in HostZ
  BY HostRunTyped
<1>3. step \in [1 .. l -> [HostZ -> HostZ]]
  BY <1>2
<1> HIDE DEF step
<1>4. PICK h : Iterates(h, l, HostZ, z0, step)
  BY <1>3, Iterated
<1>5. \A k \in 1 .. l : h[k] = HostStep(buf0, h[k - 1], o + k - 1)
  BY <1>1, <1>4 DEF Iterates
<1>6. h = [n \in 0 .. l |-> IF n = 0 THEN z0 ELSE HostStep(buf0, h[n - 1], o + n - 1)]
  BY <1>4, <1>5 DEF Iterates
<1> QED
  BY <1>6 DEF HostRun

(* A run of the automaton over the bytes of u from o on. *)
HostRuns(u, z, o, l) ==
  /\ \A n \in 0 .. l : z[n] \in HostZ
  /\ \A n \in 1 .. l : z[n] = HostStep(u, z[n - 1], o + n - 1)

LEMMA HostRunIs ==
  ASSUME NEW buf0, NEW o \in Nat \ {0}, NEW l \in Nat, NEW z0 \in HostZ,
         NEW z, HostRun(buf0, z, o, l, z0)
  PROVE  z[0] = z0 /\ HostRuns(buf0, z, o, l)
<1>2. \A k \in 1 .. l, v \in HostZ : HostStep(buf0, v, o + k - 1) \in HostZ
  BY HostRunTyped
<1> DEFINE g == [n \in 0 .. l |-> IF n = 0 THEN z0 ELSE HostStep(buf0, z[n - 1], o + n - 1)]
           T == {n \in 0 .. l : z[n] \in HostZ}
<1>3. z = g
  BY DEF HostRun
<1>4. g[0] = z0 /\ \A n \in 1 .. l : g[n] = HostStep(buf0, z[n - 1], o + n - 1)
  OBVIOUS
<1> HIDE DEF g
<1>5. z[0] = z0 /\ \A n \in 1 .. l : z[n] = HostStep(buf0, z[n - 1], o + n - 1)
  BY <1>3, <1>4
<1>6. 0 \in T
  BY <1>5
<1>7. ASSUME NEW n \in 1 .. l, n - 1 \in T
      PROVE  n \in T
  BY <1>2, <1>5, <1>7
<1>8. \A n \in 0 .. l : n \in T
  <2> HIDE DEF T
  <2> QED
    BY <1>6, <1>7, Reached
<1> QED
  BY <1>5, <1>8 DEF HostRuns

V6Starts(u, i, p) == p = i /\ u[i] = "["

HostState(u, i, p, s) ==
  /\ s \in HostStates \ {"s_http_userinfo", "s_http_userinfo_start"}
  /\ s = "s_http_host_start"         <=> p = i - 1
  /\ s = "s_http_host"               <=> InHost(u, i, p)
  /\ s = "s_http_host_v6_start"      <=> V6Starts(u, i, p)
  /\ s = "s_http_host_v6"            <=> InV6(u, i, p)
  /\ s = "s_http_host_v6_zone_start" <=> AtZone(u, i, p)
  /\ s = "s_http_host_v6_zone"       <=> InZone(u, i, p)
  /\ s = "s_http_host_v6_end"        <=> V6Ends(u, i, p)
  /\ s = "s_http_host_port_start"    <=> AtPort(u, i, p)
  /\ s = "s_http_host_port"          <=> InPort(u, i, p)

(* The fields when the port begins behind c. *)
PortFields(u, i, p, c, f) ==
  AtPort(u, i, c) /\ AllIn(u, c + 1, p, Decimal) =>
    /\ InHost(u, i, c - 1) => f["host"] = [off |-> i, len |-> c - i]
    /\ V6Ends(u, i, c - 1) => f["host"] = [off |-> i + 1, len |-> (c - i) - 2]
    /\ c < p => f["port"] = [off |-> c + 1, len |-> p - c]

HostFields(u, i, p, f) ==
  /\ p = i - 1 \/ V6Starts(u, i, p) => f["host"].len = 0
  /\ InHost(u, i, p) => f["host"] = [off |-> i, len |-> (p - i) + 1]
  /\ InV6(u, i, p) \/ AtZone(u, i, p) \/ InZone(u, i, p) => f["host"] = [off |-> i + 1, len |-> p - i]
  /\ V6Ends(u, i, p) => f["host"] = [off |-> i + 1, len |-> (p - i) - 1]
  /\ \/ p = i - 1 \/ V6Starts(u, i, p) \/ InHost(u, i, p) \/ InV6(u, i, p) \/ AtZone(u, i, p)
     \/ InZone(u, i, p) \/ V6Ends(u, i, p) \/ AtPort(u, i, p)
     => f["port"] = NoField
  /\ \A c \in i .. p : PortFields(u, i, p, c, f)

LEMMA HostKeeps ==
  ASSUME NEW u, NEW i \in Nat \ {0}, NEW p \in Nat, p >= i - 1, NEW q, q = p + 1, NEW z \in HostZ,
         HostState(u, i, p, z.s), HostFields(u, i, p, z.u)
  PROVE  LET r == HostStep(u, z, q)
         IN  /\ r \in HostZ /\ HostState(u, i, q, r.s) /\ HostFields(u, i, q, r.u)
             /\ r.u["path"] = z.u["path"] /\ r.u["query"] = z.u["query"]
<1> DEFINE r == HostStep(u, z, q)
           new == http_parse_host_char(z.s, u[q])
           s == z.s
           f == z.u
           g == r.u
<1>0. q - 1 = p /\ q \in Nat /\ q > p
  OBVIOUS
<1>1. /\ InHost(u, i, q) <=> (p = i - 1 \/ InHost(u, i, p)) /\ u[q] \in HostChar
      /\ InV6(u, i, q) <=> (V6Starts(u, i, p) \/ InV6(u, i, p)) /\ u[q] \in V6Char
      /\ AtZone(u, i, q) <=> InV6(u, i, p) /\ u[q] = "%"
      /\ InZone(u, i, q) <=> (AtZone(u, i, p) \/ InZone(u, i, p)) /\ u[q] \in ZoneChar
      /\ V6Ends(u, i, q) <=> (InV6(u, i, p) \/ InZone(u, i, p)) /\ u[q] = "]"
      /\ AtPort(u, i, q) <=> (InHost(u, i, p) \/ V6Ends(u, i, p)) /\ u[q] = ":"
      /\ InPort(u, i, q) <=> (AtPort(u, i, p) \/ InPort(u, i, p)) /\ u[q] \in Decimal
  BY HostGrows DEF V6Starts
<1>2. V6Starts(u, i, q) <=> p = i - 1 /\ u[q] = "["
  BY <1>0 DEF V6Starts
<1>3. HostStepped(z, q, r, new)
  BY <1>0, HostStepIs
<1>4. /\ new \in HostStates
      /\ new = "s_http_host" <=> s \in {"s_http_host_start", "s_http_host"} /\ u[q] \in HostChar
      /\ new = "s_http_host_v6_start" <=> s = "s_http_host_start" /\ u[q] = "["
      /\ new = "s_http_host_v6" <=>
           s \in {"s_http_host_v6", "s_http_host_v6_start"} /\ u[q] \in V6Char
      /\ new = "s_http_host_v6_zone_start" <=> s = "s_http_host_v6" /\ u[q] = "%"
      /\ new = "s_http_host_v6_zone" <=>
           s \in {"s_http_host_v6_zone", "s_http_host_v6_zone_start"} /\ u[q] \in ZoneChar
      /\ new = "s_http_host_v6_end" <=>
           s \in {"s_http_host_v6", "s_http_host_v6_zone"} /\ u[q] = "]"
      /\ new = "s_http_host_port_start" <=>
           s \in {"s_http_host", "s_http_host_v6_end"} /\ u[q] = ":"
      /\ new = "s_http_host_port" <=>
           s \in {"s_http_host_port", "s_http_host_port_start"} /\ u[q] \in Decimal
      /\ new \notin {"s_http_userinfo", "s_http_userinfo_start", "s_http_host_start"}
  <2>1. s \notin {"s_http_userinfo", "s_http_userinfo_start"}
    BY DEF HostState
  <2> HIDE DEF s
  <2>2. \A ch : LET n == http_parse_host_char(s, ch)
         IN  /\ n = "s_http_host" <=> s \in {"s_http_host_start", "s_http_host"} /\ ch \in HostChar
             /\ n = "s_http_host_v6_start" <=> s = "s_http_host_start" /\ ch = "["
             /\ n = "s_http_host_v6" <=>
                  s \in {"s_http_host_v6", "s_http_host_v6_start"} /\ ch \in V6Char
             /\ n = "s_http_host_v6_zone_start" <=> s = "s_http_host_v6" /\ ch = "%"
             /\ n = "s_http_host_v6_zone" <=>
                  s \in {"s_http_host_v6_zone", "s_http_host_v6_zone_start"} /\ ch \in ZoneChar
             /\ n = "s_http_host_v6_end" <=>
                  s \in {"s_http_host_v6", "s_http_host_v6_zone"} /\ ch = "]"
             /\ n = "s_http_host_port_start" <=>
                  s \in {"s_http_host", "s_http_host_v6_end"} /\ ch = ":"
             /\ n = "s_http_host_port" <=>
                  s \in {"s_http_host_port", "s_http_host_port_start"} /\ ch \in Decimal
             /\ n \notin {"s_http_userinfo", "s_http_userinfo_start", "s_http_host_start"}
    BY <2>1, HostCharIs
  <2> QED
    BY <2>2, HostCharState DEF s
<1>5. /\ s = "s_http_host_start"         <=> p = i - 1
      /\ s = "s_http_host"               <=> InHost(u, i, p)
      /\ s = "s_http_host_v6_start"      <=> V6Starts(u, i, p)
      /\ s = "s_http_host_v6"            <=> InV6(u, i, p)
      /\ s = "s_http_host_v6_zone_start" <=> AtZone(u, i, p)
      /\ s = "s_http_host_v6_zone"       <=> InZone(u, i, p)
      /\ s = "s_http_host_v6_end"        <=> V6Ends(u, i, p)
      /\ s = "s_http_host_port_start"    <=> AtPort(u, i, p)
      /\ s = "s_http_host_port"          <=> InPort(u, i, p)
  BY DEF HostState
<1> HIDE DEF s, new, r
<1>6. r.s = new /\ r \in HostZ
  BY <1>3 DEF HostStepped
<1>7. HostState(u, i, q, new)
  BY <1>0, <1>1, <1>2, <1>4, <1>5 DEF HostState
<1>8. /\ new = "s_http_host_v6_start"      <=> V6Starts(u, i, q)
      /\ new = "s_http_host"               <=> InHost(u, i, q)
      /\ new = "s_http_host_v6"            <=> InV6(u, i, q)
      /\ new = "s_http_host_v6_zone_start" <=> AtZone(u, i, q)
      /\ new = "s_http_host_v6_zone"       <=> InZone(u, i, q)
      /\ new = "s_http_host_v6_end"        <=> V6Ends(u, i, q)
      /\ new = "s_http_host_port_start"    <=> AtPort(u, i, q)
      /\ new = "s_http_host_port"          <=> InPort(u, i, q)
  BY <1>7 DEF HostState
<1>9. /\ p = i - 1 \/ V6Starts(u, i, p) => f["host"].len = 0
      /\ InHost(u, i, p) => f["host"] = [off |-> i, len |-> (p - i) + 1]
      /\ InV6(u, i, p) \/ AtZone(u, i, p) \/ InZone(u, i, p) => f["host"] = [off |-> i + 1, len |-> p - i]
      /\ V6Ends(u, i, p) => f["host"] = [off |-> i + 1, len |-> (p - i) - 1]
      /\ \/ p = i - 1 \/ V6Starts(u, i, p) \/ InHost(u, i, p) \/ InV6(u, i, p) \/ AtZone(u, i, p)
         \/ InZone(u, i, p) \/ V6Ends(u, i, p) \/ AtPort(u, i, p)
         => f["port"] = NoField
      /\ \A c \in i .. p : PortFields(u, i, p, c, f)
  BY DEF HostFields
<1>10. /\ new \in {"s_http_host", "s_http_host_v6"} =>
            /\ g["host"] = [off |-> IF new # s THEN q ELSE f["host"].off, len |-> f["host"].len + 1]
            /\ g["port"] = f["port"]
       /\ new \in {"s_http_host_v6_zone_start", "s_http_host_v6_zone"} =>
            /\ g["host"] = [off |-> f["host"].off, len |-> f["host"].len + 1]
            /\ g["port"] = f["port"]
       /\ new = "s_http_host_port" =>
            /\ g["host"] = f["host"]
            /\ g["port"] = IF new # s THEN [off |-> q, len |-> 1]
                           ELSE [off |-> f["port"].off, len |-> f["port"].len + 1]
       /\ new \in {"s_http_host_v6_start", "s_http_host_v6_end", "s_http_host_port_start"} => g = f
       /\ g["path"] = f["path"] /\ g["query"] = f["query"]
  BY <1>3 DEF HostStepped, s
<1> HIDE DEF f, g
<1>11. q = i - 1 \/ V6Starts(u, i, q) => g["host"].len = 0
  BY <1>0, <1>2, <1>8, <1>9, <1>10
<1>12. InHost(u, i, q) => g["host"] = [off |-> i, len |-> (q - i) + 1]
  <2> SUFFICES ASSUME InHost(u, i, q) PROVE g["host"] = [off |-> i, len |-> (q - i) + 1]
    OBVIOUS
  <2>1. new = "s_http_host"
    BY <1>8
  <2>2. CASE p = i - 1
    <3>1. s # new /\ f["host"].len = 0 /\ q = i
      BY <1>5, <1>9, <2>1, <2>2
    <3> QED
      BY <1>10, <2>1, <3>1
  <2>3. CASE InHost(u, i, p)
    <3>1. s = new /\ f["host"] = [off |-> i, len |-> (p - i) + 1]
      BY <1>5, <1>9, <2>1, <2>3
    <3>2. ((p - i) + 1) + 1 = (q - i) + 1
      OBVIOUS
    <3> QED
      BY <1>10, <2>1, <3>1, <3>2
  <2> QED
    BY <1>1, <2>2, <2>3
<1>13. InV6(u, i, q) => g["host"] = [off |-> i + 1, len |-> q - i]
  <2> SUFFICES ASSUME InV6(u, i, q) PROVE g["host"] = [off |-> i + 1, len |-> q - i]
    OBVIOUS
  <2>1. new = "s_http_host_v6"
    BY <1>8
  <2>2. CASE V6Starts(u, i, p)
    <3>1. s # new /\ f["host"].len = 0 /\ q = i + 1 /\ q - i = 1
      BY <1>5, <1>9, <2>1, <2>2 DEF V6Starts
    <3> QED
      BY <1>10, <2>1, <3>1
  <2>3. CASE InV6(u, i, p)
    <3>1. s = new /\ f["host"] = [off |-> i + 1, len |-> p - i]
      BY <1>5, <1>9, <2>1, <2>3
    <3>2. (p - i) + 1 = q - i
      OBVIOUS
    <3> QED
      BY <1>10, <2>1, <3>1, <3>2
  <2> QED
    BY <1>1, <2>2, <2>3
<1>14. AtZone(u, i, q) \/ InZone(u, i, q) => g["host"] = [off |-> i + 1, len |-> q - i]
  <2> SUFFICES ASSUME AtZone(u, i, q) \/ InZone(u, i, q)
               PROVE  g["host"] = [off |-> i + 1, len |-> q - i]
    OBVIOUS
  <2>1. f["host"] = [off |-> i + 1, len |-> p - i] /\ (p - i) + 1 = q - i
    BY <1>1, <1>9
  <2> QED
    BY <1>8, <1>10, <2>1
<1>15. V6Ends(u, i, q) => g["host"] = [off |-> i + 1, len |-> (q - i) - 1]
  <2> SUFFICES ASSUME V6Ends(u, i, q) PROVE g["host"] = [off |-> i + 1, len |-> (q - i) - 1]
    OBVIOUS
  <2>1. f["host"] = [off |-> i + 1, len |-> p - i] /\ p - i = (q - i) - 1
    BY <1>1, <1>9
  <2> QED
    BY <1>8, <1>10, <2>1
<1>16. \/ q = i - 1 \/ V6Starts(u, i, q) \/ InHost(u, i, q) \/ InV6(u, i, q) \/ AtZone(u, i, q)
       \/ InZone(u, i, q) \/ V6Ends(u, i, q) \/ AtPort(u, i, q)
       => g["port"] = NoField
  <2>1. q # i - 1
    BY <1>0
  <2>2. \/ V6Starts(u, i, q) \/ InHost(u, i, q) \/ InV6(u, i, q) \/ AtZone(u, i, q)
        \/ InZone(u, i, q) \/ V6Ends(u, i, q) \/ AtPort(u, i, q)
        => f["port"] = NoField
    BY <1>1, <1>2, <1>9
  <2>3. \/ V6Starts(u, i, q) \/ InHost(u, i, q) \/ InV6(u, i, q) \/ AtZone(u, i, q)
        \/ InZone(u, i, q) \/ V6Ends(u, i, q) \/ AtPort(u, i, q)
        => g["port"] = f["port"]
    BY <1>8, <1>10
  <2> QED
    BY <2>1, <2>2, <2>3
<1>17. ASSUME NEW c \in i .. q
       PROVE  PortFields(u, i, q, c, g)
  <2> SUFFICES ASSUME AtPort(u, i, c), AllIn(u, c + 1, q, Decimal)
               PROVE  /\ InHost(u, i, c - 1) => g["host"] = [off |-> i, len |-> c - i]
                      /\ V6Ends(u, i, c - 1) => g["host"] = [off |-> i + 1, len |-> (c - i) - 2]
                      /\ c < q => g["port"] = [off |-> c + 1, len |-> q - c]
    BY DEF PortFields
  <2>1. CASE c = q
    <3>1. g = f /\ c - 1 = p
      BY <1>0, <1>8, <1>10, <2>1
    <3>2. (p - i) + 1 = c - i /\ (p - i) - 1 = (c - i) - 2 /\ ~ (c < q)
      BY <2>1
    <3> QED
      BY <1>9, <3>1, <3>2
  <2>2. CASE c \in i .. p
    <3>1. AllIn(u, c + 1, p, Decimal) /\ u[q] \in Decimal
      BY <1>0, <2>2 DEF AllIn
    <3>2. /\ InHost(u, i, c - 1) => f["host"] = [off |-> i, len |-> c - i]
          /\ V6Ends(u, i, c - 1) => f["host"] = [off |-> i + 1, len |-> (c - i) - 2]
          /\ c < p => f["port"] = [off |-> c + 1, len |-> p - c]
      BY <1>9, <2>2, <3>1 DEF PortFields
    <3>3. CASE c = p
      <4>1. s = "s_http_host_port_start" /\ new = "s_http_host_port"
        BY <1>4, <1>5, <3>1, <3>3
      <4>2. c + 1 = q /\ q - c = 1
        BY <3>3
      <4> QED
        BY <1>10, <3>2, <4>1, <4>2
    <3>4. CASE c # p
      <4>1. c \in i .. p - 1 /\ c < p /\ (p - c) + 1 = q - c
        BY <2>2, <3>4
      <4>2. InPort(u, i, p)
        BY <3>1, <4>1 DEF InPort
      <4>3. s = "s_http_host_port" /\ new = "s_http_host_port"
        BY <1>4, <1>5, <3>1, <4>2
      <4> QED
        BY <1>10, <3>2, <4>1, <4>3
    <3> QED
      BY <3>3, <3>4
  <2> QED
    BY <1>0, <2>1, <2>2
<1>18. HostFields(u, i, q, g)
  BY <1>11, <1>12, <1>13, <1>14, <1>15, <1>16, <1>17 DEF HostFields
<1> QED
  BY <1>6, <1>7, <1>10, <1>18 DEF r, g, f

(* The run has the state and the fields that belong to position p. *)
HostAt(u, i, p, y, x) ==
  /\ HostState(u, i, p, y.s) /\ HostFields(u, i, p, y.u)
  /\ y.u["path"] = x.u["path"] /\ y.u["query"] = x.u["query"]

LEMMA HostTail ==
  ASSUME NEW u, NEW z, NEW o \in Nat \ {0}, NEW l \in Nat, HostRuns(u, z, o, l),
         NEW m \in 0 .. l, NEW i, i = o + m,
         z[m].s = "s_http_host_start", z[m].u["host"].len = 0, z[m].u["port"] = NoField
  PROVE  HostAt(u, i, o + l - 1, z[l], z[m])
<1> DEFINE T == {k \in 0 .. l - m : HostAt(u, i, (i - 1) + k, z[m + k], z[m])}
<1>0. i \in Nat \ {0} /\ l - m \in Nat
  OBVIOUS
<1>1. 0 \in T
  <2>1. m + 0 = m /\ (i - 1) + 0 = i - 1 /\ 0 \in 0 .. l - m
    BY <1>0
  <2>2. HostState(u, i, i - 1, "s_http_host_start")
    BY <1>0 DEF HostState, HostStates, Unfinished, InHost, V6Starts, InV6, AtZone, InZone, V6Ends, AtPort, InPort
  <2>3. HostFields(u, i, i - 1, z[m].u)
    <3>1. /\ ~ InHost(u, i, i - 1) /\ ~ InV6(u, i, i - 1) /\ ~ AtZone(u, i, i - 1)
          /\ ~ InZone(u, i, i - 1) /\ ~ V6Ends(u, i, i - 1)
      BY <1>0 DEF InHost, InV6, AtZone, InZone, V6Ends
    <3>2. i .. i - 1 = {}
      BY <1>0
    <3> QED
      BY <3>1, <3>2 DEF HostFields
  <2>4. HostAt(u, i, i - 1, z[m], z[m])
    BY <2>2, <2>3 DEF HostAt
  <2> QED
    BY <2>1, <2>4
<1>2. ASSUME NEW k \in 1 .. l - m, k - 1 \in T
      PROVE  k \in T
  <2> DEFINE p == (i - 1) + (k - 1)
             q == (i - 1) + k
             x == z[m + (k - 1)]
             y == z[m + k]
  <2>1. /\ p \in Nat /\ p >= i - 1 /\ q = p + 1 /\ m + k \in 1 .. l /\ (m + k) - 1 = m + (k - 1)
        /\ o + (m + k) - 1 = q /\ m + (k - 1) \in 0 .. l
    BY <1>0
  <2>2. x \in HostZ /\ HostAt(u, i, p, x, z[m])
    BY <1>2, <2>1 DEF HostRuns
  <2>3. y = HostStep(u, x, q)
    BY <2>1 DEF HostRuns
  <2> HIDE DEF p, q, x, y
  <2>4. HostState(u, i, p, x.s) /\ HostFields(u, i, p, x.u)
        /\ x.u["path"] = z[m].u["path"] /\ x.u["query"] = z[m].u["query"]
    BY <2>2 DEF HostAt
  <2>5. /\ HostState(u, i, q, y.s) /\ HostFields(u, i, q, y.u)
        /\ y.u["path"] = x.u["path"] /\ y.u["query"] = x.u["query"]
    BY <1>0, <2>1, <2>2, <2>3, <2>4, HostKeeps
  <2>6. HostAt(u, i, q, y, z[m])
    BY <2>4, <2>5 DEF HostAt
  <2> QED
    BY <1>0, <2>6 DEF q, y
<1>3. l - m \in T
  <2>1. l - m \in 0 .. l - m
    BY <1>0
  <2> HIDE DEF T
  <2> QED
    BY <1>0, <1>1, <1>2, <2>1, Reached
<1>4. m + (l - m) = l /\ (i - 1) + (l - m) = o + l - 1
  OBVIOUS
<1> QED
  BY <1>3, <1>4

LEMMA DeadHost ==
  /\ \A ch : http_parse_host_char("s_http_host_dead", ch) = "s_http_host_dead"
  /\ \A s, ch : s \in {"s_http_userinfo", "s_http_userinfo_start"} =>
       http_parse_host_char(s, ch) = IF ch = "@" THEN "s_http_host_start"
                                     ELSE IF ch \in UserinfoChar THEN "s_http_userinfo"
                                     ELSE "s_http_host_dead"
BY CharsOfHost DEF http_parse_host_char

LEMMA DeadTail ==
  ASSUME NEW u, NEW z, NEW o \in Nat \ {0}, NEW l \in Nat, HostRuns(u, z, o, l),
         NEW m \in 0 .. l, z[m].s = "s_http_host_dead"
  PROVE  z[l].s = "s_http_host_dead"
<1> DEFINE T == {k \in 0 .. l - m : z[m + k].s = "s_http_host_dead"}
<1>0. l - m \in Nat
  OBVIOUS
<1>1. 0 \in T
  BY <1>0
<1>2. ASSUME NEW k \in 1 .. l - m, k - 1 \in T
      PROVE  k \in T
  <2> DEFINE x == z[m + (k - 1)]
             y == z[m + k]
             p == o + (m + k) - 1
  <2>1. m + k \in 1 .. l /\ (m + k) - 1 = m + (k - 1) /\ p \in Nat /\ m + (k - 1) \in 0 .. l
    OBVIOUS
  <2>2. x \in HostZ /\ y = HostStep(u, x, p) /\ x.s = "s_http_host_dead"
    BY <1>2, <2>1 DEF HostRuns
  <2> HIDE DEF x, y, p
  <2>3. HostStepped(x, p, y, http_parse_host_char(x.s, u[p]))
    BY <2>1, <2>2, HostStepIs
  <2>4. y.s = "s_http_host_dead"
    BY <2>2, <2>3, DeadHost DEF HostStepped
  <2> QED
    BY <2>4 DEF y
<1>3. l - m \in T
  <2>1. l - m \in 0 .. l - m
    BY <1>0
  <2> HIDE DEF T
  <2> QED
    BY <1>0, <1>1, <1>2, <2>1, Reached
<1>4. m + (l - m) = l
  OBVIOUS
<1> QED
  BY <1>3, <1>4

(* Up to the first @ there is only userinfo. *)
UserinfoAt(u, o, p, y, x) ==
  /\ IF AllIn(u, o, p, UserinfoChar) THEN y.s \in {"s_http_userinfo", "s_http_userinfo_start"}
     ELSE y.s = "s_http_host_dead"
  /\ y.u["host"] = x.u["host"] /\ y.u["port"] = x.u["port"]
  /\ y.u["path"] = x.u["path"] /\ y.u["query"] = x.u["query"]

LEMMA UserinfoRun ==
  ASSUME NEW u, NEW z, NEW o \in Nat \ {0}, NEW l \in Nat, HostRuns(u, z, o, l),
         NEW m \in 0 .. l, \A k \in o .. o + m - 1 : u[k] # "@",
         z[0].s = "s_http_userinfo_start"
  PROVE  UserinfoAt(u, o, o + m - 1, z[m], z[0])
<1> DEFINE T == {k \in 0 .. m : UserinfoAt(u, o, o + k - 1, z[k], z[0])}
<1>1. 0 \in T
  <2>1. AllIn(u, o, o + 0 - 1, UserinfoChar)
    BY DEF AllIn
  <2> QED
    BY <2>1 DEF UserinfoAt
<1>2. ASSUME NEW k \in 1 .. m, k - 1 \in T
      PROVE  k \in T
  <2> DEFINE p == o + (k - 1) - 1
             q == o + k - 1
             x == z[k - 1]
             y == z[k]
             C == UserinfoChar
  <2>1. /\ k \in 1 .. l /\ k - 1 \in 0 .. l /\ p \in Nat /\ q \in Nat /\ q = p + 1
        /\ q \in o .. o + m - 1 /\ q - 1 = p
    OBVIOUS
  <2>2. x \in HostZ /\ y = HostStep(u, x, q) /\ UserinfoAt(u, o, p, x, z[0])
    BY <1>2, <2>1 DEF HostRuns
  <2>3. AllIn(u, o, q, C) <=> AllIn(u, o, p, C) /\ u[q] \in C
    BY <2>1 DEF AllIn
  <2>4. u[q] # "@"
    BY <2>1
  <2> HIDE DEF p, q, x, y, C
  <2> DEFINE new == http_parse_host_char(x.s, u[q])
  <2>5. HostStepped(x, q, y, new)
    BY <2>1, <2>2, HostStepIs
  <2>6. IF AllIn(u, o, p, C) THEN x.s \in {"s_http_userinfo", "s_http_userinfo_start"}
        ELSE x.s = "s_http_host_dead"
    BY <2>2 DEF UserinfoAt, C
  <2>7. new = IF AllIn(u, o, q, C) THEN "s_http_userinfo" ELSE "s_http_host_dead"
    BY <2>3, <2>4, <2>6, DeadHost DEF C
  <2> HIDE DEF new
  <2>8. y.s = new /\ y.u["host"] = x.u["host"] /\ y.u["port"] = x.u["port"]
        /\ y.u["path"] = x.u["path"] /\ y.u["query"] = x.u["query"]
    BY <2>5, <2>7 DEF HostStepped
  <2>9. UserinfoAt(u, o, q, y, z[0])
    BY <2>2, <2>7, <2>8 DEF UserinfoAt, C
  <2> QED
    BY <2>9 DEF q, y
<1>3. m \in T
  <2>1. m \in 0 .. m /\ m \in Nat
    OBVIOUS
  <2> HIDE DEF T
  <2> QED
    BY <1>1, <1>2, <2>1, Reached
<1> QED
  BY <1>3

HostOk(u, i, p) == InHost(u, i, p) \/ V6Ends(u, i, p) \/ InPort(u, i, p)

(* What http_parse_host finds in the l bytes of u from o on, where w is    *)
(* the position of the first @, or the one behind.                         *)
HostFound(u, U, o, M, w, i, R) ==
  /\ R.ok <=> (w <= M => AllIn(u, o, w - 1, UserinfoChar)) /\ HostOk(u, i, M)
  /\ R.ok => HostFields(u, i, M, R.u)
  /\ R.ok => R.u["path"] = U["path"] /\ R.u["query"] = U["query"]

LEMMA HostParsed ==
  ASSUME NEW u, NEW U \in FieldsSet, NEW o \in Nat \ {0}, NEW l \in Nat,
         U["host"] = [off |-> o, len |-> l], U["port"] = NoField,
         NEW M, M = o + l - 1, NEW w, FirstAt(u, w, o, M, {"@"}), NEW at, at <=> w <= M,
         NEW i, i = IF w <= M THEN w + 1 ELSE o
  PROVE  HostFound(u, U, o, M, w, i, http_parse_host(u, U, at))
<1> DEFINE R == http_parse_host(u, U, at)
           s0 == IF at THEN "s_http_userinfo_start" ELSE "s_http_host_start"
           u0 == [U EXCEPT !["host"] = [off |-> o, len |-> 0]]
           z0 == [s |-> s0, u |-> u0]
           z == CHOOSE x : HostRun(u, x, o, l, z0)
           y == z[l]
<1>1. /\ u0 \in FieldsSet /\ u0["host"].len = 0 /\ u0["port"] = NoField
      /\ u0["path"] = U["path"] /\ u0["query"] = U["query"]
  <2> DEFINE h == [off |-> o, len |-> 0]
  <2>1. h \in FieldSet /\ h.len = 0
    BY DEF FieldSet
  <2> HIDE DEF h
  <2>2. [U EXCEPT !["host"] = h] \in FieldsSet /\ [U EXCEPT !["host"] = h]["host"] = h
        /\ [U EXCEPT !["host"] = h]["port"] = U["port"] /\ [U EXCEPT !["host"] = h]["path"] = U["path"]
        /\ [U EXCEPT !["host"] = h]["query"] = U["query"]
    BY <2>1 DEF FieldsSet, FieldNames
  <2> QED
    BY <2>1, <2>2 DEF h
<1>2. s0 \in HostStates
  BY DEF HostStates, Unfinished
<1>3. [U EXCEPT !.host.len = 0] = u0
  <2> DEFINE g == [U["host"] EXCEPT !.len = 0]
             h == [off |-> o, len |-> 0]
  <2>1. [U EXCEPT !.host.len = 0] = [U EXCEPT !["host"] = g]
    OBVIOUS
  <2>2. g = h
    OBVIOUS
  <2> HIDE DEF g, h
  <2>3. [U EXCEPT !["host"] = g] = [U EXCEPT !["host"] = h]
    BY <2>2
  <2> QED
    BY <2>1, <2>3 DEF h
<1>4. U.host.off = o /\ U.host.len = l
  OBVIOUS
<1>5. R = [ok |-> y.s \notin Unfinished, u |-> y.u]
  <2> DEFINE h == U.host
             g == [U EXCEPT !.host.len = 0]
  <2>1. http_parse_host(u, U, at) =
          LET z1 == [s |-> IF at THEN "s_http_userinfo_start" ELSE "s_http_host_start", u |-> g]
              x == CHOOSE x : x = [n \in 0 .. h.len |->
                     IF n = 0 THEN z1 ELSE HostStep(u, x[n - 1], h.off + n - 1)]
          IN  [ok |-> x[h.len].s \notin Unfinished, u |-> x[h.len].u]
    BY DEF http_parse_host
  <2>2. g = u0 /\ h.off = o /\ h.len = l
    BY <1>3, <1>4
  <2> HIDE DEF g, h, u0
  <2> QED
    BY <2>1, <2>2 DEF HostRun
<1> HIDE DEF u0, s0
<1>6. z0 \in HostZ
  BY <1>1, <1>2 DEF HostZ
<1>7. z0.s = s0 /\ z0.u = u0
  OBVIOUS
<1> HIDE DEF z0
<1>8. HostRun(u, z, o, l, z0)
  BY <1>6, HostRunExists
<1> HIDE DEF z
<1>9. z[0] = z0 /\ HostRuns(u, z, o, l)
  BY <1>6, <1>8, HostRunIs
<1>10. y \in HostZ
  BY <1>9 DEF HostRuns
<1> HIDE DEF y, R
<1> SUFFICES HostFound(u, U, o, M, w, i, R)
  BY DEF R
<1>11. R.ok <=> y.s \in {"s_http_host", "s_http_host_v6_end", "s_http_host_port"}
  BY <1>5, <1>10 DEF HostZ, HostStates, Unfinished
<1>12. R.u = y.u
  BY <1>5
<1>13. ASSUME NEW m \in 0 .. l, i = o + m, z[m].s = "s_http_host_start",
              z[m].u["host"].len = 0, z[m].u["port"] = NoField,
              z[m].u["path"] = U["path"], z[m].u["query"] = U["query"]
       PROVE  /\ R.ok <=> HostOk(u, i, M)
              /\ HostFields(u, i, M, R.u)
              /\ R.u["path"] = U["path"] /\ R.u["query"] = U["query"]
  <2>1. HostAt(u, i, o + l - 1, y, z[m])
    BY <1>9, <1>13, HostTail DEF y
  <2>2. HostState(u, i, M, y.s) /\ HostFields(u, i, M, y.u)
        /\ y.u["path"] = z[m].u["path"] /\ y.u["query"] = z[m].u["query"]
    BY <2>1 DEF HostAt
  <2> QED
    BY <1>11, <1>12, <1>13, <2>2 DEF HostState, HostOk
<1>14. CASE ~ (w <= M)
  <2>1. 0 \in 0 .. l /\ i = o + 0 /\ z[0].s = "s_http_host_start"
    BY <1>7, <1>9, <1>14 DEF s0
  <2> QED
    BY <1>1, <1>7, <1>9, <1>13, <1>14, <2>1 DEF HostFound
<1>15. CASE w <= M
  <2> DEFINE k == w - o
             m == k + 1
             p == w - 1
             x == z[k]
             v == z[m]
             C == UserinfoChar
  <2>1. /\ w \in o .. M /\ u[w] = "@" /\ \A j \in o .. M : j < w => u[j] # "@"
    BY <1>15 DEF FirstAt
  <2>2. /\ k \in 0 .. l /\ m \in 1 .. l /\ m \in 0 .. l /\ m - 1 = k /\ o + k - 1 = p /\ o + m - 1 = w
        /\ i = o + m /\ w \in Nat
    BY <1>15, <2>1
  <2>3. \A j \in o .. o + k - 1 : u[j] # "@"
    BY <2>1
  <2>4. z[0].s = "s_http_userinfo_start"
    BY <1>7, <1>9, <1>15 DEF s0
  <2> HIDE DEF k
  <2>5. UserinfoAt(u, o, o + k - 1, z[k], z[0])
    BY <1>9, <2>2, <2>3, <2>4, UserinfoRun
  <2>6. UserinfoAt(u, o, p, x, z[0])
    BY <2>2, <2>5
  <2>7. x \in HostZ /\ v = HostStep(u, x, w)
    BY <1>9, <2>2 DEF HostRuns
  <2> HIDE DEF x, v, m, p
  <2> DEFINE new == http_parse_host_char(x.s, u[w])
  <2>8. HostStepped(x, w, v, new)
    BY <2>2, <2>7, HostStepIs
  <2>9. new = IF AllIn(u, o, p, C) THEN "s_http_host_start" ELSE "s_http_host_dead"
    BY <2>1, <2>6, DeadHost DEF UserinfoAt
  <2> HIDE DEF new
  <2>10. v.s = new /\ v.u = x.u
    BY <2>8, <2>9 DEF HostStepped
  <2>11. /\ v.u["host"].len = 0 /\ v.u["port"] = NoField
         /\ v.u["path"] = U["path"] /\ v.u["query"] = U["query"]
    BY <1>1, <1>7, <1>9, <2>6, <2>10 DEF UserinfoAt
  <2>12. CASE AllIn(u, o, p, C)
    <3>1. z[m].s = "s_http_host_start"
      BY <2>9, <2>10, <2>12 DEF v
    <3>2. /\ R.ok <=> HostOk(u, i, M)
          /\ HostFields(u, i, M, R.u)
          /\ R.u["path"] = U["path"] /\ R.u["query"] = U["query"]
      BY <1>13, <2>2, <2>11, <3>1 DEF v
    <3> QED
      BY <1>15, <2>12, <3>2 DEF p, HostFound
  <2>13. CASE ~ AllIn(u, o, p, C)
    <3>1. z[m].s = "s_http_host_dead"
      BY <2>9, <2>10, <2>13 DEF v
    <3>2. y.s = "s_http_host_dead"
      BY <1>9, <2>2, <3>1, DeadTail DEF y
    <3>3. ~ R.ok
      BY <1>11, <3>2
    <3> QED
      BY <1>15, <2>13, <3>3 DEF p, HostFound
  <2> QED
    BY <2>12, <2>13
<1> QED
  BY <1>14, <1>15

-----------------------------------------------------------------------------
(* The host of the definition is the one that the automaton finds. *)

HostEnds(u, i, c) == InHost(u, i, c - 1) \/ V6Ends(u, i, c - 1)

PortBehind(u, M, c) == c <= M => u[c] = ":" /\ c < M /\ AllIn(u, c + 1, M, Decimal)

(* There is no other place where the host may end. *)
OnlyEnd(u, i, M, c) ==
  \A d \in i .. M + 1 : HostEnds(u, i, d) /\ (d <= M => u[d] = ":") => d = c

LEMMA EndsOnce ==
  ASSUME NEW u, NEW i \in Nat \ {0}, NEW M \in Nat, NEW c \in i .. M + 1, OnlyEnd(u, i, M, c)
  PROVE  HostOk(u, i, M) <=> HostEnds(u, i, c) /\ PortBehind(u, M, c)
<1>1. ASSUME HostOk(u, i, M) PROVE HostEnds(u, i, c) /\ PortBehind(u, M, c)
  <2>1. CASE InHost(u, i, M) \/ V6Ends(u, i, M)
    <3>1. M + 1 \in i .. M + 1 /\ (M + 1) - 1 = M /\ ~ (M + 1 <= M)
      OBVIOUS
    <3>2. HostEnds(u, i, M + 1)
      BY <2>1, <3>1 DEF HostEnds
    <3>3. M + 1 = c
      BY <3>1, <3>2 DEF OnlyEnd
    <3> QED
      BY <3>1, <3>2, <3>3 DEF PortBehind
  <2>2. CASE InPort(u, i, M)
    <3>1. PICK d \in i .. M - 1 : AtPort(u, i, d) /\ AllIn(u, d + 1, M, Decimal)
      BY <2>2 DEF InPort
    <3>2. d \in i .. M + 1 /\ d < M
      OBVIOUS
    <3>3. HostEnds(u, i, d) /\ u[d] = ":"
      BY <3>1 DEF AtPort, HostEnds
    <3>4. d = c
      BY <3>2, <3>3 DEF OnlyEnd
    <3> QED
      BY <3>1, <3>2, <3>3, <3>4 DEF PortBehind
  <2> QED
    BY <1>1, <2>1, <2>2 DEF HostOk
<1>2. ASSUME HostEnds(u, i, c), PortBehind(u, M, c) PROVE HostOk(u, i, M)
  <2>1. CASE c <= M
    <3>1. u[c] = ":" /\ c \in i .. M - 1 /\ AllIn(u, c + 1, M, Decimal)
      BY <1>2, <2>1 DEF PortBehind
    <3>2. AtPort(u, i, c)
      BY <1>2, <3>1 DEF HostEnds, AtPort
    <3> QED
      BY <3>1, <3>2 DEF InPort, HostOk
  <2>2. CASE ~ (c <= M)
    <3>1. c - 1 = M
      BY <2>2
    <3> QED
      BY <1>2, <3>1 DEF HostEnds, HostOk
  <2> QED
    BY <2>1, <2>2
<1> QED
  BY <1>1, <1>2

LEMMA FieldPiece ==
  ASSUME NEW u, NEW S, u \in Seq(S), "NUL" \notin S, NEW a \in Nat \ {0}, NEW n \in Nat,
         a + n - 1 <= Len(u), NEW f, f = [off |-> a, len |-> n]
  PROVE  Piece(Field(u, f), u, a - 1, n, S)
<1>1. Field(u, f) = SubSeq(u, a, a + n - 1)
  BY DEF Field
<1> DEFINE x == SubSeq(u, a, a + n - 1)
           o == a - 1
<1>2. o \in Nat /\ o + n <= Len(u)
  OBVIOUS
<1>3. x \in Seq(S) /\ Len(x) = n /\ \A k \in 1 .. n : x[k] = u[o + k]
  OBVIOUS
<1> HIDE DEF x, o
<1>4. Piece(x, u, o, n, S)
  BY <1>2, <1>3 DEF Piece
<1> QED
  BY <1>1, <1>4 DEF x, o

LEMMA FieldEmpty ==
  ASSUME NEW u, NEW S, u \in Seq(S)
  PROVE  Field(u, NoField) = <<>>
BY DEF Field, NoField

(* What a provider is made for, the host being split. *)
Requested(u, f) ==
  IF Port(Field(u, f["port"])) <= MaxPort
  THEN {[host |-> Field(u, f["host"]),
         port |-> IF Port(Field(u, f["port"])) = 0 THEN 80 ELSE Port(Field(u, f["port"]))]}
  ELSE {}

HostsGive(fits, after, name) ==
  LET port == SubSeq(after, 2, Len(after))
  IN  IF fits /\ (after # <<>> => after[1] = ":" /\ port # <<>> /\ Over(port, Decimal))
         /\ Port(port) <= MaxPort
      THEN {[host |-> name, port |-> IF Port(port) = 0 THEN 80 ELSE Port(port)]}
      ELSE {}

HostOff(u, i, c) == IF InHost(u, i, c - 1) THEN i ELSE i + 1
HostLen(u, i, c) == IF InHost(u, i, c - 1) THEN c - i ELSE (c - i) - 2

Gives(u, i, M, c, after, name, f) ==
  HostsGive(HostEnds(u, i, c), after, name) = IF HostOk(u, i, M) THEN Requested(u, f) ELSE {}

LEMMA HostsWith ==
  ASSUME NEW u, NEW S, NEW i \in Nat \ {0}, NEW M \in Nat, NEW c \in i .. M + 1, OnlyEnd(u, i, M, c),
         NEW after, Piece(after, u, c - 1, (M + 1) - c, S),
         NEW name, HostEnds(u, i, c) => Piece(name, u, HostOff(u, i, c) - 1, HostLen(u, i, c), S),
         NEW f, HostOk(u, i, M) => HostFields(u, i, M, f)
  PROVE  Gives(u, i, M, c, after, name, f)
<1> DEFINE port == SubSeq(after, 2, Len(after))
           behind == after # <<>> => after[1] = ":" /\ port # <<>> /\ Over(port, Decimal)
<1>1. HostOk(u, i, M) <=> HostEnds(u, i, c) /\ PortBehind(u, M, c)
  BY EndsOnce
<1>2. u \in Seq(S) /\ "NUL" \notin S /\ M <= Len(u) /\ Len(u) \in Nat
  BY DEF Piece
<1>3. after = <<>> <=> c = M + 1
  <2>1. after = <<>> <=> (M + 1) - c = 0
    BY EmptyPiece
  <2> QED
    BY <2>1
<1>4. ASSUME c <= M
      PROVE  after[1] = u[c] /\ Piece(port, u, c, M - c, S)
  <2> DEFINE l == (M + 1) - c
             o == c - 1
  <2>1. l \in Nat \ {0} /\ o + 1 = c /\ l - 1 = M - c
    BY <1>4
  <2> HIDE DEF l, o
  <2>2. Piece(after, u, o, l, S)
    BY DEF l, o
  <2>3. Piece(Tail(after), u, o + 1, l - 1, S) /\ after[1] = u[o + 1]
        /\ Tail(after) = SubSeq(after, 2, Len(after))
    BY <2>1, <2>2, TailOfPiece
  <2> QED
    BY <2>1, <2>3
<1>5. behind <=> PortBehind(u, M, c)
  <2>1. CASE c <= M
    <3>1. port = <<>> <=> M - c = 0
      BY <1>4, <2>1, EmptyPiece
    <3>2. Over(port, Decimal) <=> AllIn(u, c + 1, c + (M - c), Decimal)
      BY <1>4, <2>1, PieceOver
    <3>3. c + (M - c) = M /\ (M - c = 0 <=> ~ (c < M)) /\ c # M + 1
      BY <2>1
    <3> QED
      BY <1>3, <1>4, <2>1, <3>1, <3>2, <3>3 DEF PortBehind
  <2>2. CASE ~ (c <= M)
    <3>1. c = M + 1
      BY <2>2
    <3> QED
      BY <1>3, <2>2, <3>1 DEF PortBehind
  <2> QED
    BY <2>1, <2>2
<1>6. HostsGive(HostEnds(u, i, c), after, name) =
        IF HostEnds(u, i, c) /\ behind /\ Port(port) <= MaxPort
        THEN {[host |-> name, port |-> IF Port(port) = 0 THEN 80 ELSE Port(port)]}
        ELSE {}
  BY DEF HostsGive
<1> HIDE DEF behind
<1>7. CASE ~ HostOk(u, i, M)
  BY <1>1, <1>5, <1>6, <1>7 DEF Gives
<1>8. CASE HostOk(u, i, M)
  <2>1. HostFields(u, i, M, f) /\ HostEnds(u, i, c) /\ PortBehind(u, M, c)
    BY <1>1, <1>8
  <2>2. ~ (InHost(u, i, c - 1) /\ V6Ends(u, i, c - 1))
    <3> SUFFICES ASSUME InHost(u, i, c - 1), V6Ends(u, i, c - 1) PROVE FALSE
      OBVIOUS
    <3>1. u[i] \in HostChar
      BY DEF InHost, AllIn
    <3>2. InV6(u, i, (c - 1) - 1) \/ InZone(u, i, (c - 1) - 1)
      BY DEF V6Ends
    <3>3. u[i] = "["
      BY <3>2 DEF InZone, InV6, AtZone
    <3> QED
      BY <3>1, <3>3, CharsOfHost
  <2>3. f["host"] = [off |-> HostOff(u, i, c), len |-> HostLen(u, i, c)]
        /\ f["port"] = IF c <= M THEN [off |-> c + 1, len |-> M - c] ELSE NoField
    <3>1. CASE c <= M
      <4>1. AtPort(u, i, c) /\ AllIn(u, c + 1, M, Decimal) /\ c \in i .. M /\ c < M
        BY <2>1, <3>1 DEF PortBehind, AtPort, HostEnds
      <4>2. PortFields(u, i, M, c, f)
        BY <2>1, <4>1 DEF HostFields
      <4>3. /\ InHost(u, i, c - 1) => f["host"] = [off |-> i, len |-> c - i]
            /\ V6Ends(u, i, c - 1) => f["host"] = [off |-> i + 1, len |-> (c - i) - 2]
            /\ f["port"] = [off |-> c + 1, len |-> M - c]
        BY <4>1, <4>2 DEF PortFields
      <4> QED
        BY <2>1, <3>1, <4>3 DEF HostOff, HostLen, HostEnds
    <3>2. CASE ~ (c <= M)
      <4>1. c - 1 = M /\ (M - i) + 1 = c - i /\ (M - i) - 1 = (c - i) - 2
        BY <3>2
      <4>2. /\ InHost(u, i, M) => f["host"] = [off |-> i, len |-> (M - i) + 1]
            /\ V6Ends(u, i, M) => f["host"] = [off |-> i + 1, len |-> (M - i) - 1]
            /\ InHost(u, i, M) \/ V6Ends(u, i, M) => f["port"] = NoField
        BY <2>1 DEF HostFields
      <4>3. InHost(u, i, M) \/ V6Ends(u, i, M)
        BY <2>1, <4>1 DEF HostEnds
      <4>4. InHost(u, i, c - 1) <=> InHost(u, i, M)
        BY <4>1
      <4> QED
        BY <3>2, <4>1, <4>2, <4>3, <4>4 DEF HostOff, HostLen
    <3> QED
      BY <3>1, <3>2
  <2>4. Field(u, f["port"]) = port
    <3>1. CASE c <= M
      <4>1. c + 1 \in Nat \ {0} /\ M - c \in Nat /\ (c + 1) + (M - c) - 1 <= Len(u) /\ (c + 1) - 1 = c
        BY <1>2, <3>1
      <4>2. f["port"] = [off |-> c + 1, len |-> M - c]
        BY <2>3, <3>1
      <4>3. Piece(Field(u, f["port"]), u, (c + 1) - 1, M - c, S)
        BY <1>2, <4>1, <4>2, FieldPiece
      <4>4. Piece(Field(u, f["port"]), u, c, M - c, S)
        BY <4>1, <4>3
      <4> QED
        BY <1>4, <3>1, <4>4, SamePiece
    <3>2. CASE ~ (c <= M)
      <4>1. after = <<>> /\ f["port"] = NoField
        BY <1>3, <2>3, <3>2
      <4>2. port = <<>>
        BY <4>1
      <4> QED
        BY <1>2, <4>1, <4>2, FieldEmpty
    <3> QED
      BY <3>1, <3>2
  <2>5. Field(u, f["host"]) = name
    <3> DEFINE a == HostOff(u, i, c)
               n == HostLen(u, i, c)
    <3>1. Piece(name, u, a - 1, n, S)
      BY <2>1
    <3>2. a \in Nat \ {0}
      BY DEF HostOff
    <3> HIDE DEF a, n
    <3>3. n \in Nat /\ (a - 1) + n <= Len(u)
      BY <3>1 DEF Piece
    <3>4. a + n - 1 <= Len(u)
      BY <1>2, <3>2, <3>3
    <3>5. f["host"] = [off |-> a, len |-> n]
      BY <2>3 DEF a, n
    <3>6. Piece(Field(u, f["host"]), u, a - 1, n, S)
      BY <1>2, <3>2, <3>3, <3>4, <3>5, FieldPiece
    <3> QED
      BY <3>1, <3>6, SamePiece
  <2>6. behind
    BY <1>5, <2>1
  <2>7. Requested(u, f) = IF Port(port) <= MaxPort
                          THEN {[host |-> name, port |-> IF Port(port) = 0 THEN 80 ELSE Port(port)]}
                          ELSE {}
    BY <2>4, <2>5 DEF Requested
  <2> HIDE DEF port
  <2> QED
    BY <1>6, <1>8, <2>1, <2>6, <2>7 DEF Gives
<1> QED
  BY <1>7, <1>8

HostsAre(u, i, M, s, f) == Hosts(s) = IF HostOk(u, i, M) THEN Requested(u, f) ELSE {}

(* A name before the colon. *)
LEMMA NamedHost ==
  ASSUME NEW u, NEW S, NEW i \in Nat \ {0}, NEW m \in Nat \ {0}, NEW M, M = i - 1 + m,
         NEW s, Piece(s, u, i - 1, m, S), u[i] # "[",
         NEW f, HostOk(u, i, M) => HostFields(u, i, M, f)
  PROVE  HostsAre(u, i, M, s, f)
<1> DEFINE name  == Cut(s, {":"})
           after == Rest(s, {":"})
           fits  == name # <<>> /\ Over(name, HostChar)
           e == From(s, 1, {":"}) - 1
           c == i + e
           o == i - 1
<1>0. o \in Nat /\ M \in Nat /\ o + 1 = i /\ o + m = M
  OBVIOUS
<1> HIDE DEF o
<1>1. Piece(s, u, o, m, S)
  BY DEF o
<1>2. s # <<>> /\ Head(s) # "["
  BY <1>0, <1>1, FirstOfPiece
<1>3. /\ e \in 0 .. m
      /\ Piece(name, u, o, e, S) /\ Piece(after, u, o + e, m - e, S)
      /\ FirstAt(u, (o + e) + 1, o + 1, o + m, {":"})
  BY <1>1, CutPiece
<1> HIDE DEF e
<1>4. /\ c \in i .. M + 1 /\ (o + e) + 1 = c /\ o + e = c - 1 /\ m - e = (M + 1) - c
      /\ e = c - i
  BY <1>0, <1>3
<1>5. FirstAt(u, c, i, M, {":"})
  BY <1>0, <1>3, <1>4
<1>6. (c <= M => u[c] = ":") /\ \A k \in i .. M : k < c => u[k] # ":"
  BY <1>5 DEF FirstAt
<1>7. name = <<>> <=> e = 0
  BY <1>3, EmptyPiece
<1>8. Over(name, HostChar) <=> AllIn(u, i, c - 1, HostChar)
  <2>1. Over(name, HostChar) <=> AllIn(u, o + 1, o + e, HostChar)
    BY <1>3, PieceOver
  <2> QED
    BY <1>0, <1>4, <2>1
<1>9. \A d : ~ V6Ends(u, i, d)
  <2> SUFFICES ASSUME NEW d, V6Ends(u, i, d) PROVE FALSE
    OBVIOUS
  <2>1. InV6(u, i, d - 1) \/ InZone(u, i, d - 1)
    BY DEF V6Ends
  <2> QED
    BY <2>1 DEF InV6, InZone, AtZone
<1>10. fits <=> HostEnds(u, i, c)
  <2>1. e = 0 <=> ~ (i <= c - 1)
    BY <1>3, <1>4
  <2> QED
    BY <1>7, <1>8, <1>9, <2>1 DEF HostEnds, InHost
<1>11. ASSUME NEW d \in i .. M + 1, HostEnds(u, i, d), d <= M => u[d] = ":"
       PROVE  d = c
  <2>1. AllIn(u, i, d - 1, HostChar)
    BY <1>9, <1>11 DEF HostEnds, InHost
  <2>2. CASE d < c
    <3>1. d \in i .. M /\ d < c
      BY <1>4, <2>2
    <3> QED
      BY <1>6, <1>11, <3>1
  <2>3. CASE c < d
    <3>1. c <= M /\ c \in i .. d - 1
      BY <1>4, <2>3
    <3>2. u[c] = ":" /\ u[c] \in HostChar
      BY <1>6, <2>1, <3>1 DEF AllIn
    <3> QED
      BY <3>2, CharsOfHost
  <2> QED
    BY <1>4, <2>2, <2>3
<1>12. OnlyEnd(u, i, M, c)
  BY <1>11 DEF OnlyEnd
<1>13. Piece(after, u, c - 1, (M + 1) - c, S)
  BY <1>3, <1>4
<1>14. HostEnds(u, i, c) => Piece(name, u, HostOff(u, i, c) - 1, HostLen(u, i, c), S)
  <2> SUFFICES ASSUME HostEnds(u, i, c) PROVE Piece(name, u, HostOff(u, i, c) - 1, HostLen(u, i, c), S)
    OBVIOUS
  <2>1. InHost(u, i, c - 1)
    BY <1>9 DEF HostEnds
  <2>2. HostOff(u, i, c) = i /\ HostLen(u, i, c) = e
    BY <1>4, <2>1 DEF HostOff, HostLen
  <2> QED
    BY <1>3, <2>2 DEF o
<1>15. Hosts(s) = HostsGive(HostEnds(u, i, c), after, name)
  <2>1. Hosts(s) = HostsGive(fits, after, name)
    BY <1>2 DEF Hosts, HostsGive
  <2> HIDE DEF c, name, after
  <2> QED
    BY <1>10, <2>1 DEF HostsGive
<1> HIDE DEF c, name, after, fits
<1>16. HostsGive(HostEnds(u, i, c), after, name) = IF HostOk(u, i, M) THEN Requested(u, f) ELSE {}
  <2>1. c \in i .. M + 1 /\ M \in Nat
    BY <1>0, <1>4
  <2>2. Gives(u, i, M, c, after, name, f)
    BY <1>12, <1>13, <1>14, <2>1, HostsWith
  <2> QED
    BY <2>2 DEF Gives
<1> QED
  BY <1>15, <1>16 DEF HostsAre

(* The end of an address in brackets. *)
LEMMA BracketEnds ==
  ASSUME NEW u, NEW i \in Nat \ {0}, u[i] = "[", NEW b \in Nat, b > i, FirstAt(u, b, i + 1, b, {"]"}),
         NEW d, FirstAt(u, d, i + 1, b - 1, {"%"})
  PROVE  V6Ends(u, i, b) <=>
           /\ d > i + 1 /\ AllIn(u, i + 1, d - 1, V6Char)
           /\ d < b => b - d > 1 /\ AllIn(u, d + 1, b - 1, ZoneChar)
<1>1. /\ d \in i + 1 .. b /\ (d <= b - 1 => u[d] = "%")
      /\ \A k \in i + 1 .. b - 1 : k < d => u[k] # "%"
      /\ d \in Nat
  BY DEF FirstAt
<1>2. u[b] = "]"
  BY DEF FirstAt
<1>3. ASSUME V6Ends(u, i, b)
      PROVE  /\ d > i + 1 /\ AllIn(u, i + 1, d - 1, V6Char)
             /\ d < b => b - d > 1 /\ AllIn(u, d + 1, b - 1, ZoneChar)
  <2>1. CASE InV6(u, i, b - 1)
    <3>1. i + 1 <= b - 1 /\ AllIn(u, i + 1, b - 1, V6Char)
      BY <2>1 DEF InV6
    <3>2. ~ (d <= b - 1)
      <4> SUFFICES ASSUME d <= b - 1 PROVE FALSE
        OBVIOUS
      <4>1. d \in i + 1 .. b - 1
        BY <1>1
      <4>2. u[d] = "%" /\ u[d] \in V6Char
        BY <1>1, <3>1, <4>1 DEF AllIn
      <4> QED
        BY <4>2, CharsOfHost
    <3>3. d = b
      BY <1>1, <3>2
    <3> QED
      BY <3>1, <3>3
  <2>2. CASE InZone(u, i, b - 1)
    <3>1. PICK j \in i .. (b - 1) - 1 : AtZone(u, i, j) /\ AllIn(u, j + 1, b - 1, ZoneChar)
      BY <2>2 DEF InZone
    <3>2. i + 1 <= j - 1 /\ AllIn(u, i + 1, j - 1, V6Char) /\ u[j] = "%"
      BY <3>1 DEF AtZone, InV6
    <3>3. j \in i + 1 .. b - 1
      BY <3>2
    <3>4. CASE j < d
      BY <1>1, <3>2, <3>3, <3>4
    <3>5. CASE d < j
      <4>1. d \in i + 1 .. j - 1 /\ d <= b - 1
        BY <1>1, <3>3, <3>5
      <4>2. u[d] = "%" /\ u[d] \in V6Char
        BY <1>1, <3>2, <4>1 DEF AllIn
      <4> QED
        BY <4>2, CharsOfHost
    <3>6. CASE d = j
      BY <3>1, <3>2, <3>6
    <3> QED
      BY <1>1, <3>4, <3>5, <3>6
  <2> QED
    BY <1>3, <2>1, <2>2 DEF V6Ends
<1>4. ASSUME d > i + 1, AllIn(u, i + 1, d - 1, V6Char),
             d < b => b - d > 1 /\ AllIn(u, d + 1, b - 1, ZoneChar)
      PROVE  V6Ends(u, i, b)
  <2>1. i + 1 <= d - 1
    BY <1>1, <1>4
  <2>2. InV6(u, i, d - 1)
    BY <1>4, <2>1 DEF InV6
  <2>3. CASE d < b
    <3>1. AtZone(u, i, d) /\ d \in i .. (b - 1) - 1
      BY <1>1, <1>4, <2>2, <2>3 DEF AtZone
    <3>2. InZone(u, i, b - 1)
      BY <1>4, <2>3, <3>1 DEF InZone
    <3> QED
      BY <1>2, <3>2 DEF V6Ends
  <2>4. CASE d = b
    BY <1>2, <2>2, <2>4 DEF V6Ends
  <2> QED
    BY <1>1, <2>3, <2>4
<1> QED
  BY <1>3, <1>4

LEMMA BracketBytes ==
  ASSUME NEW u, NEW i \in Nat \ {0}, NEW b \in Nat, V6Ends(u, i, b)
  PROVE  u[b] = "]" /\ b > i /\ \A k \in i .. b - 1 : u[k] # "]"
<1>1. u[b] = "]"
  BY DEF V6Ends
<1>2. CASE InV6(u, i, b - 1)
  <2>1. i + 1 <= b - 1 /\ u[i] = "[" /\ \A k \in i + 1 .. b - 1 : u[k] \in V6Char
    BY <1>2 DEF InV6, AllIn
  <2>2. \A k \in i .. b - 1 : k = i \/ k \in i + 1 .. b - 1
    OBVIOUS
  <2> QED
    BY <1>1, <2>1, <2>2, CharsOfHost
<1>3. CASE InZone(u, i, b - 1)
  <2>1. PICK j \in i .. (b - 1) - 1 : AtZone(u, i, j) /\ \A k \in j + 1 .. b - 1 : u[k] \in ZoneChar
    BY <1>3 DEF InZone, AllIn
  <2>2. /\ i + 1 <= j - 1 /\ u[i] = "[" /\ \A k \in i + 1 .. j - 1 : u[k] \in V6Char
        /\ u[j] = "%"
    BY <2>1 DEF AtZone, InV6, AllIn
  <2>3. \A k \in i .. b - 1 : k = i \/ k \in i + 1 .. j - 1 \/ k = j \/ k \in j + 1 .. b - 1
    OBVIOUS
  <2>4. b > i
    OBVIOUS
  <2> QED
    BY <1>1, <2>1, <2>2, <2>3, <2>4, CharsOfHost
<1> QED
  BY <1>2, <1>3 DEF V6Ends

LEMMA FirstOnce ==
  ASSUME NEW u, NEW C, NEW i \in Nat, NEW n \in Nat, NEW d, NEW e,
         FirstAt(u, d, i, n, C), FirstAt(u, e, i, n, C)
  PROVE  d = e
BY DEF FirstAt

(* An address in brackets. *)
LEMMA BracketHost ==
  ASSUME NEW u, NEW S, NEW i \in Nat \ {0}, NEW m \in Nat \ {0}, NEW M, M = i - 1 + m,
         NEW s, Piece(s, u, i - 1, m, S), u[i] = "[",
         NEW f, HostOk(u, i, M) => HostFields(u, i, M, f)
  PROVE  HostsAre(u, i, M, s, f)
<1> DEFINE t == Tail(s)
           inner == Cut(t, {"]"})
           rest  == Rest(s, {"]"})
           v6    == Cut(inner, {"%"})
           zone  == Rest(inner, {"%"})
           inside == /\ v6 # <<>> /\ Over(v6, V6Char)
                     /\ zone # <<>> => Len(zone) > 1 /\ Over(Tail(zone), ZoneChar)
           e == From(t, 1, {"]"}) - 1
           g == From(s, 1, {"]"}) - 1
           h == From(inner, 1, {"%"}) - 1
           b == i + e + 1
           d == i + h + 1
           o == i - 1
           m1 == m - 1
<1>0. /\ o \in Nat /\ M \in Nat /\ o + 1 = i /\ o + m = M /\ m1 \in Nat /\ i + m1 = M /\ m1 = m - 1
      /\ i <= M
  OBVIOUS
<1> HIDE DEF o, m1
<1>1. Piece(s, u, o, m, S)
  BY DEF o
<1>2. s # <<>> /\ Head(s) = "["
  BY <1>0, <1>1, FirstOfPiece
<1>3. Piece(t, u, i, m1, S)
  <2>1. Piece(Tail(s), u, o + 1, m - 1, S)
    BY <1>1, TailOfPiece
  <2> QED
    BY <1>0, <2>1
<1> HIDE DEF t
<1>4. e \in 0 .. m1 /\ Piece(inner, u, i, e, S) /\ FirstAt(u, (i + e) + 1, i + 1, i + m1, {"]"})
  BY <1>3, CutPiece
<1>5. g \in 0 .. m /\ Piece(rest, u, o + g, m - g, S) /\ FirstAt(u, (o + g) + 1, o + 1, o + m, {"]"})
  BY <1>1, CutPiece
<1> HIDE DEF inner, e
<1>6. /\ h \in 0 .. e /\ Piece(v6, u, i, h, S) /\ Piece(zone, u, i + h, e - h, S)
      /\ FirstAt(u, (i + h) + 1, i + 1, i + e, {"%"})
  BY <1>4, CutPiece
<1> HIDE DEF g, h, rest, v6, zone
<1>7. b \in i + 1 .. M + 1 /\ b = (i + e) + 1 /\ d = (i + h) + 1 /\ b - 1 = i + e /\ d - 1 = i + h
      /\ d \in i + 1 .. b /\ e - h = b - d /\ e = (b - i) - 1 /\ d \in Nat /\ b \in Nat
  BY <1>0, <1>4, <1>6
<1>8. FirstAt(u, b, i + 1, M, {"]"}) /\ FirstAt(u, d, i + 1, b - 1, {"%"})
  BY <1>0, <1>4, <1>6, <1>7
<1>9. FirstAt(u, b, i, M, {"]"})
  <2>1. \A k \in i .. M : k = i \/ k \in i + 1 .. M
    OBVIOUS
  <2>2. b \in i .. M + 1
    BY <1>7
  <2> QED
    BY <1>8, <2>1, <2>2 DEF FirstAt
<1>10. (o + g) + 1 = b /\ o + g = b - 1 /\ m - g = (M - b) + 1
  <2>1. FirstAt(u, (o + g) + 1, i, M, {"]"})
    BY <1>0, <1>5
  <2>2. (o + g) + 1 = b
    BY <1>0, <1>9, <2>1, FirstOnce
  <2> QED
    BY <1>0, <1>5, <1>7, <2>2
<1>11. Piece(rest, u, b - 1, (M - b) + 1, S)
  BY <1>5, <1>10
<1> HIDE DEF b, d
<1>12. Has(s, "]") <=> b <= M
  <2>1. Has(s, "]") <=> \E k \in o + 1 .. o + m : u[k] = "]"
    BY <1>1, PieceHas
  <2>2. Has(s, "]") <=> \E k \in i .. M : u[k] = "]"
    BY <1>0, <2>1
  <2>3. b \in Nat /\ b >= i /\ (b <= M => u[b] = "]") /\ \A k \in i .. M : k < b => u[k] # "]"
    BY <1>7, <1>9 DEF FirstAt
  <2>4. b <= M => b \in i .. M
    BY <1>0, <2>3
  <2>5. ~ (b <= M) => \A k \in i .. M : k < b
    BY <1>0, <2>3
  <2> QED
    BY <2>2, <2>3, <2>4, <2>5
<1>13. \A k : ~ InHost(u, i, k)
  BY CharsOfHost DEF InHost, AllIn
<1>14. \A k \in Nat : V6Ends(u, i, k) /\ k <= M => k = b
  <2> SUFFICES ASSUME NEW k \in Nat, V6Ends(u, i, k), k <= M PROVE k = b
    OBVIOUS
  <2>1. u[k] = "]" /\ k > i /\ \A j \in i .. k - 1 : u[j] # "]"
    BY BracketBytes
  <2>2. FirstAt(u, k, i, M, {"]"})
    <3>1. \A j \in i .. M : j < k => j \in i .. k - 1
      OBVIOUS
    <3> QED
      BY <1>0, <2>1, <3>1 DEF FirstAt
  <2> QED
    BY <1>0, <1>9, <2>2, FirstOnce
<1>15. Hosts(s) = HostsGive(Has(s, "]") /\ inside, Tail(rest), inner)
  <2>1. HexChar \union {":", "."} = V6Char
    BY DEF V6Char
  <2> QED
    BY <1>2, <2>1 DEF Hosts, HostsGive, t, inner, rest, v6, zone
<1>16. CASE ~ (b <= M)
  <2>1. Hosts(s) = {}
    BY <1>12, <1>15, <1>16 DEF HostsGive
  <2>2. \A k \in Nat : k <= M => ~ V6Ends(u, i, k)
    BY <1>14, <1>16
  <2>3. ~ InPort(u, i, M)
    <3> SUFFICES ASSUME NEW k \in i .. M - 1, AtPort(u, i, k) PROVE FALSE
      BY DEF InPort
    <3>1. V6Ends(u, i, k - 1) /\ k - 1 \in Nat /\ k - 1 <= M
      BY <1>0, <1>13 DEF AtPort
    <3> QED
      BY <2>2, <3>1
  <2>4. ~ HostOk(u, i, M)
    BY <1>0, <1>13, <2>2, <2>3 DEF HostOk
  <2> QED
    BY <2>1, <2>4 DEF HostsAre
<1>17. CASE b <= M
  <2> DEFINE c == b + 1
             after == Tail(rest)
  <2>1. c \in i .. M + 1 /\ c - 1 = b /\ b \in Nat /\ b > i /\ M - b = (M + 1) - c
    BY <1>0, <1>7, <1>17
  <2>2. FirstAt(u, b, i + 1, b, {"]"})
    <3>1. \A k \in i + 1 .. b : k \in i + 1 .. M
      BY <1>0, <1>7, <1>17
    <3>2. b \in i + 1 .. b + 1
      BY <1>7
    <3> QED
      BY <1>8, <1>17, <3>1, <3>2 DEF FirstAt
  <2>3. V6Ends(u, i, b) <=>
          /\ d > i + 1 /\ AllIn(u, i + 1, d - 1, V6Char)
          /\ d < b => b - d > 1 /\ AllIn(u, d + 1, b - 1, ZoneChar)
    BY <1>8, <2>1, <2>2, BracketEnds
  <2>4. v6 # <<>> <=> d > i + 1
    <3>1. v6 = <<>> <=> h = 0
      BY <1>6, EmptyPiece
    <3> QED
      BY <1>6, <1>7, <3>1
  <2>5. Over(v6, V6Char) <=> AllIn(u, i + 1, d - 1, V6Char)
    <3>1. Over(v6, V6Char) <=> AllIn(u, i + 1, i + h, V6Char)
      BY <1>6, PieceOver
    <3> QED
      BY <1>7, <3>1
  <2>6. zone # <<>> <=> d < b
    <3>1. zone = <<>> <=> e - h = 0
      BY <1>6, EmptyPiece
    <3> QED
      BY <1>7, <3>1
  <2>7. Len(zone) = b - d
    BY <1>6, <1>7 DEF Piece
  <2>8. ASSUME d < b
        PROVE  Over(Tail(zone), ZoneChar) <=> AllIn(u, d + 1, b - 1, ZoneChar)
    <3> DEFINE p == i + h
               n == e - h
    <3>1. n \in Nat \ {0} /\ p + 1 = d /\ d + (n - 1) = b - 1
      BY <1>6, <1>7, <2>8
    <3> HIDE DEF p, n
    <3>2. Piece(zone, u, p, n, S)
      BY <1>6 DEF p, n
    <3>3. Piece(Tail(zone), u, p + 1, n - 1, S)
      BY <3>1, <3>2, TailOfPiece
    <3>4. Over(Tail(zone), ZoneChar) <=> AllIn(u, (p + 1) + 1, (p + 1) + (n - 1), ZoneChar)
      BY <3>3, PieceOver
    <3> QED
      BY <3>1, <3>4
  <2>9. inside <=> V6Ends(u, i, b)
    BY <2>3, <2>4, <2>5, <2>6, <2>7, <2>8
  <2>10. HostEnds(u, i, c) <=> V6Ends(u, i, b)
    BY <1>13, <2>1 DEF HostEnds
  <2> HIDE DEF inside
  <2>11. Hosts(s) = HostsGive(HostEnds(u, i, c), after, inner)
    <3>1. (Has(s, "]") /\ inside) <=> HostEnds(u, i, c)
      BY <1>12, <1>17, <2>9, <2>10
    <3> QED
      BY <1>15, <3>1 DEF HostsGive
  <2>12. OnlyEnd(u, i, M, c)
    <3> SUFFICES ASSUME NEW k \in i .. M + 1, HostEnds(u, i, k) PROVE k = c
      BY DEF OnlyEnd
    <3>1. V6Ends(u, i, k - 1) /\ k - 1 \in Nat /\ k - 1 <= M
      BY <1>0, <1>13 DEF HostEnds
    <3>2. k - 1 = b
      BY <1>14, <3>1
    <3> QED
      BY <3>2
  <2>13. Piece(after, u, c - 1, (M + 1) - c, S)
    <3> DEFINE p == b - 1
               n == (M - b) + 1
    <3>1. n \in Nat \ {0} /\ p + 1 = c - 1 /\ n - 1 = (M + 1) - c
      BY <1>0, <1>7, <1>17
    <3> HIDE DEF p, n
    <3>2. Piece(rest, u, p, n, S)
      BY <1>11 DEF p, n
    <3>3. Piece(Tail(rest), u, p + 1, n - 1, S)
      BY <3>1, <3>2, TailOfPiece
    <3> QED
      BY <3>1, <3>3
  <2>14. HostEnds(u, i, c) => Piece(inner, u, HostOff(u, i, c) - 1, HostLen(u, i, c), S)
    <3>1. HostOff(u, i, c) - 1 = i /\ HostLen(u, i, c) = e
      BY <1>7, <1>13 DEF HostOff, HostLen
    <3> QED
      BY <1>4, <3>1
  <2> HIDE DEF c, after
  <2>15. Gives(u, i, M, c, after, inner, f)
    BY <1>0, <2>1, <2>12, <2>13, <2>14, HostsWith
  <2> QED
    BY <2>11, <2>15 DEF Gives, HostsAre
<1> QED
  BY <1>16, <1>17

LEMMA HostsScanned ==
  ASSUME NEW u, NEW S, NEW i \in Nat \ {0}, NEW m \in Nat, NEW M, M = i - 1 + m,
         NEW s, Piece(s, u, i - 1, m, S),
         NEW f, HostOk(u, i, M) => HostFields(u, i, M, f)
  PROVE  HostsAre(u, i, M, s, f)
<1>1. CASE m = 0
  <2>1. s = <<>>
    BY <1>1, EmptyPiece
  <2>2. Hosts(s) = {}
    BY <2>1 DEF Hosts
  <2>3. M \in Nat /\ M = i - 1
    BY <1>1
  <2>4. ~ InHost(u, i, M) /\ ~ InPort(u, i, M)
    BY <2>3 DEF InHost, InPort
  <2>5. ~ V6Ends(u, i, M)
    <3> SUFFICES ASSUME V6Ends(u, i, M) PROVE FALSE
      OBVIOUS
    <3>1. M > i
      BY <2>3, BracketBytes
    <3> QED
      BY <2>3, <3>1
  <2> QED
    BY <2>2, <2>4, <2>5 DEF HostsAre, HostOk
<1>2. CASE m # 0 /\ u[i] = "["
  BY <1>2, BracketHost
<1>3. CASE m # 0 /\ u[i] # "["
  BY <1>3, NamedHost
<1> QED
  BY <1>1, <1>2, <1>3

AuthoritiesAre(u, s, R) == Authorities(s) = IF R.ok THEN Requested(u, R.u) ELSE {}

(* What the definition makes of the authority is what http_parse_host does. *)
LEMMA AuthorityScanned ==
  ASSUME NEW u, NEW S, NEW U, NEW o \in Nat \ {0}, NEW l \in Nat, NEW M, M = o + l - 1,
         NEW s, Piece(s, u, o - 1, l, S), NEW w, FirstAt(u, w, o, M, {"@"}),
         NEW i, i = IF w <= M THEN w + 1 ELSE o,
         NEW R, HostFound(u, U, o, M, w, i, R)
  PROVE  AuthoritiesAre(u, s, R)
<1> DEFINE q == o - 1
           e == From(s, 1, {"@"}) - 1
           userinfo == Cut(s, {"@"})
           rest == Rest(s, {"@"})
<1>0. q \in Nat /\ q + 1 = o /\ M \in Nat /\ q + l = M
  OBVIOUS
<1> HIDE DEF q
<1>1. Piece(s, u, q, l, S)
  BY DEF q
<1>2. /\ e \in 0 .. l /\ Piece(userinfo, u, q, e, S) /\ Piece(rest, u, q + e, l - e, S)
      /\ FirstAt(u, (q + e) + 1, q + 1, q + l, {"@"})
  BY <1>1, CutPiece
<1> HIDE DEF e, userinfo, rest
<1>3. (q + e) + 1 = w
  <2>1. FirstAt(u, (q + e) + 1, o, M, {"@"})
    BY <1>0, <1>2
  <2> QED
    BY <1>0, <2>1, FirstOnce
<1>4. w \in o .. M + 1 /\ (w <= M => u[w] = "@") /\ (\A k \in o .. M : k < w => u[k] # "@") /\ w \in Nat
  BY <1>0 DEF FirstAt
<1>5. Has(s, "@") <=> w <= M
  <2>1. Has(s, "@") <=> \E k \in q + 1 .. q + l : u[k] = "@"
    BY <1>1, PieceHas
  <2>2. Has(s, "@") <=> \E k \in o .. M : u[k] = "@"
    BY <1>0, <2>1
  <2>3. w <= M => w \in o .. M
    BY <1>4
  <2>4. ~ (w <= M) => \A k \in o .. M : k < w
    BY <1>0, <1>4
  <2> QED
    BY <1>4, <2>2, <2>3, <2>4
<1>6. /\ R.ok <=> (w <= M => AllIn(u, o, w - 1, UserinfoChar)) /\ HostOk(u, i, M)
      /\ R.ok => HostFields(u, i, M, R.u)
  BY DEF HostFound
<1> DEFINE f == R.u
           ok == R.ok
           Req == Requested(u, R.u)
<1>7. CASE ~ (w <= M)
  <2>1. i = o /\ HostOk(u, i, M) => HostFields(u, i, M, f)
    BY <1>6, <1>7
  <2>2. HostsAre(u, o, M, s, f)
    <3>1. HostOk(u, o, M) => HostFields(u, o, M, f)
      BY <1>6, <1>7
    <3>2. M = o - 1 + l
      OBVIOUS
    <3> HIDE DEF f
    <3> QED
      BY <3>1, <3>2, HostsScanned
  <2>3. Authorities(s) = Hosts(s)
    BY <1>5, <1>7 DEF Authorities
  <2>4. R.ok <=> HostOk(u, o, M)
    BY <1>6, <1>7
  <2> QED
    BY <2>2, <2>3, <2>4 DEF HostsAre, AuthoritiesAre
<1>8. CASE w <= M
  <2> DEFINE t == Tail(rest)
             m == M - w
             p == q + e
             n == l - e
  <2>1. n \in Nat \ {0} /\ p + 1 = w /\ n - 1 = m /\ i = w + 1 /\ i - 1 = w /\ i \in Nat \ {0}
        /\ m \in Nat /\ M = i - 1 + m
    BY <1>0, <1>2, <1>3, <1>4, <1>8
  <2>2. Over(userinfo, UserinfoChar) <=> AllIn(u, o, w - 1, UserinfoChar)
    <3>1. Over(userinfo, UserinfoChar) <=> AllIn(u, q + 1, q + e, UserinfoChar)
      BY <1>2, PieceOver
    <3>2. q + e = w - 1
      BY <1>0, <1>2, <1>3
    <3> QED
      BY <1>0, <3>1, <3>2
  <2> HIDE DEF p, n, m
  <2>3. Piece(rest, u, p, n, S)
    BY <1>2 DEF p, n
  <2>4. Piece(t, u, p + 1, n - 1, S)
    BY <2>1, <2>3, TailOfPiece
  <2>5. Piece(t, u, i - 1, m, S)
    BY <2>1, <2>4
  <2> HIDE DEF t
  <2>6. CASE AllIn(u, o, w - 1, UserinfoChar)
    <3>1. R.ok <=> HostOk(u, i, M)
      BY <1>6, <2>6
    <3>2. HostOk(u, i, M) => HostFields(u, i, M, f)
      BY <1>6, <3>1
    <3>3. HostsAre(u, i, M, t, f)
      <4> HIDE DEF f
      <4> QED
        BY <2>1, <2>5, <3>2, HostsScanned
    <3>4. Authorities(s) = Hosts(t)
      BY <1>5, <1>8, <2>2, <2>6 DEF Authorities, userinfo, t, rest
    <3> QED
      BY <3>1, <3>3, <3>4 DEF HostsAre, AuthoritiesAre
  <2>7. CASE ~ AllIn(u, o, w - 1, UserinfoChar)
    <3>1. ~ R.ok
      BY <1>6, <1>8, <2>7
    <3>2. Authorities(s) = {}
      BY <1>5, <1>8, <2>2, <2>7 DEF Authorities, userinfo
    <3> QED
      BY <3>1, <3>2 DEF AuthoritiesAre
  <2> QED
    BY <2>6, <2>7
<1> QED
  BY <1>7, <1>8

-----------------------------------------------------------------------------
(* The automaton of the whole URL. *)

UrlStates == DOMAIN FieldOf \cup
  {"s_dead", "s_req_spaces_before_url", "s_req_schema_slash", "s_req_schema_slash_slash",
   "s_req_server_start", "s_req_query_string_start", "s_req_fragment_start"}
UrlZ == [s : UrlStates, uf : FieldNames \cup {"none"}, at : BOOLEAN, u : FieldsSet]

ServerStates == {"s_req_server_with_at", "s_req_server_start", "s_req_server"}
ServerChar   == UserinfoChar \cup {"[", "]", "@"}
TailChar     == UrlChar \cup {"?", "#"}

LEMMA FieldOfIs ==
  /\ DOMAIN FieldOf = {"s_req_schema", "s_req_server", "s_req_server_with_at", "s_req_path",
                       "s_req_query_string", "s_req_fragment"}
  /\ FieldOf["s_req_schema"] = "schema" /\ FieldOf["s_req_server"] = "host"
  /\ FieldOf["s_req_server_with_at"] = "host" /\ FieldOf["s_req_path"] = "path"
  /\ FieldOf["s_req_query_string"] = "query" /\ FieldOf["s_req_fragment"] = "fragment"
BY DEF FieldOf

LEMMA UrlCharState == \A s, ch : s \in UrlStates => parse_url_char(s, ch) \in UrlStates
BY FieldOfIs DEF parse_url_char, UrlStates

LEMMA UrlChars ==
  /\ {"?", "#"} \cap UrlChar = {} /\ UserinfoChar \subseteq UrlChar
  /\ {"/", "?", "#", "[", "]", "@"} \cap UserinfoChar = {}
BY CharsOfHost DEF UrlChar

LEMMA OnServer ==
  ASSUME NEW s \in ServerStates, NEW ch
  PROVE  parse_url_char(s, ch) =
           IF s = "s_req_server_with_at" /\ ch = "@" THEN "s_dead"
           ELSE IF ch = "/" THEN "s_req_path"
           ELSE IF ch = "?" THEN "s_req_query_string_start"
           ELSE IF ch = "@" THEN "s_req_server_with_at"
           ELSE IF ch \in ServerChar THEN "s_req_server" ELSE "s_dead"
<1> DEFINE inner == CASE ch = "/" -> "s_req_path"
                      [] ch = "?" -> "s_req_query_string_start"
                      [] ch = "@" -> IF s = "s_req_server_with_at" THEN "s_dead"
                                     ELSE "s_req_server_with_at"
                      [] ch \in UserinfoChar \cup {"[", "]"} -> "s_req_server"
                      [] OTHER    -> "s_dead"
<1>1. inner = IF s = "s_req_server_with_at" /\ ch = "@" THEN "s_dead"
              ELSE IF ch = "/" THEN "s_req_path"
              ELSE IF ch = "?" THEN "s_req_query_string_start"
              ELSE IF ch = "@" THEN "s_req_server_with_at"
              ELSE IF ch \in ServerChar THEN "s_req_server" ELSE "s_dead"
  BY UrlChars DEF ServerChar
<1>2. parse_url_char(s, ch) = inner
  <2>1. CASE s = "s_req_server_with_at"
    BY <2>1, Zenon DEF parse_url_char
  <2>2. CASE s = "s_req_server_start"
    BY <2>2, Zenon DEF parse_url_char
  <2>3. CASE s = "s_req_server"
    BY <2>3, Zenon DEF parse_url_char
  <2> QED
    BY <2>1, <2>2, <2>3 DEF ServerStates
<1> QED
  BY <1>1, <1>2

LEMMA OnPath ==
  ASSUME NEW ch
  PROVE  parse_url_char("s_req_path", ch) =
           IF ch = "?" THEN "s_req_query_string_start"
           ELSE IF ch = "#" THEN "s_req_fragment_start"
           ELSE IF ch \in TailChar THEN "s_req_path" ELSE "s_dead"
BY UrlChars DEF parse_url_char, TailChar

LEMMA OnQuery ==
  ASSUME NEW ch, NEW s \in {"s_req_query_string_start", "s_req_query_string"}
  PROVE  parse_url_char(s, ch) =
           IF ch = "#" THEN "s_req_fragment_start"
           ELSE IF ch \in TailChar THEN "s_req_query_string" ELSE "s_dead"
BY UrlChars DEF parse_url_char, TailChar

LEMMA OnFragment ==
  ASSUME NEW ch, NEW s \in {"s_req_fragment_start", "s_req_fragment"}
  PROVE  IF ch \in TailChar THEN parse_url_char(s, ch) \in {"s_req_fragment_start", "s_req_fragment"}
         ELSE parse_url_char(s, ch) = "s_dead"
BY UrlChars DEF parse_url_char, TailChar

LEMMA OnScheme ==
  /\ \A w \in Words : parse_url_char("s_req_spaces_before_url", w) = "s_req_schema"
  /\ parse_url_char("s_req_schema", ":") = "s_req_schema_slash"
  /\ parse_url_char("s_req_schema_slash", "/") = "s_req_schema_slash_slash"
  /\ parse_url_char("s_req_schema_slash_slash", "/") = "s_req_server_start"
  /\ \A ch : parse_url_char("s_dead", ch) = "s_dead"
BY DEF parse_url_char, Alpha, Words

(* What the step to the state new does. *)
UrlStepped(z, p, r, new) ==
  /\ r \in UrlZ /\ r.s = new
  /\ new \notin DOMAIN FieldOf => r.uf = z.uf /\ r.at = z.at /\ r.u = z.u
  /\ new \in DOMAIN FieldOf =>
       /\ r.uf = FieldOf[new]
       /\ r.at <=> z.at \/ new = "s_req_server_with_at"
       /\ r.u[FieldOf[new]] = IF FieldOf[new] # z.uf THEN [off |-> p, len |-> 1]
                              ELSE [off |-> z.u[FieldOf[new]].off, len |-> z.u[FieldOf[new]].len + 1]
       /\ \A g \in FieldNames : g # FieldOf[new] => r.u[g] = z.u[g]

LEMMA UrlStepIs ==
  ASSUME NEW z \in UrlZ, NEW p \in Nat, NEW ch
  PROVE  UrlStepped(z, p, UrlStep(z, ch, p), parse_url_char(z.s, ch))
<1> DEFINE new == parse_url_char(z.s, ch)
           r == UrlStep(z, ch, p)
           f == FieldOf[new]
           u == z.u
           first == f # z.uf
           e == Extend(u, f, p, first)
           h == [off |-> IF first THEN p ELSE u[f].off, len |-> IF first THEN 1 ELSE u[f].len + 1]
<1>1. /\ z.s \in UrlStates /\ z.uf \in FieldNames \cup {"none"} /\ z.at \in BOOLEAN /\ u \in FieldsSet
      /\ z = [s |-> z.s, uf |-> z.uf, at |-> z.at, u |-> u]
  BY DEF UrlZ
<1>2. new \in UrlStates
  BY <1>1, UrlCharState
<1>3. r = IF new \notin DOMAIN FieldOf THEN [z EXCEPT !.s = new]
          ELSE [s |-> new, uf |-> f, u |-> e, at |-> z.at \/ new = "s_req_server_with_at"]
  BY DEF UrlStep
<1>4. e = [u EXCEPT ![f] = h]
  BY DEF Extend
<1> HIDE DEF new, r
<1> SUFFICES UrlStepped(z, p, r, new)
  BY DEF new, r
<1>5. CASE new \notin DOMAIN FieldOf
  <2>1. r = [s |-> new, uf |-> z.uf, at |-> z.at, u |-> u]
    BY <1>1, <1>3, <1>5
  <2> QED
    BY <1>1, <1>2, <1>5, <2>1 DEF UrlStepped, UrlZ
<1>6. CASE new \in DOMAIN FieldOf
  <2>1. f \in FieldNames
    BY <1>6, FieldOfIs DEF FieldNames
  <2>2. u[f] \in [off : Nat, len : Nat]
    BY <1>1, <2>1 DEF FieldsSet, FieldSet
  <2>3. h \in FieldSet
    BY <2>2 DEF FieldSet
  <2>4. h = IF first THEN [off |-> p, len |-> 1] ELSE [off |-> u[f].off, len |-> u[f].len + 1]
    OBVIOUS
  <2> HIDE DEF e, f, h, u
  <2>5. e \in FieldsSet /\ e[f] = h /\ \A g \in FieldNames : g # f => e[g] = u[g]
    BY <1>1, <1>4, <2>1, <2>3 DEF FieldsSet
  <2> DEFINE b == z.at \/ new = "s_req_server_with_at"
  <2>6. b \in BOOLEAN
    OBVIOUS
  <2>7. r = [s |-> new, uf |-> f, u |-> e, at |-> b]
    BY <1>3, <1>6
  <2>8. b <=> z.at \/ new = "s_req_server_with_at"
    OBVIOUS
  <2> HIDE DEF b
  <2>9. r \in UrlZ /\ r.s = new /\ r.uf = f /\ r.u = e /\ r.at = b
    BY <1>2, <2>1, <2>5, <2>6, <2>7 DEF UrlZ
  <2>10. r.u[f] = IF first THEN [off |-> p, len |-> 1] ELSE [off |-> u[f].off, len |-> u[f].len + 1]
    BY <2>4, <2>5, <2>9
  <2>11. \A g \in FieldNames : g # f => r.u[g] = u[g]
    BY <2>5, <2>9
  <2>12. r.at <=> z.at \/ new = "s_req_server_with_at"
    BY <2>8, <2>9
  <2> QED
    BY <1>6, <2>9, <2>10, <2>11, <2>12 DEF UrlStepped, f, u
<1> QED
  BY <1>5, <1>6

UrlRun(buf0, z, l, z0) ==
  z = [n \in 0 .. l |-> IF n = 0 THEN z0 ELSE UrlStep(z[n - 1], buf0[n], n)]

UrlRuns(u, z, l) ==
  /\ \A n \in 0 .. l : z[n] \in UrlZ
  /\ \A n \in 1 .. l : z[n] = UrlStep(z[n - 1], u[n], n)

LEMMA UrlRunTyped ==
  ASSUME NEW buf0, NEW l \in Nat
  PROVE  \A k \in 1 .. l, v \in UrlZ : UrlStep(v, buf0[k], k) \in UrlZ
<1> SUFFICES ASSUME NEW k \in 1 .. l, NEW v \in UrlZ
             PROVE  UrlStep(v, buf0[k], k) \in UrlZ
  OBVIOUS
<1>1. UrlStepped(v, k, UrlStep(v, buf0[k], k), parse_url_char(v.s, buf0[k]))
  BY UrlStepIs
<1> QED
  BY <1>1 DEF UrlStepped

LEMMA UrlRunExists ==
  ASSUME NEW buf0, NEW l \in Nat, NEW z0 \in UrlZ
  PROVE  \E z : UrlRun(buf0, z, l, z0)
<1> DEFINE step == [k \in 1 .. l |-> [v \in UrlZ |-> UrlStep(v, buf0[k], k)]]
<1>1. \A k \in 1 .. l, v \in UrlZ : step[k][v] = UrlStep(v, buf0[k], k)
  OBVIOUS
<1>2. \A k \in 1 .. l, v \in UrlZ : UrlStep(v, buf0[k], k) \in UrlZ
  BY UrlRunTyped
<1>3. step \in [1 .. l -> [UrlZ -> UrlZ]]
  BY <1>2
<1> HIDE DEF step
<1>4. PICK h : Iterates(h, l, UrlZ, z0, step)
  BY <1>3, Iterated
<1>5. \A k \in 1 .. l : h[k] = UrlStep(h[k - 1], buf0[k], k)
  BY <1>1, <1>4 DEF Iterates
<1>6. h = [n \in 0 .. l |-> IF n = 0 THEN z0 ELSE UrlStep(h[n - 1], buf0[n], n)]
  BY <1>4, <1>5 DEF Iterates
<1> QED
  BY <1>6 DEF UrlRun

LEMMA UrlRunIs ==
  ASSUME NEW buf0, NEW l \in Nat, NEW z0 \in UrlZ, NEW z, UrlRun(buf0, z, l, z0)
  PROVE  z[0] = z0 /\ UrlRuns(buf0, z, l)
<1>1. \A k \in 1 .. l, v \in UrlZ : UrlStep(v, buf0[k], k) \in UrlZ
  BY UrlRunTyped
<1> DEFINE g == [n \in 0 .. l |-> IF n = 0 THEN z0 ELSE UrlStep(z[n - 1], buf0[n], n)]
           T == {n \in 0 .. l : z[n] \in UrlZ}
<1>2. z = g
  BY DEF UrlRun
<1>3. g[0] = z0 /\ \A n \in 1 .. l : g[n] = UrlStep(z[n - 1], buf0[n], n)
  OBVIOUS
<1> HIDE DEF g
<1>4. z[0] = z0 /\ \A n \in 1 .. l : z[n] = UrlStep(z[n - 1], buf0[n], n)
  BY <1>2, <1>3
<1>5. 0 \in T
  BY <1>4
<1>6. ASSUME NEW n \in 1 .. l, n - 1 \in T
      PROVE  n \in T
  BY <1>1, <1>4, <1>6
<1>7. \A n \in 0 .. l : n \in T
  <2> HIDE DEF T
  <2> QED
    BY <1>5, <1>6, Reached
<1> QED
  BY <1>4, <1>7 DEF UrlRuns

(* Up to the first slash or question mark there is the authority, from     *)
(* position 5 on.                                                          *)
Server(u, p) ==
  /\ AllIn(u, 5, p, ServerChar)
  /\ \A k \in 6 .. p : ~ (u[k] = "@" /\ u[k - 1] = "@")

ServerAt(u, p, y) ==
  /\ ~ Server(u, p) => y.s = "s_dead"
  /\ Server(u, p) =>
       /\ y.s \in ServerStates
       /\ y.s = "s_req_server_with_at" <=> p > 4 /\ u[p] = "@"
       /\ y.at <=> \E k \in 5 .. p : u[k] = "@"
       /\ y.uf = IF p = 4 THEN "schema" ELSE "host"
       /\ y.u["schema"] = [off |-> 1, len |-> 1]
       /\ y.u["host"] = IF p = 4 THEN NoField ELSE [off |-> 5, len |-> p - 4]
       /\ y.u["port"] = NoField /\ y.u["path"] = NoField /\ y.u["query"] = NoField

LEMMA ServerGrows ==
  ASSUME NEW u, NEW p \in Nat, p >= 4, NEW q, q = p + 1
  PROVE  /\ Server(u, q) <=> Server(u, p) /\ u[q] \in ServerChar /\ ~ (p > 4 /\ u[p] = "@" /\ u[q] = "@")
         /\ (\E k \in 5 .. q : u[k] = "@") <=> (\E k \in 5 .. p : u[k] = "@") \/ u[q] = "@"
<1>1. /\ \A k : k \in 5 .. q <=> k \in 5 .. p \/ k = q
      /\ \A k : k \in 6 .. q <=> k \in 6 .. p \/ (k = q /\ p > 4)
      /\ q - 1 = p
  OBVIOUS
<1>2. AllIn(u, 5, q, ServerChar) <=> AllIn(u, 5, p, ServerChar) /\ u[q] \in ServerChar
  BY <1>1 DEF AllIn
<1>3. (\A k \in 6 .. q : ~ (u[k] = "@" /\ u[k - 1] = "@")) <=>
        /\ \A k \in 6 .. p : ~ (u[k] = "@" /\ u[k - 1] = "@")
        /\ ~ (p > 4 /\ u[p] = "@" /\ u[q] = "@")
  BY <1>1
<1> QED
  BY <1>1, <1>2, <1>3 DEF Server

LEMMA ServerKeeps ==
  ASSUME NEW u, NEW p \in Nat, p >= 4, NEW q, q = p + 1, NEW z \in UrlZ, ServerAt(u, p, z),
         u[q] \notin {"/", "?"}, NEW y, y = UrlStep(z, u[q], q)
  PROVE  ServerAt(u, q, y)
<1> DEFINE new == parse_url_char(z.s, u[q])
           S == Server(u, p)
           T == Server(u, q)
           A == \E k \in 5 .. p : u[k] = "@"
           B == \E k \in 5 .. q : u[k] = "@"
<1>1. UrlStepped(z, q, y, new)
  BY UrlStepIs
<1>2. /\ T <=> S /\ u[q] \in ServerChar /\ ~ (p > 4 /\ u[p] = "@" /\ u[q] = "@")
      /\ B <=> A \/ u[q] = "@"
  BY ServerGrows
<1> HIDE DEF S, T, A, B
<1>3. q > 4 /\ q # 4 /\ q - 4 = (p - 4) + 1 /\ (p = 4 => q = 5 /\ q - 4 = 1)
  OBVIOUS
<1>4. CASE ~ S
  <2>1. z.s = "s_dead" /\ ~ T
    BY <1>2, <1>4 DEF ServerAt, S
  <2>2. new = "s_dead"
    BY <2>1, OnScheme
  <2> QED
    BY <1>1, <2>1, <2>2 DEF ServerAt, UrlStepped, T
<1>5. CASE S
  <2>1. /\ z.s \in ServerStates
        /\ z.s = "s_req_server_with_at" <=> p > 4 /\ u[p] = "@"
        /\ z.at <=> A
        /\ z.uf = IF p = 4 THEN "schema" ELSE "host"
        /\ z.u["schema"] = [off |-> 1, len |-> 1]
        /\ z.u["host"] = IF p = 4 THEN NoField ELSE [off |-> 5, len |-> p - 4]
        /\ z.u["port"] = NoField /\ z.u["path"] = NoField /\ z.u["query"] = NoField
    BY <1>5 DEF ServerAt, S, A
  <2>2. new = IF z.s = "s_req_server_with_at" /\ u[q] = "@" THEN "s_dead"
              ELSE IF u[q] = "/" THEN "s_req_path"
              ELSE IF u[q] = "?" THEN "s_req_query_string_start"
              ELSE IF u[q] = "@" THEN "s_req_server_with_at"
              ELSE IF u[q] \in ServerChar THEN "s_req_server" ELSE "s_dead"
    BY <2>1, OnServer
  <2>3. new = IF ~ T THEN "s_dead" ELSE IF u[q] = "@" THEN "s_req_server_with_at" ELSE "s_req_server"
    <3>1. "@" \in ServerChar
      BY DEF ServerChar
    <3> HIDE DEF new
    <3> QED
      BY <1>2, <1>5, <2>1, <2>2, <3>1
  <2> HIDE DEF new
  <2>4. CASE ~ T
    BY <1>1, <2>3, <2>4 DEF ServerAt, UrlStepped, T
  <2>5. CASE T
    <3>1. new \in {"s_req_server", "s_req_server_with_at"} /\ (new = "s_req_server_with_at" <=> u[q] = "@")
      BY <2>3, <2>5
    <3>2. FieldOf[new] = "host" /\ new \in DOMAIN FieldOf
      BY <3>1, FieldOfIs
    <3>3. /\ y.s = new /\ y.uf = "host" /\ (y.at <=> z.at \/ new = "s_req_server_with_at")
          /\ y.u["host"] = IF "host" # z.uf THEN [off |-> q, len |-> 1]
                           ELSE [off |-> z.u["host"].off, len |-> z.u["host"].len + 1]
          /\ y.u["schema"] = z.u["schema"] /\ y.u["port"] = z.u["port"]
          /\ y.u["path"] = z.u["path"] /\ y.u["query"] = z.u["query"]
      BY <1>1, <3>2 DEF UrlStepped, FieldNames
    <3>4. y.u["host"] = [off |-> 5, len |-> q - 4]
      <4>1. CASE p = 4
        BY <1>3, <2>1, <3>3, <4>1
      <4>2. CASE p # 4
        BY <1>3, <2>1, <3>3, <4>2
      <4> QED
        BY <4>1, <4>2
    <3>5. y.at <=> B
      BY <1>2, <2>1, <3>1, <3>3
    <3>6. y.s \in ServerStates
      BY <3>1, <3>3 DEF ServerStates
    <3> QED
      BY <1>3, <2>1, <2>5, <3>1, <3>3, <3>4, <3>5, <3>6 DEF ServerAt, T, B
  <2> QED
    BY <2>4, <2>5
<1> QED
  BY <1>4, <1>5

LEMMA ServerRuns ==
  ASSUME NEW u, NEW z, NEW l \in Nat, l >= 4, UrlRuns(u, z, l), ServerAt(u, 4, z[4]),
         NEW m \in 4 .. l, \A k \in 5 .. m : u[k] \notin {"/", "?"}
  PROVE  ServerAt(u, m, z[m])
<1> DEFINE T == {k \in 0 .. m - 4 : ServerAt(u, 4 + k, z[4 + k])}
<1>0. m - 4 \in Nat
  OBVIOUS
<1>1. 0 \in T
  BY <1>0
<1>2. ASSUME NEW k \in 1 .. m - 4, k - 1 \in T
      PROVE  k \in T
  <2> DEFINE p == 4 + (k - 1)
             q == 4 + k
             x == z[p]
             y == z[q]
  <2>1. p \in Nat /\ p >= 4 /\ q = p + 1 /\ q \in 1 .. l /\ p \in 0 .. l /\ q - 1 = p /\ q \in 5 .. m
    BY <1>0
  <2>2. ServerAt(u, p, x)
    BY <1>2
  <2> HIDE DEF p, q
  <2>3. x \in UrlZ /\ y = UrlStep(x, u[q], q)
    BY <2>1 DEF UrlRuns
  <2>4. u[q] \notin {"/", "?"}
    BY <2>1
  <2> HIDE DEF x, y
  <2>5. ServerAt(u, q, y)
    BY <2>1, <2>2, <2>3, <2>4, ServerKeeps
  <2> QED
    BY <1>0, <2>5 DEF q, y
<1>3. m - 4 \in T
  <2>1. m - 4 \in 0 .. m - 4
    BY <1>0
  <2> HIDE DEF T
  <2> QED
    BY <1>0, <1>1, <1>2, <2>1, Reached
<1>4. 4 + (m - 4) = m
  OBVIOUS
<1> QED
  BY <1>3, <1>4

(* Behind the authority there are the path, up to q, the query, and from h *)
(* on the fragment.                                                        *)
TailPlaces(u, a, q, h, n) ==
  /\ a \in 5 .. n /\ u[a] \in {"/", "?"}
  /\ FirstAt(u, q, a, n, {"?", "#"}) /\ FirstAt(u, h, a, n, {"#"})

PathField(a, q) == IF q > a THEN [off |-> a, len |-> q - a] ELSE NoField
QueryField(u, q, h) ==
  IF u[q] = "?" /\ h > q + 1 THEN [off |-> q + 1, len |-> (h - q) - 1] ELSE NoField

TailField(u, a, q, h, p, y) ==
  /\ p < q => /\ y.s = "s_req_path" /\ y.uf = "path"
              /\ y.u["path"] = [off |-> a, len |-> (p - a) + 1] /\ y.u["query"] = NoField
  /\ p >= q => y.u["path"] = PathField(a, q)
  /\ p = q /\ p < h => /\ y.s = "s_req_query_string_start" /\ y.uf # "query"
                       /\ y.u["query"] = NoField
  /\ q < p /\ p < h => /\ y.s = "s_req_query_string" /\ y.uf = "query"
                       /\ y.u["query"] = [off |-> q + 1, len |-> p - q]
  /\ p >= h => /\ y.s \in {"s_req_fragment_start", "s_req_fragment"}
               /\ y.u["query"] = QueryField(u, q, h)

Keeps(y, x) ==
  /\ y.u["schema"] = x.u["schema"] /\ y.u["host"] = x.u["host"] /\ y.u["port"] = x.u["port"]
  /\ y.at <=> x.at

TailAt(u, a, q, h, p, y, x) ==
  IF AllIn(u, a, p, TailChar) THEN TailField(u, a, q, h, p, y) /\ Keeps(y, x)
  ELSE y.s = "s_dead"

LEMMA PlacesIn ==
  ASSUME NEW u, NEW a, NEW q, NEW h, NEW n \in Nat, TailPlaces(u, a, q, h, n)
  PROVE  /\ a \in Nat /\ q \in Nat /\ h \in Nat /\ a <= q /\ q <= h /\ h <= n + 1 /\ a <= n /\ a >= 5
         /\ \A k \in a .. n : /\ k < q => u[k] \notin {"?", "#"}
                              /\ k = q /\ k < h => u[k] = "?"
                              /\ k < h => u[k] # "#"
                              /\ k = h => u[k] = "#"
<1>1. /\ a \in 5 .. n
      /\ q \in a .. n + 1 /\ (q <= n => u[q] \in {"?", "#"})
      /\ \A k \in a .. n : k < q => u[k] \notin {"?", "#"}
      /\ h \in a .. n + 1 /\ (h <= n => u[h] \in {"#"})
      /\ \A k \in a .. n : k < h => u[k] \notin {"#"}
  BY DEF TailPlaces, FirstAt
<1>2. q <= h
  <2>1. h <= n /\ h < q => h \in a .. n
    BY <1>1
  <2>2. ~ (h <= n /\ h < q)
    BY <1>1, <2>1
  <2> QED
    BY <1>1, <2>2
<1> QED
  BY <1>1, <1>2

(* What a step behind the authority does; x keeps what it leaves alone.    *)
Moved(z, r, y, new, x) ==
  /\ y.s = new /\ Keeps(y, x)
  /\ new \in {"s_req_query_string_start", "s_req_fragment_start"} =>
       y.uf = z.uf /\ y.u["path"] = z.u["path"] /\ y.u["query"] = z.u["query"]
  /\ new = "s_req_path" =>
       /\ y.uf = "path" /\ y.u["query"] = z.u["query"]
       /\ y.u["path"] = IF "path" # z.uf THEN [off |-> r, len |-> 1]
            ELSE [off |-> z.u["path"].off, len |-> z.u["path"].len + 1]
  /\ new = "s_req_query_string" =>
       /\ y.uf = "query" /\ y.u["path"] = z.u["path"]
       /\ y.u["query"] = IF "query" # z.uf THEN [off |-> r, len |-> 1]
            ELSE [off |-> z.u["query"].off, len |-> z.u["query"].len + 1]
  /\ new = "s_req_fragment" => y.u["path"] = z.u["path"] /\ y.u["query"] = z.u["query"]

LEMMA FieldMoves ==
  ASSUME NEW z, NEW r, NEW y, NEW new, UrlStepped(z, r, y, new), NEW x, Keeps(z, x),
         new \in {"s_req_path", "s_req_query_string_start", "s_req_query_string",
                  "s_req_fragment_start", "s_req_fragment"}
  PROVE  Moved(z, r, y, new, x)
<1> SUFFICES /\ y.s = new /\ Keeps(y, x)
             /\ new \in {"s_req_query_string_start", "s_req_fragment_start"} =>
                  y.uf = z.uf /\ y.u["path"] = z.u["path"] /\ y.u["query"] = z.u["query"]
             /\ new = "s_req_path" =>
                  /\ y.uf = "path" /\ y.u["query"] = z.u["query"]
                  /\ y.u["path"] = IF "path" # z.uf THEN [off |-> r, len |-> 1]
                       ELSE [off |-> z.u["path"].off, len |-> z.u["path"].len + 1]
             /\ new = "s_req_query_string" =>
                  /\ y.uf = "query" /\ y.u["path"] = z.u["path"]
                  /\ y.u["query"] = IF "query" # z.uf THEN [off |-> r, len |-> 1]
                       ELSE [off |-> z.u["query"].off, len |-> z.u["query"].len + 1]
             /\ new = "s_req_fragment" => y.u["path"] = z.u["path"] /\ y.u["query"] = z.u["query"]
  BY DEF Moved
<1>1. /\ y.s = new
      /\ new \notin DOMAIN FieldOf => y.uf = z.uf /\ y.at = z.at /\ y.u = z.u
      /\ new \in DOMAIN FieldOf =>
           /\ y.uf = FieldOf[new]
           /\ y.at <=> z.at \/ new = "s_req_server_with_at"
           /\ y.u[FieldOf[new]] = IF FieldOf[new] # z.uf THEN [off |-> r, len |-> 1]
                   ELSE [off |-> z.u[FieldOf[new]].off, len |-> z.u[FieldOf[new]].len + 1]
           /\ \A g \in FieldNames : g # FieldOf[new] => y.u[g] = z.u[g]
      /\ y.at \in BOOLEAN
  BY DEF UrlStepped, UrlZ
<1>2. {"schema", "host", "port", "path", "query", "fragment"} \subseteq FieldNames
  BY DEF FieldNames
<1>3. CASE new \in {"s_req_query_string_start", "s_req_fragment_start"}
  <2>1. new \notin DOMAIN FieldOf
    BY <1>3, FieldOfIs
  <2> QED
    BY <1>1, <1>3, <2>1 DEF Keeps
<1>4. CASE new = "s_req_path"
  <2>1. new \in DOMAIN FieldOf /\ FieldOf[new] = "path" /\ new # "s_req_server_with_at"
    BY <1>4, FieldOfIs
  <2> QED
    BY <1>1, <1>2, <1>4, <2>1 DEF Keeps
<1>5. CASE new = "s_req_query_string"
  <2>1. new \in DOMAIN FieldOf /\ FieldOf[new] = "query" /\ new # "s_req_server_with_at"
    BY <1>5, FieldOfIs
  <2> QED
    BY <1>1, <1>2, <1>5, <2>1 DEF Keeps
<1>6. CASE new = "s_req_fragment"
  <2>1. new \in DOMAIN FieldOf /\ FieldOf[new] = "fragment" /\ new # "s_req_server_with_at"
    BY <1>6, FieldOfIs
  <2> QED
    BY <1>1, <1>2, <1>6, <2>1 DEF Keeps
<1> QED
  BY <1>3, <1>4, <1>5, <1>6

LEMMA TailKeeps ==
  ASSUME NEW u, NEW a, NEW q, NEW h, NEW n \in Nat, TailPlaces(u, a, q, h, n),
         NEW p \in a .. n - 1, NEW r, r = p + 1, NEW z \in UrlZ, NEW x, TailAt(u, a, q, h, p, z, x),
         NEW y, y = UrlStep(z, u[r], r)
  PROVE  TailAt(u, a, q, h, r, y, x)
<1> DEFINE c == u[r]
           new == parse_url_char(z.s, c)
<1>1. /\ a \in Nat /\ q \in Nat /\ h \in Nat /\ a <= q /\ q <= h /\ h <= n + 1
      /\ p \in Nat /\ r \in a .. n /\ r \in Nat /\ p \in a .. n
  <2>1. a \in Nat /\ q \in Nat /\ h \in Nat /\ a <= q /\ q <= h /\ h <= n + 1
    BY PlacesIn
  <2> QED
    BY <2>1
<1>2. /\ r < q => c \notin {"?", "#"}
      /\ r = q /\ r < h => c = "?"
      /\ r < h => c # "#"
      /\ r = h => c = "#"
  BY <1>1, PlacesIn
<1>3. q < h => u[q] = "?"
  <2>1. q < h => q \in a .. n
    BY <1>1
  <2> QED
    BY <2>1, PlacesIn
<1>4. AllIn(u, a, r, TailChar) <=> AllIn(u, a, p, TailChar) /\ c \in TailChar
  <2>1. \A k : k \in a .. r <=> k \in a .. p \/ k = r
    BY <1>1
  <2> QED
    BY <2>1 DEF AllIn
<1>5. UrlStepped(z, r, y, new)
  BY <1>1, UrlStepIs
<1> HIDE DEF c
<1>6. CASE ~ AllIn(u, a, p, TailChar)
  <2>1. z.s = "s_dead"
    BY <1>6 DEF TailAt
  <2>2. new = "s_dead"
    BY <2>1, OnScheme
  <2> QED
    BY <1>4, <1>5, <1>6, <2>2 DEF TailAt, UrlStepped
<1>7. CASE AllIn(u, a, p, TailChar)
  <2>1. TailField(u, a, q, h, p, z) /\ Keeps(z, x)
    BY <1>7 DEF TailAt
  <2>2. CASE c \notin TailChar
    <3>1. /\ p < q => z.s = "s_req_path"
          /\ p >= q /\ p < h => z.s \in {"s_req_query_string_start", "s_req_query_string"}
          /\ p >= h => z.s \in {"s_req_fragment_start", "s_req_fragment"}
      <4>1. p < q \/ p = q \/ q < p
        BY <1>1
      <4> QED
        BY <1>1, <2>1, <4>1 DEF TailField
    <3>2. c # "?" /\ c # "#"
      BY <2>2 DEF TailChar
    <3>3. CASE p < q
      <4>1. new = "s_dead"
        BY <2>2, <3>1, <3>2, <3>3, OnPath
      <4> QED
        BY <1>4, <1>5, <2>2, <4>1 DEF TailAt, UrlStepped
    <3>4. CASE p >= q /\ p < h
      <4>1. new = "s_dead"
        BY <2>2, <3>1, <3>2, <3>4, OnQuery
      <4> QED
        BY <1>4, <1>5, <2>2, <4>1 DEF TailAt, UrlStepped
    <3>5. CASE p >= h
      <4>1. new = "s_dead"
        BY <2>2, <3>1, <3>5, OnFragment
      <4> QED
        BY <1>4, <1>5, <2>2, <4>1 DEF TailAt, UrlStepped
    <3> QED
      BY <1>1, <3>3, <3>4, <3>5
  <2>3. CASE c \in TailChar
    <3>0. SUFFICES TailField(u, a, q, h, r, y) /\ Keeps(y, x)
      BY <1>4, <1>7, <2>3 DEF TailAt
    <3>1. ASSUME new \in {"s_req_path", "s_req_query_string_start", "s_req_query_string",
                          "s_req_fragment_start", "s_req_fragment"}
          PROVE  /\ y.s = new /\ Keeps(y, x)
                 /\ new \in {"s_req_query_string_start", "s_req_fragment_start"} =>
                      y.uf = z.uf /\ y.u["path"] = z.u["path"] /\ y.u["query"] = z.u["query"]
                 /\ new = "s_req_path" =>
                      /\ y.uf = "path" /\ y.u["query"] = z.u["query"]
                      /\ y.u["path"] = IF "path" # z.uf THEN [off |-> r, len |-> 1]
                           ELSE [off |-> z.u["path"].off, len |-> z.u["path"].len + 1]
                 /\ new = "s_req_query_string" =>
                      /\ y.uf = "query" /\ y.u["path"] = z.u["path"]
                      /\ y.u["query"] = IF "query" # z.uf THEN [off |-> r, len |-> 1]
                           ELSE [off |-> z.u["query"].off, len |-> z.u["query"].len + 1]
                 /\ new = "s_req_fragment" => y.u["path"] = z.u["path"] /\ y.u["query"] = z.u["query"]
      BY <1>5, <2>1, <3>1, FieldMoves DEF Moved
    <3> HIDE DEF new
    <3>2. CASE p < q /\ r < q
      <4>1. z.s = "s_req_path" /\ z.uf = "path" /\ z.u["query"] = NoField
            /\ z.u["path"] = [off |-> a, len |-> (p - a) + 1]
        BY <2>1, <3>2 DEF TailField
      <4>2. new = "s_req_path"
        BY <1>2, <2>3, <3>2, <4>1, OnPath DEF new
      <4>3. y.u["path"] = [off |-> a, len |-> (r - a) + 1]
        <5>1. ((p - a) + 1) + 1 = (r - a) + 1
          BY <1>1
        <5> QED
          BY <3>1, <4>1, <4>2, <5>1
      <4> QED
        BY <1>1, <3>1, <3>2, <4>1, <4>2, <4>3 DEF TailField
    <3>3. CASE p < q /\ r = q
      <4>1. z.s = "s_req_path" /\ z.uf = "path" /\ z.u["query"] = NoField
            /\ z.u["path"] = [off |-> a, len |-> (p - a) + 1]
        BY <2>1, <3>3 DEF TailField
      <4>2. z.u["path"] = PathField(a, q)
        <5>1. (p - a) + 1 = q - a /\ q > a
          BY <1>1, <3>3
        <5> QED
          BY <4>1, <5>1 DEF PathField
      <4>3. CASE r < h
        <5>1. new = "s_req_query_string_start"
          BY <1>2, <3>3, <4>1, <4>3, OnPath DEF new
        <5> QED
          BY <1>1, <3>1, <3>3, <4>1, <4>2, <4>3, <5>1 DEF TailField
      <4>4. CASE r = h
        <5>1. new = "s_req_fragment_start"
          BY <1>2, <4>1, <4>4, OnPath DEF new
        <5>2. QueryField(u, q, h) = NoField
          BY <1>1, <3>3, <4>4 DEF QueryField
        <5> QED
          BY <1>1, <3>1, <3>3, <4>1, <4>2, <4>4, <5>1, <5>2 DEF TailField
      <4> QED
        BY <1>1, <3>3, <4>3, <4>4
    <3>4. CASE p >= q /\ r < h
      <4>1. /\ z.s \in {"s_req_query_string_start", "s_req_query_string"}
            /\ z.u["path"] = PathField(a, q)
        BY <1>1, <2>1, <3>4 DEF TailField
      <4>2. new = "s_req_query_string"
        BY <1>2, <2>3, <3>4, <4>1, OnQuery DEF new
      <4>3. y.u["query"] = [off |-> q + 1, len |-> r - q]
        <5>1. CASE p = q
          <6>1. z.uf # "query" /\ r = q + 1 /\ r - q = 1
            BY <1>1, <2>1, <3>4, <5>1 DEF TailField
          <6> QED
            BY <3>1, <4>2, <6>1
        <5>2. CASE p # q
          <6>1. z.uf = "query" /\ z.u["query"] = [off |-> q + 1, len |-> p - q] /\ (p - q) + 1 = r - q
            BY <1>1, <2>1, <3>4, <5>2 DEF TailField
          <6> QED
            BY <3>1, <4>2, <6>1
        <5> QED
          BY <5>1, <5>2
      <4> QED
        BY <1>1, <3>1, <3>4, <4>1, <4>2, <4>3 DEF TailField
    <3>5. CASE p >= q /\ r = h
      <4>1. /\ z.s \in {"s_req_query_string_start", "s_req_query_string"}
            /\ z.u["path"] = PathField(a, q)
        BY <1>1, <2>1, <3>5 DEF TailField
      <4>2. new = "s_req_fragment_start"
        BY <1>2, <3>5, <4>1, OnQuery DEF new
      <4>3. z.u["query"] = QueryField(u, q, h)
        <5>1. CASE p = q
          <6>1. z.u["query"] = NoField /\ ~ (h > q + 1)
            BY <1>1, <2>1, <3>5, <5>1 DEF TailField
          <6> QED
            BY <6>1 DEF QueryField
        <5>2. CASE p # q
          <6>1. z.u["query"] = [off |-> q + 1, len |-> p - q] /\ p - q = (h - q) - 1 /\ h > q + 1 /\ q < h
            BY <1>1, <2>1, <3>5, <5>2 DEF TailField
          <6> QED
            BY <1>3, <6>1 DEF QueryField
        <5> QED
          BY <5>1, <5>2
      <4> QED
        BY <1>1, <3>1, <3>5, <4>1, <4>2, <4>3 DEF TailField
    <3>6. CASE p >= h
      <4>1. /\ z.s \in {"s_req_fragment_start", "s_req_fragment"}
            /\ z.u["path"] = PathField(a, q) /\ z.u["query"] = QueryField(u, q, h)
        BY <1>1, <2>1, <3>6 DEF TailField
      <4>2. new \in {"s_req_fragment_start", "s_req_fragment"}
        BY <2>3, <4>1, OnFragment DEF new
      <4> QED
        BY <1>1, <3>1, <3>6, <4>1, <4>2 DEF TailField
    <3> QED
      BY <1>1, <3>2, <3>3, <3>4, <3>5, <3>6
  <2> QED
    BY <2>2, <2>3
<1> QED
  BY <1>6, <1>7

LEMMA DeadUrl ==
  ASSUME NEW u, NEW z, NEW n \in Nat, UrlRuns(u, z, n), NEW m \in 0 .. n, z[m].s = "s_dead"
  PROVE  z[n].s = "s_dead"
<1> DEFINE T == {k \in 0 .. n - m : z[m + k].s = "s_dead"}
<1>0. n - m \in Nat
  OBVIOUS
<1>1. 0 \in T
  BY <1>0
<1>2. ASSUME NEW k \in 1 .. n - m, k - 1 \in T
      PROVE  k \in T
  <2> DEFINE x == z[m + (k - 1)]
             y == z[m + k]
             p == m + k
  <2>1. p \in 1 .. n /\ p - 1 = m + (k - 1) /\ p \in Nat /\ m + (k - 1) \in 0 .. n
    OBVIOUS
  <2>2. x \in UrlZ /\ y = UrlStep(x, u[p], p) /\ x.s = "s_dead"
    BY <1>2, <2>1 DEF UrlRuns
  <2> HIDE DEF x, y, p
  <2>3. UrlStepped(x, p, y, parse_url_char(x.s, u[p]))
    BY <2>1, <2>2, UrlStepIs
  <2>4. y.s = "s_dead"
    BY <2>2, <2>3, OnScheme DEF UrlStepped
  <2> QED
    BY <2>4 DEF y
<1>3. n - m \in T
  <2>1. n - m \in 0 .. n - m
    BY <1>0
  <2> HIDE DEF T
  <2> QED
    BY <1>0, <1>1, <1>2, <2>1, Reached
<1>4. m + (n - m) = n
  OBVIOUS
<1> QED
  BY <1>3, <1>4

LEMMA TailBegins ==
  ASSUME NEW u, NEW a, NEW q, NEW h, NEW n \in Nat, TailPlaces(u, a, q, h, n),
         NEW x \in UrlZ, ServerAt(u, a - 1, x), Server(u, a - 1),
         NEW y, y = UrlStep(x, u[a], a)
  PROVE  TailAt(u, a, q, h, a, y, x)
<1> DEFINE c == u[a]
           p == a - 1
           new == parse_url_char(x.s, c)
<1>1. /\ a \in Nat /\ q \in Nat /\ h \in Nat /\ a <= q /\ q <= h /\ a \in a .. n /\ a >= 5
      /\ p \in Nat
  <2>1. a \in Nat /\ q \in Nat /\ h \in Nat /\ a <= q /\ q <= h /\ a <= n /\ a >= 5
    BY PlacesIn
  <2> QED
    BY <2>1
<1>2. c \in {"/", "?"}
  BY DEF TailPlaces
<1>3. /\ a < q => c # "?"
      /\ a = q /\ a < h => c = "?"
      /\ a < h => c # "#"
      /\ a = h => c = "#"
  BY <1>1, PlacesIn
<1>4. UrlStepped(x, a, y, new)
  BY <1>1, UrlStepIs
<1> HIDE DEF p
<1>5. /\ x.s \in ServerStates /\ x.uf \in {"schema", "host"}
      /\ x.u["path"] = NoField /\ x.u["query"] = NoField
  <2> DEFINE A == \E k \in 5 .. p : u[k] = "@"
             S == Server(u, p)
  <2> HIDE DEF A
  <2>1. ServerAt(u, p, x) /\ S
    BY DEF p
  <2> HIDE DEF S
  <2>2. /\ x.s \in ServerStates /\ x.uf = IF p = 4 THEN "schema" ELSE "host"
        /\ x.u["path"] = NoField /\ x.u["query"] = NoField
    BY <2>1 DEF ServerAt, S, A
  <2> QED
    BY <2>2
<1> HIDE DEF c
<1>6. new = IF c = "/" THEN "s_req_path" ELSE "s_req_query_string_start"
  <2>1. new = IF x.s = "s_req_server_with_at" /\ c = "@" THEN "s_dead"
              ELSE IF c = "/" THEN "s_req_path"
              ELSE IF c = "?" THEN "s_req_query_string_start"
              ELSE IF c = "@" THEN "s_req_server_with_at"
              ELSE IF c \in ServerChar THEN "s_req_server" ELSE "s_dead"
    BY <1>5, OnServer
  <2> HIDE DEF new
  <2> QED
    BY <1>2, <2>1
<1> HIDE DEF new
<1>7. Keeps(x, x)
  BY DEF Keeps
<1>8. /\ y.s = new /\ Keeps(y, x)
      /\ new \in {"s_req_query_string_start", "s_req_fragment_start"} =>
           y.uf = x.uf /\ y.u["path"] = x.u["path"] /\ y.u["query"] = x.u["query"]
      /\ new = "s_req_path" =>
           /\ y.uf = "path" /\ y.u["query"] = x.u["query"]
           /\ y.u["path"] = IF "path" # x.uf THEN [off |-> a, len |-> 1]
                ELSE [off |-> x.u["path"].off, len |-> x.u["path"].len + 1]
  <2>1. new \in {"s_req_path", "s_req_query_string_start", "s_req_query_string",
                 "s_req_fragment_start", "s_req_fragment"}
    BY <1>6
  <2>2. Moved(x, a, y, new, x)
    BY <1>4, <1>7, <2>1, FieldMoves
  <2> QED
    BY <2>2 DEF Moved
<1>9. AllIn(u, a, a, TailChar)
  <2>1. c \in TailChar
    BY <1>2 DEF TailChar, UrlChar
  <2>2. \A k \in a .. a : k = a
    BY <1>1
  <2> QED
    BY <2>1, <2>2 DEF AllIn, c
<1>10. TailField(u, a, q, h, a, y)
  <2>1. CASE c = "/"
    <3>1. a < q /\ ~ (a >= h) /\ ~ (a >= q) /\ ~ (q < a) /\ a # q
      BY <1>1, <1>3, <2>1
    <3>2. new = "s_req_path" /\ (a - a) + 1 = 1
      BY <1>1, <1>6, <2>1
    <3> QED
      BY <1>5, <1>8, <3>1, <3>2 DEF TailField
  <2>2. CASE c = "?"
    <3>1. a = q /\ a < h /\ ~ (a < q) /\ ~ (q < a) /\ ~ (a >= h) /\ ~ (q > a)
      BY <1>1, <1>3, <2>2
    <3>2. new = "s_req_query_string_start"
      BY <1>6, <2>2
    <3>3. PathField(a, q) = NoField
      BY <3>1 DEF PathField
    <3> QED
      BY <1>5, <1>8, <3>1, <3>2, <3>3 DEF TailField
  <2> QED
    BY <1>2, <2>1, <2>2
<1> QED
  BY <1>8, <1>9, <1>10 DEF TailAt

LEMMA TailRuns ==
  ASSUME NEW u, NEW z, NEW n \in Nat, UrlRuns(u, z, n), NEW a, NEW q, NEW h,
         TailPlaces(u, a, q, h, n), NEW x, TailAt(u, a, q, h, a, z[a], x)
  PROVE  TailAt(u, a, q, h, n, z[n], x)
<1> DEFINE T == {k \in 0 .. n - a : TailAt(u, a, q, h, a + k, z[a + k], x)}
<1>0. a \in Nat /\ a >= 5 /\ a <= n /\ n - a \in Nat
  <2>1. a \in Nat /\ a >= 5 /\ a <= n
    BY PlacesIn
  <2> QED
    BY <2>1
<1>1. 0 \in T
  BY <1>0
<1>2. ASSUME NEW k \in 1 .. n - a, k - 1 \in T
      PROVE  k \in T
  <2> DEFINE p == a + (k - 1)
             r == a + k
             v == z[p]
             y == z[r]
  <2>1. p \in a .. n - 1 /\ r = p + 1 /\ r \in 1 .. n /\ p \in 0 .. n /\ r - 1 = p
    BY <1>0
  <2>2. TailAt(u, a, q, h, p, v, x)
    BY <1>2
  <2> HIDE DEF p, r
  <2>3. v \in UrlZ /\ y = UrlStep(v, u[r], r)
    BY <2>1 DEF UrlRuns
  <2> HIDE DEF v, y
  <2>4. TailAt(u, a, q, h, r, y, x)
    BY <2>1, <2>2, <2>3, TailKeeps
  <2> QED
    BY <1>0, <2>4 DEF r, y
<1>3. n - a \in T
  <2>1. n - a \in 0 .. n - a
    BY <1>0
  <2> HIDE DEF T
  <2> QED
    BY <1>0, <1>1, <1>2, <2>1, Reached
<1>4. a + (n - a) = n
  BY <1>0
<1> QED
  BY <1>3, <1>4

(* What is known when the bytes are at their end. *)
Live(u, n, a) == Server(u, a - 1) /\ AllIn(u, a, n, TailChar)

EndOfUrl(u, n, a, q, h, y) ==
  IF Live(u, n, a)
  THEN /\ y.s # "s_dead" /\ y.u["schema"] = [off |-> 1, len |-> 1]
       /\ y.u["host"] = IF a = 5 THEN NoField ELSE [off |-> 5, len |-> a - 5]
       /\ y.u["port"] = NoField /\ y.u["path"] = PathField(a, q)
       /\ y.u["query"] = QueryField(u, q, h)
       /\ y.at <=> \E k \in 5 .. a - 1 : u[k] = "@"
  ELSE y.s = "s_dead"

LEMMA UrlRunEnds ==
  ASSUME NEW u, NEW z, NEW n \in Nat, n >= 4, UrlRuns(u, z, n), ServerAt(u, 4, z[4]),
         NEW a, FirstAt(u, a, 5, n, {"/", "?"}), NEW q, FirstAt(u, q, a, n, {"?", "#"}),
         NEW h, FirstAt(u, h, a, n, {"#"})
  PROVE  EndOfUrl(u, n, a, q, h, z[n])
<1> DEFINE p == a - 1
           x == z[p]
           y == z[n]
<1>1. /\ a \in 5 .. n + 1 /\ a \in Nat /\ p \in 4 .. n /\ p \in 0 .. n /\ (a <= n => u[a] \in {"/", "?"})
      /\ \A k \in 5 .. n : k < a => u[k] \notin {"/", "?"}
      /\ (p = 4 <=> a = 5) /\ p - 4 = a - 5
  BY DEF FirstAt
<1>2. \A k \in 5 .. p : u[k] \notin {"/", "?"}
  BY <1>1
<1> HIDE DEF p
<1>3. ServerAt(u, p, x)
  BY <1>1, <1>2, ServerRuns
<1>4. x \in UrlZ /\ y \in UrlZ
  BY <1>1 DEF UrlRuns
<1> HIDE DEF x
<1> DEFINE S == Server(u, p)
           A == \E k \in 5 .. p : u[k] = "@"
<1>5. ASSUME S
      PROVE  /\ x.s \in ServerStates
             /\ x.u["schema"] = [off |-> 1, len |-> 1]
             /\ x.u["host"] = IF a = 5 THEN NoField ELSE [off |-> 5, len |-> a - 5]
             /\ x.u["port"] = NoField /\ x.u["path"] = NoField /\ x.u["query"] = NoField
             /\ x.at <=> A
  <2> HIDE DEF A
  <2>1. /\ x.s \in ServerStates
        /\ x.u["schema"] = [off |-> 1, len |-> 1]
        /\ x.u["host"] = IF p = 4 THEN NoField ELSE [off |-> 5, len |-> p - 4]
        /\ x.u["port"] = NoField /\ x.u["path"] = NoField /\ x.u["query"] = NoField
        /\ x.at <=> A
    BY <1>3, <1>5 DEF ServerAt, S, A
  <2> QED
    BY <1>1, <2>1
<1> HIDE DEF S, A
<1>6. CASE a = n + 1
  <2>1. p = n /\ x = y /\ \A C : AllIn(u, a, n, C)
    BY <1>1, <1>6 DEF p, x, AllIn
  <2>2. q = a /\ h = a
    BY <1>1, <1>6 DEF FirstAt
  <2>3. PathField(a, q) = NoField /\ QueryField(u, q, h) = NoField
    BY <1>1, <2>2 DEF PathField, QueryField
  <2>4. CASE S
    <3>1. Live(u, n, a)
      BY <2>1, <2>4 DEF Live, p, S
    <3>2. x.s # "s_dead"
      BY <1>5, <2>4 DEF ServerStates
    <3> HIDE DEF y
    <3>3. /\ y.s # "s_dead" /\ y.u["schema"] = [off |-> 1, len |-> 1]
          /\ y.u["host"] = IF a = 5 THEN NoField ELSE [off |-> 5, len |-> a - 5]
          /\ y.u["port"] = NoField /\ y.u["path"] = PathField(a, q)
          /\ y.u["query"] = QueryField(u, q, h)
          /\ y.at <=> A
      BY <1>5, <2>1, <2>3, <2>4, <3>2
    <3>4. EndOfUrl(u, n, a, q, h, y)
      BY <3>1, <3>3 DEF EndOfUrl, p, A
    <3> QED
      BY <3>4 DEF y
  <2>5. CASE ~ S
    <3>1. ~ Live(u, n, a) /\ x.s = "s_dead"
      BY <1>3, <2>5 DEF Live, ServerAt, p, S
    <3> QED
      BY <2>1, <3>1 DEF EndOfUrl
  <2> QED
    BY <2>4, <2>5
<1>7. CASE a <= n
  <2>1. TailPlaces(u, a, q, h, n)
    BY <1>1, <1>7 DEF TailPlaces
  <2>2. z[a] = UrlStep(x, u[a], a)
    <3>1. a \in 1 .. n
      BY <1>1, <1>7
    <3> QED
      BY <3>1 DEF UrlRuns, x, p
  <2>3. CASE S
    <3>1. TailAt(u, a, q, h, a, z[a], x)
      BY <1>3, <1>4, <2>1, <2>2, <2>3, TailBegins DEF p, S
    <3>2. TailAt(u, a, q, h, n, y, x)
      BY <2>1, <3>1, TailRuns
    <3> HIDE DEF y
    <3>3. CASE AllIn(u, a, n, TailChar)
      <4>1. TailField(u, a, q, h, n, y) /\ Keeps(y, x)
        BY <3>2, <3>3 DEF TailAt
      <4>2. y.s # "s_dead" /\ y.u["path"] = PathField(a, q) /\ y.u["query"] = QueryField(u, q, h)
        <5>0. a <= q /\ q <= h /\ h <= n + 1 /\ a \in Nat /\ q \in Nat /\ h \in Nat /\ n \in a .. n
          <6>1. a <= q /\ q <= h /\ h <= n + 1 /\ a \in Nat /\ q \in Nat /\ h \in Nat
            BY <2>1, PlacesIn
          <6> QED
            BY <1>7, <6>1
        <5>1. CASE n < q
          <6>1. (n - a) + 1 = q - a /\ q > a /\ ~ (h > q + 1)
            BY <1>7, <5>0, <5>1
          <6> QED
            BY <4>1, <5>1, <6>1 DEF TailField, PathField, QueryField
        <5>2. CASE n >= q /\ n < h
          <6>1. u[q] = "?"
            <7>1. q \in a .. n /\ q < h
              BY <5>0, <5>2
            <7> QED
              BY <2>1, <7>1, PlacesIn
          <6>2. h = n + 1
            BY <5>0, <5>2
          <6>3. CASE n = q
            <7>1. ~ (h > q + 1)
              BY <5>0, <6>2, <6>3
            <7> QED
              BY <4>1, <5>2, <6>3, <7>1 DEF TailField, QueryField
          <6>4. CASE q < n
            <7>1. h > q + 1 /\ n - q = (h - q) - 1
              BY <5>0, <6>2, <6>4
            <7> QED
              BY <4>1, <5>2, <6>1, <6>4, <7>1 DEF TailField, QueryField
          <6> QED
            BY <5>0, <5>2, <6>3, <6>4
        <5>3. CASE n >= h
          <6>1. n >= q
            BY <5>0, <5>3
          <6> QED
            BY <4>1, <5>3, <6>1 DEF TailField
        <5> QED
          BY <5>0, <5>1, <5>2, <5>3
      <4>3. Live(u, n, a)
        BY <2>3, <3>3 DEF Live, p, S
      <4>4. /\ y.u["schema"] = [off |-> 1, len |-> 1]
            /\ y.u["host"] = IF a = 5 THEN NoField ELSE [off |-> 5, len |-> a - 5]
            /\ y.u["port"] = NoField
            /\ y.at <=> A
        BY <1>5, <2>3, <4>1 DEF Keeps
      <4>5. EndOfUrl(u, n, a, q, h, y)
        BY <4>2, <4>3, <4>4 DEF EndOfUrl, p, A
      <4> QED
        BY <4>5 DEF y
    <3>4. CASE ~ AllIn(u, a, n, TailChar)
      <4>1. y.s = "s_dead" /\ ~ Live(u, n, a)
        BY <3>2, <3>4 DEF TailAt, Live
      <4> QED
        BY <4>1 DEF EndOfUrl, y
    <3> QED
      BY <3>3, <3>4
  <2>4. CASE ~ S
    <3>1. ~ Live(u, n, a) /\ x.s = "s_dead"
      BY <1>3, <2>4 DEF Live, ServerAt, p, S
    <3>2. y.s = "s_dead"
      BY <1>1, <3>1, DeadUrl DEF x
    <3> QED
      BY <3>1, <3>2 DEF EndOfUrl
  <2> QED
    BY <2>3, <2>4
<1> QED
  BY <1>1, <1>6, <1>7

(* Behind the scheme the authority begins. *)
UrlStart == [s |-> "s_req_spaces_before_url", uf |-> "none", at |-> FALSE,
             u |-> Fields({"schema", "userinfo", "host", "port", "path", "query", "fragment"})]

LEMMA UrlStarts ==
  /\ UrlStart \in UrlZ /\ UrlStart.s = "s_req_spaces_before_url" /\ UrlStart.uf = "none"
  /\ ~ UrlStart.at /\ \A f \in FieldNames : UrlStart.u[f] = NoField
<1>1. /\ Fields(FieldNames) = [f \in FieldNames |-> NoField] /\ NoField \in FieldSet
  BY DEF Fields, NoField, FieldSet
<1>2. Fields(FieldNames) \in FieldsSet /\ \A f \in FieldNames : Fields(FieldNames)[f] = NoField
  BY <1>1 DEF FieldsSet
<1>3. UrlStart = [s |-> "s_req_spaces_before_url", uf |-> "none", at |-> FALSE, u |-> Fields(FieldNames)]
  BY DEF UrlStart, FieldNames
<1>4. "s_req_spaces_before_url" \in UrlStates
  BY DEF UrlStates
<1> QED
  BY <1>2, <1>3, <1>4 DEF UrlZ

Schemed(u) == u[1] \in Words /\ u[2] = ":" /\ u[3] = "/" /\ u[4] = "/"

LEMMA SchemeRuns ==
  ASSUME NEW u, Schemed(u), NEW n \in Nat, n >= 4, NEW z, UrlRuns(u, z, n), z[0] = UrlStart
  PROVE  ServerAt(u, 4, z[4])
<1>1. /\ z[1] = UrlStep(z[0], u[1], 1) /\ z[2] = UrlStep(z[1], u[2], 2)
      /\ z[3] = UrlStep(z[2], u[3], 3) /\ z[4] = UrlStep(z[3], u[4], 4)
      /\ z[0] \in UrlZ /\ z[1] \in UrlZ /\ z[2] \in UrlZ /\ z[3] \in UrlZ /\ z[4] \in UrlZ
  <2>1. /\ 1 \in 1 .. n /\ 2 \in 1 .. n /\ 3 \in 1 .. n /\ 4 \in 1 .. n
        /\ 0 \in 0 .. n /\ 1 \in 0 .. n /\ 2 \in 0 .. n /\ 3 \in 0 .. n /\ 4 \in 0 .. n
        /\ 1 - 1 = 0 /\ 2 - 1 = 1 /\ 3 - 1 = 2 /\ 4 - 1 = 3
    OBVIOUS
  <2>2. \A k \in 1 .. n : z[k] = UrlStep(z[k - 1], u[k], k)
    BY DEF UrlRuns
  <2>3. z[1] = UrlStep(z[1 - 1], u[1], 1)
    BY <2>1, <2>2
  <2>4. z[2] = UrlStep(z[2 - 1], u[2], 2)
    BY <2>1, <2>2
  <2>5. z[3] = UrlStep(z[3 - 1], u[3], 3)
    BY <2>1, <2>2
  <2>6. z[4] = UrlStep(z[4 - 1], u[4], 4)
    BY <2>1, <2>2
  <2> QED
    BY <2>1, <2>3, <2>4, <2>5, <2>6 DEF UrlRuns
<1> DEFINE v == z[1]
           w == z[2]
           x == z[3]
           y == z[4]
<1>2. /\ v.s = "s_req_schema" /\ v.uf = "schema" /\ ~ v.at
      /\ v.u["schema"] = [off |-> 1, len |-> 1]
      /\ \A f \in FieldNames : f # "schema" => v.u[f] = NoField
  <2>1. UrlStepped(z[0], 1, v, parse_url_char(z[0].s, u[1]))
    BY <1>1, UrlStepIs
  <2>2. parse_url_char(z[0].s, u[1]) = "s_req_schema"
    BY OnScheme, UrlStarts DEF Schemed
  <2> HIDE DEF v
  <2>3. UrlStepped(UrlStart, 1, v, "s_req_schema")
    BY <2>1, <2>2
  <2>4. "s_req_schema" \in DOMAIN FieldOf /\ FieldOf["s_req_schema"] = "schema"
    BY FieldOfIs
  <2>5. /\ v.s = "s_req_schema" /\ v.uf = "schema" /\ (v.at <=> UrlStart.at)
        /\ v.u["schema"] = IF "schema" # UrlStart.uf THEN [off |-> 1, len |-> 1]
             ELSE [off |-> UrlStart.u["schema"].off, len |-> UrlStart.u["schema"].len + 1]
        /\ \A f \in FieldNames : f # "schema" => v.u[f] = UrlStart.u[f]
    BY <2>3, <2>4 DEF UrlStepped
  <2> QED
    BY <2>5, UrlStarts
<1>3. UrlStepped(v, 2, w, "s_req_schema_slash")
  <2>1. UrlStepped(v, 2, w, parse_url_char(v.s, u[2]))
    BY <1>1, UrlStepIs
  <2> HIDE DEF v, w
  <2> QED
    BY <1>2, <2>1, OnScheme DEF Schemed
<1> HIDE DEF v
<1>4. w.s = "s_req_schema_slash" /\ w.uf = v.uf /\ w.at = v.at /\ w.u = v.u
  BY <1>3, FieldOfIs DEF UrlStepped
<1>5. UrlStepped(w, 3, x, "s_req_schema_slash_slash")
  <2>1. UrlStepped(w, 3, x, parse_url_char(w.s, u[3]))
    BY <1>1, UrlStepIs
  <2> HIDE DEF w, x
  <2> QED
    BY <1>4, <2>1, OnScheme DEF Schemed
<1> HIDE DEF w
<1>6. x.s = "s_req_schema_slash_slash" /\ x.uf = w.uf /\ x.at = w.at /\ x.u = w.u
  BY <1>5, FieldOfIs DEF UrlStepped
<1>7. UrlStepped(x, 4, y, "s_req_server_start")
  <2>1. UrlStepped(x, 4, y, parse_url_char(x.s, u[4]))
    BY <1>1, UrlStepIs
  <2> HIDE DEF x, y
  <2> QED
    BY <1>6, <2>1, OnScheme DEF Schemed
<1> HIDE DEF x
<1>8. y.s = "s_req_server_start" /\ y.uf = x.uf /\ y.at = x.at /\ y.u = x.u
  BY <1>7, FieldOfIs DEF UrlStepped
<1> HIDE DEF y
<1> DEFINE A == \E k \in 5 .. 4 : u[k] = "@"
<1>9. ~ A /\ Server(u, 4)
  BY DEF Server, AllIn
<1> HIDE DEF A
<1>10. /\ y.s \in ServerStates /\ y.s # "s_req_server_with_at" /\ y.uf = "schema" /\ ~ y.at
       /\ y.u["schema"] = [off |-> 1, len |-> 1] /\ y.u["host"] = NoField
       /\ y.u["port"] = NoField /\ y.u["path"] = NoField /\ y.u["query"] = NoField
  <2>1. y.u = v.u /\ y.uf = v.uf /\ y.at = v.at
    BY <1>4, <1>6, <1>8
  <2> QED
    BY <1>2, <1>8, <2>1 DEF ServerStates, FieldNames
<1>11. ServerAt(u, 4, y)
  BY <1>9, <1>10 DEF ServerAt, A
<1> QED
  BY <1>11 DEF y

-----------------------------------------------------------------------------
(* The path of the request, of the pieces of the URL. *)

PathOf(u, f) ==
  (IF f["path"].len = 0 THEN <<"/">> ELSE Field(u, f["path"]))
  \o (IF f["query"].len > 0 THEN <<"?">> \o Field(u, f["query"]) ELSE <<>>)

PathIn(tail) ==
  LET query == Rest(Cut(tail, {"#"}), {"?"})
      path  == Cut(tail, {"?", "#"})
  IN  (IF path = <<>> THEN <<"/">> ELSE path) \o IF Len(query) > 1 THEN query ELSE <<>>

LEMMA PieceEnds ==
  ASSUME NEW u, NEW S, NEW a \in Nat \ {0}, NEW n \in Nat, NEW l, l = (n - a) + 1, a <= n + 1,
         NEW x, Piece(x, u, a - 1, l, S), NEW C, NEW e, FirstAt(u, e, a, n, C)
  PROVE  /\ Piece(Cut(x, C), u, a - 1, e - a, S)
         /\ Piece(Rest(x, C), u, e - 1, (n - e) + 1, S)
<1> DEFINE d == From(x, 1, C) - 1
           o == a - 1
<1>1. /\ d \in 0 .. l
      /\ Piece(Cut(x, C), u, o, d, S) /\ Piece(Rest(x, C), u, o + d, l - d, S)
      /\ FirstAt(u, (o + d) + 1, o + 1, o + l, C)
  BY CutPiece
<1> HIDE DEF d
<1>2. o + 1 = a /\ o + l = n
  OBVIOUS
<1>3. FirstAt(u, (o + d) + 1, a, n, C)
  BY <1>1, <1>2
<1>4. (o + d) + 1 = e
  BY <1>3, FirstOnce
<1>5. d = e - a /\ o + d = e - 1 /\ l - d = (n - e) + 1
  BY <1>1, <1>4
<1> QED
  BY <1>1, <1>5

(* A byte in front of a piece. *)
LEMMA PieceWith ==
  ASSUME NEW u, NEW S, NEW o \in Nat, NEW l \in Nat, NEW x, Piece(x, u, o + 1, l, S),
         NEW c \in S, u[o + 1] = c
  PROVE  Piece(<<c>> \o x, u, o, l + 1, S)
<1> DEFINE y == <<c>>
           r == y \o x
<1>1. /\ x \in Seq(S) /\ Len(x) = l /\ u \in Seq(S) /\ "NUL" \notin S /\ (o + 1) + l <= Len(u)
      /\ \A k \in 1 .. l : x[k] = u[(o + 1) + k]
  BY DEF Piece
<1>2. y \in Seq(S) /\ Len(y) = 1 /\ y[1] = c
  OBVIOUS
<1> HIDE DEF y
<1>3. Prefixed(r, 1, y, x, S)
  BY <1>1, <1>2, PrefixIsThere
<1> HIDE DEF r
<1>4. /\ r \in Seq(S) /\ Len(r) = 1 + l /\ r[1] = c
      /\ \A j \in 1 .. l : r[1 + j] = x[j]
  BY <1>1, <1>2, <1>3 DEF Prefixed
<1>5. \A k \in 1 .. l + 1 : r[k] = u[o + k]
  <2> SUFFICES ASSUME NEW k \in 1 .. l + 1 PROVE r[k] = u[o + k]
    OBVIOUS
  <2>1. CASE k = 1
    BY <1>4, <2>1
  <2>2. CASE k # 1
    <3> DEFINE j == k - 1
    <3>1. j \in 1 .. l /\ 1 + j = k /\ (o + 1) + j = o + k
      BY <2>2
    <3> HIDE DEF j
    <3> QED
      BY <1>1, <1>4, <3>1
  <2> QED
    BY <2>1, <2>2
<1>6. o + (l + 1) <= Len(u) /\ 1 + l = l + 1
  BY <1>1
<1>7. Piece(r, u, o, l + 1, S)
  BY <1>1, <1>4, <1>5, <1>6 DEF Piece
<1> QED
  BY <1>7 DEF r, y

LEMMA PathSplit ==
  ASSUME NEW u, NEW S, NEW a \in Nat \ {0}, NEW n \in Nat, n = Len(u), a <= n + 1,
         NEW tail, Piece(tail, u, a - 1, (n - a) + 1, S), "?" \in S,
         NEW q, FirstAt(u, q, a, n, {"?", "#"}), NEW h, FirstAt(u, h, a, n, {"#"}),
         NEW f, f["path"] = PathField(a, q), f["query"] = QueryField(u, q, h)
  PROVE  PathOf(u, f) = PathIn(tail)
<1> DEFINE path == Cut(tail, {"?", "#"})
           front == Cut(tail, {"#"})
           query == Rest(front, {"?"})
<1>1. /\ q \in Nat /\ h \in Nat /\ a <= q /\ q <= n + 1 /\ a <= h /\ h <= n + 1 /\ q <= h
      /\ u \in Seq(S) /\ "NUL" \notin S
      /\ \A k \in a .. n : k < q => u[k] \notin {"?", "#"}
      /\ \A k \in a .. n : k < h => u[k] # "#"
      /\ q <= n => u[q] \in {"?", "#"}
      /\ h <= n => u[h] = "#"
  <2>1. /\ q \in a .. n + 1 /\ (q <= n => u[q] \in {"?", "#"})
        /\ \A k \in a .. n : k < q => u[k] \notin {"?", "#"}
        /\ h \in a .. n + 1 /\ (h <= n => u[h] \in {"#"})
        /\ \A k \in a .. n : k < h => u[k] \notin {"#"}
        /\ u \in Seq(S) /\ "NUL" \notin S
    BY DEF FirstAt, Piece
  <2>2. h <= n /\ h < q => h \in a .. n
    BY <2>1
  <2>3. ~ (h <= n /\ h < q)
    BY <2>1, <2>2
  <2> QED
    BY <2>1, <2>3
<1>2. Piece(path, u, a - 1, q - a, S)
  BY PieceEnds
<1>3. Piece(front, u, a - 1, h - a, S)
  BY PieceEnds
<1> HIDE DEF path, front
<1> DEFINE r == IF q < h THEN q ELSE h
           m == h - 1
<1>4. FirstAt(u, r, a, m, {"?"})
  <2>1. r \in a .. m + 1 /\ m <= n
    BY <1>1
  <2>2. r <= m => u[r] = "?"
    <3>1. r <= m => r = q /\ q < h /\ q <= n /\ q \in a .. n
      BY <1>1
    <3> QED
      BY <1>1, <3>1
  <2>3. \A k \in a .. m : k < r => k \in a .. n /\ k < q
    BY <1>1
  <2> HIDE DEF r, m
  <2> QED
    BY <1>1, <2>1, <2>2, <2>3 DEF FirstAt
<1>5. Piece(query, u, r - 1, h - r, S)
  <2>1. m \in Nat /\ h - a = (m - a) + 1 /\ a <= m + 1 /\ (m - r) + 1 = h - r
    BY <1>1
  <2> HIDE DEF m, r, query
  <2>2. Piece(front, u, a - 1, (m - a) + 1, S)
    BY <1>3, <2>1
  <2>3. Piece(Rest(front, {"?"}), u, r - 1, (m - r) + 1, S)
    BY <1>4, <2>1, <2>2, PieceEnds
  <2> QED
    BY <2>1, <2>3 DEF query
<1> HIDE DEF query
<1> DEFINE A == IF f["path"].len = 0 THEN <<"/">> ELSE Field(u, f["path"])
           B == IF f["query"].len > 0 THEN <<"?">> \o Field(u, f["query"]) ELSE <<>>
           P == IF path = <<>> THEN <<"/">> ELSE path
           Q == IF Len(query) > 1 THEN query ELSE <<>>
<1>6. A = P
  <2>1. path = <<>> <=> q - a = 0
    BY <1>2, EmptyPiece
  <2>2. CASE q = a
    <3>1. f["path"] = NoField
      BY <1>1, <2>2 DEF PathField
    <3>2. f["path"].len = 0 /\ path = <<>>
      BY <1>1, <2>1, <2>2, <3>1 DEF NoField
    <3> QED
      BY <3>2
  <2>3. CASE q # a
    <3>1. f["path"] = [off |-> a, len |-> q - a] /\ q - a \in Nat /\ q - a # 0 /\ (a + (q - a)) - 1 <= Len(u)
      BY <1>1, <2>3 DEF PathField
    <3>2. Piece(Field(u, f["path"]), u, a - 1, q - a, S)
      BY <1>1, <3>1, FieldPiece
    <3>3. Field(u, f["path"]) = path
      BY <1>2, <3>2, SamePiece
    <3>4. f["path"].len # 0 /\ path # <<>>
      BY <2>1, <3>1
    <3> QED
      BY <3>3, <3>4
  <2> QED
    BY <2>2, <2>3
<1>7. B = Q
  <2>1. Len(query) = h - r
    BY <1>5 DEF Piece
  <2>2. CASE q < h
    <3>1. r = q /\ q <= n /\ q \in a .. n
      BY <1>1, <2>2
    <3>2. u[q] = "?"
      BY <1>1, <2>2, <3>1
    <3>3. CASE h > q + 1
      <4> DEFINE g == f["query"]
                 o == q - 1
                 l == (h - q) - 1
                 x == Field(u, g)
      <4>1. g = [off |-> q + 1, len |-> l]
        BY <3>2, <3>3 DEF QueryField
      <4>2. /\ q + 1 \in Nat \ {0} /\ l \in Nat /\ l > 0 /\ ((q + 1) + l) - 1 <= Len(u)
            /\ (q + 1) - 1 = o + 1 /\ o \in Nat /\ o + 1 = q /\ l + 1 = h - r /\ o = r - 1 /\ h - r > 1
        BY <1>1, <2>2, <3>1, <3>3
      <4> HIDE DEF g, o, l
      <4>3. Piece(x, u, (q + 1) - 1, l, S)
        BY <1>1, <4>1, <4>2, FieldPiece
      <4>4. Piece(x, u, o + 1, l, S)
        BY <4>2, <4>3
      <4> HIDE DEF x
      <4>5. Piece(<<"?">> \o x, u, o, l + 1, S)
        BY <3>2, <4>2, <4>4, PieceWith
      <4>6. Piece(<<"?">> \o x, u, r - 1, h - r, S)
        BY <4>2, <4>5
      <4>7. <<"?">> \o x = query
        BY <1>5, <4>6, SamePiece
      <4>8. g.len > 0
        BY <4>1, <4>2
      <4> QED
        BY <2>1, <4>2, <4>7, <4>8 DEF g, x
    <3>4. CASE ~ (h > q + 1)
      <4>1. f["query"] = NoField
        BY <3>4 DEF QueryField
      <4>2. ~ (f["query"].len > 0)
        BY <4>1 DEF NoField
      <4>3. ~ (Len(query) > 1)
        BY <1>1, <2>1, <3>1, <3>4
      <4> QED
        BY <4>2, <4>3
    <3> QED
      BY <3>3, <3>4
  <2>3. CASE ~ (q < h)
    <3>1. r = h /\ ~ (h > q + 1) /\ h - r = 0
      BY <1>1, <2>3
    <3>2. f["query"] = NoField
      BY <3>1 DEF QueryField
    <3>3. ~ (f["query"].len > 0)
      BY <3>2 DEF NoField
    <3>4. ~ (Len(query) > 1)
      BY <2>1, <3>1
    <3> QED
      BY <3>3, <3>4
  <2> QED
    BY <2>2, <2>3
<1>8. PathIn(tail) = P \o Q
  BY DEF PathIn, path, query, front
<1>9. PathOf(u, f) = A \o B
  BY DEF PathOf
<1> HIDE DEF A, B, P, Q
<1> QED
  BY <1>6, <1>7, <1>8, <1>9

-----------------------------------------------------------------------------
(* What a host that is one comes with. *)

Numbers(v, d) ==
  v = [n \in 0 .. Len(d) |-> IF n = 0 THEN 0 ELSE 10 * v[n - 1] + Code(d[n]) - Code("0")]

LEMMA PortIsInt ==
  ASSUME NEW d \in Seq(Decimal)
  PROVE  Port(d) \in Int
<1> DEFINE l == Len(d)
           e == [k \in 1 .. l |-> Code(d[k])]
           o == Code("0")
           v == CHOOSE v : Numbers(v, d)
<1>1. \A c \in Decimal : Code(c) \in Int
  <2> SUFFICES ASSUME NEW c \in Decimal PROVE Code(c) \in Int
    OBVIOUS
  <2>1. Bytes[8] = "0" /\ Bytes[9] = "1" /\ 8 \in DOMAIN Bytes /\ 9 \in DOMAIN Bytes
    BY TheBytes
  <2>2. c \in Range(Bytes)
    BY <2>1 DEF Decimal, Range
  <2>3. Code(c) \in 0 .. 15
    BY <2>2, CodeOf
  <2> QED
    BY <2>3
<1>2. l \in Nat /\ o \in Int /\ \A k \in 1 .. l : Code(d[k]) \in Int
  BY <1>1 DEF Decimal
<1> HIDE DEF l, o
<1>3. PICK h : h \in [0 .. l -> Int] /\ Numbers(h, d)
  <2> DEFINE step == [k \in 1 .. l |-> [x \in Int |-> 10 * x + Code(d[k]) - o]]
  <2>1. step \in [1 .. l -> [Int -> Int]]
    BY <1>2
  <2>2. \A k \in 1 .. l, x \in Int : step[k][x] = 10 * x + Code(d[k]) - o
    OBVIOUS
  <2> HIDE DEF step
  <2>3. PICK h : Iterates(h, l, Int, 0, step)
    BY <1>2, <2>1, Iterated, 0 \in Int
  <2>4. \A k \in 1 .. l : h[k] = 10 * h[k - 1] + Code(d[k]) - o
    BY <1>2, <2>2, <2>3 DEF Iterates
  <2>5. h = [n \in 0 .. l |-> IF n = 0 THEN 0 ELSE 10 * h[n - 1] + Code(d[n]) - o]
    BY <1>2, <2>3, <2>4 DEF Iterates
  <2>6. h \in [0 .. l -> Int]
    BY <2>3 DEF Iterates
  <2> QED
    BY <2>5, <2>6 DEF Numbers, l, o
<1>4. Numbers(v, d)
  BY <1>3
<1>5. Port(d) = v[l]
  BY DEF Port, Numbers, l
<1> HIDE DEF v
<1>6. v = [n \in 0 .. l |-> IF n = 0 THEN 0 ELSE 10 * v[n - 1] + Code(d[n]) - o]
  BY <1>4 DEF Numbers, l, o
<1> DEFINE g == [n \in 0 .. l |-> IF n = 0 THEN 0 ELSE 10 * v[n - 1] + Code(d[n]) - o]
           T == {n \in 0 .. l : v[n] \in Int}
<1>7. g[0] = 0 /\ \A n \in 1 .. l : g[n] = 10 * v[n - 1] + Code(d[n]) - o
  BY <1>2
<1>8. v = g
  BY <1>6
<1> HIDE DEF g
<1>9. 0 \in T
  BY <1>2, <1>7, <1>8
<1>10. ASSUME NEW n \in 1 .. l, n - 1 \in T
       PROVE  n \in T
  BY <1>2, <1>7, <1>8, <1>10
<1>11. l \in T
  <2>1. l \in 0 .. l
    BY <1>2
  <2> HIDE DEF T
  <2> QED
    BY <1>2, <1>9, <1>10, <2>1, Reached
<1> QED
  BY <1>5, <1>11

BracketChar == UserinfoChar \cup {"[", "]"}

LEMMA BracketBytesAre ==
  ASSUME NEW u, NEW i \in Nat \ {0}, NEW b \in Nat, V6Ends(u, i, b)
  PROVE  b > i + 1 /\ AllIn(u, i, b, BracketChar)
<1>1. u[b] = "]" /\ (InV6(u, i, b - 1) \/ InZone(u, i, b - 1))
  BY DEF V6Ends
<1>2. V6Char \cup ZoneChar \cup {"%"} \subseteq BracketChar /\ "[" \in BracketChar /\ "]" \in BracketChar
  BY CharsOfHost DEF BracketChar
<1> HIDE DEF BracketChar
<1>3. CASE InV6(u, i, b - 1)
  <2>1. i + 1 <= b - 1 /\ u[i] = "[" /\ \A k \in i + 1 .. b - 1 : u[k] \in V6Char
    BY <1>3 DEF InV6, AllIn
  <2>2. \A k \in i .. b : k = i \/ k = b \/ k \in i + 1 .. b - 1
    BY <2>1
  <2>3. \A k \in i .. b : u[k] \in BracketChar
    BY <1>1, <1>2, <2>1, <2>2
  <2> QED
    BY <2>1, <2>3 DEF AllIn
<1>4. CASE InZone(u, i, b - 1)
  <2>1. PICK j \in i .. b - 1 - 1 : AtZone(u, i, j) /\ AllIn(u, j + 1, b - 1, ZoneChar)
    BY <1>4 DEF InZone
  <2>2. /\ i + 1 <= j - 1 /\ u[i] = "[" /\ u[j] = "%"
        /\ \A k \in i + 1 .. j - 1 : u[k] \in V6Char
        /\ \A k \in j + 1 .. b - 1 : u[k] \in ZoneChar
    BY <2>1 DEF AtZone, InV6, AllIn
  <2>3. \A k \in i .. b : k = i \/ k = b \/ k = j \/ k \in i + 1 .. j - 1 \/ k \in j + 1 .. b - 1
    BY <2>1, <2>2
  <2>4. \A k \in i .. b : u[k] \in BracketChar
    BY <1>1, <1>2, <2>2, <2>3
  <2>5. b > i + 1
    BY <2>1, <2>2
  <2> QED
    BY <2>4, <2>5 DEF AllIn
<1> QED
  BY <1>1, <1>3, <1>4

(* The host is not empty, and its port is a number. *)
HostIsThere(u, i, M, f) ==
  /\ M >= i /\ AllIn(u, i, M, BracketChar)
  /\ f["host"].len > 0 /\ Port(Field(u, f["port"])) \in Int

LEMMA HostThere ==
  ASSUME NEW u, NEW S, u \in Seq(S), NEW i \in Nat \ {0}, NEW M \in Nat, M <= Len(u), HostOk(u, i, M),
         NEW f, HostFields(u, i, M, f)
  PROVE  HostIsThere(u, i, M, f)
<1>1. HostChar \cup Decimal \cup {":"} \subseteq BracketChar
  BY CharsOfHost DEF BracketChar
<1>2. Port(Field(u, NoField)) \in Int
  <2>1. Field(u, NoField) = <<>>
    BY FieldEmpty
  <2>2. <<>> \in Seq(Decimal)
    OBVIOUS
  <2> QED
    BY <2>1, <2>2, PortIsInt
<1>3. CASE InHost(u, i, M)
  <2>1. i <= M /\ \A k \in i .. M : u[k] \in HostChar
    BY <1>3 DEF InHost, AllIn
  <2>2. f["host"] = [off |-> i, len |-> (M - i) + 1] /\ f["port"] = NoField
    BY <1>3 DEF HostFields
  <2>3. AllIn(u, i, M, BracketChar)
    BY <1>1, <2>1 DEF AllIn
  <2>4. (M - i) + 1 > 0
    BY <2>1
  <2> QED
    BY <1>2, <2>1, <2>2, <2>3, <2>4 DEF HostIsThere
<1>4. CASE V6Ends(u, i, M)
  <2>1. M > i + 1 /\ AllIn(u, i, M, BracketChar)
    BY <1>4, BracketBytesAre
  <2>2. f["host"] = [off |-> i + 1, len |-> (M - i) - 1] /\ f["port"] = NoField
    BY <1>4 DEF HostFields
  <2>3. (M - i) - 1 > 0 /\ M >= i
    BY <2>1
  <2> QED
    BY <1>2, <2>1, <2>2, <2>3 DEF HostIsThere
<1>5. CASE InPort(u, i, M)
  <2>1. PICK c \in i .. M - 1 : AtPort(u, i, c) /\ AllIn(u, c + 1, M, Decimal)
    BY <1>5 DEF InPort
  <2>2. c \in i .. M /\ c < M /\ c \in Nat /\ c - 1 \in Nat /\ M >= i
    BY <2>1
  <2>3. PortFields(u, i, M, c, f)
    BY <2>2 DEF HostFields
  <2>4. /\ InHost(u, i, c - 1) \/ V6Ends(u, i, c - 1)
        /\ u[c] = ":" /\ \A k \in c + 1 .. M : u[k] \in Decimal
    BY <2>1 DEF AtPort, AllIn
  <2>5. /\ InHost(u, i, c - 1) => f["host"] = [off |-> i, len |-> c - i]
        /\ V6Ends(u, i, c - 1) => f["host"] = [off |-> i + 1, len |-> (c - i) - 2]
        /\ f["port"] = [off |-> c + 1, len |-> M - c]
    BY <2>1, <2>2, <2>3 DEF PortFields
  <2>6. AllIn(u, i, c - 1, BracketChar) /\ f["host"].len > 0
    <3>1. CASE InHost(u, i, c - 1)
      <4>1. i <= c - 1 /\ \A k \in i .. c - 1 : u[k] \in HostChar
        BY <3>1 DEF InHost, AllIn
      <4>2. AllIn(u, i, c - 1, BracketChar)
        BY <1>1, <4>1 DEF AllIn
      <4>3. c - i > 0
        BY <2>2, <4>1
      <4> QED
        BY <2>5, <3>1, <4>2, <4>3
    <3>2. CASE V6Ends(u, i, c - 1)
      <4>1. c - 1 > i + 1 /\ AllIn(u, i, c - 1, BracketChar)
        BY <2>2, <3>2, BracketBytesAre
      <4>2. (c - i) - 2 > 0
        BY <2>2, <4>1
      <4> QED
        BY <2>5, <3>2, <4>1, <4>2
    <3> QED
      BY <2>4, <3>1, <3>2
  <2>7. AllIn(u, i, M, BracketChar)
    <3>1. \A k \in i .. M : k \in i .. c - 1 \/ k = c \/ k \in c + 1 .. M
      BY <2>2
    <3> QED
      BY <1>1, <2>4, <2>6, <3>1 DEF AllIn
  <2>8. Field(u, f["port"]) \in Seq(Decimal)
    <3> DEFINE d == M - c
               e == c + 1
               g == f["port"]
    <3>1. d \in Nat /\ e \in Nat \ {0} /\ e + d - 1 = M
      BY <2>2
    <3>2. g = [off |-> e, len |-> d] /\ \A k \in e .. M : u[k] \in Decimal
      BY <2>4, <2>5
    <3> HIDE DEF d, e, g
    <3>3. Field(u, g) = SubSeq(u, e, M)
      BY <3>1, <3>2 DEF Field
    <3>4. SubSeq(u, e, M) \in Seq(Decimal)
      BY <3>1, <3>2
    <3> QED
      BY <3>3, <3>4 DEF g
  <2>9. Port(Field(u, f["port"])) \in Int
    BY <2>8, PortIsInt
  <2> QED
    BY <2>2, <2>6, <2>7, <2>9 DEF HostIsThere
<1> QED
  BY <1>3, <1>4, <1>5 DEF HostOk

-----------------------------------------------------------------------------
(* The authority of a URL, whatever the automaton of the URL made of it. *)

AuthorityIs(u, S, a, U, s, R) ==
  /\ AuthoritiesAre(u, s, R)
  /\ R.ok => /\ R.u["path"] = U["path"] /\ R.u["query"] = U["query"]
             /\ R.u["host"].len > 0 /\ Port(Field(u, R.u["port"])) \in Int
             /\ a > 5 /\ Server(u, a - 1)

LEMMA AuthorityFound ==
  ASSUME NEW u, NEW S, NEW a \in Nat, a >= 5, NEW s, Piece(s, u, 4, a - 5, S),
         NEW U \in FieldsSet, U["host"] = [off |-> 5, len |-> a - 5], U["port"] = NoField,
         NEW at, at <=> \E k \in 5 .. a - 1 : u[k] = "@"
  PROVE  AuthorityIs(u, S, a, U, s, http_parse_host(u, U, at))
<1> DEFINE M == a - 1
           l == a - 5
           R == http_parse_host(u, U, at)
           w == (4 + (From(s, 1, {"@"}) - 1)) + 1
           i == IF w <= M THEN w + 1 ELSE 5
<1>1. M \in Nat /\ l \in Nat /\ M = 5 + l - 1 /\ 4 + l = M /\ a = M + 1 /\ 5 - 1 = 4 /\ 4 + 1 = 5
      /\ 5 \in Nat \ {0}
  OBVIOUS
<1>2. u \in Seq(S) /\ M <= Len(u)
  BY <1>1 DEF Piece
<1>3. Piece(s, u, 5 - 1, l, S)
  OBVIOUS
<1> HIDE DEF M, l
<1>4. FirstAt(u, w, 5, M, {"@"})
  <2> DEFINE e == From(s, 1, {"@"}) - 1
  <2>1. Piece(s, u, 4, l, S)
    BY DEF l
  <2>2. FirstAt(u, (4 + e) + 1, 4 + 1, 4 + l, {"@"})
    BY <2>1, CutPiece
  <2> QED
    BY <1>1, <2>2
<1> HIDE DEF w
<1>5. /\ w \in 5 .. M + 1 /\ (w <= M => u[w] = "@") /\ \A k \in 5 .. M : k < w => u[k] # "@"
  BY <1>4 DEF FirstAt
<1>6. at <=> w <= M
  <2>1. w <= M => w \in 5 .. M
    BY <1>5
  <2>2. ~ (w <= M) => \A k \in 5 .. M : k < w
    BY <1>1, <1>5
  <2> QED
    BY <1>5, <2>1, <2>2 DEF M
<1> HIDE DEF R
<1>7. HostFound(u, U, 5, M, w, i, R)
  <2>1. U["host"] = [off |-> 5, len |-> l]
    BY DEF l
  <2> HIDE DEF i
  <2>2. i = IF w <= M THEN w + 1 ELSE 5
    BY DEF i
  <2> QED
    BY <1>1, <1>4, <1>6, <2>1, <2>2, HostParsed DEF R
<1>8. i \in Nat \ {0} /\ i >= 5 /\ i - 1 \in Nat
  BY <1>5
<1>9. AuthoritiesAre(u, s, R)
  <2> HIDE DEF i
  <2>1. i = IF w <= M THEN w + 1 ELSE 5
    BY DEF i
  <2> QED
    BY <1>1, <1>3, <1>4, <1>7, <2>1, AuthorityScanned
<1> SUFFICES ASSUME R.ok
             PROVE  /\ R.u["path"] = U["path"] /\ R.u["query"] = U["query"]
                    /\ R.u["host"].len > 0 /\ Port(Field(u, R.u["port"])) \in Int
                    /\ a > 5 /\ Server(u, a - 1)
  BY <1>9 DEF AuthorityIs, R
<1>10. /\ w <= M => AllIn(u, 5, w - 1, UserinfoChar)
       /\ HostOk(u, i, M) /\ HostFields(u, i, M, R.u)
       /\ R.u["path"] = U["path"] /\ R.u["query"] = U["query"]
  BY <1>7 DEF HostFound
<1>11. HostIsThere(u, i, M, R.u)
  <2> HIDE DEF i
  <2> QED
    BY <1>1, <1>2, <1>8, <1>10, HostThere
<1>12. /\ M >= i /\ AllIn(u, i, M, BracketChar) /\ R.u["host"].len > 0
       /\ Port(Field(u, R.u["port"])) \in Int
  BY <1>11 DEF HostIsThere
<1>13. Server(u, M)
  <2>1. "@" \notin BracketChar /\ "@" \in ServerChar /\ BracketChar \subseteq ServerChar
        /\ UserinfoChar \subseteq BracketChar
    BY UrlChars DEF BracketChar, ServerChar
  <2>2. \A k \in 5 .. M : u[k] \in BracketChar \/ (u[k] = "@" /\ k = w)
    <3> SUFFICES ASSUME NEW k \in 5 .. M, k # w PROVE u[k] \in BracketChar
      <4>1. ASSUME NEW k \in 5 .. M, k = w PROVE u[k] = "@"
        BY <1>1, <1>5, <4>1
      <4> QED
        BY <4>1
    <3>1. CASE w <= M /\ k < w
      <4>1. k \in 5 .. w - 1
        BY <1>1, <1>5, <3>1
      <4> QED
        BY <1>10, <2>1, <3>1, <4>1 DEF AllIn
    <3>2. CASE ~ (w <= M /\ k < w)
      <4>1. k \in i .. M
        BY <1>1, <1>5, <3>2
      <4> QED
        BY <1>12, <4>1 DEF AllIn
    <3> QED
      BY <3>1, <3>2
  <2>3. AllIn(u, 5, M, ServerChar)
    BY <2>1, <2>2 DEF AllIn
  <2>4. ASSUME NEW k \in 6 .. M, u[k] = "@", u[k - 1] = "@"
        PROVE  FALSE
    <3>1. k \in 5 .. M /\ k - 1 \in 5 .. M /\ k # k - 1
      BY <1>1
    <3> QED
      BY <2>1, <2>2, <2>4, <3>1
  <2> QED
    BY <2>3, <2>4 DEF Server
<1>14. a > 5 /\ a - 1 = M
  BY <1>1, <1>8, <1>12
<1> QED
  BY <1>10, <1>12, <1>13, <1>14

(* A text whose authority is one has bytes of an authority. *)
LEMMA AuthorityNeeds ==
  ASSUME NEW u, NEW S, NEW a \in Nat, a >= 5, NEW s, Piece(s, u, 4, a - 5, S), Authorities(s) # {}
  PROVE  a > 5 /\ Server(u, a - 1)
<1> DEFINE host == [off |-> 5, len |-> a - 5]
           U == [f \in FieldNames |-> IF f = "host" THEN host ELSE NoField]
           at == \E k \in 5 .. a - 1 : u[k] = "@"
           R == http_parse_host(u, U, at)
<1>1. U \in FieldsSet /\ U["host"] = host /\ U["port"] = NoField
  <2>1. host \in FieldSet /\ NoField \in FieldSet
    BY DEF FieldSet, NoField
  <2> HIDE DEF host
  <2> QED
    BY <2>1 DEF FieldsSet, FieldNames
<1> HIDE DEF U
<1>2. AuthorityIs(u, S, a, U, s, http_parse_host(u, U, at))
  <2> DEFINE b == at
  <2>1. b <=> \E k \in 5 .. a - 1 : u[k] = "@"
    OBVIOUS
  <2> HIDE DEF b
  <2>2. AuthorityIs(u, S, a, U, s, http_parse_host(u, U, b))
    BY <1>1, <2>1, AuthorityFound
  <2> QED
    BY <2>2 DEF b
<1> HIDE DEF R
<1>3. AuthorityIs(u, S, a, U, s, R)
  BY <1>2 DEF R
<1>4. AuthoritiesAre(u, s, R) /\ (R.ok => a > 5 /\ Server(u, a - 1))
  BY <1>3 DEF AuthorityIs
<1> QED
  BY <1>4 DEF AuthoritiesAre

-----------------------------------------------------------------------------
(* What the state y at the end of the URL u makes of it. *)

Parsed(u, y) ==
  LET host == http_parse_host(u, y.u, y.at)
      v    == IF y.u.host.len > 0 THEN host.u ELSE y.u
  IN IF u = <<>> \/ y.s = "s_dead" \/ (y.u.schema.len > 0 /\ y.u.host.len = 0)
        \/ (y.u.host.len > 0 /\ ~ host.ok)
        \/ Port(Field(u, v.port)) > MaxPort
     THEN {} ELSE {v}

Provided(u, v) ==
  [host |-> Field(u, v["host"]),
   port |-> IF Port(Field(u, v["port"])) # 0 THEN Port(Field(u, v["port"])) ELSE 80,
   path |-> PathOf(u, v)]

LEMMA UrlUnfolds ==
  ASSUME NEW u, NEW n \in Nat, n = Len(u)
  PROVE  \E z : /\ z[0] = UrlStart /\ UrlRuns(u, z, n)
                /\ http_parser_parse_url(u) = Parsed(u, z[n])
<1> DEFINE z == CHOOSE z : UrlRun(u, z, Len(u), UrlStart)
<1>1. UrlRun(u, z, n, UrlStart)
  BY UrlStarts, UrlRunExists
<1>2. http_parser_parse_url(u) = Parsed(u, z[Len(u)])
  BY DEF http_parser_parse_url, Parsed, UrlRun, UrlStart
<1> HIDE DEF z
<1>3. z[0] = UrlStart /\ UrlRuns(u, z, n)
  BY <1>1, UrlStarts, UrlRunIs
<1> QED
  BY <1>2, <1>3

LEMMA NotProvided ==
  ASSUME NEW u, http_parser_parse_url(u) = {}
  PROVE  HTTPProviderInit(u) = {}
BY DEF HTTPProviderInit

LEMMA IsProvided ==
  ASSUME NEW u, NEW v, http_parser_parse_url(u) = {v}, v["host"].len > 0
  PROVE  HTTPProviderInit(u) = {Provided(u, v)}
<1>1. {x \in {v} : x.host.len > 0} = {v}
  OBVIOUS
<1> QED
  BY <1>1, ZenonT(60) DEF HTTPProviderInit, Provided, PathOf

(* What the definition makes of the text behind the scheme. *)
LEMMA UrlsFor ==
  ASSUME NEW t, NEW s, s = Cut(t, {"/", "?"}), NEW tail, tail = Rest(t, {"/", "?"})
  PROVE  HttpUrls(t) =
           IF Over(tail, TailChar)
           THEN {[host |-> x.host, port |-> x.port, path |-> PathIn(tail)] : x \in Authorities(s)}
           ELSE {}
<1>1. HttpUrls(t) = {[host |-> x.host, port |-> x.port, path |-> PathIn(tail)] :
                       x \in {b \in Authorities(s) : Over(tail, UrlChar \union {"?", "#"})}}
  BY DEF HttpUrls, PathIn
<1>2. TailChar = UrlChar \union {"?", "#"}
  BY DEF TailChar
<1> QED
  BY <1>1, <1>2

(* The parts of a URL: the pieces s and tail of u, and the places q and h. *)
UrlParts(u, S, n, a, s, tail, q, h) ==
  /\ n \in Nat /\ n = Len(u) /\ n >= 4 /\ u # <<>> /\ a \in Nat /\ a >= 5 /\ a <= n + 1
  /\ Piece(s, u, 4, a - 5, S) /\ Piece(tail, u, a - 1, (n - a) + 1, S) /\ "?" \in S
  /\ FirstAt(u, q, a, n, {"?", "#"}) /\ FirstAt(u, h, a, n, {"#"})

(* At its end the automaton has the URL that the definition says. *)
EndProvides(u, s, tail) ==
  HTTPProviderInit(u) =
    IF Over(tail, TailChar)
    THEN {[host |-> x.host, port |-> x.port, path |-> PathIn(tail)] : x \in Authorities(s)}
    ELSE {}

LEMMA LiveEnds ==
  ASSUME NEW u, NEW S, NEW n, NEW a, NEW s, NEW tail, NEW q, NEW h, UrlParts(u, S, n, a, s, tail, q, h),
         NEW y \in UrlZ, http_parser_parse_url(u) = Parsed(u, y),
         EndOfUrl(u, n, a, q, h, y), Live(u, n, a), Over(tail, TailChar)
  PROVE  EndProvides(u, s, tail)
<1> DEFINE U == y.u
           at == y.at
           R == http_parse_host(u, U, at)
           A == \E k \in 5 .. a - 1 : u[k] = "@"
<1>1. /\ n \in Nat /\ n = Len(u) /\ u # <<>> /\ a \in Nat /\ a >= 5 /\ a <= n + 1 /\ a \in Nat \ {0}
      /\ Piece(s, u, 4, a - 5, S) /\ Piece(tail, u, a - 1, (n - a) + 1, S) /\ "?" \in S
      /\ FirstAt(u, q, a, n, {"?", "#"}) /\ FirstAt(u, h, a, n, {"#"})
  BY DEF UrlParts
<1>2. U \in FieldsSet
  BY DEF UrlZ
<1> HIDE DEF A
<1>3. /\ y.s # "s_dead" /\ U["schema"] = [off |-> 1, len |-> 1]
      /\ U["host"] = IF a = 5 THEN NoField ELSE [off |-> 5, len |-> a - 5]
      /\ U["port"] = NoField /\ U["path"] = PathField(a, q)
      /\ U["query"] = QueryField(u, q, h)
      /\ at <=> A
  BY DEF EndOfUrl, A
<1>4. http_parser_parse_url(u) =
        LET v == IF U["host"].len > 0 THEN R.u ELSE U
        IN  IF u = <<>> \/ y.s = "s_dead" \/ (U["schema"].len > 0 /\ U["host"].len = 0)
               \/ (U["host"].len > 0 /\ ~ R.ok) \/ Port(Field(u, v["port"])) > MaxPort
            THEN {} ELSE {v}
  BY DEF Parsed
<1> DEFINE Auth == Authorities(s)
           Path == PathIn(tail)
           All == {[host |-> x.host, port |-> x.port, path |-> Path] : x \in Auth}
<1>5. SUFFICES HTTPProviderInit(u) = All
  BY DEF EndProvides
<1> HIDE DEF U, at, R
<1>6. CASE a = 5
  <2>1. U["schema"].len > 0 /\ U["host"].len = 0
    BY <1>3, <1>6 DEF NoField
  <2>2. http_parser_parse_url(u) = {}
    BY <1>4, <2>1
  <2>3. HTTPProviderInit(u) = {}
    BY <2>2, NotProvided
  <2>4. Auth # {} => a > 5
    BY <1>1, AuthorityNeeds
  <2> QED
    BY <1>6, <2>3, <2>4
<1>7. CASE a # 5
  <2>1. U["host"] = [off |-> 5, len |-> a - 5] /\ a - 5 > 0
    BY <1>1, <1>3, <1>7
  <2>2. AuthorityIs(u, S, a, U, s, http_parse_host(u, U, at))
    <3>1. at <=> \E k \in 5 .. a - 1 : u[k] = "@"
      BY <1>3 DEF A
    <3> QED
      BY <1>1, <1>2, <1>3, <2>1, <3>1, AuthorityFound
  <2>3. AuthorityIs(u, S, a, U, s, R)
    BY <2>2 DEF R
  <2>4. /\ AuthoritiesAre(u, s, R)
        /\ R.ok => /\ R.u["path"] = U["path"] /\ R.u["query"] = U["query"]
                   /\ R.u["host"].len > 0 /\ Port(Field(u, R.u["port"])) \in Int
    BY <2>3 DEF AuthorityIs
  <2> DEFINE p == Port(Field(u, R.u["port"]))
             name == Field(u, R.u["host"])
  <2>5. http_parser_parse_url(u) = IF ~ R.ok \/ p > MaxPort THEN {} ELSE {R.u}
    <3>1. U["host"].len > 0 /\ U["host"].len # 0
      BY <2>1
    <3> QED
      BY <1>1, <1>3, <1>4, <3>1
  <2>6. Auth = IF R.ok /\ p <= MaxPort THEN {[host |-> name, port |-> IF p = 0 THEN 80 ELSE p]} ELSE {}
    BY <2>4 DEF AuthoritiesAre, Requested
  <2>7. CASE ~ (R.ok /\ p <= MaxPort)
    <3>1. R.ok => p \in Int
      BY <2>4
    <3> HIDE DEF p
    <3>2. ~ R.ok \/ p > MaxPort
      BY <2>7, <3>1, PortAssumption
    <3>3. HTTPProviderInit(u) = {}
      BY <2>5, <3>2, NotProvided
    <3>4. Auth = {}
      BY <2>6, <2>7
    <3> QED
      BY <3>3, <3>4
  <2>8. CASE R.ok /\ p <= MaxPort
    <3>1. p \in Int
      BY <2>4, <2>8
    <3>2. PathOf(u, R.u) = Path
      <4> DEFINE f == R.u
      <4>1. f["path"] = PathField(a, q) /\ f["query"] = QueryField(u, q, h)
        BY <1>3, <2>4, <2>8
      <4> HIDE DEF f
      <4>2. PathOf(u, f) = Path
        BY <1>1, <4>1, PathSplit
      <4> QED
        BY <4>2 DEF f
    <3> DEFINE port == IF p = 0 THEN 80 ELSE p
    <3>3. Provided(u, R.u) = [host |-> name, port |-> port, path |-> Path]
      <4>1. (IF p # 0 THEN p ELSE 80) = port
        OBVIOUS
      <4>2. Provided(u, R.u) = [host |-> name, port |-> IF p # 0 THEN p ELSE 80, path |-> PathOf(u, R.u)]
        BY DEF Provided
      <4> HIDE DEF p, name, port
      <4> QED
        BY <3>2, <4>1, <4>2
    <3> HIDE DEF p, name, Path
    <3>4. ~ (p > MaxPort)
      BY <2>8, <3>1, PortAssumption
    <3>5. HTTPProviderInit(u) = {Provided(u, R.u)}
      <4>1. http_parser_parse_url(u) = {R.u}
        BY <2>5, <2>8, <3>4
      <4>2. R.u["host"].len > 0
        BY <2>4, <2>8
      <4> QED
        BY <4>1, <4>2, IsProvided
    <3>6. Auth = {[host |-> name, port |-> port]}
      BY <2>6, <2>8
    <3> HIDE DEF Auth, port
    <3>7. All = {[host |-> name, port |-> port, path |-> Path]}
      <4> DEFINE a1 == [host |-> name, port |-> port]
      <4>1. a1.host = name /\ a1.port = port
        OBVIOUS
      <4> HIDE DEF a1
      <4>2. Auth = {a1}
        BY <3>6 DEF a1
      <4> QED
        BY <4>1, <4>2
    <3> QED
      BY <3>3, <3>5, <3>7
  <2> QED
    BY <2>7, <2>8
<1> QED
  BY <1>6, <1>7

LEMMA UrlSplits ==
  ASSUME NEW u, NEW S, NEW n, NEW a, NEW s, NEW tail, NEW q, NEW h, UrlParts(u, S, n, a, s, tail, q, h),
         Schemed(u), FirstAt(u, a, 5, n, {"/", "?"})
  PROVE  EndProvides(u, s, tail)
<1>1. /\ n \in Nat /\ n = Len(u) /\ n >= 4 /\ a \in Nat /\ a >= 5 /\ a <= n + 1
      /\ Piece(s, u, 4, a - 5, S) /\ Piece(tail, u, a - 1, (n - a) + 1, S)
      /\ FirstAt(u, q, a, n, {"?", "#"}) /\ FirstAt(u, h, a, n, {"#"})
  BY DEF UrlParts
<1>2. PICK z : /\ z[0] = UrlStart /\ UrlRuns(u, z, n)
               /\ http_parser_parse_url(u) = Parsed(u, z[n])
  BY <1>1, UrlUnfolds
<1> DEFINE y == z[n]
<1>3. ServerAt(u, 4, z[4])
  BY <1>1, <1>2, SchemeRuns
<1>4. EndOfUrl(u, n, a, q, h, y)
  BY <1>1, <1>2, <1>3, UrlRunEnds
<1>5. y \in UrlZ
  BY <1>1, <1>2 DEF UrlRuns
<1>6. http_parser_parse_url(u) = Parsed(u, y)
  BY <1>2
<1> HIDE DEF y
<1>7. Over(tail, TailChar) <=> AllIn(u, a, n, TailChar)
  <2> DEFINE o == a - 1
             l == (n - a) + 1
  <2>1. o + 1 = a /\ o + l = n
    BY <1>1
  <2> HIDE DEF o, l
  <2>2. Piece(tail, u, o, l, S)
    BY <1>1 DEF o, l
  <2>3. Over(tail, TailChar) <=> AllIn(u, o + 1, o + l, TailChar)
    BY <2>2, PieceOver
  <2> QED
    BY <2>1, <2>3
<1>8. CASE Live(u, n, a)
  <2>1. Over(tail, TailChar)
    BY <1>7, <1>8 DEF Live
  <2>2. EndProvides(u, s, tail)
    BY <1>4, <1>5, <1>6, <1>8, <2>1, LiveEnds
  <2> QED
    BY <2>2 DEF EndProvides
<1>9. CASE ~ Live(u, n, a)
  <2>1. y.s = "s_dead"
    BY <1>4, <1>9 DEF EndOfUrl
  <2>2. http_parser_parse_url(u) = {}
    BY <1>6, <2>1 DEF Parsed
  <2>3. HTTPProviderInit(u) = {}
    BY <2>2, NotProvided
  <2>4. Over(tail, TailChar) => Authorities(s) = {}
    <3> SUFFICES ASSUME Over(tail, TailChar), Authorities(s) # {} PROVE FALSE
      OBVIOUS
    <3>1. Server(u, a - 1)
      BY <1>1, AuthorityNeeds
    <3> QED
      BY <1>7, <1>9, <3>1 DEF Live
  <2> QED
    BY <2>3, <2>4 DEF EndProvides
<1> QED
  BY <1>8, <1>9

(* What the provider is made for is what the text behind the scheme says. *)
LEMMA ServerIsSplit ==
  ASSUME NEW S, "?" \in S, NEW u, NEW t, NEW l \in Nat, Piece(t, u, 4, l, S), Len(u) = 4 + l, Schemed(u)
  PROVE  HTTPProviderInit(u) = HttpUrls(t)
<1> DEFINE n == 4 + l
           C == {"/", "?"}
           e == From(t, 1, C) - 1
           a == 5 + e
           s == Cut(t, C)
           tail == Rest(t, C)
           q == (a - 1) + From(tail, 1, {"?", "#"})
           h == (a - 1) + From(tail, 1, {"#"})
<1>1. l \in Nat /\ n \in Nat /\ n >= 4 /\ Len(u) = n /\ u # <<>> /\ n = 4 + l
  OBVIOUS
<1>6. /\ e \in 0 .. l /\ Piece(s, u, 4, e, S) /\ Piece(tail, u, 4 + e, l - e, S)
      /\ FirstAt(u, (4 + e) + 1, 4 + 1, 4 + l, C)
  BY CutPiece
<1> HIDE DEF e, s, tail
<1>7. /\ a \in Nat /\ a >= 5 /\ a <= n + 1 /\ a - 5 = e /\ a - 1 = 4 + e /\ (n - a) + 1 = l - e
      /\ (4 + e) + 1 = a /\ 4 + 1 = 5 /\ (a - 1) + 1 = a /\ (a - 1) + ((n - a) + 1) = n
  BY <1>1, <1>6
<1> HIDE DEF a, n, C
<1>8. Piece(s, u, 4, a - 5, S) /\ Piece(tail, u, a - 1, (n - a) + 1, S)
  BY <1>6, <1>7
<1>9. FirstAt(u, a, 5, n, {"/", "?"})
  BY <1>6, <1>7 DEF C, n
<1>10. FirstAt(u, q, a, n, {"?", "#"}) /\ FirstAt(u, h, a, n, {"#"})
  <2> DEFINE o == a - 1
             m == (n - a) + 1
  <2>1. o + 1 = a /\ o + m = n
    BY <1>7
  <2>2. Piece(tail, u, o, m, S)
    BY <1>8
  <2> HIDE DEF m
  <2>3. /\ FirstAt(u, o + From(tail, 1, {"?", "#"}), o + 1, o + m, {"?", "#"})
        /\ FirstAt(u, o + From(tail, 1, {"#"}), o + 1, o + m, {"#"})
    <3> HIDE DEF o
    <3> QED
      BY <2>2, FromInPiece
  <2> QED
    BY <2>1, <2>3
<1> HIDE DEF q, h
<1>11. UrlParts(u, S, n, a, s, tail, q, h)
  BY <1>1, <1>7, <1>8, <1>10 DEF UrlParts
<1>12. EndProvides(u, s, tail)
  BY <1>9, <1>11, UrlSplits
<1>13. HttpUrls(t) =
         IF Over(tail, TailChar)
         THEN {[host |-> y.host, port |-> y.port, path |-> PathIn(tail)] : y \in Authorities(s)}
         ELSE {}
  <2>1. s = Cut(t, {"/", "?"}) /\ tail = Rest(t, {"/", "?"})
    BY DEF s, tail, C
  <2> QED
    BY <2>1, UrlsFor
<1>14. HTTPProviderInit(u) = HttpUrls(t)
  BY <1>12, <1>13 DEF EndProvides
<1> QED
  BY <1>14

LEMMA UrlIsSplit ==
  ASSUME NEW B, "NUL" \notin B, NEW t \in Seq(B)
  PROVE  HTTPProviderInit(DefaultScheme \o t) = HttpUrls(t)
<1> DEFINE S == B \cup {"http", ":", "/", "?"}
           x == DefaultScheme
           u == x \o t
           l == Len(t)
<1>1. t \in Seq(S) /\ x \in Seq(S) /\ Len(x) = 4 /\ "NUL" \notin S /\ "?" \in S
      /\ x[1] = "http" /\ x[2] = ":" /\ x[3] = "/" /\ x[4] = "/" /\ l \in Nat
  BY DEF DefaultScheme
<1> HIDE DEF S, x
<1>2. Prefixed(u, 4, x, t, S)
  BY <1>1, PrefixIsThere
<1> HIDE DEF u
<1>3. /\ u \in Seq(S) /\ Len(u) = 4 + l
      /\ \A j \in 1 .. 4 : u[j] = x[j]
      /\ \A j \in 1 .. l : u[4 + j] = t[j]
  BY <1>1, <1>2 DEF Prefixed
<1> HIDE DEF l
<1>4. Piece(t, u, 4, l, S)
  BY <1>1, <1>3 DEF Piece, l
<1>5. Schemed(u)
  <2>1. 1 \in 1 .. 4 /\ 2 \in 1 .. 4 /\ 3 \in 1 .. 4 /\ 4 \in 1 .. 4
    OBVIOUS
  <2> QED
    BY <1>1, <1>3, <2>1 DEF Schemed, Words
<1>6. HTTPProviderInit(u) = HttpUrls(t)
  BY <1>1, <1>3, <1>4, <1>5, ServerIsSplit
<1> QED
  BY <1>6 DEF u, x

(* HTTPProviderInit takes the host, port and path of exactly the texts that *)
(* are URLs: the two automata of the splitter agree, on a text of any bytes *)
(* and any length, with the definition that cuts it at its delimiters       *)
(* (uri/http.c:327, http_parser.c:2423).                                    *)
THEOREM UrlsAreSplit == Spec => []SplitsUrl
<1>1. IInv => SplitsUrl
  <2> SUFFICES ASSUME IInv, IsAddress PROVE HTTPProviderInit(DefaultScheme \o buf) = HttpUrls(buf)
    BY DEF SplitsUrl
  <2>1. "NUL" \notin bytes /\ buf \in Seq(bytes)
    BY AlphabetsAssumption DEF IInv
  <2> QED
    BY <2>1, UrlIsSplit
<1> QED
  BY <1>1, TextInvariance, PTL
-----------------------------------------------------------------------------
(* Paths without dot segments. *)

(* x, a slash, and s. *)
Shaped(u, x, s, S) ==
  /\ u \in Seq(S) /\ x \in Seq(S) /\ s \in Seq(S) /\ Len(x) \in Nat /\ Len(s) \in Nat
  /\ Len(u) = (Len(x) + 1) + Len(s)
  /\ \A j \in 1 .. Len(x) : u[j] = x[j]
  /\ u[Len(x) + 1] = "/"
  /\ \A j \in 1 .. Len(s) : u[(Len(x) + 1) + j] = s[j]

LEMMA ShapeIs ==
  ASSUME NEW S, "/" \in S, NEW x \in Seq(S), NEW s \in Seq(S)
  PROVE  Shaped(x \o (<<"/">> \o s), x, s, S)
<1> DEFINE y == <<"/">>
           t == y \o s
           u == x \o t
<1>1. y \in Seq(S) /\ Len(y) = 1 /\ y[1] = "/"
  OBVIOUS
<1> HIDE DEF y
<1>2. Prefixed(t, 1, y, s, S)
  BY <1>1, PrefixIsThere
<1> HIDE DEF t
<1>3. /\ t \in Seq(S) /\ Len(s) \in Nat /\ Len(t) = 1 + Len(s) /\ t[1] = "/"
      /\ \A j \in 1 .. Len(s) : t[1 + j] = s[j]
  BY <1>1, <1>2 DEF Prefixed
<1>4. Prefixed(u, Len(x), x, t, S)
  BY <1>3, PrefixIsThere
<1> HIDE DEF u
<1> DEFINE m == Len(x)
           n == Len(s)
<1>5. m \in Nat /\ n \in Nat
  OBVIOUS
<1>6. /\ u \in Seq(S) /\ Len(u) = m + (1 + n)
      /\ \A j \in 1 .. m : u[j] = x[j]
      /\ \A j \in 1 .. 1 + n : u[m + j] = t[j]
  BY <1>3, <1>4 DEF Prefixed
<1> HIDE DEF m, n
<1>7. 1 \in 1 .. 1 + n /\ \A j \in 1 .. n : 1 + j \in 1 .. 1 + n /\ m + (1 + j) = (m + 1) + j
  BY <1>5
<1>8. /\ Len(u) = (m + 1) + n /\ u[m + 1] = "/"
      /\ \A j \in 1 .. n : u[(m + 1) + j] = s[j]
  <2>1. Len(u) = (m + 1) + n
    BY <1>5, <1>6
  <2>2. u[m + 1] = "/"
    BY <1>3, <1>6, <1>7
  <2>3. ASSUME NEW j \in 1 .. n PROVE u[(m + 1) + j] = s[j]
    <3>1. u[m + (1 + j)] = t[1 + j]
      BY <1>6, <1>7
    <3>2. t[1 + j] = s[j]
      BY <1>3 DEF n
    <3> QED
      BY <1>7, <3>1, <3>2
  <2> QED
    BY <2>1, <2>2, <2>3
<1> QED
  BY <1>5, <1>6, <1>8 DEF Shaped, m, n, u, t, y

Slashed(segs) == [k \in DOMAIN segs |-> <<"/">> \o segs[k]]

LEMMA SlashedIs ==
  ASSUME NEW S, "/" \in S, NEW segs \in Seq(Seq(S))
  PROVE  /\ Slashed(segs) \in Seq(Seq(S)) /\ Len(Slashed(segs)) = Len(segs) /\ Len(segs) \in Nat
         /\ \A k \in 1 .. Len(segs) : Slashed(segs)[k] = <<"/">> \o segs[k]
<1> DEFINE n == Len(segs)
<1>1. n \in Nat /\ DOMAIN segs = 1 .. n /\ \A k \in 1 .. n : segs[k] \in Seq(S)
  OBVIOUS
<1>2. \A k \in 1 .. n : <<"/">> \o segs[k] \in Seq(S)
  <2>1. <<"/">> \in Seq(S)
    OBVIOUS
  <2> HIDE DEF n
  <2>2. \A s \in Seq(S) : <<"/">> \o s \in Seq(S)
    BY <2>1, Concatenated
  <2> QED
    BY <1>1, <2>2
<1>3. Slashed(segs) = [k \in 1 .. n |-> <<"/">> \o segs[k]]
  BY <1>1 DEF Slashed
<1> HIDE DEF n
<1>4. /\ Slashed(segs) \in Seq(Seq(S)) /\ Len(Slashed(segs)) = n
      /\ \A k \in 1 .. n : Slashed(segs)[k] = <<"/">> \o segs[k]
  BY <1>1, <1>2, <1>3
<1> QED
  BY <1>1, <1>4 DEF n

LEMMA JoinedNone == Joined(<<>>) = <<>>
<1> DEFINE p == [k \in DOMAIN <<>> |-> <<"/">> \o <<>>[k]]
<1>1. Len(p) = 0 /\ p = <<>>
  OBVIOUS
<1> QED
  BY <1>1 DEF Joined, FlattenSeq

LEMMA JoinedAppend ==
  ASSUME NEW S, "/" \in S, NEW segs \in Seq(Seq(S)), NEW s \in Seq(S)
  PROVE  /\ Joined(segs) \in Seq(S)
         /\ Joined(Append(segs, s)) = Joined(segs) \o (<<"/">> \o s)
<1> DEFINE n == Len(segs)
           m == n + 1
           more == Append(segs, s)
           p == Slashed(segs)
           q == Slashed(more)
<1>1. /\ n \in Nat /\ more \in Seq(Seq(S)) /\ Len(more) = m /\ more[m] = s
      /\ \A k \in 1 .. n : more[k] = segs[k]
  OBVIOUS
<1> HIDE DEF more
<1>2. /\ p \in Seq(Seq(S)) /\ Len(p) = n
      /\ \A k \in 1 .. n : p[k] = <<"/">> \o segs[k]
  BY SlashedIs
<1>3. /\ q \in Seq(Seq(S)) /\ Len(q) = m
      /\ \A k \in 1 .. m : q[k] = <<"/">> \o more[k]
  BY <1>1, SlashedIs
<1>4. Joined(segs) = FlattenSeq(p) /\ Joined(more) = FlattenSeq(q)
  BY DEF Joined, Slashed
<1> HIDE DEF p, q
<1>5. PICK F : Joins(p, F, n, S) /\ FlattenSeq(p) = F[n]
  BY <1>2, FlattenJoins
<1>6. PICK G : Joins(q, G, m, S) /\ FlattenSeq(q) = G[m]
  BY <1>3, FlattenJoins
<1> HIDE DEF n
<1> DEFINE T == {k \in 0 .. n : F[k] = G[k]}
<1>7. /\ F[0] = <<>> /\ G[0] = <<>> /\ F[n] \in Seq(S)
      /\ \A k \in 1 .. n : F[k] = F[k - 1] \o p[k]
      /\ \A k \in 1 .. m : G[k] = G[k - 1] \o q[k]
  <2>1. /\ F \in [0 .. n -> Seq(S)] /\ F[0] = <<>>
        /\ \A k \in 1 .. n : F[k] = F[k - 1] \o p[k]
    BY <1>5 DEF Joins
  <2>2. n \in 0 .. n
    BY <1>1
  <2>3. F[n] \in Seq(S)
    BY <2>1, <2>2
  <2> DEFINE l == m
  <2>4. Joins(q, G, l, S)
    BY <1>6
  <2> HIDE DEF l
  <2>5. G[0] = <<>> /\ \A k \in 1 .. l : G[k] = G[k - 1] \o q[k]
    BY <2>4 DEF Joins
  <2> QED
    BY <2>1, <2>3, <2>5 DEF l
<1>8. 0 \in T
  BY <1>1, <1>7
<1>9. ASSUME NEW k \in 1 .. n, k - 1 \in T
      PROVE  k \in T
  <2>1. k \in 1 .. m /\ k \in 0 .. n
    BY <1>1
  <2>2. p[k] = q[k]
    BY <1>1, <1>2, <1>3, <2>1
  <2> QED
    BY <1>7, <1>9, <2>1, <2>2
<1>10. n \in T
  <2>1. n \in 0 .. n
    BY <1>1
  <2> HIDE DEF T
  <2> QED
    BY <1>1, <1>8, <1>9, <2>1, Reached
<1>11. m \in 1 .. m /\ m - 1 = n
  BY <1>1
<1>12. G[m] = F[n] \o (<<"/">> \o s)
  BY <1>1, <1>3, <1>7, <1>10, <1>11
<1> QED
  BY <1>4, <1>5, <1>6, <1>7, <1>12 DEF more

(* Where the segment begins that ends in front of position n. *)
Begin(path, n) == Max({0} \union {i \in 1 .. n - 1 : path[i] = "/"}) + 1

LEMMA BeginAt ==
  ASSUME NEW path, NEW n \in Nat \ {0}, NEW b \in 1 .. n, b > 1 => path[b - 1] = "/",
         \A k \in b .. n - 1 : path[k] # "/"
  PROVE  Begin(path, n) = b
<1> DEFINE E == {0} \union {i \in 1 .. n - 1 : path[i] = "/"}
           e == b - 1
<1>1. E \subseteq Int /\ e \in E /\ e + 1 = b
  OBVIOUS
<1>2. \A d \in E : d <= e
  OBVIOUS
<1> HIDE DEF E, e
<1>3. Max(E) = e
  BY <1>1, <1>2, TheMax
<1> QED
  BY <1>1, <1>3 DEF Begin, E

LEMMA BeginIs ==
  ASSUME NEW path, NEW n \in Nat \ {0}
  PROVE  Begin(path, n) \in 1 .. n
<1> DEFINE E == {0} \union {i \in 1 .. n - 1 : path[i] = "/"}
           T == {d \in Nat : d <= n - 1 /\ (n - 1) - d \in E}
<1>1. T \subseteq Nat /\ n - 1 \in T
  OBVIOUS
<1>2. PICK x \in T : \A y \in T : x <= y
  BY <1>1, Least
<1> DEFINE b == (n - 1) - x + 1
<1>3. b \in 1 .. n /\ b - 1 \in E /\ x = n - b
  BY <1>2
<1>4. b > 1 => path[b - 1] = "/"
  BY <1>3
<1>5. ASSUME NEW k \in b .. n - 1, path[k] = "/" PROVE FALSE
  <2> DEFINE d == (n - 1) - k
  <2>1. d \in Nat /\ d <= n - 1 /\ (n - 1) - d = k /\ k \in E
    BY <1>3, <1>5
  <2>2. d \in T
    BY <2>1
  <2>3. x <= d
    BY <1>2, <2>2
  <2> QED
    BY <1>3, <2>1, <2>3
<1> HIDE DEF b
<1>6. \A k \in b .. n - 1 : path[k] # "/"
  BY <1>5
<1>7. Begin(path, n) = b
  BY <1>3, <1>4, <1>6, BeginAt
<1> QED
  BY <1>3, <1>7

Left(before, seg) ==
  CASE seg \in {<<>>, <<".">>} -> before
    [] seg = <<".", ".">>      -> IF before = <<>> THEN before ELSE Front(before)
    [] OTHER                   -> Append(before, seg)

LEMMA LeftIsPath ==
  ASSUME NEW V, NEW before \in Seq(V), NEW seg \in V
  PROVE  Left(before, seg) \in Seq(V)
<1>1. before # <<>> => Front(before) \in Seq(V)
  BY DEF Front
<1>2. Append(before, seg) \in Seq(V)
  OBVIOUS
<1>3. CASE seg \in {<<>>, <<".">>}
  <2>1. seg # <<".", ".">>
    BY <1>3
  <2>2. Left(before, seg) = before
    BY <1>3, <2>1, Zenon DEF Left
  <2> QED
    BY <2>2
<1>4. CASE seg \notin {<<>>, <<".">>} /\ seg = <<".", ".">>
  BY <1>1, <1>4, Zenon DEF Left
<1>5. CASE seg \notin {<<>>, <<".">>} /\ seg # <<".", ".">>
  BY <1>2, <1>5, Zenon DEF Left
<1> QED
  BY <1>3, <1>4, <1>5

KeptBefore(path, f, n) ==
  IF n <= Len(path) /\ path[n] # "/" THEN f[n - 1]
  ELSE Left(f[n - 1], SubSeq(path, Begin(path, n), n - 1))

KeptFun(path, f) ==
  f = [n \in 0 .. Len(path) + 1 |-> IF n = 0 THEN <<>> ELSE KeptBefore(path, f, n)]

(* What is kept in front of each position. *)
Leaves(path, f, V) ==
  /\ f \in [0 .. Len(path) + 1 -> Seq(V)] /\ f[0] = <<>>
  /\ \A n \in 1 .. Len(path) + 1 : f[n] = KeptBefore(path, f, n)

LEMMA KeptExists ==
  ASSUME NEW S, NEW path \in Seq(S)
  PROVE  \E f : KeptFun(path, f) /\ Leaves(path, f, Seq(S))
<1> DEFINE L == Len(path)
           V == Seq(S)
           seg(n) == SubSeq(path, Begin(path, n), n - 1)
           to(n, v) == IF n <= L /\ path[n] # "/" THEN v ELSE Left(v, seg(n))
           step == [n \in 1 .. L + 1 |-> [v \in Seq(V) |-> to(n, v)]]
<1>1. L \in Nat
  OBVIOUS
<1>2. ASSUME NEW n \in 1 .. L + 1, NEW v \in Seq(V)
      PROVE  to(n, v) \in Seq(V)
  <2>1. Begin(path, n) \in 1 .. n
    BY <1>1, BeginIs
  <2> DEFINE b == Begin(path, n)
  <2> HIDE DEF b
  <2>2. b \in 1 .. n
    BY <2>1 DEF b
  <2>3. SubSeq(path, b, n - 1) \in Seq(S)
    BY <1>1, <2>2
  <2>4. seg(n) \in V
    BY <2>3 DEF b
  <2> HIDE DEF V, seg
  <2>5. Left(v, seg(n)) \in Seq(V)
    BY <2>4, LeftIsPath
  <2> QED
    BY <2>5
<1> HIDE DEF to
<1>3. step \in [1 .. L + 1 -> [Seq(V) -> Seq(V)]] /\ \A n \in 1 .. L + 1, v \in Seq(V) : step[n][v] = to(n, v)
  BY <1>2
<1> HIDE DEF step
<1>4. <<>> \in Seq(V) /\ L + 1 \in Nat
  BY <1>1
<1> DEFINE W == Seq(V)
           m == L + 1
<1> HIDE DEF W
<1>5. PICK f : Iterates(f, m, W, <<>>, step)
  BY <1>3, <1>4, Iterated DEF W
<1>6. f \in [0 .. m -> W] /\ f[0] = <<>> /\ \A n \in 1 .. m : f[n] = to(n, f[n - 1])
  BY <1>3, <1>5 DEF Iterates, W
<1>7. \A n \in 1 .. m : f[n] = KeptBefore(path, f, n)
  BY <1>6 DEF KeptBefore, to
<1>8. f = [n \in 0 .. m |-> IF n = 0 THEN <<>> ELSE KeptBefore(path, f, n)]
  BY <1>4, <1>6, <1>7
<1>9. KeptFun(path, f)
  BY <1>8 DEF KeptFun
<1>10. Leaves(path, f, Seq(S))
  BY <1>6, <1>7 DEF Leaves, W
<1> QED
  BY <1>9, <1>10

LEMMA ResolvedUnfolds ==
  ASSUME NEW S, NEW path \in Seq(S)
  PROVE  \E f : Leaves(path, f, Seq(S)) /\ Resolved(path) = f[Len(path) + 1]
<1> DEFINE g == CHOOSE f : KeptFun(path, f)
<1>1. KeptFun(path, g)
  BY KeptExists
<1>2. Resolved(path) = g[Len(path) + 1]
  BY DEF Resolved, KeptFun, KeptBefore, Begin, Left
<1> HIDE DEF g
<1>3. PICK f : KeptFun(path, f) /\ Leaves(path, f, Seq(S))
  BY KeptExists
<1> DEFINE L == Len(path)
<1>4. L \in Nat
  OBVIOUS
<1> HIDE DEF L
<1>5. /\ g = [n \in 0 .. L + 1 |-> IF n = 0 THEN <<>> ELSE KeptBefore(path, g, n)]
      /\ f = [n \in 0 .. L + 1 |-> IF n = 0 THEN <<>> ELSE KeptBefore(path, f, n)]
  BY <1>1, <1>3 DEF KeptFun, L
<1> DEFINE T == {n \in 0 .. L + 1 : g[n] = f[n]}
<1>6. 0 \in T
  <2>1. 0 \in 0 .. L + 1
    BY <1>4
  <2> QED
    BY <1>5, <2>1
<1>7. ASSUME NEW n \in 1 .. L + 1, n - 1 \in T
      PROVE  n \in T
  <2>1. n \in 0 .. L + 1 /\ n # 0
    BY <1>4
  <2>2. g[n] = KeptBefore(path, g, n) /\ f[n] = KeptBefore(path, f, n)
    BY <1>5, <2>1
  <2>3. g[n - 1] = f[n - 1]
    BY <1>7
  <2> QED
    BY <2>1, <2>2, <2>3 DEF KeptBefore
<1>8. L + 1 \in T
  <2> DEFINE m == L + 1
  <2>1. m \in Nat /\ m \in 0 .. m
    BY <1>4
  <2>2. 0 \in T /\ \A n \in 1 .. m : n - 1 \in T => n \in T
    BY <1>6, <1>7
  <2> HIDE DEF T, m
  <2>3. m \in T
    BY <2>1, <2>2, Reached
  <2> QED
    BY <2>3 DEF m
<1> QED
  BY <1>2, <1>3, <1>8 DEF L

LEMMA FromAt ==
  ASSUME NEW S, "NUL" \notin S, NEW s \in Seq(S), NEW n, n = Len(s), NEW i \in 1 .. n + 1, NEW C
  PROVE  FirstAt(s, From(s, i, C), i, n, C)
<1> DEFINE a == Append(s, "NUL")
           I == {j \in i .. Len(s) + 1 : a[j] \in C \cup {"NUL"}}
           e == From(s, i, C)
<1>1. n \in Nat /\ i \in Nat
  OBVIOUS
<1>2. (\A k \in 1 .. n : a[k] = s[k] /\ s[k] # "NUL") /\ a[n + 1] = "NUL"
  OBVIOUS
<1>3. e = IF I # {} THEN Min(I) ELSE 0
  BY DEF From, SelectInSubSeq
<1> HIDE DEF a, e
<1>4. I \subseteq Nat /\ n + 1 \in I /\ \A j \in I : j <= n + 1
  BY <1>1, <1>2
<1>5. PICK m \in I : \A j \in I : m <= j
  BY <1>4, Least
<1> DEFINE J == I
<1>6. J \subseteq Nat /\ m \in J /\ \A j \in J : m <= j
  BY <1>4, <1>5
<1>7. e = Min(J)
  BY <1>3, <1>4
<1> HIDE DEF J
<1>8. e = m
  BY <1>6, <1>7, TheMin
<1>9. m \in i .. n + 1 /\ (m <= n => s[m] \in C)
  BY <1>1, <1>2, <1>5
<1>10. ASSUME NEW k \in i .. n, k < m
       PROVE  s[k] \notin C
  <2>1. k \notin I
    BY <1>5, <1>9, <1>10
  <2> QED
    BY <1>1, <1>2, <2>1
<1> QED
  BY <1>8, <1>9, <1>10 DEF FirstAt, e

NoSlash(s) == \A j \in 1 .. Len(s) : s[j] # "/"

Clean(segs) == \A j \in 1 .. Len(segs) : segs[j] # <<>> /\ NoSlash(segs[j])

(* The buffer out holds the segments, and perhaps a slash behind them. *)
Holds(out, segs, S) ==
  /\ segs \in Seq(Seq(S)) /\ Clean(segs)
  /\ out \in {Joined(segs), Append(Joined(segs), "/")}

(* The segments but the last, and how the last is joined to them. *)
LastSegment(segs, less, s, x, S) ==
  /\ less \in Seq(Seq(S)) /\ Clean(less) /\ less = Front(segs)
  /\ x = Joined(less) /\ x \in Seq(S)
  /\ s \in Seq(S) /\ s # <<>> /\ NoSlash(s)
  /\ Shaped(Joined(segs), x, s, S)

LEMMA FrontAndLast ==
  ASSUME NEW V, NEW q \in Seq(V), q # <<>>, NEW n, n = Len(q), NEW p, p = Front(q), NEW s, s = q[n]
  PROVE  /\ n \in Nat \ {0} /\ s \in V /\ p \in Seq(V) /\ Len(p) = n - 1 /\ q = Append(p, s)
         /\ \A j \in 1 .. n - 1 : p[j] = q[j]
<1>1. n \in Nat \ {0} /\ s \in V /\ p = SubSeq(q, 1, n - 1)
  BY DEF Front
<1>2. /\ p \in Seq(V) /\ Len(p) = n - 1
      /\ \A j \in 1 .. n - 1 : p[j] = q[j]
  BY <1>1
<1>3. q = Append(p, s)
  <2> DEFINE r == Append(p, s)
  <2>1. r \in Seq(V) /\ Len(r) = n /\ r[n] = s /\ \A j \in 1 .. n - 1 : r[j] = p[j]
    BY <1>1, <1>2
  <2> HIDE DEF r
  <2>2. \A j \in 1 .. n : j = n \/ j \in 1 .. n - 1
    BY <1>1
  <2>3. \A j \in 1 .. n : r[j] = q[j]
    BY <1>2, <2>1, <2>2
  <2>4. Len(r) = Len(q)
    BY <2>1
  <2>5. r = q
    BY <2>1, <2>3, <2>4, SameSequence
  <2> QED
    BY <2>5 DEF r
<1> QED
  BY <1>1, <1>2, <1>3

LEMMA SegmentsSplit ==
  ASSUME NEW S, "/" \in S, NEW segs \in Seq(Seq(S)), Clean(segs), segs # <<>>
  PROVE  \E less, s, x : LastSegment(segs, less, s, x, S)
<1> DEFINE n == Len(segs)
           less == Front(segs)
           s == segs[n]
           V == Seq(S)
<1> HIDE DEF V
<1>1. segs \in Seq(V)
  BY DEF V
<1>2. /\ n \in Nat \ {0} /\ s \in V /\ less \in Seq(V) /\ Len(less) = n - 1
      /\ segs = Append(less, s)
      /\ \A j \in 1 .. n - 1 : less[j] = segs[j]
  BY <1>1, FrontAndLast
<1>8. s # <<>> /\ NoSlash(s)
  BY <1>2 DEF Clean
<1>3. Clean(less)
  BY <1>2 DEF Clean
<1> HIDE DEF less, s, n
<1>4. less \in Seq(Seq(S)) /\ s \in Seq(S)
  BY <1>2 DEF V
<1>5. Joined(less) \in Seq(S) /\ Joined(segs) = Joined(less) \o (<<"/">> \o s)
  BY <1>2, <1>4, JoinedAppend
<1> DEFINE x == Joined(less)
<1> HIDE DEF x
<1>6. Shaped(Joined(segs), x, s, S)
  <2>1. x \in Seq(S) /\ Joined(segs) = x \o (<<"/">> \o s)
    BY <1>5 DEF x
  <2> QED
    BY <1>4, <2>1, ShapeIs
<1>7. LastSegment(segs, less, s, x, S)
  BY <1>3, <1>4, <1>5, <1>6, <1>8 DEF LastSegment, x, less
<1> QED
  BY <1>7

LEMMA DropIs ==
  ASSUME NEW S, NEW out \in Seq(S), NEW c \in 1 .. Len(out) - 1, out[c] = "/",
         \A m \in c + 1 .. Len(out) - 1 : out[m] # "/"
  PROVE  Drop(out) = SubSeq(out, 1, c) /\ Len(SubSeq(out, 1, c)) = c
<1> DEFINE L == Len(out)
           P(n) == /\ n = 0 \/ out[n] = "/"
                   /\ \A m \in n + 1 .. L - 1 : out[m] # "/"
           cut == CHOOSE n \in 0 .. L - 1 : P(n)
<1>1. L \in Nat /\ L > 1 /\ c \in Nat /\ c >= 1 /\ c <= L - 1
  OBVIOUS
<1>2. c \in 0 .. L - 1 /\ P(c)
  BY <1>1
<1>3. ASSUME NEW n \in 0 .. L - 1, P(n) PROVE n = c
  <2>1. ~ (n < c)
    BY <1>1, <1>3
  <2>2. ~ (c < n)
    BY <1>1, <1>3
  <2> QED
    BY <1>1, <2>1, <2>2
<1>4. cut \in 0 .. L - 1 /\ P(cut)
  <2> HIDE DEF P
  <2> QED
    BY <1>2
<1>5. cut = c
  <2> HIDE DEF P, cut
  <2> QED
    BY <1>3, <1>4
<1>6. Drop(out) = LET rest == IF L > 1 THEN SubSeq(out, 1, cut) ELSE out
                  IN  IF rest = <<>> THEN <<"/">> ELSE rest
  BY DEF Drop
<1> HIDE DEF cut, L
<1>7. Len(SubSeq(out, 1, c)) = c
  BY <1>1 DEF L
<1>8. SubSeq(out, 1, c) # <<>>
  BY <1>1, <1>7
<1> QED
  BY <1>1, <1>5, <1>6, <1>7, <1>8

(* The last byte of joined segments is one of a segment. *)
LEMMA JoinedIs ==
  ASSUME NEW S, "/" \in S, NEW segs \in Seq(Seq(S)), Clean(segs), NEW w, w = Joined(segs)
  PROVE  /\ w \in Seq(S)
         /\ segs = <<>> => w = <<>>
         /\ segs # <<>> => Len(w) \in Nat \ {0, 1} /\ w[Len(w)] # "/"
<1>1. CASE segs = <<>>
  <2>1. w = <<>>
    BY <1>1, JoinedNone
  <2>2. w \in Seq(S)
    BY <2>1
  <2> QED
    BY <1>1, <2>1, <2>2
<1>2. CASE segs # <<>>
  <2>1. PICK less, s, x : LastSegment(segs, less, s, x, S)
    BY <1>2, SegmentsSplit
  <2>2. Shaped(w, x, s, S) /\ s \in Seq(S) /\ s # <<>> /\ NoSlash(s)
    BY <2>1 DEF LastSegment
  <2> DEFINE m == Len(x)
             l == Len(s)
  <2>3. /\ w \in Seq(S) /\ m \in Nat /\ l \in Nat /\ Len(w) = (m + 1) + l
        /\ \A j \in 1 .. l : w[(m + 1) + j] = s[j]
    BY <2>2 DEF Shaped
  <2>4. l # 0 /\ \A j \in 1 .. l : s[j] # "/"
    BY <2>2 DEF NoSlash
  <2> HIDE DEF m, l
  <2>5. l \in 1 .. l /\ Len(w) \in Nat \ {0, 1}
    BY <2>3, <2>4
  <2>6. w[(m + 1) + l] # "/"
    BY <2>3, <2>4, <2>5
  <2> QED
    BY <1>2, <2>3, <2>5, <2>6
<1> QED
  BY <1>1, <1>2

(* The buffer with a slash at its end. *)
Separated(out) == IF out = <<>> \/ out[Len(out)] # "/" THEN Append(out, "/") ELSE out

LEMMA SeparatedIs ==
  ASSUME NEW S, "/" \in S, NEW out, NEW segs, Holds(out, segs, S), NEW w, w = Joined(segs)
  PROVE  /\ w \in Seq(S) /\ out \in Seq(S) /\ Len(out) \in Nat /\ Len(w) \in Nat
         /\ Len(w) <= Len(out) /\ Len(out) <= Len(w) + 1
         /\ Separated(out) = Append(w, "/") /\ Append(w, "/") \in Seq(S)
<1>1. segs \in Seq(Seq(S)) /\ Clean(segs) /\ out \in {w, Append(w, "/")}
  BY DEF Holds
<1>2. /\ w \in Seq(S)
      /\ segs = <<>> => w = <<>>
      /\ segs # <<>> => Len(w) \in Nat \ {0, 1} /\ w[Len(w)] # "/"
  BY <1>1, JoinedIs
<1> DEFINE l == Append(w, "/")
<1>3. /\ l \in Seq(S) /\ Len(w) \in Nat /\ Len(l) = Len(w) + 1 /\ l[Len(l)] = "/" /\ l # <<>>
      /\ Append(w, "/") = l
  BY <1>2
<1>4. w = <<>> \/ w[Len(w)] # "/"
  BY <1>2
<1> HIDE DEF l
<1>5. CASE out = w
  <2>1. Separated(out) = Append(w, "/")
    BY <1>4, <1>5 DEF Separated
  <2> QED
    BY <1>2, <1>3, <1>5, <2>1
<1>6. CASE out = l
  <2>1. Separated(out) = l
    BY <1>3, <1>6 DEF Separated
  <2> QED
    BY <1>2, <1>3, <1>6, <2>1
<1> QED
  BY <1>1, <1>3, <1>5, <1>6

LEMMA AddedSegment ==
  ASSUME NEW S, "/" \in S, NEW out, NEW segs, Holds(out, segs, S),
         NEW seg \in Seq(S), seg # <<>>, NoSlash(seg), NEW to, to = Separated(out) \o seg
  PROVE  /\ Holds(to, Append(segs, seg), S)
         /\ to \in Seq(S) /\ Len(to) <= (Len(out) + Len(seg)) + 1
<1> DEFINE w == Joined(segs)
           l == Append(w, "/")
           more == Append(segs, seg)
           m == Len(w)
           n == Len(seg)
<1>1. segs \in Seq(Seq(S)) /\ Clean(segs)
  BY DEF Holds
<1>2. /\ w \in Seq(S) /\ out \in Seq(S) /\ Len(out) \in Nat /\ m \in Nat
      /\ m <= Len(out) /\ Len(out) <= m + 1
      /\ Separated(out) = l /\ l \in Seq(S)
  BY SeparatedIs
<1> HIDE DEF w
<1>3. Len(l) = m + 1 /\ l[m + 1] = "/" /\ n \in Nat /\ \A j \in 1 .. m : l[j] = w[j]
  BY <1>2
<1> HIDE DEF l, m, n
<1>4. /\ to \in Seq(S) /\ Len(to) = (m + 1) + n
      /\ \A j \in 1 .. m + 1 : to[j] = l[j]
      /\ \A j \in 1 .. n : to[(m + 1) + j] = seg[j]
  <2> DEFINE p == m + 1
  <2>1. to = l \o seg /\ p = Len(l) /\ Len(seg) = n
    BY <1>2, <1>3 DEF n
  <2> HIDE DEF p
  <2>2. Prefixed(to, p, l, seg, S)
    BY <1>2, <2>1, PrefixIsThere
  <2>3. /\ to \in Seq(S) /\ Len(to) = p + n
        /\ \A j \in 1 .. p : to[j] = l[j]
        /\ \A j \in 1 .. n : to[p + j] = seg[j]
    BY <2>1, <2>2 DEF Prefixed
  <2> QED
    BY <2>3 DEF p
<1>5. Joined(more) = w \o (<<"/">> \o seg)
  BY <1>1, JoinedAppend DEF w
<1> DEFINE u == Joined(more)
<1>6. Shaped(u, w, seg, S)
  BY <1>2, <1>5, ShapeIs
<1> HIDE DEF u
<1>7. /\ u \in Seq(S) /\ Len(u) = (m + 1) + n
      /\ \A j \in 1 .. m : u[j] = w[j]
      /\ u[m + 1] = "/"
      /\ \A j \in 1 .. n : u[(m + 1) + j] = seg[j]
  BY <1>6 DEF Shaped, m, n
<1>8. ASSUME NEW j \in 1 .. (m + 1) + n PROVE to[j] = u[j]
  <2>1. CASE j \in 1 .. m
    <3>1. j \in 1 .. m + 1
      BY <1>2, <2>1
    <3> QED
      BY <1>3, <1>4, <1>7, <2>1, <3>1
  <2>2. CASE j = m + 1
    <3>1. m + 1 \in 1 .. m + 1
      BY <1>2
    <3> QED
      BY <1>3, <1>4, <1>7, <2>2, <3>1
  <2>3. CASE j > m + 1
    <3>1. j - (m + 1) \in 1 .. n /\ (m + 1) + (j - (m + 1)) = j
      BY <1>2, <1>3, <2>3
    <3> QED
      BY <1>4, <1>7, <3>1
  <2>4. j \in 1 .. m \/ j = m + 1 \/ j > m + 1
    BY <1>2
  <2> QED
    BY <2>1, <2>2, <2>3, <2>4
<1>9. to = u
  <2>1. Len(to) = Len(u) /\ \A j \in 1 .. Len(to) : to[j] = u[j]
    BY <1>4, <1>7, <1>8
  <2> QED
    BY <1>4, <1>7, <2>1, SameSequence
<1>10. more \in Seq(Seq(S)) /\ Clean(more)
  <2>1. seg \in Seq(S)
    OBVIOUS
  <2> DEFINE V == Seq(S)
  <2>2. seg \in V /\ segs \in Seq(V)
    BY <1>1
  <2> HIDE DEF V
  <2>3. /\ more \in Seq(V) /\ Len(more) = Len(segs) + 1 /\ Len(segs) \in Nat
        /\ more[Len(segs) + 1] = seg /\ \A j \in 1 .. Len(segs) : more[j] = segs[j]
    BY <2>2
  <2> HIDE DEF more
  <2>4. ASSUME NEW j \in 1 .. Len(more) PROVE more[j] # <<>> /\ NoSlash(more[j])
    <3>1. j \in 1 .. Len(segs) \/ j = Len(segs) + 1
      BY <2>3
    <3> QED
      BY <1>1, <2>3, <3>1 DEF Clean
  <2> QED
    BY <2>3, <2>4 DEF Clean, V
<1>11. Holds(to, more, S)
  BY <1>9, <1>10 DEF Holds, u
<1>12. (m + 1) + n <= (Len(out) + n) + 1
  BY <1>2, <1>3
<1> QED
  BY <1>4, <1>11, <1>12 DEF n

(* A .. takes the last segment along. *)
LEMMA DroppedSegment ==
  ASSUME NEW S, "/" \in S, NEW out, NEW segs, Holds(out, segs, S), out # <<>>
  PROVE  /\ Holds(Drop(out), IF segs = <<>> THEN segs ELSE Front(segs), S)
         /\ Drop(out) \in Seq(S) /\ Len(Drop(out)) <= Len(out)
<1> DEFINE w == Joined(segs)
<1>1. segs \in Seq(Seq(S)) /\ Clean(segs) /\ out \in {w, Append(w, "/")}
  BY DEF Holds
<1>2. CASE segs = <<>>
  <2>1. w = <<>>
    BY <1>2, JoinedNone
  <2> HIDE DEF w
  <2>2. out = <<"/">> /\ Append(w, "/") = <<"/">>
    BY <1>1, <2>1
  <2>3. Len(out) = 1 /\ out # <<>> /\ out \in Seq(S)
    BY <2>2
  <2>4. Drop(out) = out
    BY <2>3 DEF Drop
  <2>5. (IF segs = <<>> THEN segs ELSE Front(segs)) = segs
    BY <1>2
  <2>6. Len(out) <= Len(out)
    BY <2>3
  <2> QED
    BY <2>3, <2>4, <2>5, <2>6
<1>3. CASE segs # <<>>
  <2>1. PICK less, s, x : LastSegment(segs, less, s, x, S)
    BY <1>1, <1>3, SegmentsSplit
  <2>2. /\ less \in Seq(Seq(S)) /\ Clean(less) /\ less = Front(segs)
        /\ x = Joined(less) /\ x \in Seq(S)
        /\ s \in Seq(S) /\ s # <<>> /\ NoSlash(s) /\ Shaped(w, x, s, S)
    BY <2>1 DEF LastSegment
  <2> DEFINE m == Len(x)
             l == Len(s)
             c == m + 1
  <2>3. /\ w \in Seq(S) /\ m \in Nat /\ l \in Nat /\ Len(w) = (m + 1) + l /\ w[m + 1] = "/"
        /\ \A j \in 1 .. m : w[j] = x[j]
        /\ \A j \in 1 .. l : w[(m + 1) + j] = s[j]
    BY <2>2 DEF Shaped
  <2>4. l # 0 /\ \A j \in 1 .. l : s[j] # "/"
    BY <2>2 DEF NoSlash
  <2> HIDE DEF w, l
  <2>5. out \in Seq(S) /\ Len(out) \in Nat /\ Len(w) <= Len(out) /\ Len(out) <= Len(w) + 1
        /\ \A j \in 1 .. Len(w) : out[j] = w[j]
    <3>1. w \in Seq(S) /\ Len(w) \in Nat
      BY <2>3
    <3> DEFINE z == Append(w, "/")
    <3>2. /\ z \in Seq(S) /\ Len(z) = Len(w) + 1
          /\ \A j \in 1 .. Len(w) : z[j] = w[j]
      BY <3>1
    <3>3. out = w \/ out = z
      BY <1>1
    <3> HIDE DEF z
    <3>4. CASE out = w
      BY <3>1, <3>4
    <3>5. CASE out = z
      BY <3>1, <3>2, <3>5
    <3> QED
      BY <3>3, <3>4, <3>5
  <2>6. m \in Nat
    BY <2>3
  <2> HIDE DEF m
  <2>7. c \in 1 .. Len(out) - 1 /\ out[c] = "/" /\ c \in 1 .. Len(w)
    BY <2>3, <2>4, <2>5
  <2>8. ASSUME NEW k \in c + 1 .. Len(out) - 1 PROVE out[k] # "/"
    <3>1. k - (m + 1) \in 1 .. l /\ (m + 1) + (k - (m + 1)) = k /\ k \in 1 .. Len(w)
      BY <2>3, <2>5
    <3>2. w[k] = s[k - (m + 1)]
      BY <2>3, <3>1
    <3> QED
      BY <2>4, <2>5, <3>1, <3>2
  <2> DEFINE r == SubSeq(out, 1, c)
             y == Append(x, "/")
  <2>9. Drop(out) = r /\ Len(r) = c
    <3> HIDE DEF c
    <3> QED
      BY <2>5, <2>7, <2>8, DropIs
  <2>10. r = y /\ r \in Seq(S)
    <3>1. r \in Seq(S) /\ \A j \in 1 .. c : r[j] = out[j]
      BY <2>5, <2>7
    <3>2. y \in Seq(S) /\ Len(y) = c /\ y[c] = "/" /\ \A j \in 1 .. m : y[j] = x[j]
      BY <2>2, <2>6 DEF m
    <3> HIDE DEF r, y
    <3>3. ASSUME NEW j \in 1 .. c PROVE r[j] = y[j]
      <4>1. j \in 1 .. m \/ j = c
        BY <2>6
      <4>2. j \in 1 .. Len(w)
        BY <2>3, <2>6, <2>7
      <4> QED
        BY <2>3, <2>5, <2>7, <3>1, <3>2, <4>1, <4>2
    <3>4. Len(r) = Len(y)
      BY <2>9, <3>2
    <3>5. \A j \in 1 .. Len(r) : r[j] = y[j]
      BY <2>9, <3>3
    <3>6. r = y
      BY <3>1, <3>2, <3>4, <3>5, SameSequence
    <3> QED
      BY <3>1, <3>6
  <2> HIDE DEF r
  <2>11. Holds(r, less, S)
    BY <2>2, <2>10 DEF Holds
  <2> QED
    BY <1>3, <2>2, <2>5, <2>7, <2>9, <2>10, <2>11
<1> QED
  BY <1>2, <1>3

(* What a turn of the loop makes of the buffer. *)
TurnOf(out, seg) ==
  CASE seg = <<>>         -> IF out = <<>> THEN <<"/">> ELSE out
    [] seg = <<".">>      -> out
    [] seg = <<".", ".">> -> IF out = <<>> THEN <<"/">> ELSE Drop(out)
    [] OTHER              -> Separated(out) \o seg

LEMMA TurnIs ==
  ASSUME NEW out, NEW seg
  PROVE  /\ seg = <<>> => TurnOf(out, seg) = IF out = <<>> THEN <<"/">> ELSE out
         /\ seg = <<".">> => TurnOf(out, seg) = out
         /\ seg = <<".", ".">> => TurnOf(out, seg) = IF out = <<>> THEN <<"/">> ELSE Drop(out)
         /\ seg \notin {<<>>, <<".">>, <<".", ".">>} => TurnOf(out, seg) = Separated(out) \o seg
<1> DEFINE none == <<>>
           one == <<".">>
           two == <<".", ".">>
           A == IF out = <<>> THEN <<"/">> ELSE out
           B == out
           C == IF out = <<>> THEN <<"/">> ELSE Drop(out)
           D == Separated(out) \o seg
<1>1. none # one /\ none # two /\ one # two
  OBVIOUS
<1>2. TurnOf(out, seg) = CASE seg = none -> A [] seg = one -> B [] seg = two -> C [] OTHER -> D
  BY DEF TurnOf
<1> HIDE DEF none, one, two, A, B, C, D
<1>3. /\ seg = none => TurnOf(out, seg) = A
      /\ seg = one => TurnOf(out, seg) = B
      /\ seg = two => TurnOf(out, seg) = C
      /\ seg \notin {none, one, two} => TurnOf(out, seg) = D
  BY <1>1, <1>2
<1> QED
  BY <1>3 DEF none, one, two, A, B, C, D

LEMMA LeftIs ==
  ASSUME NEW before, NEW seg
  PROVE  /\ seg = <<>> => Left(before, seg) = before
         /\ seg = <<".">> => Left(before, seg) = before
         /\ seg = <<".", ".">> => Left(before, seg) = IF before = <<>> THEN before ELSE Front(before)
         /\ seg \notin {<<>>, <<".">>, <<".", ".">>} => Left(before, seg) = Append(before, seg)
<1> DEFINE none == <<>>
           one == <<".">>
           two == <<".", ".">>
           C == IF before = <<>> THEN before ELSE Front(before)
           D == Append(before, seg)
<1>1. none # one /\ none # two /\ one # two
  OBVIOUS
<1>2. Left(before, seg) = CASE seg \in {none, one} -> before [] seg = two -> C [] OTHER -> D
  BY DEF Left
<1> HIDE DEF none, one, two, C, D
<1>3. /\ seg = none => Left(before, seg) = before
      /\ seg = one => Left(before, seg) = before
      /\ seg = two => Left(before, seg) = C
      /\ seg \notin {none, one, two} => Left(before, seg) = D
  BY <1>1, <1>2
<1> QED
  BY <1>3 DEF none, one, two, C, D

(* It holds what is left of the segments, and did not grow by more. *)
LEMMA Turned ==
  ASSUME NEW S, "/" \in S, NEW out, NEW segs, Holds(out, segs, S), NEW seg \in Seq(S), NoSlash(seg)
  PROVE  /\ Holds(TurnOf(out, seg), Left(segs, seg), S)
         /\ TurnOf(out, seg) \in Seq(S) /\ Len(TurnOf(out, seg)) \in Nat
         /\ Len(TurnOf(out, seg)) <= (Len(out) + Len(seg)) + 1
         /\ seg = <<>> => Len(TurnOf(out, seg)) <= Len(out) \/ Len(TurnOf(out, seg)) = 1
<1> DEFINE w == Joined(segs)
           to == TurnOf(out, seg)
           on == Left(segs, seg)
           n == Len(seg)
           l == Len(out)
<1>1. segs \in Seq(Seq(S)) /\ Clean(segs) /\ out \in {w, Append(w, "/")}
  BY DEF Holds
<1>2. out \in Seq(S) /\ l \in Nat /\ n \in Nat
  BY SeparatedIs
<1> DEFINE root == <<"/">>
<1>3. root \in Seq(S) /\ Len(root) = 1 /\ Append(<<>>, "/") = root
  OBVIOUS
<1>4. out = <<>> => segs = <<>>
  <2>1. /\ segs # <<>> => Len(w) \in Nat \ {0, 1} /\ Len(w) <= l
    BY <1>1, JoinedIs, SeparatedIs
  <2>2. out = <<>> => l = 0
    OBVIOUS
  <2> QED
    BY <2>1, <2>2
<1>5. Holds(root, <<>>, S)
  <2> DEFINE none == <<>>
  <2>1. none \in Seq(Seq(S)) /\ Len(none) = 0
    OBVIOUS
  <2>2. Joined(none) = none
    BY JoinedNone
  <2>3. Append(Joined(none), "/") = root
    BY <1>3, <2>2
  <2> HIDE DEF none, root
  <2>4. Clean(none)
    BY <2>1 DEF Clean
  <2>5. Holds(root, none, S)
    BY <2>1, <2>3, <2>4 DEF Holds
  <2> QED
    BY <2>5 DEF none
<1> HIDE DEF w, root, to, on, n, l
<1> DEFINE Goal == /\ Holds(to, on, S) /\ to \in Seq(S) /\ Len(to) \in Nat
                   /\ Len(to) <= (l + n) + 1
                   /\ seg = <<>> => Len(to) <= l \/ Len(to) = 1
<1>10. SUFFICES Goal
  BY DEF to, on, l, n
<1>6. CASE seg = <<>>
  <2>1. to = (IF out = <<>> THEN root ELSE out) /\ on = segs
    BY <1>6, TurnIs, LeftIs DEF to, on, root
  <2>2. CASE out = <<>>
    <3>1. to = root /\ on = <<>>
      BY <1>4, <2>1, <2>2
    <3>2. Holds(to, on, S)
      BY <1>5, <3>1, Zenon
    <3>3. to \in Seq(S) /\ Len(to) = 1
      BY <1>3, <3>1
    <3> HIDE DEF root
    <3> QED
      BY <1>2, <3>2, <3>3
  <2>3. CASE out # <<>>
    <3>1. to = out /\ on = segs /\ Len(to) = l
      BY <2>1, <2>3 DEF l
    <3>2. Holds(to, on, S)
      BY <3>1
    <3> QED
      BY <1>2, <3>1, <3>2
  <2> QED
    BY <2>2, <2>3
<1>7. CASE seg = <<".">>
  <2>1. to = out /\ on = segs /\ Len(to) = l
    BY <1>7, TurnIs, LeftIs DEF to, on, l
  <2>2. Holds(to, on, S)
    BY <2>1
  <2>3. seg # <<>>
    BY <1>7
  <2> QED
    BY <1>2, <2>1, <2>2, <2>3
<1>8. CASE seg = <<".", ".">>
  <2>0. seg # <<>>
    BY <1>8
  <2>1. /\ to = IF out = <<>> THEN root ELSE Drop(out)
        /\ on = IF segs = <<>> THEN segs ELSE Front(segs)
    BY <1>8, TurnIs, LeftIs DEF to, on, root
  <2>2. CASE out = <<>>
    <3>1. to = root /\ on = <<>>
      BY <1>4, <2>1, <2>2
    <3>2. Holds(to, on, S)
      BY <1>5, <3>1, Zenon
    <3>3. to \in Seq(S) /\ Len(to) = 1
      BY <1>3, <3>1
    <3> HIDE DEF root
    <3> QED
      BY <1>2, <3>2, <3>3
  <2>3. CASE out # <<>>
    <3> DEFINE d == Drop(out)
               f == IF segs = <<>> THEN segs ELSE Front(segs)
    <3>1. Holds(d, f, S) /\ d \in Seq(S) /\ Len(d) <= l
      BY <2>3, DroppedSegment DEF l
    <3>2. to = d /\ on = f
      BY <2>1, <2>3
    <3> HIDE DEF d, f
    <3>3. Len(d) \in Nat
      BY <3>1
    <3> QED
      BY <1>2, <2>0, <3>1, <3>2, <3>3
  <2> QED
    BY <2>2, <2>3
<1>9. CASE seg \notin {<<>>, <<".">>, <<".", ".">>}
  <2>1. to = Separated(out) \o seg /\ on = Append(segs, seg) /\ seg # <<>>
    BY <1>9, TurnIs, LeftIs DEF to, on
  <2>2. Holds(to, on, S) /\ to \in Seq(S) /\ Len(to) <= (l + n) + 1
    BY <2>1, AddedSegment DEF l, n
  <2>3. Len(to) \in Nat
    BY <2>2
  <2> QED
    BY <2>1, <2>2, <2>3
<1> QED
  BY <1>6, <1>7, <1>8, <1>9

(* The loop is in front of a segment, or at the end of the path. *)
InFront(path, f, z, S) ==
  /\ z.i \in 1 .. Len(path) + 1 /\ (z.i > 1 => path[z.i - 1] = "/")
  /\ z.out \in Seq(S) /\ Len(z.out) \in Nat /\ Len(z.out) <= z.i - 1
  /\ Holds(z.out, f[z.i - 1], S)

AtEnd(path, f, z, S) ==
  /\ z.i = Len(path) + 1
  /\ z.out \in Seq(S) /\ Len(z.out) \in Nat /\ Len(z.out) <= Len(path) + 1
  /\ Holds(z.out, f[Len(path) + 1], S)

(* The segment in i .. e - 1, and what is left behind it. *)
SegmentIs(f, i, e, seg, S) ==
  /\ seg \in Seq(S) /\ NoSlash(seg) /\ Len(seg) = e - i
  /\ f[e] = Left(f[i - 1], seg)

LEMMA SegmentAt ==
  ASSUME NEW S, "/" \in S, NEW path \in Seq(S), NEW f, Leaves(path, f, Seq(S)),
         NEW i \in 1 .. Len(path) + 1, i > 1 => path[i - 1] = "/",
         NEW e, FirstAt(path, e, i, Len(path), {"/"})
  PROVE  SegmentIs(f, i, e, SubSeq(path, i, e - 1), S)
<1> DEFINE n == Len(path)
           seg == SubSeq(path, i, e - 1)
<1>1. /\ n \in Nat /\ e \in i .. n + 1 /\ (e <= n => path[e] = "/")
      /\ \A k \in i .. n : k < e => path[k] # "/"
  BY DEF FirstAt
<1>2. seg \in Seq(S) /\ Len(seg) = e - i /\ \A j \in 1 .. e - i : seg[j] = path[(i - 1) + j]
  BY <1>1
<1>3. NoSlash(seg)
  <2> SUFFICES ASSUME NEW j \in 1 .. e - i PROVE seg[j] # "/"
    BY <1>2 DEF NoSlash
  <2>1. (i - 1) + j \in i .. n /\ (i - 1) + j < e
    BY <1>1
  <2> QED
    BY <1>1, <1>2, <2>1
<1>4. \A k \in 1 .. n + 1 : f[k] = KeptBefore(path, f, k)
  BY DEF Leaves
<1> DEFINE m == (e - 1) - (i - 1)
           T == {d \in 0 .. m : f[(i - 1) + d] = f[i - 1]}
<1>5. m \in Nat /\ (i - 1) + m = e - 1 /\ 0 \in T
  BY <1>1
<1>6. ASSUME NEW d \in 1 .. m, d - 1 \in T PROVE d \in T
  <2> DEFINE k == (i - 1) + d
  <2>1. k \in i .. n /\ k < e /\ k \in 1 .. n + 1 /\ k - 1 = (i - 1) + (d - 1) /\ k <= n /\ d \in 0 .. m
    <3>1. n \in Nat /\ i \in Nat /\ e \in Nat /\ e <= n + 1 /\ i >= 1 /\ m = e - i
      BY <1>1
    <3> HIDE DEF n, m
    <3>2. d \in Nat /\ d >= 1 /\ d <= e - i
      BY <3>1
    <3>3. d \in 0 .. m
      BY <3>1, <3>2
    <3> QED
      BY <3>1, <3>2, <3>3
  <2> HIDE DEF k
  <2>2. f[k] = f[k - 1]
    <3>0. n = Len(path)
      OBVIOUS
    <3>1. path[k] # "/" /\ k <= Len(path)
      BY <1>1, <2>1, <3>0
    <3>2. f[k] = KeptBefore(path, f, k)
      BY <1>4, <2>1
    <3> QED
      BY <3>1, <3>2 DEF KeptBefore
  <2>3. f[k - 1] = f[i - 1]
    BY <1>6, <2>1
  <2> QED
    BY <2>1, <2>2, <2>3 DEF k
<1>7. f[e - 1] = f[i - 1]
  <2>1. m \in 0 .. m
    BY <1>5
  <2> HIDE DEF T, m
  <2>2. m \in T
    BY <1>5, <1>6, <2>1, Reached
  <2> QED
    BY <1>5, <2>2 DEF T
<1>8. Begin(path, e) = i
  <2>1. e \in Nat \ {0} /\ i \in 1 .. e /\ \A k \in i .. e - 1 : path[k] # "/"
    BY <1>1
  <2> QED
    BY <2>1, BeginAt
<1>9. f[e] = Left(f[e - 1], SubSeq(path, i, e - 1))
  <2>1. e \in 1 .. n + 1 /\ ~ (e <= Len(path) /\ path[e] # "/")
    BY <1>1
  <2>2. f[e] = KeptBefore(path, f, e)
    BY <1>4, <2>1
  <2> QED
    BY <1>8, <2>1, <2>2 DEF KeptBefore
<1> QED
  BY <1>2, <1>3, <1>7, <1>9 DEF SegmentIs

LEMMA TurnGoesOn ==
  ASSUME NEW S, "/" \in S, "NUL" \notin S, NEW path \in Seq(S), NEW f, Leaves(path, f, Seq(S)),
         NEW z, InFront(path, f, z, S), NEW y, y = NormalizeSegment(path, z)
  PROVE  \/ InFront(path, f, y, S) /\ y.i >= z.i + 1
         \/ AtEnd(path, f, y, S)
<1> DEFINE n == Len(path)
           i == z.i
           out == z.out
           e == From(path, i, {"/"})
           seg == SubSeq(path, i, e - 1)
           to == TurnOf(out, seg)
           g == IF e <= n THEN e + 1 ELSE e
<1>1. /\ n \in Nat /\ i \in 1 .. n + 1 /\ (i > 1 => path[i - 1] = "/")
      /\ out \in Seq(S) /\ Len(out) \in Nat /\ Len(out) <= i - 1 /\ Holds(out, f[i - 1], S)
  BY DEF InFront
<1>2. y = [i |-> g, out |-> to]
  BY Zenon DEF NormalizeSegment, TurnOf, Separated
<1> HIDE DEF n, i, out, g
<1>3. FirstAt(path, e, i, n, {"/"})
  BY <1>1, FromAt DEF n
<1> HIDE DEF e
<1>4. /\ seg \in Seq(S) /\ NoSlash(seg) /\ Len(seg) = e - i
      /\ f[e] = Left(f[i - 1], seg)
  <2>1. SegmentIs(f, i, e, SubSeq(path, i, e - 1), S)
    BY <1>1, <1>3, SegmentAt DEF n
  <2> QED
    BY <2>1 DEF SegmentIs
<1>5. e \in i .. n + 1 /\ (e <= n => path[e] = "/")
  BY <1>3 DEF FirstAt
<1> HIDE DEF seg
<1>6. /\ Holds(to, Left(f[i - 1], seg), S)
      /\ to \in Seq(S) /\ Len(to) \in Nat /\ Len(to) <= (Len(out) + Len(seg)) + 1
  BY <1>1, <1>4, Turned
<1> HIDE DEF to
<1>7. y.i = g /\ y.out = to
  BY <1>2
<1>8. Holds(to, f[e], S) /\ Len(to) <= e
  <2>1. Holds(to, f[e], S)
    BY <1>4, <1>6
  <2> DEFINE l == Len(out)
             t == Len(to)
             s == Len(seg)
  <2>2. l \in Nat /\ t \in Nat /\ s = e - i /\ t <= (l + s) + 1 /\ l <= i - 1
    BY <1>1, <1>4, <1>6
  <2> HIDE DEF l, t, s
  <2>3. t <= e
    BY <1>1, <1>5, <2>2
  <2> QED
    BY <2>1, <2>3 DEF t
<1>9. CASE e <= n
  <2>1. g = e + 1 /\ g - 1 = e /\ g \in 1 .. n + 1 /\ g >= i + 1
    BY <1>1, <1>5, <1>9 DEF g
  <2>2. path[g - 1] = "/"
    BY <1>5, <1>9, <2>1
  <2>3. Len(to) <= g - 1 /\ Holds(to, f[g - 1], S)
    BY <1>8, <2>1
  <2>4. InFront(path, f, y, S)
    BY <1>6, <1>7, <2>1, <2>2, <2>3 DEF InFront, n
  <2> QED
    BY <1>7, <2>1, <2>4 DEF i
<1>10. CASE ~ (e <= n)
  <2>1. g = n + 1 /\ e = n + 1
    BY <1>1, <1>5, <1>10 DEF g
  <2>2. Len(to) <= n + 1 /\ Holds(to, f[n + 1], S)
    BY <1>8, <2>1
  <2>3. AtEnd(path, f, y, S)
    BY <1>6, <1>7, <2>1, <2>2 DEF AtEnd, n
  <2> QED
    BY <2>3
<1> QED
  BY <1>9, <1>10

LEMMA TurnAtEnd ==
  ASSUME NEW S, "/" \in S, "NUL" \notin S, NEW path \in Seq(S), NEW f,
         NEW z, AtEnd(path, f, z, S), NEW y, y = NormalizeSegment(path, z)
  PROVE  AtEnd(path, f, y, S)
<1> DEFINE n == Len(path)
           i == z.i
           out == z.out
           e == From(path, i, {"/"})
           seg == SubSeq(path, i, e - 1)
           to == TurnOf(out, seg)
           g == IF e <= n THEN e + 1 ELSE e
           k == f[n + 1]
<1>1. /\ n \in Nat /\ i = n + 1 /\ i \in 1 .. n + 1
      /\ out \in Seq(S) /\ Len(out) \in Nat /\ Len(out) <= n + 1 /\ Holds(out, k, S)
  BY DEF AtEnd
<1>2. y = [i |-> g, out |-> to]
  BY Zenon DEF NormalizeSegment, TurnOf, Separated
<1> HIDE DEF i, out, g, k
<1>3. FirstAt(path, e, i, n, {"/"})
  BY <1>1, FromAt
<1> HIDE DEF e
<1>4. e = n + 1 /\ g = n + 1
  BY <1>1, <1>3 DEF FirstAt, g
<1> DEFINE none == <<>>
<1>5. seg = none /\ none \in Seq(S) /\ Len(none) = 0
  BY <1>1, <1>4
<1>6. NoSlash(none) /\ Left(k, none) = k
  BY LeftIs DEF NoSlash
<1> HIDE DEF seg, n
<1> DEFINE t == TurnOf(out, none)
<1>7. /\ Holds(t, Left(k, none), S) /\ t \in Seq(S) /\ Len(t) \in Nat
      /\ Len(t) <= Len(out) \/ Len(t) = 1
  <2>1. /\ Holds(t, Left(k, none), S) /\ t \in Seq(S) /\ Len(t) \in Nat
        /\ none = <<>> => Len(t) <= Len(out) \/ Len(t) = 1
    <3> HIDE DEF none
    <3> QED
      BY <1>1, <1>5, <1>6, Turned
  <2> QED
    BY <2>1
<1>8. to = t
  BY <1>5
<1> HIDE DEF to, none, t
<1>9. Holds(to, k, S) /\ to \in Seq(S) /\ Len(to) \in Nat /\ Len(to) <= n + 1
  <2>1. Len(t) <= n + 1
    <3> DEFINE l == Len(t)
               o == Len(out)
    <3>1. n \in Nat /\ l \in Nat /\ o \in Nat /\ o <= n + 1 /\ (l <= o \/ l = 1)
      BY <1>1, <1>7 DEF n
    <3> HIDE DEF l, o
    <3>2. l <= n + 1
      BY <3>1
    <3> QED
      BY <3>2 DEF l
  <2> QED
    BY <1>6, <1>7, <1>8, <2>1
<1>10. y.i = n + 1 /\ y.out = to
  BY <1>2, <1>4
<1> QED
  BY <1>9, <1>10 DEF AtEnd, n, k

LoopRun(path, z) ==
  z = [n \in 0 .. Len(path) + 1 |->
         IF n = 0 THEN [i |-> 1, out |-> <<>>] ELSE NormalizeSegment(path, z[n - 1])]

LEMMA TurnIsRecord ==
  ASSUME NEW path, NEW z
  PROVE  \E i, out : NormalizeSegment(path, z) = [i |-> i, out |-> out]
BY DEF NormalizeSegment

(* The states of the loop. *)
LoopStates(path, f, S) ==
  {z \in [i : Nat, out : Seq(S)] : InFront(path, f, z, S) \/ AtEnd(path, f, z, S)}

LEMMA LoopStays ==
  ASSUME NEW S, "/" \in S, "NUL" \notin S, NEW path \in Seq(S), NEW f, Leaves(path, f, Seq(S)),
         NEW z \in LoopStates(path, f, S)
  PROVE  NormalizeSegment(path, z) \in LoopStates(path, f, S)
<1> DEFINE y == NormalizeSegment(path, z)
           n == Len(path)
<1>1. n \in Nat
  OBVIOUS
<1>2. PICK i, out : y = [i |-> i, out |-> out]
  BY TurnIsRecord
<1>3. InFront(path, f, z, S) \/ AtEnd(path, f, z, S)
  BY DEF LoopStates
<1>4. InFront(path, f, y, S) \/ AtEnd(path, f, y, S)
  BY <1>3, TurnGoesOn, TurnAtEnd
<1> HIDE DEF y
<1>5. y.i = i /\ y.out = out
  BY <1>2
<1>6. i \in Nat /\ out \in Seq(S)
  <2>1. CASE InFront(path, f, y, S)
    BY <1>1, <1>5, <2>1 DEF InFront
  <2>2. CASE AtEnd(path, f, y, S)
    BY <1>1, <1>5, <2>2 DEF AtEnd
  <2> QED
    BY <1>4, <2>1, <2>2
<1>7. y \in [i : Nat, out : Seq(S)]
  BY <1>2, <1>6
<1>8. y \in LoopStates(path, f, S)
  BY <1>4, <1>7 DEF LoopStates
<1> QED
  BY <1>8 DEF y

LEMMA LoopBegins ==
  ASSUME NEW S, "/" \in S, NEW path \in Seq(S), NEW f, Leaves(path, f, Seq(S)),
         NEW z, z = [i |-> 1, out |-> <<>>]
  PROVE  InFront(path, f, z, S) /\ z \in LoopStates(path, f, S)
<1> DEFINE none == <<>>
           n == Len(path)
<1>1. none \in Seq(S) /\ none \in Seq(Seq(S)) /\ Len(none) = 0 /\ n \in Nat
  OBVIOUS
<1>2. z.i = 1 /\ z.out = none /\ z \in [i : Nat, out : Seq(S)]
  BY <1>1
<1>3. f[0] = none
  BY DEF Leaves
<1>4. Joined(none) = none
  BY JoinedNone
<1> HIDE DEF none, n
<1>5. Holds(none, none, S)
  BY <1>1, <1>4 DEF Holds, Clean
<1>6. z.i \in 1 .. n + 1 /\ ~ (z.i > 1) /\ z.i - 1 = 0
  BY <1>1, <1>2
<1>7. Holds(z.out, f[z.i - 1], S)
  BY <1>2, <1>3, <1>5, <1>6
<1>8. Len(z.out) \in Nat /\ Len(z.out) <= z.i - 1
  BY <1>1, <1>2, <1>6
<1>9. InFront(path, f, z, S)
  BY <1>1, <1>2, <1>6, <1>7, <1>8 DEF InFront, n
<1> QED
  BY <1>2, <1>9 DEF LoopStates

LEMMA LoopRunExists ==
  ASSUME NEW S, "/" \in S, "NUL" \notin S, NEW path \in Seq(S), NEW f, Leaves(path, f, Seq(S))
  PROVE  \E z : LoopRun(path, z)
<1> DEFINE m == Len(path) + 1
           V == LoopStates(path, f, S)
           base == [i |-> 1, out |-> <<>>]
           step == [k \in 1 .. m |-> [z \in V |-> NormalizeSegment(path, z)]]
<1>1. m \in Nat
  OBVIOUS
<1>2. base \in V
  BY LoopBegins
<1>3. \A z \in V : NormalizeSegment(path, z) \in V
  BY LoopStays
<1> HIDE DEF V, base, m
<1>4. step \in [1 .. m -> [V -> V]] /\ \A k \in 1 .. m, z \in V : step[k][z] = NormalizeSegment(path, z)
  BY <1>3
<1> HIDE DEF step
<1>5. PICK z : Iterates(z, m, V, base, step)
  BY <1>1, <1>2, <1>4, Iterated
<1>6. z \in [0 .. m -> V] /\ z[0] = base /\ \A k \in 1 .. m : z[k] = NormalizeSegment(path, z[k - 1])
  BY <1>4, <1>5 DEF Iterates
<1>7. z = [k \in 0 .. m |-> IF k = 0 THEN base ELSE NormalizeSegment(path, z[k - 1])]
  BY <1>1, <1>6
<1>8. LoopRun(path, z)
  BY <1>7 DEF LoopRun, m, base
<1> QED
  BY <1>8

(* All of the path is behind the loop after as many turns as it has bytes, *)
(* and one. *)
LEMMA LoopEnds ==
  ASSUME NEW S, "/" \in S, "NUL" \notin S, NEW path \in Seq(S), NEW f, Leaves(path, f, Seq(S)),
         NEW z, LoopRun(path, z)
  PROVE  AtEnd(path, f, z[Len(path) + 1], S)
<1> DEFINE n == Len(path)
           m == n + 1
           base == [i |-> 1, out |-> <<>>]
<1>1. n \in Nat /\ m \in Nat
  OBVIOUS
<1>2. z[0] = base /\ \A k \in 1 .. m : z[k] = NormalizeSegment(path, z[k - 1])
  <2> HIDE DEF base
  <2>1. z = [k \in 0 .. m |-> IF k = 0 THEN base ELSE NormalizeSegment(path, z[k - 1])]
    BY DEF LoopRun, base
  <2> HIDE DEF m
  <2> DEFINE y == [k \in 0 .. m |-> IF k = 0 THEN base ELSE NormalizeSegment(path, z[k - 1])]
  <2>2. y[0] = base /\ \A k \in 1 .. m : y[k] = NormalizeSegment(path, z[k - 1])
    BY <1>1
  <2>3. z = y
    BY <2>1
  <2> HIDE DEF y
  <2> QED
    BY <2>2, <2>3
<1> DEFINE On(k) == InFront(path, f, z[k], S) /\ z[k].i >= k + 1
           T == {k \in 0 .. m : On(k) \/ AtEnd(path, f, z[k], S)}
<1>3. 0 \in T
  <2>1. InFront(path, f, z[0], S)
    BY <1>2, LoopBegins
  <2>2. z[0].i >= 0 + 1 /\ 0 \in 0 .. m
    BY <1>1, <1>2
  <2> QED
    BY <2>1, <2>2
<1> HIDE DEF base
<1>4. ASSUME NEW k \in 1 .. m, k - 1 \in T PROVE k \in T
  <2> DEFINE x == z[k - 1]
             y == z[k]
  <2>1. y = NormalizeSegment(path, x) /\ k \in 0 .. m /\ k \in Nat
    BY <1>1, <1>2
  <2>2. (InFront(path, f, x, S) /\ x.i >= (k - 1) + 1) \/ AtEnd(path, f, x, S)
    BY <1>4
  <2> HIDE DEF x, y
  <2>3. CASE InFront(path, f, x, S) /\ x.i >= (k - 1) + 1
    <3>1. (InFront(path, f, y, S) /\ y.i >= x.i + 1) \/ AtEnd(path, f, y, S)
      BY <2>1, <2>3, TurnGoesOn
    <3>2. CASE InFront(path, f, y, S) /\ y.i >= x.i + 1
      <4> DEFINE a == x.i
                 b == y.i
      <4>1. a \in Int /\ b \in Int /\ a >= (k - 1) + 1 /\ b >= a + 1
        BY <1>1, <2>3, <3>2 DEF InFront
      <4> HIDE DEF a, b
      <4>2. b >= k + 1
        BY <2>1, <4>1
      <4> QED
        BY <2>1, <3>2, <4>2 DEF b, y
    <3>3. CASE AtEnd(path, f, y, S)
      BY <2>1, <3>3 DEF y
    <3> QED
      BY <3>1, <3>2, <3>3
  <2>4. CASE AtEnd(path, f, x, S)
    <3>1. AtEnd(path, f, y, S)
      BY <2>1, <2>4, TurnAtEnd
    <3> QED
      BY <2>1, <3>1 DEF y
  <2> QED
    BY <2>2, <2>3, <2>4
<1>5. m \in T
  <2>1. m \in 0 .. m
    BY <1>1
  <2> HIDE DEF T, m
  <2> QED
    BY <1>1, <1>3, <1>4, <2>1, Reached
<1>6. ~ On(m)
  <2> SUFFICES ASSUME On(m) PROVE FALSE
    OBVIOUS
  <2>1. z[m].i \in 1 .. n + 1 /\ z[m].i >= m + 1
    BY DEF InFront
  <2> QED
    BY <1>1, <2>1
<1>7. AtEnd(path, f, z[m], S)
  BY <1>5, <1>6
<1> QED
  BY <1>7

(* NormalizeUrlPath makes the path without its dot segments.               *)
LEMMA PathIsNormal ==
  ASSUME NEW S, "/" \in S, "NUL" \notin S, NEW path \in Seq(S)
  PROVE  LET kept == Joined(Resolved(path))
             out  == Normalized(path)
         IN  Len(out) <= Len(path) + 1 /\ out \in {kept, Append(kept, "/")}
<1>1. PICK f : Leaves(path, f, Seq(S)) /\ Resolved(path) = f[Len(path) + 1]
  BY ResolvedUnfolds
<1> DEFINE z == CHOOSE z : LoopRun(path, z)
<1>2. LoopRun(path, z)
  BY <1>1, LoopRunExists
<1>3. Normalized(path) = z[Len(path) + 1].out
  BY DEF Normalized, LoopRun
<1> HIDE DEF z
<1>4. AtEnd(path, f, z[Len(path) + 1], S)
  BY <1>1, <1>2, LoopEnds
<1>5. Len(Normalized(path)) <= Len(path) + 1 /\ Holds(Normalized(path), Resolved(path), S)
  BY <1>1, <1>3, <1>4 DEF AtEnd
<1> QED
  BY <1>5 DEF Holds

-----------------------------------------------------------------------------
(* Links that keep the page. *)

LEMMA FirstTwo ==
  ASSUME NEW S, NEW u \in Seq(S), Len(u) >= 2
  PROVE  /\ SubSeq(u, 1, 2) \in Seq(S) /\ Len(SubSeq(u, 1, 2)) = 2
         /\ SubSeq(u, 1, 2)[1] = u[1] /\ SubSeq(u, 1, 2)[2] = u[2]
OBVIOUS

LEMMA BeginsWithTwo ==
  ASSUME NEW S, NEW u \in Seq(S), NEW a, NEW b
  PROVE  BeginsWith(u, <<a, b>>) <=> Len(u) >= 2 /\ u[1] = a /\ u[2] = b
<1> DEFINE n == Len(u)
           T == S \cup {a, b}
           p == <<a, b>>
           v == SubSeq(u, 1, 2)
           w == SubSeq(p, 1, 2)
<1>1. n \in Nat /\ p \in Seq(T) /\ Len(p) = 2 /\ p[1] = a /\ p[2] = b
  OBVIOUS
<1>2. BeginsWith(u, p) <=> 2 <= n /\ w = v
  BY <1>1 DEF BeginsWith, IsPrefix
<1>3. /\ w \in Seq(T) /\ Len(w) = 2 /\ w[1] = a /\ w[2] = b
  <2> HIDE DEF p, T
  <2>1. Len(p) >= 2
    BY <1>1
  <2> QED
    BY <1>1, <2>1, FirstTwo
<1> HIDE DEF p, w
<1>4. n >= 2 => v \in Seq(T) /\ Len(v) = 2 /\ v[1] = u[1] /\ v[2] = u[2]
  <2>1. u \in Seq(T)
    OBVIOUS
  <2> QED
    BY <2>1, FirstTwo
<1> HIDE DEF v, T
<1>5. ASSUME n >= 2, u[1] = a, u[2] = b PROVE w = v
  <2>1. Len(w) = Len(v) /\ \A j \in 1 .. Len(w) : w[j] = v[j]
    <3>1. 1 .. 2 = {1, 2}
      OBVIOUS
    <3> QED
      BY <1>3, <1>4, <1>5, <3>1
  <2> QED
    BY <1>3, <1>4, <1>5, <2>1, SameSequence
<1> QED
  BY <1>1, <1>2, <1>3, <1>4, <1>5 DEF p

(* The address of a page that a provider has. *)
PageAddress(u) == Len(u) >= 2 /\ u[1] \in Words /\ u[2] = ":"

LEMMA ProviderIs ==
  ASSUME NEW S, NEW u \in Seq(S)
  PROVE  URIGetProvider(u) = IF PageAddress(u) THEN u[1] ELSE "NULL"
<1>1. (\E w \in Words : BeginsWith(u, <<w, ":">>)) <=> PageAddress(u)
  BY BeginsWithTwo DEF PageAddress
<1>2. Head(u) = u[1]
  BY DEF Head
<1> QED
  BY <1>1, <1>2 DEF URIGetProvider

LEMMA BaseIs ==
  ASSUME NEW base \in Bases
  PROVE  base \in Seq(Safe) /\ Len(base) \in Nat /\ PageAddress(base)
<1>1. base \in Seq({c \in STRING : is_char_urlsafe(c)}) /\ URIGetProvider(base) # "NULL"
  BY BasesAssumption
<1>2. {c \in STRING : is_char_urlsafe(c)} \subseteq Safe
  BY SafeIs
<1>3. base \in Seq(Safe)
  BY <1>1, <1>2
<1> QED
  BY <1>1, <1>3, ProviderIs

LEMMA SchemeEndIs ==
  ASSUME NEW S, NEW u \in Seq(S), PageAddress(u)
  PROVE  FindSchemeEnd(u) = 2
<1> DEFINE n == Len(u)
           a == Append(u, "NUL")
           W == Alnum \cup {"+", "-", "."}
           I == {i \in 2 .. n + 1 : a[i] \notin W}
           i == IF I # {} THEN Min(I) ELSE 0
<1>1. n \in Nat /\ n >= 2 /\ u[1] \in Words /\ u[2] = ":" /\ u # <<>>
  BY DEF PageAddress
<1>2. a[2] = ":"
  BY <1>1
<1>3. ":" \notin W /\ u[1] \in Alpha
  BY <1>1 DEF Alnum, Alpha, Words, Decimal
<1>4. FindSchemeEnd(u) = IF u # <<>> /\ u[1] \in Alpha /\ i <= n /\ u[i] = ":" THEN i ELSE 0
  BY DEF FindSchemeEnd, SelectInSubSeq
<1> HIDE DEF a, W
<1>5. I \subseteq Nat /\ 2 \in I /\ \A d \in I : 2 <= d
  BY <1>1, <1>2, <1>3
<1> HIDE DEF I
<1>6. Min(I) = 2
  BY <1>5, TheMin
<1>7. i = 2
  BY <1>5, <1>6
<1> QED
  BY <1>1, <1>3, <1>4, <1>7

Served(u) == Len(u) >= 4 /\ u[3] = "/" /\ u[4] = "/"

LEMMA AuthorityEndIs ==
  ASSUME NEW S, "NUL" \notin S, NEW u \in Seq(S), PageAddress(u)
  PROVE  /\ ~ Served(u) => FindAuthorityEnd(u) = 3
         /\ Served(u) => FirstAt(u, FindAuthorityEnd(u), 5, Len(u), {"/", "?", "#"})
<1> DEFINE n == Len(u)
           v == SubSeq(u, 3, n)
           C == {"/", "?", "#"}
<1>1. n \in Nat /\ n >= 2
  BY DEF PageAddress
<1>2. /\ v \in Seq(S) /\ Len(v) = n - 2
      /\ n >= 4 => v[1] = u[3] /\ v[2] = u[4]
  <2>1. CASE n = 2
    <3>1. v = <<>>
      BY <1>1, <2>1
    <3>2. <<>> \in Seq(S) /\ Len(<<>>) = 0
      OBVIOUS
    <3> HIDE DEF v
    <3> QED
      BY <2>1, <3>1, <3>2
  <2>2. CASE n # 2
    <3>1. n >= 3 /\ 3 \in Nat \ {0} /\ (n - 3) + 1 = n - 2 /\ (3 - 1) + 1 = 3 /\ (3 - 1) + 2 = 4
      <4> HIDE DEF n, v, C
      <4> QED
        BY <1>1, <2>2
    <3> DEFINE k == 3
               m == (n - k) + 1
    <3>2. /\ v \in Seq(S) /\ Len(v) = m
          /\ \A j \in 1 .. m : v[j] = u[(k - 1) + j]
      BY <3>1, RestIs
    <3> HIDE DEF v
    <3>3. n >= 4 => 1 \in 1 .. m /\ 2 \in 1 .. m
      BY <1>1
    <3> QED
      BY <3>1, <3>2, <3>3
  <2> QED
    BY <2>1, <2>2
<1>3. FindSchemeEnd(u) = 2
  BY SchemeEndIs
<1> DEFINE s == FindSchemeEnd(u)
<1>4. FindAuthorityEnd(u) = IF s = 0 THEN 1
                            ELSE IF BeginsWith(SubSeq(u, s + 1, n), <<"/", "/">>)
                                 THEN From(u, s + 3, C) ELSE s + 1
  BY DEF FindAuthorityEnd
<1> HIDE DEF s
<1>5. s = 2 /\ s # 0 /\ s + 1 = 3 /\ s + 3 = 5
  BY <1>3 DEF s
<1>6. FindAuthorityEnd(u) = IF BeginsWith(v, <<"/", "/">>) THEN From(u, 5, C) ELSE 3
  BY <1>4, <1>5
<1> HIDE DEF v
<1>7. BeginsWith(v, <<"/", "/">>) <=> Served(u)
  <2>1. BeginsWith(v, <<"/", "/">>) <=> Len(v) >= 2 /\ v[1] = "/" /\ v[2] = "/"
    BY <1>2, BeginsWithTwo
  <2> QED
    BY <1>1, <1>2, <2>1 DEF Served
<1>8. Served(u) => FirstAt(u, From(u, 5, C), 5, n, C)
  <2> SUFFICES ASSUME Served(u) PROVE FirstAt(u, From(u, 5, C), 5, n, C)
    OBVIOUS
  <2>1. 5 \in 1 .. n + 1
    BY <1>1 DEF Served
  <2> HIDE DEF C
  <2> QED
    BY <2>1, FromAt
<1> QED
  BY <1>6, <1>7, <1>8

(* The cut of a path is a position in it. *)
LEMMA LastSlash ==
  ASSUME NEW S, NEW path \in Seq(S)
  PROVE  SelectLastInSeq(path, LAMBDA c : c = "/") \in 0 .. Len(path)
<1> DEFINE n == Len(path)
           I == {i \in 1 .. n : path[i] = "/"}
           T == {d \in Nat : d <= n /\ n - d \in I}
<1>1. n \in Nat
  OBVIOUS
<1>2. SelectLastInSeq(path, LAMBDA c : c = "/") = IF I # {} THEN Max(I) ELSE 0
  BY DEF SelectLastInSeq
<1>3. ASSUME I # {} PROVE Max(I) \in 0 .. n
  <2>1. PICK j \in I : TRUE
    BY <1>3
  <2>2. n - j \in T
    BY <1>1, <2>1
  <2>3. PICK x \in T : \A y \in T : x <= y
    BY <2>2, Least
  <2>4. n - x \in I /\ n - x \in 0 .. n /\ x \in Nat
    BY <1>1, <2>3
  <2>5. ASSUME NEW d \in I PROVE d <= n - x
    <3>1. n - d \in T /\ d \in Nat
      BY <1>1
    <3>2. x <= n - d
      BY <2>3, <3>1
    <3> QED
      BY <1>1, <2>4, <3>1, <3>2
  <2> DEFINE m == n - x
  <2>6. I \subseteq Int /\ m \in I /\ \A d \in I : d <= m
    BY <1>1, <2>4, <2>5
  <2> HIDE DEF m, I
  <2>7. Max(I) = m
    BY <2>6, TheMax
  <2> QED
    BY <2>4, <2>7 DEF m
<1> HIDE DEF I
<1> QED
  BY <1>1, <1>2, <1>3

LEMMA NormalizedIsPath ==
  ASSUME NEW S, "NUL" \notin S, "/" \in S, NEW base \in Seq(S), PageAddress(base), NEW href \in Seq(S)
  PROVE  PathToNormalize(base, href) \in Seq(S)
<1> DEFINE n == Len(base)
           a == FindAuthorityEnd(base)
           path == SubSeq(base, a, n)
           cut == SelectLastInSeq(path, LAMBDA c : c = "/")
           root == <<"/">>
           dir == IF cut = 0 THEN root ELSE SubSeq(path, 1, cut)
<1>1. n \in Nat /\ n >= 2
  BY DEF PageAddress
<1>2. a \in 1 .. n + 1
  <2>1. CASE Served(base)
    BY <1>1, <2>1, AuthorityEndIs DEF FirstAt, Served
  <2>2. CASE ~ Served(base)
    BY <1>1, <2>2, AuthorityEndIs
  <2> QED
    BY <2>1, <2>2
<1>3. PathToNormalize(base, href) = dir \o href
  BY DEF PathToNormalize
<1> HIDE DEF a
<1>4. path \in Seq(S)
  BY <1>1, <1>2
<1> HIDE DEF path
<1>5. cut \in 0 .. Len(path)
  BY <1>4, LastSlash
<1> HIDE DEF cut
<1>6. root \in Seq(S)
  OBVIOUS
<1>7. cut # 0 => SubSeq(path, 1, cut) \in Seq(S)
  BY <1>4, <1>5
<1>8. dir \in Seq(S)
  BY <1>6, <1>7
<1> HIDE DEF dir
<1> QED
  BY <1>3, <1>8, Concatenated

(* Sanitizing keeps the bytes in front that are safe. *)
Follows(to, r, m) ==
  /\ to \in Seq(Safe) /\ Len(to) \in Nat /\ Len(to) > m
  /\ \A j \in 1 .. m : to[j] = r[j]
  /\ to[m + 1] = IF r[m + 1] \in Safe THEN r[m + 1] ELSE "%"

PieceOf(c) == IF is_char_urlsafe(c) THEN <<c>> ELSE Escape(c)

LEMMA PieceOfIs ==
  ASSUME NEW c \in Safe \cup Range(Bytes)
  PROVE  /\ PieceOf(c) \in Seq(Safe) /\ Len(PieceOf(c)) \in Nat \ {0}
         /\ PieceOf(c)[1] = IF c \in Safe THEN c ELSE "%"
         /\ c \in Safe => Len(PieceOf(c)) = 1
<1>1. CASE c \in Safe
  <2>1. <<c>> \in Seq(Safe) /\ Len(<<c>>) = 1 /\ <<c>>[1] = c
    BY <1>1
  <2>2. PieceOf(c) = <<c>>
    BY <1>1, SafeIs DEF PieceOf
  <2> QED
    BY <1>1, <2>1, <2>2
<1>2. CASE c \notin Safe
  <2>1. PieceOf(c) = Escape(c) /\ c \in Range(Bytes)
    BY <1>2, SafeIs DEF PieceOf
  <2>2. Alnum \cup {"%"} \subseteq Safe
    BY DEF Safe, Unreserved
  <2>3. Escape(c) \in Seq(Safe) /\ Len(Escape(c)) = 3
    BY <2>1, <2>2, EscapeIsSafe
  <2>4. Escape(c)[1] = "%"
    BY DEF Escape
  <2> QED
    BY <1>2, <2>1, <2>3, <2>4
<1> QED
  BY <1>1, <1>2

LEMMA LinkPieces ==
  ASSUME NEW r \in Seq(Safe \cup Range(Bytes))
  PROVE  /\ SanitizedPieces(r) \in Seq(Seq(Safe)) /\ Len(SanitizedPieces(r)) = Len(r)
         /\ \A i \in 1 .. Len(r) : SanitizedPieces(r)[i] = PieceOf(r[i])
<1> DEFINE n == Len(r)
           V == Safe \cup Range(Bytes)
<1>1. n \in Nat /\ DOMAIN r = 1 .. n /\ \A i \in 1 .. n : r[i] \in V
  OBVIOUS
<1>2. SanitizedPieces(r) = [i \in 1 .. n |-> PieceOf(r[i])]
  BY <1>1 DEF SanitizedPieces, PieceOf
<1>3. \A c \in V : PieceOf(c) \in Seq(Safe)
  BY PieceOfIs
<1> HIDE DEF V
<1>4. \A i \in 1 .. n : PieceOf(r[i]) \in Seq(Safe)
  BY <1>1, <1>3
<1> DEFINE p == [i \in 1 .. n |-> PieceOf(r[i])]
<1> HIDE DEF n
<1>5. p \in Seq(Seq(Safe)) /\ Len(p) = n /\ \A i \in 1 .. n : p[i] = PieceOf(r[i])
  BY <1>1, <1>4
<1> QED
  BY <1>2, <1>5 DEF n

LEMMA LinkSanitized ==
  ASSUME NEW r \in Seq(Safe \cup Range(Bytes)), Has(r, ":"), NEW m \in Nat, m < Len(r),
         \A j \in 1 .. m : r[j] \in Safe
  PROVE  Follows(url_sanitize(r), r, m)
<1> DEFINE p == SanitizedPieces(r)
           n == Len(r)
           w == FlattenSeq(p)
           k == m + 1
<1>1. n \in Nat /\ m \in Nat /\ k \in 1 .. n /\ k - 1 = m /\ m \in 0 .. n /\ 1 .. m \subseteq 1 .. n
      /\ \A i \in 1 .. n : r[i] \in Safe \cup Range(Bytes)
  OBVIOUS
<1>2. /\ p \in Seq(Seq(Safe)) /\ Len(p) = n
      /\ \A i \in 1 .. n : p[i] = PieceOf(r[i])
  BY LinkPieces
<1> HIDE DEF p
<1>3. PICK F : Joins(p, F, n, Safe) /\ w = F[n]
  BY <1>2, FlattenJoins
<1>4. url_sanitize(r) = w
  <2>1. url_sanitize(r) = <<>> \o w
    BY SanitizedIs DEF Scheme, p
  <2>2. n \in 0 .. n
    BY <1>1
  <2>3. w \in Seq(Safe)
    BY <1>3, <2>2 DEF Joins
  <2> HIDE DEF w
  <2>4. <<>> \o w = w
    BY <2>3
  <2> QED
    BY <2>1, <2>4
<1> HIDE DEF n, k, w
<1>5. \A i \in 1 .. n : p[i] \in Seq(Safe)
  BY <1>1, <1>2
<1>6. \A i \in 1 .. n : PieceAt(p, F, i, n, Safe)
  <2> TAKE i \in 1 .. n
  <2>1. n \in i .. n
    BY <1>1
  <2> QED
    BY <1>1, <1>3, <1>5, <2>1, JoinedPiece
<1> DEFINE T == {i \in 0 .. m : Len(F[i]) = i}
<1>7. 0 \in T
  <2>1. F[0] = <<>>
    BY <1>3 DEF Joins
  <2>2. Len(<<>>) = 0 /\ 0 \in 0 .. m
    BY <1>1
  <2> QED
    BY <2>1, <2>2
<1>8. \A i \in 1 .. m : r[i] \in Safe /\ Len(p[i]) = 1 /\ p[i][1] = r[i]
  BY <1>1, <1>2, PieceOfIs
<1>9. ASSUME NEW i \in 1 .. m, i - 1 \in T
      PROVE  i \in T
  <2>1. PieceAt(p, F, i, n, Safe)
    BY <1>1, <1>6
  <2>2. Len(F[i]) = Len(F[i - 1]) + Len(p[i])
    BY <2>1 DEF PieceAt
  <2>3. Len(F[i - 1]) = i - 1 /\ Len(p[i]) = 1
    BY <1>8, <1>9
  <2>4. Len(F[i]) = (i - 1) + 1
    BY <2>2, <2>3
  <2>5. i \in 0 .. m /\ (i - 1) + 1 = i
    BY <1>1
  <2> QED
    BY <2>4, <2>5
<1>10. \A i \in 0 .. m : i \in T
  <2> HIDE DEF T
  <2> QED
    BY <1>1, <1>7, <1>9, Reached
<1>11. \A i \in 0 .. m : Len(F[i]) = i
  BY <1>10
<1>12. ASSUME NEW j \in 1 .. m
       PROVE  w[j] = r[j]
  <2>1. PieceAt(p, F, j, n, Safe)
    BY <1>1, <1>6
  <2>2. j - 1 \in 0 .. m /\ (j - 1) + 1 = j /\ 1 \in 1 .. 1
    BY <1>1
  <2>3. Len(F[j - 1]) = j - 1
    BY <1>11, <2>2
  <2>4. F[n][Len(F[j - 1]) + 1] = p[j][1]
    BY <1>8, <2>1, <2>2 DEF PieceAt
  <2>5. F[n][j] = p[j][1]
    BY <2>2, <2>3, <2>4
  <2> QED
    BY <1>3, <1>8, <2>5
<1>13. /\ w \in Seq(Safe) /\ Len(w) \in Nat /\ Len(w) > m
       /\ w[k] = IF r[k] \in Safe THEN r[k] ELSE "%"
  <2>1. PieceAt(p, F, k, n, Safe)
    BY <1>1, <1>6
  <2>2. Len(F[m]) = m
    BY <1>1, <1>11
  <2>3. /\ Len(p[k]) \in Nat \ {0}
        /\ p[k][1] = IF r[k] \in Safe THEN r[k] ELSE "%"
    BY <1>1, <1>2, PieceOfIs
  <2>4. /\ F[n] \in Seq(Safe) /\ Len(F[n]) \in Nat /\ Len(F[k]) = Len(F[m]) + Len(p[k])
        /\ Len(F[k]) <= Len(F[n])
        /\ \A j \in 1 .. Len(p[k]) : F[n][Len(F[m]) + j] = p[k][j]
    BY <1>1, <2>1 DEF PieceAt
  <2>5. 1 \in 1 .. Len(p[k])
    BY <2>3
  <2>6. F[n][m + 1] = p[k][1]
    BY <2>2, <2>4, <2>5
  <2>7. Len(F[n]) > m
    <3> DEFINE x == Len(F[k])
               y == Len(F[n])
               z == Len(p[k])
    <3>1. x = m + z /\ x <= y /\ y \in Nat /\ z \in Nat \ {0}
      BY <2>2, <2>3, <2>4
    <3> HIDE DEF x, y, z
    <3>2. y > m
      BY <1>1, <3>1
    <3> QED
      BY <3>2 DEF y
  <2> QED
    BY <1>3, <2>3, <2>4, <2>6, <2>7 DEF k
<1> QED
  BY <1>4, <1>12, <1>13 DEF Follows, k

(* A page that no server has is none that HTTPProviderInit is made for. *)
LEMMA NotServed ==
  ASSUME NEW S, NEW u \in Seq(S), PageAddress(u), ~ Served(u)
  PROVE  HTTPProviderInit(u) = {}
<1> DEFINE n == Len(u)
<1>1. n \in Nat /\ n >= 2 /\ u[1] \in Words /\ u[2] = ":" /\ n = Len(u)
  BY DEF PageAddress
<1>2. PICK z : /\ z[0] = UrlStart /\ UrlRuns(u, z, n)
               /\ http_parser_parse_url(u) = Parsed(u, z[n])
  BY <1>1, UrlUnfolds
<1> HIDE DEF n
<1>3. \A k \in 1 .. n : z[k - 1] \in UrlZ /\ z[k] \in UrlZ
                        /\ UrlStepped(z[k - 1], k, z[k], parse_url_char(z[k - 1].s, u[k]))
  <2> TAKE k \in 1 .. n
  <2>1. k \in 0 .. n /\ k - 1 \in 0 .. n /\ k \in Nat
    BY <1>1
  <2>2. z[k - 1] \in UrlZ /\ z[k] \in UrlZ /\ z[k] = UrlStep(z[k - 1], u[k], k)
    BY <1>2, <2>1 DEF UrlRuns
  <2>3. UrlStepped(z[k - 1], k, UrlStep(z[k - 1], u[k], k), parse_url_char(z[k - 1].s, u[k]))
    BY <2>1, <2>2, UrlStepIs
  <2> QED
    BY <2>2, <2>3
(* Behind the colon, when no more than one slash has come. *)
<1> DEFINE Waits(y, s) == y \in UrlZ /\ y.s = s /\ y.u["schema"].len = 1 /\ y.u["host"].len = 0
           Ends(y) == y.s = "s_dead" \/ (y.u["schema"].len > 0 /\ y.u["host"].len = 0)
<1>4. Waits(z[1], "s_req_schema")
  <2>1. 1 \in 1 .. n /\ 1 - 1 = 0
    BY <1>1
  <2>2. UrlStepped(z[0], 1, z[1], parse_url_char(z[0].s, u[1])) /\ z[1] \in UrlZ
    BY <1>3, <2>1
  <2>3. parse_url_char(z[0].s, u[1]) = "s_req_schema"
    BY <1>1, <1>2, OnScheme, UrlStarts
  <2> DEFINE y == z[1]
  <2>4. UrlStepped(UrlStart, 1, y, "s_req_schema") /\ y \in UrlZ
    BY <1>2, <2>2, <2>3
  <2> HIDE DEF y
  <2>5. "s_req_schema" \in DOMAIN FieldOf /\ FieldOf["s_req_schema"] = "schema" /\ UrlStart.uf # "schema"
    BY FieldOfIs, UrlStarts
  <2>6. y.s = "s_req_schema" /\ y.u["schema"] = [off |-> 1, len |-> 1] /\ y.u["host"] = UrlStart.u["host"]
    BY <2>4, <2>5 DEF UrlStepped, FieldNames
  <2>7. y.u["schema"].len = 1 /\ y.u["host"].len = 0
    BY <2>6, UrlStarts DEF FieldNames, NoField
  <2>8. Waits(y, "s_req_schema")
    BY <2>4, <2>6, <2>7
  <2> QED
    BY <2>8 DEF y
<1>5. ASSUME NEW x, NEW y, NEW p, NEW s, NEW new, Waits(x, s), y \in UrlZ, UrlStepped(x, p, y, new),
             new \notin DOMAIN FieldOf
      PROVE  Waits(y, new)
  BY <1>5 DEF UrlStepped
<1>6. Waits(z[2], "s_req_schema_slash")
  <2>1. 2 \in 1 .. n /\ 2 - 1 = 1
    BY <1>1
  <2>2. UrlStepped(z[1], 2, z[2], parse_url_char(z[1].s, u[2])) /\ z[2] \in UrlZ
    BY <1>3, <2>1
  <2>3. parse_url_char(z[1].s, u[2]) = "s_req_schema_slash"
    BY <1>1, <1>4, OnScheme
  <2>4. "s_req_schema_slash" \notin DOMAIN FieldOf
    BY FieldOfIs
  <2> HIDE DEF Waits
  <2> QED
    BY <1>4, <1>5, <2>2, <2>3, <2>4
<1>7. \A s, y : Waits(y, s) => Ends(y)
  OBVIOUS
<1>8. ASSUME NEW k \in 1 .. n, z[k].s = "s_dead"
      PROVE  Ends(z[n])
  <2>1. k \in 0 .. n
    BY <1>1
  <2>2. z[n].s = "s_dead"
    BY <1>1, <1>2, <1>8, <2>1, DeadUrl
  <2> QED
    BY <2>2
<1>9. \A ch : ch # "/" => /\ parse_url_char("s_req_schema_slash", ch) = "s_dead"
                          /\ parse_url_char("s_req_schema_slash_slash", ch) = "s_dead"
  BY DEF parse_url_char
<1>10. n = 2 => Ends(z[n])
  BY <1>6, <1>7
<1>11. n >= 3 => UrlStepped(z[2], 3, z[3], parse_url_char("s_req_schema_slash", u[3])) /\ z[3] \in UrlZ
  <2> SUFFICES ASSUME n >= 3
               PROVE  UrlStepped(z[2], 3, z[3], parse_url_char("s_req_schema_slash", u[3])) /\ z[3] \in UrlZ
    OBVIOUS
  <2>1. 3 \in 1 .. n /\ 3 - 1 = 2
    BY <1>1
  <2>2. UrlStepped(z[2], 3, z[3], parse_url_char(z[2].s, u[3])) /\ z[3] \in UrlZ
    BY <1>3, <2>1
  <2>3. z[2].s = "s_req_schema_slash"
    BY <1>6
  <2> QED
    BY <2>2, <2>3
<1>12. n >= 3 /\ u[3] # "/" => Ends(z[n])
  <2> SUFFICES ASSUME n >= 3, u[3] # "/" PROVE Ends(z[n])
    OBVIOUS
  <2>1. z[3].s = "s_dead"
    BY <1>9, <1>11 DEF UrlStepped
  <2>2. 3 \in 1 .. n
    BY <1>1
  <2> HIDE DEF Ends
  <2> QED
    BY <1>8, <2>1, <2>2
<1>13. n >= 3 /\ u[3] = "/" => Waits(z[3], "s_req_schema_slash_slash")
  <2> SUFFICES ASSUME n >= 3, u[3] = "/" PROVE Waits(z[3], "s_req_schema_slash_slash")
    OBVIOUS
  <2>1. UrlStepped(z[2], 3, z[3], "s_req_schema_slash_slash") /\ z[3] \in UrlZ
    BY <1>11, OnScheme
  <2>2. "s_req_schema_slash_slash" \notin DOMAIN FieldOf
    BY FieldOfIs
  <2> HIDE DEF Waits
  <2> QED
    BY <1>5, <1>6, <2>1, <2>2
<1>14. n >= 4 /\ u[3] = "/" /\ u[4] # "/" => Ends(z[n])
  <2> SUFFICES ASSUME n >= 4, u[3] = "/", u[4] # "/" PROVE Ends(z[n])
    OBVIOUS
  <2>1. 4 \in 1 .. n /\ 4 - 1 = 3 /\ n >= 3
    BY <1>1
  <2>2. UrlStepped(z[3], 4, z[4], parse_url_char(z[3].s, u[4]))
    BY <1>3, <2>1
  <2>3. z[3].s = "s_req_schema_slash_slash"
    BY <1>13, <2>1
  <2>4. z[4].s = "s_dead"
    BY <1>9, <2>2, <2>3 DEF UrlStepped
  <2> HIDE DEF Ends
  <2> QED
    BY <1>8, <2>1, <2>4
<1>15. n = 3 /\ u[3] = "/" => Ends(z[n])
  BY <1>7, <1>13
<1>16. Ends(z[n])
  <2>1. ~ (n >= 4 /\ u[3] = "/" /\ u[4] = "/")
    BY DEF Served, n
  <2> HIDE DEF Ends
  <2> QED
    BY <1>1, <1>10, <1>12, <1>14, <1>15, <2>1
<1>17. http_parser_parse_url(u) = {}
  <2> DEFINE y == z[n]
  <2>1. y.s = "s_dead" \/ (y.u["schema"].len > 0 /\ y.u["host"].len = 0)
    BY <1>16
  <2>2. http_parser_parse_url(u) = Parsed(u, y)
    BY <1>2
  <2> HIDE DEF y
  <2> QED
    BY <2>1, <2>2 DEF Parsed
<1> QED
  BY <1>17, NotProvided

(* The link to: the address of the page up to position m, and a byte of the *)
(* reference behind it.                                                     *)
LinkOf(base, to, m, href) ==
  /\ to \in Seq(Safe) /\ m \in Nat /\ m >= 2 /\ m <= Len(base) /\ Len(to) \in Nat /\ Len(to) > m
  /\ \A j \in 1 .. m : to[j] = base[j]
  /\ \/ m = Len(base) /\ to[m + 1] \in {"%", "?"}
     \/ m = FindAuthorityEnd(base) - 1 /\ to[m + 1] = "/"
  /\ to[m + 1] = "%" => href[1] = "#"

SplitAt(r, x, m, y, V) ==
  /\ r \in Seq(V) /\ m \in Nat /\ m < Len(r) /\ (\A j \in 1 .. m : r[j] = x[j]) /\ r[m + 1] = y[1]

LEMMA SplitIs ==
  ASSUME NEW V, NEW x \in Seq(V), NEW y \in Seq(V), y # <<>>
  PROVE  SplitAt(x \o y, x, Len(x), y, V)
<1> DEFINE m == Len(x)
           z == x \o y
           l == Len(y)
<1>1. Prefixed(z, m, x, y, V)
  BY PrefixIsThere
<1>2. m \in Nat /\ l \in Nat \ {0}
  OBVIOUS
<1> HIDE DEF z, m
<1>3. z \in Seq(V) /\ Len(z) = m + l /\ (\A j \in 1 .. m : z[j] = x[j]) /\ \A j \in 1 .. l : z[m + j] = y[j]
  BY <1>1 DEF Prefixed
<1> HIDE DEF l
<1>4. 1 \in 1 .. l /\ m < m + l
  BY <1>2
<1>5. SplitAt(z, x, m, y, V)
  BY <1>2, <1>3, <1>4 DEF SplitAt
<1> QED
  BY <1>5 DEF z, m

LEMMA AuthorityEndIn ==
  ASSUME NEW base \in Bases, NEW f, f = FindAuthorityEnd(base)
  PROVE  /\ f \in 3 .. Len(base) + 1
         /\ Served(base) => f >= 5 /\ FirstAt(base, f, 5, Len(base), {"/", "?", "#"})
<1> DEFINE n == Len(base)
<1>1. base \in Seq(Safe) /\ n \in Nat /\ PageAddress(base) /\ n >= 2
  BY BaseIs DEF PageAddress
<1>2. "NUL" \notin Safe
  BY DEF Safe, Unreserved, Alnum, Alpha, Words, Decimal
<1>3. /\ ~ Served(base) => f = 3
      /\ Served(base) => FirstAt(base, f, 5, n, {"/", "?", "#"})
  BY <1>1, <1>2, AuthorityEndIs
<1> HIDE DEF n
<1>4. Served(base) => f \in 5 .. n + 1
  BY <1>3 DEF FirstAt
<1>5. f \in 3 .. n + 1 /\ (Served(base) => f >= 5)
  BY <1>1, <1>3, <1>4
<1> QED
  BY <1>3, <1>5 DEF n

LEMMA ColonInside ==
  ASSUME NEW V, NEW x, NEW m \in Nat, m >= 2, NEW r \in Seq(V), m < Len(r),
         \A j \in 1 .. m : r[j] = x[j], x[2] = ":"
  PROVE  Has(r, ":")
<1>1. 2 \in 1 .. m /\ 2 \in DOMAIN r
  OBVIOUS
<1> QED
  BY <1>1 DEF Has

LEMMA LinkIs ==
  ASSUME NEW base \in Bases, NEW href \in Seq(Range(Bytes)), href # <<>>, FindSchemeEnd(href) = 0,
         ~ BeginsWith(href, <<"/", "/">>), ~ NeedsPath(base, href)
  PROVE  \E m : LinkOf(base, url_sanitize(ResolveLinkHref(base, href)), m, href)
<1> DEFINE f == FindAuthorityEnd(base)
           n == Len(base)
           short == SubSeq(base, 1, f - 1)
           V == Safe \cup Range(Bytes)
           c == href[1]
<1>1. base \in Seq(Safe) /\ n \in Nat /\ n >= 2 /\ PageAddress(base) /\ base[2] = ":"
  BY BaseIs DEF PageAddress
<1>2. FindSchemeEnd(base) = 2
  BY <1>1, SchemeEndIs
<1>3. c \in {"#", "?", "/"}
  BY <1>2 DEF NeedsPath
<1>4. f \in 3 .. n + 1
  BY AuthorityEndIn
<1>5. ResolveLinkHref(base, href) = IF c \in {"#", "?"} THEN base \o href ELSE short \o href
  BY <1>2 DEF ResolveLinkHref
<1> HIDE DEF f
<1>6. short \in Seq(Safe) /\ Len(short) = f - 1 /\ \A j \in 1 .. f - 1 : short[j] = base[j]
  BY <1>1, <1>4
<1>7. "#" \notin Safe /\ "?" \in Safe /\ "/" \in Safe
  BY DEF Safe, Unreserved, Alnum, Alpha, Words, Decimal
<1> HIDE DEF short
<1>8. base \in Seq(V) /\ short \in Seq(V) /\ href \in Seq(V)
  BY <1>1, <1>6
<1> DEFINE Goal(r) == \E m : LinkOf(base, url_sanitize(r), m, href)
<1> HIDE DEF V
<1>9. ASSUME NEW x \in Seq(V), NEW m \in Nat, m = Len(x), m >= 2, m <= n, \A j \in 1 .. m : x[j] = base[j],
             \/ m = n /\ c \in {"#", "?"}
             \/ m = f - 1 /\ c = "/"
      PROVE  Goal(x \o href)
  <2> DEFINE r == x \o href
             to == url_sanitize(r)
  <2>1. SplitAt(r, x, m, href, V)
    BY <1>8, <1>9, SplitIs
  <2> HIDE DEF r
  <2>2. /\ r \in Seq(V) /\ m < Len(r) /\ (\A j \in 1 .. m : r[j] = base[j]) /\ r[m + 1] = c
    BY <1>9, <2>1 DEF SplitAt
  <2>3. Has(r, ":")
    BY <1>1, <1>9, <2>2, ColonInside
  <2>4. \A j \in 1 .. m : r[j] \in Safe
    <3>1. \A j \in 1 .. n : base[j] \in Safe
      BY <1>1
    <3>2. 1 .. m \subseteq 1 .. n
      BY <1>1, <1>9
    <3> QED
      BY <2>2, <3>1, <3>2
  <2>5. Follows(to, r, m)
    BY <2>2, <2>3, <2>4, LinkSanitized DEF V
  <2> HIDE DEF to, c
  <2>6. /\ to \in Seq(Safe) /\ Len(to) \in Nat /\ Len(to) > m /\ \A j \in 1 .. m : to[j] = base[j]
        /\ to[m + 1] = IF c \in Safe THEN c ELSE "%"
    BY <2>2, <2>5 DEF Follows
  <2>7. /\ to[m + 1] = "%" => c = "#"
        /\ \/ m = n /\ to[m + 1] \in {"%", "?"}
           \/ m = f - 1 /\ to[m + 1] = "/"
    BY <1>3, <1>7, <1>9, <2>6
  <2>8. LinkOf(base, to, m, href)
    BY <1>9, <2>6, <2>7 DEF LinkOf, n, f, c
  <2> QED
    BY <2>8 DEF to, r
<1> HIDE DEF Goal, c
<1>10. CASE c \in {"#", "?"}
  <2>1. Goal(base \o href)
    BY <1>1, <1>8, <1>9, <1>10
  <2> QED
    BY <1>5, <1>10, <2>1 DEF Goal
<1>11. CASE c = "/"
  <2> DEFINE k == f - 1
  <2>1. k \in Nat /\ k >= 2 /\ k <= n /\ Len(short) = k /\ \A j \in 1 .. k : short[j] = base[j]
    BY <1>1, <1>4, <1>6
  <2>2. k = f - 1
    OBVIOUS
  <2> HIDE DEF k
  <2>3. Goal(short \o href)
    BY <1>8, <1>9, <1>11, <2>1, <2>2
  <2> QED
    BY <1>5, <1>11, <2>3 DEF Goal
<1> QED
  BY <1>3, <1>10, <1>11

(* It has the provider of the page. *)
LEMMA SameProvider ==
  ASSUME NEW base \in Bases, NEW to, NEW m, NEW href, LinkOf(base, to, m, href)
  PROVE  PageAddress(to) /\ URIGetProvider(to) = URIGetProvider(base)
<1>1. base \in Seq(Safe) /\ PageAddress(base) /\ base[1] \in Words /\ base[2] = ":"
  BY BaseIs DEF PageAddress
<1>2. /\ to \in Seq(Safe) /\ m \in Nat /\ m >= 2 /\ Len(to) \in Nat /\ Len(to) > m
      /\ \A j \in 1 .. m : to[j] = base[j]
  BY DEF LinkOf
<1>3. 1 \in 1 .. m /\ 2 \in 1 .. m /\ Len(to) >= 2
  BY <1>2
<1>4. to[1] = base[1] /\ to[2] = base[2]
  BY <1>2, <1>3
<1>5. PageAddress(to)
  BY <1>1, <1>3, <1>4 DEF PageAddress
<1>6. URIGetProvider(to) = to[1]
  BY <1>2, <1>5, ProviderIs
<1>7. URIGetProvider(base) = base[1]
  BY <1>1, ProviderIs
<1> QED
  BY <1>4, <1>5, <1>6, <1>7

(* What is behind http:// in an address of safe bytes, cut at position a. *)
ServerOf(u, s, a) ==
  /\ a \in 5 .. Len(u) + 1 /\ Piece(s, u, 4, a - 5, Safe) /\ FirstAt(u, a, 5, Len(u), {"/", "?"})
  /\ \E path : HTTPProviderInit(u) =
                 {[host |-> x.host, port |-> x.port, path |-> path] : x \in Authorities(s)}

LEMMA SafeChars ==
  /\ "NUL" \notin Safe /\ "@" \notin Safe /\ "[" \notin Safe /\ "#" \notin Safe
  /\ {"?", "/", "%"} \subseteq Safe /\ Safe \subseteq TailChar
<1>1. "NUL" \notin Safe /\ "@" \notin Safe /\ "[" \notin Safe /\ "#" \notin Safe /\ {"?", "/", "%"} \subseteq Safe
  BY DEF Safe, Unreserved, Alnum, Alpha, Words, Decimal
<1>2. Safe \subseteq TailChar
  BY DEF Safe, Unreserved, TailChar, UrlChar, UserinfoChar, Mark
<1> QED
  BY <1>1, <1>2

LEMMA ServerIs ==
  ASSUME NEW u \in Seq(Safe), PageAddress(u), Served(u)
  PROVE  \E s, a : ServerOf(u, s, a)
<1> DEFINE n == Len(u)
           l == n - 4
           t == SubSeq(u, 5, n)
           C == {"/", "?"}
           s == Cut(t, C)
           tail == Rest(t, C)
           e == From(t, 1, C) - 1
           a == 5 + e
<1>1. n \in Nat /\ n >= 4 /\ l \in Nat /\ n = 4 + l /\ u[1] \in Words /\ u[2] = ":" /\ u[3] = "/" /\ u[4] = "/"
  BY DEF Served, PageAddress
<1>2. Piece(t, u, 4, l, Safe)
  <2>1. CASE n = 4
    <3>1. t = <<>>
      BY <2>1
    <3> HIDE DEF t
    <3>2. <<>> \in Seq(Safe) /\ Len(<<>>) = 0
      OBVIOUS
    <3> QED
      BY <1>1, <2>1, <3>1, <3>2, SafeChars DEF Piece
  <2>2. CASE n # 4
    <3> DEFINE k == 5
    <3>1. /\ k \in Nat \ {0} /\ k <= n /\ (n - k) + 1 = l /\ k - 1 = 4
      <4> HIDE DEF n, t, C
      <4> QED
        BY <1>1, <2>2
    <3>2. /\ t \in Seq(Safe) /\ Len(t) = (n - k) + 1
          /\ \A j \in 1 .. (n - k) + 1 : t[j] = u[(k - 1) + j]
      BY <3>1, RestIs
    <3> HIDE DEF t, k, l
    <3>3. t \in Seq(Safe) /\ Len(t) = l /\ \A j \in 1 .. l : t[j] = u[4 + j]
      BY <3>1, <3>2
    <3> QED
      BY <1>1, <3>3, SafeChars DEF Piece
  <2> QED
    BY <2>1, <2>2
<1>3. HTTPProviderInit(u) = HttpUrls(t)
  BY <1>1, <1>2, ServerIsSplit, SafeChars DEF Schemed
<1> HIDE DEF t, l
<1>4. /\ e \in 0 .. l /\ Piece(s, u, 4, e, Safe) /\ Piece(tail, u, 4 + e, l - e, Safe)
      /\ FirstAt(u, (4 + e) + 1, 4 + 1, 4 + l, C)
  BY <1>2, CutPiece
<1>5. HttpUrls(t) = IF Over(tail, TailChar)
                    THEN {[host |-> x.host, port |-> x.port, path |-> PathIn(tail)] : x \in Authorities(s)}
                    ELSE {}
  BY UrlsFor
<1> HIDE DEF e, s, tail
<1>6. Over(tail, TailChar)
  <2>1. tail \in Seq(Safe)
    BY <1>4 DEF Piece
  <2> QED
    BY <2>1, SafeChars DEF Over
<1> HIDE DEF n
<1>7. a \in 5 .. n + 1 /\ a - 5 = e /\ (4 + e) + 1 = a /\ 4 + 1 = 5 /\ 4 + l = n
  BY <1>1, <1>4
<1> HIDE DEF a, C
<1>8. Piece(s, u, 4, a - 5, Safe) /\ FirstAt(u, a, 5, n, {"/", "?"})
  BY <1>4, <1>7 DEF C
<1> DEFINE p == PathIn(tail)
<1>9. HTTPProviderInit(u) = {[host |-> x.host, port |-> x.port, path |-> p] : x \in Authorities(s)}
  BY <1>3, <1>5, <1>6
<1> HIDE DEF p
<1>10. ServerOf(u, s, a)
  BY <1>7, <1>8, <1>9 DEF ServerOf, n
<1> QED
  BY <1>10

LEMMA OneHost ==
  ASSUME NEW s, NEW x \in Hosts(s), NEW y \in Hosts(s)
  PROVE  x = y
BY DEF Hosts

LEMMA OneAuthority ==
  ASSUME NEW s, NEW x \in Authorities(s), NEW y \in Authorities(s)
  PROVE  x = y
BY OneHost DEF Authorities

PortOnly(x) == x # <<>> => x[1] = ":" /\ Over(SubSeq(x, 2, Len(x)), Decimal)

LEMMA NoEscapedPort ==
  ASSUME NEW u, NEW S, NEW o, NEW m, NEW x, Piece(x, u, o, m, S), PortOnly(x),
         NEW k \in o + 1 .. o + m, u[k] = "%"
  PROVE  FALSE
<1> DEFINE q == o + 1
           d == m - 1
           y == SubSeq(x, 2, Len(x))
<1>1. o \in Nat /\ m \in Nat \ {0}
  BY DEF Piece
<1>2. x # <<>> /\ x[1] = u[o + 1] /\ Tail(x) = y /\ Piece(Tail(x), u, o + 1, m - 1, S)
  BY <1>1, TailOfPiece
<1>3. u[q] = ":" /\ Over(y, Decimal) /\ Piece(y, u, q, d, S)
  BY <1>2 DEF PortOnly
<1>4. "%" \notin Decimal /\ "%" # ":"
  BY DEF Decimal
<1>5. k # q
  BY <1>3, <1>4
<1>6. k \in q + 1 .. q + d
  BY <1>1, <1>5
<1> HIDE DEF q, d, y
<1>7. AllIn(u, q + 1, q + d, Decimal)
  BY <1>3, PieceOver
<1> QED
  BY <1>4, <1>6, <1>7 DEF AllIn

(* An escape in the authority is no part of a host. *)
LEMMA NoEscapedHost ==
  ASSUME NEW u, NEW l, NEW s, Piece(s, u, 4, l, Safe), NEW k \in 5 .. 4 + l, u[k] = "%"
  PROVE  Authorities(s) = {}
<1> DEFINE C == {":"}
           name == Cut(s, C)
           after == Rest(s, C)
           port == SubSeq(after, 2, Len(after))
           e == From(s, 1, C) - 1
<1>1. l \in Nat /\ s \in Seq(Safe) /\ Len(s) = l /\ l # 0 /\ 4 + 1 = 5 /\ l \in Nat \ {0}
  BY DEF Piece
<1>2. ~ Has(s, "@") /\ Head(s) # "["
  <2>1. \A i \in DOMAIN s : s[i] \in Safe
    BY <1>1
  <2>2. 1 \in DOMAIN s /\ Head(s) = s[1]
    BY <1>1
  <2> QED
    BY <2>1, <2>2, SafeChars DEF Has
<1>3. Authorities(s) = Hosts(s)
  BY <1>2 DEF Authorities
<1>4. Hosts(s) # {} => Over(name, HostChar) /\ (after # <<>> => after[1] = ":" /\ Over(port, Decimal))
  BY <1>2 DEF Hosts
<1>5. /\ e \in 0 .. l /\ Piece(name, u, 4, e, Safe) /\ Piece(after, u, 4 + e, l - e, Safe)
  BY CutPiece
<1> HIDE DEF name, e, C
<1>6. "%" \notin HostChar /\ "%" \notin Decimal /\ "%" # ":"
  BY DEF HostChar, Alnum, Alpha, Words, Decimal
<1> SUFFICES ASSUME Hosts(s) # {} PROVE FALSE
  BY <1>3
<1>7. CASE k <= 4 + e
  <2>1. AllIn(u, 4 + 1, 4 + e, HostChar)
    BY <1>4, <1>5, PieceOver
  <2>2. k \in 4 + 1 .. 4 + e
    BY <1>1, <1>5, <1>7
  <2> QED
    BY <1>6, <2>1, <2>2 DEF AllIn
<1>8. CASE k > 4 + e
  <2> DEFINE o == 4 + e
             m == l - e
  <2>1. k \in o + 1 .. o + m
    BY <1>1, <1>5, <1>8
  <2>2. Piece(after, u, o, m, Safe)
    BY <1>5
  <2>3. PortOnly(after)
    BY <1>4 DEF PortOnly
  <2> HIDE DEF o, m, after
  <2> QED
    BY <2>1, <2>2, <2>3, NoEscapedPort
<1> QED
  BY <1>1, <1>5, <1>7, <1>8

(* It stays at the server of the page. *)
LEMMA SameServer ==
  ASSUME NEW base \in Bases, NEW to, NEW m, NEW href, LinkOf(base, to, m, href),
         NEW page, page = HTTPProviderInit(base), NEW link, link = HTTPProviderInit(to)
  PROVE  /\ \A p \in page, l \in link : l.host = p.host /\ l.port = p.port
         /\ page # {} /\ link = {} => href[1] = "#" /\ FindAuthorityEnd(base) > Len(base)
<1> DEFINE n == Len(base)
           f == FindAuthorityEnd(base)
           C == {"/", "?"}
<1>1. base \in Seq(Safe) /\ n \in Nat /\ PageAddress(base)
  BY BaseIs
<1>2. /\ to \in Seq(Safe) /\ m \in Nat /\ m <= n /\ Len(to) \in Nat /\ Len(to) > m
      /\ \A j \in 1 .. m : to[j] = base[j]
      /\ \/ m = n /\ to[m + 1] \in {"%", "?"}
         \/ m = f - 1 /\ to[m + 1] = "/"
      /\ to[m + 1] = "%" => href[1] = "#"
  BY DEF LinkOf
<1>3. CASE ~ Served(base)
  <2>1. page = {}
    BY <1>1, <1>3, NotServed
  <2> QED
    BY <2>1
<1>4. CASE Served(base)
  <2>1. n >= 4 /\ base[3] = "/" /\ base[4] = "/"
    BY <1>4 DEF Served
  <2>2. f \in 5 .. n + 1 /\ FirstAt(base, f, 5, n, {"/", "?", "#"})
    BY <1>1, <1>4, AuthorityEndIn DEF FirstAt
  <2>3. m >= 4
    <3> HIDE DEF n, f
    <3> QED
      BY <1>1, <1>2, <2>1, <2>2
  <2>4. PageAddress(to) /\ Served(to)
    <3>1. 3 \in 1 .. m /\ 4 \in 1 .. m /\ Len(to) >= 4
      BY <1>2, <2>3
    <3>2. to[3] = "/" /\ to[4] = "/"
      BY <1>2, <2>1, <3>1
    <3> QED
      BY <3>1, <3>2, SameProvider DEF Served
  <2>5. PICK s, a : ServerOf(base, s, a)
    BY <1>1, <1>4, ServerIs
  <2>6. PICK t, b : ServerOf(to, t, b)
    BY <1>2, <2>4, ServerIs
  <2> HIDE DEF f
  <2>7. /\ a \in 5 .. n + 1 /\ Piece(s, base, 4, a - 5, Safe) /\ FirstAt(base, a, 5, n, C)
    BY <2>5 DEF ServerOf
  <2>8. /\ b \in 5 .. Len(to) + 1 /\ Piece(t, to, 4, b - 5, Safe) /\ FirstAt(to, b, 5, Len(to), C)
    BY <2>6 DEF ServerOf
  <2>9. PICK path : page = {[host |-> x.host, port |-> x.port, path |-> path] : x \in Authorities(s)}
    BY <2>5 DEF ServerOf
  <2>10. PICK way : link = {[host |-> x.host, port |-> x.port, path |-> way] : x \in Authorities(t)}
    BY <2>6 DEF ServerOf
  <2> HIDE DEF n, C
  <2> DEFINE N == Len(to)
             at == to[m + 1]
  <2>11. /\ N \in Nat /\ N > m /\ a \in Nat /\ b \in Nat /\ m + 1 \in Nat
         /\ (a <= n => base[a] \in C) /\ (\A k \in 5 .. n : k < a => base[k] \notin C)
         /\ (b <= N => to[b] \in C) /\ (\A k \in 5 .. N : k < b => to[k] \notin C)
         /\ (f <= n => base[f] \in {"/", "?", "#"})
         /\ (\A k \in 5 .. n : k < f => base[k] \notin {"/", "?", "#"})
    BY <1>1, <1>2, <2>2, <2>7, <2>8 DEF FirstAt
  <2> HIDE DEF N
  <2>12. f <= a
    <3> SUFFICES ASSUME a < f PROVE FALSE
      BY <1>1, <2>2, <2>11
    <3>1. a \in 5 .. n /\ a <= n
      BY <1>1, <2>2, <2>7
    <3>2. base[a] \in C
      BY <2>11, <3>1
    <3> QED
      BY <2>11, <3>1, <3>2 DEF C
  <2>13. a <= f
    <3> SUFFICES ASSUME f < a PROVE FALSE
      BY <1>1, <2>2, <2>11
    <3>1. f \in 5 .. n /\ f <= n
      BY <1>1, <2>2, <2>7
    <3>2. base[f] \in {"/", "?", "#"} /\ base[f] \notin C
      BY <2>11, <3>1
    <3>3. base[f] \in Safe
      <4>1. f \in 1 .. Len(base)
        BY <1>1, <3>1 DEF n
      <4> QED
        BY <1>1, <4>1
    <3> QED
      BY <3>2, <3>3, SafeChars DEF C
  <2>14. a = f
    BY <1>1, <2>2, <2>11, <2>12, <2>13
  <2>15. a <= m + 1 /\ (at = "%" => m = n)
    <3>1. CASE m = n /\ at \in {"%", "?"}
      BY <1>1, <2>7, <3>1
    <3>2. CASE m = f - 1 /\ at = "/"
      BY <1>1, <2>2, <2>14, <3>2
    <3> QED
      BY <1>2, <3>1, <3>2
  <2>16. \A k \in 5 .. N : k < a => to[k] \notin C
    <3> TAKE k \in 5 .. N
    <3> HAVE k < a
    <3>1. k \in 5 .. n /\ k \in 1 .. m
      BY <1>1, <1>2, <2>11, <2>15
    <3> QED
      BY <1>2, <2>11, <3>1
  <2>17. a <= b
    <3> SUFFICES ASSUME b < a PROVE FALSE
      BY <2>11
    <3>1. b <= N /\ b \in 5 .. N
      BY <1>2, <2>8, <2>11, <2>15
    <3> QED
      BY <2>11, <2>16, <3>1
  <2>18. \A k \in 1 .. a - 5 : to[4 + k] = base[4 + k]
    <3> TAKE k \in 1 .. a - 5
    <3>1. 4 + k \in 1 .. m
      BY <1>2, <2>11, <2>15
    <3> QED
      BY <1>2, <3>1
  <2>19. CASE to[a] \in C
    <3>1. b <= a
      <4> SUFFICES ASSUME a < b PROVE FALSE
        BY <2>11
      <4>1. a \in 5 .. N
        BY <1>2, <2>7, <2>11, <2>15
      <4> QED
        BY <2>11, <2>19, <4>1
    <3>2. a = b
      BY <2>11, <2>17, <3>1
    <3>3. s = t
      <4> DEFINE l == a - 5
      <4>1. Piece(s, base, 4, l, Safe) /\ Piece(t, to, 4, l, Safe) /\ \A k \in 1 .. l : to[4 + k] = base[4 + k]
        BY <2>7, <2>8, <2>18, <3>2
      <4> HIDE DEF l
      <4>2. /\ s \in Seq(Safe) /\ Len(s) = l /\ \A k \in 1 .. l : s[k] = base[4 + k]
            /\ t \in Seq(Safe) /\ Len(t) = l /\ \A k \in 1 .. l : t[k] = to[4 + k]
        BY <4>1 DEF Piece
      <4>3. Len(s) = Len(t) /\ \A k \in 1 .. Len(s) : s[k] = t[k]
        BY <4>1, <4>2
      <4> QED
        BY <4>2, <4>3, SameSequence
    <3> DEFINE A == Authorities(s)
    <3>4. \A x, y \in A : x = y
      BY OneAuthority
    <3>5. /\ page = {[host |-> x.host, port |-> x.port, path |-> path] : x \in A}
          /\ link = {[host |-> x.host, port |-> x.port, path |-> way] : x \in A}
      BY <2>9, <2>10, <3>3
    <3> HIDE DEF A
    <3>6. \A p \in page, l \in link : l.host = p.host /\ l.port = p.port
      <4> TAKE p \in page, l \in link
      <4>1. PICK x \in A : p = [host |-> x.host, port |-> x.port, path |-> path]
        BY <3>5
      <4>2. PICK y \in A : l = [host |-> y.host, port |-> y.port, path |-> way]
        BY <3>5
      <4>3. x = y
        BY <3>4
      <4> QED
        BY <4>1, <4>2, <4>3
    <3>7. page # {} => link # {}
      BY <3>5
    <3> QED
      BY <3>6, <3>7
  <2>20. CASE to[a] \notin C
    <3>1. a = m + 1
      <4> SUFFICES ASSUME a # m + 1 PROVE FALSE
        OBVIOUS
      <4>1. a \in 1 .. m /\ a <= n
        BY <1>1, <1>2, <2>7, <2>11, <2>15
      <4> QED
        BY <1>2, <2>11, <2>20, <4>1
    <3>2. at = "%"
      BY <1>2, <2>20, <3>1 DEF C
    <3>3. b > a
      <4>1. b # a
        <5> SUFFICES ASSUME b = a PROVE FALSE
          OBVIOUS
        <5>1. b <= N
          BY <1>2, <2>11, <3>1
        <5> QED
          BY <2>11, <2>20, <5>1
      <4> QED
        BY <2>11, <2>17, <4>1
    <3> DEFINE l == b - 5
    <3>4. a \in 5 .. 4 + l
      BY <2>7, <2>11, <3>3
    <3>5. Piece(t, to, 4, l, Safe) /\ to[a] = "%"
      BY <2>8, <3>1, <3>2
    <3> HIDE DEF l
    <3>6. Authorities(t) = {}
      BY <3>4, <3>5, NoEscapedHost
    <3>7. link = {}
      BY <2>10, <3>6
    <3>8. f > n
      BY <1>1, <2>2, <2>14, <2>15, <3>1, <3>2
    <3> QED
      BY <1>2, <3>2, <3>7, <3>8 DEF f, n
  <2> QED
    BY <2>19, <2>20
<1> QED
  BY <1>3, <1>4

(* A link without a host of its own has the host, the port and the provider *)
(* of its page; and what the loop of NormalizeUrlPath collects of a path,   *)
(* whatever its segments are, is the path without its dot segments, perhaps *)
(* with a slash behind it, in the space that was allocated (window.c:563,   *)
(* 635).                                                                    *)
THEOREM LinksAreKept == Spec => []LinksStay
<1>1. IInv => LinksStay
  <2> SUFFICES ASSUME IInv, NEW base \in Bases, IsAddress, buf # <<>>, FindSchemeEnd(buf) = 0,
                      ~ BeginsWith(buf, <<"/", "/">>)
               PROVE  IF NeedsPath(base, buf)
                      THEN LET path == PathToNormalize(base, buf)
                               kept == Joined(Resolved(path))
                               out  == Normalized(path)
                           IN  Len(out) <= Len(path) + 1 /\ out \in {kept, Append(kept, "/")}
                      ELSE LET page == HTTPProviderInit(base)
                               to   == url_sanitize(ResolveLinkHref(base, buf))
                               link == HTTPProviderInit(to)
                           IN  /\ URIGetProvider(to) = URIGetProvider(base)
                               /\ \A p \in page, l \in link : l.host = p.host /\ l.port = p.port
                               /\ page # {} /\ link = {} => buf[1] = "#" /\ FindAuthorityEnd(base) > Len(base)
    BY DEF LinksStay
  <2>1. "NUL" \notin bytes /\ buf \in Seq(bytes) /\ bytes \subseteq Range(Bytes)
    BY AlphabetsAssumption DEF IInv, IsAddress
  <2>2. base \in Seq(Safe) /\ PageAddress(base)
    BY BaseIs
  <2>3. CASE NeedsPath(base, buf)
    <3> DEFINE S == bytes \cup Safe
               path == PathToNormalize(base, buf)
    <3>1. "NUL" \notin S /\ "/" \in S /\ base \in Seq(S) /\ buf \in Seq(S)
      BY <2>1, <2>2, SafeChars
    <3> HIDE DEF S
    <3>2. path \in Seq(S)
      BY <2>2, <3>1, NormalizedIsPath
    <3> HIDE DEF path
    <3>3. /\ Len(Normalized(path)) <= Len(path) + 1
          /\ Normalized(path) \in {Joined(Resolved(path)), Append(Joined(Resolved(path)), "/")}
      BY <3>1, <3>2, PathIsNormal
    <3> QED
      BY <2>3, <3>3 DEF path
  <2>4. CASE ~ NeedsPath(base, buf)
    <3> DEFINE to == url_sanitize(ResolveLinkHref(base, buf))
               page == HTTPProviderInit(base)
               link == HTTPProviderInit(to)
    <3>1. buf \in Seq(Range(Bytes))
      BY <2>1
    <3>2. PICK m : LinkOf(base, to, m, buf)
      BY <2>4, <3>1, LinkIs
    <3> HIDE DEF to
    <3>3. URIGetProvider(to) = URIGetProvider(base)
      BY <3>2, SameProvider
    <3>4. /\ \A p \in page, l \in link : l.host = p.host /\ l.port = p.port
          /\ page # {} /\ link = {} => buf[1] = "#" /\ FindAuthorityEnd(base) > Len(base)
      <4> DEFINE x == page
                 y == link
      <4>1. x = HTTPProviderInit(base) /\ y = HTTPProviderInit(to)
        OBVIOUS
      <4> HIDE DEF x, y, page, link
      <4>2. /\ \A p \in x, l \in y : l.host = p.host /\ l.port = p.port
            /\ x # {} /\ y = {} => buf[1] = "#" /\ FindAuthorityEnd(base) > Len(base)
        BY <3>2, <4>1, SameServer
      <4> QED
        BY <4>2 DEF x, y
    <3> QED
      BY <2>4, <3>3, <3>4 DEF to
  <2> QED
    BY <2>3, <2>4
<1> QED
  BY <1>1, TextInvariance, PTL
=============================================================================
