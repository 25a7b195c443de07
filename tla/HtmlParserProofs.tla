--------------------------- MODULE HtmlParserProofs ---------------------------
(***************************************************************************)
(* Proofs about HtmlParser: whatever the chunks a page comes in and the    *)
(* allocations that fail, no buffer overflows, the text is shown in order  *)
(* and in its style with single spaces, a link leads where its text says,  *)
(* headings close, and every address of a link has one owner, for any      *)
(* vocabulary and any sizes of the buffers.                                *)
(*                                                                         *)
(* A page is Good if it is Bounded, Rendered, Owned and Placed.  Every     *)
(* operator of the parser takes a Good page to a Good one; feeding a chunk *)
(* does by induction over its characters, as does emitting a string.       *)
(***************************************************************************)
EXTENDS HtmlParser, SequenceTheorems, FiniteSetTheorems, WellFoundedInduction, TLAPS

-----------------------------------------------------------------------------
(* Sequences of anything. *)

IsSeq(s) == \E R : s \in Seq(R)

LEMMA NoneAny == IsSeq(<<>>) /\ Len(<<>>) = 0
<1>1. <<>> \in Seq({})
  OBVIOUS
<1> QED
  BY <1>1 DEF IsSeq

LEMMA LenAny ==
  ASSUME NEW s, IsSeq(s)
  PROVE  Len(s) \in Nat /\ (Len(s) = 0 <=> s = <<>>)
<1>1. PICK R : s \in Seq(R)
  BY DEF IsSeq
<1> QED
  BY <1>1

LEMMA SubSeqAny ==
  ASSUME NEW s, IsSeq(s), NEW m \in Nat \ {0}, NEW n \in Int, n <= Len(s)
  PROVE  /\ IsSeq(SubSeq(s, m, n))
         /\ Len(SubSeq(s, m, n)) = IF m <= n THEN n - m + 1 ELSE 0
         /\ \A i \in 1..n - m + 1 : SubSeq(s, m, n)[i] = s[m + i - 1]
<1>1. PICK R : s \in Seq(R)
  BY DEF IsSeq
<1>2. \A i \in m..n : s[i] \in R
  BY <1>1
<1>3. /\ SubSeq(s, m, n) \in Seq(R)
      /\ Len(SubSeq(s, m, n)) = IF m <= n THEN n - m + 1 ELSE 0
      /\ \A i \in 1..n - m + 1 : SubSeq(s, m, n)[i] = s[m + i - 1]
  BY <1>1, <1>2
<1> QED
  BY <1>3 DEF IsSeq

LEMMA AppendAny ==
  ASSUME NEW s, IsSeq(s), NEW x
  PROVE  /\ IsSeq(Append(s, x)) /\ Len(s) \in Nat
         /\ Len(Append(s, x)) = Len(s) + 1
         /\ \A i \in 1..Len(s) : Append(s, x)[i] = s[i]
         /\ Append(s, x)[Len(s) + 1] = x
<1>1. PICK R : s \in Seq(R)
  BY DEF IsSeq
<1>2. s \in Seq(R \cup {x})
  BY <1>1
<1>3. Append(s, x) \in Seq(R \cup {x})
  BY <1>2
<1> QED
  BY <1>2, <1>3 DEF IsSeq

LEMMA ConcatAny ==
  ASSUME NEW s, IsSeq(s), NEW t, IsSeq(t)
  PROVE  /\ IsSeq(s \o t) /\ Len(s) \in Nat /\ Len(t) \in Nat
         /\ Len(s \o t) = Len(s) + Len(t)
         /\ \A i \in 1..Len(s) : (s \o t)[i] = s[i]
         /\ \A i \in Len(s) + 1..Len(s) + Len(t) : (s \o t)[i] = t[i - Len(s)]
<1>1. PICK R : s \in Seq(R)
  BY DEF IsSeq
<1>2. PICK T : t \in Seq(T)
  BY DEF IsSeq
<1>3. s \in Seq(R \cup T) /\ t \in Seq(R \cup T)
  BY <1>1, <1>2
<1>4. s \o t \in Seq(R \cup T)
  BY <1>3
<1> QED
  BY <1>3, <1>4, ConcatProperties DEF IsSeq

-----------------------------------------------------------------------------
(* The parts of a page. *)

LEMMA Sizes ==
  /\ TextSize \in Nat /\ TextSize >= 2 /\ TagSize \in Nat /\ TagSize >= 2
  /\ EntitySize \in Nat /\ EntitySize >= 2 /\ TitleSize \in Nat /\ TitleSize >= 2
  /\ StackSize \in Nat \ {0} /\ MaxInsert \in Nat \ {0} /\ FirstLinks \in Nat \ {0}
  /\ MaxShort \in Nat \ {0} /\ HrWidth \in Nat /\ FirstLinks <= MaxShort
BY SizesAssumption

PageFields ==
  {"te", "wTitle", "live", "made", "lacks", "seen", "text", "total", "depth", "list",
   "headings", "open", "raw", "inTitle", "title", "lastWasSpace", "needsNewline",
   "links", "capacity", "href", "start", "hasStart"}

Depths == {"bold", "italic", "underline", "mono", "pre"}

IsPage(p) == p = [f \in PageFields |-> p[f]]

(* The buffers and counters. *)
Bounded(p) ==
  /\ IsPage(p)
  /\ p.total \in 0..MaxInsert /\ p.made \in Nat
  /\ p.depth \in [Depths -> 0..MaxShort]
  /\ p.list \in (-MaxShort - 1)..MaxShort
  /\ IsSeq(p.text) /\ Len(p.text) \in 0..TextSize
  /\ IsSeq(p.title) /\ Len(p.title) \in 0..TitleSize - 1
  /\ p.headings \in Seq(1..6) /\ Len(p.headings) <= StackSize

(* What writing text leaves alone: links, and the style. *)
Keeps(p, q) ==
  /\ q.live = p.live /\ q.made = p.made /\ q.links = p.links
  /\ q.capacity = p.capacity /\ q.href = p.href
  /\ q.depth = p.depth /\ q.headings = p.headings /\ q.open = p.open

(* There is room for a character: a buffer can be full only when text is   *)
(* still taken, so that a flush empties it.                                *)
Room(p) == p.total < MaxInsert \/ Len(p.text) < TextSize

LEMMA InsertBounded ==
  ASSUME NEW p, Bounded(p), p.total < MaxInsert
  PROVE  LET q == Insert(p, SubSeq(p.text, 1, Smaller(Len(p.text), MaxInsert - p.total)))
         IN  Bounded(q) /\ Keeps(p, q) /\ q.text = <<>>
<1> DEFINE n == Smaller(Len(p.text), MaxInsert - p.total)
           chars == SubSeq(p.text, 1, n)
           q == Insert(p, chars)
<1>1. MaxInsert \in Nat /\ TextSize \in Nat
  BY Sizes
<1>2. n \in 0..Len(p.text) /\ n <= MaxInsert - p.total
  BY <1>1 DEF Smaller, Bounded
<1>3. Len(chars) = n
  BY <1>2, SubSeqAny DEF Bounded
<1> HIDE DEF n, chars
<1>4. /\ IsPage(q) /\ Keeps(p, q) /\ q.text = <<>>
      /\ q.total = p.total + n /\ q.depth = p.depth /\ q.list = p.list
      /\ q.title = p.title /\ q.headings = p.headings
  BY <1>3 DEF Insert, Bounded, IsPage, PageFields, Keeps
<1> HIDE DEF q
<1>5. Bounded(q)
  BY <1>1, <1>2, <1>4, NoneAny DEF Bounded, Keeps
<1> QED
  BY <1>4, <1>5 DEF q, chars, n

LEMMA FlushBounded ==
  ASSUME NEW p, Bounded(p)
  PROVE  /\ Bounded(FlushText(p)) /\ Keeps(p, FlushText(p))
         /\ FlushText(p).text = <<>> \/ (FlushText(p) = p /\ p.total >= MaxInsert)
         /\ Room(FlushText(p)) \/ FlushText(p) = p
<1> DEFINE q == Insert(p, SubSeq(p.text, 1, Smaller(Len(p.text), MaxInsert - p.total)))
           r == [q EXCEPT !.te = Append(@, [ch |-> "truncated", style |-> NewStyleScrap(q),
                                            scrap |-> "scrap" \notin p.lacks])]
<1>0. MaxInsert \in Nat /\ TextSize \in Nat /\ TextSize >= 2 /\ p.total \in 0..MaxInsert
  BY Sizes DEF Bounded
<1>1. CASE p.text = <<>> \/ p.total >= MaxInsert
  <2>1. FlushText(p) = p
    BY <1>1 DEF FlushText
  <2> QED
    BY <1>1, <2>1 DEF Keeps
<1>2. CASE ~ (p.text = <<>> \/ p.total >= MaxInsert)
  <2>1. p.total < MaxInsert
    BY <1>2, <1>0
  <2>2. Bounded(q) /\ Keeps(p, q) /\ q.text = <<>>
    BY <2>1, InsertBounded
  <2>3. FlushText(p) \in {q, r}
    BY <1>2 DEF FlushText
  <2> HIDE DEF q
  <2>4. /\ IsPage(r) /\ Keeps(q, r) /\ r.text = q.text /\ r.total = q.total
        /\ r.depth = q.depth /\ r.list = q.list /\ r.title = q.title /\ r.headings = q.headings
    BY <2>2 DEF Bounded, IsPage, PageFields, Keeps
  <2> HIDE DEF r
  <2>5. Bounded(r) /\ Keeps(p, r) /\ r.text = <<>>
    BY <2>2, <2>4 DEF Bounded, Keeps
  <2> QED
    BY <1>0, <2>2, <2>3, <2>5 DEF Room
<1> QED
  BY <1>1, <1>2

LEMMA PutBounded ==
  ASSUME NEW p, Bounded(p), NEW c, Len(p.text) < TextSize
  PROVE  /\ Bounded(Put(p, c)) /\ Keeps(p, Put(p, c)) /\ Put(p, c).total = p.total
         /\ Len(Put(p, c).text) = Len(p.text) + 1
<1> DEFINE q == Put(p, c)
<1>1. /\ IsPage(q) /\ Keeps(p, q) /\ q.total = p.total /\ q.depth = p.depth
      /\ q.list = p.list /\ q.title = p.title /\ q.headings = p.headings
      /\ q.text = Append(p.text, c)
  BY DEF Put, Bounded, IsPage, PageFields, Keeps
<1> HIDE DEF q
<1>2. IsSeq(q.text) /\ Len(q.text) = Len(p.text) + 1
  BY <1>1, AppendAny DEF Bounded
<1>0. TextSize \in Nat
  BY Sizes
<1>3. Bounded(q)
  BY <1>0, <1>1, <1>2 DEF Bounded, Keeps
<1> QED
  BY <1>1, <1>2, <1>3 DEF q

(* The line break that was due takes one byte, and leaves one for the       *)
(* character behind it, also when a flush reaches the limit of the text.    *)
LEMMA PutBreakBounded ==
  ASSUME NEW p, Bounded(p), p.total < MaxInsert
  PROVE  Bounded(PutBreak(p)) /\ Keeps(p, PutBreak(p)) /\ Room(PutBreak(p))
<1> DEFINE q == [p EXCEPT !.needsNewline = FALSE]
           f == IF Len(q.text) >= TextSize - 1 THEN FlushText(q) ELSE q
           g == Put(f, "\r")
           r == [g EXCEPT !.lastWasSpace = TRUE]
<1>0. TextSize \in Nat /\ TextSize >= 2 /\ MaxInsert \in Nat
  BY Sizes
<1>1. /\ IsPage(q) /\ Keeps(p, q) /\ q.total = p.total /\ q.depth = p.depth
      /\ q.list = p.list /\ q.title = p.title /\ q.headings = p.headings /\ q.text = p.text
  BY DEF Bounded, IsPage, PageFields, Keeps
<1>2. PutBreak(p) \in {q, r}
  BY DEF PutBreak
<1> HIDE DEF q
<1>3. Bounded(q)
  BY <1>1 DEF Bounded, Keeps
<1>4. Bounded(f) /\ Keeps(q, f) /\ Len(f.text) < TextSize - 1
  <2>1. CASE Len(q.text) >= TextSize - 1
    <3>1. /\ Bounded(FlushText(q)) /\ Keeps(q, FlushText(q))
          /\ FlushText(q).text = <<>> \/ q.total >= MaxInsert
      BY <1>3, FlushBounded
    <3>2. Len(FlushText(q).text) = 0
      BY <3>1, <1>1, <1>0 DEF Bounded
    <3> QED
      BY <2>1, <3>1, <3>2, <1>0
  <2>2. CASE ~ (Len(q.text) >= TextSize - 1)
    <3>1. f = q
      BY <2>2
    <3> HIDE DEF f
    <3>2. Len(q.text) \in Nat /\ Keeps(q, q)
      BY <1>3 DEF Keeps, Bounded
    <3> QED
      BY <2>2, <3>1, <3>2, <1>0, <1>3
  <2> QED
    BY <2>1, <2>2
<1> HIDE DEF f
<1>5. Bounded(g) /\ Keeps(f, g) /\ Len(g.text) < TextSize
  <2>1. Len(f.text) \in Nat /\ Len(f.text) < TextSize /\ Bounded(f)
    BY <1>0, <1>4 DEF Bounded
  <2>2. /\ Bounded(g) /\ Keeps(f, g) /\ Len(g.text) = Len(f.text) + 1
    BY <2>1, PutBounded
  <2> QED
    BY <2>1, <2>2, <1>0, <1>4
<1> HIDE DEF g
<1>6. /\ IsPage(r) /\ Keeps(g, r) /\ r.total = g.total /\ r.depth = g.depth
      /\ r.list = g.list /\ r.title = g.title /\ r.headings = g.headings /\ r.text = g.text
  BY <1>5 DEF Bounded, IsPage, PageFields, Keeps
<1> HIDE DEF r
<1>7. Bounded(r) /\ Room(r) /\ Keeps(p, r)
  BY <1>1, <1>4, <1>5, <1>6 DEF Bounded, Room, Keeps
<1> QED
  BY <1>1, <1>2, <1>3, <1>7 DEF Room

LEMMA PutVisibleBounded ==
  ASSUME NEW p, Bounded(p), Room(p), NEW c
  PROVE  Bounded(PutVisible(p, c)) /\ Keeps(p, PutVisible(p, c))
<1> DEFINE f == IF Len(p.text) >= TextSize THEN FlushText(p) ELSE p
           g == IF p.href # NoLink /\ ~ p.hasStart
                THEN [f EXCEPT !.start = CurrentOutputOffset(f), !.hasStart = TRUE] ELSE f
<1>0. TextSize \in Nat /\ TextSize >= 2 /\ MaxInsert \in Nat
  BY Sizes
<1>1. PutVisible(p, c) = Put(g, c)
  BY DEF PutVisible
<1>2. Bounded(f) /\ Keeps(p, f) /\ Len(f.text) < TextSize
  <2>1. CASE Len(p.text) >= TextSize
    <3>1. f = FlushText(p)
      BY <2>1
    <3>2. /\ Bounded(FlushText(p)) /\ Keeps(p, FlushText(p))
          /\ FlushText(p).text = <<>> \/ p.total >= MaxInsert
      BY FlushBounded
    <3>3. p.total < MaxInsert /\ p.total \in Nat
      BY <2>1, <1>0 DEF Room, Bounded
    <3>4. FlushText(p).text = <<>>
      BY <3>2, <3>3, <1>0
    <3> HIDE DEF f
    <3> QED
      BY <3>1, <3>2, <3>4, NoneAny, <1>0
  <2>2. CASE ~ (Len(p.text) >= TextSize)
    <3>1. f = p
      BY <2>2
    <3> HIDE DEF f
    <3> QED
      BY <2>2, <3>1, <1>0 DEF Keeps, Bounded
  <2> QED
    BY <2>1, <2>2
<1> HIDE DEF f
<1>3. /\ IsPage(g) /\ Keeps(f, g) /\ g.total = f.total /\ g.depth = f.depth
      /\ g.list = f.list /\ g.title = f.title /\ g.headings = f.headings /\ g.text = f.text
  BY <1>2 DEF Bounded, IsPage, PageFields, Keeps
<1> HIDE DEF g
<1>4. Bounded(g) /\ Len(g.text) < TextSize
  BY <1>2, <1>3 DEF Bounded, Keeps
<1>5. Bounded(Put(g, c)) /\ Keeps(g, Put(g, c))
  BY <1>4, PutBounded
<1> QED
  BY <1>1, <1>2, <1>3, <1>5 DEF Keeps

LEMMA EmitCharBounded ==
  ASSUME NEW p, Bounded(p), NEW char
  PROVE  Bounded(EmitChar(p, char)) /\ Keeps(p, EmitChar(p, char))
<1> DEFINE pre == p.depth.pre > 0
           c == IF ~ pre /\ char \in Blank THEN " " ELSE char
           q == IF pre THEN p ELSE [p EXCEPT !.lastWasSpace = c = " "]
           t == [p EXCEPT !.title = IF Len(@) < TitleSize - 1 THEN Append(@, char) ELSE @]
           b == IF p.needsNewline /\ c # " " THEN PutBreak(q) ELSE q
<1>0. TitleSize \in Nat /\ TitleSize >= 2 /\ MaxInsert \in Nat
  BY Sizes
<1>1. \/ EmitChar(p, char) = p
      \/ EmitChar(p, char) = t
      \/ p.total < MaxInsert /\ EmitChar(p, char) = PutVisible(b, c)
  <2>1. ~ (p.total >= MaxInsert) => p.total < MaxInsert
    BY <1>0 DEF Bounded
  <2> QED
    BY <2>1, Zenon DEF EmitChar
<1>2. Bounded(t) /\ Keeps(p, t)
  <2>1. /\ IsPage(t) /\ Keeps(p, t) /\ t.total = p.total /\ t.depth = p.depth
        /\ t.list = p.list /\ t.headings = p.headings /\ t.text = p.text
        /\ t.title = IF Len(p.title) < TitleSize - 1 THEN Append(p.title, char) ELSE p.title
    BY DEF Bounded, IsPage, PageFields, Keeps
  <2> HIDE DEF t
  <2>2. IsSeq(t.title) /\ Len(t.title) \in 0..TitleSize - 1
    BY <2>1, <1>0, AppendAny DEF Bounded
  <2> QED
    BY <2>1, <2>2 DEF Bounded, Keeps
<1>3. ASSUME p.total < MaxInsert
      PROVE  Bounded(PutVisible(b, c)) /\ Keeps(p, PutVisible(b, c))
  <2>1. /\ IsPage(q) /\ Keeps(p, q) /\ q.total = p.total /\ q.depth = p.depth
        /\ q.list = p.list /\ q.headings = p.headings /\ q.text = p.text /\ q.title = p.title
    BY DEF Bounded, IsPage, PageFields, Keeps
  <2> HIDE DEF q
  <2>2. Bounded(q) /\ q.total < MaxInsert
    BY <1>3, <2>1 DEF Bounded, Keeps
  <2>3. Bounded(PutBreak(q)) /\ Keeps(q, PutBreak(q)) /\ Room(PutBreak(q))
    BY <2>2, PutBreakBounded
  <2>4. Bounded(b) /\ Keeps(p, b) /\ Room(b)
    BY <2>1, <2>2, <2>3 DEF Keeps, Room
  <2> HIDE DEF b, c
  <2>5. Bounded(PutVisible(b, c)) /\ Keeps(b, PutVisible(b, c))
    BY <2>4, PutVisibleBounded
  <2> QED
    BY <2>4, <2>5 DEF Keeps
<1> HIDE DEF t, b, c, q
<1> QED
  BY <1>1, <1>2, <1>3 DEF Keeps

-----------------------------------------------------------------------------
(* What is shown, what waits in the buffer, and the style of both. *)

(* The window shows a character of the page, in its style if there was memory. *)
Shows(a, b) == a.ch = b.ch /\ (a.scrap => a.style = b.style)

(* What the window shows is what was emitted; what was emitted and is not  *)
(* shown waits in the buffer, all of it in the style that is in force.     *)
Rendered(p) ==
  /\ IsSeq(p.seen) /\ IsSeq(p.te)
  /\ p.total <= Len(p.seen)
  /\ Len(p.te) = p.total + (IF p.total >= MaxInsert THEN 1 ELSE 0)
  /\ \A i \in 1..p.total :
       Shows(p.te[i], p.seen[i])
  /\ p.total < MaxInsert =>
       /\ Len(p.text) = Len(p.seen) - p.total
       /\ \A i \in 1..Len(p.text) :
            /\ p.text[i] = p.seen[p.total + i].ch
            /\ p.seen[p.total + i].style = GetCurrentStyle(p)

LEMMA RenderedIntro ==
  ASSUME NEW q, IsSeq(q.seen), IsSeq(q.te), q.total <= Len(q.seen),
         Len(q.te) = q.total + (IF q.total >= MaxInsert THEN 1 ELSE 0),
         \A i \in 1..q.total : Shows(q.te[i], q.seen[i]),
         q.total < MaxInsert =>
           /\ Len(q.text) = Len(q.seen) - q.total
           /\ \A i \in 1..Len(q.text) :
                /\ q.text[i] = q.seen[q.total + i].ch
                /\ q.seen[q.total + i].style = GetCurrentStyle(q)
  PROVE  Rendered(q)
BY DEF Rendered

LEMMA StyleKeeps ==
  ASSUME NEW p, NEW q, q.depth = p.depth, q.headings = p.headings
  PROVE  GetCurrentStyle(q) = GetCurrentStyle(p)
BY DEF GetCurrentStyle, CurrentHeadingLevel

(* A page that differs in none of these fields. *)
SameText(p, q) ==
  /\ q.seen = p.seen /\ q.te = p.te /\ q.total = p.total /\ q.text = p.text

LEMMA RenderedKeeps ==
  ASSUME NEW p, NEW q, Rendered(p), SameText(p, q), Keeps(p, q)
  PROVE  Rendered(q)
<1>1. GetCurrentStyle(q) = GetCurrentStyle(p)
  BY StyleKeeps DEF Keeps
<1> QED
  BY <1>1 DEF Rendered, SameText

LEMMA InsertRendered ==
  ASSUME NEW p, Bounded(p), Rendered(p), p.total < MaxInsert, NEW n,
         n = Smaller(Len(p.text), MaxInsert - p.total),
         NEW q, q = Insert(p, SubSeq(p.text, 1, n))
  PROVE  /\ IsSeq(q.te) /\ Len(q.te) = q.total /\ q.seen = p.seen /\ q.text = <<>>
         /\ q.total = p.total + n /\ q.total <= Len(q.seen)
         /\ q.total < MaxInsert => q.total = Len(q.seen)
         /\ \A i \in 1..q.total :
              Shows(q.te[i], q.seen[i])
<1> DEFINE chars == SubSeq(p.text, 1, n)
           new == [i \in 1..Len(chars) |-> [ch |-> chars[i], style |-> NewStyleScrap(p),
                                            scrap |-> "scrap" \notin p.lacks]]
<1>0. /\ MaxInsert \in Nat /\ p.total \in Nat /\ Len(p.text) \in Nat /\ IsSeq(p.text)
      /\ Len(p.seen) \in Nat
  <2>1. MaxInsert \in Nat /\ p.total \in Nat /\ IsSeq(p.text)
    BY Sizes DEF Bounded
  <2>2. IsSeq(p.seen)
    BY DEF Rendered
  <2> QED
    BY <2>1, <2>2, LenAny
<1>1. n \in 0..Len(p.text) /\ n <= MaxInsert - p.total
      /\ (n < MaxInsert - p.total => n = Len(p.text))
  BY <1>0 DEF Smaller
<1>2. Len(chars) = n /\ \A i \in 1..n : chars[i] = p.text[i]
  BY <1>0, <1>1, SubSeqAny
<1> HIDE DEF chars
<1>3. /\ q.te = p.te \o new /\ q.total = p.total + n /\ q.seen = p.seen /\ q.text = <<>>
  BY <1>2 DEF Insert, Bounded, IsPage, PageFields, chars
<1>4. IsSeq(new) /\ Len(new) = n
  <2>1. new \in Seq({new[i] : i \in 1..n})
    BY <1>1, <1>2
  <2>2. Len(new) = n
    BY <1>1, <1>2
  <2> QED
    BY <2>1, <2>2 DEF IsSeq
<1>5. \A i \in 1..n :
         Shows(new[i], p.seen[p.total + i])
  <2> SUFFICES ASSUME NEW i \in 1..n
               PROVE  Shows(new[i], p.seen[p.total + i])
    OBVIOUS
  <2>1. /\ new[i].ch = p.text[i] /\ new[i].style = NewStyleScrap(p)
        /\ new[i].scrap = ("scrap" \notin p.lacks)
    BY <1>2
  <2>2. i \in 1..Len(p.text)
    BY <1>0, <1>1
  <2>3. /\ p.text[i] = p.seen[p.total + i].ch
        /\ p.seen[p.total + i].style = GetCurrentStyle(p)
    BY <2>2 DEF Rendered
  <2>4. "scrap" \notin p.lacks => NewStyleScrap(p) = GetCurrentStyle(p)
    BY DEF NewStyleScrap
  <2> QED
    BY <2>1, <2>3, <2>4 DEF Shows
<1>6. Len(p.te) = p.total /\ IsSeq(p.te)
  BY <1>0 DEF Rendered
<1> HIDE DEF new
<1>7. /\ IsSeq(q.te) /\ Len(q.te) = p.total + n
      /\ \A i \in 1..p.total : q.te[i] = p.te[i]
      /\ \A i \in p.total + 1..p.total + n : q.te[i] = new[i - p.total]
  <2>1. /\ IsSeq(p.te \o new) /\ Len(p.te \o new) = Len(p.te) + Len(new)
        /\ \A i \in 1..Len(p.te) : (p.te \o new)[i] = p.te[i]
        /\ \A i \in Len(p.te) + 1..Len(p.te) + Len(new) : (p.te \o new)[i] = new[i - Len(p.te)]
    <3>1. IsSeq(p.te) /\ IsSeq(new)
      BY <1>4, <1>6
    <3>2. IsSeq(p.te \o new)
      BY <3>1, ConcatAny
    <3>3. Len(p.te \o new) = Len(p.te) + Len(new)
      BY <3>1, ConcatAny
    <3>4. \A i \in 1..Len(p.te) : (p.te \o new)[i] = p.te[i]
      BY <3>1, ConcatAny
    <3>5. \A i \in Len(p.te) + 1..Len(p.te) + Len(new) : (p.te \o new)[i] = new[i - Len(p.te)]
      BY <3>1, ConcatAny
    <3> QED
      BY <3>2, <3>3, <3>4, <3>5
  <2> QED
    BY <2>1, <1>3, <1>4, <1>6
<1>8. ASSUME NEW i \in 1..p.total + n
      PROVE  Shows(q.te[i], q.seen[i])
  <2>1. CASE i <= p.total
    <3>1. i \in 1..p.total
      BY <2>1, <1>0, <1>1
    <3> QED
      BY <3>1, <1>3, <1>7 DEF Rendered
  <2>2. CASE ~ (i <= p.total)
    <3>1. i - p.total \in 1..n /\ p.total + (i - p.total) = i
      BY <2>2, <1>0, <1>1
    <3>2. q.te[i] = new[i - p.total]
      <4>1. i \in p.total + 1..p.total + n
        BY <2>2, <1>0, <1>1
      <4> QED
        BY <4>1, <1>7
    <3> QED
      BY <3>1, <3>2, <1>3, <1>5
  <2> QED
    BY <2>1, <2>2
<1>9. Len(p.text) = Len(p.seen) - p.total
  BY DEF Rendered
<1>10. q.total <= Len(q.seen) /\ (q.total < MaxInsert => q.total = Len(q.seen))
  BY <1>0, <1>1, <1>3, <1>9
<1>11. Len(q.te) = q.total
  BY <1>3, <1>7
<1>12. \A i \in 1..q.total : Shows(q.te[i], q.seen[i])
  BY <1>3, <1>8
<1>13. IsSeq(q.te)
  BY <1>7
<1>14. q.total = p.total + n /\ q.seen = p.seen /\ q.text = <<>>
  BY <1>3
<1>15. q.total <= Len(q.seen) /\ (q.total < MaxInsert => q.total = Len(q.seen))
  BY <1>10
<1> QED
  BY <1>11, <1>12, <1>13, <1>14, <1>15

LEMMA FlushRendered ==
  ASSUME NEW p, Bounded(p), Rendered(p)
  PROVE  Rendered(FlushText(p))
<1> DEFINE n == Smaller(Len(p.text), MaxInsert - p.total)
           q == Insert(p, SubSeq(p.text, 1, n))
           r == [q EXCEPT !.te = Append(@, [ch |-> "truncated", style |-> NewStyleScrap(q),
                                            scrap |-> "scrap" \notin p.lacks])]
<1>0. MaxInsert \in Nat /\ p.total \in Nat
  BY Sizes DEF Bounded
<1>1. CASE p.text = <<>> \/ p.total >= MaxInsert
  BY <1>1 DEF FlushText
<1>2. CASE ~ (p.text = <<>> \/ p.total >= MaxInsert)
  <2>1. p.total < MaxInsert
    BY <1>2, <1>0
  <2>2. /\ IsSeq(q.te) /\ Len(q.te) = q.total /\ q.seen = p.seen /\ q.text = <<>>
        /\ q.total = p.total + n /\ q.total <= Len(q.seen)
        /\ q.total < MaxInsert => q.total = Len(q.seen)
        /\ \A i \in 1..q.total :
             Shows(q.te[i], q.seen[i])
    BY <2>1, InsertRendered
  <2>3. FlushText(p) = IF q.total < MaxInsert THEN q ELSE r
    BY <1>2 DEF FlushText
  <2>4. Bounded(q) /\ IsSeq(p.seen)
    BY <2>1, InsertBounded DEF Rendered
  <2> HIDE DEF q
  <2>5. q.total \in 0..MaxInsert
    BY <2>4 DEF Bounded
  <2>6. CASE q.total < MaxInsert
    <3>1. Rendered(q)
      BY <2>2, <2>4, <2>5, <2>6, <1>0, NoneAny DEF Rendered
    <3> QED
      BY <2>3, <2>6, <3>1
  <2>7. CASE ~ (q.total < MaxInsert)
    <3>1. /\ r.seen = q.seen /\ r.total = q.total /\ r.text = q.text
          /\ IsSeq(r.te) /\ Len(r.te) = Len(q.te) + 1
          /\ \A i \in 1..Len(q.te) : r.te[i] = q.te[i]
      <4>1. r.te = Append(q.te, [ch |-> "truncated", style |-> NewStyleScrap(q),
                                 scrap |-> "scrap" \notin p.lacks])
            /\ r.seen = q.seen /\ r.total = q.total /\ r.text = q.text
        BY <2>4 DEF Bounded, IsPage, PageFields
      <4> HIDE DEF r
      <4> QED
        BY <4>1, <2>2, AppendAny
    <3> HIDE DEF r
    <3>2. Rendered(r)
      <4>1. q.total = MaxInsert
        BY <2>5, <2>7, <1>0
      <4>2. IsSeq(r.seen) /\ IsSeq(r.te) /\ r.total <= Len(r.seen)
        BY <2>2, <2>4, <3>1
      <4>3. Len(r.te) = r.total + (IF r.total >= MaxInsert THEN 1 ELSE 0)
        BY <2>2, <3>1, <4>1, <1>0
      <4>4. \A i \in 1..r.total : Shows(r.te[i], r.seen[i])
        BY <2>2, <3>1
      <4>5. ~ (r.total < MaxInsert)
        BY <3>1, <4>1, <1>0
      <4> QED
        BY <4>2, <4>3, <4>4, <4>5, RenderedIntro
    <3> QED
      BY <2>3, <2>7, <3>2
  <2> QED
    BY <2>6, <2>7
<1> QED
  BY <1>1, <1>2

LEMMA PutRendered ==
  ASSUME NEW p, Bounded(p), Rendered(p), NEW c
  PROVE  Rendered(Put(p, c))
<1> DEFINE q == Put(p, c)
           x == [ch |-> c, style |-> GetCurrentStyle(p), href |-> p.href, pre |-> p.depth.pre > 0]
<1>1. /\ q.total = p.total /\ q.te = p.te /\ q.depth = p.depth /\ q.headings = p.headings
      /\ q.text = Append(p.text, c) /\ q.seen = Append(p.seen, x)
  BY DEF Put, Bounded, IsPage, PageFields
<1> HIDE DEF q
<1>2. x.ch = c /\ x.style = GetCurrentStyle(p)
  OBVIOUS
<1> HIDE DEF x
<1>3. /\ IsSeq(q.seen) /\ Len(q.seen) = Len(p.seen) + 1 /\ Len(p.seen) \in Nat
      /\ \A i \in 1..Len(p.seen) : q.seen[i] = p.seen[i]
      /\ q.seen[Len(p.seen) + 1] = x
  BY <1>1, AppendAny DEF Rendered
<1>4. /\ Len(q.text) = Len(p.text) + 1 /\ Len(p.text) \in Nat
      /\ \A i \in 1..Len(p.text) : q.text[i] = p.text[i]
      /\ q.text[Len(p.text) + 1] = c
  BY <1>1, AppendAny DEF Bounded
<1>5. GetCurrentStyle(q) = GetCurrentStyle(p)
  BY <1>1, StyleKeeps
<1>6. p.total \in Nat /\ p.total <= Len(p.seen)
  BY DEF Bounded, Rendered
<1>7. ASSUME NEW i \in 1..p.total
      PROVE  Shows(q.te[i], q.seen[i])
  <2>1. i \in 1..Len(p.seen)
    BY <1>3, <1>6
  <2> QED
    BY <2>1, <1>1, <1>3 DEF Rendered
<1>8. ASSUME p.total < MaxInsert
      PROVE  /\ Len(q.text) = Len(q.seen) - q.total
             /\ \A i \in 1..Len(q.text) :
                  /\ q.text[i] = q.seen[q.total + i].ch
                  /\ q.seen[q.total + i].style = GetCurrentStyle(q)
  <2>1. Len(p.text) = Len(p.seen) - p.total
    BY <1>8 DEF Rendered
  <2>2. ASSUME NEW i \in 1..Len(p.text)
        PROVE  /\ q.text[i] = q.seen[q.total + i].ch
               /\ q.seen[q.total + i].style = GetCurrentStyle(q)
    <3>1. p.total + i \in 1..Len(p.seen)
      BY <2>1, <1>3, <1>4, <1>6, SMTT(30)
    <3> QED
      BY <3>1, <1>1, <1>3, <1>4, <1>5, <1>8 DEF Rendered
  <2>3. p.total + (Len(p.text) + 1) = Len(p.seen) + 1
    BY <2>1, <1>3, <1>4, <1>6
  <2>4. ASSUME NEW i \in 1..Len(q.text)
        PROVE  /\ q.text[i] = q.seen[q.total + i].ch
               /\ q.seen[q.total + i].style = GetCurrentStyle(q)
    <3>1. CASE i = Len(p.text) + 1
      BY <3>1, <2>3, <1>1, <1>2, <1>3, <1>4, <1>5
    <3>2. CASE i # Len(p.text) + 1
      <4>1. i \in 1..Len(p.text)
        BY <3>2, <1>4
      <4> QED
        BY <4>1, <2>2
    <3> QED
      BY <3>1, <3>2
  <2>5. Len(q.text) = Len(q.seen) - q.total
    BY <2>3, <1>1, <1>3, <1>4, <1>6
  <2> QED
    BY <2>4, <2>5
<1>9. Rendered(q)
  <2>1. IsSeq(q.seen) /\ IsSeq(q.te) /\ q.total <= Len(q.seen)
    BY <1>1, <1>3, <1>6 DEF Rendered
  <2>2. Len(q.te) = q.total + (IF q.total >= MaxInsert THEN 1 ELSE 0)
    BY <1>1 DEF Rendered
  <2>3. \A i \in 1..q.total : Shows(q.te[i], q.seen[i])
    BY <1>1, <1>7
  <2> QED
    BY <2>1, <2>2, <2>3, <1>1, <1>8, RenderedIntro
<1> QED
  BY <1>9 DEF q

LEMMA PutBreakRendered ==
  ASSUME NEW p, Bounded(p), p.total < MaxInsert, Rendered(p)
  PROVE  Rendered(PutBreak(p))
<1> DEFINE q == [p EXCEPT !.needsNewline = FALSE]
           f == IF Len(q.text) >= TextSize - 1 THEN FlushText(q) ELSE q
           g == Put(f, "\r")
           r == [g EXCEPT !.lastWasSpace = TRUE]
<1>0. TextSize \in Nat /\ TextSize >= 2 /\ MaxInsert \in Nat
  BY Sizes
<1>1. /\ IsPage(q) /\ Keeps(p, q) /\ SameText(p, q) /\ q.list = p.list /\ q.title = p.title
  BY DEF Bounded, IsPage, PageFields, Keeps, SameText
<1>2. PutBreak(p) \in {q, r}
  BY DEF PutBreak
<1> HIDE DEF q
<1>3. Bounded(q) /\ Rendered(q)
  <2>1. Bounded(q)
    BY <1>1 DEF Bounded, Keeps, SameText
  <2> QED
    BY <2>1, <1>1, RenderedKeeps
<1>4. Bounded(f) /\ Rendered(f) /\ Len(f.text) < TextSize
  <2>1. CASE Len(q.text) >= TextSize - 1
    <3>1. Bounded(FlushText(q)) /\ (FlushText(q).text = <<>> \/ q.total >= MaxInsert)
      BY <1>3, FlushBounded
    <3>2. Len(FlushText(q).text) = 0
      BY <3>1, <1>1, <1>0, NoneAny DEF Bounded, SameText
    <3>3. Bounded(FlushText(q)) /\ Rendered(FlushText(q))
      BY <1>3, FlushBounded, FlushRendered
    <3> QED
      BY <2>1, <3>2, <3>3, <1>0
  <2>2. CASE ~ (Len(q.text) >= TextSize - 1)
    <3>1. f = q
      BY <2>2
    <3> HIDE DEF f
    <3>2. Len(q.text) \in Nat
      BY <1>3 DEF Bounded
    <3> QED
      BY <2>2, <3>1, <3>2, <1>0, <1>3
  <2> QED
    BY <2>1, <2>2
<1> HIDE DEF f
<1>5. Bounded(g) /\ Rendered(g)
  <2>1. Bounded(g)
    BY <1>4, PutBounded
  <2> QED
    BY <2>1, <1>4, PutRendered
<1> HIDE DEF g
<1>6. Keeps(g, r) /\ SameText(g, r)
  BY <1>5 DEF Bounded, IsPage, PageFields, Keeps, SameText
<1> HIDE DEF r
<1>7. Rendered(r)
  BY <1>5, <1>6, RenderedKeeps
<1> QED
  BY <1>2, <1>3, <1>7

LEMMA PutVisibleRendered ==
  ASSUME NEW p, Bounded(p), Room(p), Rendered(p), NEW c
  PROVE  Rendered(PutVisible(p, c))
<1> DEFINE f == IF Len(p.text) >= TextSize THEN FlushText(p) ELSE p
           g == IF p.href # NoLink /\ ~ p.hasStart
                THEN [f EXCEPT !.start = CurrentOutputOffset(f), !.hasStart = TRUE] ELSE f
<1>1. PutVisible(p, c) = Put(g, c)
  BY DEF PutVisible
<1>2. Bounded(f) /\ Rendered(f)
  BY FlushBounded, FlushRendered
<1> HIDE DEF f
<1>3. /\ IsPage(g) /\ Keeps(f, g) /\ SameText(f, g) /\ g.list = f.list /\ g.title = f.title
  BY <1>2 DEF Bounded, IsPage, PageFields, Keeps, SameText
<1> HIDE DEF g
<1>4. Bounded(g) /\ Rendered(g)
  <2>1. Bounded(g)
    BY <1>2, <1>3 DEF Bounded, Keeps, SameText
  <2> QED
    BY <2>1, <1>2, <1>3, RenderedKeeps
<1> QED
  BY <1>1, <1>4, PutRendered

-----------------------------------------------------------------------------
(* Links and who owns their addresses. *)

Hrefs(p) == {p.links[i].href : i \in 1..Len(p.links)}

(* The allocated addresses are those of the ranges and the active one,     *)
(* each one's own.                                                         *)
Owned(p) ==
  /\ IsSeq(p.links) /\ Len(p.links) <= p.capacity /\ p.capacity \in 0..MaxShort
  /\ p.live = (Hrefs(p) \cup {p.href}) \ {NoLink}
  /\ \A i, j \in 1..Len(p.links) : p.links[i].href = p.links[j].href => i = j
  /\ p.href \notin Hrefs(p)
  /\ \A i \in 1..Len(p.links) : p.links[i].href.id \in 1..p.made
  /\ p.href = NoLink \/ p.href.id \in 1..p.made

SameLinks(p, q) ==
  /\ q.live = p.live /\ q.made = p.made /\ q.links = p.links
  /\ q.capacity = p.capacity /\ q.href = p.href

LEMMA OwnedKeeps ==
  ASSUME NEW p, NEW q, Owned(p), SameLinks(p, q)
  PROVE  Owned(q)
BY DEF Owned, SameLinks, Hrefs

-----------------------------------------------------------------------------
(* Links and the text they are over, white space, and headings. *)

(* The characters that are in the window or will be: what is emitted after *)
(* MAX_INSERT is reached is not shown.                                     *)
Shown(p) == IF p.total < MaxInsert THEN Len(p.seen) ELSE MaxInsert

(* How far the ranges reach: a range ends where the text was flushed.      *)
Reach(p) == IF p.total < MaxInsert THEN p.total ELSE CurrentOutputOffset(p)

Within(i, link) == link.start < i /\ i <= link.end

(* Ranges hold text and follow on each other.                              *)
Ranges(p) ==
  \A k \in 1..Len(p.links) :
    /\ p.links[k].start \in Nat /\ p.links[k].end \in Nat
    /\ p.links[k].start < p.links[k].end /\ p.links[k].end <= Reach(p)
    /\ \A j \in 1..k - 1 : p.links[j].end <= p.links[k].start

(* The active link starts behind them.                                     *)
Started(p) ==
  p.hasStart =>
    /\ p.href # NoLink /\ p.start \in Nat
    /\ \A k \in 1..Len(p.links) : p.links[k].end <= p.start
    /\ p.total < MaxInsert => p.start <= Len(p.seen)

(* A character is in the range of the anchor it was parsed in, or behind   *)
(* the start of the active link.  A line break may come before that start. *)
Covers(p, i) ==
  LET char == p.seen[i] IN
  /\ char.href = NoLink \/ char.href.id \in 1..p.made
  /\ \A k \in 1..Len(p.links) :
       /\ Within(i, p.links[k]) => char.href = p.links[k].href
       /\ char.href = p.links[k].href /\ char.ch # "\r" => Within(i, p.links[k])
  /\ p.hasStart /\ p.start < i => char.href = p.href
  /\ p.href # NoLink /\ char.href = p.href /\ char.ch # "\r" => p.hasStart /\ p.start < i

Anchored(p) == Ranges(p) /\ Started(p) /\ \A i \in 1..Shown(p) : Covers(p, i)

(* White space of the page, but for <pre>.                                 *)
IsSpace(char) == ~ char.pre /\ char.ch \in {" ", "\r"}

IsBlank(char) == char.ch = " " /\ ~ char.pre
Behind(s) == Len(s) > 0 /\ ~ IsSpace(s[Len(s)])
Single(s) == \A i \in 1..Len(s) : IsBlank(s[i]) => i > 1 /\ ~ IsSpace(s[i - 1])

Spaced(p) == (p.lastWasSpace \/ Behind(p.seen)) /\ Single(p.seen)

(* The headings on the stack are open.                                     *)
Places(h, l) == {i \in 1..Len(h) : h[i] = l}
Count(h, l) == Cardinality(Places(h, l))

Nested(p) == p.open \in [1..6 -> Nat] /\ \A l \in 1..6 : Count(p.headings, l) <= p.open[l]

Placed(p) == Anchored(p) /\ Spaced(p) /\ Nested(p)

(* The fields that these speak of and the text and the links do not.       *)
SameMarks(p, q) == q.start = p.start /\ q.hasStart = p.hasStart
Tracks(p, q) == SameMarks(p, q) /\ q.lastWasSpace \in {p.lastWasSpace, TRUE}

LEMMA NestedKeeps ==
  ASSUME NEW p, NEW q, Nested(p), q.open = p.open, q.headings = p.headings
  PROVE  Nested(q)
BY DEF Nested

(* What was emitted before leaves what Spaced says to what is emitted now. *)
LEMMA SpacedKeeps ==
  ASSUME NEW p, NEW q, Spaced(p), q.seen = p.seen, q.lastWasSpace \in {p.lastWasSpace, TRUE}
  PROVE  Spaced(q)
BY DEF Spaced

LEMMA OffsetIsNat ==
  ASSUME NEW p, Bounded(p), Rendered(p)
  PROVE  /\ Len(p.seen) \in Nat /\ Len(p.text) \in Nat /\ p.total \in 0..MaxInsert
         /\ MaxInsert \in Nat /\ CurrentOutputOffset(p) = p.total + Len(p.text)
         /\ p.total <= Len(p.seen) /\ Shown(p) \in 0..Len(p.seen)
         /\ p.total <= Reach(p) /\ Reach(p) \in Nat /\ Reach(p) <= CurrentOutputOffset(p)
         /\ p.total < MaxInsert => CurrentOutputOffset(p) = Len(p.seen)
<1>1. /\ Len(p.seen) \in Nat /\ Len(p.text) \in Nat /\ p.total \in 0..MaxInsert
      /\ MaxInsert \in Nat /\ p.total <= Len(p.seen)
  BY Sizes, LenAny DEF Bounded, Rendered
<1>2. CurrentOutputOffset(p) = p.total + Len(p.text)
  BY DEF CurrentOutputOffset
<1>3. p.total < MaxInsert => Len(p.text) = Len(p.seen) - p.total
  BY DEF Rendered
<1> QED
  BY <1>1, <1>2, <1>3 DEF Shown, Reach

(* Text that was emitted comes into the window, or is cut off.             *)
LEMMA AnchoredLater ==
  ASSUME NEW p, NEW q, Bounded(p), Rendered(p), Bounded(q), Rendered(q), Anchored(p),
         q.seen = p.seen, SameLinks(p, q), SameMarks(p, q), p.total <= q.total,
         p.total >= MaxInsert => CurrentOutputOffset(q) = CurrentOutputOffset(p)
  PROVE  Anchored(q)
<1>1. Shown(q) <= Shown(p) /\ Reach(p) <= Reach(q) /\ (q.total < MaxInsert => p.total < MaxInsert)
  <2>1. /\ Len(p.seen) \in Nat /\ p.total \in 0..MaxInsert /\ MaxInsert \in Nat
        /\ p.total <= Len(p.seen) /\ CurrentOutputOffset(p) \in Nat
    BY OffsetIsNat
  <2>2. /\ q.total \in 0..MaxInsert /\ q.total <= CurrentOutputOffset(q)
        /\ q.total <= Len(p.seen) /\ CurrentOutputOffset(q) \in Nat
    BY OffsetIsNat
  <2> DEFINE n == p.total  m == q.total  a == CurrentOutputOffset(p)
             b == CurrentOutputOffset(q)  l == Len(p.seen)
  <2>3. /\ Shown(p) = (IF n < MaxInsert THEN l ELSE MaxInsert)
        /\ Shown(q) = (IF m < MaxInsert THEN l ELSE MaxInsert)
        /\ Reach(p) = (IF n < MaxInsert THEN n ELSE a)
        /\ Reach(q) = (IF m < MaxInsert THEN m ELSE b)
    BY DEF Shown, Reach
  <2>4. /\ n \in 0..MaxInsert /\ m \in 0..MaxInsert /\ MaxInsert \in Nat /\ n <= m /\ m <= b
        /\ n <= l /\ m <= l /\ l \in Nat /\ a \in Nat /\ b \in Nat /\ (n >= MaxInsert => b = a)
    BY <2>1, <2>2
  <2> HIDE DEF n, m, a, b, l
  <2>5. Shown(q) <= Shown(p) /\ Reach(p) <= Reach(q) /\ (m < MaxInsert => n < MaxInsert)
    BY <2>3, <2>4
  <2> QED
    BY <2>5 DEF n, m
<1>2. /\ Shown(p) \in Nat /\ Shown(q) \in Nat /\ Reach(p) \in Nat /\ Reach(q) \in Nat
  BY OffsetIsNat
<1>3. Ranges(q)
  BY <1>1, <1>2 DEF Anchored, Ranges, SameLinks
<1>4. Started(q)
  BY <1>1 DEF Anchored, Started, SameLinks, SameMarks
<1>5. ASSUME NEW i \in 1..Shown(q) PROVE Covers(q, i)
  <2>1. Covers(p, i)
    BY <1>1, <1>2 DEF Anchored
  <2> QED
    BY <2>1 DEF Covers, SameLinks, SameMarks
<1> QED
  BY <1>3, <1>4, <1>5 DEF Anchored

LEMMA FlushAnchored ==
  ASSUME NEW p, Bounded(p), Rendered(p), Anchored(p)
  PROVE  /\ Anchored(FlushText(p)) /\ SameMarks(p, FlushText(p))
         /\ FlushText(p).seen = p.seen /\ FlushText(p).lastWasSpace = p.lastWasSpace
<1> DEFINE n == Smaller(Len(p.text), MaxInsert - p.total)
           q == Insert(p, SubSeq(p.text, 1, n))
           r == [q EXCEPT !.te = Append(@, [ch |-> "truncated", style |-> NewStyleScrap(q),
                                            scrap |-> "scrap" \notin p.lacks])]
           f == FlushText(p)
<1>1. CASE p.text = <<>> \/ p.total >= MaxInsert
  BY <1>1 DEF FlushText, SameMarks
<1>2. CASE ~ (p.text = <<>> \/ p.total >= MaxInsert)
  <2>1. p.total < MaxInsert /\ p.total \in Nat /\ MaxInsert \in Nat /\ Len(p.text) \in Nat
    BY <1>2, Sizes, OffsetIsNat
  <2>2. /\ q.seen = p.seen /\ q.total = p.total + n
    BY <2>1, InsertRendered
  <2>3. Bounded(q) /\ Keeps(p, q)
    BY <2>1, InsertBounded
  <2>4. SameMarks(p, q) /\ q.lastWasSpace = p.lastWasSpace
    BY DEF Insert, SameMarks, Bounded, IsPage, PageFields
  <2>5. f \in {q, r}
    BY <1>2 DEF FlushText
  <2> HIDE DEF q
  <2>6. /\ r.seen = q.seen /\ r.total = q.total /\ SameMarks(q, r)
        /\ r.lastWasSpace = q.lastWasSpace
    BY <2>3 DEF Bounded, IsPage, PageFields, SameMarks
  <2> HIDE DEF r, f
  <2>7. /\ f.seen = p.seen /\ f.total = p.total + n /\ SameMarks(p, f)
        /\ f.lastWasSpace = p.lastWasSpace
    BY <2>2, <2>4, <2>5, <2>6 DEF SameMarks
  <2>8. Bounded(f) /\ Keeps(p, f) /\ Rendered(f)
    BY FlushBounded, FlushRendered DEF f
  <2>9. p.total <= f.total
    BY <2>1, <2>7 DEF Smaller
  <2>10. Anchored(f)
    BY <2>1, <2>7, <2>8, <2>9, AnchoredLater DEF Keeps, SameLinks
  <2> QED
    BY <2>7, <2>10 DEF f
<1> QED
  BY <1>1, <1>2

LEMMA PlainPlaced ==
  ASSUME NEW p, NEW q, Bounded(p), Rendered(p), Bounded(q), Rendered(q), Placed(p),
         SameText(p, q), SameLinks(p, q), Tracks(p, q), Nested(q)
  PROVE  Placed(q)
<1>1. /\ q.seen = p.seen /\ p.total <= q.total
      /\ CurrentOutputOffset(q) = CurrentOutputOffset(p)
  BY Sizes DEF SameText, CurrentOutputOffset, Bounded
<1>2. Anchored(q)
  BY <1>1, AnchoredLater DEF Placed, Tracks
<1>3. Spaced(q)
  BY <1>1, SpacedKeeps DEF Placed, Tracks
<1> QED
  BY <1>2, <1>3 DEF Placed

(* Behind a link's start or a line break, a character is in its anchor.    *)
LEMMA PutAnchored ==
  ASSUME NEW p, Bounded(p), Rendered(p), Owned(p), Anchored(p), NEW c,
         Len(p.text) < TextSize, c = "\r" \/ p.href = NoLink \/ p.hasStart
  PROVE  Anchored(Put(p, c))
<1> DEFINE q == Put(p, c)
           x == [ch |-> c, style |-> GetCurrentStyle(p), href |-> p.href, pre |-> p.depth.pre > 0]
           n == Len(p.seen)
<1>1. /\ q.total = p.total /\ q.seen = Append(p.seen, x) /\ SameMarks(p, q) /\ SameLinks(p, q)
  BY DEF Put, Bounded, IsPage, PageFields, SameMarks, SameLinks
<1>2. Bounded(q) /\ Rendered(q) /\ Len(q.text) = Len(p.text) + 1
  BY PutBounded, PutRendered
<1> HIDE DEF q
<1>3. x.ch = c /\ x.href = p.href
  OBVIOUS
<1> HIDE DEF x
<1>4. /\ n \in Nat /\ Len(q.seen) = n + 1 /\ q.seen[n + 1] = x
      /\ \A i \in 1..n : q.seen[i] = p.seen[i]
  BY <1>1, AppendAny DEF Rendered
<1>5. /\ p.total \in 0..MaxInsert /\ MaxInsert \in Nat /\ Len(p.text) \in Nat
      /\ p.total <= n /\ Shown(p) \in 0..n /\ Reach(p) \in Nat
      /\ CurrentOutputOffset(p) = p.total + Len(p.text)
      /\ CurrentOutputOffset(q) = p.total + Len(p.text) + 1
  <2>1. /\ p.total \in 0..MaxInsert /\ MaxInsert \in Nat /\ Len(p.text) \in Nat
        /\ p.total <= n /\ Shown(p) \in 0..n /\ Reach(p) \in Nat
        /\ CurrentOutputOffset(p) = p.total + Len(p.text)
    BY OffsetIsNat
  <2>2. CurrentOutputOffset(q) = p.total + (Len(p.text) + 1)
    BY <1>1, <1>2 DEF CurrentOutputOffset
  <2> QED
    BY <2>1, <2>2
<1> HIDE DEF n
<1>6. /\ Shown(q) = (IF p.total < MaxInsert THEN n + 1 ELSE MaxInsert)
      /\ Shown(p) = (IF p.total < MaxInsert THEN n ELSE MaxInsert)
      /\ Reach(q) \in Nat /\ Reach(p) <= Reach(q)
  BY <1>1, <1>4, <1>5 DEF Shown, Reach, n
<1>7. Ranges(q)
  <2>1. /\ Ranges(p) /\ q.links = p.links
    BY <1>1 DEF Anchored, SameLinks
  <2>2. ASSUME NEW k \in 1..Len(p.links)
        PROVE  p.links[k].end \in Nat /\ p.links[k].end <= Reach(q)
    BY <1>5, <1>6, <2>1 DEF Ranges
  <2> QED
    BY <2>1, <2>2 DEF Ranges
<1>8. Started(q)
  <2>1. Started(p) /\ q.links = p.links /\ q.href = p.href /\ q.start = p.start
        /\ q.hasStart = p.hasStart
    BY <1>1 DEF Anchored, SameLinks, SameMarks
  <2>2. ASSUME p.hasStart, p.total < MaxInsert PROVE p.start <= n + 1
    BY <1>4, <2>1, <2>2 DEF Started, n
  <2> QED
    BY <1>1, <1>4, <2>1, <2>2 DEF Started
<1>9. ASSUME NEW i \in 1..Shown(q) PROVE Covers(q, i)
  <2>1. CASE i \in 1..Shown(p)
    <3>1. Covers(p, i) /\ q.seen[i] = p.seen[i]
      BY <1>4, <1>5, <2>1 DEF Anchored
    <3> QED
      BY <1>1, <3>1 DEF Covers, SameLinks, SameMarks
  <2>2. CASE i \notin 1..Shown(p)
    <3>1. i = n + 1 /\ p.total < MaxInsert
      BY <1>4, <1>5, <1>6, <2>2
    <3>2. q.seen[i].ch = c /\ q.seen[i].href = p.href
      BY <1>3, <1>4, <3>1
    <3>3. p.href = NoLink \/ p.href.id \in 1..p.made
      BY DEF Owned
    <3>4. ASSUME NEW k \in 1..Len(p.links)
          PROVE  ~ Within(i, p.links[k]) /\ p.href # p.links[k].href
      <4>1. p.links[k].end \in Nat /\ p.links[k].end <= p.total
        BY <3>1 DEF Anchored, Ranges, Reach
      <4>2. ~ Within(i, p.links[k])
        BY <4>1, <3>1, <1>4, <1>5 DEF Within
      <4> QED
        BY <4>2 DEF Owned, Hrefs
    <3>5. ASSUME p.hasStart PROVE p.start < i
      <4>1. p.start \in Nat /\ p.start <= n
        BY <3>1, <3>5 DEF Anchored, Started, n
      <4> QED
        BY <4>1, <3>1, <1>4
    <3> QED
      BY <1>1, <3>2, <3>3, <3>4, <3>5 DEF Covers, SameLinks, SameMarks
  <2> QED
    BY <2>1, <2>2
<1> QED
  BY <1>7, <1>8, <1>9 DEF Anchored, q

(* One more character, and what it needs for the spaces to be single.      *)
LEMMA AppendSingle ==
  ASSUME NEW s, IsSeq(s), Single(s), NEW x, IsBlank(x) => Behind(s)
  PROVE  Single(Append(s, x)) /\ (~ IsSpace(x) => Behind(Append(s, x)))
<1> DEFINE n == Len(s)
           t == Append(s, x)
<1>1. /\ n \in Nat /\ Len(t) = n + 1 /\ t[n + 1] = x
      /\ \A i \in 1..n : t[i] = s[i]
  BY AppendAny
<1>2. /\ \A i \in 1..n : IsBlank(s[i]) => i > 1 /\ ~ IsSpace(s[i - 1])
      /\ IsBlank(x) => n > 0 /\ ~ IsSpace(s[n])
  BY DEF Single, Behind
<1> HIDE DEF n, t
<1>3. ASSUME NEW i \in 1..Len(t), IsBlank(t[i])
      PROVE  i > 1 /\ ~ IsSpace(t[i - 1])
  <2>1. CASE i \in 1..n
    <3>1. i > 1 /\ ~ IsSpace(s[i - 1])
      BY <1>1, <1>2, <1>3, <2>1
    <3>2. i - 1 \in 1..n
      BY <3>1, <2>1, <1>1
    <3> QED
      BY <3>1, <3>2, <1>1
  <2>2. CASE i = n + 1
    <3>1. n > 0 /\ ~ IsSpace(s[n])
      BY <1>1, <1>2, <1>3, <2>2
    <3>2. n \in 1..n /\ i - 1 = n /\ i > 1
      BY <3>1, <1>1, <2>2
    <3>3. t[n] = s[n]
      BY <3>2, <1>1
    <3> QED
      BY <3>1, <3>2, <3>3
  <2> QED
    BY <1>1, <1>3, <2>1, <2>2
<1>4. Single(t)
  BY <1>3 DEF Single
<1>5. ASSUME ~ IsSpace(x) PROVE Behind(t)
  BY <1>1, <1>5 DEF Behind
<1> QED
  BY <1>4, <1>5 DEF t

LEMMA PutBreakPlaced ==
  ASSUME NEW p, Bounded(p), p.total < MaxInsert, Rendered(p), Owned(p), Anchored(p)
  PROVE  LET b == PutBreak(p) IN
         /\ Anchored(b)
         /\ \/ b.seen = p.seen /\ b.lastWasSpace = p.lastWasSpace
            \/ /\ b.lastWasSpace
               /\ \E x : b.seen = Append(p.seen, x) /\ x.ch = "\r"
<1> DEFINE q == [p EXCEPT !.needsNewline = FALSE]
           f == IF Len(q.text) >= TextSize - 1 THEN FlushText(q) ELSE q
           g == Put(f, "\r")
           r == [g EXCEPT !.lastWasSpace = TRUE]
           x == [ch |-> "\r", style |-> GetCurrentStyle(f), href |-> f.href, pre |-> f.depth.pre > 0]
<1>0. TextSize \in Nat /\ TextSize >= 2 /\ MaxInsert \in Nat
  BY Sizes
<1>1. /\ IsPage(q) /\ Keeps(p, q) /\ SameText(p, q) /\ q.list = p.list /\ q.title = p.title
      /\ SameMarks(p, q) /\ SameLinks(p, q) /\ q.lastWasSpace = p.lastWasSpace
  BY DEF Bounded, IsPage, PageFields, Keeps, SameText, SameMarks, SameLinks
<1>2. PutBreak(p) \in {q, r}
  BY DEF PutBreak
<1> HIDE DEF q
<1>3. Bounded(q) /\ Rendered(q) /\ Owned(q) /\ Anchored(q) /\ q.seen = p.seen
  <2>1. Bounded(q)
    BY <1>1 DEF Bounded, Keeps, SameText
  <2>2. Rendered(q) /\ Owned(q)
    BY <2>1, <1>1, RenderedKeeps, OwnedKeeps
  <2>3. CurrentOutputOffset(q) = CurrentOutputOffset(p) /\ p.total <= q.total
    BY <1>1, <2>1, Sizes DEF CurrentOutputOffset, SameText, Bounded
  <2>4. Anchored(q)
    BY <2>1, <2>2, <2>3, <1>1, AnchoredLater DEF SameText
  <2> QED
    BY <2>1, <2>2, <2>4, <1>1 DEF SameText
<1>4. /\ Bounded(f) /\ Rendered(f) /\ Owned(f) /\ Anchored(f) /\ Len(f.text) < TextSize
      /\ f.seen = p.seen
  <2>1. CASE Len(q.text) >= TextSize - 1
    <3>1. /\ Bounded(FlushText(q)) /\ Keeps(q, FlushText(q))
          /\ FlushText(q).text = <<>> \/ q.total >= MaxInsert
      BY <1>3, FlushBounded
    <3>2. Len(FlushText(q).text) = 0
      BY <3>1, <1>1, <1>0, NoneAny DEF Bounded, SameText
    <3>3. Rendered(FlushText(q))
      BY <1>3, FlushRendered
    <3>4. Anchored(FlushText(q)) /\ FlushText(q).seen = q.seen
      BY <1>3, FlushAnchored
    <3>5. Owned(FlushText(q))
      BY <3>1, <1>3, OwnedKeeps DEF Keeps, SameLinks
    <3> QED
      BY <2>1, <3>1, <3>2, <3>3, <3>4, <3>5, <1>0, <1>3
  <2>2. CASE ~ (Len(q.text) >= TextSize - 1)
    <3>1. f = q
      BY <2>2
    <3> HIDE DEF f
    <3>2. Len(q.text) \in Nat
      BY <1>3 DEF Bounded
    <3> QED
      BY <2>2, <3>1, <3>2, <1>0, <1>3
  <2> QED
    BY <2>1, <2>2
<1> HIDE DEF f
<1>5. /\ Bounded(g) /\ Rendered(g) /\ Anchored(g) /\ g.seen = Append(f.seen, x)
  <2>1. Bounded(g) /\ Rendered(g)
    BY <1>4, PutBounded, PutRendered
  <2>2. Anchored(g)
    BY <1>4, PutAnchored
  <2>3. g.seen = Append(f.seen, x)
    BY <1>4 DEF Put, Bounded, IsPage, PageFields
  <2> QED
    BY <2>1, <2>2, <2>3
<1>6. x.ch = "\r"
  OBVIOUS
<1> HIDE DEF g, x
<1>7. /\ Keeps(g, r) /\ SameText(g, r) /\ SameLinks(g, r) /\ SameMarks(g, r) /\ r.lastWasSpace
      /\ IsPage(r) /\ r.list = g.list /\ r.title = g.title
  BY <1>5 DEF Bounded, IsPage, PageFields, Keeps, SameText, SameLinks, SameMarks
<1> HIDE DEF r
<1>8. Bounded(r) /\ Rendered(r)
  <2>1. Bounded(r)
    BY <1>5, <1>7 DEF Bounded, Keeps, SameText
  <2> QED
    BY <2>1, <1>5, <1>7, RenderedKeeps
<1>9. Anchored(r)
  <2>1. CurrentOutputOffset(r) = CurrentOutputOffset(g) /\ g.total <= r.total
    BY <1>5, <1>7, Sizes DEF CurrentOutputOffset, SameText, Bounded
  <2> QED
    BY <2>1, <1>5, <1>7, <1>8, AnchoredLater DEF SameText
<1>10. r.seen = Append(p.seen, x)
  BY <1>4, <1>5, <1>7 DEF SameText
<1> QED
  BY <1>1, <1>2, <1>3, <1>6, <1>7, <1>9, <1>10

LEMMA PutVisiblePlaced ==
  ASSUME NEW p, Bounded(p), Room(p), Rendered(p), Owned(p), Anchored(p), NEW c
  PROVE  LET v == PutVisible(p, c) IN
         /\ Anchored(v) /\ v.lastWasSpace = p.lastWasSpace
         /\ \E x : v.seen = Append(p.seen, x) /\ x.ch = c /\ x.pre = (p.depth.pre > 0)
<1> DEFINE f == IF Len(p.text) >= TextSize THEN FlushText(p) ELSE p
           s == [f EXCEPT !.start = CurrentOutputOffset(f), !.hasStart = TRUE]
           g == IF p.href # NoLink /\ ~ p.hasStart THEN s ELSE f
           x == [ch |-> c, style |-> GetCurrentStyle(g), href |-> g.href, pre |-> g.depth.pre > 0]
<1>0. TextSize \in Nat /\ TextSize >= 2 /\ MaxInsert \in Nat
  BY Sizes
<1>1. PutVisible(p, c) = Put(g, c)
  BY DEF PutVisible
<1>2. /\ Bounded(f) /\ Rendered(f) /\ Owned(f) /\ Anchored(f) /\ Len(f.text) < TextSize
      /\ f.seen = p.seen /\ Keeps(p, f) /\ SameMarks(p, f) /\ f.lastWasSpace = p.lastWasSpace
  <2>1. CASE Len(p.text) >= TextSize
    <3>1. f = FlushText(p)
      BY <2>1
    <3>2. /\ Bounded(FlushText(p)) /\ Keeps(p, FlushText(p)) /\ Rendered(FlushText(p))
          /\ FlushText(p).text = <<>> \/ p.total >= MaxInsert
      BY FlushBounded, FlushRendered
    <3>3. p.total < MaxInsert /\ p.total \in Nat
      BY <2>1, <1>0 DEF Room, Bounded
    <3>4. FlushText(p).text = <<>>
      BY <3>2, <3>3, <1>0
    <3>5. /\ Anchored(FlushText(p)) /\ FlushText(p).seen = p.seen /\ SameMarks(p, FlushText(p))
          /\ FlushText(p).lastWasSpace = p.lastWasSpace
      BY FlushAnchored
    <3>6. Owned(FlushText(p))
      BY <3>2, OwnedKeeps DEF Keeps, SameLinks
    <3> HIDE DEF f
    <3> QED
      BY <3>1, <3>2, <3>4, <3>5, <3>6, NoneAny, <1>0
  <2>2. CASE ~ (Len(p.text) >= TextSize)
    <3>1. f = p
      BY <2>2
    <3> HIDE DEF f
    <3> QED
      BY <2>2, <3>1, <1>0 DEF Keeps, Bounded, SameMarks
  <2> QED
    BY <2>1, <2>2
<1> HIDE DEF f
<1>3. /\ IsPage(s) /\ Keeps(f, s) /\ SameText(f, s) /\ SameLinks(f, s)
      /\ s.list = f.list /\ s.title = f.title /\ s.lastWasSpace = f.lastWasSpace
      /\ s.start = CurrentOutputOffset(f) /\ s.hasStart
  BY <1>2 DEF Bounded, IsPage, PageFields, Keeps, SameText, SameLinks
<1> HIDE DEF s
<1>4. ASSUME f.href # NoLink, ~ f.hasStart
      PROVE  Anchored(s)
  <2>1. /\ CurrentOutputOffset(s) = CurrentOutputOffset(f) /\ Shown(s) = Shown(f)
        /\ Reach(s) = Reach(f)
    BY <1>3 DEF CurrentOutputOffset, Shown, Reach, SameText
  <2>2. /\ f.total \in 0..MaxInsert /\ CurrentOutputOffset(f) \in Nat
        /\ Reach(f) <= CurrentOutputOffset(f) /\ Reach(f) \in Nat
        /\ (f.total < MaxInsert => CurrentOutputOffset(f) = Len(f.seen))
        /\ Len(f.seen) \in Nat /\ Shown(f) \in Nat /\ f.total <= CurrentOutputOffset(f)
    BY <1>2, OffsetIsNat
  <2>3. Shown(f) <= CurrentOutputOffset(f)
    BY <2>2, <1>0 DEF Shown
  <2>4. Ranges(s)
    BY <1>2, <1>3, <2>1 DEF Anchored, Ranges, SameLinks
  <2>5. Started(s)
    <3>1. \A k \in 1..Len(f.links) : f.links[k].end <= CurrentOutputOffset(f)
      <4> SUFFICES ASSUME NEW k \in 1..Len(f.links)
                   PROVE  f.links[k].end <= CurrentOutputOffset(f)
        OBVIOUS
      <4>1. f.links[k].end \in Nat /\ f.links[k].end <= Reach(f)
        BY <1>2 DEF Anchored, Ranges
      <4> QED
        BY <4>1, <2>2
    <3> QED
      BY <1>3, <1>4, <2>2, <3>1 DEF Started, SameLinks, SameText
  <2>6. ASSUME NEW i \in 1..Shown(s) PROVE Covers(s, i)
    <3>1. Covers(f, i) /\ ~ (CurrentOutputOffset(f) < i)
      BY <1>2, <2>1, <2>2, <2>3 DEF Anchored
    <3> QED
      BY <3>1, <1>3, <1>4 DEF Covers, SameLinks, SameText
  <2> QED
    BY <2>4, <2>5, <2>6 DEF Anchored
<1>5. /\ Bounded(g) /\ Rendered(g) /\ Owned(g) /\ Anchored(g) /\ Len(g.text) < TextSize
      /\ g.href = NoLink \/ g.hasStart
      /\ g.seen = p.seen /\ g.depth = p.depth /\ g.lastWasSpace = p.lastWasSpace
  <2>1. f.href = p.href /\ f.hasStart = p.hasStart /\ f.depth = p.depth
    BY <1>2 DEF Keeps, SameMarks
  <2>2. CASE p.href # NoLink /\ ~ p.hasStart
    <3>1. g = s
      BY <2>2
    <3>2. Bounded(s)
      BY <1>2, <1>3 DEF Bounded, Keeps, SameText
    <3>3. Rendered(s) /\ Owned(s)
      BY <3>2, <1>2, <1>3, RenderedKeeps, OwnedKeeps
    <3>4. Anchored(s)
      BY <2>1, <2>2, <1>4
    <3> HIDE DEF g
    <3> QED
      BY <3>1, <3>2, <3>3, <3>4, <1>2, <1>3, <2>1 DEF SameText, Keeps
  <2>3. CASE ~ (p.href # NoLink /\ ~ p.hasStart)
    <3>1. g = f
      BY <2>3
    <3> HIDE DEF g
    <3> QED
      BY <3>1, <1>2, <2>1, <2>3
  <2> QED
    BY <2>2, <2>3
<1>6. x.ch = c /\ x.pre = (p.depth.pre > 0)
  BY <1>5
<1> HIDE DEF g
<1>7. Anchored(Put(g, c))
  BY <1>5, PutAnchored
<1>8. Put(g, c).seen = Append(g.seen, x) /\ Put(g, c).lastWasSpace = g.lastWasSpace
  BY <1>5 DEF Put, Bounded, IsPage, PageFields
<1> HIDE DEF x
<1>9. Put(g, c).seen = Append(p.seen, x) /\ Put(g, c).lastWasSpace = p.lastWasSpace
  BY <1>5, <1>8
<1> QED
  BY <1>1, <1>6, <1>7, <1>9

LEMMA EmitCharPlaced ==
  ASSUME NEW p, Bounded(p), Rendered(p), Owned(p), Placed(p), NEW char
  PROVE  Placed(EmitChar(p, char))
<1> DEFINE pre == p.depth.pre > 0
           c == IF ~ pre /\ char \in Blank THEN " " ELSE char
           q == IF pre THEN p ELSE [p EXCEPT !.lastWasSpace = c = " "]
           t == [p EXCEPT !.title = IF Len(@) < TitleSize - 1 THEN Append(@, char) ELSE @]
           b == IF p.needsNewline /\ c # " " THEN PutBreak(q) ELSE q
           v == PutVisible(b, c)
<1>1. \/ EmitChar(p, char) = p
      \/ EmitChar(p, char) = t
      \/ /\ p.total < MaxInsert /\ ~ (~ pre /\ c = " " /\ p.lastWasSpace)
         /\ EmitChar(p, char) = v
  <2>1. ~ (p.total >= MaxInsert) => p.total < MaxInsert
    BY Sizes DEF Bounded
  <2> QED
    BY <2>1, Zenon DEF EmitChar
<1>2. Placed(t)
  <2>1. Keeps(p, t) /\ SameText(p, t) /\ SameLinks(p, t) /\ Tracks(p, t)
    BY DEF Bounded, IsPage, PageFields, Keeps, SameText, SameLinks, SameMarks, Tracks
  <2>2. Bounded(t)
    <3>1. /\ IsPage(t) /\ t.total = p.total /\ t.depth = p.depth /\ t.made = p.made
          /\ t.list = p.list /\ t.headings = p.headings /\ t.text = p.text
          /\ t.title = IF Len(p.title) < TitleSize - 1 THEN Append(p.title, char) ELSE p.title
      BY DEF Bounded, IsPage, PageFields
    <3> HIDE DEF t
    <3>2. IsSeq(t.title) /\ Len(t.title) \in 0..TitleSize - 1
      BY <3>1, Sizes, AppendAny, SMTT(30) DEF Bounded
    <3> QED
      BY <3>1, <3>2 DEF Bounded
  <2> HIDE DEF t
  <2>3. Rendered(t) /\ Nested(t)
    BY <2>1, RenderedKeeps, NestedKeeps DEF Keeps, Placed
  <2> QED
    BY <2>1, <2>2, <2>3, PlainPlaced
<1>3. ASSUME p.total < MaxInsert, ~ (~ pre /\ c = " " /\ p.lastWasSpace)
      PROVE  Placed(v)
  <2>1. /\ IsPage(q) /\ Keeps(p, q) /\ SameText(p, q) /\ q.list = p.list /\ q.title = p.title
        /\ SameMarks(p, q) /\ SameLinks(p, q)
        /\ q.lastWasSpace = (IF pre THEN p.lastWasSpace ELSE c = " ")
    BY DEF Bounded, IsPage, PageFields, Keeps, SameText, SameMarks, SameLinks
  <2> HIDE DEF q
  <2>2. Bounded(q) /\ q.total < MaxInsert /\ q.seen = p.seen
    BY <1>3, <2>1 DEF Bounded, Keeps, SameText
  <2>3. Rendered(q) /\ Owned(q)
    BY <2>1, RenderedKeeps, OwnedKeeps
  <2>4. Anchored(q)
    <3>1. CurrentOutputOffset(q) = CurrentOutputOffset(p) /\ p.total <= q.total
      <4>1. q.total = p.total /\ q.text = p.text
        BY <2>1 DEF SameText
      <4>2. p.total \in Nat
        BY Sizes DEF Bounded
      <4> QED
        BY <4>1, <4>2 DEF CurrentOutputOffset
    <3> QED
      BY <2>1, <2>2, <2>3, <3>1, AnchoredLater DEF Placed
  <2>5. /\ Bounded(b) /\ Rendered(b) /\ Owned(b) /\ Room(b) /\ Anchored(b) /\ Keeps(p, b)
        /\ \/ b.seen = p.seen /\ b.lastWasSpace = q.lastWasSpace
           \/ /\ c # " " /\ b.lastWasSpace
              /\ \E y : b.seen = Append(p.seen, y) /\ y.ch = "\r"
    <3>1. CASE p.needsNewline /\ c # " "
      <4>1. b = PutBreak(q)
        BY <3>1
      <4>2. /\ Bounded(PutBreak(q)) /\ Rendered(PutBreak(q)) /\ Room(PutBreak(q))
            /\ Keeps(q, PutBreak(q))
        BY <2>2, <2>3, PutBreakBounded, PutBreakRendered
      <4>3. /\ Anchored(PutBreak(q))
            /\ \/ PutBreak(q).seen = q.seen /\ PutBreak(q).lastWasSpace = q.lastWasSpace
               \/ /\ PutBreak(q).lastWasSpace
                  /\ \E y : PutBreak(q).seen = Append(q.seen, y) /\ y.ch = "\r"
        BY <2>2, <2>3, <2>4, PutBreakPlaced
      <4>4. Owned(PutBreak(q))
        BY <4>2, <2>3, OwnedKeeps DEF Keeps, SameLinks
      <4>5. Keeps(p, PutBreak(q))
        BY <4>2, <2>1 DEF Keeps
      <4> HIDE DEF b, c
      <4> QED
        BY <4>1, <4>2, <4>3, <4>4, <4>5, <3>1, <2>2
    <3>2. CASE ~ (p.needsNewline /\ c # " ")
      <4>1. b = q
        BY <3>2
      <4> HIDE DEF b, c
      <4> QED
        BY <4>1, <2>1, <2>2, <2>3, <2>4 DEF Room
    <3> QED
      BY <3>1, <3>2
  <2> HIDE DEF b
  <2>6. /\ Anchored(v) /\ v.lastWasSpace = b.lastWasSpace
        /\ \E x : v.seen = Append(b.seen, x) /\ x.ch = c /\ x.pre = (b.depth.pre > 0)
    <3> HIDE DEF c
    <3> QED
      BY <2>5, PutVisiblePlaced, ZenonT(60)
  <2>7. PICK x : v.seen = Append(b.seen, x) /\ x.ch = c /\ x.pre = (b.depth.pre > 0)
    BY <2>6
  <2>8. x.pre = pre
    BY <2>5, <2>7 DEF Keeps
  <2>9. /\ IsBlank(x) => ~ pre /\ c = " " /\ ~ p.lastWasSpace
        /\ IsSpace(x) => ~ pre /\ c = " "
    BY <1>3, <2>7, <2>8 DEF IsBlank, IsSpace, Blank
  <2>10. IsSeq(p.seen) /\ IsSeq(b.seen) /\ (p.lastWasSpace \/ Behind(p.seen)) /\ Single(p.seen)
    BY <2>5 DEF Rendered, Placed, Spaced
  <2> HIDE DEF v, c
  <2>11. Single(b.seen) /\ (IsBlank(x) => Behind(b.seen))
    <3>1. CASE b.seen = p.seen
      BY <3>1, <2>9, <2>10
    <3>2. CASE c # " " /\ \E y : b.seen = Append(p.seen, y) /\ y.ch = "\r"
      <4>1. PICK y : b.seen = Append(p.seen, y) /\ y.ch = "\r"
        BY <3>2
      <4>2. ~ IsBlank(y)
        BY <4>1 DEF IsBlank
      <4>3. Single(b.seen)
        BY <4>1, <4>2, <2>10, AppendSingle
      <4> QED
        BY <4>3, <3>2, <2>9
    <3> QED
      BY <2>5, <3>1, <3>2
  <2>12. Single(v.seen) /\ (~ IsSpace(x) => Behind(v.seen))
    BY <2>7, <2>10, <2>11, AppendSingle
  <2>13. ASSUME IsSpace(x) PROVE v.lastWasSpace
    BY <2>1, <2>5, <2>6, <2>9, <2>13
  <2>14. Spaced(v)
    BY <2>12, <2>13 DEF Spaced
  <2>15. Nested(v)
    <3>1. Keeps(b, v)
      BY <2>5, PutVisibleBounded DEF v
    <3>2. v.open = p.open /\ v.headings = p.headings
      BY <3>1, <2>5 DEF Keeps
    <3> QED
      BY <3>2, NestedKeeps DEF Placed
  <2> QED
    BY <2>6, <2>14, <2>15 DEF Placed
<1> HIDE DEF t, v, c, q, b
<1> QED
  BY <1>1, <1>2, <1>3

-----------------------------------------------------------------------------
(* What writing does to a page. *)

(* From p to q, text was written and nothing else.                         *)
Emits(p, q) ==
  /\ Bounded(q) /\ Keeps(p, q) /\ (Rendered(p) => Rendered(q))
  /\ Rendered(p) /\ Owned(p) /\ Placed(p) => Placed(q)

LEMMA EmitsTrans ==
  ASSUME NEW p, NEW q, Emits(p, q), NEW r, Emits(q, r)
  PROVE  Emits(p, r)
<1>1. Keeps(p, r)
  BY DEF Emits, Keeps
<1>2. Owned(p) => Owned(q)
  BY OwnedKeeps DEF Emits, Keeps, SameLinks
<1> QED
  BY <1>1, <1>2 DEF Emits

LEMMA EmitCharEmits ==
  ASSUME NEW p, Bounded(p), NEW char
  PROVE  Emits(p, EmitChar(p, char))
<1> DEFINE pre == p.depth.pre > 0
           c == IF ~ pre /\ char \in Blank THEN " " ELSE char
           q == IF pre THEN p ELSE [p EXCEPT !.lastWasSpace = c = " "]
           t == [p EXCEPT !.title = IF Len(@) < TitleSize - 1 THEN Append(@, char) ELSE @]
           b == IF p.needsNewline /\ c # " " THEN PutBreak(q) ELSE q
<1>0. TitleSize \in Nat /\ TitleSize >= 2 /\ MaxInsert \in Nat
  BY Sizes
<1>1. \/ EmitChar(p, char) = p
      \/ EmitChar(p, char) = t
      \/ p.total < MaxInsert /\ EmitChar(p, char) = PutVisible(b, c)
  <2>1. ~ (p.total >= MaxInsert) => p.total < MaxInsert
    BY <1>0 DEF Bounded
  <2> QED
    BY <2>1, Zenon DEF EmitChar
<1>2. ASSUME Rendered(p) PROVE Rendered(t)
  <2>1. Keeps(p, t) /\ SameText(p, t)
    BY DEF Bounded, IsPage, PageFields, Keeps, SameText
  <2> HIDE DEF t
  <2> QED
    BY <1>2, <2>1, RenderedKeeps
<1>3. ASSUME p.total < MaxInsert, Rendered(p)
      PROVE  Rendered(PutVisible(b, c))
  <2>1. /\ IsPage(q) /\ Keeps(p, q) /\ SameText(p, q) /\ q.list = p.list /\ q.title = p.title
    BY DEF Bounded, IsPage, PageFields, Keeps, SameText
  <2> HIDE DEF q
  <2>2. Bounded(q) /\ q.total < MaxInsert
    BY <1>3, <2>1 DEF Bounded, Keeps, SameText
  <2>3. Rendered(q)
    BY <1>3, <2>1, RenderedKeeps
  <2>4. Bounded(PutBreak(q)) /\ Rendered(PutBreak(q)) /\ Room(PutBreak(q))
    BY <2>2, <2>3, PutBreakBounded, PutBreakRendered
  <2>5. Bounded(b) /\ Rendered(b) /\ Room(b)
    BY <2>2, <2>3, <2>4 DEF Room
  <2> HIDE DEF b, c
  <2> QED
    BY <2>5, PutVisibleRendered
<1>4. Bounded(EmitChar(p, char)) /\ Keeps(p, EmitChar(p, char))
  BY EmitCharBounded
<1> HIDE DEF t, b, c, q
<1>5. Rendered(p) => Rendered(EmitChar(p, char))
  BY <1>1, <1>2, <1>3
<1>6. Rendered(p) /\ Owned(p) /\ Placed(p) => Placed(EmitChar(p, char))
  BY EmitCharPlaced
<1> QED
  BY <1>4, <1>5, <1>6 DEF Emits

-----------------------------------------------------------------------------
(* Texts and chunks of any length, by induction over what has been read. *)

(* A set of naturals that is not empty has a least element: the first      *)
(* character at which something went wrong.                                *)
LEMMA Least ==
  ASSUME NEW T, T \subseteq Nat, T # {}
  PROVE  \E x \in T : \A y \in T : x <= y
<1> DEFINE Less == {ss \in Nat \X Nat : ss[1] < ss[2]}
<1>1. IsWellFoundedOn(Less, Nat)
  <2>1. IsWellFoundedOn(OpToRel(<, Nat), Nat)
    BY NatLessThanWellFounded
  <2>2. Less = OpToRel(<, Nat)
    BY DEF OpToRel
  <2> HIDE DEF Less
  <2>3. ASSUME NEW f \in [Nat -> Nat], \A n \in Nat : <<f[n + 1], f[n]>> \in Less
        PROVE  FALSE
    BY <2>1, <2>2, <2>3 DEF IsWellFoundedOn
  <2> QED
    BY <2>3 DEF IsWellFoundedOn
<1> HIDE DEF Less
<1>2. \E x \in T : \A y \in T : ~ (<<y, x>> \in Less)
  BY <1>1, WFMin
<1>3. PICK x \in T : \A y \in T : ~ (<<y, x>> \in Less)
  BY <1>2
<1>4. ASSUME NEW y \in T
      PROVE  x <= y
  <2>1. x \in Nat /\ y \in Nat /\ ~ (<<y, x>> \in Less)
    BY <1>3
  <2> QED
    BY <2>1 DEF Less
<1> QED
  BY <1>4

LEMMA EmitStringUnfolds ==
  ASSUME NEW p, NEW s, NEW n \in Nat
  PROVE  \E f : f = [i \in 0..n |-> IF i = 0 THEN p ELSE EmitChar(f[i - 1], s[i])]
<1> DEFINE Unfolds(m) ==
             \E f : f = [i \in 0..m |-> IF i = 0 THEN p ELSE EmitChar(f[i - 1], s[i])]
           T == {m \in Nat : ~ Unfolds(m)}
<1>1. SUFFICES ASSUME T # {} PROVE FALSE
  BY DEF T
<1>2. PICK m \in T : \A k \in T : m <= k
  BY <1>1, Least, T \subseteq Nat
<1>3. m # 0
  <2>1. [i \in 0..0 |-> p] =
          [i \in 0..0 |-> IF i = 0 THEN p ELSE EmitChar([j \in 0..0 |-> p][i - 1], s[i])]
    OBVIOUS
  <2>2. Unfolds(0)
    BY <2>1
  <2> QED
    BY <2>2, <1>2
<1>4. Unfolds(m - 1)
  <2>1. m \in Nat /\ m - 1 \in Nat /\ ~ (m <= m - 1)
    BY <1>2, <1>3
  <2>2. m - 1 \notin T
    BY <2>1, <1>2
  <2> HIDE DEF Unfolds
  <2> QED
    BY <2>1, <2>2
<1>5. PICK f : f = [i \in 0..m - 1 |-> IF i = 0 THEN p ELSE EmitChar(f[i - 1], s[i])]
  BY <1>4
<1> DEFINE g == [i \in 0..m |-> IF i = m THEN EmitChar(f[m - 1], s[m]) ELSE f[i]]
<1>6. g = [i \in 0..m |-> IF i = 0 THEN p ELSE EmitChar(g[i - 1], s[i])]
  BY <1>5, <1>3
<1>7. Unfolds(m)
  BY <1>6
<1> QED
  BY <1>7, <1>2

LEMMA EmitStringEmits ==
  ASSUME NEW p, Bounded(p), NEW s, Len(s) \in Nat
  PROVE  Emits(p, EmitString(p, s))
<1> DEFINE n == Len(s)
           f == CHOOSE f : f = [i \in 0..n |-> IF i = 0 THEN p ELSE EmitChar(f[i - 1], s[i])]
<1>1. f = [i \in 0..n |-> IF i = 0 THEN p ELSE EmitChar(f[i - 1], s[i])]
  BY EmitStringUnfolds, SMTT(30)
<1>2. EmitString(p, s) = f[n]
  BY DEF EmitString
<1> HIDE DEF f
<1> DEFINE T == {i \in Nat : i <= n /\ ~ Emits(p, f[i])}
<1>3. ASSUME T # {} PROVE FALSE
  <2>1. PICK m \in T : \A k \in T : m <= k
    BY <1>3, Least, T \subseteq Nat
  <2>2. CASE m = 0
    BY <2>1, <2>2, <1>1 DEF Emits, Keeps
  <2>3. CASE m # 0
    <3>1. m - 1 \in 0..n /\ Emits(p, f[m - 1])
      BY <2>1, <2>3
    <3>2. f[m] = EmitChar(f[m - 1], s[m])
      BY <2>1, <2>3, <1>1
    <3>3. Emits(f[m - 1], f[m])
      BY <3>1, <3>2, EmitCharEmits DEF Emits
    <3> QED
      BY <3>1, <3>3, <2>1, EmitsTrans
  <2> QED
    BY <2>2, <2>3
<1>4. Emits(p, f[n])
  BY <1>3
<1> QED
  BY <1>2, <1>4

-----------------------------------------------------------------------------
(* Good pages. *)

Good(p) == Bounded(p) /\ Rendered(p) /\ Owned(p) /\ Placed(p)

LEMMA EmitsGood ==
  ASSUME NEW p, NEW q, Good(p), Emits(p, q)
  PROVE  Good(q)
<1>1. SameLinks(p, q)
  BY DEF Emits, Keeps, SameLinks
<1> QED
  BY <1>1, OwnedKeeps DEF Emits, Good

(* A page with nothing in its buffer that is still to be shown. *)
Flushed(p) == p.total >= MaxInsert \/ p.text = <<>>

LEMMA FlushGood ==
  ASSUME NEW p, Good(p)
  PROVE  Good(FlushText(p)) /\ Flushed(FlushText(p))
<1>1. Bounded(FlushText(p)) /\ Keeps(p, FlushText(p)) /\ Rendered(FlushText(p))
  BY FlushBounded, FlushRendered DEF Good
<1>2. Flushed(FlushText(p))
  BY FlushBounded DEF Good, Flushed
<1>3. Placed(FlushText(p))
  <2>1. /\ Anchored(FlushText(p)) /\ FlushText(p).seen = p.seen
        /\ FlushText(p).lastWasSpace = p.lastWasSpace
    BY FlushAnchored DEF Good, Placed
  <2>2. Spaced(FlushText(p)) /\ Nested(FlushText(p))
    BY <1>1, <2>1, SpacedKeeps, NestedKeeps DEF Good, Placed, Keeps
  <2> QED
    BY <2>1, <2>2 DEF Placed
<1>4. Emits(p, FlushText(p))
  BY <1>1, <1>3 DEF Emits
<1> QED
  BY <1>2, <1>4, EmitsGood

(* The style may change when nothing waits in the buffer. *)
LEMMA RestyleGood ==
  ASSUME NEW p, NEW q, Good(p), Flushed(p), IsPage(q), SameText(p, q), SameLinks(p, q),
         q.depth \in [Depths -> 0..MaxShort], q.list \in (-MaxShort - 1)..MaxShort,
         q.title = p.title, q.headings \in Seq(1..6), Len(q.headings) <= StackSize,
         Tracks(p, q), Nested(q)
  PROVE  Good(q) /\ Flushed(q)
<1>1. Bounded(q)
  BY DEF Good, Bounded, SameText, SameLinks
<1>2. Owned(q)
  BY OwnedKeeps DEF Good
<1>3. MaxInsert \in Nat /\ p.total \in 0..MaxInsert
  BY Sizes DEF Good, Bounded
<1>4. Rendered(q)
  <2>1. q.total < MaxInsert => Len(q.text) = 0 /\ Len(q.seen) - q.total = 0
    <3>1. ASSUME q.total < MaxInsert PROVE p.text = <<>>
      BY <1>3, <3>1 DEF Flushed, SameText
    <3>2. ASSUME p.total < MaxInsert PROVE Len(p.text) = Len(p.seen) - p.total
      BY <3>2 DEF Good, Rendered
    <3> QED
      BY <3>1, <3>2, NoneAny DEF SameText
  <2>2. Rendered(p)
    BY DEF Good
  <2>3. /\ IsSeq(q.seen) /\ IsSeq(q.te) /\ q.total <= Len(q.seen)
        /\ Len(q.te) = q.total + (IF q.total >= MaxInsert THEN 1 ELSE 0)
    BY <2>2 DEF Rendered, SameText
  <2>4. \A i \in 1..q.total : Shows(q.te[i], q.seen[i])
    BY <2>2 DEF Rendered, SameText
  <2> QED
    BY <2>1, <2>3, <2>4, RenderedIntro
<1>5. Placed(q)
  BY <1>1, <1>4, PlainPlaced DEF Good
<1> QED
  BY <1>1, <1>2, <1>4, <1>5 DEF Good, Flushed, SameText

(* A change of a field that no part of Good speaks of.                     *)
LEMMA PlainGood ==
  ASSUME NEW p, NEW q, Good(p), IsPage(q), SameText(p, q), Keeps(p, q),
         Tracks(p, q), q.list \in (-MaxShort - 1)..MaxShort,
         IsSeq(q.title), Len(q.title) \in 0..TitleSize - 1
  PROVE  Good(q) /\ (Flushed(p) => Flushed(q))
<1>1. Bounded(q)
  BY DEF Good, Bounded, SameText, Keeps
<1>2. Rendered(q) /\ SameLinks(p, q) /\ Nested(q)
  BY RenderedKeeps, NestedKeeps DEF Good, Placed, Keeps, SameLinks
<1>3. Placed(q)
  BY <1>1, <1>2, PlainPlaced DEF Good
<1>4. Emits(p, q)
  BY <1>1, <1>2, <1>3 DEF Emits
<1> QED
  BY <1>4, EmitsGood DEF Flushed, SameText

LEMMA EmitNewlineGood ==
  ASSUME NEW p, Good(p)
  PROVE  Good(EmitNewline(p)) /\ (Flushed(p) => Flushed(EmitNewline(p)))
<1> DEFINE q == [p EXCEPT !.needsNewline = TRUE, !.lastWasSpace = TRUE]
<1>1. EmitNewline(p) \in {p, q}
  BY DEF EmitNewline
<1>2. /\ IsPage(q) /\ SameText(p, q) /\ Keeps(p, q) /\ Tracks(p, q) /\ q.list = p.list /\ q.title = p.title
  BY DEF Good, Bounded, IsPage, PageFields, SameText, Keeps, SameMarks, Tracks
<1> HIDE DEF q
<1>3. Good(q) /\ (Flushed(p) => Flushed(q))
  BY <1>2, PlainGood DEF Good, Bounded
<1> QED
  BY <1>1, <1>3

LEMMA DepthGood ==
  ASSUME NEW p, Good(p), Flushed(p), NEW d \in Depths
  PROVE  /\ Good(IncrementDepth(p, d)) /\ Flushed(IncrementDepth(p, d))
         /\ Good(DecrementDepth(p, d)) /\ Flushed(DecrementDepth(p, d))
<1>0. p.depth \in [Depths -> 0..MaxShort] /\ MaxShort \in Nat /\ IsPage(p)
  BY Sizes DEF Good, Bounded
<1> DEFINE q == IncrementDepth(p, d)
           r == DecrementDepth(p, d)
<1>1. /\ IsPage(q) /\ SameText(p, q) /\ SameLinks(p, q) /\ q.list = p.list
      /\ q.title = p.title /\ q.headings = p.headings /\ q.open = p.open /\ Tracks(p, q)
      /\ q.depth = [p.depth EXCEPT ![d] = IF @ < MaxShort THEN @ + 1 ELSE @]
  BY <1>0 DEF IsPage, PageFields, SameText, SameLinks, SameMarks, Tracks, IncrementDepth
<1>2. /\ IsPage(r) /\ SameText(p, r) /\ SameLinks(p, r) /\ r.list = p.list
      /\ r.title = p.title /\ r.headings = p.headings /\ r.open = p.open /\ Tracks(p, r)
      /\ r.depth = [p.depth EXCEPT ![d] = IF @ > 0 THEN @ - 1 ELSE @]
  BY <1>0 DEF IsPage, PageFields, SameText, SameLinks, SameMarks, Tracks, DecrementDepth
<1> HIDE DEF q, r
<1>3. q.depth \in [Depths -> 0..MaxShort] /\ r.depth \in [Depths -> 0..MaxShort]
  BY <1>0, <1>1, <1>2
<1>7. Nested(q) /\ Nested(r)
  BY <1>1, <1>2, NestedKeeps DEF Good, Placed
<1>4. /\ p.list \in (-MaxShort - 1)..MaxShort
      /\ p.headings \in Seq(1..6) /\ Len(p.headings) <= StackSize
  BY DEF Good, Bounded
<1>5. Good(q) /\ Flushed(q)
  BY <1>1, <1>3, <1>4, <1>7, RestyleGood
<1>6. Good(r) /\ Flushed(r)
  BY <1>2, <1>3, <1>4, <1>7, RestyleGood
<1> QED
  BY <1>5, <1>6 DEF q, r

LEMMA CountIsNat ==
  ASSUME NEW h \in Seq(1..6), NEW l
  PROVE  IsFiniteSet(Places(h, l)) /\ Count(h, l) \in Nat
<1>1. IsFiniteSet(1..Len(h))
  BY FS_Interval
<1>2. Places(h, l) \in SUBSET (1..Len(h))
  BY DEF Places
<1>3. IsFiniteSet(Places(h, l))
  BY <1>1, <1>2, FS_Subset
<1> QED
  BY <1>3, FS_CardinalityType DEF Count

LEMMA CountAppend ==
  ASSUME NEW h \in Seq(1..6), NEW level \in 1..6, NEW l
  PROVE  Count(Append(h, level), l) <= Count(h, l) + (IF l = level THEN 1 ELSE 0)
<1> DEFINE g == Append(h, level)
           n == Len(h) + 1
<1>1. g \in Seq(1..6) /\ Len(g) = n /\ g[n] = level /\ \A i \in 1..Len(h) : g[i] = h[i]
  OBVIOUS
<1>2. IsFiniteSet(Places(h, l)) /\ Count(h, l) \in Nat
  BY CountIsNat
<1>3. Len(h) \in Nat
  OBVIOUS
<1> HIDE DEF g
<1>4. CASE l = level
  <2>1. Places(g, l) \in SUBSET (Places(h, l) \cup {n})
    BY <1>1, <1>3 DEF Places
  <2>2. /\ IsFiniteSet(Places(h, l) \cup {n})
        /\ Cardinality(Places(h, l) \cup {n}) <= Count(h, l) + 1
    <3>1. Cardinality(Places(h, l)) \in Nat
      BY <1>2 DEF Count
    <3>2. /\ IsFiniteSet(Places(h, l) \cup {n})
          /\ Cardinality(Places(h, l) \cup {n}) =
               IF n \in Places(h, l) THEN Cardinality(Places(h, l)) ELSE Cardinality(Places(h, l)) + 1
      BY <1>2, FS_AddElement
    <3> QED
      BY <3>1, <3>2 DEF Count
  <2>3. Count(g, l) <= Cardinality(Places(h, l) \cup {n})
    BY <2>1, <2>2, FS_Subset DEF Count
  <2>4. Count(g, l) \in Nat /\ Cardinality(Places(h, l) \cup {n}) \in Nat
    BY <1>1, <2>2, CountIsNat, FS_CardinalityType
  <2> QED
    BY <1>2, <1>4, <2>2, <2>3, <2>4 DEF g
<1>5. CASE l # level
  <2>1. Places(g, l) = Places(h, l)
    BY <1>1, <1>3, <1>5 DEF Places
  <2> QED
    BY <1>2, <1>5, <2>1 DEF Count, g
<1> QED
  BY <1>4, <1>5

(* The heading at a place is taken out of the middle of the stack.         *)
LEMMA CountCut ==
  ASSUME NEW h \in Seq(1..6), NEW i \in 1..Len(h), NEW l,
         NEW g \in Seq(1..6), Len(g) = Len(h) - 1,
         \A j \in 1..Len(g) : g[j] = IF j < i THEN h[j] ELSE h[j + 1]
  PROVE  Count(g, l) <= Count(h, l) - (IF h[i] = l THEN 1 ELSE 0)
<1> DEFINE f == [j \in Places(g, l) |-> IF j < i THEN j ELSE j + 1]
           T == Places(h, l) \ {i}
<1>1. Len(h) \in Nat /\ Len(g) \in Nat
  OBVIOUS
<1>2. f \in [Places(g, l) -> T]
  <2>1. ASSUME NEW j \in Places(g, l)
        PROVE  (IF j < i THEN j ELSE j + 1) \in T
    BY <1>1, <2>1 DEF Places
  <2> QED
    BY <2>1
<1>3. \A a, b \in Places(g, l) : f[a] = f[b] => a = b
  BY <1>1 DEF Places
<1>4. f \in Injection(Places(g, l), T)
  BY <1>2, <1>3 DEF Injection, IsInjective
<1>5. IsFiniteSet(Places(h, l)) /\ Count(h, l) \in Nat
  BY CountIsNat
<1>6. /\ IsFiniteSet(T)
      /\ Cardinality(T) = IF i \in Places(h, l) THEN Count(h, l) - 1 ELSE Count(h, l)
  BY <1>5, FS_RemoveElement DEF Count
<1>7. Count(g, l) <= Cardinality(T)
  BY <1>4, <1>6, FS_Injection DEF Count
<1>8. i \in Places(h, l) <=> h[i] = l
  BY DEF Places
<1>9. Count(g, l) \in Nat
  BY CountIsNat
<1> HIDE DEF T
<1> QED
  BY <1>5, <1>6, <1>7, <1>8, <1>9

LEMMA PushHeadingGood ==
  ASSUME NEW p, Good(p), Flushed(p), NEW level \in 1..6
  PROVE  Good(PushHeading(p, level))
<1> DEFINE q == PushHeading(p, level)
<1>0. /\ p.headings \in Seq(1..6) /\ Len(p.headings) <= StackSize /\ StackSize \in Nat
      /\ p.list \in (-MaxShort - 1)..MaxShort /\ p.depth \in [Depths -> 0..MaxShort] /\ IsPage(p)
      /\ p.open \in [1..6 -> Nat] /\ \A l \in 1..6 : Count(p.headings, l) <= p.open[l]
  BY Sizes DEF Good, Bounded, Placed, Nested
<1>1. /\ IsPage(q) /\ SameText(p, q) /\ SameLinks(p, q) /\ q.list = p.list
      /\ q.title = p.title /\ q.depth = p.depth
      /\ Tracks(p, q) /\ q.open = [p.open EXCEPT ![level] = @ + 1]
      /\ q.headings = IF Len(p.headings) < StackSize THEN Append(p.headings, level) ELSE p.headings
  BY <1>0 DEF IsPage, PageFields, SameText, SameLinks, SameMarks, Tracks, PushHeading
<1> HIDE DEF q
<1>2. q.headings \in Seq(1..6) /\ Len(q.headings) <= StackSize
  BY <1>0, <1>1, SMTT(30)
<1>4. Nested(q)
  <2>0. p.open \in [1..6 -> Nat] /\ q.open = [p.open EXCEPT ![level] = @ + 1]
    BY <1>0, <1>1
  <2>1. q.open \in [1..6 -> Nat]
    BY <2>0
  <2>2. ASSUME NEW l \in 1..6 PROVE Count(q.headings, l) <= q.open[l]
    <3>1. q.open[l] = p.open[l] + (IF l = level THEN 1 ELSE 0)
      BY <2>0
    <3>2. Count(q.headings, l) <= Count(p.headings, l) + (IF l = level THEN 1 ELSE 0)
      <4>1. p.headings \in Seq(1..6) /\ q.headings \in {Append(p.headings, level), p.headings}
        BY <1>0, <1>1
      <4>2. Count(p.headings, l) \in Nat
        BY <4>1, CountIsNat
      <4>3. Count(Append(p.headings, level), l)
              <= Count(p.headings, l) + (IF l = level THEN 1 ELSE 0)
        BY <4>1, CountAppend
      <4>4. CASE q.headings = Append(p.headings, level)
        BY <4>3, <4>4
      <4>5. CASE q.headings = p.headings
        <5> DEFINE n == Count(p.headings, l)
        <5>1. n <= n + (IF l = level THEN 1 ELSE 0)
          <6> HIDE DEF n
          <6> QED
            BY <4>2 DEF n
        <5> QED
          BY <4>5, <5>1
      <4> QED
        BY <4>1, <4>4, <4>5
    <3>3. /\ Count(q.headings, l) \in Nat /\ Count(p.headings, l) \in Nat /\ p.open[l] \in Nat
          /\ Count(p.headings, l) <= p.open[l]
      BY <1>0, <1>2, CountIsNat
    <3> QED
      BY <3>1, <3>2, <3>3
  <2> QED
    BY <2>1, <2>2 DEF Nested
<1>3. Good(q)
  BY <1>0, <1>1, <1>2, <1>4, RestyleGood
<1> QED
  BY <1>3 DEF q

LEMMA PopHeadingGood ==
  ASSUME NEW p, Good(p), Flushed(p), NEW level \in 1..6
  PROVE  Good(PopHeading(p, level))
<1> DEFINE at == {i \in 1..Len(p.headings) : p.headings[i] = level}
           i == CHOOSE i \in at : \A j \in at : j <= i
           q == [p EXCEPT !.open[level] = IF @ > 0 THEN @ - 1 ELSE @]
           cut == SubSeq(p.headings, 1, i - 1) \o SubSeq(p.headings, i + 1, Len(p.headings))
           r == [q EXCEPT !.headings = SubSeq(@, 1, i - 1) \o SubSeq(@, i + 1, Len(@))]
<1>0. /\ p.headings \in Seq(1..6) /\ Len(p.headings) <= StackSize /\ StackSize \in Nat
      /\ p.list \in (-MaxShort - 1)..MaxShort /\ p.depth \in [Depths -> 0..MaxShort] /\ IsPage(p)
      /\ p.open \in [1..6 -> Nat] /\ \A l \in 1..6 : Count(p.headings, l) <= p.open[l]
  BY Sizes DEF Good, Bounded, Placed, Nested
<1>1. PopHeading(p, level) = IF at = {} THEN q ELSE r
  BY DEF PopHeading
<1>2. /\ IsPage(q) /\ SameText(p, q) /\ SameLinks(p, q) /\ q.list = p.list
      /\ q.title = p.title /\ q.depth = p.depth /\ q.headings = p.headings
      /\ Tracks(p, q) /\ q.open = [p.open EXCEPT ![level] = IF @ > 0 THEN @ - 1 ELSE @]
  BY <1>0 DEF IsPage, PageFields, SameText, SameLinks, SameMarks, Tracks
<1> HIDE DEF q
<1>6. /\ q.open \in [1..6 -> Nat]
      /\ \A l \in 1..6 : p.open[l] - (IF l = level THEN 1 ELSE 0) <= q.open[l] /\ p.open[l] \in Nat
      /\ \A l \in 1..6 : l # level => q.open[l] = p.open[l]
  <2>1. p.open \in [1..6 -> Nat] /\ q.open = [p.open EXCEPT ![level] = IF @ > 0 THEN @ - 1 ELSE @]
    BY <1>0, <1>2
  <2>2. q.open \in [1..6 -> Nat]
    BY <2>1
  <2>3. ASSUME NEW l \in 1..6
        PROVE  /\ p.open[l] - (IF l = level THEN 1 ELSE 0) <= q.open[l] /\ p.open[l] \in Nat
               /\ l # level => q.open[l] = p.open[l]
    BY <2>1
  <2> QED
    BY <2>2, <2>3
<1>3. ASSUME at = {} PROVE Good(q)
  <2>1. Nested(q)
    <3>1. ASSUME NEW l \in 1..6 PROVE Count(q.headings, l) <= q.open[l]
      <4>1. CASE l = level
        <5>1. Places(p.headings, l) = {}
          BY <1>3, <4>1 DEF Places
        <5>2. Count(p.headings, l) = 0
          BY <5>1, FS_EmptySet DEF Count
        <5> QED
          BY <5>2, <1>2, <1>6
      <4>2. CASE l # level
        BY <4>2, <1>0, <1>2, <1>6
      <4> QED
        BY <4>1, <4>2
    <3> QED
      BY <3>1, <1>6 DEF Nested
  <2> HIDE DEF at
  <2> QED
    BY <1>0, <1>2, <2>1, RestyleGood
<1>4. /\ IsPage(r) /\ SameText(p, r) /\ SameLinks(p, r) /\ r.list = p.list
      /\ r.title = p.title /\ r.depth = p.depth /\ r.headings = cut /\ r.open = q.open /\ Tracks(p, r)
  <2> HIDE DEF at, i
  <2> QED
    BY <1>2 DEF IsPage, PageFields, SameText, SameLinks, SameMarks, Tracks
<1> HIDE DEF r
<1>5. ASSUME at # {} PROVE Good(r)
  <2>1. i \in 1..Len(p.headings) /\ p.headings[i] = level
    <3> DEFINE T == {n \in Nat : \E j \in at : n = Len(p.headings) - j}
    <3>1. T # {} /\ T \subseteq Nat
      <4>1. PICK j \in at : TRUE
        BY <1>5
      <4>2. Len(p.headings) - j \in Nat
        BY <1>0
      <4> QED
        BY <4>1, <4>2
    <3>2. PICK n \in T : \A k \in T : n <= k
      BY <3>1, Least
    <3>3. PICK top \in at : n = Len(p.headings) - top
      BY <3>2
    <3>4. ASSUME NEW j \in at PROVE j <= top
      <4>2. Len(p.headings) \in Nat /\ j \in 1..Len(p.headings) /\ top \in 1..Len(p.headings)
        BY <1>0
      <4>3. Len(p.headings) - j \in Nat
        BY <4>2
      <4>1. n <= Len(p.headings) - j
        <5> HIDE DEF at
        <5> QED
          BY <4>3, <3>2
      <4> QED
        <5>1. n = Len(p.headings) - top /\ n <= Len(p.headings) - j
          BY <4>1, <3>3
        <5> HIDE DEF at
        <5> QED
          BY <4>2, <5>1
    <3>5. \E k \in at : \A j \in at : j <= k
      BY <3>3, <3>4
    <3>6. i \in at
      BY <3>5
    <3> QED
      BY <3>6
  <2> HIDE DEF i
  <2>2. cut \in Seq(1..6) /\ Len(cut) <= StackSize
    <3>1. SubSeq(p.headings, 1, i - 1) \in Seq(1..6) /\ Len(SubSeq(p.headings, 1, i - 1)) = i - 1
      BY <1>0, <2>1
    <3>2. /\ SubSeq(p.headings, i + 1, Len(p.headings)) \in Seq(1..6)
          /\ Len(SubSeq(p.headings, i + 1, Len(p.headings))) = Len(p.headings) - i
      BY <1>0, <2>1, SMTT(30)
    <3> QED
      <4> DEFINE a == SubSeq(p.headings, 1, i - 1)
                 b == SubSeq(p.headings, i + 1, Len(p.headings))
      <4>1. a \in Seq(1..6) /\ b \in Seq(1..6) /\ cut = a \o b
        BY <3>1, <3>2
      <4>2. Len(a) = i - 1 /\ Len(b) = Len(p.headings) - i
        BY <3>1, <3>2
      <4>3. Len(p.headings) \in Nat
        BY <1>0
      <4> HIDE DEF a, b, cut
      <4>4. cut \in Seq(1..6) /\ Len(cut) = Len(a) + Len(b)
        BY <4>1
      <4> QED
        BY <4>2, <4>3, <4>4, <1>0, <2>1
  <2>3. Len(cut) = Len(p.headings) - 1
        /\ \A j \in 1..Len(cut) : cut[j] = IF j < i THEN p.headings[j] ELSE p.headings[j + 1]
    <3> DEFINE n == Len(p.headings)
               a == SubSeq(p.headings, 1, i - 1)
               b == SubSeq(p.headings, i + 1, n)
    <3>1. IsSeq(p.headings) /\ n \in Nat /\ i \in 1..n
      BY <1>0, <2>1 DEF IsSeq
    <3>2. /\ IsSeq(a) /\ Len(a) = i - 1 /\ \A j \in 1..i - 1 : a[j] = p.headings[j]
      <4>1. i - 1 \in Int /\ i - 1 <= Len(p.headings) /\ 1 \in Nat \ {0}
        BY <3>1
      <4>2. /\ IsSeq(a) /\ Len(a) = IF 1 <= i - 1 THEN (i - 1) - 1 + 1 ELSE 0
            /\ \A j \in 1..(i - 1) - 1 + 1 : a[j] = p.headings[1 + j - 1]
        BY <3>1, <4>1, SubSeqAny
      <4> HIDE DEF a, n
      <4> QED
        BY <3>1, <4>2
    <3>3. /\ IsSeq(b) /\ Len(b) = n - i /\ \A j \in 1..n - i : b[j] = p.headings[i + j]
      <4>1. i + 1 \in Nat \ {0} /\ n \in Int /\ n <= Len(p.headings)
        BY <3>1
      <4>2. /\ IsSeq(b) /\ Len(b) = IF i + 1 <= n THEN n - (i + 1) + 1 ELSE 0
            /\ \A j \in 1..n - (i + 1) + 1 : b[j] = p.headings[(i + 1) + j - 1]
        <5> HIDE DEF n
        <5> QED
          BY <3>1, <4>1, SubSeqAny
      <4> HIDE DEF b, n
      <4> QED
        BY <3>1, <4>2
    <3> HIDE DEF a, b
    <3>4. /\ Len(a \o b) = Len(a) + Len(b)
          /\ \A j \in 1..Len(a) : (a \o b)[j] = a[j]
          /\ \A j \in Len(a) + 1..Len(a) + Len(b) : (a \o b)[j] = b[j - Len(a)]
      BY <3>2, <3>3, ConcatAny, ZenonT(60)
    <3>5. cut = a \o b
      BY DEF a, b
    <3> HIDE DEF cut, n
    <3>6. Len(cut) = n - 1
      BY <3>1, <3>2, <3>3, <3>4, <3>5
    <3>7. ASSUME NEW j \in 1..n - 1
          PROVE  cut[j] = IF j < i THEN p.headings[j] ELSE p.headings[j + 1]
      <4>1. CASE j < i
        BY <4>1, <3>1, <3>2, <3>4, <3>5
      <4>2. CASE ~ (j < i)
        <5>1. j \in Len(a) + 1..Len(a) + Len(b) /\ j - Len(a) \in 1..n - i
              /\ i + (j - Len(a)) = j + 1
          BY <4>2, <3>1, <3>2, <3>3
        <5>2. cut[j] = b[j - Len(a)]
          BY <5>1, <3>4, <3>5
        <5> QED
          BY <5>1, <5>2, <4>2, <3>3
      <4> QED
        BY <4>1, <4>2
    <3> QED
      BY <3>6, <3>7 DEF n
  <2> HIDE DEF cut
  <2>4. ASSUME NEW l \in 1..6 PROVE Count(r.headings, l) <= r.open[l]
    <3>1. Count(cut, l) <= Count(p.headings, l) - (IF level = l THEN 1 ELSE 0)
      BY <1>0, <2>1, <2>2, <2>3, CountCut
    <3>2. /\ Count(cut, l) \in Nat /\ Count(p.headings, l) \in Nat
          /\ Count(p.headings, l) <= p.open[l] /\ q.open[l] \in Nat
      BY <1>0, <1>6, <2>2, CountIsNat
    <3> QED
      BY <3>1, <3>2, <1>4, <1>6
  <2>5. Nested(r)
    BY <2>4, <1>4, <1>6 DEF Nested
  <2> QED
    BY <1>0, <1>4, <2>2, <2>5, RestyleGood
<1> QED
  BY <1>1, <1>3, <1>5

(* The address of the anchor that is left open is freed, that of the new one *)
(* is allocated, and belongs to no range yet.                                *)
LEMMA OpenLinkGood ==
  ASSUME NEW p, Good(p), NEW tag
  PROVE  Good(OpenLink(p, tag))
<1> DEFINE n == Len(tag)
           url == ExtractAttributeValue(IF tag[n] = "/" THEN SubSeq(tag, 1, n - 1) ELSE tag, "href")
           href == IF url # <<>> /\ "href" \notin p.lacks
                   THEN [id |-> p.made + 1, url |-> url] ELSE NoLink
           q == OpenLink(p, tag)
<1>1. q = [p EXCEPT !.made = IF href # NoLink THEN @ + 1 ELSE @,
                    !.live = (@ \cup {href}) \ {p.href, NoLink},
                    !.href = href, !.hasStart = FALSE, !.start = CurrentOutputOffset(p)]
  BY DEF OpenLink
<1> HIDE DEF n, url
<1>0. IsPage(p) /\ p.made \in Nat
  BY DEF Good, Bounded
<1>2. /\ IsPage(q) /\ SameText(p, q) /\ q.list = p.list /\ q.title = p.title
      /\ q.depth = p.depth /\ q.headings = p.headings
      /\ q.links = p.links /\ q.capacity = p.capacity
      /\ q.made = (IF href # NoLink THEN p.made + 1 ELSE p.made)
      /\ q.live = (p.live \cup {href}) \ {p.href, NoLink} /\ q.href = href
      /\ ~ q.hasStart /\ q.lastWasSpace = p.lastWasSpace /\ q.open = p.open
  <2> HIDE DEF href, q
  <2> QED
    BY <1>0, <1>1 DEF IsPage, PageFields, SameText
<1>3. \/ href = NoLink
      \/ href # NoLink /\ href.id = p.made + 1
  BY <1>0 DEF NoLink
<1> HIDE DEF q, href
<1>4. q.made \in Nat /\ p.made <= q.made
  BY <1>0, <1>2
<1>5. Bounded(q)
  BY <1>2, <1>4 DEF Good, Bounded, SameText
<1>6. Rendered(q)
  <2>1. GetCurrentStyle(q) = GetCurrentStyle(p)
    BY <1>2, StyleKeeps
  <2> QED
    BY <1>2, <2>1 DEF Good, Rendered, SameText
<1>7. Owned(q)
  <2>0. Owned(p)
    BY DEF Good
  <2>1. Hrefs(q) = Hrefs(p)
    BY <1>2 DEF Hrefs
  <2>2. \A h \in Hrefs(p) : h.id \in 1..p.made /\ h # NoLink
    BY <2>0 DEF Owned, Hrefs, NoLink
  <2>3. href \notin Hrefs(p)
    BY <2>2, <1>0, <1>3
  <2>4. q.href = NoLink \/ q.href.id \in 1..q.made
    BY <1>0, <1>2, <1>3
  <2>5. href = p.href => href = NoLink
    BY <1>0, <1>3, <2>0 DEF Owned
  <2>6. q.live = (Hrefs(q) \cup {q.href}) \ {NoLink}
    <3>1. p.live = (Hrefs(p) \cup {p.href}) \ {NoLink} /\ p.href \notin Hrefs(p)
      BY <2>0 DEF Owned
    <3> QED
      BY <3>1, <1>2, <2>1, <2>3, <2>5
  <2>7. \A i \in 1..Len(q.links) : q.links[i].href.id \in 1..q.made
    BY <2>0, <1>0, <1>2, <1>4 DEF Owned
  <2> QED
    BY <2>0, <2>1, <2>3, <2>4, <2>6, <2>7, <1>2 DEF Owned
<1>8. Placed(q)
  <2>1. Shown(q) = Shown(p) /\ Reach(q) = Reach(p)
    BY <1>2 DEF Shown, Reach, CurrentOutputOffset, SameText
  <2>2. Ranges(q) /\ Started(q)
    BY <1>2, <2>1 DEF Good, Placed, Anchored, Ranges, Started
  <2>3. ASSUME NEW i \in 1..Shown(q) PROVE Covers(q, i)
    <3>1. Covers(p, i) /\ q.seen[i] = p.seen[i]
      BY <1>2, <2>1 DEF Good, Placed, Anchored, SameText
    <3>2. p.seen[i].href = NoLink \/ p.seen[i].href.id \in 1..p.made
      BY <3>1 DEF Covers
    <3>3. q.href # NoLink => p.seen[i].href # q.href
      <4>1. NoLink.id = 0
        BY DEF NoLink
      <4> QED
        BY <3>2, <1>0, <1>2, <1>3, <4>1
    <3>4. p.seen[i].href = NoLink \/ p.seen[i].href.id \in 1..q.made
      BY <3>2, <1>0, <1>4
    <3> QED
      BY <3>1, <3>3, <3>4, <1>2 DEF Covers
  <2>4. Spaced(q) /\ Nested(q)
    BY <1>2, SpacedKeeps, NestedKeeps DEF Good, Placed, SameText
  <2> QED
    BY <2>2, <2>3, <2>4 DEF Placed, Anchored
<1> QED
  BY <1>5, <1>6, <1>7, <1>8 DEF Good, q

(* The address of the active link goes to the range that is appended, or is *)
(* freed if there is none.                                                  *)
LEMMA EndLinkGood ==
  ASSUME NEW p, Good(p), Flushed(p)
  PROVE  Good(EndLink(p)) /\ EndLink(p).href = NoLink
         /\ SameText(p, EndLink(p)) /\ (p.href = NoLink => EndLink(p) = p)
<1> DEFINE end == CurrentOutputOffset(p)
           start == IF p.hasStart THEN p.start ELSE end
           kept == end > start /\ LinkFits(p)
           a == AppendLinkRange(p, start, end)
           q == IF kept THEN a ELSE p
           r == [q EXCEPT !.live = IF kept THEN @ ELSE @ \ {p.href},
                          !.href = NoLink, !.hasStart = FALSE]
<1>0. IsPage(p) /\ Owned(p) /\ Bounded(p) /\ Rendered(p) /\ p.made \in Nat
  BY DEF Good, Bounded
<1>1. EndLink(p) = IF p.href = NoLink THEN p ELSE r
  BY DEF EndLink
<1>5. /\ Placed(p) /\ (p.total < MaxInsert => end = Len(p.seen) /\ Reach(p) = end)
      /\ (p.total >= MaxInsert => Reach(p) = end)
      /\ end \in Nat /\ Shown(p) \in Nat /\ Shown(p) <= end
  <2>1. /\ Len(p.seen) \in Nat /\ p.total \in 0..MaxInsert /\ MaxInsert \in Nat
        /\ Len(p.text) \in Nat /\ end = p.total + Len(p.text)
        /\ (p.total < MaxInsert => end = Len(p.seen))
    BY <1>0, OffsetIsNat
  <2>2. p.total < MaxInsert => Len(p.text) = 0
    BY <2>1, NoneAny DEF Flushed
  <2> HIDE DEF end
  <2>3. Reach(p) = (IF p.total < MaxInsert THEN p.total ELSE end)
        /\ Shown(p) = (IF p.total < MaxInsert THEN Len(p.seen) ELSE MaxInsert)
    BY DEF Reach, Shown, end
  <2> QED
    BY <2>1, <2>2, <2>3 DEF Good
<1>2. CASE p.href = NoLink
  BY <1>1, <1>2 DEF SameText
<1>3. CASE p.href # NoLink /\ ~ kept
  <2>1. /\ IsPage(r) /\ SameText(p, r) /\ r.list = p.list /\ r.title = p.title
        /\ r.depth = p.depth /\ r.headings = p.headings
        /\ r.links = p.links /\ r.capacity = p.capacity /\ r.made = p.made
        /\ r.live = p.live \ {p.href} /\ r.href = NoLink
        /\ ~ r.hasStart /\ r.lastWasSpace = p.lastWasSpace /\ r.open = p.open
    <3>1. q = p
      BY <1>3
    <3> HIDE DEF q, kept
    <3> QED
      BY <1>0, <1>3, <3>1 DEF IsPage, PageFields, SameText
  <2> HIDE DEF r
  <2>2. Bounded(r)
    BY <1>0, <2>1 DEF Bounded, SameText
  <2>3. Rendered(r)
    <3>1. GetCurrentStyle(r) = GetCurrentStyle(p)
      BY <2>1, StyleKeeps
    <3> QED
      BY <1>0, <2>1, <3>1 DEF Rendered, SameText
  <2>4. Hrefs(r) = Hrefs(p) /\ NoLink \notin Hrefs(p)
    BY <1>0, <2>1 DEF Hrefs, Owned, NoLink
  <2>5. Owned(r)
    BY <1>0, <2>1, <2>4 DEF Owned
  <2>6. Placed(r)
    <3>1. Shown(r) = Shown(p) /\ Reach(r) = Reach(p)
      BY <2>1 DEF Shown, Reach, CurrentOutputOffset, SameText
    <3>2. Ranges(r) /\ Started(r)
      BY <1>5, <2>1, <3>1 DEF Placed, Anchored, Ranges, Started
    <3>3. ASSUME NEW k \in 1..Shown(r) PROVE Covers(r, k)
      <4>1. Covers(p, k) /\ r.seen[k] = p.seen[k]
        BY <1>5, <2>1, <3>1 DEF Placed, Anchored, SameText
      <4> QED
        BY <4>1, <2>1 DEF Covers
    <3>4. Spaced(r) /\ Nested(r)
      BY <1>5, <2>1, SpacedKeeps, NestedKeeps DEF Placed, SameText
    <3> QED
      BY <3>2, <3>3, <3>4 DEF Placed, Anchored
  <2> QED
    BY <1>1, <1>3, <2>1, <2>2, <2>3, <2>5, <2>6 DEF Good
<1>4. CASE p.href # NoLink /\ kept
  <2> DEFINE range == [start |-> start, end |-> end, href |-> p.href]
  <2>1. /\ IsPage(r) /\ SameText(p, r) /\ r.list = p.list /\ r.title = p.title
        /\ r.depth = p.depth /\ r.headings = p.headings
        /\ r.links = Append(p.links, range) /\ r.made = p.made
        /\ r.capacity = (IF Len(p.links) < p.capacity THEN p.capacity
                         ELSE IF p.capacity = 0 THEN FirstLinks ELSE 2 * p.capacity)
        /\ r.live = p.live /\ r.href = NoLink
        /\ ~ r.hasStart /\ r.lastWasSpace = p.lastWasSpace /\ r.open = p.open
    <3>1. q = a
      BY <1>4
    <3>2. /\ IsPage(a) /\ SameText(p, a) /\ a.list = p.list /\ a.title = p.title
          /\ a.depth = p.depth /\ a.headings = p.headings
          /\ a.links = Append(p.links, range) /\ a.made = p.made
          /\ a.capacity = (IF Len(p.links) < p.capacity THEN p.capacity
                           ELSE IF p.capacity = 0 THEN FirstLinks ELSE 2 * p.capacity)
          /\ a.live = p.live /\ a.lastWasSpace = p.lastWasSpace /\ a.open = p.open
      <4> HIDE DEF start, end
      <4> QED
        BY <1>0 DEF IsPage, PageFields, SameText, AppendLinkRange
    <3> HIDE DEF q, kept, a, range
    <3> QED
      BY <1>4, <3>1, <3>2 DEF IsPage, PageFields, SameText
  <2>2. range.href = p.href /\ range.start = start /\ range.end = end
    OBVIOUS
  <2>3. LinkFits(p)
    BY <1>4
  <2>15. p.hasStart /\ start = p.start /\ start < end /\ p.start \in Nat
    <3>1. end > start
      BY <1>4
    <3>2. p.hasStart
      <4> HIDE DEF end
      <4> QED
        BY <3>1, <1>5
    <3>3. p.start \in Nat /\ start = p.start
      BY <1>5, <3>2 DEF Placed, Anchored, Started
    <3> HIDE DEF end, start
    <3> QED
      BY <3>1, <3>2, <3>3, <1>5
  <2> HIDE DEF r, range, kept, start, end
  <2>4. Bounded(r)
    BY <1>0, <2>1 DEF Bounded, SameText
  <2>5. Rendered(r)
    <3>1. GetCurrentStyle(r) = GetCurrentStyle(p)
      BY <2>1, StyleKeeps
    <3> QED
      BY <1>0, <2>1, <3>1 DEF Rendered, SameText
  <2>6. /\ IsSeq(r.links) /\ Len(r.links) = Len(p.links) + 1 /\ Len(p.links) \in Nat
        /\ \A i \in 1..Len(p.links) : r.links[i] = p.links[i]
        /\ r.links[Len(p.links) + 1] = range
    BY <1>0, <2>1, AppendAny DEF Owned
  <2>7. Len(r.links) <= r.capacity /\ r.capacity \in 0..MaxShort
    <3>1. Len(p.links) <= p.capacity /\ p.capacity \in 0..MaxShort
      BY <1>0 DEF Owned
    <3>2. Len(p.links) < p.capacity \/ 2 * p.capacity <= MaxShort
      BY <2>3 DEF LinkFits
    <3> QED
      BY <3>1, <3>2, <2>1, <2>6, Sizes
  <2>8. \A i \in 1..Len(r.links) : i \in 1..Len(p.links) \/ i = Len(p.links) + 1
    BY <2>6
  <2>9. Hrefs(r) = Hrefs(p) \cup {p.href}
    BY <2>2, <2>6, <2>8 DEF Hrefs
  <2>10. NoLink \notin Hrefs(r)
    <3>1. NoLink \notin Hrefs(p)
      BY <1>0 DEF Hrefs, Owned, NoLink
    <3> QED
      BY <3>1, <1>4, <2>9
  <2>11. ASSUME NEW i \in 1..Len(r.links)
         PROVE  r.links[i].href.id \in 1..r.made
    BY <1>0, <1>4, <2>1, <2>2, <2>6, <2>8 DEF Owned
  <2>12. ASSUME NEW i \in 1..Len(r.links), NEW j \in 1..Len(r.links),
                r.links[i].href = r.links[j].href
         PROVE  i = j
    <3>1. \A k \in 1..Len(p.links) : r.links[k].href # p.href
      BY <1>0, <2>6 DEF Owned, Hrefs
    <3>2. r.links[Len(p.links) + 1].href = p.href
      BY <2>2, <2>6
    <3>3. CASE i \in 1..Len(p.links) /\ j \in 1..Len(p.links)
      BY <1>0, <2>6, <2>12, <3>3 DEF Owned
    <3> QED
      BY <2>8, <2>12, <3>1, <3>2, <3>3
  <2>13. r.live = (Hrefs(r) \cup {r.href}) \ {NoLink}
    <3>1. p.live = (Hrefs(p) \cup {p.href}) \ {NoLink}
      BY <1>0 DEF Owned
    <3> QED
      BY <3>1, <2>1, <2>9
  <2>14. Owned(r)
    BY <2>1, <2>6, <2>7, <2>10, <2>11, <2>12, <2>13 DEF Owned
  <2>16. Anchored(r)
    <3>1. Shown(r) = Shown(p) /\ Reach(r) = end /\ Reach(p) = end
      <4>1. Shown(r) = Shown(p) /\ Reach(r) = Reach(p)
        BY <2>1 DEF Shown, Reach, CurrentOutputOffset, SameText
      <4>2. p.total \in Nat /\ MaxInsert \in Nat
        BY Sizes, <1>0 DEF Bounded
      <4> QED
        BY <4>1, <4>2, <1>5
    <3>2. Anchored(p)
      BY <1>5 DEF Placed
    <3>3. Ranges(r)
      <4>1. ASSUME NEW k \in 1..Len(p.links)
            PROVE  /\ p.links[k].start \in Nat /\ p.links[k].end \in Nat
                   /\ p.links[k].start < p.links[k].end /\ p.links[k].end <= end
                   /\ p.links[k].end <= start
                   /\ \A j \in 1..k - 1 : p.links[j].end <= p.links[k].start
        BY <3>1, <3>2, <2>15 DEF Anchored, Ranges, Started
      <4>2. ASSUME NEW k \in 1..Len(r.links), k \in 1..Len(p.links)
            PROVE  /\ r.links[k].start \in Nat /\ r.links[k].end \in Nat
                   /\ r.links[k].start < r.links[k].end /\ r.links[k].end <= Reach(r)
                   /\ \A j \in 1..k - 1 : r.links[j].end <= r.links[k].start
        <5>1. \A j \in 1..k - 1 : j \in 1..Len(p.links)
          BY <2>6, <4>2
        <5> QED
          BY <4>1, <4>2, <5>1, <2>6, <3>1
      <4>3. ASSUME NEW k \in 1..Len(r.links), k = Len(p.links) + 1
            PROVE  /\ r.links[k].start \in Nat /\ r.links[k].end \in Nat
                   /\ r.links[k].start < r.links[k].end /\ r.links[k].end <= Reach(r)
                   /\ \A j \in 1..k - 1 : r.links[j].end <= r.links[k].start
        <5>1. \A j \in 1..k - 1 : j \in 1..Len(p.links)
          BY <2>6, <4>3
        <5>2. r.links[k].start = start /\ r.links[k].end = end
          BY <2>2, <2>6, <4>3
        <5>3. ASSUME NEW j \in 1..k - 1 PROVE r.links[j].end <= r.links[k].start
          <6>1. j \in 1..Len(p.links) /\ r.links[j] = p.links[j]
            BY <5>1, <2>6
          <6> QED
            BY <6>1, <4>1, <5>2
        <5>4. start \in Nat /\ end \in Nat /\ start < end /\ end <= end
          BY <2>15, <1>5
        <5> QED
          BY <5>2, <5>3, <5>4, <3>1
      <4> QED
        BY <4>2, <4>3, <2>8 DEF Ranges
    <3>4. Started(r)
      BY <2>1 DEF Started
    <3>5. ASSUME NEW k \in 1..Shown(r) PROVE Covers(r, k)
      <4>1. Covers(p, k) /\ r.seen[k] = p.seen[k] /\ k \in Nat /\ k <= end
        BY <3>1, <3>2, <2>1, <1>5 DEF Anchored, SameText
      <4>2. Within(k, range) <=> p.start < k
        BY <4>1, <2>2, <2>15, <1>5 DEF Within
      <4>3. ASSUME NEW j \in 1..Len(r.links)
            PROVE  /\ Within(k, r.links[j]) => r.seen[k].href = r.links[j].href
                   /\ r.seen[k].href = r.links[j].href /\ r.seen[k].ch # "\r"
                        => Within(k, r.links[j])
        <5>1. CASE j \in 1..Len(p.links)
          BY <5>1, <4>1, <2>6 DEF Covers
        <5>2. CASE j = Len(p.links) + 1
          BY <5>2, <4>1, <4>2, <2>2, <2>6, <2>15, <1>4 DEF Covers
        <5> QED
          BY <5>1, <5>2, <2>8
      <4>4. r.seen[k].href = NoLink \/ r.seen[k].href.id \in 1..r.made
        BY <4>1, <2>1 DEF Covers
      <4> QED
        BY <4>3, <4>4, <2>1 DEF Covers
    <3> QED
      BY <3>3, <3>4, <3>5 DEF Anchored
  <2>17. Placed(r)
    BY <1>5, <2>1, <2>16, SpacedKeeps, NestedKeeps DEF Placed, SameText
  <2> QED
    BY <1>1, <1>4, <2>1, <2>4, <2>5, <2>14, <2>17 DEF Good
<1> QED
  BY <1>2, <1>3, <1>4

-----------------------------------------------------------------------------
(* Tags and entities. *)

LEMMA EmitGood ==
  ASSUME NEW p, Good(p), NEW c
  PROVE  Good(EmitChar(p, c))
BY EmitCharEmits, EmitsGood DEF Good

LEMMA EmitStringGood ==
  ASSUME NEW p, Good(p), NEW s, Len(s) \in Nat
  PROVE  Good(EmitString(p, s))
BY EmitStringEmits, EmitsGood DEF Good

LEMMA EntityGood ==
  ASSUME NEW p, Good(p), NEW entity
  PROVE  Good(HandleEntity(p, entity))
BY EmitGood DEF HandleEntity

LEMMA LevelsAndDepths ==
  /\ \A name \in DOMAIN Level : Level[name] \in 1..6
  /\ \A name \in DOMAIN Counter : Counter[name] \in Depths
BY DEF Level, Counter, Depths

LEMMA DeeperListGood ==
  ASSUME NEW p, Good(p)
  PROVE  /\ Good(DeeperList(p))
         /\ Good([p EXCEPT !.list = IF @ > 0 THEN @ - 1 ELSE @])
<1> DEFINE q == DeeperList(p)
           r == [p EXCEPT !.list = IF @ > 0 THEN @ - 1 ELSE @]
<1>0. /\ IsPage(p) /\ p.list \in (-MaxShort - 1)..MaxShort /\ MaxShort \in Nat
      /\ IsSeq(p.title) /\ Len(p.title) \in 0..TitleSize - 1
  BY Sizes DEF Good, Bounded
<1>1. /\ IsPage(q) /\ SameText(p, q) /\ Keeps(p, q) /\ Tracks(p, q) /\ q.title = p.title
      /\ q.list = IF p.list = MaxShort THEN -MaxShort - 1 ELSE p.list + 1
  BY <1>0 DEF DeeperList, IsPage, PageFields, SameText, Keeps, SameMarks, Tracks
<1>2. /\ IsPage(r) /\ SameText(p, r) /\ Keeps(p, r) /\ Tracks(p, r) /\ r.title = p.title
      /\ r.list = IF p.list > 0 THEN p.list - 1 ELSE p.list
  BY <1>0 DEF IsPage, PageFields, SameText, Keeps, SameMarks, Tracks
<1> HIDE DEF q, r
<1>3. q.list \in (-MaxShort - 1)..MaxShort /\ r.list \in (-MaxShort - 1)..MaxShort
  BY <1>0, <1>1, <1>2
<1>4. Good(q)
  BY <1>0, <1>1, <1>3, PlainGood
<1>5. Good(r)
  BY <1>0, <1>2, <1>3, PlainGood
<1> QED
  BY <1>4, <1>5 DEF q, r

LEMMA FlagsGood ==
  ASSUME NEW p, Good(p), NEW name
  PROVE  /\ Good([p EXCEPT !.raw = @ \cup {name}])
         /\ Good([p EXCEPT !.raw = @ \ {name}])
         /\ Good([p EXCEPT !.inTitle = TRUE, !.title = <<>>])
         /\ Good([p EXCEPT !.inTitle = FALSE,
                           !.wTitle = IF p.title # <<>> THEN p.title ELSE @])
<1> DEFINE a == [p EXCEPT !.raw = @ \cup {name}]
           b == [p EXCEPT !.raw = @ \ {name}]
           c == [p EXCEPT !.inTitle = TRUE, !.title = <<>>]
           d == [p EXCEPT !.inTitle = FALSE, !.wTitle = IF p.title # <<>> THEN p.title ELSE @]
<1>0. /\ IsPage(p) /\ p.list \in (-MaxShort - 1)..MaxShort
      /\ IsSeq(p.title) /\ Len(p.title) \in 0..TitleSize - 1
      /\ IsSeq(<<>>) /\ Len(<<>>) \in 0..TitleSize - 1
  BY Sizes, NoneAny DEF Good, Bounded
<1>1. IsPage(a) /\ SameText(p, a) /\ Keeps(p, a) /\ Tracks(p, a) /\ a.title = p.title /\ a.list = p.list
  BY <1>0 DEF IsPage, PageFields, SameText, Keeps, SameMarks, Tracks
<1>2. IsPage(b) /\ SameText(p, b) /\ Keeps(p, b) /\ Tracks(p, b) /\ b.title = p.title /\ b.list = p.list
  BY <1>0 DEF IsPage, PageFields, SameText, Keeps, SameMarks, Tracks
<1>3. IsPage(c) /\ SameText(p, c) /\ Keeps(p, c) /\ Tracks(p, c) /\ c.title = <<>> /\ c.list = p.list
  BY <1>0 DEF IsPage, PageFields, SameText, Keeps, SameMarks, Tracks
<1>4. IsPage(d) /\ SameText(p, d) /\ Keeps(p, d) /\ Tracks(p, d) /\ d.title = p.title /\ d.list = p.list
  BY <1>0 DEF IsPage, PageFields, SameText, Keeps, SameMarks, Tracks
<1> HIDE DEF a, b, c, d
<1>5. Good(a)
  BY <1>0, <1>1, PlainGood
<1>6. Good(b)
  BY <1>0, <1>2, PlainGood
<1>7. Good(c)
  BY <1>0, <1>3, PlainGood
<1>8. Good(d)
  BY <1>0, <1>4, PlainGood
<1> QED
  BY <1>5, <1>6, <1>7, <1>8 DEF a, b, c, d

LEMMA OpenTagGood ==
  ASSUME NEW p, Good(p), NEW tag
  PROVE  Good(HandleOpenTag(p, tag))
<1> DEFINE name == TagName(tag)
           q == FlushText(p)
           new == EmitNewline(q)
           bullet == (IF new.list > 1 THEN <<" ", " ">> ELSE <<>>) \o <<"bullet", " ">>
           rule == [i \in 1..HrWidth |-> "-"]
           img == <<"[", "i", "m", "g", "]">>
<1>1. Good(q) /\ Flushed(q)
  BY FlushGood
<1>2. Good(new) /\ Flushed(new)
  BY <1>1, EmitNewlineGood
<1>3. Len(rule) \in Nat /\ Len(bullet) \in Nat /\ Len(img) \in Nat
  <2>1. Len(rule) \in Nat
    BY Sizes
  <2>2. Len(bullet) \in Nat
    <3> DEFINE indent == IF new.list > 1 THEN <<" ", " ">> ELSE <<>>
    <3>1. <<" ", " ">> \in Seq({" ", "bullet"}) /\ <<"bullet", " ">> \in Seq({" ", "bullet"})
      OBVIOUS
    <3>2. IsSeq(indent) /\ IsSeq(<<"bullet", " ">>)
      <4> HIDE DEF new
      <4> QED
        BY <3>1, NoneAny DEF IsSeq
    <3> HIDE DEF indent
    <3>3. Len(indent \o <<"bullet", " ">>) = Len(indent) + Len(<<"bullet", " ">>)
          /\ Len(indent) \in Nat /\ Len(<<"bullet", " ">>) \in Nat
      BY <3>2, ConcatAny
    <3> HIDE DEF new
    <3>4. Len(indent \o <<"bullet", " ">>) \in Nat
      BY <3>3
    <3> QED
      BY <3>4 DEF indent
  <2> QED
    BY <2>1, <2>2
<1>4. \/ HandleOpenTag(p, tag) = new
      \/ name \in DOMAIN Level /\ HandleOpenTag(p, tag) = PushHeading(new, Level[name])
      \/ HandleOpenTag(p, tag) = EmitNewline(EmitString(new, rule))
      \/ HandleOpenTag(p, tag) = EmitString(new, bullet)
      \/ HandleOpenTag(p, tag) = EmitNewline(DeeperList(q))
      \/ name \in DOMAIN Counter /\ HandleOpenTag(p, tag) = IncrementDepth(q, Counter[name])
      \/ HandleOpenTag(p, tag) = OpenLink(IncrementDepth(q, "underline"), tag)
      \/ HandleOpenTag(p, tag) = EmitNewline(IncrementDepth(q, "pre"))
      \/ HandleOpenTag(p, tag) = [q EXCEPT !.raw = @ \cup {name}]
      \/ HandleOpenTag(p, tag) = [q EXCEPT !.inTitle = TRUE, !.title = <<>>]
      \/ HandleOpenTag(p, tag) = EmitString(p, img)
      \/ HandleOpenTag(p, tag) = EmitChar(p, "\t")
      \/ HandleOpenTag(p, tag) = p
  <2> DEFINE out == HandleOpenTag(p, tag)
  <2>1. name \in Breaks \cup {"br"} => out = new
    BY DEF HandleOpenTag, Breaks, Level, Counter
  <2>2. name \in DOMAIN Level => out = PushHeading(new, Level[name])
    BY DEF HandleOpenTag, Breaks, Level, Counter
  <2>3. name = "hr" => out = EmitNewline(EmitString(new, rule))
    BY DEF HandleOpenTag, Breaks, Level, Counter
  <2>4. name = "li" => out = EmitString(new, bullet)
    BY DEF HandleOpenTag, Breaks, Level, Counter
  <2>5. name \in {"ul", "ol"} => out = EmitNewline(DeeperList(q))
    BY DEF HandleOpenTag, Breaks, Level, Counter
  <2>6. name \in DOMAIN Counter => out = IncrementDepth(q, Counter[name])
    BY DEF HandleOpenTag, Breaks, Level, Counter
  <2>7. name = "a" => out = OpenLink(IncrementDepth(q, "underline"), tag)
    BY DEF HandleOpenTag, Breaks, Level, Counter
  <2>8. name = "pre" => out = EmitNewline(IncrementDepth(q, "pre"))
    BY DEF HandleOpenTag, Breaks, Level, Counter
  <2>9. name \in {"script", "style"} => out = [q EXCEPT !.raw = @ \cup {name}]
    BY DEF HandleOpenTag, Breaks, Level, Counter
  <2>10. name = "title" => out = [q EXCEPT !.inTitle = TRUE, !.title = <<>>]
    BY DEF HandleOpenTag, Breaks, Level, Counter
  <2>11. name = "img" => out = EmitString(p, img)
    BY DEF HandleOpenTag, Breaks, Level, Counter
  <2>12. name \in {"td", "th"} => out = EmitChar(p, "\t")
    BY DEF HandleOpenTag, Breaks, Level, Counter
  <2>13. \/ name \in Breaks \cup {"br"} \/ name \in DOMAIN Level \/ name \in DOMAIN Counter
         \/ name \in {"ul", "ol"} \/ name \in {"script", "style"} \/ name \in {"td", "th"}
         \/ name = "hr" \/ name = "li" \/ name = "a" \/ name = "pre"
         \/ name = "title" \/ name = "img"
         \/ out = p
    BY DEF HandleOpenTag, Breaks, Level, Counter
  <2> HIDE DEF out, q, new, bullet, rule, img, name
  <2>14. \/ out = new
         \/ name \in DOMAIN Level /\ out = PushHeading(new, Level[name])
         \/ out = EmitNewline(EmitString(new, rule))
         \/ out = EmitString(new, bullet)
         \/ out = EmitNewline(DeeperList(q))
         \/ name \in DOMAIN Counter /\ out = IncrementDepth(q, Counter[name])
         \/ out = OpenLink(IncrementDepth(q, "underline"), tag)
         \/ out = EmitNewline(IncrementDepth(q, "pre"))
         \/ out = [q EXCEPT !.raw = @ \cup {name}]
         \/ out = [q EXCEPT !.inTitle = TRUE, !.title = <<>>]
         \/ out = EmitString(p, img)
         \/ out = EmitChar(p, "\t")
         \/ out = p
    BY <2>1, <2>2, <2>3, <2>4, <2>5, <2>6, <2>7, <2>8, <2>9, <2>10, <2>11, <2>12, <2>13, Zenon
  <2> QED
    BY <2>14 DEF out
<1> HIDE DEF q, new, bullet, rule, img, name
<1>5. ASSUME name \in DOMAIN Level PROVE Good(PushHeading(new, Level[name]))
  BY <1>2, <1>5, LevelsAndDepths, PushHeadingGood
<1>6. Good(EmitNewline(EmitString(new, rule))) /\ Good(EmitString(new, bullet))
  BY <1>2, <1>3, EmitStringGood, EmitNewlineGood
<1>7. Good(EmitNewline(DeeperList(q)))
  BY <1>1, DeeperListGood, EmitNewlineGood
<1>8. ASSUME name \in DOMAIN Counter PROVE Good(IncrementDepth(q, Counter[name]))
  BY <1>1, <1>8, LevelsAndDepths, DepthGood
<1>9. "underline" \in Depths /\ "pre" \in Depths
  BY DEF Depths
<1>10. Good(OpenLink(IncrementDepth(q, "underline"), tag))
  BY <1>1, <1>9, DepthGood, OpenLinkGood
<1>11. Good(EmitNewline(IncrementDepth(q, "pre")))
  BY <1>1, <1>9, DepthGood, EmitNewlineGood
<1>12. /\ Good([q EXCEPT !.raw = @ \cup {name}])
       /\ Good([q EXCEPT !.inTitle = TRUE, !.title = <<>>])
  BY <1>1, FlagsGood
<1>13. Good(EmitString(p, img)) /\ Good(EmitChar(p, "\t"))
  BY <1>3, EmitStringGood, EmitGood
<1> QED
  BY <1>2, <1>4, <1>5, <1>6, <1>7, <1>8, <1>10, <1>11, <1>12, <1>13

LEMMA CloseTagGood ==
  ASSUME NEW p, Good(p), NEW tag
  PROVE  Good(HandleCloseTag(p, tag))
<1> DEFINE name == NameOf(tag)
           q == FlushText(p)
           less == [q EXCEPT !.list = IF @ > 0 THEN @ - 1 ELSE @]
           shown == [p EXCEPT !.raw = @ \ {name}]
           titled == [p EXCEPT !.inTitle = FALSE,
                               !.wTitle = IF p.title # <<>> THEN p.title ELSE @]
<1>1. Good(q) /\ Flushed(q)
  BY FlushGood
<1>2. Good(less) /\ Good(shown) /\ Good(titled)
  BY <1>1, DeeperListGood, FlagsGood
<1>3. \/ HandleCloseTag(p, tag) = EmitNewline(q)
      \/ /\ name \in DOMAIN Level
         /\ HandleCloseTag(p, tag) = EmitNewline(PopHeading(q, Level[name]))
      \/ HandleCloseTag(p, tag) = EmitNewline(less)
      \/ name \in DOMAIN Counter /\ HandleCloseTag(p, tag) = DecrementDepth(q, Counter[name])
      \/ HandleCloseTag(p, tag) = EndLink(DecrementDepth(q, "underline"))
      \/ HandleCloseTag(p, tag) = EmitNewline(DecrementDepth(q, "pre"))
      \/ HandleCloseTag(p, tag) = shown
      \/ HandleCloseTag(p, tag) = titled
      \/ HandleCloseTag(p, tag) = p
  BY DEF HandleCloseTag
<1> HIDE DEF q, less, shown, titled, name
<1>4. Good(EmitNewline(q)) /\ Good(EmitNewline(less))
  BY <1>1, <1>2, EmitNewlineGood
<1>5. ASSUME name \in DOMAIN Level PROVE Good(EmitNewline(PopHeading(q, Level[name])))
  BY <1>1, <1>5, LevelsAndDepths, PopHeadingGood, EmitNewlineGood
<1>6. ASSUME name \in DOMAIN Counter PROVE Good(DecrementDepth(q, Counter[name]))
  BY <1>1, <1>6, LevelsAndDepths, DepthGood
<1>7. "underline" \in Depths /\ "pre" \in Depths
  BY DEF Depths
<1>8. Good(EndLink(DecrementDepth(q, "underline")))
  BY <1>1, <1>7, DepthGood, EndLinkGood
<1>9. Good(EmitNewline(DecrementDepth(q, "pre")))
  BY <1>1, <1>7, DepthGood, EmitNewlineGood
<1> QED
  BY <1>2, <1>3, <1>4, <1>5, <1>6, <1>8, <1>9, SMTT(30)

LEMMA RawGood ==
  ASSUME NEW p, Good(p), NEW S
  PROVE  Good([p EXCEPT !.raw = @ \ S])
<1> DEFINE q == [p EXCEPT !.raw = @ \ S]
<1>1. /\ IsPage(p) /\ p.list \in (-MaxShort - 1)..MaxShort
      /\ IsSeq(p.title) /\ Len(p.title) \in 0..TitleSize - 1
  BY DEF Good, Bounded
<1>2. IsPage(q) /\ SameText(p, q) /\ Keeps(p, q) /\ Tracks(p, q) /\ q.title = p.title /\ q.list = p.list
  BY <1>1 DEF IsPage, PageFields, SameText, Keeps, SameMarks, Tracks
<1> HIDE DEF q
<1>3. Good(q)
  BY <1>1, <1>2, PlainGood
<1> QED
  BY <1>3 DEF q

-----------------------------------------------------------------------------
(* The scanner. *)

ScanFields == {"state", "tag", "first", "closing", "dashes", "entity"}
States == {Text, "PS_TAG", "PS_COMMENT", "PS_ENTITY"}

ScanOK(s) ==
  /\ s = [f \in ScanFields |-> s[f]] /\ s.state \in States
  /\ IsSeq(s.tag) /\ Len(s.tag) \in 0..TagSize - 1
  /\ IsSeq(s.entity) /\ Len(s.entity) \in 0..EntitySize - 1

(* What the scanner and the page hold while characters are fed. *)
Reads(z) == z = [scan |-> z.scan, page |-> z.page] /\ ScanOK(z.scan) /\ Good(z.page)

LEMMA ReadsIntro ==
  ASSUME NEW s, ScanOK(s), NEW p, Good(p)
  PROVE  Reads([scan |-> s, page |-> p])
BY DEF Reads

LEMMA ScanReads ==
  ASSUME NEW z, Reads(z), NEW s, ScanOK(s)
  PROVE  Reads([z EXCEPT !.scan = s])
<1>1. [z EXCEPT !.scan = s] = [scan |-> s, page |-> z.page]
  BY DEF Reads
<1> QED
  BY <1>1 DEF Reads

LEMMA PageReads ==
  ASSUME NEW z, Reads(z), NEW p, Good(p)
  PROVE  Reads([z EXCEPT !.page = p])
<1>1. [z EXCEPT !.page = p] = [scan |-> z.scan, page |-> p]
  BY DEF Reads
<1> QED
  BY <1>1 DEF Reads

LEMMA ScanIntro ==
  ASSUME NEW s, ScanOK(s), NEW r, r = [f \in ScanFields |-> r[f]], r.state \in States,
         r.tag \in {s.tag, <<>>}, r.entity \in {s.entity, <<>>}
  PROVE  ScanOK(r)
<1>1. /\ IsSeq(<<>>) /\ Len(<<>>) \in 0..TagSize - 1 /\ Len(<<>>) \in 0..EntitySize - 1
  BY Sizes, NoneAny
<1> QED
  BY <1>1 DEF ScanOK

LEMMA StateScan ==
  ASSUME NEW s, ScanOK(s), NEW state \in States, NEW n, NEW b
  PROVE  /\ ScanOK([s EXCEPT !.state = state])
         /\ ScanOK([s EXCEPT !.closing = TRUE])
         /\ ScanOK([s EXCEPT !.dashes = n])
         /\ ScanOK([s EXCEPT !.dashes = n, !.state = state])
         /\ ScanOK([s EXCEPT !.state = state, !.dashes = n])
         /\ ScanOK([s EXCEPT !.state = state, !.entity = <<>>])
         /\ ScanOK([s EXCEPT !.state = state, !.tag = <<>>, !.closing = b, !.dashes = n])
<1>1. s = [f \in ScanFields |-> s[f]] /\ s.state \in States
  BY DEF ScanOK
<1>2. ASSUME NEW r, r \in {[s EXCEPT !.state = state], [s EXCEPT !.closing = TRUE],
                           [s EXCEPT !.dashes = n], [s EXCEPT !.dashes = n, !.state = state],
                           [s EXCEPT !.state = state, !.dashes = n],
                           [s EXCEPT !.state = state, !.entity = <<>>],
                           [s EXCEPT !.state = state, !.tag = <<>>, !.closing = b,
                                     !.dashes = n]}
      PROVE  /\ r = [f \in ScanFields |-> r[f]] /\ r.state \in States
             /\ r.tag \in {s.tag, <<>>} /\ r.entity \in {s.entity, <<>>}
  BY <1>1, <1>2 DEF ScanFields
<1> QED
  BY <1>2, ScanIntro

LEMMA AccumulateScan ==
  ASSUME NEW s, ScanOK(s), NEW c
  PROVE  ScanOK(Accumulate(s, c))
<1> DEFINE r == [s EXCEPT !.tag = Append(@, c), !.first = IF s.tag = <<>> THEN c ELSE @]
<1>0. s = [f \in ScanFields |-> s[f]] /\ TagSize \in Nat /\ Len(s.tag) \in 0..TagSize - 1
  BY Sizes DEF ScanOK
<1>1. /\ r = [f \in ScanFields |-> r[f]] /\ r.state = s.state
      /\ r.tag = Append(s.tag, c) /\ r.entity = s.entity
  BY <1>0 DEF ScanFields
<1>2. IsSeq(Append(s.tag, c)) /\ Len(Append(s.tag, c)) = Len(s.tag) + 1
  BY AppendAny DEF ScanOK
<1> HIDE DEF r
<1>3. ASSUME Len(s.tag) < TagSize - 1
      PROVE  ScanOK(r)
  <2>1. Len(r.tag) = Len(s.tag) + 1 /\ IsSeq(r.tag)
    BY <1>1, <1>2
  <2>2. Len(s.tag) + 1 \in 0..TagSize - 1
    BY <1>0, <1>3
  <2> QED
    BY <1>1, <2>1, <2>2 DEF ScanOK
<1>4. Accumulate(s, c) = IF Len(s.tag) < TagSize - 1 THEN r ELSE s
  BY DEF Accumulate, r
<1> QED
  BY <1>3, <1>4

LEMMA FeedTextReads ==
  ASSUME NEW z, Reads(z), NEW c
  PROVE  Reads(FeedText(z, c))
<1> DEFINE s == z.scan
           tag == [s EXCEPT !.state = "PS_TAG", !.tag = <<>>, !.closing = FALSE, !.dashes = 0]
           entity == [s EXCEPT !.state = "PS_ENTITY", !.entity = <<>>]
<1>1. ScanOK(s) /\ Good(z.page) /\ "PS_TAG" \in States /\ "PS_ENTITY" \in States
  BY DEF Reads, States
<1>2. ScanOK(tag) /\ ScanOK(entity)
  BY <1>1, StateScan
<1>3. FeedText(z, c) \in {[z EXCEPT !.scan = tag], [z EXCEPT !.scan = entity],
                          [z EXCEPT !.page = EmitChar(z.page, c)], z}
  BY DEF FeedText
<1> HIDE DEF tag, entity
<1>4. Reads([z EXCEPT !.scan = tag]) /\ Reads([z EXCEPT !.scan = entity])
  BY <1>2, ScanReads
<1>5. Reads([z EXCEPT !.page = EmitChar(z.page, c)])
  BY <1>1, EmitGood, PageReads
<1> QED
  BY <1>3, <1>4, <1>5

LEMMA FeedRawTagReads ==
  ASSUME NEW z, Reads(z), NEW c
  PROVE  Reads(FeedRawTag(z, c))
<1> DEFINE s == z.scan
           done == IF s.closing THEN {TagName(s.tag)} ELSE {}
           over == [s EXCEPT !.state = Text]
           closing == [s EXCEPT !.closing = TRUE]
           left == [z.page EXCEPT !.raw = @ \ done]
<1>1. ScanOK(s) /\ Good(z.page) /\ Text \in States
  BY DEF Reads, States
<1>2. ScanOK(over) /\ ScanOK(closing) /\ ScanOK(Accumulate(s, c))
  BY <1>1, StateScan, AccumulateScan
<1>3. Good(left)
  <2> HIDE DEF done
  <2> QED
    BY <1>1, RawGood
<1>4. [z EXCEPT !.scan.closing = TRUE] = [z EXCEPT !.scan = closing]
  BY DEF Reads
<1>5. FeedRawTag(z, c) \in {[scan |-> over, page |-> left], [z EXCEPT !.scan.closing = TRUE],
                            [z EXCEPT !.scan = Accumulate(s, c)]}
  BY DEF FeedRawTag
<1> HIDE DEF over, closing, left, done
<1>6. Reads([scan |-> over, page |-> left])
  BY <1>2, <1>3, ReadsIntro
<1>7. Reads([z EXCEPT !.scan = closing]) /\ Reads([z EXCEPT !.scan = Accumulate(s, c)])
  BY <1>2, ScanReads
<1> QED
  BY <1>4, <1>5, <1>6, <1>7

LEMMA FeedDeclarationReads ==
  ASSUME NEW z, Reads(z), NEW c
  PROVE  Reads(FeedDeclaration(z, c))
<1> DEFINE s == z.scan
           dashes == IF c = "-" THEN s.dashes + 1 ELSE s.dashes
           comment == [s EXCEPT !.state = "PS_COMMENT", !.dashes = 0]
           t == Accumulate(s, c)
           state == IF c = ">" THEN Text ELSE t.state
           more == [t EXCEPT !.dashes = dashes, !.state = state]
<1>1. ScanOK(s) /\ ScanOK(t)
  BY AccumulateScan DEF Reads
<1>2. "PS_COMMENT" \in States /\ state \in States
  BY <1>1 DEF States, ScanOK
<1>3. FeedDeclaration(z, c) \in {[z EXCEPT !.scan = comment], [z EXCEPT !.scan = more]}
  BY SMTT(30) DEF FeedDeclaration
<1>4. ScanOK(comment)
  BY <1>1, <1>2, StateScan, ZenonT(60)
<1>5. ScanOK(more)
  <2> HIDE DEF t, state, dashes
  <2> QED
    BY <1>1, <1>2, StateScan
<1> HIDE DEF comment, more
<1> QED
  BY <1>3, <1>4, <1>5, ScanReads

LEMMA FeedTagReads ==
  ASSUME NEW z, Reads(z), NEW c
  PROVE  Reads(FeedTag(z, c))
<1> DEFINE s == z.scan
           t == Accumulate(s, c)
           over == [s EXCEPT !.state = Text]
           closing == [s EXCEPT !.closing = TRUE]
           bang == [t EXCEPT !.dashes = 0]
           shown == IF s.closing THEN HandleCloseTag(z.page, s.tag)
                    ELSE HandleOpenTag(z.page, s.tag)
<1>1. ScanOK(s) /\ ScanOK(t) /\ Good(z.page) /\ Text \in States
  BY AccumulateScan, SMTT(30) DEF Reads, States
<1>2. ScanOK(over) /\ ScanOK(closing)
  BY <1>1, StateScan, ZenonT(60)
<1>3. ScanOK(bang)
  <2> HIDE DEF t
  <2> QED
    BY <1>1, StateScan
<1>4. Good(shown)
  BY <1>1, OpenTagGood, CloseTagGood
<1>5. [z EXCEPT !.scan.closing = TRUE] = [z EXCEPT !.scan = closing]
  BY DEF Reads
<1>6. FeedTag(z, c) \in {FeedRawTag(z, c), [z EXCEPT !.scan.closing = TRUE],
                         [z EXCEPT !.scan = bang], FeedDeclaration(z, c),
                         [z EXCEPT !.scan = t], [scan |-> over, page |-> shown]}
  BY DEF FeedTag
<1> HIDE DEF t, over, closing, bang, shown
<1>7. /\ Reads([z EXCEPT !.scan = closing]) /\ Reads([z EXCEPT !.scan = bang])
      /\ Reads([z EXCEPT !.scan = t]) /\ Reads([scan |-> over, page |-> shown])
  BY <1>1, <1>2, <1>3, <1>4, ScanReads, ReadsIntro
<1>8. Reads(FeedRawTag(z, c)) /\ Reads(FeedDeclaration(z, c))
  BY FeedRawTagReads, FeedDeclarationReads
<1> QED
  BY <1>5, <1>6, <1>7, <1>8, ZenonT(60)

LEMMA FeedCommentReads ==
  ASSUME NEW z, Reads(z), NEW c
  PROVE  Reads(FeedComment(z, c))
<1> DEFINE s == z.scan
           n == s.dashes + 1
           state == IF c = ">" /\ s.dashes >= 2 THEN Text ELSE s.state
           dash == [s EXCEPT !.dashes = n]
           other == [s EXCEPT !.dashes = 0, !.state = state]
<1>1. ScanOK(s) /\ s.state \in States /\ state \in States
  BY DEF Reads, ScanOK, States
<1>2. FeedComment(z, c) = [z EXCEPT !.scan = IF c = "-" THEN dash ELSE other]
  BY ZenonT(60) DEF FeedComment
<1> HIDE DEF state, n
<1>3. ScanOK(dash) /\ ScanOK(other)
  BY <1>1, StateScan
<1> HIDE DEF dash, other
<1> QED
  BY <1>2, <1>3, ScanReads

LEMMA FeedEntityReads ==
  ASSUME NEW z, Reads(z), NEW c
  PROVE  Reads(FeedEntity(z, c))
<1> DEFINE s == z.scan
           over == [s EXCEPT !.state = Text]
           longer == [s EXCEPT !.entity = Append(@, c)]
           chars == <<"&">> \o s.entity \o <<c>>
<1>1. /\ ScanOK(s) /\ Good(z.page) /\ Text \in States /\ EntitySize \in Nat
      /\ s = [f \in ScanFields |-> s[f]] /\ Len(s.entity) \in 0..EntitySize - 1
      /\ IsSeq(s.entity)
  BY Sizes, SMTT(30) DEF Reads, States, ScanOK
<1>2. ScanOK(over)
  BY <1>1, StateScan
<1>3. ASSUME Len(s.entity) < EntitySize - 1 PROVE ScanOK(longer)
  <2>1. /\ longer = [f \in ScanFields |-> longer[f]] /\ longer.state = s.state
        /\ longer.tag = s.tag /\ longer.entity = Append(s.entity, c)
    BY <1>1 DEF ScanFields
  <2>2. IsSeq(Append(s.entity, c)) /\ Len(Append(s.entity, c)) = Len(s.entity) + 1
    BY <1>1, AppendAny
  <2> HIDE DEF longer
  <2>3. IsSeq(longer.entity) /\ Len(longer.entity) = Len(s.entity) + 1
    BY <2>1, <2>2
  <2>4. Len(s.entity) + 1 \in 0..EntitySize - 1
    BY <1>1, <1>3
  <2> QED
    BY <1>1, <2>1, <2>3, <2>4 DEF ScanOK
<1>4. Len(chars) \in Nat
  <2>1. <<"&">> \in Seq({"&"}) /\ <<c>> \in Seq({c})
    OBVIOUS
  <2>2. IsSeq(<<"&">>) /\ IsSeq(<<c>>)
    BY <2>1 DEF IsSeq
  <2>3. IsSeq(<<"&">> \o s.entity)
    BY <1>1, <2>2, ConcatAny
  <2>4. IsSeq(chars)
    BY <2>2, <2>3, ConcatAny
  <2> QED
    BY <2>4, LenAny
<1>5. \/ FeedEntity(z, c) = [scan |-> over, page |-> HandleEntity(z.page, s.entity)]
      \/ Len(s.entity) < EntitySize - 1 /\ FeedEntity(z, c) = [z EXCEPT !.scan = longer]
      \/ FeedEntity(z, c) = [scan |-> over, page |-> EmitString(z.page, chars)]
  BY DEF FeedEntity
<1> HIDE DEF over, longer, chars
<1>6. Reads([scan |-> over, page |-> HandleEntity(z.page, s.entity)])
  BY <1>1, <1>2, EntityGood, ReadsIntro
<1>7. Reads([scan |-> over, page |-> EmitString(z.page, chars)])
  BY <1>1, <1>2, <1>4, EmitStringGood, ReadsIntro
<1>8. ASSUME Len(s.entity) < EntitySize - 1 PROVE Reads([z EXCEPT !.scan = longer])
  BY <1>3, <1>8, ScanReads
<1> QED
  BY <1>5, <1>6, <1>7, <1>8

LEMMA FeedCharReads ==
  ASSUME NEW z, Reads(z), NEW c
  PROVE  Reads(FeedChar(z, c))
<1>1. z.scan.state \in States
  BY DEF Reads, ScanOK
<1>2. FeedChar(z, c) \in {FeedText(z, c), FeedTag(z, c), FeedComment(z, c), FeedEntity(z, c)}
  BY <1>1 DEF FeedChar, States, Text
<1> QED
  BY <1>2, FeedTextReads, FeedTagReads, FeedCommentReads, FeedEntityReads

LEMMA FeedUnfolds ==
  ASSUME NEW z, NEW s, NEW n \in Nat
  PROVE  \E f : f = [i \in 0..n |-> IF i = 0 THEN z ELSE FeedChar(f[i - 1], s[i])]
<1> DEFINE Unfolds(m) ==
             \E f : f = [i \in 0..m |-> IF i = 0 THEN z ELSE FeedChar(f[i - 1], s[i])]
           T == {m \in Nat : ~ Unfolds(m)}
<1>1. SUFFICES ASSUME T # {} PROVE FALSE
  BY DEF T
<1>2. PICK m \in T : \A k \in T : m <= k
  BY <1>1, Least, T \subseteq Nat
<1>3. m # 0
  <2>1. [i \in 0..0 |-> z] =
          [i \in 0..0 |-> IF i = 0 THEN z ELSE FeedChar([j \in 0..0 |-> z][i - 1], s[i])]
    OBVIOUS
  <2>2. Unfolds(0)
    BY <2>1
  <2> QED
    BY <2>2, <1>2
<1>4. Unfolds(m - 1)
  <2>1. m \in Nat /\ m - 1 \in Nat /\ ~ (m <= m - 1)
    BY <1>2, <1>3
  <2>2. m - 1 \notin T
    BY <2>1, <1>2
  <2> HIDE DEF Unfolds
  <2> QED
    BY <2>1, <2>2
<1>5. PICK f : f = [i \in 0..m - 1 |-> IF i = 0 THEN z ELSE FeedChar(f[i - 1], s[i])]
  BY <1>4
<1> DEFINE g == [i \in 0..m |-> IF i = m THEN FeedChar(f[m - 1], s[m]) ELSE f[i]]
<1>6. g = [i \in 0..m |-> IF i = 0 THEN z ELSE FeedChar(g[i - 1], s[i])]
  BY <1>5, <1>3
<1>7. Unfolds(m)
  BY <1>6
<1> QED
  BY <1>7, <1>2

LEMMA FeedReads ==
  ASSUME NEW z, Reads(z), NEW data, Len(data) \in Nat
  PROVE  Reads(HtmlParserFeed(z, data))
<1> DEFINE n == Len(data)
           f == CHOOSE f : f = [i \in 0..n |-> IF i = 0 THEN z ELSE FeedChar(f[i - 1], data[i])]
<1>1. f = [i \in 0..n |-> IF i = 0 THEN z ELSE FeedChar(f[i - 1], data[i])]
  BY FeedUnfolds
<1>2. HtmlParserFeed(z, data) = f[n]
  BY DEF HtmlParserFeed
<1> HIDE DEF f
<1> DEFINE T == {i \in Nat : i <= n /\ ~ Reads(f[i])}
<1>3. ASSUME T # {} PROVE FALSE
  <2>1. PICK m \in T : \A k \in T : m <= k
    BY <1>3, Least, T \subseteq Nat
  <2>2. CASE m = 0
    BY <2>1, <2>2, <1>1
  <2>3. CASE m # 0
    <3>1. m - 1 \in 0..n /\ Reads(f[m - 1])
      BY <2>1, <2>3
    <3>2. f[m] = FeedChar(f[m - 1], data[m])
      BY <2>1, <2>3, <1>1
    <3> QED
      BY <3>1, <3>2, <2>1, FeedCharReads
  <2> QED
    BY <2>2, <2>3
<1> QED
  BY <1>2, <1>3

-----------------------------------------------------------------------------
(* Pages that begin, and that end. *)

LEMMA NewPageGood ==
  ASSUME NEW title, NEW made \in Nat
  PROVE  /\ Good(NewPage(<<>>, title, {}, made))
         /\ NewPage(<<>>, title, {}, made).lacks = {}
<1> DEFINE p == NewPage(<<>>, title, {}, made)
<1>1. /\ IsPage(p) /\ p.lacks = {} /\ p.te = <<>> /\ p.seen = <<>> /\ p.text = <<>>
      /\ p.total = 0 /\ p.made = made /\ p.title = <<>> /\ p.headings = <<>> /\ p.list = 0
      /\ p.depth = [d \in Depths |-> 0] /\ p.links = <<>> /\ p.capacity = 0
      /\ p.live = {} /\ p.href = NoLink /\ ~ p.hasStart /\ p.lastWasSpace
      /\ p.open = [l \in 1..6 |-> 0]
  BY DEF NewPage, IsPage, PageFields, Depths
<1> HIDE DEF p
<1>2. /\ IsSeq(<<>>) /\ Len(<<>>) = 0 /\ <<>> \in Seq(1..6)
      /\ 0 \in 0..MaxInsert /\ 0 \in 0..MaxShort /\ 0 \in (-MaxShort - 1)..MaxShort
      /\ 0 \in 0..TextSize /\ 0 \in 0..TitleSize - 1 /\ 0 <= StackSize
      /\ 0 < MaxInsert /\ ~ (0 >= MaxInsert)
  BY Sizes, NoneAny
<1>3. Bounded(p)
  <2>1. p.depth \in [Depths -> 0..MaxShort]
    BY <1>1, <1>2
  <2> QED
    BY <1>1, <1>2, <2>1 DEF Bounded
<1>4. Rendered(p)
  <2>1. /\ IsSeq(p.seen) /\ IsSeq(p.te) /\ p.total <= Len(p.seen) /\ 1..p.total = {}
        /\ Len(p.te) = p.total + (IF p.total >= MaxInsert THEN 1 ELSE 0)
        /\ Len(p.text) = Len(p.seen) - p.total /\ 1..Len(p.text) = {}
    BY <1>1, <1>2
  <2> QED
    BY <2>1 DEF Rendered
<1>5. Owned(p)
  <2>1. Hrefs(p) = {} /\ 1..Len(p.links) = {}
    BY <1>1, <1>2 DEF Hrefs
  <2> QED
    BY <1>1, <1>2, <2>1 DEF Owned
<1>6. Placed(p)
  <2>1. 1..Len(p.links) = {} /\ 1..Shown(p) = {} /\ 1..Len(p.seen) = {}
    BY <1>1, <1>2 DEF Shown
  <2>2. Anchored(p) /\ Spaced(p)
    BY <1>1, <2>1 DEF Anchored, Ranges, Started, Spaced, Single
  <2>3. ASSUME NEW l PROVE Count(<<>>, l) = 0
    <3>1. Places(<<>>, l) = {}
      BY <1>2 DEF Places
    <3> QED
      BY <3>1, FS_EmptySet DEF Count
  <2>4. Nested(p)
    BY <1>1, <2>3 DEF Nested
  <2> QED
    BY <2>2, <2>4 DEF Placed
<1> QED
  BY <1>1, <1>3, <1>4, <1>5, <1>6 DEF Good, p

LEMMA LacksGood ==
  ASSUME NEW p, Good(p), NEW lacks
  PROVE  /\ Good([p EXCEPT !.lacks = lacks])
         /\ Flushed(p) => Flushed([p EXCEPT !.lacks = lacks])
         /\ [p EXCEPT !.lacks = lacks].href = p.href
         /\ [p EXCEPT !.lacks = lacks].lacks = lacks
<1> DEFINE q == [p EXCEPT !.lacks = lacks]
<1>1. /\ IsPage(p) /\ p.list \in (-MaxShort - 1)..MaxShort
      /\ IsSeq(p.title) /\ Len(p.title) \in 0..TitleSize - 1
  BY DEF Good, Bounded
<1>2. /\ IsPage(q) /\ SameText(p, q) /\ Keeps(p, q) /\ Tracks(p, q) /\ q.title = p.title /\ q.list = p.list
      /\ q.lacks = lacks
  BY <1>1 DEF IsPage, PageFields, SameText, Keeps, SameMarks, Tracks
<1> HIDE DEF q
<1>3. Good(q) /\ (Flushed(p) => Flushed(q)) /\ q.href = p.href /\ q.lacks = lacks
  BY <1>1, <1>2, PlainGood DEF Keeps
<1> QED
  BY <1>3 DEF q

LEMMA EndGood ==
  ASSUME NEW p, Good(p)
  PROVE  /\ Good(HtmlParserEnd(p)) /\ Flushed(HtmlParserEnd(p))
         /\ HtmlParserEnd(p).href = NoLink
         /\ (Flushed(p) /\ p.href = NoLink => HtmlParserEnd(p) = p)
<1> DEFINE q == FlushText(p)
<1>1. Good(q) /\ Flushed(q)
  BY FlushGood
<1>2. Flushed(p) => q = p
  BY DEF FlushText, Flushed
<1> HIDE DEF q
<1>3. /\ Good(EndLink(q)) /\ EndLink(q).href = NoLink /\ SameText(q, EndLink(q))
      /\ (q.href = NoLink => EndLink(q) = q)
  BY <1>1, EndLinkGood
<1>4. Flushed(EndLink(q))
  BY <1>1, <1>3 DEF Flushed, SameText
<1> QED
  BY <1>2, <1>3, <1>4 DEF HtmlParserEnd, q

-----------------------------------------------------------------------------
(* The document of a window. *)

(* A page that has ended has nothing in its buffer and no active link.     *)
IInv ==
  /\ Good(page) /\ page.lacks = {} /\ ScanOK(scan)
  /\ phase \in {"none", "receiving", "stopped", "ended", "wild"} /\ words \in Vocabulary
  /\ phase = "ended" => page.href = NoLink /\ Flushed(page)

LEMMA NewScanOK == ScanOK(NewScan)
<1>1. /\ NewScan = [f \in ScanFields |-> NewScan[f]] /\ NewScan.state \in States
      /\ NewScan.tag = <<>> /\ NewScan.entity = <<>>
  BY DEF NewScan, ScanFields, States
<1>2. IsSeq(<<>>) /\ Len(<<>>) \in 0..TagSize - 1 /\ Len(<<>>) \in 0..EntitySize - 1
  BY Sizes, NoneAny
<1> QED
  BY <1>1, <1>2 DEF ScanOK

LEMMA InitIInv == Init => IInv
<1> SUFFICES ASSUME Init PROVE IInv
  OBVIOUS
<1>1. Good(page) /\ page.lacks = {}
  BY NewPageGood DEF Init
<1> QED
  BY <1>1, NewScanOK DEF Init, IInv

LEMMA NextIInv == IInv /\ [Next]_vars => IInv'
<1> SUFFICES ASSUME IInv, [Next]_vars PROVE IInv'
  OBVIOUS
<1>0. Good(page) /\ ScanOK(scan) /\ words \in Vocabulary /\ page.lacks = {}
  BY DEF IInv
<1>1. CASE BeginPage
  <2>1. AfterDispose(page) = {} /\ page.made \in Nat
    BY <1>0 DEF AfterDispose, Good, Owned, Hrefs, Bounded
  <2>2. Good(page') /\ page'.lacks = {}
    BY <1>1, <2>1, NewPageGood DEF BeginPage
  <2>3. ScanOK(scan') /\ words' = words /\ phase' = "receiving"
    BY <1>1, NewScanOK DEF BeginPage
  <2> QED
    BY <1>0, <2>2, <2>3 DEF IInv
<1>2. ASSUME NEW data \in words, NEW lacks \in Shortages, AppendData(data, lacks)
      PROVE  IInv'
  <2> DEFINE begin == [scan |-> scan, page |-> [page EXCEPT !.lacks = lacks]]
             z == HtmlParserFeed(begin, data)
  <2>1. Len(data) \in Nat
    <3>1. data \in Seq(STRING)
      BY <1>0, VocabularyAssumption
    <3> QED
      BY <3>1
  <2>2. Reads(begin)
    BY <1>0, LacksGood, ReadsIntro
  <2> HIDE DEF begin
  <2>3. Reads(z)
    BY <2>1, <2>2, FeedReads
  <2>4. /\ scan' = z.scan /\ page' = [z.page EXCEPT !.lacks = {}]
        /\ phase = "receiving" /\ phase' = phase /\ words' = words
    BY <1>2 DEF AppendData, begin
  <2> HIDE DEF z
  <2>5. Good(page') /\ page'.lacks = {} /\ ScanOK(scan')
    BY <2>3, <2>4, LacksGood DEF Reads
  <2> QED
    BY <1>0, <2>4, <2>5 DEF IInv
<1>3. CASE Stop
  BY <1>0, <1>3 DEF Stop, IInv
<1>4. CASE NoDocument
  BY <1>0, <1>4 DEF NoDocument, IInv
<1>5. ASSUME NEW lacks \in Shortages, ClosePage(lacks)
      PROVE  IInv'
  <2> DEFINE p == [page EXCEPT !.lacks = lacks]
             q == HtmlParserEnd(p)
  <2>1. Good(p)
    BY <1>0, LacksGood
  <2> HIDE DEF p
  <2>2. Good(q) /\ Flushed(q) /\ q.href = NoLink
    BY <2>1, EndGood
  <2>3. /\ page' = [q EXCEPT !.lacks = {}] /\ phase' = "ended"
        /\ scan' = scan /\ words' = words
    BY <1>5 DEF ClosePage, p
  <2> HIDE DEF q
  <2>4. Good(page') /\ Flushed(page') /\ page'.href = NoLink /\ page'.lacks = {}
    BY <2>2, <2>3, LacksGood
  <2> QED
    BY <1>0, <2>3, <2>4 DEF IInv
<1>6. CASE UNCHANGED vars
  BY <1>6 DEF IInv, vars
<1> QED
  BY <1>1, <1>2, <1>3, <1>4, <1>5, <1>6 DEF Next

LEMMA Invariance == Spec => []IInv
BY InitIInv, NextIInv, PTL DEF Spec

(* textBuf, tagBuf, entityBuf, titleBuf, headingStack and the array of     *)
(* links are never written past their ends, nor do the counters leave the  *)
(* range of a short (parser.c:135-196, 313-357, 620-732).                  *)
THEOREM BuffersNeverOverflow == Spec => []BuffersHold
<1>1. IInv => BuffersHold
  <2> SUFFICES ASSUME IInv PROVE BuffersHold
    OBVIOUS
  <2>1. Bounded(page) /\ Owned(page) /\ ScanOK(scan)
    BY DEF IInv, Good
  <2>2. \A d \in DOMAIN page.depth : page.depth[d] \in 0..MaxShort
    BY <2>1 DEF Bounded
  <2>3. TypeOK
    BY <2>1, <2>2 DEF IInv, TypeOK, Bounded, Owned, ScanOK, States
  <2>4. /\ Len(page.text) <= TextSize /\ Len(page.headings) <= StackSize
        /\ Len(page.links) <= page.capacity
    BY <2>1, Sizes DEF Bounded, Owned
  <2>5. Len(page.title) < TitleSize /\ Len(scan.tag) < TagSize /\ Len(scan.entity) < EntitySize
    <3>1. \A n \in Nat : \A m \in 0..n - 1 : m < n
      OBVIOUS
    <3>2. /\ Len(page.title) \in 0..TitleSize - 1 /\ Len(scan.tag) \in 0..TagSize - 1
          /\ Len(scan.entity) \in 0..EntitySize - 1
      BY <2>1 DEF Bounded, ScanOK
    <3> QED
      BY <3>1, <3>2, Sizes
  <2> QED
    BY <2>3, <2>4, <2>5 DEF BuffersHold
<1> QED
  BY Invariance, <1>1, PTL

(* The window shows the characters in the order they were emitted, up to   *)
(* MAX_INSERT, and once the page has ended all of them (parser.c:199-236,  *)
(* 313-357, 734-736).                                                      *)
THEOREM TextIsInOrder == Spec => []TextInOrder
<1>1. IInv => TextInOrder
  <2> SUFFICES ASSUME IInv PROVE TextInOrder
    OBVIOUS
  <2>1. Rendered(page)
    BY DEF IInv, Good
  <2>2. \A i \in 1..page.total : page.te[i].ch = page.seen[i].ch
    BY <2>1 DEF Rendered, Shows
  <2>3. ASSUME phase = "ended" PROVE page.total = Smaller(MaxInsert, Len(page.seen))
    <3>1. /\ page.total \in 0..MaxInsert /\ MaxInsert \in Nat /\ Len(page.seen) \in Nat
          /\ page.total <= Len(page.seen)
      BY <2>1, Sizes, LenAny DEF IInv, Good, Bounded, Rendered
    <3>2. ASSUME page.total < MaxInsert PROVE page.total = Len(page.seen)
      <4>1. page.text = <<>>
        BY <2>3, <3>1, <3>2 DEF IInv, Flushed
      <4>2. Len(page.text) = Len(page.seen) - page.total
        BY <2>1, <3>2 DEF Rendered
      <4>3. 0 = Len(page.seen) - page.total
        BY <4>1, <4>2, NoneAny
      <4> QED
        BY <4>3, <3>1
    <3> QED
      BY <3>1, <3>2 DEF Smaller
  <2> QED
    BY <2>1, <2>2, <2>3 DEF TextInOrder, Rendered
<1> QED
  BY Invariance, <1>1, PTL

(* A character is shown in the style in force when it was parsed, however  *)
(* tags and flushes follow on each other (parser.c:199-273, 417-609).      *)
THEOREM StyleIsKept == Spec => []StyleKept
<1>1. IInv => StyleKept
  BY DEF IInv, Good, Rendered, Shows, StyleKept
<1> QED
  BY Invariance, <1>1, PTL

(* No address of a link leaks or is freed twice, whichever anchors are     *)
(* left open and whichever allocations fail (parser.c:135-156, 488-492,    *)
(* 567-578, 734-771).                                                      *)
THEOREM HrefsAreOwned == Spec => []HrefsOwned
<1>1. IInv => HrefsOwned
  BY DEF IInv, Good, Owned, Hrefs, HrefsOwned
<1> QED
  BY Invariance, <1>1, PTL

(* White space outside <pre> takes one character, whichever tags, entities *)
(* and pieces of text it comes from, and stands before no line             *)
(* (parser.c:313-370).                                                     *)
THEOREM SpacesAreSingle == Spec => []SpacesCollapse
<1>1. IInv => SpacesCollapse
  BY DEF IInv, Good, Placed, Spaced, Single, IsBlank, IsSpace, SpacesCollapse
<1> QED
  BY Invariance, <1>1, PTL

(* The stack holds no more headings of a level than are open               *)
(* (parser.c:238-262).                                                     *)
THEOREM HeadingsAreClosed == Spec => []HeadingsClose
<1>1. IInv => HeadingsClose
  BY DEF IInv, Good, Placed, Nested, Count, Places, HeadingsClose
<1> QED
  BY Invariance, <1>1, PTL

(* A character that is shown leads where the anchor it was parsed in leads *)
(* (parser.c:135-156, 326-357, 488-492, 567-578, document.c:65-85).        *)
THEOREM LinksAreOverTheirText == Spec => []LinksCoverText
<1>1. IInv => LinksCoverText
  <2> SUFFICES ASSUME IInv PROVE LinksCoverText
    OBVIOUS
  <2> DEFINE L == page.links
  <2>1. /\ Bounded(page) /\ Rendered(page) /\ Ranges(page) /\ IsSeq(page.links)
        /\ \A i \in 1..Shown(page) : Covers(page, i)
    BY DEF IInv, Good, Owned, Placed, Anchored
  <2>2. /\ page.total \in Nat /\ Shown(page) \in Nat /\ page.total <= Shown(page)
        /\ Len(L) \in Nat
    BY <2>1, OffsetIsNat, LenAny DEF Shown
  <2>3. \A k \in 1..Len(L) :
          /\ L[k].start \in Nat /\ L[k].end \in Nat /\ L[k].start < L[k].end
          /\ \A j \in 1..k - 1 : L[j].end <= L[k].start
    BY <2>1 DEF Ranges
  <2> HIDE DEF L
  <2>4. ASSUME NEW i \in 1..page.total
        PROVE  LET link == GetLinkAtOffset(page, i - 1)
                   char == page.seen[i]
               IN /\ link # NoLink => link = char.href
                  /\ Closed(char.href) /\ char.ch # "\r" => link = char.href
    <3> DEFINE at == {k \in 1..Len(L) : L[k].start <= i - 1 /\ i - 1 < L[k].end}
               first == CHOOSE k \in at : \A j \in at : k <= j
    <3>1. GetLinkAtOffset(page, i - 1) = IF at = {} THEN NoLink ELSE L[first].href
      BY DEF GetLinkAtOffset, L
    <3>2. \A k \in 1..Len(L) : k \in at <=> Within(i, L[k])
      BY <2>3 DEF Within
    <3>3. Covers(page, i)
      BY <2>1, <2>2
    <3>4. \A k \in 1..Len(L) :
            /\ Within(i, L[k]) => page.seen[i].href = L[k].href
            /\ page.seen[i].href = L[k].href /\ page.seen[i].ch # "\r" => Within(i, L[k])
      BY <3>3 DEF Covers, L
    <3>5. ASSUME NEW k \in at PROVE first = k
      <4>1. ASSUME NEW m \in at PROVE m = k
        <5>1. k \in 1..Len(L) /\ m \in 1..Len(L) /\ L[k].start < i /\ i <= L[k].end
              /\ L[m].start < i /\ i <= L[m].end
          BY <3>2 DEF Within
        <5>2. k < m => L[k].end <= L[m].start
          BY <5>1, <2>2, <2>3
        <5>3. m < k => L[m].end <= L[k].start
          BY <5>1, <2>2, <2>3
        <5>4. L[k].start \in Nat /\ L[k].end \in Nat /\ L[m].start \in Nat /\ L[m].end \in Nat
          BY <5>1, <2>3
        <5> QED
          BY <5>1, <5>2, <5>3, <5>4, <2>2
      <4>2. at = {k}
        BY <4>1
      <4>3. k \in Int
        BY <2>2
      <4> HIDE DEF at
      <4> QED
        BY <4>2, <4>3
    <3> HIDE DEF first
    <3>6. CASE at = {}
      <4>1. \A k \in 1..Len(L) : ~ Within(i, L[k])
        BY <3>2, <3>6
      <4>2. Closed(page.seen[i].href) => page.seen[i].ch = "\r"
        BY <4>1, <3>4 DEF Closed, L
      <4> QED
        BY <3>1, <3>6, <4>2
    <3>7. CASE at # {}
      <4>1. PICK k \in at : TRUE
        BY <3>7
      <4>2. first = k /\ k \in 1..Len(L) /\ Within(i, L[k])
        BY <3>5, <3>2, <4>1
      <4>3. page.seen[i].href = L[k].href
        BY <4>2, <3>4
      <4> HIDE DEF at
      <4> QED
        BY <3>1, <3>7, <4>2, <4>3
    <3> QED
      BY <3>6, <3>7
  <2>5. \A k \in 1..Len(page.links) : page.links[k].start < page.links[k].end
    BY <2>3 DEF L
  <2>6. ASSUME NEW k \in 1..Len(page.links) - 1
        PROVE  page.links[k].end <= page.links[k + 1].start
    <3>1. k + 1 \in 1..Len(L) /\ k \in 1..(k + 1) - 1
      BY <2>2 DEF L
    <3> QED
      BY <3>1, <2>3 DEF L
  <2> QED
    BY <2>4, <2>5, <2>6 DEF LinksCoverText
<1> QED
  BY Invariance, <1>1, PTL

(* A page that is finished a second time stays as it was (parser.c:734).   *)
THEOREM EndTwiceIsOnce == Spec => EndIsIdempotent
<1>1. ASSUME IInv, [Next]_vars
      PROVE  [phase = "ended" /\ phase' = "ended" => page' = page]_vars
  <2>1. ASSUME phase = "ended", phase' = "ended", Next
        PROVE  page' = page
    <3>1. PICK lacks \in Shortages : ClosePage(lacks)
      BY <2>1 DEF Next, BeginPage, NoDocument, AppendData, Stop
    <3> DEFINE p == [page EXCEPT !.lacks = lacks]
    <3>2. Good(p) /\ Flushed(p) /\ p.href = NoLink
      BY <1>1, <2>1, LacksGood DEF IInv
    <3>3. page' = [HtmlParserEnd(p) EXCEPT !.lacks = {}]
      BY <3>1 DEF ClosePage
    <3>4. IsPage(page) /\ page.lacks = {}
      BY <1>1 DEF IInv, Good, Bounded
    <3>5. [p EXCEPT !.lacks = {}] = page
      BY <3>4 DEF IsPage, PageFields
    <3> HIDE DEF p
    <3>6. HtmlParserEnd(p) = p
      BY <3>2, EndGood
    <3> QED
      BY <3>3, <3>5, <3>6
  <2> QED
    BY <1>1, <2>1
<1> QED
  BY Invariance, <1>1, PTL DEF Spec, EndIsIdempotent
=============================================================================
