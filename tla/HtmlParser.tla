------------------------------ MODULE HtmlParser ------------------------------
(*****************************************************************************)
(* parser.c and document.c: the page that arrives in chunks is scanned one   *)
(* character at a time into styled text and ranges of links.                 *)
(*                                                                           *)
(* A character is a symbol: punctuation and the letters of the text stand    *)
(* for themselves, and a run of letters that the code only compares as a     *)
(* whole (the name of a tag or of an attribute, an entity) is one symbol,    *)
(* whatever its case.  `scan' has the fields of HtmlParser that find tags    *)
(* and entities, `page' the ones that render, with the text of the window.   *)
(* Every static function of the source is an operator from a page to a page. *)
(*****************************************************************************)
EXTENDS Integers, Sequences, FiniteSets

CONSTANTS TextSize, TagSize, EntitySize, TitleSize,  \* sizes of the buffers
          StackSize,       \* headings that can be open
          MaxInsert,       \* MAX_INSERT
          HrWidth,         \* HR_WIDTH
          FirstLinks,      \* capacity of the first array of links
          MaxShort,        \* largest short
          Vocabulary,      \* set of sets of chunks: a page is made of one of them
          Shortages,       \* sets of allocations that fail while a chunk is fed
          MaxChunks,       \* bound: chunks of all pages
          MaxPages         \* bound: pages that are shown

ASSUME SizesAssumption ==
  /\ \A n \in {TextSize, TagSize, EntitySize, TitleSize} : n \in Nat /\ n >= 2
  /\ \A n \in {StackSize, MaxInsert, FirstLinks, MaxShort} : n \in Nat \ {0}
  /\ HrWidth \in Nat /\ FirstLinks <= MaxShort
ASSUME VocabularyAssumption == \A w \in Vocabulary : w \subseteq Seq(STRING)

VARIABLES scan,   \* state, tagBuf (and the byte left at its start), entityBuf
          page,   \* what is rendered
          phase,  \* of the page: none, receiving, stopped, ended, wild (NoDocument)
          words,  \* chunks this page is made of
          fed     \* chunks fed, and pages begun
vars == <<scan, page, phase, words, fed>>

Allocations == {"href", "links", "scrap"}
NoLink == [id |-> 0, url |-> <<>>]                       \* NULL
Blank  == {" ", "\t", "\n", "\r"}
Smaller(a, b) == IF a <= b THEN a ELSE b

Level   == [h1 |-> 1, h2 |-> 2, h3 |-> 3, h4 |-> 4, h5 |-> 5, h6 |-> 6]
Counter == [b |-> "bold", strong |-> "bold", i |-> "italic", em |-> "italic",
            cite |-> "italic", u |-> "underline", code |-> "mono", tt |-> "mono",
            kbd |-> "mono", samp |-> "mono"]
Breaks  == {"p", "div", "tr"}                            \* and br, which is not closed

-----------------------------------------------------------------------------
(* Styles and the text buffer *)

CurrentHeadingLevel(p) == IF p.headings = <<>> THEN 0 ELSE p.headings[Len(p.headings)]

GetCurrentStyle(p) ==
  LET level == CurrentHeadingLevel(p)
      pre   == p.depth.pre > 0
  IN [font |-> IF pre \/ p.depth.mono > 0 THEN "Monaco" ELSE "Geneva",
      size |-> IF pre \/ level = 0 THEN 9 ELSE <<18, 14, 12, 11, 10, 9>>[level],
      face |-> {f \in {"bold", "italic", "underline"} :
                  p.depth[f] > 0 \/ (f = "bold" /\ level > 0)}]

Plain == [font |-> "Geneva", size |-> 9, face |-> {}]

\* TEStyleInsert takes the style of the scrap.  Without memory for one, TEInsert
\* takes that of the text before it.
NewStyleScrap(p) ==
  IF "scrap" \notin p.lacks THEN GetCurrentStyle(p)
  ELSE IF p.te = <<>> THEN Plain ELSE p.te[Len(p.te)].style

Insert(p, chars) ==
  [p EXCEPT !.te = @ \o [i \in 1..Len(chars) |->
                           [ch |-> chars[i], style |-> NewStyleScrap(p),
                            scrap |-> "scrap" \notin p.lacks]],
            !.total = @ + Len(chars), !.text = <<>>]

FlushFull(p) ==                \* mutant: a buffer with room is not flushed
  IF Len(p.text) < TextSize - 1 \/ p.total >= MaxInsert THEN p
  ELSE Insert(p, SubSeq(p.text, 1, Smaller(Len(p.text), MaxInsert - p.total)))

FlushText(p) ==
  LET q == Insert(p, SubSeq(p.text, 1, Smaller(Len(p.text), MaxInsert - p.total)))
  IN IF p.text = <<>> \/ p.total >= MaxInsert THEN p
     ELSE IF q.total < MaxInsert THEN q
     ELSE [q EXCEPT !.te = Append(@, [ch |-> "truncated", style |-> NewStyleScrap(q),
                                        scrap |-> "scrap" \notin p.lacks])]

CurrentOutputOffset(p) == p.total + Len(p.text)

\* One more character in textBuf.  `seen' records what was put there, and under
\* which style and link; the code does not keep it.
Put(p, c) ==
  [p EXCEPT !.text = Append(@, c),
            !.seen = Append(@, [ch |-> c, style |-> GetCurrentStyle(p), href |-> p.href,
                                pre |-> p.depth.pre > 0])]

PutBreak(p) ==
  LET q == [p EXCEPT !.needsNewline = FALSE]
  IN IF CurrentOutputOffset(p) = 0 THEN q
     ELSE [Put(IF Len(q.text) >= TextSize - 1 THEN FlushText(q) ELSE q, "\r")
             EXCEPT !.lastWasSpace = TRUE]

PutUnchecked(p, c) ==          \* mutant: the size of textBuf is not looked at
  LET linked == [p EXCEPT !.start = IF p.hasStart THEN @ ELSE CurrentOutputOffset(p),
                          !.hasStart = p.href # NoLink]
  IN Put(linked, c)

PutVisible(p, c) ==
  LET room   == IF Len(p.text) >= TextSize THEN FlushText(p) ELSE p
      linked == IF p.href # NoLink /\ ~ p.hasStart
                THEN [room EXCEPT !.start = CurrentOutputOffset(room), !.hasStart = TRUE]
                ELSE room
  IN Put(linked, c)

EmitSpaces(p, char) ==         \* mutant: lastWasSpace is not set
  LET pre == p.depth.pre > 0
      c   == IF ~ pre /\ char \in Blank THEN " " ELSE char
      q   == IF pre THEN p ELSE [p EXCEPT !.lastWasSpace = FALSE]
  IN IF p.total >= MaxInsert \/ p.raw # {} \/ p.inTitle THEN p
     ELSE IF ~ pre /\ c = " " /\ p.lastWasSpace THEN p
     ELSE PutVisible(IF p.needsNewline /\ c # " " THEN PutBreak(q) ELSE q, c)

EmitChar(p, char) ==
  LET pre == p.depth.pre > 0
      c   == IF ~ pre /\ char \in Blank THEN " " ELSE char
      q   == IF pre THEN p ELSE [p EXCEPT !.lastWasSpace = c = " "]
  IN IF p.total >= MaxInsert \/ p.raw # {} THEN p
     ELSE IF p.inTitle
     THEN [p EXCEPT !.title = IF Len(@) < TitleSize - 1 THEN Append(@, char) ELSE @]
     ELSE IF ~ pre /\ c = " " /\ p.lastWasSpace
     THEN p
     ELSE PutVisible(IF p.needsNewline /\ c # " " THEN PutBreak(q) ELSE q, c)

EmitString(p, s) ==
  LET after[n \in 0..Len(s)] == IF n = 0 THEN p ELSE EmitChar(after[n - 1], s[n])
  IN after[Len(s)]

EmitNewline(p) ==
  IF p.raw # {} \/ p.inTitle THEN p
  ELSE [p EXCEPT !.needsNewline = TRUE, !.lastWasSpace = TRUE]

-----------------------------------------------------------------------------
(* Entities.  A number is a string of digits; what is not a digit is skipped. *)

Digits == <<"0", "1", "2", "3", "4", "5", "6", "7", "8", "9",
            "a", "b", "c", "d", "e", "f">>
Named  == [amp |-> "&", lt |-> "<", gt |-> ">", quot |-> "\"", apos |-> "'", nbsp |-> " "]

Number(s, base) ==
  LET value[n \in 0..Len(s)] ==
        IF n = 0 THEN 0
        ELSE IF \E d \in 1..base : Digits[d] = s[n]
        THEN value[n - 1] * base + (CHOOSE d \in 1..base : Digits[d] = s[n]) - 1
        ELSE value[n - 1]
  IN value[Len(s)]

\* The character with a code: the ones that are spaces, and any other is a letter.
Ascii(code) == CASE code = 9 -> "\t" [] code = 10 -> "\n" [] code = 13 -> "\r"
                 [] code = 32 -> " " [] code \in (1..127) \ {9, 10, 13, 32} -> "x"
                 [] OTHER -> "?"

HandleEntity(p, entity) ==
  LET hex == Len(entity) >= 2 /\ entity[2] = "x"
  IN EmitChar(p, CASE entity = <<>> -> "?"
                   [] entity # <<>> /\ entity[1] = "#" ->
                        Ascii(IF hex THEN Number(SubSeq(entity, 3, Len(entity)), 16)
                              ELSE Number(Tail(entity), 10))
                   [] Len(entity) = 1 /\ entity[1] \in DOMAIN Named -> Named[entity[1]]
                   [] OTHER -> "?")

-----------------------------------------------------------------------------
(* Tags *)

NameOf(s) == IF Len(s) = 1 THEN s[1] ELSE ""     \* a name is one symbol

\* First place from i on whose symbol is (Find) or is not (Skip) in S, or the end.
Find(s, i, S) == LET at == {j \in i..Len(s) : s[j] \in S}
                 IN IF at = {} THEN Len(s) + 1 ELSE CHOOSE j \in at : \A k \in at : j <= k
Skip(s, i, S) == Find(s, i, {s[j] : j \in 1..Len(s)} \ S)

TagName(tag) == NameOf(SubSeq(tag, 1, Find(tag, 1, Blank \cup {"/"}) - 1))

\* The value of an attribute, or <<>> for NULL.
ExtractAttributeValue(tag, name) ==
  LET from[i \in 1..Len(tag) + 1] ==
        LET s == Skip(tag, i, Blank)
            e == Find(tag, s, Blank \cup {"=", "/"})
            q == Skip(tag, e, Blank)
            given  == q <= Len(tag) /\ tag[q] = "="
            v == Skip(tag, q + 1, Blank)
            quoted == given /\ v <= Len(tag) /\ tag[v] \in {"\"", "'"}
            close  == Find(tag, v + 1, {tag[v]})
        IN IF s > Len(tag) \/ tag[s] = "/" THEN <<>>
           ELSE IF SubSeq(tag, s, e - 1) = <<name>>
           THEN IF ~ given THEN <<>>
                ELSE IF quoted THEN SubSeq(tag, v + 1, close - 1)
                ELSE SubSeq(tag, v, Find(tag, v, Blank \cup {">"}) - 1)
           ELSE from[IF ~ given THEN q
                     ELSE IF quoted THEN Smaller(close, Len(tag)) + 1
                     ELSE Find(tag, v, Blank \cup {">"})]
  IN from[Find(tag, 1, Blank \cup {"/"})]

\* `open' counts the headings of each level that are open in the page, whether or
\* not there was room for them; the code does not keep it.
PushHeading(p, level) ==
  [p EXCEPT !.open[level] = @ + 1,
            !.headings = IF Len(@) < StackSize THEN Append(@, level) ELSE @]

PopTop(p, level) ==            \* mutant: only the innermost heading can be closed
  LET q == [p EXCEPT !.open[level] = IF @ > 0 THEN @ - 1 ELSE @]
  IN IF CurrentHeadingLevel(p) # level THEN q
     ELSE [q EXCEPT !.headings = SubSeq(@, 1, Len(@) - 1)]

PopHeading(p, level) ==
  LET at == {i \in 1..Len(p.headings) : p.headings[i] = level}
      i  == CHOOSE i \in at : \A j \in at : j <= i
      q  == [p EXCEPT !.open[level] = IF @ > 0 THEN @ - 1 ELSE @]
  IN IF at = {} THEN q
     ELSE [q EXCEPT !.headings = SubSeq(@, 1, i - 1) \o SubSeq(@, i + 1, Len(@))]

IncrementDepth(p, d) == [p EXCEPT !.depth[d] = IF @ < MaxShort THEN @ + 1 ELSE @]
DecrementDepth(p, d) == [p EXCEPT !.depth[d] = IF @ > 0 THEN @ - 1 ELSE @]

\* listDepth++ has no guard: a short wraps round.
DeeperList(p) == [p EXCEPT !.list = IF @ = MaxShort THEN -MaxShort - 1 ELSE @ + 1]

OpenOver(p, tag) ==            \* mutant: the start of the link before it is kept
  LET href == [id |-> p.made + 1, url |-> ExtractAttributeValue(tag, "href")]
  IN IF href.url = <<>> THEN [p EXCEPT !.live = @ \ {p.href}, !.href = NoLink]
     ELSE [p EXCEPT !.made = @ + 1, !.live = (@ \cup {href}) \ {p.href}, !.href = href]

OpenLeak(p, tag) ==            \* mutant: the href of an anchor left open is not freed
  LET href == [id |-> p.made + 1, url |-> ExtractAttributeValue(tag, "href")]
  IN IF href.url = <<>> THEN [p EXCEPT !.href = NoLink, !.hasStart = FALSE]
     ELSE [p EXCEPT !.made = @ + 1, !.live = @ \cup {href}, !.href = href, !.hasStart = FALSE]

OpenLink(p, tag) ==
  LET n    == Len(tag)
      url  == ExtractAttributeValue(IF tag[n] = "/" THEN SubSeq(tag, 1, n - 1) ELSE tag, "href")
      href == IF url # <<>> /\ "href" \notin p.lacks
              THEN [id |-> p.made + 1, url |-> url] ELSE NoLink
  IN [p EXCEPT !.made = IF href # NoLink THEN @ + 1 ELSE @,
               !.live = (@ \cup {href}) \ {p.href, NoLink},
               !.href = href, !.hasStart = FALSE, !.start = CurrentOutputOffset(p)]

\* TRUE if there is room for one more range, or room can be made.
LinkFits(p) ==
  Len(p.links) < p.capacity \/ ("links" \notin p.lacks /\ 2 * p.capacity <= MaxShort)

AppendLinkRange(p, start, end) ==
  [p EXCEPT !.links = Append(@, [start |-> start, end |-> end, href |-> p.href]),
            !.capacity = IF Len(p.links) < @ THEN @ ELSE IF @ = 0 THEN FirstLinks ELSE 2 * @]

EndAgain(p) ==                 \* mutant: activeLinkHref is not reset
  LET end == CurrentOutputOffset(p)
  IN IF p.href = NoLink \/ ~ p.hasStart \/ end <= p.start \/ ~ LinkFits(p) THEN p
     ELSE AppendLinkRange(p, p.start, end)

\* The active link ends here: its href goes to a range, or is freed.
EndLink(p) ==
  LET end   == CurrentOutputOffset(p)
      start == IF p.hasStart THEN p.start ELSE end
      kept  == end > start /\ LinkFits(p)
      q     == IF kept THEN AppendLinkRange(p, start, end) ELSE p
  IN IF p.href = NoLink THEN p
     ELSE [q EXCEPT !.live = IF kept THEN @ ELSE @ \ {p.href},
                    !.href = NoLink, !.hasStart = FALSE]

HandleOpenTag(p, tag) ==
  LET name == TagName(tag)
      q    == FlushText(p)
      new  == EmitNewline(q)
  IN CASE name \in Breaks \cup {"br"} -> new
       [] name \in DOMAIN Level   -> PushHeading(new, Level[name])
       [] name = "hr"             -> EmitNewline(EmitString(new, [i \in 1..HrWidth |-> "-"]))
       [] name = "li"             -> EmitString(new, (IF new.list > 1 THEN <<" ", " ">> ELSE <<>>)
                                                       \o <<"bullet", " ">>)
       [] name \in {"ul", "ol"}   -> EmitNewline(DeeperList(q))
       [] name \in DOMAIN Counter -> IncrementDepth(q, Counter[name])
       [] name = "a"              -> OpenLink(IncrementDepth(q, "underline"), tag)
       [] name = "pre"            -> EmitNewline(IncrementDepth(q, "pre"))
       [] name \in {"script", "style"} -> [q EXCEPT !.raw = @ \cup {name}]
       [] name = "title"          -> [q EXCEPT !.inTitle = TRUE, !.title = <<>>]
       [] name = "img"            -> EmitString(p, <<"[", "i", "m", "g", "]">>)
       [] name \in {"td", "th"}   -> EmitChar(p, "\t")
       [] OTHER                   -> p

HandleCloseTag(p, tag) ==
  LET name == NameOf(tag)
      q    == FlushText(p)
  IN CASE name \in Breaks         -> EmitNewline(q)
       [] name \in DOMAIN Level   -> EmitNewline(PopHeading(q, Level[name]))
       [] name \in {"ul", "ol"}   -> EmitNewline([q EXCEPT !.list = IF @ > 0 THEN @ - 1 ELSE @])
       [] name \in DOMAIN Counter -> DecrementDepth(q, Counter[name])
       [] name = "a"              -> EndLink(DecrementDepth(q, "underline"))
       [] name = "pre"            -> EmitNewline(DecrementDepth(q, "pre"))
       [] name \in {"script", "style"} -> [p EXCEPT !.raw = @ \ {name}]
       [] name = "title"          -> [p EXCEPT !.inTitle = FALSE,
                                               !.wTitle = IF p.title # <<>> THEN p.title ELSE @]
       [] OTHER                   -> p

-----------------------------------------------------------------------------
(* The scanner, with z = [scan |-> scan, page |-> page] *)

Text == "PS_TEXT"
Accumulate(s, c) ==
  IF Len(s.tag) < TagSize - 1
  THEN [s EXCEPT !.tag = Append(@, c), !.first = IF s.tag = <<>> THEN c ELSE @]
  ELSE s

FeedText(z, c) ==
  CASE c = "<" -> [z EXCEPT !.scan = [@ EXCEPT !.state = "PS_TAG", !.tag = <<>>,
                                               !.closing = FALSE, !.dashes = 0]]
    [] c = "&" /\ z.page.raw = {} ->
         [z EXCEPT !.scan = [@ EXCEPT !.state = "PS_ENTITY", !.entity = <<>>]]
    [] OTHER   -> IF z.page.raw = {} THEN [z EXCEPT !.page = EmitChar(@, c)] ELSE z

\* In a script or a style sheet only the closing tag counts.
FeedRawTag(z, c) ==
  LET s    == z.scan
      done == IF s.closing THEN {TagName(s.tag)} ELSE {}
  IN IF c = ">" THEN [scan |-> [s EXCEPT !.state = Text],
                      page |-> [z.page EXCEPT !.raw = @ \ done]]
     ELSE IF s.tag = <<>> /\ c = "/" THEN [z EXCEPT !.scan.closing = TRUE]
     ELSE [z EXCEPT !.scan = Accumulate(s, c)]

\* After <! : two dashes within three characters begin a comment.
FeedDeclaration(z, c) ==
  LET s      == z.scan
      dashes == IF c = "-" THEN s.dashes + 1 ELSE s.dashes
  IN [z EXCEPT !.scan =
        IF c = "-" /\ dashes >= 2 THEN [s EXCEPT !.state = "PS_COMMENT", !.dashes = 0]
        ELSE [Accumulate(s, c) EXCEPT !.dashes = dashes,
                                      !.state = IF c = ">" THEN Text ELSE @]]

FeedTag(z, c) ==
  LET s == z.scan IN
  CASE z.page.raw # {} -> FeedRawTag(z, c)
    [] z.page.raw = {} /\ s.tag = <<>> /\ c = "/" -> [z EXCEPT !.scan.closing = TRUE]
    [] z.page.raw = {} /\ s.tag = <<>> /\ c = "!" ->
         [z EXCEPT !.scan = [Accumulate(s, c) EXCEPT !.dashes = 0]]
    [] OTHER ->
         IF s.first = "!" /\ Len(s.tag) <= 3 THEN FeedDeclaration(z, c)
         ELSE IF c # ">" THEN [z EXCEPT !.scan = Accumulate(s, c)]
         ELSE [scan |-> [s EXCEPT !.state = Text],
               page |-> IF s.closing THEN HandleCloseTag(z.page, s.tag)
                        ELSE HandleOpenTag(z.page, s.tag)]

FeedComment(z, c) ==
  LET s == z.scan
  IN [z EXCEPT !.scan =
        IF c = "-" THEN [s EXCEPT !.dashes = @ + 1]
        ELSE [s EXCEPT !.dashes = 0,
                       !.state = IF c = ">" /\ s.dashes >= 2 THEN Text ELSE @]]

FeedEntity(z, c) ==
  LET s    == z.scan
      over == [s EXCEPT !.state = Text]
  IN IF c = ";" THEN [scan |-> over, page |-> HandleEntity(z.page, s.entity)]
     ELSE IF Len(s.entity) < EntitySize - 1
     THEN [z EXCEPT !.scan = [s EXCEPT !.entity = Append(@, c)]]
     ELSE [scan |-> over, page |-> EmitString(z.page, <<"&">> \o s.entity \o <<c>>)]

FeedChar(z, c) ==
  CASE z.scan.state = Text         -> FeedText(z, c)
    [] z.scan.state = "PS_TAG"     -> FeedTag(z, c)
    [] z.scan.state = "PS_COMMENT" -> FeedComment(z, c)
    [] z.scan.state = "PS_ENTITY"  -> FeedEntity(z, c)

HtmlParserFeed(z, data) ==
  LET after[n \in 0..Len(data)] == IF n = 0 THEN z ELSE FeedChar(after[n - 1], data[n])
  IN after[Len(data)]

EndUnflushed(p) == EndLink(p)  \* mutant: what the buffer holds is not flushed
HtmlParserEnd(p) == EndLink(FlushText(p))

NewScan == [state |-> Text, tag |-> <<>>, first |-> "", closing |-> FALSE,
            dashes |-> 0, entity |-> <<>>]

\* HtmlParserInit: a new parser for the window whose text and title stay.
\* `live' are the strings that malloc gave and free has not taken back.
NewPage(te, title, live, made) ==
  [te |-> te, wTitle |-> title, live |-> live, made |-> made, lacks |-> {}, seen |-> <<>>,
   text |-> <<>>, total |-> 0,
   depth |-> [d \in {"bold", "italic", "underline", "mono", "pre"} |-> 0],
   list |-> 0, headings |-> <<>>, open |-> [l \in 1..6 |-> 0], raw |-> {}, inTitle |-> FALSE, title |-> <<>>,
   lastWasSpace |-> TRUE, needsNewline |-> FALSE,
   links |-> <<>>, capacity |-> 0, href |-> NoLink, start |-> 0, hasStart |-> FALSE]

\* HtmlParserDispose: what is still allocated afterwards.
AfterDispose(p) == (p.live \ {p.links[i].href : i \in 1..Len(p.links)}) \ {p.href}

\* DOMDocumentGetLinkAtOffset
GetLinkAtOffset(p, offset) ==
  LET at == {i \in 1..Len(p.links) : p.links[i].start <= offset /\ offset < p.links[i].end}
  IN IF at = {} THEN NoLink ELSE p.links[CHOOSE i \in at : \A j \in at : i <= j].href

-----------------------------------------------------------------------------
(* The document of a window.  Only the URI's callbacks use it. *)

Init == /\ scan = NewScan /\ page = NewPage(<<>>, <<>>, {}, 0)
        /\ phase = "none" /\ words \in Vocabulary /\ fed = [chunks |-> 0, pages |-> 0]

\* PageURIOnStatus and PageURIOnMessageBegin: the old document is disposed of, a
\* new one made, and the text of the window emptied.
BeginPage ==
  /\ phase \notin {"receiving", "wild"} /\ fed.pages < MaxPages
  /\ scan' = NewScan
  /\ page' = NewPage(<<>>, page.wTitle, AfterDispose(page), page.made)
  /\ phase' = "receiving" /\ fed' = [fed EXCEPT !.pages = @ + 1]
  /\ UNCHANGED words

\* The same when no handle is left for the new document: NULL is not tested for, and
\* the parser is set up in low memory.  What follows is undefined: no more is said.
NoDocument ==
  /\ phase \notin {"receiving", "wild"} /\ fed.pages < MaxPages
  /\ phase' = "wild" /\ UNCHANGED <<scan, page, words, fed>>

\* PageURIOnData; what can be allocated meanwhile is up to the system.
AppendData(data, lacks) ==
  LET z == HtmlParserFeed([scan |-> scan, page |-> [page EXCEPT !.lacks = lacks]], data)
  IN /\ phase = "receiving" /\ fed.chunks < MaxChunks
     /\ scan' = z.scan /\ page' = [z.page EXCEPT !.lacks = {}]
     /\ fed' = [fed EXCEPT !.chunks = @ + 1]
     /\ UNCHANGED <<phase, words>>

\* The user stops the page: the parser is left as it is.
Stop == /\ phase = "receiving" /\ phase' = "stopped" /\ UNCHANGED <<scan, page, words, fed>>

\* PageURIOnClose, of this page or of a request that failed before its status.
\* With no document yet there is nothing to finish.
ClosePage(lacks) ==
  /\ phase \notin {"none", "wild"}
  /\ page' = [HtmlParserEnd([page EXCEPT !.lacks = lacks]) EXCEPT !.lacks = {}]
  /\ phase' = "ended" /\ UNCHANGED <<scan, words, fed>>

Next == \/ BeginPage \/ NoDocument
        \/ \E data \in words, lacks \in Shortages : AppendData(data, lacks)
        \/ Stop
        \/ \E lacks \in Shortages : ClosePage(lacks)

Spec == Init /\ [][Next]_vars

-----------------------------------------------------------------------------
(* Properties *)

\* No buffer is written past its end, wherever a chunk ends and whatever the text
\* limit cuts off; entityBuf keeps a byte for its terminator.  The counters stay in
\* the range of a short.
TypeOK ==
  /\ scan.state \in {Text, "PS_TAG", "PS_COMMENT", "PS_ENTITY"}
  /\ page.total \in 0..MaxInsert /\ page.made \in Nat /\ page.capacity \in 0..MaxShort
  /\ \A d \in DOMAIN page.depth : page.depth[d] \in 0..MaxShort
  /\ page.list \in (-MaxShort - 1)..MaxShort
  /\ phase \in {"none", "receiving", "stopped", "ended", "wild"}

BuffersHold ==
  /\ TypeOK
  /\ Len(page.text) <= TextSize /\ Len(page.title) < TitleSize
  /\ Len(scan.tag) < TagSize /\ Len(scan.entity) < EntitySize
  /\ Len(page.headings) <= StackSize /\ Len(page.links) <= page.capacity

\* What the window shows is what was emitted, in order and up to MAX_INSERT, and
\* behind a page that was cut one notice; the rest waits in the buffer.  A page that
\* has ended waits for nothing.
TextInOrder ==
  /\ page.total <= Len(page.seen)
  /\ Len(page.te) = page.total + (IF page.total >= MaxInsert THEN 1 ELSE 0)
  /\ \A i \in 1..page.total : page.te[i].ch = page.seen[i].ch
  /\ page.total < MaxInsert =>
       /\ Len(page.text) = Len(page.seen) - page.total
       /\ \A i \in 1..Len(page.text) : page.text[i] = page.seen[page.total + i].ch
  /\ phase = "ended" => page.total = Smaller(MaxInsert, Len(page.seen))

\* A character is shown in the style in force when it was parsed: every change of
\* style comes after a flush.  It can only differ for want of a style scrap.
StyleKept ==
  \A i \in 1..page.total :
    page.te[i].scrap => page.te[i].style = page.seen[i].style

\* A link leads where its text says: the characters of its range were parsed
\* inside that anchor, and of a closed anchor with a range no character but a line
\* break lies outside.  (Past MAX_INSERT there is no text of the page.)  Ranges are
\* in the order of the text, so that the first that holds an offset is the only one.
Closed(href) == \E i \in 1..Len(page.links) : page.links[i].href = href
LinksCoverText ==
  /\ \A i \in 1..page.total :
       LET link == GetLinkAtOffset(page, i - 1)
           char == page.seen[i]
       IN /\ link # NoLink => link = char.href
          /\ Closed(char.href) /\ char.ch # "\r" => link = char.href
  /\ \A i \in 1..Len(page.links) : page.links[i].start < page.links[i].end
  /\ \A i \in 1..Len(page.links) - 1 : page.links[i].end <= page.links[i + 1].start

\* A heading does not outlast its closing tag, however deep headings nest and in
\* whatever order they close.
HeadingsClose ==
  \A l \in 1..6 :
    Cardinality({i \in 1..Len(page.headings) : page.headings[i] = l}) <= page.open[l]

\* Every href that was allocated and not freed belongs to one range or is the
\* active one, so that nothing leaks and disposing of the parser frees each once;
\* none is active when the page has ended.
HrefsOwned ==
  LET owners == [i \in 1..Len(page.links) |-> page.links[i].href] IN
  /\ page.live = ({owners[i] : i \in DOMAIN owners} \cup {page.href}) \ {NoLink}
  /\ \A i, j \in DOMAIN owners : owners[i] = owners[j] => i = j
  /\ page.href \notin {owners[i] : i \in DOMAIN owners}
  /\ phase = "ended" => page.href = NoLink

\* White space outside <pre> is shown as at most one space, never at the start of
\* a line.  Text of a <pre> does not count, before or behind: a <pre> that opens or
\* closes inside a title begins no line.
SpacesCollapse ==
  \A i \in 1..Len(page.seen) :
    page.seen[i].ch = " " /\ ~ page.seen[i].pre
      => i > 1 /\ (page.seen[i - 1].pre \/ page.seen[i - 1].ch \notin {" ", "\r"})

\* Finishing a page a second time, as a request that fails before its status makes
\* PageURIOnClose do, leaves it as it was.
EndIsIdempotent == [][phase = "ended" /\ phase' = "ended" => page' = page]_vars
=============================================================================
