---------------------------- MODULE FileLoadProofs ----------------------------
(***************************************************************************)
(* Proofs about FileLoad: a load has one operation outstanding at most,    *)
(* the window owns the FileURIData it can free, and what it hears of each  *)
(* request is the response, once and in order, for any number of loads,    *)
(* reads and cells of memory.                                              *)
(***************************************************************************)
EXTENDS FileLoad, SequenceTheorems, TLAPS

Kinds == {"open", "read", "close"}

(* The queue of a load has one completion at most, and none while an       *)
(* operation is in flight; of those there is one.                          *)
OneEach ==
  \A l \in Loads :
    /\ order[l] = <<>> \/ \E o \in Kinds : order[l] = << <<l, o>> >>
    /\ order[l] # <<>> => \A o \in Kinds : <<l, o>> \notin busy
    /\ \A o1, o2 \in Kinds : <<l, o1>> \in busy /\ <<l, o2>> \in busy => o1 = o2
    /\ fileData[l] # "live" => order[l] = <<>> /\ \A o \in Kinds : <<l, o>> \notin busy
    /\ data[l] = NULL => fileData[l] = "none"

(* Where a load is in its file: the position moves with the reads that     *)
(* succeed, and a read is issued only before the end.                      *)
Pending(l, o) == <<l, o>> \in busy \/ order[l] = << <<l, o>> >>

Ended(l, o, results) == order[l] = << <<l, o>> >> /\ ioResult[<<l, o>>] \in results

Positions ==
  \A l \in Loads :
    /\ data[l] = NULL \/ Pending(l, "open") => mark[l] = 0
    /\ <<l, "read">> \in busy => mark[l] < Chunks
    /\ Ended(l, "read", {"noErr"}) => mark[l] > 0 /\ mark[l] < Chunks /\ readBuf[l] = mark[l]
    /\ Ended(l, "read", {"eofErr"}) => mark[l] = Chunks /\ readBuf[l] = mark[l]
    /\ ~Ended(l, "read", {"fnfErr"})

(* Only the FileURIData of the window's request is allocated.              *)
OneAllocated == allocated = IF win.uri = NULL THEN {} ELSE {data[win.uri]}

MemoryInv == TypeOK /\ OneEach /\ OneAllocated /\ UriOwnsData /\ Positions

-----------------------------------------------------------------------------
(* The queue of completions: what an operation's end and its delivery do.  *)

LEMMA OneCompleted ==
  ASSUME TypeOK, OneEach, NEW l \in Loads, NEW o \in Kinds, CQ!Complete(<<l, o>>)
  PROVE  /\ order[l] = <<>> /\ <<l, o>> \in busy
         /\ order' = [order EXCEPT ![l] = << <<l, o>> >>]
         /\ busy' = busy \ {<<l, o>>}
<1>1. <<l, o>> \in Ops /\ Owner[<<l, o>>] = l
  BY DEF Ops, Owner, Kinds
<1>2. order[l] = <<>>
  BY DEF OneEach, CQ!Complete
<1>3. Append(<<>>, <<l, o>>) = << <<l, o>> >>
  OBVIOUS
<1> QED
  BY <1>1, <1>2, <1>3 DEF CQ!Complete, TypeOK

LEMMA OneDelivered ==
  ASSUME TypeOK, OneEach, NEW l \in Loads, NEW o \in Kinds, NEW new,
         Arrives(l, o), CQ!Deliver(l, new)
  PROVE  /\ order[l] = << <<l, o>> >>
         /\ order' = [order EXCEPT ![l] = <<>>]
         /\ busy' = busy \union new
<1>1. PICK x \in Kinds : order[l] = << <<l, x>> >>
  BY DEF OneEach, Arrives
<1>2. Head(<< <<l, x>> >>) = <<l, x>> /\ Tail(<< <<l, x>> >>) = <<>>
  OBVIOUS
<1>3. x = o
  BY <1>1, <1>2 DEF Arrives
<1> QED
  BY <1>1, <1>2, <1>3 DEF CQ!Deliver

(* A delivery answered by one operation of the same load or none, and the  *)
(* end of one, keep them one.                                              *)
LEMMA DeliveryKeepsOne ==
  ASSUME TypeOK, OneEach, NEW l \in Loads, NEW o \in Kinds, NEW new, Arrives(l, o),
         CQ!Deliver(l, new), new = {} \/ \E x \in Kinds : new = {<<l, x>>},
         UNCHANGED data,
         fileData' = fileData \/ (new = {} /\ fileData' = [fileData EXCEPT ![l] = "freed"])
  PROVE  OneEach'
<1>1. order[l] = << <<l, o>> >> /\ busy' = busy \union new
      /\ order' = [order EXCEPT ![l] = <<>>]
  BY OneDelivered
<1>2. order'[l] = <<>> /\ order[l] # <<>> /\ \A k \in Loads \ {l} : order'[k] = order[k]
  BY <1>1 DEF TypeOK
<1>3. \A x \in Kinds : <<l, x>> \notin busy
  BY <1>2 DEF OneEach
<1>4. \A k \in Loads \ {l}, x \in Kinds : <<k, x>> \in busy' <=> <<k, x>> \in busy
  BY <1>1
<1>5. fileData[l] = "live" /\ data[l] # NULL
  BY <1>2 DEF OneEach
<1>6. \A k \in Loads : fileData'[k] = fileData[k] \/ (k = l /\ new = {})
  BY DEF TypeOK
<1> SUFFICES ASSUME NEW k \in Loads
             PROVE  /\ order'[k] = <<>> \/ \E x \in Kinds : order'[k] = << <<k, x>> >>
                    /\ order'[k] # <<>> => \A x \in Kinds : <<k, x>> \notin busy'
                    /\ \A o1, o2 \in Kinds : <<k, o1>> \in busy' /\ <<k, o2>> \in busy' => o1 = o2
                    /\ fileData'[k] # "live" =>
                         order'[k] = <<>> /\ \A x \in Kinds : <<k, x>> \notin busy'
                    /\ data'[k] = NULL => fileData'[k] = "none"
  BY DEF OneEach
<1>7. CASE k = l
  BY <1>1, <1>2, <1>3, <1>5, <1>6, <1>7
<1>8. CASE k # l
  BY <1>2, <1>4, <1>6, <1>8 DEF OneEach
<1> QED
  BY <1>7, <1>8

LEMMA CompletionKeepsOne ==
  ASSUME TypeOK, OneEach, NEW l \in Loads, NEW o \in Kinds, CQ!Complete(<<l, o>>),
         UNCHANGED <<data, fileData>>
  PROVE  OneEach'
<1>1. /\ order[l] = <<>> /\ <<l, o>> \in busy
      /\ order' = [order EXCEPT ![l] = << <<l, o>> >>]
      /\ busy' = busy \ {<<l, o>>}
  BY OneCompleted
<1>2. order'[l] = << <<l, o>> >> /\ \A k \in Loads \ {l} : order'[k] = order[k]
  BY <1>1 DEF TypeOK
<1>3. \A x \in Kinds : <<l, x>> \notin busy'
  BY <1>1 DEF OneEach
<1>4. fileData[l] = "live" /\ data[l] # NULL
  BY <1>1 DEF OneEach
<1> SUFFICES ASSUME NEW k \in Loads
             PROVE  /\ order'[k] = <<>> \/ \E x \in Kinds : order'[k] = << <<k, x>> >>
                    /\ order'[k] # <<>> => \A x \in Kinds : <<k, x>> \notin busy'
                    /\ \A o1, o2 \in Kinds : <<k, o1>> \in busy' /\ <<k, o2>> \in busy' => o1 = o2
                    /\ fileData'[k] # "live" =>
                         order'[k] = <<>> /\ \A x \in Kinds : <<k, x>> \notin busy'
                    /\ data'[k] = NULL => fileData'[k] = "none"
  BY DEF OneEach
<1>5. CASE k = l
  BY <1>2, <1>3, <1>4, <1>5
<1>6. CASE k # l
  BY <1>1, <1>2, <1>6 DEF OneEach
<1> QED
  BY <1>5, <1>6

-----------------------------------------------------------------------------
(* Memory: what a step may do to the cells and to the window.              *)

Windows == [open : BOOLEAN, uri : Loads \union {NULL}, isLoading : BOOLEAN,
            text : Seq(Loads \X (0 .. Chunks))]

(* PageWindowStop leaves a window without a request and nothing allocated. *)
LEMMA StopFrees ==
  ASSUME MemoryInv, NEW s \in AfterStop
  PROVE  /\ s.allocated = {}
         /\ s.block \in [Blocks -> Cells]
         /\ \A b \in Blocks : s.block[b] = block[b] \/ s.block[b] = Junk
         /\ s.win \in Windows /\ s.win.uri = NULL /\ s.win.open = win.open
         /\ win.uri = NULL => s.win = win
         /\ win.uri # NULL => s.win = [win EXCEPT !.uri = NULL, !.isLoading = FALSE]
<1> USE DEF MemoryInv, TypeOK, OneAllocated, UriOwnsData, Windows
<1>1. CASE win.uri = NULL
  BY <1>1 DEF AfterStop
<1>2. CASE win.uri # NULL
  <2>1. data[win.uri] \in Blocks
    BY <1>2
  <2>2. PICK c \in {block[data[win.uri]], Junk} :
          s = [allocated |-> allocated \ {data[win.uri]},
               block |-> [block EXCEPT ![data[win.uri]] = c],
               win |-> [win EXCEPT !.uri = NULL, !.isLoading = FALSE]]
    BY <1>2 DEF AfterStop
  <2>3. c \in Cells
    BY <2>1 DEF Cells
  <2> QED
    BY <1>2, <2>1, <2>2, <2>3
<1> QED
  BY <1>1, <1>2

(* A new request has a FileURIData of its own.                             *)
LEMMA NewURIOwns ==
  ASSUME MemoryInv, NEW l \in Loads, NEW b \in Blocks, NewURI(l, b)
  PROVE  /\ data[l] = NULL /\ data' = [data EXCEPT ![l] = b]
         /\ data' \in [Loads -> Blocks \union {NULL}]
         /\ block' \in [Blocks -> Cells] /\ allocated' \in SUBSET Blocks
         /\ win' \in Windows /\ win'.uri = l
         /\ OneAllocated' /\ UriOwnsData'
<1>1. PICK s \in AfterStop :
        /\ win' = [s.win EXCEPT !.uri = l]
        /\ block' = [s.block EXCEPT ![b] = [uri |-> l, closed |-> FALSE]]
        /\ allocated' = s.allocated \union {b}
  BY DEF NewURI
<1>2. s.allocated = {} /\ s.block \in [Blocks -> Cells] /\ s.win \in Windows
  BY StopFrees
<1>3. [uri |-> l, closed |-> FALSE] \in Cells /\ [uri |-> l, closed |-> FALSE] # Junk
  <2>1. [uri |-> l, closed |-> FALSE] \in [uri : Loads, closed : BOOLEAN]
    OBVIOUS
  <2> QED
    BY <2>1, JunkAssumption DEF Cells
<1>4. data[l] = NULL /\ data' = [data EXCEPT ![l] = b] /\ data'[l] = b /\ l # NULL
      /\ data' \in [Loads -> Blocks \union {NULL}]
  BY NullAssumption DEF NewURI, MemoryInv, TypeOK
<1>5. win' \in Windows /\ win'.uri = l
  BY <1>1, <1>2 DEF Windows
<1>6. block' \in [Blocks -> Cells] /\ block'[b] = [uri |-> l, closed |-> FALSE]
      /\ allocated' = {b}
  BY <1>1, <1>2, <1>3
<1> QED
  BY <1>3, <1>4, <1>5, <1>6 DEF OneAllocated, UriOwnsData, UriOf

(* A callback does not change which request the window has.                *)
LEMMA CallKeepsRequest ==
  ASSUME TypeOK, NEW l \in Loads, data[l] # NULL, NEW callbacks,
         NEW w \in Windows, w.uri = win.uri, Call(l, callbacks, w)
  PROVE  /\ win' \in Windows /\ win'.uri = win.uri
         /\ mixed' \in SUBSET Loads /\ disturbed' \in BOOLEAN
<1>1. block[data[l]] # Junk => UriOf(l) \in Loads
  BY DEF TypeOK, Cells, UriOf
<1>2. win \in Windows
  BY DEF TypeOK, Windows
<1>3. CASE UNCHANGED <<heard, win, history>>
  BY <1>2, <1>3 DEF TypeOK, history
<1>4. CASE /\ win' = w
           /\ mixed' = IF UriOf(l) = l THEN mixed ELSE mixed \union {l, UriOf(l)}
           /\ disturbed' = (win.uri # l \/ (disturbed /\ ~Begins(callbacks)))
  <2>1. mixed' \in SUBSET Loads
    BY <1>1, <1>4 DEF TypeOK, Call
  <2>2. disturbed' \in BOOLEAN
    BY <1>4, Zenon
  <2> QED
    BY <1>4, <2>1, <2>2
<1> QED
  BY <1>3, <1>4, Zenon DEF Call

(* Closing a response keeps the URI of its cell.                           *)
LEMMA CloseKeepsCells ==
  ASSUME TypeOK, UriOwnsData, NEW l \in Loads, data[l] # NULL, block[data[l]] # Junk,
         block' = [block EXCEPT ![data[l]].closed = TRUE], UNCHANGED <<data, allocated>>,
         win'.uri = win.uri
  PROVE  block' \in [Blocks -> Cells] /\ UriOwnsData'
<1>1. data[l] \in Blocks /\ block[data[l]] \in [uri : Loads, closed : BOOLEAN]
  BY DEF TypeOK, Cells
<1>2. block' \in [Blocks -> Cells] /\ block'[data[l]].uri = block[data[l]].uri
      /\ block'[data[l]] \in [uri : Loads, closed : BOOLEAN]
      /\ \A b \in Blocks \ {data[l]} : block'[b] = block[b]
  BY <1>1 DEF TypeOK, Cells
<1>3. win.uri # NULL => data[win.uri] \in Blocks
  BY DEF UriOwnsData, TypeOK
<1> QED
  BY <1>2, <1>3, JunkAssumption, ZenonT(60) DEF UriOwnsData, UriOf

(* What all completions have in common.                                    *)
LEMMA HandlingKeepsMemory ==
  ASSUME MemoryInv, NEW l \in Loads, NEW o \in Kinds, NEW results, NEW new,
         Handle(l, o, results, new), new \in {{}, {<<l, "read">>}, {<<l, "close">>}},
         <<l, "read">> \in new => mark[l] < Chunks,
         fileData' = fileData \/ (new = {} /\ fileData' = [fileData EXCEPT ![l] = "freed"]),
         win' \in Windows, win'.uri = win.uri, block' \in [Blocks -> Cells], UriOwnsData',
         mixed' \in SUBSET Loads, disturbed' \in BOOLEAN, mpc' \in {"event", "poll", "wild"}
  PROVE  MemoryInv'
<1>1. OneEach'
  <2>1. new = {} \/ \E x \in Kinds : new = {<<l, x>>}
    BY DEF Kinds
  <2> QED
    BY <2>1, DeliveryKeepsOne DEF Handle, MemoryInv
<1>2. busy' = busy \union new /\ new \subseteq Ops /\ order' = [order EXCEPT ![l] = <<>>]
      /\ order[l] = << <<l, o>> >>
  BY OneDelivered DEF Handle, MemoryInv, Ops, Kinds
<1>3. busy' \in SUBSET Ops /\ order' \in [Loads -> Seq(Ops)]
  BY <1>2 DEF MemoryInv, TypeOK
<1>4. fileData' \in [Loads -> {"none", "live", "freed"}]
  BY DEF MemoryInv, TypeOK
<1>5. UNCHANGED <<ioResult, mark, readBuf, fileOpen, data, allocated>>
  BY DEF Handle, file
<1>6. TypeOK'
  BY <1>3, <1>4, <1>5 DEF MemoryInv, TypeOK, Windows
<1>7. OneAllocated'
  BY <1>5 DEF MemoryInv, OneAllocated
<1>8. Positions'
  <2>1. order'[l] = <<>> /\ \A k \in Loads \ {l} : order'[k] = order[k]
    BY <1>2 DEF MemoryInv, TypeOK
  <2>2. data[l] # NULL
    BY <1>2 DEF MemoryInv, OneEach
  <2>3. \A x \in Kinds : <<l, x>> \notin busy
    BY <1>2 DEF MemoryInv, OneEach
  <2>4. \A k \in Loads \ {l}, x \in Kinds : <<k, x>> \in busy' <=> <<k, x>> \in busy
    BY <1>2
  <2>5. <<l, "open">> \notin busy' /\ (<<l, "read">> \in busy' => mark[l] < Chunks)
    BY <1>2, <2>3 DEF Kinds
  <2> SUFFICES ASSUME NEW k \in Loads
               PROVE  /\ data'[k] = NULL \/ Pending(k, "open")' => mark'[k] = 0
                      /\ <<k, "read">> \in busy' => mark'[k] < Chunks
                      /\ Ended(k, "read", {"noErr"})'
                           => mark'[k] > 0 /\ mark'[k] < Chunks /\ readBuf'[k] = mark'[k]
                      /\ Ended(k, "read", {"eofErr"})'
                           => mark'[k] = Chunks /\ readBuf'[k] = mark'[k]
                      /\ ~Ended(k, "read", {"fnfErr"})'
    BY DEF Positions
  <2>6. CASE k = l
    <3>1. order'[k] # << <<k, "open">> >> /\ order'[k] # << <<k, "read">> >>
      BY <2>1, <2>6
    <3>2. data'[k] # NULL /\ mark' = mark
      BY <1>5, <2>2, <2>6
    <3>3. ~Pending(k, "open")' /\ \A r : ~Ended(k, "read", r)'
      BY <2>5, <2>6, <3>1 DEF Pending, Ended
    <3> QED
      BY <2>5, <2>6, <3>2, <3>3
  <2>7. CASE k # l
    BY <1>5, <2>1, <2>4, <2>7 DEF Pending, Ended, MemoryInv, Positions, Kinds
  <2> QED
    BY <2>6, <2>7
<1> QED
  BY <1>1, <1>6, <1>7, <1>8 DEF MemoryInv

-----------------------------------------------------------------------------
(* Each action keeps the memory sound.                                     *)

LEMMA RequestsKeepMemory ==
  ASSUME MemoryInv, NEW l \in Loads, Navigate(l) \/ NavigateInVain(l)
  PROVE  MemoryInv'
<1>1. PICK b \in Blocks : NewURI(l, b)
  BY DEF Navigate, NavigateInVain
<1>2. /\ data[l] = NULL /\ data' = [data EXCEPT ![l] = b]
      /\ data' \in [Loads -> Blocks \union {NULL}]
      /\ block' \in [Blocks -> Cells] /\ allocated' \in SUBSET Blocks
      /\ win' \in Windows /\ win'.uri = l
      /\ OneAllocated' /\ UriOwnsData'
  BY <1>1, NewURIOwns
<1>3. order[l] = <<>> /\ \A o \in Kinds : <<l, o>> \notin busy
  BY <1>2 DEF MemoryInv, OneEach
<1>4. UNCHANGED <<ioResult, mark, readBuf, fileOpen, mixed, disturbed, order>>
  BY <1>1 DEF NewURI, file, history, Navigate, NavigateInVain, CQ!Issue
<1>5. busy' \in {busy, busy \union {<<l, "open">>}} /\ <<l, "open">> \in Ops
  BY DEF Navigate, NavigateInVain, CQ!Issue, Ops
<1>6. /\ fileData' \in {fileData, [fileData EXCEPT ![l] = "live"]}
      /\ fileData' = fileData => busy' = busy
      /\ mpc' \in {"event", "poll", "wild"}
  <2>1. fileData[l] = "none" /\ [fileData EXCEPT ![l] = "live"][l] = "live"
    BY <1>2 DEF MemoryInv, OneEach, TypeOK
  <2>2. CASE Navigate(l)
    BY <2>1, <2>2 DEF Navigate, MemoryInv, TypeOK
  <2>3. CASE NavigateInVain(l)
    BY <2>3 DEF NavigateInVain, MemoryInv, TypeOK
  <2> QED
    BY <2>2, <2>3
<1>7. TypeOK'
  BY <1>2, <1>4, <1>5, <1>6, ZenonT(60) DEF MemoryInv, TypeOK, Windows
<1>8. OneEach'
  <2> SUFFICES ASSUME NEW k \in Loads
               PROVE  /\ order'[k] = <<>> \/ \E x \in Kinds : order'[k] = << <<k, x>> >>
                      /\ order'[k] # <<>> => \A x \in Kinds : <<k, x>> \notin busy'
                      /\ \A o1, o2 \in Kinds : <<k, o1>> \in busy' /\ <<k, o2>> \in busy'
                                               => o1 = o2
                      /\ fileData'[k] # "live" =>
                           order'[k] = <<>> /\ \A x \in Kinds : <<k, x>> \notin busy'
                      /\ data'[k] = NULL => fileData'[k] = "none"
    BY DEF OneEach
  <2>1. CASE k = l
    <3>1. data'[l] = b /\ b # NULL
      BY <1>2, NullAssumption DEF MemoryInv, TypeOK
    <3>2. fileData' # fileData => fileData'[l] = "live"
      BY <1>6 DEF MemoryInv, TypeOK
    <3> QED
      BY <1>3, <1>4, <1>5, <1>6, <2>1, <3>1, <3>2
  <2>2. CASE k # l
    <3>1. data'[k] = data[k] /\ fileData'[k] = fileData[k] /\ order'[k] = order[k]
      BY <1>2, <1>4, <1>6, <2>2 DEF MemoryInv, TypeOK
    <3>2. \A x \in Kinds : <<k, x>> \in busy' <=> <<k, x>> \in busy
      BY <1>5, <2>2
    <3> QED
      BY <3>1, <3>2 DEF MemoryInv, OneEach
  <2> QED
    BY <2>1, <2>2
<1>9. Positions'
  <2>1. \A k \in Loads \ {l} : data'[k] = data[k]
    BY <1>2 DEF MemoryInv, TypeOK
  <2>2. \A k \in Loads, x \in Kinds :
          <<k, x>> \in busy' <=> <<k, x>> \in busy \/ (<<k, x>> \in busy' /\ k = l /\ x = "open")
    BY <1>5
  <2>3. mark[l] = 0 /\ <<l, "read">> \notin busy'
    BY <1>2, <1>3, <1>5 DEF MemoryInv, Positions, Kinds
  <2> SUFFICES ASSUME NEW k \in Loads
               PROVE  /\ data'[k] = NULL \/ Pending(k, "open")' => mark'[k] = 0
                      /\ <<k, "read">> \in busy' => mark'[k] < Chunks
                      /\ Ended(k, "read", {"noErr"})'
                           => mark'[k] > 0 /\ mark'[k] < Chunks /\ readBuf'[k] = mark'[k]
                      /\ Ended(k, "read", {"eofErr"})'
                           => mark'[k] = Chunks /\ readBuf'[k] = mark'[k]
                      /\ ~Ended(k, "read", {"fnfErr"})'
    BY DEF Positions
  <2>4. CASE k = l
    BY <1>3, <1>4, <2>3, <2>4 DEF Pending, Ended
  <2>5. CASE k # l
    BY <1>4, <2>1, <2>2, <2>5 DEF Pending, Ended, MemoryInv, Positions, Kinds
  <2> QED
    BY <2>4, <2>5
<1> QED
  BY <1>2, <1>7, <1>8, <1>9 DEF MemoryInv

LEMMA StopKeepsMemory == MemoryInv /\ Stop => MemoryInv'
<1> SUFFICES ASSUME MemoryInv, Stop PROVE MemoryInv'
  OBVIOUS
<1>1. PICK s \in AfterStop : win' = s.win /\ block' = s.block /\ allocated' = s.allocated
  BY DEF Stop
<1>2. allocated' = {} /\ block' \in [Blocks -> Cells] /\ win' \in Windows /\ win'.uri = NULL
  BY <1>1, StopFrees
<1>3. UNCHANGED <<busy, order, ioResult, mark, readBuf, fileOpen, fileData, data, mpc, mixed, disturbed>>
  BY DEF Stop, file, history
<1>4. TypeOK' /\ OneAllocated' /\ UriOwnsData'
  BY <1>2, <1>3 DEF MemoryInv, TypeOK, OneAllocated, UriOwnsData, Windows
<1>5. OneEach' /\ Positions'
  BY <1>3 DEF MemoryInv, OneEach, Positions, Pending, Ended
<1> QED
  BY <1>4, <1>5 DEF MemoryInv

(* The outcomes of an operation: what it leaves in the file.               *)
LEMMA Outcomes ==
  ASSUME TypeOK, NEW l \in Loads, Succeeds(l) \/ Fails(l) \/ Misopens(l)
  PROVE  \E o \in Kinds, r \in {"noErr", "eofErr"} \union Failures :
           /\ Returns(<<l, o>>, r)
           /\ fileOpen' \in SUBSET Loads
           /\ mixed' \in SUBSET Loads /\ mixed \subseteq mixed'
           /\ \/ /\ o = "read" /\ r = IF mark[l] + 1 = Chunks THEN "eofErr" ELSE "noErr"
                 /\ mark' = [mark EXCEPT ![l] = @ + 1]
                 /\ readBuf' = [readBuf EXCEPT ![l] = mark[l] + 1]
              \/ /\ o = "read" => r \in Failures /\ r # "fnfErr"
                 /\ UNCHANGED <<mark, readBuf>>
<1>1. CASE Fails(l)
  <2>1. PICK o \in Kinds, e \in Errors :
          (e = "fnfErr" => o = "open") /\ Returns(<<l, o>>, e)
    BY <1>1 DEF Fails, Kinds
  <2>2. e \in Failures
    BY ErrorsAssumption
  <2> QED
    BY <1>1, <2>1, <2>2 DEF Fails, TypeOK
<1>2. CASE /\ Returns(<<l, "open">>, "noErr") /\ fileOpen' = fileOpen \union {l}
           /\ UNCHANGED <<mark, readBuf>> /\ mixed' \in {mixed, mixed \union {l}}
  BY <1>2 DEF Kinds, TypeOK
<1>3. CASE /\ Returns(<<l, "read">>, IF mark[l] + 1 = Chunks THEN "eofErr" ELSE "noErr")
           /\ mark' = [mark EXCEPT ![l] = @ + 1]
           /\ readBuf' = [readBuf EXCEPT ![l] = mark[l] + 1]
           /\ UNCHANGED <<fileOpen, mixed>>
  <2>1. (IF mark[l] + 1 = Chunks THEN "eofErr" ELSE "noErr") \in {"noErr", "eofErr"} \union Failures
        /\ "read" \in Kinds /\ fileOpen' \in SUBSET Loads /\ mixed' \in SUBSET Loads
    BY <1>3 DEF Kinds, TypeOK
  <2> QED
    BY <1>3, <2>1
<1>4. CASE Returns(<<l, "close">>, "noErr") /\ fileOpen' = fileOpen \ {l}
           /\ UNCHANGED <<mark, readBuf, mixed>>
  BY <1>4 DEF Kinds, TypeOK
<1>5. CASE /\ \E e \in Failures : Returns(<<l, "open">>, e)
           /\ mixed' = mixed \union {l} /\ UNCHANGED <<mark, readBuf, fileOpen>>
  BY <1>5 DEF Kinds, TypeOK
<1> QED
  BY <1>1, <1>2, <1>3, <1>4, <1>5 DEF Succeeds, Misopens

LEMMA EndsKeepMemory ==
  ASSUME MemoryInv, NEW l \in Loads, Succeeds(l) \/ Fails(l) \/ Misopens(l)
  PROVE  MemoryInv'
<1>1. PICK o \in Kinds, r \in {"noErr", "eofErr"} \union Failures :
        /\ Returns(<<l, o>>, r)
        /\ fileOpen' \in SUBSET Loads
        /\ mixed' \in SUBSET Loads
        /\ \/ /\ o = "read" /\ r = IF mark[l] + 1 = Chunks THEN "eofErr" ELSE "noErr"
              /\ mark' = [mark EXCEPT ![l] = @ + 1]
              /\ readBuf' = [readBuf EXCEPT ![l] = mark[l] + 1]
           \/ /\ o = "read" => r \in Failures /\ r # "fnfErr"
              /\ UNCHANGED <<mark, readBuf>>
  BY Outcomes DEF MemoryInv
<1>2. /\ <<l, o>> \in busy /\ busy' = busy \ {<<l, o>>}
      /\ order' = [order EXCEPT ![l] = << <<l, o>> >>]
  BY <1>1, OneCompleted DEF Returns, MemoryInv
<1>3. UNCHANGED <<fileData, data, block, allocated, win, mpc, disturbed>>
      /\ ioResult' = [ioResult EXCEPT ![<<l, o>>] = r]
  BY <1>1 DEF Returns, memory
<1>4. OneEach'
  BY <1>1, <1>3, CompletionKeepsOne DEF Returns, MemoryInv
<1>5. o = "read" => mark[l] \in 0 .. (Chunks - 1)
  BY <1>2, ChunksAssumption DEF MemoryInv, Positions, TypeOK
<1>6. mark' \in [Loads -> 0 .. Chunks] /\ readBuf' \in [Loads -> 0 .. Chunks]
  <2>1. CASE o = "read" /\ mark' = [mark EXCEPT ![l] = @ + 1]
             /\ readBuf' = [readBuf EXCEPT ![l] = mark[l] + 1]
    <3>1. mark[l] + 1 \in 0 .. Chunks
      BY <1>5, <2>1, ChunksAssumption
    <3> QED
      BY <2>1, <3>1 DEF MemoryInv, TypeOK
  <2>2. CASE UNCHANGED <<mark, readBuf>>
    BY <2>2 DEF MemoryInv, TypeOK
  <2> QED
    BY <1>1, <2>1, <2>2
<1>7. <<l, o>> \in Ops
  BY DEF Ops, Kinds
<1>8. busy' \in SUBSET Ops /\ order' \in [Loads -> Seq(Ops)]
      /\ ioResult' \in [Ops -> {"noErr", "eofErr"} \union Failures]
  <2>1. << <<l, o>> >> \in Seq(Ops)
    BY <1>7
  <2> QED
    BY <1>2, <1>3, <1>7, <2>1 DEF MemoryInv, TypeOK
<1>9. TypeOK' /\ OneAllocated' /\ UriOwnsData'
  BY <1>1, <1>3, <1>6, <1>8 DEF MemoryInv, TypeOK, OneAllocated, UriOwnsData, UriOf
<1>10. Positions'
  <2>1. order'[l] = << <<l, o>> >> /\ ioResult'[<<l, o>>] = r /\ data[l] # NULL
    BY <1>2, <1>3, <1>7 DEF MemoryInv, TypeOK, OneEach
  <2>2. \A x \in Kinds : <<l, x>> \notin busy'
    BY <1>2 DEF MemoryInv, OneEach
  <2>3. \A k \in Loads \ {l} :
          /\ order'[k] = order[k] /\ mark'[k] = mark[k] /\ readBuf'[k] = readBuf[k]
          /\ \A x \in Kinds : /\ <<k, x>> \in busy' <=> <<k, x>> \in busy
                             /\ ioResult'[<<k, x>>] = ioResult[<<k, x>>]
    BY <1>1, <1>2, <1>3, <1>7 DEF MemoryInv, TypeOK, Ops, Kinds
  <2> SUFFICES ASSUME NEW k \in Loads
               PROVE  /\ data'[k] = NULL \/ Pending(k, "open")' => mark'[k] = 0
                      /\ <<k, "read">> \in busy' => mark'[k] < Chunks
                      /\ Ended(k, "read", {"noErr"})'
                           => mark'[k] > 0 /\ mark'[k] < Chunks /\ readBuf'[k] = mark'[k]
                      /\ Ended(k, "read", {"eofErr"})'
                           => mark'[k] = Chunks /\ readBuf'[k] = mark'[k]
                      /\ ~Ended(k, "read", {"fnfErr"})'
    BY DEF Positions
  <2>4. CASE k = l
    <3>1. CASE o = "read"
      <4>1. ~Pending(l, "open")'
        BY <2>1, <2>2, <3>1 DEF Pending, Kinds
      <4>2. CASE r \in Failures /\ r # "fnfErr"
        BY <1>3, <2>1, <2>2, <2>4, <3>1, <4>1, <4>2 DEF Failures, Ended, Kinds
      <4>3. CASE /\ r = IF mark[l] + 1 = Chunks THEN "eofErr" ELSE "noErr"
                 /\ mark' = [mark EXCEPT ![l] = @ + 1]
                 /\ readBuf' = [readBuf EXCEPT ![l] = mark[l] + 1]
        <5>1. mark'[l] = mark[l] + 1 /\ readBuf'[l] = mark[l] + 1
          BY <4>3 DEF MemoryInv, TypeOK
        <5> QED
          BY <1>3, <1>5, <2>1, <2>2, <2>4, <3>1, <4>1, <4>3, <5>1, ChunksAssumption
          DEF Ended, Kinds
      <4> QED
        BY <1>1, <3>1, <4>2, <4>3
    <3>2. CASE o # "read"
      <4>1. \A results : ~Ended(l, "read", results)'
        BY <2>1, <3>2 DEF Ended
      <4>2. mark'[l] = mark[l] /\ (o = "open" => mark[l] = 0)
        BY <1>1, <1>2, <3>2 DEF MemoryInv, Positions, Pending
      <4>3. Pending(l, "open")' => o = "open"
        BY <2>1, <2>2 DEF Pending, Kinds
      <4> QED
        BY <1>3, <2>1, <2>2, <2>4, <4>1, <4>2, <4>3 DEF Kinds
    <3> QED
      BY <3>1, <3>2
  <2>5. CASE k # l
    BY <1>3, <2>3, <2>5 DEF Pending, Ended, MemoryInv, Positions, Kinds
  <2> QED
    BY <2>4, <2>5
<1> QED
  BY <1>4, <1>9, <1>10 DEF MemoryInv

(* FileConsumeClose marks the response closed and leaves the request.      *)
LEMMA ConsumeCloseKeepsRequest ==
  ASSUME MemoryInv, NEW l \in Loads, data[l] # NULL, NEW callbacks,
         NEW w \in Windows, w.uri = win.uri,
         FileConsumeClose(l, callbacks, w), UNCHANGED <<data, allocated>>
  PROVE  /\ win' \in Windows /\ win'.uri = win.uri /\ block' \in [Blocks -> Cells] /\ UriOwnsData'
         /\ mixed' \in SUBSET Loads /\ disturbed' \in BOOLEAN
<1>1. [w EXCEPT !.isLoading = FALSE] \in Windows /\ [w EXCEPT !.isLoading = FALSE].uri = win.uri
  BY DEF Windows
<1>2. /\ win' \in Windows /\ win'.uri = win.uri
      /\ mixed' \in SUBSET Loads /\ disturbed' \in BOOLEAN
  BY <1>1, CallKeepsRequest DEF FileConsumeClose, MemoryInv
<1> QED
  BY <1>2, CloseKeepsCells DEF FileConsumeClose, MemoryInv

(* A callback that leaves the cells alone.                                 *)
LEMMA CallbackKeepsMemory ==
  ASSUME MemoryInv, NEW l \in Loads, NEW o \in Kinds, NEW results, NEW new,
         Handle(l, o, results, new), new \in {{}, {<<l, "read">>}, {<<l, "close">>}},
         <<l, "read">> \in new => mark[l] < Chunks,
         NEW callbacks, NEW w \in Windows, w.uri = win.uri,
         Call(l, callbacks, w) \/ UNCHANGED <<heard, win, history>>,
         UNCHANGED <<fileData, block, mpc>>
  PROVE  MemoryInv'
<1>0. data[l] # NULL
  BY DEF Handle, Arrives, MemoryInv, OneEach
<1>1. /\ win' \in Windows /\ win'.uri = win.uri
      /\ mixed' \in SUBSET Loads /\ disturbed' \in BOOLEAN
  <2>1. CASE Call(l, callbacks, w)
    BY <1>0, <2>1, CallKeepsRequest DEF MemoryInv
  <2>2. CASE UNCHANGED <<heard, win, history>>
    BY <2>2 DEF MemoryInv, TypeOK, Windows, history
  <2> QED
    BY <2>1, <2>2
<1>2. block' \in [Blocks -> Cells] /\ UriOwnsData' /\ mpc' \in {"event", "poll", "wild"}
  BY <1>1 DEF MemoryInv, TypeOK, UriOwnsData, UriOf, Handle
<1> QED
  BY <1>1, <1>2, HandlingKeepsMemory

LEMMA CompletionsKeepMemory ==
  ASSUME MemoryInv, NEW l \in Loads, Completed(l)
  PROVE  MemoryInv'
<1> USE DEF Kinds
<1>0. win \in Windows
  BY DEF MemoryInv, TypeOK, Windows
<1>1. CASE Opened(l)
  <2>1. order[l] = << <<l, "open">> >>
    BY <1>1, OneDelivered DEF Opened, Handle, MemoryInv
  <2>2. mark[l] < Chunks
    <3>1. mark[l] = 0
      BY <2>1 DEF MemoryInv, Positions, Pending
    <3> QED
      BY <3>1, ChunksAssumption
  <2>3. [win EXCEPT !.isLoading = TRUE, !.text = <<>>] \in Windows
        /\ [win EXCEPT !.isLoading = TRUE, !.text = <<>>].uri = win.uri
    <3>1. <<>> \in Seq(Loads \X (0 .. Chunks))
      OBVIOUS
    <3> QED
      BY <1>0, <3>1 DEF Windows
  <2> QED
    BY <1>1, <2>2, <2>3, CallbackKeepsMemory DEF Opened, FileConsumeOpen
<1>2. CASE OpenFailed(l) \/ ReadFailed(l)
  <2>1. [win EXCEPT !.isLoading = TRUE] \in Windows /\ [win EXCEPT !.isLoading = TRUE].uri = win.uri
    BY <1>0 DEF Windows
  <2>2. PICK o \in Kinds :
          /\ Handle(l, o, Failures, {}) /\ FileConsumeError(l, ioResult[<<l, o>>])
          /\ UNCHANGED <<fileData, block, mpc>>
    BY <1>2 DEF OpenFailed, ReadFailed
  <2> QED
    BY <2>1, <2>2, CallbackKeepsMemory DEF FileConsumeError
<1>3. CASE Read(l) \/ ReadEnded(l)
  <2>1. /\ WithData(l) \in Windows /\ WithData(l).uri = win.uri
    <3>1. <<l, readBuf[l]>> \in Loads \X (0 .. Chunks)
      BY DEF MemoryInv, TypeOK
    <3>2. Append(win.text, <<l, readBuf[l]>>) \in Seq(Loads \X (0 .. Chunks))
      BY <1>0, <3>1, AppendProperties DEF Windows
    <3> QED
      BY <1>0, <3>2 DEF WithData, Windows
  <2>2. CASE Read(l)
    <3>1. order[l] = << <<l, "read">> >> /\ ioResult[<<l, "read">>] \in {"noErr"}
      BY <2>2, OneDelivered DEF Read, Handle, MemoryInv
    <3>2. mark[l] < Chunks
      BY <3>1 DEF MemoryInv, Positions, Ended
    <3> QED
      BY <2>1, <2>2, <3>2, CallbackKeepsMemory DEF Read, FileConsumeData
  <2>3. CASE ReadEnded(l)
    <3>1. PICK new \in {{}, {<<l, "close">>}} : Handle(l, "read", {"eofErr"}, new)
      BY <2>3 DEF ReadEnded
    <3>2. data[l] # NULL
      BY <3>1 DEF Handle, Arrives, MemoryInv, OneEach
    <3>3. /\ win' \in Windows /\ win'.uri = win.uri /\ block' \in [Blocks -> Cells] /\ UriOwnsData'
          /\ mixed' \in SUBSET Loads /\ disturbed' \in BOOLEAN
      BY <2>1, <2>3, <3>1, <3>2, ConsumeCloseKeepsRequest DEF ReadEnded, Handle
    <3>4. UNCHANGED <<fileData, mpc>> /\ mpc' \in {"event", "poll", "wild"}
      BY <2>3 DEF ReadEnded, MemoryInv, TypeOK
    <3> QED
      BY <3>1, <3>3, <3>4, HandlingKeepsMemory
  <2> QED
    BY <1>3, <2>2, <2>3
<1>4. CASE Closed(l)
  <2>1. Handle(l, "close", {"noErr"} \union Failures, {})
        /\ fileData' = [fileData EXCEPT ![l] = "freed"] /\ mpc' \in {"event", "poll", "wild"}
    BY <1>4 DEF Closed
  <2>2. data[l] # NULL
    BY <2>1 DEF Handle, Arrives, MemoryInv, OneEach
  <2>3. /\ win' \in Windows /\ win'.uri = win.uri /\ block' \in [Blocks -> Cells] /\ UriOwnsData'
        /\ mixed' \in SUBSET Loads /\ disturbed' \in BOOLEAN
    <3>1. CASE FileConsumeClose(l, <<>>, win)
      BY <1>0, <2>1, <2>2, <3>1, ConsumeCloseKeepsRequest DEF Handle
    <3>2. CASE UNCHANGED <<heard, win, history, block>>
      BY <1>0, <2>1, <3>2 DEF history, Handle, MemoryInv, TypeOK, UriOwnsData, UriOf
    <3> QED
      BY <1>4, <3>1, <3>2 DEF Closed
  <2> QED
    BY <2>1, <2>3, HandlingKeepsMemory
<1>5. CASE Derail(l)
  BY <1>5 DEF Derail, file, memory, history, MemoryInv, TypeOK, OneEach, OneAllocated, UriOwnsData, UriOf,
              Positions, Pending, Ended
<1> QED
  BY <1>1, <1>2, <1>3, <1>4, <1>5 DEF Completed

LEMMA MemoryStep == MemoryInv /\ [Next]_vars => MemoryInv'
<1> SUFFICES ASSUME MemoryInv, [Next]_vars PROVE MemoryInv'
  OBVIOUS
<1>1. CASE \E l \in Loads : Navigate(l) \/ NavigateInVain(l)
  BY <1>1, RequestsKeepMemory
<1>2. CASE \E l \in Loads : Succeeds(l) \/ Fails(l) \/ Misopens(l)
  BY <1>2, EndsKeepMemory
<1>3. CASE \E l \in Loads : Completed(l)
  BY <1>3, CompletionsKeepMemory
<1>4. CASE CloseWindow
  <2>1. TypeOK' /\ OneAllocated' /\ UriOwnsData'
    BY <1>4 DEF CloseWindow, file, memory, history, MemoryInv, TypeOK, OneAllocated, UriOwnsData, UriOf
  <2>2. OneEach' /\ Positions'
    BY <1>4 DEF CloseWindow, file, memory, MemoryInv, OneEach, Positions, Pending, Ended
  <2> QED
    BY <2>1, <2>2 DEF MemoryInv
<1>5. CASE PollBegin \/ PollEnd \/ UNCHANGED vars
  <2>1. UNCHANGED <<busy, order, file, memory, win, heard, history>>
        /\ mpc' \in {"event", "poll", "wild"}
    BY <1>5 DEF PollBegin, PollEnd, vars, MemoryInv, TypeOK
  <2>2. TypeOK' /\ OneAllocated' /\ UriOwnsData'
    BY <2>1 DEF file, memory, history, MemoryInv, TypeOK, OneAllocated, UriOwnsData, UriOf
  <2>3. OneEach' /\ Positions'
    BY <2>1 DEF file, memory, MemoryInv, OneEach, Positions, Pending, Ended
  <2> QED
    BY <2>2, <2>3 DEF MemoryInv
<1> QED
  BY <1>1, <1>2, <1>3, <1>4, <1>5, StopKeepsMemory DEF Next, Poll

LEMMA MemoryInit == Init => MemoryInv
<1> SUFFICES ASSUME Init PROVE MemoryInv
  OBVIOUS
<1>1. TypeOK
  <2>1. 0 \in 0 .. Chunks /\ <<>> \in Seq(Ops) /\ <<>> \in Seq(Loads \X (0 .. Chunks))
    BY ChunksAssumption
  <2>2. /\ busy \in SUBSET Ops /\ order \in [Loads -> Seq(Ops)]
        /\ ioResult \in [Ops -> {"noErr", "eofErr"} \union Failures]
    BY <2>1 DEF Init, CQ!Init
  <2>3. /\ mark \in [Loads -> 0 .. Chunks] /\ readBuf \in [Loads -> 0 .. Chunks]
        /\ fileOpen \in SUBSET Loads /\ fileData \in [Loads -> {"none", "live", "freed"}]
        /\ data \in [Loads -> Blocks \union {NULL}] /\ block \in [Blocks -> Cells]
        /\ allocated \in SUBSET Blocks
    BY <2>1 DEF Init, Cells
  <2>4. /\ win \in [open : BOOLEAN, uri : Loads \union {NULL}, isLoading : BOOLEAN,
                   text : Seq(Loads \X (0 .. Chunks))]
        /\ mpc \in {"event", "poll", "wild"} /\ mixed \in SUBSET Loads /\ disturbed \in BOOLEAN
    BY <2>1 DEF Init
  <2> QED
    BY <2>2, <2>3, <2>4 DEF TypeOK
<1>2. OneEach /\ OneAllocated /\ UriOwnsData
  BY DEF Init, CQ!Init, OneEach, OneAllocated, UriOwnsData
<1>3. \A l \in Loads : order[l] # << <<l, "read">> >>
  BY DEF Init, CQ!Init
<1>4. Positions
  BY <1>3, ChunksAssumption DEF Init, CQ!Init, Positions, Pending, Ended
<1> QED
  BY <1>1, <1>2, <1>4 DEF MemoryInv

(* What is outstanding follows from the one queue and the one block.       *)
LEMMA OneIsOutstanding == MemoryInv => OneOperation
<1> SUFFICES ASSUME MemoryInv, NEW l \in Loads
             PROVE  /\ \A p, q \in Outstanding(l) : p = q
                    /\ Len(order[l]) <= 1
                    /\ fileData[l] # "live" => Outstanding(l) = {}
  BY DEF OneOperation
<1>1. \A p \in Ops : p[1] = l => \E o \in Kinds : p = <<l, o>>
  BY DEF Ops, Kinds
<1>2. \A p \in Ops : p[1] = l => (CQ!Undelivered(p) <=> \E i \in DOMAIN order[l] : order[l][i] = p)
  BY DEF CQ!Undelivered, Ops, Owner
<1> QED
  BY <1>1, <1>2 DEF MemoryInv, OneEach, Outstanding

-----------------------------------------------------------------------------
(* The response of a request as a sequence of callbacks, and its prefixes. *)

Callbacks(l) ==
  {<<"status", 200>>, <<"begin">>, <<"closed">>} \union {<<"data", l, k>> : k \in 1 .. Chunks}

Got(l, n) == SubSeq(Response(l), 1, n)

LEMMA ResponseFacts ==
  ASSUME NEW l
  PROVE  /\ Response(l) \in Seq(Callbacks(l)) /\ Len(Response(l)) = Chunks + 3
         /\ Response(l)[1] = <<"status", 200>> /\ Response(l)[2] = <<"begin">>
         /\ \A k \in 1 .. Chunks : Response(l)[2 + k] = <<"data", l, k>>
         /\ Response(l)[Chunks + 3] = <<"closed">>
<1> DEFINE R == Callbacks(l)
           first == << <<"status", 200>>, <<"begin">> >>
           last == << <<"closed">> >>
           both == first \o Content(l)
<1> USE ChunksAssumption
<1>1. first \in Seq(R) /\ Len(first) = 2 /\ last \in Seq(R) /\ Len(last) = 1
      /\ first[1] = <<"status", 200>> /\ first[2] = <<"begin">> /\ last[1] = <<"closed">>
  BY DEF Callbacks
<1>2. Content(l) \in Seq(R) /\ Len(Content(l)) = Chunks
      /\ \A k \in 1 .. Chunks : Content(l)[k] = <<"data", l, k>>
  <2>1. \A k \in 1 .. Chunks : <<"data", l, k>> \in R
    BY DEF Callbacks
  <2> QED
    BY <2>1 DEF Content
<1> HIDE DEF first, last, R
<1>3. both \in Seq(R) /\ Len(both) = 2 + Chunks
      /\ \A i \in 1 .. 2 + Chunks : both[i] = IF i <= 2 THEN first[i] ELSE Content(l)[i - 2]
  <2>1. /\ both \in Seq(R) /\ Len(both) = Len(first) + Len(Content(l))
        /\ \A i \in 1 .. Len(first) + Len(Content(l)) :
              both[i] = IF i <= Len(first) THEN first[i] ELSE Content(l)[i - Len(first)]
    BY <1>1, <1>2, ConcatProperties, ZenonT(60)
  <2> QED
    BY <1>1, <1>2, <2>1
<1> HIDE DEF both
<1>4. /\ both \o last \in Seq(R) /\ Len(both \o last) = Chunks + 3
      /\ \A i \in 1 .. Chunks + 3 : (both \o last)[i] =
            IF i <= 2 + Chunks THEN both[i] ELSE last[i - (2 + Chunks)]
  <2>1. /\ both \o last \in Seq(R) /\ Len(both \o last) = Len(both) + Len(last)
        /\ \A i \in 1 .. Len(both) + Len(last) :
              (both \o last)[i] = IF i <= Len(both) THEN both[i] ELSE last[i - Len(both)]
    BY <1>1, <1>3, ConcatProperties, ZenonT(60)
  <2>2. Len(both) + Len(last) = Chunks + 3
    BY <1>1, <1>3
  <2> QED
    BY <1>3, <2>1, <2>2
<1>5. Response(l) = both \o last
  BY DEF Response, both, first, last
<1>6. Response(l)[1] = first[1] /\ Response(l)[2] = first[2]
  BY <1>3, <1>4, <1>5
<1>7. \A k \in 1 .. Chunks : Response(l)[2 + k] = Content(l)[k]
  BY <1>3, <1>4, <1>5
<1>8. Response(l)[Chunks + 3] = last[1]
  BY <1>4, <1>5
<1> QED
  BY <1>1, <1>2, <1>4, <1>5, <1>6, <1>7, <1>8 DEF R

LEMMA GotFacts ==
  ASSUME NEW l, NEW n \in 0 .. Chunks + 3
  PROVE  /\ Got(l, n) \in Seq(Callbacks(l)) /\ Len(Got(l, n)) = n
         /\ \A i \in 1 .. n : Got(l, n)[i] = Response(l)[i]
         /\ n = 0 => Got(l, n) = <<>>
         /\ n = Chunks + 3 => Got(l, n) = Response(l)
         /\ IsPrefix(Got(l, n), Response(l))
         /\ Got(l, n) # NotFound
<1> USE ChunksAssumption
<1>1. Response(l) \in Seq(Callbacks(l)) /\ Len(Response(l)) = Chunks + 3
  BY ResponseFacts
<1>2. \A i \in 1 .. n : Response(l)[i] \in Callbacks(l)
  BY <1>1, ElementOfSeq
<1>3. Got(l, n) \in Seq(Callbacks(l)) /\ Len(Got(l, n)) = n
      /\ \A i \in 1 .. n : Got(l, n)[i] = Response(l)[i]
  BY <1>2, SubSeqProperties DEF Got
<1>4. n = 0 => Got(l, n) = <<>>
  BY <1>3, EmptySeq
<1>5. n = Chunks + 3 => Got(l, n) = Response(l)
  BY <1>1, <1>3, SeqEqual
<1>6. IsPrefix(Got(l, n), Response(l))
  <2>1. SubSeq(Got(l, n), 1, n) = Got(l, n)
    BY <1>3, SubSeqFull
  <2> QED
    BY <1>1, <1>3, <2>1 DEF IsPrefix, Got
<1>7. Got(l, n) # NotFound
  <2>1. Len(NotFound) = 1 /\ NotFound[1] = <<"status", 404>>
    BY DEF NotFound
  <2>2. Response(l)[1] # <<"status", 404>>
    BY ResponseFacts
  <2> QED
    BY <1>3, <2>1, <2>2, SMTT(30)
<1> QED
  BY <1>3, <1>4, <1>5, <1>6, <1>7

LEMMA GotDistinct ==
  ASSUME NEW l, NEW m \in 0 .. Chunks + 3, NEW n \in 0 .. Chunks + 3, Got(l, m) = Got(l, n)
  PROVE  m = n
BY GotFacts

(* A callback more, or two.                                                *)
LEMMA GotMore ==
  ASSUME NEW l, NEW n \in 0 .. Chunks + 3
  PROVE  /\ n < Chunks + 3 => Got(l, n) \o << Response(l)[n + 1] >> = Got(l, n + 1)
         /\ n < Chunks + 2 =>
              Got(l, n) \o << Response(l)[n + 1], Response(l)[n + 2] >> = Got(l, n + 2)
<1> USE ChunksAssumption
<1>1. Response(l) \in Seq(Callbacks(l)) /\ Len(Response(l)) = Chunks + 3
  BY ResponseFacts
<1>2. Got(l, n) \in Seq(Callbacks(l)) /\ Len(Got(l, n)) = n
      /\ \A i \in 1 .. n : Got(l, n)[i] = Response(l)[i]
  BY GotFacts
<1>3. ASSUME NEW k \in {1, 2}, n + k <= Chunks + 3, NEW more \in Seq(Callbacks(l)),
             Len(more) = k, \A i \in 1 .. k : more[i] = Response(l)[n + i]
      PROVE  Got(l, n) \o more = Got(l, n + k)
  <2>1. n + k \in 0 .. Chunks + 3
    BY <1>3
  <2>2. Got(l, n + k) \in Seq(Callbacks(l)) /\ Len(Got(l, n + k)) = n + k
        /\ \A i \in 1 .. n + k : Got(l, n + k)[i] = Response(l)[i]
    BY <2>1, GotFacts
  <2>3. /\ Got(l, n) \o more \in Seq(Callbacks(l)) /\ Len(Got(l, n) \o more) = n + k
        /\ \A i \in 1 .. n + k :
              (Got(l, n) \o more)[i] = IF i <= n THEN Got(l, n)[i] ELSE more[i - n]
    BY <1>2, <1>3, ConcatProperties
  <2>4. \A i \in 1 .. n + k : (Got(l, n) \o more)[i] = Response(l)[i]
    <3> SUFFICES ASSUME NEW i \in 1 .. n + k PROVE (Got(l, n) \o more)[i] = Response(l)[i]
      OBVIOUS
    <3>0. i <= n \/ i > n
      OBVIOUS
    <3>1. CASE i <= n
      BY <1>2, <2>3, <3>1
    <3>2. CASE i > n
      <4>1. i - n \in 1 .. k /\ n + (i - n) = i
        BY <1>3, <3>2
      <4> QED
        BY <1>3, <2>3, <3>2, <4>1
    <3> QED
      BY <3>0, <3>1, <3>2
  <2> QED
    BY <2>2, <2>3, <2>4, SeqEqual
<1>4. ASSUME n < Chunks + 3 PROVE Got(l, n) \o << Response(l)[n + 1] >> = Got(l, n + 1)
  <2>1. Response(l)[n + 1] \in Callbacks(l)
    BY <1>1, <1>4, ElementOfSeq
  <2> DEFINE more == << Response(l)[n + 1] >>
  <2>2. more \in Seq(Callbacks(l)) /\ Len(more) = 1 /\ \A i \in 1 .. 1 : more[i] = Response(l)[n + i]
    BY <2>1
  <2> HIDE DEF more
  <2>3. Got(l, n) \o more = Got(l, n + 1)
    BY <1>3, <1>4, <2>2, SMTT(30)
  <2> QED
    BY <2>3 DEF more
<1>5. ASSUME n < Chunks + 2
      PROVE  Got(l, n) \o << Response(l)[n + 1], Response(l)[n + 2] >> = Got(l, n + 2)
  <2>1. Response(l)[n + 1] \in Callbacks(l) /\ Response(l)[n + 2] \in Callbacks(l)
    BY <1>1, <1>5, ElementOfSeq
  <2> DEFINE more == << Response(l)[n + 1], Response(l)[n + 2] >>
  <2>2. more \in Seq(Callbacks(l)) /\ Len(more) = 2 /\ \A i \in 1 .. 2 : more[i] = Response(l)[n + i]
    BY <2>1
  <2> HIDE DEF more
  <2>3. n + 2 <= Chunks + 3 /\ 2 \in {1, 2}
    BY <1>5
  <2>4. Got(l, n) \o more = Got(l, n + 2)
    BY <1>3, <2>2, <2>3
  <2> QED
    BY <2>4 DEF more
<1> QED
  BY <1>4, <1>5

-----------------------------------------------------------------------------
(* What the window was told of each request, through its own cell, and     *)
(* what it shows of its own.                                               *)

Text(l, k) == [i \in 1 .. k |-> <<l, i>>]

Told(l) ==
  /\ data[l] = NULL \/ Pending(l, "open") => heard[l] = <<>>
  /\ <<l, "read">> \in busy => heard[l] = Got(l, 2 + mark[l])
  /\ Ended(l, "read", {"noErr", "eofErr"}) => heard[l] = Got(l, 1 + mark[l])
  /\ Pending(l, "close") => heard[l] = Response(l)

Exact(l) == heard[l] = NotFound \/ \E n \in 0 .. Chunks + 3 : heard[l] = Got(l, n)

(* As long as a load finds itself in its cell, this says whether it closed. *)
Marked(l) ==
  data[l] # NULL /\ block[data[l]] # Junk /\ UriOf(l) = l =>
    (block[data[l]].closed <=> heard[l] = Response(l))

Shown ==
  /\ win.uri = NULL => ~win.isLoading
  /\ win.uri # NULL =>
       /\ win.isLoading <=> heard[win.uri] # <<>> /\ heard[win.uri] # Response(win.uri)
       /\ \A k \in 0 .. Chunks : heard[win.uri] = Got(win.uri, 2 + k)
                                => win.text = Text(win.uri, k)
       /\ heard[win.uri] = Response(win.uri) => win.text = Text(win.uri, Chunks)

DeliveryInv ==
  /\ heard = [l \in Loads |-> heard[l]]
  /\ \A l \in Loads \ mixed : Exact(l) /\ (win.open => Told(l) /\ Marked(l))
  /\ ~disturbed /\ win.uri \notin mixed => Shown

(* What has nothing to do with a load leaves what was told of it.          *)
LEMMA ToldElsewhere ==
  ASSUME NEW k \in Loads, Told(k), order'[k] = order[k], mark'[k] = mark[k],
         heard'[k] = heard[k], data'[k] = data[k],
         \A x \in Kinds : /\ <<k, x>> \in busy' <=> <<k, x>> \in busy
                        /\ ioResult'[<<k, x>>] = ioResult[<<k, x>>]
  PROVE  Told(k)'
BY DEF Told, Pending, Ended, Kinds

(* Nothing was told yet: neither the whole response nor its first two.     *)
LEMMA NothingHeard ==
  ASSUME NEW l
  PROVE  /\ <<>> # Response(l) /\ NotFound # Response(l) /\ NotFound # <<>>
         /\ \A k \in 0 .. Chunks : <<>> # Got(l, 2 + k) /\ NotFound # Got(l, 2 + k)
                                  /\ Response(l) # Got(l, 2 + k)
<1> USE ChunksAssumption
<1>1. Response(l) = Got(l, Chunks + 3) /\ Len(Got(l, Chunks + 3)) = Chunks + 3
      /\ NotFound # Got(l, Chunks + 3)
  <2>1. Chunks + 3 \in 0 .. Chunks + 3
    OBVIOUS
  <2> QED
    BY <2>1, GotFacts
<1>2. Len(<<>>) = 0 /\ Len(NotFound) = 1
  BY DEF NotFound
<1>3. ASSUME NEW k \in 0 .. Chunks
      PROVE  Len(Got(l, 2 + k)) = 2 + k /\ NotFound # Got(l, 2 + k)
  <2>1. 2 + k \in 0 .. Chunks + 3
    OBVIOUS
  <2> QED
    BY <2>1, GotFacts
<1> QED
  BY <1>1, <1>2, <1>3

(* A new request has heard nothing, and the window is not loading.         *)
LEMMA RequestsDeliver ==
  ASSUME MemoryInv, DeliveryInv, NEW l \in Loads, Navigate(l) \/ NavigateInVain(l)
  PROVE  DeliveryInv'
<1>1. PICK b \in Blocks : NewURI(l, b)
  BY DEF Navigate, NavigateInVain
<1>2. PICK s \in AfterStop :
        /\ win' = [s.win EXCEPT !.uri = l]
        /\ block' = [s.block EXCEPT ![b] = [uri |-> l, closed |-> FALSE]]
  BY <1>1 DEF NewURI
<1>3. /\ data[l] = NULL /\ data' = [data EXCEPT ![l] = b] /\ win.open
      /\ UNCHANGED <<order, ioResult, mark, readBuf, heard, mixed, disturbed>>
      /\ busy' \in {busy, busy \union {<<l, "open">>}}
  BY <1>1 DEF NewURI, file, history, Navigate, NavigateInVain, CQ!Issue
<1>4. order[l] = <<>> /\ \A o \in Kinds : <<l, o>> \notin busy
  BY <1>3 DEF MemoryInv, OneEach
<1>5. l \notin mixed => heard[l] = <<>> /\ heard'[l] = <<>>
  BY <1>3 DEF DeliveryInv, Told
<1>6. ASSUME ~disturbed', win'.uri \notin mixed' PROVE Shown'
  <2>1. ~s.win.isLoading /\ s.win \in Windows
    <3>1. win.uri # NULL => ~s.win.isLoading
      BY StopFrees DEF MemoryInv, TypeOK
    <3>2. win.uri = NULL => ~s.win.isLoading
      <4>1. NULL \notin mixed
        BY NullAssumption DEF MemoryInv, TypeOK
      <4> QED
        BY <1>3, <1>6, <4>1, StopFrees DEF DeliveryInv, Shown
    <3> QED
      BY <3>1, <3>2, StopFrees
  <2>2. win'.uri = l /\ ~win'.isLoading /\ l # NULL
    BY <1>2, <2>1, NullAssumption DEF Windows
  <2> QED
    BY <1>3, <1>5, <1>6, <2>2, NothingHeard DEF Shown
<1>7. ASSUME NEW k \in Loads \ mixed PROVE Exact(k)' /\ Told(k)' /\ Marked(k)'
  <2>1. CASE k = l
    <3>1. ~Ended(l, "read", {"noErr", "eofErr"})' /\ <<l, "read">> \notin busy'
          /\ ~Pending(l, "close")'
      BY <1>3, <1>4 DEF Ended, Pending, Kinds
    <3>2. heard'[l] = Got(l, 0) /\ 0 \in 0 .. Chunks + 3
      BY <1>5, <1>7, <2>1, GotFacts, ChunksAssumption
    <3>3. ~block'[data'[l]].closed
      <4>1. data'[l] = b
        BY <1>3 DEF MemoryInv, TypeOK
      <4>2. block'[b] = [uri |-> l, closed |-> FALSE]
        BY <1>2, StopFrees
      <4> QED
        BY <4>1, <4>2
    <3>4. heard'[l] # Response(l)
      BY <1>5, <1>7, <2>1, NothingHeard
    <3> QED
      BY <1>5, <1>7, <2>1, <3>1, <3>2, <3>3, <3>4 DEF Told, Exact, Marked
  <2>2. CASE k # l
    <3>1. data'[k] = data[k]
      BY <1>3, <2>2 DEF MemoryInv, TypeOK
    <3>2. \A x \in Kinds : <<k, x>> \in busy' <=> <<k, x>> \in busy
      BY <1>3, <2>2
    <3>3. Exact(k) /\ Told(k) /\ Marked(k)
      BY <1>3, <1>7 DEF DeliveryInv
    <3>4. Marked(k)'
      <4>1. CASE data[k] = b
        <5>1. block'[b] = [uri |-> l, closed |-> FALSE]
          BY <1>2, StopFrees
        <5> QED
          BY <2>2, <3>1, <4>1, <5>1 DEF Marked, UriOf
      <4>2. CASE data[k] # b /\ data[k] # NULL
        <5>1. data[k] \in Blocks
          BY <4>2 DEF MemoryInv, TypeOK
        <5>2. block'[data[k]] = s.block[data[k]]
          BY <1>2, <4>2, <5>1, StopFrees
        <5>3. block'[data[k]] = block[data[k]] \/ block'[data[k]] = Junk
          BY <5>1, <5>2, StopFrees
        <5> QED
          BY <1>3, <3>1, <3>3, <5>3 DEF Marked, UriOf
      <4> QED
        BY <3>1, <4>1, <4>2 DEF Marked
    <3> QED
      BY <1>3, <3>1, <3>2, <3>3, <3>4, ToldElsewhere DEF Exact
  <2> QED
    BY <2>1, <2>2
<1> QED
  BY <1>3, <1>6, <1>7 DEF DeliveryInv

LEMMA StopDelivers == MemoryInv /\ DeliveryInv /\ Stop => DeliveryInv'
<1> SUFFICES ASSUME MemoryInv, DeliveryInv, Stop PROVE DeliveryInv'
  OBVIOUS
<1>1. PICK s \in AfterStop : win' = s.win /\ block' = s.block
  BY DEF Stop
<1>2. UNCHANGED <<busy, order, ioResult, mark, heard, data, mixed, disturbed>> /\ win.open
  BY DEF Stop, file, history
<1>3. ASSUME ~disturbed' PROVE Shown'
  <2>1. win'.uri = NULL /\ ~win'.isLoading
    <3>1. win.uri # NULL => ~s.win.isLoading
      BY StopFrees DEF MemoryInv, TypeOK
    <3>2. win.uri = NULL => ~s.win.isLoading
      <4>1. NULL \notin mixed
        BY NullAssumption DEF MemoryInv, TypeOK
      <4> QED
        BY <1>2, <1>3, <4>1, StopFrees DEF DeliveryInv, Shown
    <3> QED
      BY <1>1, <3>1, <3>2, StopFrees
  <2> QED
    BY <2>1 DEF Shown
<1>4. ASSUME NEW k \in Loads \ mixed PROVE Exact(k)' /\ Told(k)' /\ Marked(k)'
  <2>1. Exact(k) /\ Told(k) /\ Marked(k)
    BY <1>2, <1>4 DEF DeliveryInv
  <2>2. data[k] # NULL => block'[data[k]] = block[data[k]] \/ block'[data[k]] = Junk
    BY <1>1, StopFrees DEF MemoryInv, TypeOK
  <2>3. Marked(k)'
    BY <1>2, <2>1, <2>2 DEF Marked, UriOf
  <2> QED
    BY <1>2, <2>1, <2>3, ToldElsewhere DEF Exact
<1> QED
  BY <1>2, <1>3, <1>4 DEF DeliveryInv

LEMMA EndsDeliver ==
  ASSUME MemoryInv, DeliveryInv, NEW l \in Loads, Succeeds(l) \/ Fails(l) \/ Misopens(l)
  PROVE  DeliveryInv'
<1>1. PICK o \in Kinds, r \in {"noErr", "eofErr"} \union Failures :
        /\ Returns(<<l, o>>, r) /\ mixed \subseteq mixed'
        /\ \/ /\ o = "read" /\ mark' = [mark EXCEPT ![l] = @ + 1]
           \/ /\ o = "read" => r \in Failures
              /\ UNCHANGED <<mark, readBuf>>
  BY Outcomes DEF MemoryInv
<1>2. /\ <<l, o>> \in busy /\ busy' = busy \ {<<l, o>>}
      /\ order' = [order EXCEPT ![l] = << <<l, o>> >>]
  BY <1>1, OneCompleted DEF Returns, MemoryInv
<1>3. UNCHANGED <<heard, data, block, allocated, win, disturbed>>
      /\ ioResult' = [ioResult EXCEPT ![<<l, o>>] = r]
  BY <1>1 DEF Returns, memory
<1>4. ASSUME ~disturbed', win'.uri \notin mixed' PROVE Shown'
  BY <1>1, <1>3, <1>4 DEF DeliveryInv, Shown
<1>5. ASSUME NEW k \in Loads, k # l, Told(k) PROVE Told(k)'
  <2>1. mark'[k] = mark[k] /\ order'[k] = order[k]
    BY <1>1, <1>2, <1>5 DEF MemoryInv, TypeOK
  <2>2. \A x \in Kinds : /\ <<k, x>> \in busy' <=> <<k, x>> \in busy
                       /\ ioResult'[<<k, x>>] = ioResult[<<k, x>>]
    BY <1>2, <1>3, <1>5 DEF MemoryInv, TypeOK, Ops, Kinds
  <2> QED
    BY <1>3, <1>5, <2>1, <2>2, ToldElsewhere
<1>6. ASSUME Told(l) PROVE Told(l)'
  <2>1. Told(l) /\ data[l] # NULL
    BY <1>2, <1>6 DEF MemoryInv, OneEach
  <2>2. order'[l] = << <<l, o>> >> /\ ioResult'[<<l, o>>] = r
    BY <1>2, <1>3 DEF MemoryInv, TypeOK, Ops, Kinds
  <2>3. \A x \in Kinds : <<l, x>> \notin busy' /\ (Pending(l, x)' => x = o /\ Pending(l, x))
    <3>1. \A x \in Kinds : <<l, x>> \notin busy'
      BY <1>2 DEF MemoryInv, OneEach
    <3> QED
      BY <1>2, <2>2, <3>1 DEF Pending
  <2>4. Ended(l, "read", {"noErr", "eofErr"})' => heard'[l] = Got(l, 1 + mark'[l])
    <3> SUFFICES ASSUME Ended(l, "read", {"noErr", "eofErr"})' PROVE heard'[l] = Got(l, 1 + mark'[l])
      OBVIOUS
    <3>1. o = "read" /\ r \in {"noErr", "eofErr"}
      BY <2>2 DEF Ended
    <3>2. mark' = [mark EXCEPT ![l] = @ + 1]
      BY <1>1, <3>1 DEF Failures
    <3>3. mark'[l] = mark[l] + 1 /\ mark[l] \in Nat
      BY <3>2 DEF MemoryInv, TypeOK
    <3>4. heard[l] = Got(l, 2 + mark[l])
      BY <1>2, <2>1, <3>1 DEF Told
    <3>5. 1 + (mark[l] + 1) = 2 + mark[l]
      BY <3>3
    <3> QED
      BY <1>3, <3>3, <3>4, <3>5
  <2> QED
    BY <1>3, <2>1, <2>3, <2>4 DEF Told, Kinds
<1>7. ASSUME NEW k \in Loads \ mixed'
      PROVE  Exact(k)' /\ (win'.open => Told(k)' /\ Marked(k)')
  <2>1. Exact(k) /\ (win.open => Told(k) /\ Marked(k))
    BY <1>1, <1>7 DEF DeliveryInv
  <2>2. Exact(k)' /\ (Marked(k) => Marked(k)')
    BY <1>3, <2>1 DEF Exact, Marked, UriOf
  <2> QED
    BY <1>3, <1>5, <1>6, <2>1, <2>2
<1> QED
  BY <1>3, <1>4, <1>7 DEF DeliveryInv

-----------------------------------------------------------------------------
(* What a completion finds: it was the only one of its load.               *)
LEMMA Delivered ==
  ASSUME MemoryInv, NEW l \in Loads, NEW o \in Kinds, NEW results, NEW new,
         Handle(l, o, results, new)
  PROVE  /\ data[l] \in Blocks /\ data[l] # NULL
         /\ block[data[l]] # Junk => block[data[l]] \in [uri : Loads, closed : BOOLEAN]
         /\ order[l] = << <<l, o>> >> /\ ioResult[<<l, o>>] \in results
         /\ \A x \in Kinds : <<l, x>> \in busy' <=> <<l, x>> \in new
         /\ order'[l] = <<>> /\ UNCHANGED <<ioResult, mark, readBuf, data>>
<1>1. ioResult[<<l, o>>] \in results /\ UNCHANGED <<ioResult, mark, readBuf, data>>
  BY DEF Handle, file
<1>2. order[l] = << <<l, o>> >> /\ busy' = busy \union new /\ order' = [order EXCEPT ![l] = <<>>]
  BY OneDelivered DEF Handle, MemoryInv
<1>3. order'[l] = <<>> /\ order[l] # <<>>
  BY <1>2 DEF MemoryInv, TypeOK
<1>4. data[l] \in Blocks /\ data[l] # NULL /\ \A x \in Kinds : <<l, x>> \notin busy
  BY <1>3 DEF MemoryInv, TypeOK, OneEach
<1>5. block[data[l]] # Junk => block[data[l]] \in [uri : Loads, closed : BOOLEAN]
  BY <1>4 DEF MemoryInv, TypeOK, Cells
<1> QED
  BY <1>1, <1>2, <1>3, <1>4, <1>5

(* A load that stays unmixed was told what it should have been told.       *)
LEMMA WasTold ==
  ASSUME DeliveryInv, NEW l \in Loads, l \notin mixed, win.open
  PROVE  Exact(l) /\ Told(l) /\ Marked(l)
BY DEF DeliveryInv

(* A call of a load that stays unmixed goes through its own cell; the      *)
(* window is undisturbed after it if it was before, or if the page begins. *)
LEMMA OwnCall ==
  ASSUME NEW l \in Loads, NEW callbacks, NEW w, Call(l, callbacks, w),
         win.open, callbacks # <<>>, l \notin mixed'
  PROVE  /\ UriOf(l) = l /\ mixed' = mixed /\ l \notin mixed /\ block[data[l]] # Junk
         /\ heard' = [heard EXCEPT ![l] = @ \o callbacks] /\ win' = w
         /\ ~disturbed' => win.uri = l /\ (~disturbed \/ Begins(callbacks))
<1>1. /\ heard' = [heard EXCEPT ![UriOf(l)] = @ \o callbacks] /\ win' = w
      /\ mixed' = IF UriOf(l) = l THEN mixed ELSE mixed \union {l, UriOf(l)}
      /\ disturbed' = (win.uri # l \/ (disturbed /\ ~Begins(callbacks)))
      /\ block[data[l]] # Junk
  BY Zenon DEF Call
<1>2. UriOf(l) = l /\ mixed' = mixed
  BY <1>1
<1>3. ~disturbed' => win.uri = l /\ (~disturbed \/ Begins(callbacks))
  BY <1>1, Zenon
<1> QED
  BY <1>1, <1>2, <1>3

(* It is enough to look at the load itself while it stays unmixed, and at  *)
(* the window if it is its request: of a call through the cell of another  *)
(* load both are mixed, and a window that was closed is told nothing.      *)
Calls(l, callbacks, w) == Call(l, callbacks, w) \/ UNCHANGED <<heard, win, history>>

Marks(l, callbacks) ==
  \/ UNCHANGED block
  \/ /\ block[data[l]] # Junk /\ (callbacks # <<>> \/ block[data[l]].closed)
     /\ block' = [block EXCEPT ![data[l]].closed = TRUE]

LEMMA DeliveryElsewhere ==
  ASSUME MemoryInv, DeliveryInv, NEW l \in Loads, NEW o \in Kinds, NEW results,
         NEW new \in {{}, {<<l, "read">>}, {<<l, "close">>}},
         Handle(l, o, results, new), NEW callbacks, NEW w \in Windows, w.uri = win.uri,
         Calls(l, callbacks, w), Marks(l, callbacks),
         callbacks = <<>> => UNCHANGED <<heard, win, history>>,
         UNCHANGED block \/ Call(l, callbacks, w),
         win.open /\ l \notin mixed' => Exact(l)' /\ Told(l)' /\ Marked(l)',
         win.open /\ win.uri = l /\ l \notin mixed' /\ ~disturbed' => Shown'
  PROVE  DeliveryInv'
<1>1. busy' = busy \union new /\ order' = [order EXCEPT ![l] = <<>>]
      /\ UNCHANGED <<ioResult, mark, data>>
  BY OneDelivered DEF Handle, MemoryInv, file
<1>2. heard' = [k \in Loads |-> heard'[k]]
  BY DEF DeliveryInv, Calls, Call
<1>3. CASE ~win.open
  <2>1. UNCHANGED <<heard, win, mixed, disturbed>>
    BY <1>3 DEF Calls, Call, history
  <2>2. ASSUME NEW k \in Loads \ mixed PROVE Exact(k)'
    BY <2>1, <2>2 DEF DeliveryInv, Exact
  <2>3. ~disturbed /\ win.uri \notin mixed => Shown'
    BY <2>1 DEF DeliveryInv, Shown
  <2> QED
    BY <1>2, <1>3, <2>1, <2>2, <2>3 DEF DeliveryInv
<1>4. CASE win.open
  <2>1. \/ UNCHANGED <<heard, win, mixed, disturbed>>
        \/ /\ callbacks # <<>> /\ win' = w
           /\ heard' = [heard EXCEPT ![UriOf(l)] = @ \o callbacks]
           /\ mixed' = IF UriOf(l) = l THEN mixed ELSE mixed \union {l, UriOf(l)}
           /\ disturbed' = (win.uri # l \/ (disturbed /\ ~Begins(callbacks)))
    BY <1>4, Zenon DEF Calls, Call, history
  <2>2. mixed \subseteq mixed' /\ win'.uri = win.uri
    BY <2>1
  <2>3. ASSUME NEW k \in Loads \ mixed', k # l PROVE Exact(k)' /\ Told(k)' /\ Marked(k)'
    <3>1. Exact(k) /\ Told(k) /\ Marked(k)
      BY <1>4, <2>2, <2>3, WasTold
    <3>2. heard'[k] = heard[k]
      BY <2>1, <2>3 DEF DeliveryInv
    <3>3. order'[k] = order[k]
      BY <1>1, <2>3 DEF MemoryInv, TypeOK
    <3>4. \A x \in Kinds : <<k, x>> \in busy' <=> <<k, x>> \in busy
      BY <1>1, <2>3
    <3>5. Marked(k)'
      <4>1. CASE UNCHANGED block
        BY <1>1, <3>1, <3>2, <4>1 DEF Marked, UriOf
      <4>2. CASE block' # block
        <5>1. /\ block[data[l]] # Junk /\ (callbacks # <<>> \/ block[data[l]].closed)
              /\ block' = [block EXCEPT ![data[l]].closed = TRUE] /\ Call(l, callbacks, w)
          BY <4>2 DEF Marks
        <5>2. data[l] \in Blocks /\ block[data[l]] \in [uri : Loads, closed : BOOLEAN]
          BY <5>1, Delivered
        <5>3. SUFFICES ASSUME data[k] # NULL PROVE Marked(k)'
          BY <1>1 DEF Marked
        <5>4. data[k] \in Blocks
          BY <5>3 DEF MemoryInv, TypeOK
        <5>5. CASE data[k] # data[l]
          BY <1>1, <3>1, <3>2, <5>1, <5>2, <5>4, <5>5 DEF Marked, UriOf, MemoryInv, TypeOK
        <5>6. CASE data[k] = data[l] /\ callbacks = <<>>
          <6>1. block[data[l]].closed = TRUE
            BY <5>1, <5>2, <5>6
          <6>2. block' = block
            BY <5>1, <5>2, <6>1 DEF MemoryInv, TypeOK
          <6> QED
            BY <4>2, <6>2
        <5>7. CASE data[k] = data[l] /\ callbacks # <<>>
          <6>1. UriOf(l) # k
            <7>1. mixed' = IF UriOf(l) = l THEN mixed ELSE mixed \union {l, UriOf(l)}
              BY <1>4, <5>1, <5>7, Zenon DEF Call
            <7> QED
              BY <2>3, <7>1
          <6>2. block'[data[l]].uri = block[data[l]].uri
            BY <5>1, <5>2 DEF MemoryInv, TypeOK
          <6> QED
            BY <1>1, <5>7, <6>1, <6>2 DEF Marked, UriOf
        <5> QED
          BY <5>5, <5>6, <5>7
      <4> QED
        BY <4>1, <4>2
    <3> QED
      BY <1>1, <3>1, <3>2, <3>3, <3>4, <3>5, ToldElsewhere DEF Exact
  <2>4. ASSUME ~disturbed', win'.uri \notin mixed' PROVE Shown'
    <3>1. CASE win.uri = l
      BY <1>4, <2>2, <2>4, <3>1
    <3>2. CASE win.uri # l
      <4>1. UNCHANGED <<heard, win, mixed, disturbed>>
        BY <2>1, <2>4, <3>2, Zenon
      <4> QED
        BY <2>4, <4>1 DEF DeliveryInv, Shown
    <3> QED
      BY <3>1, <3>2
  <2> QED
    BY <1>2, <1>4, <2>3, <2>4 DEF DeliveryInv
<1> QED
  BY <1>3, <1>4

(* Nothing is outstanding but what is issued now.                          *)
LEMMA ToldNow ==
  ASSUME NEW l \in Loads, NEW n \in 0 .. Chunks + 3, NEW new \in {{}, {<<l, "read">>}, {<<l, "close">>}},
         data'[l] # NULL, order'[l] = <<>>,
         \A x \in Kinds : <<l, x>> \in busy' <=> <<l, x>> \in new,
         heard'[l] = Got(l, n),
         <<l, "read">> \in new => n = 2 + mark'[l],
         <<l, "close">> \in new => n = Chunks + 3
  PROVE  Told(l)' /\ Exact(l)'
<1>1. \A x \in Kinds : order'[l] # << <<l, x>> >>
  OBVIOUS
<1>2. ~Pending(l, "open")' /\ ~Ended(l, "read", {"noErr", "eofErr"})'
  BY <1>1 DEF Pending, Ended, Kinds
<1>3. <<l, "read">> \in busy' => heard'[l] = Got(l, 2 + mark'[l])
  BY DEF Kinds
<1>4. Pending(l, "close")' => heard'[l] = Response(l)
  BY <1>1, GotFacts DEF Pending, Kinds
<1> QED
  BY <1>2, <1>3, <1>4 DEF Told, Exact

(* The open succeeded: status and begin, and the page is empty.            *)
LEMMA OpenedDelivers ==
  ASSUME MemoryInv, DeliveryInv, NEW l \in Loads, Opened(l)
  PROVE  DeliveryInv'
<1> DEFINE new == {<<l, "read">>}
           callbacks == << <<"status", 200>>, <<"begin">> >>
           w == [win EXCEPT !.isLoading = TRUE, !.text = <<>>]
<1>1. Handle(l, "open", {"noErr"}, new) /\ Call(l, callbacks, w) /\ UNCHANGED block
  BY DEF Opened, FileConsumeOpen
<1>2. /\ data[l] \in Blocks /\ data[l] # NULL /\ order[l] = << <<l, "open">> >>
      /\ \A x \in Kinds : <<l, x>> \in busy' <=> <<l, x>> \in new
      /\ order'[l] = <<>> /\ UNCHANGED <<mark, data>>
  BY <1>1, Delivered DEF Kinds
<1>10. w \in Windows /\ w.uri = win.uri
  <2>1. <<>> \in Seq(Loads \X (0 .. Chunks))
    OBVIOUS
  <2> QED
    BY <2>1 DEF MemoryInv, TypeOK, Windows
<1>11. callbacks # <<>>
  OBVIOUS
<1> HIDE DEF callbacks, w
<1>14. Calls(l, callbacks, w) /\ Marks(l, callbacks) /\ "open" \in Kinds
  BY <1>1 DEF Calls, Marks, Kinds
<1> SUFFICES ASSUME win.open, l \notin mixed'
             PROVE  /\ Exact(l)' /\ Told(l)' /\ Marked(l)'
                    /\ win.uri = l /\ ~disturbed' => Shown'
  BY <1>1, <1>10, <1>11, <1>14, DeliveryElsewhere
<1>12. /\ UriOf(l) = l /\ l \notin mixed /\ block[data[l]] # Junk
      /\ heard' = [heard EXCEPT ![l] = @ \o callbacks] /\ win' = w
  BY <1>1, <1>11, OwnCall
<1>13. Told(l) /\ Marked(l)
  BY <1>12, WasTold
<1>3. heard[l] = <<>> /\ mark[l] = 0
  BY <1>2, <1>13 DEF Told, Pending, MemoryInv, Positions
<1>4. heard' = [heard EXCEPT ![l] = @ \o << <<"status", 200>>, <<"begin">> >>]
      /\ win' = [win EXCEPT !.isLoading = TRUE, !.text = <<>>]
  BY <1>12 DEF callbacks, w
<1>5. heard'[l] = Got(l, 2) /\ 2 \in 0 .. Chunks + 3
  <2>1. 0 \in 0 .. Chunks + 3 /\ 0 < Chunks + 2 /\ 2 \in 0 .. Chunks + 3
    BY ChunksAssumption
  <2>2. Got(l, 0) = <<>>
    BY <2>1, GotFacts
  <2>3. Got(l, 0) \o << Response(l)[0 + 1], Response(l)[0 + 2] >> = Got(l, 0 + 2)
    BY <2>1, GotMore
  <2>4. <<>> \o << <<"status", 200>>, <<"begin">> >> = Got(l, 2)
    <3>1. 0 + 1 = 1 /\ 0 + 2 = 2
      OBVIOUS
    <3>2. Got(l, 0) \o << Response(l)[1], Response(l)[2] >> = Got(l, 2)
      BY <2>3, <3>1
    <3> QED
      BY <2>2, <3>2, ResponseFacts
  <2>5. heard'[l] = heard[l] \o << <<"status", 200>>, <<"begin">> >>
    BY <1>4 DEF DeliveryInv
  <2> QED
    BY <1>3, <2>1, <2>4, <2>5
<1>6. Told(l)' /\ Exact(l)'
  <2>1. data'[l] # NULL
    BY <1>2
  <2>2. 2 = 2 + mark'[l]
    BY <1>2, <1>3
  <2> QED
    BY <1>2, <1>5, <2>1, <2>2, ToldNow
<1>7. heard'[l] # <<>> /\ heard'[l] # Response(l)
  <2>1. 0 \in 0 .. Chunks /\ 2 + 0 = 2
    BY ChunksAssumption
  <2> QED
    BY <1>5, <2>1, NothingHeard
<1>8. Marked(l)'
  <2>1. <<>> # Response(l)
    BY NothingHeard
  <2> QED
    BY <1>1, <1>2, <1>3, <1>12, <1>13, <1>7, <2>1 DEF Marked, UriOf
<1>9. ASSUME win.uri = l PROVE Shown'
  <2>1. win'.uri = l /\ win'.isLoading = TRUE /\ win'.text = <<>> /\ l # NULL
    BY <1>4, <1>9, NullAssumption DEF MemoryInv, TypeOK
  <2>2. \A k \in 0 .. Chunks : heard'[l] = Got(l, 2 + k) => win'.text = Text(l, k)
    <3> SUFFICES ASSUME NEW k \in 0 .. Chunks, heard'[l] = Got(l, 2 + k)
                 PROVE  win'.text = Text(l, k)
      OBVIOUS
    <3>1. 2 + k \in 0 .. Chunks + 3
      BY ChunksAssumption
    <3>2. k = 0
      <4>1. 2 = 2 + k
        BY <1>5, <3>1, GotDistinct
      <4> QED
        BY <4>1
    <3>3. Text(l, 0) = <<>>
      BY DEF Text
    <3> QED
      BY <2>1, <3>2, <3>3
  <2> QED
    BY <1>7, <2>1, <2>2 DEF Shown
<1> QED
  BY <1>6, <1>8, <1>9

(* The page with a chunk more.                                             *)
LEMMA TextMore ==
  ASSUME NEW l, NEW m \in Nat \ {0}
  PROVE  Append(Text(l, m - 1), <<l, m>>) = Text(l, m)
<1> DEFINE S == {<<l, i>> : i \in 1 .. m}
           a == [i \in 1 .. m - 1 |-> <<l, i>>]
           c == [i \in 1 .. m |-> <<l, i>>]
<1>1. a \in Seq(S) /\ Len(a) = m - 1 /\ c \in Seq(S) /\ Len(c) = m /\ <<l, m>> \in S
  OBVIOUS
<1>2. /\ Append(a, <<l, m>>) \in Seq(S) /\ Len(Append(a, <<l, m>>)) = m
      /\ \A i \in 1 .. m - 1 : Append(a, <<l, m>>)[i] = a[i]
      /\ Append(a, <<l, m>>)[m] = <<l, m>>
  <2> HIDE DEF a, S
  <2>1. /\ Append(a, <<l, m>>) \in Seq(S) /\ Len(Append(a, <<l, m>>)) = Len(a) + 1
        /\ \A i \in 1 .. Len(a) : Append(a, <<l, m>>)[i] = a[i]
        /\ Append(a, <<l, m>>)[Len(a) + 1] = <<l, m>>
    BY <1>1, AppendProperties
  <2>2. Len(a) + 1 = m
    BY <1>1
  <2> QED
    BY <1>1, <2>1, <2>2
<1>3. \A i \in 1 .. m : Append(a, <<l, m>>)[i] = c[i]
  <2> SUFFICES ASSUME NEW i \in 1 .. m PROVE Append(a, <<l, m>>)[i] = c[i]
    OBVIOUS
  <2>1. CASE i = m
    BY <1>2, <2>1
  <2>2. CASE i # m
    <3>1. i \in 1 .. m - 1
      BY <2>2
    <3>2. a[i] = <<l, i>> /\ c[i] = <<l, i>>
      BY <3>1
    <3> QED
      BY <1>2, <3>1, <3>2
  <2> QED
    BY <2>1, <2>2
<1> HIDE DEF a, c, S
<1>4. Append(a, <<l, m>>) = c
  BY <1>1, <1>2, <1>3, SeqEqual
<1> QED
  BY <1>4 DEF a, c, Text

(* The page with a chunk more is a page of the window.                     *)
LEMMA WindowWithData ==
  ASSUME MemoryInv, NEW l \in Loads
  PROVE  WithData(l) \in Windows /\ WithData(l).uri = win.uri
<1>1. <<l, readBuf[l]>> \in Loads \X (0 .. Chunks)
  BY DEF MemoryInv, TypeOK
<1>2. win \in Windows
  BY DEF MemoryInv, TypeOK, Windows
<1>3. Append(win.text, <<l, readBuf[l]>>) \in Seq(Loads \X (0 .. Chunks))
  BY <1>1, <1>2, AppendProperties DEF Windows
<1> QED
  BY <1>2, <1>3 DEF WithData, Windows

(* A chunk: the next of the file, and the page grows by it.                *)
LEMMA ReadDelivers ==
  ASSUME MemoryInv, DeliveryInv, NEW l \in Loads, Read(l)
  PROVE  DeliveryInv'
<1> DEFINE new == {<<l, "read">>}
           callbacks == <<DataCallback(l)>>
           w == WithData(l)
           m == mark[l]
<1>1. Handle(l, "read", {"noErr"}, new) /\ Call(l, callbacks, w) /\ UNCHANGED block
  BY DEF Read, FileConsumeData
<1>2. /\ data[l] \in Blocks /\ data[l] # NULL
      /\ order[l] = << <<l, "read">> >> /\ ioResult[<<l, "read">>] \in {"noErr"}
      /\ \A x \in Kinds : <<l, x>> \in busy' <=> <<l, x>> \in new
      /\ order'[l] = <<>> /\ UNCHANGED <<mark, data>>
  BY <1>1, Delivered DEF Kinds
<1>8. callbacks # <<>> /\ ~Begins(callbacks)
  BY DEF Begins, DataCallback
<1>9. w \in Windows /\ w.uri = win.uri
  BY WindowWithData
<1> HIDE DEF callbacks, w
<1>14. Calls(l, callbacks, w) /\ Marks(l, callbacks) /\ "read" \in Kinds
  BY <1>1 DEF Calls, Marks, Kinds
<1> SUFFICES ASSUME win.open, l \notin mixed'
             PROVE  /\ Exact(l)' /\ Told(l)' /\ Marked(l)'
                    /\ win.uri = l /\ ~disturbed' => Shown'
  BY <1>1, <1>8, <1>9, <1>14, DeliveryElsewhere
<1>10. /\ UriOf(l) = l /\ l \notin mixed /\ block[data[l]] # Junk
       /\ heard' = [heard EXCEPT ![l] = @ \o callbacks] /\ win' = w
       /\ ~disturbed' => ~disturbed
  BY <1>1, <1>8, OwnCall
<1>11. Told(l) /\ Marked(l)
  BY <1>10, WasTold
<1>3. heard[l] = Got(l, 1 + m) /\ m \in 1 .. Chunks - 1 /\ readBuf[l] = m
  <2>1. Ended(l, "read", {"noErr"}) /\ Ended(l, "read", {"noErr", "eofErr"})
    BY <1>2 DEF Ended
  <2>2. heard[l] = Got(l, 1 + m)
    BY <1>11, <2>1 DEF Told
  <2>3. m > 0 /\ m < Chunks /\ readBuf[l] = m /\ m \in 0 .. Chunks
    BY <2>1 DEF MemoryInv, Positions, TypeOK
  <2> QED
    BY <2>2, <2>3, ChunksAssumption
<1>4. heard' = [heard EXCEPT ![l] = @ \o << <<"data", l, m>> >>]
      /\ win' = [win EXCEPT !.text = Append(@, <<l, m>>)]
  BY <1>3, <1>10 DEF callbacks, w, DataCallback, WithData
<1> HIDE DEF m
<1>5. heard'[l] = Got(l, 2 + m) /\ 2 + m \in 0 .. Chunks + 3
  <2>1. 1 + m \in 0 .. Chunks + 3 /\ 1 + m < Chunks + 3 /\ (1 + m) + 1 = 2 + m /\ m \in 1 .. Chunks
        /\ 2 + m \in 0 .. Chunks + 3
    BY <1>3, ChunksAssumption
  <2>2. Got(l, 1 + m) \o << Response(l)[2 + m] >> = Got(l, 2 + m)
    <3>1. Got(l, 1 + m) \o << Response(l)[(1 + m) + 1] >> = Got(l, (1 + m) + 1)
      BY <2>1, GotMore
    <3> QED
      BY <2>1, <3>1
  <2>3. Response(l)[2 + m] = <<"data", l, m>>
    BY <2>1, ResponseFacts
  <2>4. heard'[l] = heard[l] \o << <<"data", l, m>> >>
    BY <1>4 DEF DeliveryInv
  <2> QED
    BY <1>3, <2>1, <2>2, <2>3, <2>4
<1>6. Told(l)' /\ Exact(l)'
  <2>1. data'[l] # NULL
    BY <1>2
  <2>2. 2 + m = 2 + mark'[l]
    BY <1>2 DEF m
  <2> QED
    BY <1>2, <1>5, <2>1, <2>2, ToldNow
<1>7. /\ heard[l] # <<>> /\ heard[l] # Response(l)
      /\ heard'[l] # <<>> /\ heard'[l] # Response(l)
  <2>1. m - 1 \in 0 .. Chunks /\ 2 + (m - 1) = 1 + m /\ m \in 0 .. Chunks
    BY <1>3, ChunksAssumption
  <2> QED
    BY <1>3, <1>5, <2>1, NothingHeard
<1>12. Marked(l)'
  BY <1>1, <1>2, <1>7, <1>10, <1>11 DEF Marked, UriOf
<1>13. ASSUME win.uri = l, ~disturbed' PROVE Shown'
  <2>1. win'.uri = l /\ win'.isLoading = win.isLoading /\ win'.text = Append(win.text, <<l, m>>)
        /\ l # NULL
    BY <1>4, <1>13, NullAssumption DEF MemoryInv, TypeOK
  <2>2. Shown
    BY <1>10, <1>13 DEF DeliveryInv
  <2>3. win.text = Text(l, m - 1)
    <3>1. m - 1 \in 0 .. Chunks /\ 2 + (m - 1) = 1 + m
      BY <1>3, ChunksAssumption
    <3> QED
      BY <1>3, <1>13, <2>1, <2>2, <3>1 DEF Shown
  <2>4. win'.text = Text(l, m)
    <3>1. m \in Nat \ {0}
      BY <1>3, ChunksAssumption
    <3> QED
      BY <2>1, <2>3, <3>1, TextMore
  <2>5. \A k \in 0 .. Chunks : heard'[l] = Got(l, 2 + k) => win'.text = Text(l, k)
    <3> SUFFICES ASSUME NEW k \in 0 .. Chunks, heard'[l] = Got(l, 2 + k)
                 PROVE  win'.text = Text(l, k)
      OBVIOUS
    <3>1. 2 + k \in 0 .. Chunks + 3
      BY ChunksAssumption
    <3>2. 2 + m = 2 + k
      BY <1>5, <3>1, GotDistinct
    <3>3. m = k
      BY <1>3, <3>2
    <3> QED
      BY <2>4, <3>3
  <2>6. win'.isLoading <=> heard'[l] # <<>> /\ heard'[l] # Response(l)
    BY <1>7, <1>13, <2>1, <2>2 DEF Shown
  <2> QED
    BY <1>7, <2>1, <2>5, <2>6 DEF Shown
<1> QED
  BY <1>6, <1>12, <1>13

LEMMA PairAppended ==
  ASSUME NEW x, NEW y
  PROVE  Append(<<x>>, y) = <<x, y>>
<1> DEFINE one == <<x>>
           two == <<x, y>>
           S == {x, y}
<1>1. one \in Seq(S) /\ Len(one) = 1 /\ one[1] = x
  OBVIOUS
<1>2. two \in Seq(S) /\ Len(two) = 2 /\ two[1] = x /\ two[2] = y
  OBVIOUS
<1>3. y \in S
  OBVIOUS
<1> HIDE DEF one, two, S
<1>4. one \in Seq(S)
  BY <1>1
<1>5. /\ Append(one, y) \in Seq(S) /\ Len(Append(one, y)) = Len(one) + 1
      /\ \A i \in 1 .. Len(one) : Append(one, y)[i] = one[i]
      /\ Append(one, y)[Len(one) + 1] = y
  BY <1>3, <1>4, AppendProperties
<1>6. Append(one, y) = two
  BY <1>1, <1>2, <1>5, SeqEqual
<1> QED
  BY <1>6 DEF one, two

(* The end: the last chunk and the one close.                              *)
LEMMA ReadEndedDelivers ==
  ASSUME MemoryInv, DeliveryInv, NEW l \in Loads, ReadEnded(l)
  PROVE  DeliveryInv'
<1> USE ChunksAssumption
<1>1. PICK new \in {{}, {<<l, "close">>}} : Handle(l, "read", {"eofErr"}, new)
  BY DEF ReadEnded
<1>2. /\ data[l] \in Blocks /\ data[l] # NULL
      /\ block[data[l]] # Junk => block[data[l]] \in [uri : Loads, closed : BOOLEAN]
      /\ order[l] = << <<l, "read">> >> /\ ioResult[<<l, "read">>] \in {"eofErr"}
      /\ \A x \in Kinds : <<l, x>> \in busy' <=> <<l, x>> \in new
      /\ order'[l] = <<>> /\ UNCHANGED <<mark, data>>
  BY <1>1, Delivered DEF Kinds
<1> DEFINE one == <<DataCallback(l)>>
           two == Append(one, <<"closed">>)
           shut == [WithData(l) EXCEPT !.isLoading = FALSE]
           already == block[data[l]].closed
<1>9. /\ block[data[l]] # Junk
      /\ IF already THEN Call(l, one, WithData(l)) ELSE Call(l, two, shut)
      /\ block' = [block EXCEPT ![data[l]].closed = TRUE]
  BY DEF ReadEnded, FileConsumeClose
<1>10. two = << DataCallback(l), <<"closed">> >>
  BY PairAppended
<1>11. /\ one # <<>> /\ ~Begins(one) /\ two # <<>> /\ ~Begins(two)
       /\ WithData(l) \in Windows /\ WithData(l).uri = win.uri
       /\ shut \in Windows /\ shut.uri = win.uri
  <2>1. one # <<>> /\ ~Begins(one)
    BY DEF Begins, DataCallback
  <2>2. two # <<>> /\ ~Begins(two)
    <3> HIDE DEF two
    <3> QED
      BY <1>10 DEF Begins, DataCallback
  <2>3. WithData(l) \in Windows /\ WithData(l).uri = win.uri
    BY WindowWithData
  <2>4. shut \in Windows /\ shut.uri = win.uri
    BY <2>3 DEF Windows
  <2> QED
    BY <2>1, <2>2, <2>3, <2>4
<1> HIDE DEF one, two, shut, already
<1>12. \E callbacks, w :
         /\ Call(l, callbacks, w) /\ w \in Windows /\ w.uri = win.uri
         /\ callbacks # <<>> /\ ~Begins(callbacks)
         /\ ~already => callbacks = two /\ w = shut
  BY <1>9, <1>11
<1>13. PICK callbacks, w :
         /\ Call(l, callbacks, w) /\ w \in Windows /\ w.uri = win.uri
         /\ callbacks # <<>> /\ ~Begins(callbacks)
         /\ ~already => callbacks = two /\ w = shut
  BY <1>12
<1>14. Calls(l, callbacks, w) /\ Marks(l, callbacks)
  BY <1>9, <1>13 DEF Calls, Marks
<1> SUFFICES ASSUME win.open, l \notin mixed'
             PROVE  /\ Exact(l)' /\ Told(l)' /\ Marked(l)'
                    /\ win.uri = l /\ ~disturbed' => Shown'
  BY <1>1, <1>13, <1>14, DeliveryElsewhere DEF Kinds
<1>15. /\ UriOf(l) = l /\ l \notin mixed
       /\ heard' = [heard EXCEPT ![l] = @ \o callbacks] /\ win' = w
       /\ ~disturbed' => ~disturbed
  BY <1>13, OwnCall
<1>16. Told(l) /\ Marked(l)
  BY <1>15, WasTold
<1>3. heard[l] = Got(l, 1 + Chunks) /\ readBuf[l] = Chunks
  <2>1. Ended(l, "read", {"eofErr"}) /\ Ended(l, "read", {"noErr", "eofErr"})
    BY <1>2 DEF Ended
  <2>2. heard[l] = Got(l, 1 + mark[l])
    BY <1>16, <2>1 DEF Told
  <2>3. mark[l] = Chunks /\ readBuf[l] = Chunks
    BY <2>1 DEF MemoryInv, Positions
  <2> QED
    BY <2>2, <2>3
<1>4. /\ Chunks - 1 \in 0 .. Chunks /\ heard[l] = Got(l, 2 + (Chunks - 1))
      /\ heard[l] # Response(l) /\ ~already /\ l # NULL
  <2>1. Chunks - 1 \in 0 .. Chunks /\ 2 + (Chunks - 1) = 1 + Chunks
    OBVIOUS
  <2>2. heard[l] # Response(l) /\ heard[l] = Got(l, 2 + (Chunks - 1))
    BY <1>3, <2>1, NothingHeard
  <2> QED
    BY <1>2, <1>9, <1>15, <1>16, <2>1, <2>2, NullAssumption DEF Marked, already
<1>5. /\ heard' = [heard EXCEPT ![l] = @ \o << <<"data", l, Chunks>>, <<"closed">> >>]
      /\ win' = [[win EXCEPT !.text = Append(@, <<l, Chunks>>)] EXCEPT !.isLoading = FALSE]
  <2>1. two = << <<"data", l, Chunks>>, <<"closed">> >>
    BY <1>3, <1>10 DEF DataCallback
  <2>2. shut = [[win EXCEPT !.text = Append(@, <<l, Chunks>>)] EXCEPT !.isLoading = FALSE]
    BY <1>3 DEF shut, WithData
  <2> QED
    BY <1>4, <1>13, <1>15, <2>1, <2>2
<1>6. heard'[l] = Response(l) /\ heard'[l] = Got(l, Chunks + 3) /\ Chunks + 3 \in 0 .. Chunks + 3
  <2>1. 1 + Chunks \in 0 .. Chunks + 3 /\ 1 + Chunks < Chunks + 2 /\ (1 + Chunks) + 2 = Chunks + 3
        /\ (1 + Chunks) + 1 = 2 + Chunks /\ Chunks \in 1 .. Chunks /\ Chunks + 3 \in 0 .. Chunks + 3
    OBVIOUS
  <2>2. Got(l, 1 + Chunks) \o << Response(l)[2 + Chunks], Response(l)[Chunks + 3] >> = Got(l, Chunks + 3)
    <3>1. Got(l, 1 + Chunks) \o << Response(l)[(1 + Chunks) + 1], Response(l)[(1 + Chunks) + 2] >>
            = Got(l, (1 + Chunks) + 2)
      BY <2>1, GotMore
    <3> QED
      BY <2>1, <3>1
  <2>3. Response(l)[2 + Chunks] = <<"data", l, Chunks>> /\ Response(l)[Chunks + 3] = <<"closed">>
    BY <2>1, ResponseFacts
  <2>4. heard'[l] = heard[l] \o << <<"data", l, Chunks>>, <<"closed">> >>
    BY <1>5 DEF DeliveryInv
  <2>5. Got(l, Chunks + 3) = Response(l)
    BY <2>1, GotFacts
  <2> QED
    BY <1>3, <2>1, <2>2, <2>3, <2>4, <2>5
<1>7. Told(l)' /\ Exact(l)'
  <2>1. data'[l] # NULL /\ <<l, "read">> \notin new
    BY <1>2
  <2> QED
    BY <1>2, <1>6, <2>1, ToldNow
<1>8. Marked(l)'
  <2>1. block'[data'[l]].closed
    BY <1>2, <1>9 DEF MemoryInv, TypeOK
  <2> QED
    BY <1>6, <2>1 DEF Marked
<1>17. ASSUME win.uri = l, ~disturbed' PROVE Shown'
  <2>1. win'.uri = l /\ ~win'.isLoading /\ win'.text = Append(win.text, <<l, Chunks>>)
    BY <1>5, <1>17 DEF MemoryInv, TypeOK
  <2>2. win.text = Text(l, Chunks - 1)
    BY <1>4, <1>15, <1>17 DEF DeliveryInv, Shown
  <2>3. win'.text = Text(l, Chunks)
    BY <2>1, <2>2, TextMore
  <2>4. \A k \in 0 .. Chunks : heard'[l] # Got(l, 2 + k)
    BY <1>6, NothingHeard
  <2> QED
    BY <1>4, <1>6, <2>1, <2>3, <2>4 DEF Shown
<1> QED
  BY <1>7, <1>8, <1>17

(* A failure: a missing file is a 404, any other is not told.              *)
LEMMA FailureDelivers ==
  ASSUME MemoryInv, DeliveryInv, NEW l \in Loads, OpenFailed(l) \/ ReadFailed(l)
  PROVE  DeliveryInv'
<1> DEFINE none == {}
           w == [win EXCEPT !.isLoading = TRUE]
<1>1. PICK o \in {"open", "read"} :
        /\ Handle(l, o, Failures, none) /\ FileConsumeError(l, ioResult[<<l, o>>]) /\ UNCHANGED block
        /\ ioResult[<<l, o>>] \in Failures
  BY DEF OpenFailed, ReadFailed, Handle
<1> HIDE DEF none
<1>2. /\ data[l] \in Blocks /\ data[l] # NULL /\ order[l] = << <<l, o>> >>
      /\ \A x \in Kinds : <<l, x>> \notin busy'
      /\ order'[l] = <<>> /\ UNCHANGED <<mark, data>>
  <2>1. o \in Kinds
    BY DEF Kinds
  <2>2. \A x \in Kinds : <<l, x>> \in busy' <=> <<l, x>> \in none
    BY <1>1, <2>1, Delivered
  <2>3. \A x \in Kinds : <<l, x>> \notin busy'
    BY <2>2 DEF none
  <2> QED
    BY <1>1, <2>1, <2>3, Delivered
<1>3. data'[l] # NULL /\ l # NULL /\ none \in {{}, {<<l, "read">>}, {<<l, "close">>}} /\ o \in Kinds
  BY <1>2, NullAssumption DEF none, Kinds
<1>4. /\ ~Pending(l, "open")' /\ ~Ended(l, "read", {"noErr", "eofErr"})' /\ ~Pending(l, "close")'
      /\ <<l, "read">> \notin busy'
  <2>1. \A x \in Kinds : order'[l] # << <<l, x>> >>
    BY <1>2
  <2> QED
    BY <1>2, <2>1 DEF Pending, Ended, Kinds
<1>5. CASE ioResult[<<l, o>>] = "fnfErr"
  <2>1. o = "open"
    BY <1>2, <1>5 DEF MemoryInv, Positions, Ended
  <2>2. Call(l, NotFound, w)
    BY <1>1, <1>5 DEF FileConsumeError, NotFound
  <2>3. w \in Windows /\ w.uri = win.uri
    BY DEF MemoryInv, TypeOK, Windows
  <2>4. NotFound # <<>> /\ ~Begins(NotFound)
    BY DEF NotFound, Begins
  <2> HIDE DEF w
  <2>12. Calls(l, NotFound, w) /\ Marks(l, NotFound)
    BY <1>1, <2>2 DEF Calls, Marks
  <2> SUFFICES ASSUME win.open, l \notin mixed'
               PROVE  /\ Exact(l)' /\ Told(l)' /\ Marked(l)'
                      /\ win.uri = l /\ ~disturbed' => Shown'
    BY <1>1, <1>3, <2>3, <2>4, <2>12, DeliveryElsewhere
  <2>5. /\ UriOf(l) = l /\ l \notin mixed /\ block[data[l]] # Junk
        /\ heard' = [heard EXCEPT ![l] = @ \o NotFound] /\ win' = w
        /\ ~disturbed' => ~disturbed
    BY <2>2, <2>4, OwnCall
  <2>6. Told(l) /\ Marked(l)
    BY <2>5, WasTold
  <2>7. heard[l] = <<>>
    BY <1>2, <2>1, <2>6 DEF Told, Pending
  <2>8. heard'[l] = NotFound
    <3>1. heard'[l] = <<>> \o NotFound
      BY <2>5, <2>7 DEF DeliveryInv
    <3>2. <<>> \o NotFound = NotFound
      BY DEF NotFound
    <3> QED
      BY <3>1, <3>2
  <2>9. Told(l)' /\ Exact(l)'
    BY <1>3, <1>4, <2>8 DEF Told, Exact
  <2>10. Marked(l)'
    <3>1. <<>> # Response(l) /\ NotFound # Response(l)
      BY NothingHeard
    <3> QED
      BY <1>1, <1>2, <2>5, <2>6, <2>7, <2>8, <3>1 DEF Marked, UriOf
  <2>11. ASSUME win.uri = l PROVE Shown'
    <3>1. win'.uri = l /\ win'.isLoading = TRUE
      BY <2>5, <2>11 DEF w, MemoryInv, TypeOK
    <3> QED
      BY <1>3, <2>8, <3>1, NothingHeard DEF Shown
  <2> QED
    BY <2>9, <2>10, <2>11
<1>6. CASE ioResult[<<l, o>>] # "fnfErr"
  <2>1. UNCHANGED <<heard, win, history>>
    BY <1>1, <1>6 DEF FileConsumeError
  <2>2. UNCHANGED <<heard, win, mixed, disturbed>>
    BY <2>1 DEF history
  <2>3. win \in Windows
    BY DEF MemoryInv, TypeOK, Windows
  <2> SUFFICES ASSUME win.open, l \notin mixed'
               PROVE  /\ Exact(l)' /\ Told(l)' /\ Marked(l)'
                      /\ win.uri = l /\ ~disturbed' => Shown'
    BY <1>1, <1>3, <2>1, <2>3, DeliveryElsewhere DEF Calls, Marks
  <2>4. Exact(l) /\ Told(l) /\ Marked(l)
    BY <2>2, WasTold
  <2>5. Exact(l)' /\ Told(l)'
    BY <1>2, <1>3, <1>4, <2>2, <2>4 DEF Told, Exact
  <2>6. Marked(l)'
    BY <1>1, <1>2, <2>2, <2>4 DEF Marked, UriOf
  <2>7. win.uri = l /\ ~disturbed' => Shown'
    BY <2>2 DEF DeliveryInv, Shown
  <2> QED
    BY <2>5, <2>6, <2>7
<1> QED
  BY <1>5, <1>6

(* The file is closed: the window has had its close, unless the cell is    *)
(* another load's.                                                         *)
LEMMA ClosedDelivers ==
  ASSUME MemoryInv, DeliveryInv, NEW l \in Loads, Closed(l)
  PROVE  DeliveryInv'
<1> DEFINE none == {}
           results == {"noErr"} \union Failures
           told == << <<"closed">> >>
           shut == [win EXCEPT !.isLoading = FALSE]
<1>1. Handle(l, "close", results, none)
  BY DEF Closed
<1> HIDE DEF none, results
<1>2. /\ data[l] \in Blocks /\ data[l] # NULL /\ order[l] = << <<l, "close">> >>
      /\ block[data[l]] # Junk => block[data[l]] \in [uri : Loads, closed : BOOLEAN]
      /\ \A x \in Kinds : <<l, x>> \notin busy'
      /\ order'[l] = <<>> /\ UNCHANGED <<mark, data>>
  <2>1. "close" \in Kinds
    BY DEF Kinds
  <2>2. \A x \in Kinds : <<l, x>> \in busy' <=> <<l, x>> \in none
    BY <1>1, <2>1, Delivered
  <2>3. \A x \in Kinds : <<l, x>> \notin busy'
    BY <2>2 DEF none
  <2> QED
    BY <1>1, <2>1, <2>3, Delivered
<1>3. none \in {{}, {<<l, "read">>}, {<<l, "close">>}} /\ "close" \in Kinds
  BY DEF none, Kinds
<1>4. win \in Windows /\ shut \in Windows /\ shut.uri = win.uri /\ told # <<>>
  BY DEF MemoryInv, TypeOK, Windows
<1>5. \/ UNCHANGED <<heard, win, history, block>>
      \/ /\ block[data[l]] # Junk /\ ~block[data[l]].closed
         /\ Call(l, told, shut) /\ block' = [block EXCEPT ![data[l]].closed = TRUE]
  <2>1. CASE FileConsumeClose(l, <<>>, win)
    <3>1. CASE block[data[l]].closed
      <4>1. UNCHANGED <<heard, win, history>>
        BY <2>1, <3>1 DEF FileConsumeClose, Call
      <4>2. block' = block
        <5>1. block[data[l]] # Junk /\ block' = [block EXCEPT ![data[l]].closed = TRUE]
          BY <2>1 DEF FileConsumeClose
        <5>2. block[data[l]].closed = TRUE
          BY <1>2, <3>1, <5>1
        <5> QED
          BY <1>2, <5>1, <5>2 DEF MemoryInv, TypeOK
      <4> QED
        BY <4>1, <4>2
    <3>2. CASE ~block[data[l]].closed
      <4>1. Append(<<>>, <<"closed">>) = told
        OBVIOUS
      <4> QED
        BY <2>1, <3>2, <4>1 DEF FileConsumeClose
    <3> QED
      BY <3>1, <3>2
  <2>2. CASE UNCHANGED <<heard, win, history, block>>
    BY <2>2
  <2> QED
    BY <2>1, <2>2 DEF Closed
<1>6. /\ ~Pending(l, "open")' /\ ~Ended(l, "read", {"noErr", "eofErr"})' /\ <<l, "read">> \notin busy'
  <2>1. \A x \in Kinds : order'[l] # << <<l, x>> >>
    BY <1>2
  <2> QED
    BY <1>2, <2>1 DEF Pending, Ended, Kinds
<1> HIDE DEF told, shut
<1>7. CASE UNCHANGED <<heard, win, history, block>>
  <2>1. UNCHANGED <<heard, win, mixed, disturbed, block>>
    BY <1>7 DEF history
  <2> SUFFICES ASSUME win.open, l \notin mixed'
               PROVE  /\ Exact(l)' /\ Told(l)' /\ Marked(l)'
                      /\ win.uri = l /\ ~disturbed' => Shown'
    BY <1>1, <1>3, <1>4, <1>7, DeliveryElsewhere DEF Calls, Marks
  <2>2. Exact(l) /\ Told(l) /\ Marked(l)
    BY <2>1, WasTold
  <2>3. heard[l] = Response(l)
    BY <1>2, <2>2 DEF Told, Pending
  <2>4. Exact(l)' /\ Told(l)' /\ Marked(l)'
    BY <1>2, <1>6, <2>1, <2>2, <2>3 DEF Told, Exact, Marked, UriOf
  <2>5. win.uri = l /\ ~disturbed' => Shown'
    BY <2>1 DEF DeliveryInv, Shown
  <2> QED
    BY <2>4, <2>5
<1>8. CASE /\ block[data[l]] # Junk /\ ~block[data[l]].closed
           /\ Call(l, told, shut) /\ block' = [block EXCEPT ![data[l]].closed = TRUE]
  <2>1. ASSUME win.open, l \notin mixed' PROVE FALSE
    <3>1. UriOf(l) = l /\ l \notin mixed
      BY <1>4, <1>8, <2>1, OwnCall
    <3>2. Told(l) /\ Marked(l)
      BY <2>1, <3>1, WasTold
    <3>3. heard[l] = Response(l)
      BY <1>2, <3>2 DEF Told, Pending
    <3> QED
      BY <1>2, <1>8, <3>1, <3>2, <3>3 DEF Marked
  <2> QED
    BY <1>1, <1>3, <1>4, <1>8, <2>1, DeliveryElsewhere DEF Calls, Marks
<1> QED
  BY <1>5, <1>7, <1>8

LEMMA DeliveryStep == MemoryInv /\ DeliveryInv /\ [Next]_vars => DeliveryInv'
<1> SUFFICES ASSUME MemoryInv, DeliveryInv, [Next]_vars PROVE DeliveryInv'
  OBVIOUS
<1>1. CASE \E l \in Loads : Navigate(l) \/ NavigateInVain(l)
  BY <1>1, RequestsDeliver
<1>2. CASE \E l \in Loads : Succeeds(l) \/ Fails(l) \/ Misopens(l)
  BY <1>2, EndsDeliver
<1>3. CASE \E l \in Loads : Completed(l)
  <2>1. PICK l \in Loads : Completed(l)
    BY <1>3
  <2>2. CASE Derail(l)
    <3>1. UNCHANGED <<busy, order, ioResult, mark, heard, data, block, win, mixed, disturbed>>
      BY <2>2 DEF Derail, file, memory, history
    <3>2. ASSUME NEW k \in Loads \ mixed PROVE Exact(k)' /\ (win'.open => Told(k)' /\ Marked(k)')
      <4>1. Exact(k) /\ (win.open => Told(k) /\ Marked(k))
        BY <3>2 DEF DeliveryInv
      <4> QED
        BY <3>1, <4>1, ToldElsewhere DEF Exact, Marked, UriOf
    <3>3. ~disturbed /\ win.uri \notin mixed => Shown'
      BY <3>1 DEF DeliveryInv, Shown
    <3> QED
      BY <3>1, <3>2, <3>3 DEF DeliveryInv
  <2> QED
    BY <2>1, <2>2, OpenedDelivers, ReadDelivers, ReadEndedDelivers, FailureDelivers, ClosedDelivers
    DEF Completed
<1>4. CASE CloseWindow \/ PollBegin \/ PollEnd \/ UNCHANGED vars
  <2>1. UNCHANGED <<busy, order, ioResult, mark, heard, data, block, mixed, disturbed>>
        /\ win'.uri = win.uri /\ win'.isLoading = win.isLoading /\ win'.text = win.text
        /\ (win'.open => win.open)
    BY <1>4 DEF CloseWindow, PollBegin, PollEnd, vars, file, memory, history, MemoryInv, TypeOK
  <2>2. ~disturbed /\ win.uri \notin mixed => Shown'
    BY <2>1 DEF DeliveryInv, Shown
  <2>3. ASSUME NEW k \in Loads \ mixed PROVE Exact(k)' /\ (win'.open => Told(k)' /\ Marked(k)')
    <3>1. Exact(k) /\ (win.open => Told(k) /\ Marked(k))
      BY <2>3 DEF DeliveryInv
    <3> QED
      BY <2>1, <3>1, ToldElsewhere DEF Exact, Marked, UriOf
  <2> QED
    BY <2>1, <2>2, <2>3 DEF DeliveryInv
<1> QED
  BY <1>1, <1>2, <1>3, <1>4, StopDelivers DEF Next, Poll

LEMMA DeliveryInit == Init => DeliveryInv
<1> SUFFICES ASSUME Init PROVE DeliveryInv
  OBVIOUS
<1>1. ASSUME NEW l \in Loads PROVE Exact(l) /\ Told(l) /\ Marked(l)
  <2>1. <<>> = Got(l, 0) /\ 0 \in 0 .. Chunks + 3
    BY GotFacts, ChunksAssumption
  <2>2. \A x \in Kinds : order[l] # << <<l, x>> >> /\ <<l, x>> \notin busy
    BY DEF Init, CQ!Init
  <2>3. heard[l] = <<>> /\ data[l] = NULL
    BY DEF Init
  <2> QED
    BY <2>1, <2>2, <2>3 DEF Exact, Told, Marked, Pending, Ended, Kinds
<1>2. Shown
  BY DEF Init, Shown
<1>3. heard = [l \in Loads |-> heard[l]]
  BY DEF Init
<1> QED
  BY <1>1, <1>2, <1>3 DEF DeliveryInv

-----------------------------------------------------------------------------
(* The theorems. *)

LEMMA Inductive == Spec => [](MemoryInv /\ DeliveryInv)
<1>1. Init => MemoryInv /\ DeliveryInv
  BY MemoryInit, DeliveryInit
<1>2. MemoryInv /\ DeliveryInv /\ [Next]_vars => (MemoryInv /\ DeliveryInv)'
  BY MemoryStep, DeliveryStep
<1> QED
  BY <1>1, <1>2, PTL DEF Spec

(* Every variable keeps its type.                                          *)
THEOREM TypeCorrect == Spec => []TypeOK
<1>1. MemoryInv => TypeOK
  BY DEF MemoryInv
<1> QED
  BY <1>1, Inductive, PTL

(* A load never has two operations outstanding, and none once its FileData *)
(* is freed (filestream.c:134-194).                                        *)
THEOREM OneAtATime == Spec => []OneOperation
BY OneIsOutstanding, Inductive, PTL

(* PageWindowStop frees a FileURIData that is allocated and is the         *)
(* request's own, whatever the stopped loads still do (window.c:899-906).  *)
THEOREM StopFreesOwn == Spec => []UriOwnsData
<1>1. MemoryInv => UriOwnsData
  BY DEF MemoryInv
<1> QED
  BY <1>1, Inductive, PTL

(* Each request gets its response once and in order, whatever loads it     *)
(* stops or is stopped by, until memory of it has served another load      *)
(* (uri/file.c:112-145).                                                   *)
THEOREM DeliveredExactly == Spec => []ExactDelivery
<1>1. DeliveryInv => ExactDelivery
  <2> SUFFICES ASSUME DeliveryInv, NEW l \in Loads \ mixed, heard[l] # NotFound
               PROVE  IsPrefix(heard[l], Response(l))
    BY DEF ExactDelivery
  <2>1. PICK n \in 0 .. Chunks + 3 : heard[l] = Got(l, n)
    BY DEF DeliveryInv, Exact
  <2> QED
    BY <2>1, GotFacts
<1> QED
  BY <1>1, Inductive, PTL

(* The loading flag says that a status was heard and no close, and the     *)
(* page is the whole file when that has closed, unless a stopped load has  *)
(* called the window since the page began (window.c:1332-1402).            *)
THEOREM WindowTracks == Spec => []WindowTracksRequest
<1>1. DeliveryInv => WindowTracksRequest
  <2> SUFFICES ASSUME Shown
               PROVE  /\ win.isLoading <=> /\ win.uri # NULL
                                           /\ heard[win.uri] # <<>>
                                           /\ heard[win.uri] # Response(win.uri)
                      /\ win.uri # NULL /\ heard[win.uri] = Response(win.uri)
                           => win.text = [k \in 1 .. Chunks |-> <<win.uri, k>>]
    BY DEF DeliveryInv, WindowTracksRequest
  <2> QED
    BY DEF Shown, Text
<1> QED
  BY <1>1, Inductive, PTL
=============================================================================
