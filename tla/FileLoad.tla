------------------------------ MODULE FileLoad ------------------------------
(***************************************************************************)
(* The load of a page from a file, from the window's request to the last   *)
(* callback: PageWindowNavigate, PageWindowStop and the URI consumer       *)
(* (window.c), the URI object (uri.c), the file provider (uri/file.c) and  *)
(* the file stream (filestream.c).                                         *)
(*                                                                         *)
(* The queues between the File Manager and the event loop are those of     *)
(* CompletionQueue, which StreamQueue implements: `order[l]' holds the     *)
(* completed operations of load l that the event loop has not handled.     *)
(* A load issues an open, reads and a close; the block of the open is used *)
(* again for the reads, the close has its own.                             *)
(*                                                                         *)
(* URIClose frees the FileURIData of a load and leaves its file stream     *)
(* open, so later completions reach freed memory.  The FileURIData are     *)
(* cells of memory here: a freed cell keeps its contents, or is            *)
(* overwritten by the allocator (Junk), or belongs to a later load.  The   *)
(* name of the file is freed with it.                                      *)
(***************************************************************************)
EXTENDS Naturals, SequencesExt

CONSTANTS
  Loads,        \* the requests the window makes, each for a file of its own
  Chunks,       \* the number of reads a file takes
  Blocks,       \* the memory cells malloc may return for a FileURIData
  Errors,       \* the errors the File Manager may return
  OutOfMemory,  \* whether malloc may fail
  NULL, Junk

ASSUME ChunksAssumption == Chunks \in Nat \ {0}
Failures == {"fnfErr", "ioErr"}

ASSUME ErrorsAssumption == Errors \subseteq Failures
ASSUME NullAssumption == NULL \notin Loads \union Blocks
ASSUME JunkAssumption == Junk \notin [uri : Loads, closed : BOOLEAN]
ASSUME OutOfMemoryAssumption == OutOfMemory \in BOOLEAN

VARIABLES
  busy, order,  \* see CompletionQueue
  ioResult,     \* the result of each operation
  mark,         \* the position in each file, in chunks
  readBuf,      \* the chunk in the read buffer of each FileData
  fileOpen,     \* the files the File Manager holds open
  fileData,     \* per load: has its FileData been allocated, freed?
  data,         \* the FileURIData of each load
  block,        \* what the memory cells contain
  allocated,    \* the cells that are allocated
  win,          \* the page window
  mpc,          \* "event": in the event loop; "poll": in PollStreams; "wild":
                \* lost after a read of overwritten memory
  heard,        \* history: the callbacks the window got from each URI
  mixed,        \* history: the loads whose memory served another load: a callback
                \* of one through the cell of another, or a name overwritten
  disturbed     \* history: a stopped load has called the window since the page
                \* of its request began

Ops == Loads \X {"open", "read", "close"}
Owner == [p \in Ops |-> p[1]]

CQ == INSTANCE CompletionQueue WITH Streams <- Loads, PBs <- Ops

file == <<ioResult, mark, readBuf, fileOpen>>
memory == <<fileData, data, block, allocated>>
history == <<mixed, disturbed>>
vars == <<busy, order, file, memory, win, mpc, heard, history>>

Init ==
  /\ CQ!Init
  /\ ioResult = [p \in Ops |-> "noErr"]
  /\ mark = [l \in Loads |-> 0]
  /\ readBuf = [l \in Loads |-> 0]
  /\ fileOpen = {}
  /\ fileData = [l \in Loads |-> "none"]
  /\ data = [l \in Loads |-> NULL]
  /\ block = [b \in Blocks |-> Junk]
  /\ allocated = {}
  /\ win = [open |-> TRUE, uri |-> NULL, isLoading |-> FALSE, text |-> <<>>]
  /\ mpc = "event"
  /\ heard = [l \in Loads |-> <<>>]
  /\ mixed = {}
  /\ disturbed = FALSE

-----------------------------------------------------------------------------
(* The File Manager. *)

(* It ends operation p.  The read that reaches the end of the file fills   *)
(* the buffer and returns eofErr.                                          *)
Returns(p, r) ==
  /\ CQ!Complete(p)
  /\ ioResult' = [ioResult EXCEPT ![p] = r]
  /\ UNCHANGED <<memory, win, mpc, heard, disturbed>>

Succeeds(l) ==
  /\ \/ /\ Returns(<<l, "open">>, "noErr")
        /\ fileOpen' = fileOpen \union {l}
        /\ UNCHANGED <<mark, readBuf>>
     \/ /\ Returns(<<l, "read">>, IF mark[l] + 1 = Chunks THEN "eofErr" ELSE "noErr")
        /\ mark' = [mark EXCEPT ![l] = @ + 1]
        /\ readBuf' = [readBuf EXCEPT ![l] = mark[l] + 1]
        /\ UNCHANGED fileOpen
     \/ /\ Returns(<<l, "close">>, "noErr")
        /\ fileOpen' = fileOpen \ {l}
        /\ UNCHANGED <<mark, readBuf>>
  /\ UNCHANGED mixed

Fails(l) ==
  /\ \E o \in {"open", "read", "close"}, e \in Errors :
       /\ e = "fnfErr" => o = "open"
       /\ Returns(<<l, o>>, e)
  /\ UNCHANGED <<mark, readBuf, fileOpen, mixed>>

(* A request that was stopped. *)
Cancelled(l) == data[l] # NULL /\ win.uri # l

(* The open of a stopped request reads its name from freed memory: what it *)
(* opens, if anything, is another file, taken to be as long.               *)
Misopens(l) ==
  /\ Cancelled(l)
  /\ \/ /\ Returns(<<l, "open">>, "noErr")
        /\ fileOpen' = fileOpen \union {l}
     \/ /\ \E e \in Failures : Returns(<<l, "open">>, e)
        /\ UNCHANGED fileOpen
  /\ mixed' = mixed \union {l}
  /\ UNCHANGED <<mark, readBuf>>

-----------------------------------------------------------------------------
(* The user: the window's requests, between two calls of PollStreams. *)

(* Faulty: the window keeps the URI it has closed. *)
AfterStopKeepsUri ==
  IF win.uri = NULL
    THEN {[allocated |-> allocated, block |-> block, win |-> win]}
    ELSE {[allocated |-> allocated \ {data[win.uri]},
           block |-> block,
           win |-> [win EXCEPT !.isLoading = FALSE]]}

(* PageWindowStop, with URIClose and FileProviderClose: the FileURIData is *)
(* freed (and the name of the file, see Misopens), the allocator may       *)
(* overwrite it.  Gives the memory and the window *)
(* as they are after it.                                                   *)
AfterStop ==
  IF win.uri = NULL
    THEN {[allocated |-> allocated, block |-> block, win |-> win]}
    ELSE {[allocated |-> allocated \ {data[win.uri]},
           block |-> [block EXCEPT ![data[win.uri]] = c],
           win |-> [win EXCEPT !.uri = NULL, !.isLoading = FALSE]] :
          c \in {block[data[win.uri]], Junk}}

(* Faulty: the stream is freed with the request. *)
StopFreesStream ==
  /\ mpc = "event" /\ win.open /\ win.uri # NULL
  /\ \E s \in AfterStop :
       /\ win' = s.win
       /\ block' = s.block
       /\ allocated' = s.allocated
  /\ fileData' = [fileData EXCEPT ![win.uri] = "freed"]
  /\ UNCHANGED <<busy, order, file, data, mpc, heard, history>>

(* The menu's Stop, or the button's while the page is loading. *)
Stop ==
  /\ mpc = "event" /\ win.open
  /\ \E s \in AfterStop :
       /\ win' = s.win
       /\ block' = s.block
       /\ allocated' = s.allocated
  /\ UNCHANGED <<busy, order, file, fileData, data, mpc, heard, history>>

(* PageWindowNavigate to a file: Stop, then FileProviderInit allocates the *)
(* FileURIData of load l in cell b.                                        *)
NewURI(l, b) ==
  /\ mpc = "event" /\ win.open
  /\ data[l] = NULL
  /\ data' = [data EXCEPT ![l] = b]
  /\ \E s \in AfterStop :
       /\ b \notin s.allocated
       /\ win' = [s.win EXCEPT !.uri = l]
       /\ block' = [s.block EXCEPT ![b] = [uri |-> l, closed |-> FALSE]]
       /\ allocated' = s.allocated \union {b}
  /\ UNCHANGED <<file, heard, history>>

(* URIGet, FileProviderRequest, StreamOpen, FileStreamOpen. *)
Navigate(l) ==
  /\ \E b \in Blocks : NewURI(l, b)
  /\ CQ!Issue(<<l, "open">>)
  /\ fileData' = [fileData EXCEPT ![l] = "live"]
  /\ UNCHANGED mpc

(* Without the memory for the block of the open, FileStreamOpen reports an *)
(* error and nothing else comes.  Without that for the file name or for    *)
(* FileData, NULL is dereferenced (uri/file.c:70, stream.c:57).            *)
NavigateInVain(l) ==
  /\ OutOfMemory
  /\ \E b \in Blocks : NewURI(l, b)
  /\ \/ /\ fileData' = [fileData EXCEPT ![l] = "live"]
        /\ UNCHANGED mpc
     \/ /\ mpc' = "wild"
        /\ UNCHANGED fileData
  /\ UNCHANGED <<busy, order>>

(* Without the memory for the stream, FileURIData or URI there is no       *)
(* request: what is left of PageWindowNavigate is its Stop.                *)

(* ClosePageWindow: no URIClose, the stream goes on. *)
CloseWindow ==
  /\ mpc = "event" /\ win.open
  /\ win' = [win EXCEPT !.open = FALSE]
  /\ UNCHANGED <<busy, order, file, memory, mpc, heard, history>>

-----------------------------------------------------------------------------
(* The event loop: PollStreams, FileStreamPoll and FileStreamCompleted,    *)
(* down to the callbacks of the window.                                    *)

PollBegin ==
  /\ mpc = "event"
  /\ mpc' = "poll"
  /\ UNCHANGED <<busy, order, file, memory, win, heard, history>>

PollEnd ==
  /\ mpc = "poll"
  /\ \A l \in Loads : order[l] = <<>>
  /\ mpc' = "event"
  /\ UNCHANGED <<busy, order, file, memory, win, heard, history>>

Arrives(l, o) ==
  /\ mpc = "poll"
  /\ order[l] # <<>> /\ Head(order[l]) = <<l, o>>

(* The event loop takes a completion of load l, answers it with the        *)
(* operations `new', and calls the consumer of l.                          *)
Handle(l, o, results, new) ==
  /\ Arrives(l, o)
  /\ ioResult[<<l, o>>] \in results
  /\ CQ!Deliver(l, new)
  /\ UNCHANGED <<file, data, allocated>>

(* The consumer of l finds its URI through the FileURIData.  The callbacks *)
(* of a window that was closed are lost.                                   *)
UriOf(l) == block[data[l]].uri

Begins(callbacks) == \E i \in DOMAIN callbacks : callbacks[i] = <<"begin">>

Call(l, callbacks, window) ==
  /\ block[data[l]] # Junk
  /\ IF win.open /\ callbacks # <<>>
       THEN /\ heard' = [heard EXCEPT ![UriOf(l)] = @ \o callbacks]
            /\ win' = window
            /\ mixed' = IF UriOf(l) = l THEN mixed ELSE mixed \union {l, UriOf(l)}
            /\ disturbed' = (win.uri # l \/ (disturbed /\ ~Begins(callbacks)))
       ELSE UNCHANGED <<heard, win, history>>

(* Faulty: without URIMessageBegin's effect on the page. *)
FileConsumeOpenOverPage(l) ==
  Call(l, << <<"status", 200>>, <<"begin">> >>, [win EXCEPT !.isLoading = TRUE])

(* uri/file.c: the consumer of the stream.  FileConsumeError has a status  *)
(* for a missing file only; FileConsumeClose, called at the end of the     *)
(* file and when it is closed, tells the URI the first time.               *)
FileConsumeOpen(l) ==
  Call(l, << <<"status", 200>>, <<"begin">> >>,
       [win EXCEPT !.isLoading = TRUE, !.text = <<>>])

FileConsumeError(l, err) ==
  IF err = "fnfErr"
    THEN Call(l, << <<"status", 404>> >>, [win EXCEPT !.isLoading = TRUE])
    ELSE UNCHANGED <<heard, win, history>>

DataCallback(l) == <<"data", l, readBuf[l]>>
WithData(l) == [win EXCEPT !.text = Append(@, <<l, readBuf[l]>>)]

FileConsumeData(l) == Call(l, <<DataCallback(l)>>, WithData(l))

(* Faulty: it does not look at `closed'. *)
FileConsumeCloseAgain(l, callbacks, window) ==
  /\ Call(l, Append(callbacks, <<"closed">>), [window EXCEPT !.isLoading = FALSE])
  /\ UNCHANGED block

(* It follows the callbacks of the same completion, which leave `window'. *)
FileConsumeClose(l, callbacks, window) ==
  /\ block[data[l]] # Junk
  /\ IF block[data[l]].closed
       THEN Call(l, callbacks, window)
       ELSE Call(l, Append(callbacks, <<"closed">>), [window EXCEPT !.isLoading = FALSE])
  /\ block' = [block EXCEPT ![data[l]].closed = TRUE]

(* FileStreamCompleted, an operation and a result each. *)
Opened(l) ==
  /\ Handle(l, "open", {"noErr"}, {<<l, "read">>})
  /\ FileConsumeOpen(l)
  /\ UNCHANGED <<fileData, block, mpc>>

OpenFailed(l) ==
  /\ Handle(l, "open", Failures, {})
  /\ FileConsumeError(l, ioResult[<<l, "open">>])
  /\ UNCHANGED <<fileData, block, mpc>>

Read(l) ==
  /\ Handle(l, "read", {"noErr"}, {<<l, "read">>})
  /\ FileConsumeData(l)
  /\ UNCHANGED <<fileData, block, mpc>>

ReadFailed(l) ==
  /\ Handle(l, "read", Failures, {})
  /\ FileConsumeError(l, ioResult[<<l, "read">>])
  /\ UNCHANGED <<fileData, block, mpc>>

(* Faulty: the stream ends without StreamClose. *)
ReadEndedFileOpen(l) ==
  /\ Handle(l, "read", {"eofErr"}, {})
  /\ FileConsumeClose(l, <<DataCallback(l)>>, WithData(l))
  /\ UNCHANGED <<fileData, mpc>>

(* The last chunk, the end of the stream, and the close of the file, which *)
(* stays open if there is no memory for the block of the close.            *)
ReadEnded(l) ==
  /\ \E new \in {{<<l, "close">>}} \union {n \in {{}} : OutOfMemory} :
       Handle(l, "read", {"eofErr"}, new)
  /\ FileConsumeClose(l, <<DataCallback(l)>>, WithData(l))
  /\ UNCHANGED <<fileData, mpc>>

(* The file is closed: FileData is freed, and FileStreamPoll reads the     *)
(* head of its queue once more.  An overwritten `closed' may look true.    *)
Closed(l) ==
  /\ Handle(l, "close", {"noErr"} \union Failures, {})
  /\ \/ ioResult[<<l, "close">>] = "noErr" /\ FileConsumeClose(l, <<>>, win)
     \/ /\ ioResult[<<l, "close">>] # "noErr" \/ block[data[l]] = Junk
        /\ UNCHANGED <<heard, win, history, block>>
  /\ fileData' = [fileData EXCEPT ![l] = "freed"]
  /\ mpc' \in {"poll", "wild"}

(* A completion follows a pointer read from overwritten memory, or reaches *)
(* a window that was freed, or a new document there is no memory for       *)
(* (window.c:1352).                                                        *)
Derail(l) ==
  /\ \E o \in {"open", "read", "close"} :
       /\ Arrives(l, o)
       /\ \/ block[data[l]] = Junk
          \/ ~win.open /\ o # "close" /\ ioResult[<<l, o>>] # "ioErr"
          \/ OutOfMemory /\ o = "open" /\ ioResult[<<l, o>>] # "ioErr"
  /\ mpc' = "wild"
  /\ UNCHANGED <<busy, order, file, memory, win, heard, history>>

Completed(l) ==
  \/ Opened(l) \/ OpenFailed(l)
  \/ Read(l) \/ ReadEnded(l) \/ ReadFailed(l)
  \/ Closed(l) \/ Derail(l)

Poll == PollBegin \/ PollEnd \/ \E l \in Loads : Completed(l)

-----------------------------------------------------------------------------
Next ==
  \/ Stop \/ CloseWindow
  \/ \E l \in Loads : Navigate(l) \/ NavigateInVain(l)
  \/ \E l \in Loads : Succeeds(l) \/ Fails(l) \/ Misopens(l)
  \/ Poll

Spec == Init /\ [][Next]_vars

(* The event loop keeps polling, the File Manager answers. *)
FairSpec ==
  /\ Spec
  /\ WF_vars(Poll)
  /\ \A l \in Loads : WF_vars(Succeeds(l))

-----------------------------------------------------------------------------
(* Properties. *)

(* Every variable has its type; a FileURIData has its URI. *)
Cells == {Junk} \union [uri : Loads, closed : BOOLEAN]

TypeOK ==
  /\ busy \in SUBSET Ops
  /\ order \in [Loads -> Seq(Ops)]
  /\ ioResult \in [Ops -> {"noErr", "eofErr"} \union Failures]
  /\ mark \in [Loads -> 0 .. Chunks]
  /\ readBuf \in [Loads -> 0 .. Chunks]
  /\ fileOpen \in SUBSET Loads
  /\ fileData \in [Loads -> {"none", "live", "freed"}]
  /\ data \in [Loads -> Blocks \union {NULL}]
  /\ block \in [Blocks -> Cells]
  /\ allocated \in SUBSET Blocks
  /\ win \in [open : BOOLEAN, uri : Loads \union {NULL}, isLoading : BOOLEAN,
              text : Seq(Loads \X (0 .. Chunks))]
  /\ mpc \in {"event", "poll", "wild"}
  /\ mixed \in SUBSET Loads
  /\ disturbed \in BOOLEAN

(* A load has one operation outstanding at most, so that its two blocks    *)
(* and its read buffer are never used twice, and none once FileData is     *)
(* freed: no completion routine touches freed memory (filestream.c:148,    *)
(* 161-162, 172, 179-180).                                                 *)
Outstanding(l) ==
  {p \in Ops : p[1] = l /\ (p \in busy \/ CQ!Undelivered(p))}

OneOperation ==
  \A l \in Loads :
    /\ \A p, q \in Outstanding(l) : p = q
    /\ Len(order[l]) <= 1
    /\ fileData[l] # "live" => Outstanding(l) = {}

(* What the window can stop is there to be freed: the request it holds has *)
(* its own FileURIData, so PageWindowStop frees each one once              *)
(* (window.c:899-906, uri/file.c:88-93), whatever late completions wrote.  *)
UriOwnsData ==
  win.uri # NULL =>
    /\ data[win.uri] \in allocated
    /\ block[data[win.uri]] # Junk
    /\ UriOf(win.uri) = win.uri

(* The window gets the response of each request once and in order: status, *)
(* begin, the chunks of the file from the first, none left out or          *)
(* repeated, and one close after the last (filestream.c:134-194,           *)
(* uri/file.c:112-145).  It gets a prefix of this if the load fails or the *)
(* window closes, and a missing file is a 404.  This holds for stopped     *)
(* loads too, whose completions come through freed memory, and for loads   *)
(* they run into, until memory of a load is used by another.               *)
Content(l) == [k \in 1 .. Chunks |-> <<"data", l, k>>]

Response(l) ==
  << <<"status", 200>>, <<"begin">> >> \o Content(l) \o << <<"closed">> >>

NotFound == << <<"status", 404>> >>

ExactDelivery ==
  \A l \in Loads \ mixed :
    heard[l] = NotFound \/ IsPrefix(heard[l], Response(l))

(* The loading flag says that the window's request had a status and no     *)
(* close yet (window.c:766, 810, 1332-1340); after a 404 or a read error   *)
(* it stays up, no close being called.  When the request has closed, the   *)
(* page is the whole file and nothing else (window.c:1344-1402), whatever  *)
(* stopped loads did to window and page before it began.                   *)
WindowTracksRequest ==
  ~disturbed /\ win.uri \notin mixed =>
    /\ win.isLoading <=> /\ win.uri # NULL
                         /\ heard[win.uri] # <<>>
                         /\ heard[win.uri] # Response(win.uri)
    /\ win.uri # NULL /\ heard[win.uri] = Response(win.uri)
         => win.text = [k \in 1 .. Chunks |-> <<win.uri, k>>]

(* A request that is not stopped ends, when the files can be read: its     *)
(* close is called, or FileStreamPoll got lost on the way.  Every file     *)
(* that was opened is closed in the end, also when the request was         *)
(* stopped: the stream reads on to the end of the file.                    *)
LoadEnds ==
  \A l \in Loads :
    /\ win.uri = l ~> \/ heard[l] = Response(l)
                      \/ win.uri # l \/ ~win.open
                      \/ l \in mixed \/ mpc = "wild"
    /\ l \in fileOpen ~> l \notin fileOpen \/ mpc = "wild"

(* What the source says and the program does not do. *)

(* "cancel previous request" (window.c:937), "forcibly close the uri       *)
(* request and response" (uri.c:244): after URIClose the URI is silent.    *)
CancelledRequestIsSilent ==
  [][\A l \in Loads : Cancelled(l) => heard'[l] = heard[l]]_vars
=============================================================================
