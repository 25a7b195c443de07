# Browsy in TLA+

Browsy is a web browser for 68k Macs. It is one program with one thread of
control, the event loop, plus what the system runs behind its back: completion
routines of asynchronous I/O, called at interrupt level. This directory holds
TLA+ modules of the parts that were written for it, TLC configurations that
check them on small instances, and TLAPS proofs of theorems about them.

## The system

| component | source | state it keeps | operations |
|---|---|---|---|
| event loop, menus | `src/main.c`, `src/menus.c` | none of its own | `MainLoop`: an event, `PollStreams`, idle; menu items |
| page window: requests | `src/window.c` | `uri`, `isLoading`, the document, the text, the address bar, the toolbar | `PageWindowNavigate`, `PageWindowStop`, `ClosePageWindow`, clicks and keys, the callbacks `PageURIOn*` |
| page window: history | `src/window.c`, `src/Browsy.h` | a doubly linked list of items, `history`, `location` | `HistoryItemNewNext`, `PageWindowNavigateHistory`, disposal |
| URI object | `src/uri.c` | consumer and provider | `NewURI`, `URIGet`, `URIClose`, forwarding of callbacks |
| file provider | `src/uri/file.c` | `FileURIData`: URI, stream, `closed` | `Init`, `Request`, `Close`, four consumer callbacks |
| about provider | `src/uri/about.c` | the data of its request | a page produced on the spot, within `URIGet` |
| HTTP provider | `src/uri/http.c` | the URL; the resolver and driver it opened | a blocking fetch: resolve, open, send, receive loop |
| response scanner | `src/http_response.c` | none | end of header, status, length, clipping |
| stream queue | `dep/c-streams/src/stream.c` | `readyStreams`, one flag per stream | `StreamWait` (interrupt level), `PollStreams` |
| file stream | `dep/c-streams/src/filestream.c` | `FileData`: queue of completed blocks, read buffer; a flag per block | open, read, close, completion, poll |
| TCP stream | `dep/c-streams/src/tcpstream.c` | `TCPData`: queue, resolver state, buffer | resolve, open, receive, write, close; not used by `http.c` |
| name resolver | `dep/c-streams/src/dnr.c`, `src/mactcp_stubs.c` | a loaded code resource | `OpenResolver`, `StrToAddr`, `CloseResolver` |
| HTML parser, document | `src/parser.c`, `src/document.c` | parser state, buffers, heading stack, links | `HtmlParserFeed`, `End`, `Dispose` |
| URL functions | `src/utils.c`, `src/window.c` | none | sanitize, encode, decode, normalise, resolve a link |
| tokenizer | `src/tokenizer.c` | - | dead code, nothing feeds it |
| http-parser | `dep/http-parser` | - | third-party; only its URL splitter is used |

How they interact. An event makes the window navigate: it stops the request it
has, makes a URI, and the URI's provider starts. The file provider opens a file
stream, which hands a parameter block to the File Manager and returns. When the
operation ends, `FileStreamComplete` runs as an interrupt, at any point of the
event loop; it puts the block in the queue of its stream and the stream in the
ready queue. `PollStreams`, called once per turn of the event loop, empties
both queues, and the callbacks go up: stream, provider, URI, window. The HTTP
provider instead does everything within `URIGet`, blocking the loop.

What is hard. Interrupts between any two statements of the polling loops;
queues that are linked through their elements, so that an element queued twice
corrupts them; flags shared between the two levels; loads that are stopped or
replaced while an operation is in flight, and whose memory is freed under it;
windows that are closed; errors in the middle of a sequence of callbacks;
allocation failures at every step; a list of history items that is cut and
disposed of in loops while pointers into it are kept; a chunked input for the
scanner and the parser; a resolver that answers after its time limit.
`PROJECT.json` lists these hazards at their lines.

What makes each component correct:

- stream queue, file stream: no completion forgotten, none handled twice or out
  of order, no queue corrupted, the event loop gets control back;
- file provider, URI, window: each request's response reaches the window whole
  and in order, once; a stopped request is silent; what is shown is one page;
- history: the list is a sequence with a cursor; no link dangles, no item leaks;
- HTTP, scanner: the body that is shown is the body that was sent, however it
  is cut into chunks, and all that is acquired is released;
- parser: the result does not depend on how the input is cut, and limits hold;
- URL functions: normal forms are stable, no byte outside the string is read.

## Modules

### CompletionQueue

What the stream library promises: an issued operation completes; completions
of one stream are delivered once each, in the order in which they happened.
Two variables, `busy` and `order`. It is the abstract specification that
StreamQueue implements and the interface on which FileLoad is built.

### StreamQueue

`stream.c:118-150` and `filestream.c:199-232` statement by statement.
`mpc` is where the event loop is, `ipc[p]` where the completion routine of
block `p` is. A routine runs to its end unless a driver of a higher interrupt
level interrupts it; the event loop runs when no routine is in progress.
`Enqueue` and `Dequeue` of the system mask interrupts and are atomic.

| variable | code |
|---|---|
| `readyStreams`, `qType` | `readyStreams`, `stream->qType` |
| `completedPBs`, `inQueue` | `fileData->completedPBs`, `pb->inQueue` |
| `stream`, `pb` | the locals of `PollStreams` and `FileStreamPoll` |
| `device` | the blocks the drivers are working on |

| action | code |
|---|---|
| `Complete`, `MarkPB`, `EnqueuePB` | the driver's call; `FileStreamComplete` |
| `WaitTest`, `WaitFlag`, `WaitEnqueue` | `StreamWait` |
| `PollStreams`, `PollHead`, `PollDequeue`, `PollClear` | `PollStreams` |
| `FilePollHead`, `FilePollDequeue`, `FilePollClear`, `FileHandle` | `FileStreamPoll`, `FileStreamCompleted` |
| `Issue` | a consumer that opens, writes or closes during an event |

### FileLoad

A page load from a file, from `PageWindowNavigate` to the last callback, for
any number of loads in one window. The queues are CompletionQueue's; what an
operation means is added: `FileStreamCompleted`, the consumer callbacks of
`uri/file.c`, `uri.c`, and the window's. Which stream is polled first is left
open: a load has one operation in flight (`OneOperation`), so the order among
streams is the order in which they happen to complete.

Memory is modelled where it matters. A `FileURIData` is a cell of `Blocks`;
when `URIClose` frees it, its contents stay or become `Junk`, and a later load
may get the cell. Completions of a stopped load go through the freed cell: they
reach the window as the old load, or as the new one, or the program is lost
(`mpc = "wild"`). A window that was closed is treated in the same way. `FileData`
is freed by the completion of the close and read once more by the loop of
`FileStreamPoll`: the program goes on or is lost. The name of the file is freed with
the cell, while an open that was just issued may still read it: `Misopens` lets that
open fail or open another file (taken to be as long).

So completions of stopped loads do reach the window in the model, in any
interleaving. Two history variables say where this spoils what the window sees.
`mixed` has the loads whose memory served another load: a callback of one went
through the cell of another, or its name was read after it was freed.
`ExactDelivery` is about the other loads, stopped or not. `disturbed` says that a
stopped load has called the window since the page of its request began, so that
text and flag are of two loads; `WindowTracksRequest` is about the times when it is
down. The properties about operations, blocks and ownership have no such
condition. The flag `isLoading` stays up after a 404 or a read error, for
then the code calls no close (`uri/file.c:127`, `filestream.c:183`);
`WindowTracksRequest` says when it is up, and does not call this an error.

Left out: the contents of files but for the order of their chunks, the
conversion of paths (in Url), error numbers except the missing file's, drawing.

### BrowserHistory, PageHistory

`BrowserHistory` is what Back and Forward promise: a sequence of addresses and
a cursor. `PageHistory` is the linked list of `window.c`: `item[i]` has the
address and the two links of an item, `live` says which are allocated. The
loops that dispose of items are modelled turn by turn, with their local `curr`,
because what can go wrong in them is to read a link of a disposed item or to
dispose of one twice. `OnStatus` sets `location`; a response may begin late, or
for a request that was stopped (FileLoad shows both), so it is enabled while
any request is unanswered. `Move`, `Walk` and `Arrive` are
`PageWindowNavigateHistory`, whose loop steps over items one at a time and stops
at an end of the list. Addresses are values that `url_sanitize` returns; it
leaves those unchanged, so that Back, Forward and Refresh navigate to the
address of the current item. `UpTo` and `From` follow the links from an item
to an end of the list; what they read is what BrowserHistory calls the visited
addresses, and what the popup menus list.

### PageWindow

The window as its user has it, over PageHistory: it EXTENDS that module and adds
what surrounds each of its actions. `data` is the block of the current URI's
provider, and says whether it was freed: each provider does that in another
place. `calling` is a provider that answers before `URIGet` returns, `about:`
and `http:`; `file:` answers later. `bar` is the address bar, `buttons` the
toolbar as it was drawn, `lacking` that the last allocation failed in the middle.

| action | code |
|---|---|
| `PageWindowNavigate`, `TruncateHistory`, `EnterHistory` | `PageWindowNavigate` with `HistoryItemNewNext` |
| `PageWindowNavigateHistory`, `WalkHistory`, `ArriveInHistory` | `PageWindowNavigateHistory` |
| `PageWindowStop`, `URIClose`, `ProviderClose` | `PageWindowStop` and the close of the provider |
| `PageURIOnStatus`, `PageURIOnClose`, `RequestFails`, `FileIsSilent` | the callbacks, or their absence |
| `HandleNavButtonClick`, `PopupNavMenu`, `HandleContentClick` | `PageWindowMouseDown` |
| `PageWindowKeyDown`, `HandleMenu`, `HandleUpdateEvt` | keys, menu items and redrawing |
| `CloseWindow`, `DisposeHistory` | `ClosePageWindow` |

An event happens only when none of the loops above is under way and no provider
is calling. In a click between two buttons the code reads a local that has no
value: the model lets the click be any of the buttons.

### HtmlParser

`parser.c` and `document.c`. A page is a sequence of chunks, and `HtmlParserFeed`
takes one of them byte by byte through the states of the scanner. Every static
function is an operator from a page to a page; `scan` has the fields that find
tags, comments and entities, `page` those that render. A symbol is a byte or a
run of letters that the code compares only as a whole, like the name of a tag.
`te` is the text of the window, with the style of each character; `links` are
the ranges; `live` are the strings that are allocated for hrefs. `seen`, `open`
and `made` are not in the code: what was put into the text and under which style
and link, how many headings are open in the page, and a count that tells
strings apart. Each chunk is fed with a set of allocations that fail. A document
that cannot be allocated is not tested for (`window.c:1352`): `NoDocument` is the end
of what the module says.

### TcpStream

`tcpstream.c`. The functions of the provider are operators from a state to the
next; the program calls them between two polls, in any order. MacTCP and the
resolver answer at interrupt level, at any time, and their completion routines
only queue what happened (`TCPIOComplete`, `StrToAddrProc`). What MacTCP can answer
to a command depends on the connection, `conn`, whose states are those the code
can tell apart. One buffer, `recvBuf`, is given to MacTCP as the memory for what
arrives (`tcpstream.c:294`) and to each receive as its target (`:473`). Where in
that memory MacTCP keeps a piece is not known to the code. `conn.front` is the
piece whose bytes are at the start of the buffer now, where receives copy to and the
consumer reads; `conn.low` are the pieces that MacTCP put there when they arrived.
So a piece that arrives between the end of a receive and the poll can overwrite
what that receive brought, and a receive can overwrite a piece that waits. MacTCP does
not put a piece over another that is unread. A receive that fails leaves
`rcvBuffLen` as it was set, or clears it; in the first case the buffer is delivered
once more ("residue"). `TCPRelease` may say that it does not know the stream, which
is one more error for the consumer. Browsy links this provider and loads pages with the blocking code
of `http.c`; the test program of the library uses it.

### CTypes, HttpResponse, Url, HttpUrl, TextScan

Pure functions. `HttpResponse` has those of `http_response.c` as operators on
sequences of bytes, of which only the classes that the scanner tells apart are
kept: CR, LF, space, tab, colon, digits, letters of the field's name, `HTTP/` and the
rest. `Url` has those of `utils.c`, the resolution of links in `window.c`,
`URIGetProvider`, and the ways between an address and the name of a file, with a
base of four in the place of sixteen. `HttpUrl` has `HTTPProviderInit` and the two
automata of `http_parser_parse_url`. The limits of the code are constants with
assumptions: `CTypes` has the short, in which the status and the size that
`url_sanitize` allocates wrap (`utils.c:292`), and the byte that holds the length of a
file's name (`uri/file.c:80`); `UriSize` is the buffer for the address of a picked
file, into which `strncat` appends with a bound that is wrong
(`window.c:1125`, `1156`): `PageWindowOpenFile` says whether it was overrun. In `TextScan` a text grows byte by byte; at each
length the functions are compared with definitions that do not scan.

### LinkClick

A click on a link. The loop of `NormalizeUrlPath` is modelled turn by turn,
because it does not end.

### HttpFetch

`HTTPProviderRequest`: the steps of the blocking fetch (`pc`), what it has
acquired (`gTCPRefNum`, `headerBuf`, `tcpStream`), what was received (`response`,
`at`, `headerEnd`, `contentLength`) and what the window was told (`heard`,
`shown`). The system is what may happen at each call: every error, and every
number of bytes that `TCPRcv` may return. The receive loop's body is one action,
`Receive`, with a disjunct per path: nothing came, header too long, more of the
header, its end, body. Where the code knows that a header has ended it uses
`HTTPFindHeaderEnd`; the module uses `HeaderEnd`, which does not scan and which
`HeaderEndIsFound` proves to be the same (`text_scan` checks it).

The resolver is asked with the address of two locals of `ResolveHost`, `hostInfo`
and `done`. `Answer` may come after `ResolveHost` has returned; it then does no
harm, or writes the locals of a later call at the same place of the stack, or the
program is lost. An address has the name of its host.

Left out: `connectionTerminated` is treated like `connectionClosing` by the code
and by the module; other errors of `TCPRcv` are `commandTimeout`; ports, the text
of the request, and methods other than GET, which no caller uses.

## Runs

| run | instance | shows |
|---|---|---|
| `stream_queue` | 2 streams, 3 blocks, 2 interrupt levels, 3 operations per stream | the safety and liveness of the queues, and that they implement CompletionQueue |
| `file_load` | 2 loads, 2 cells, 2 chunks, all errors, allocation failures | what the window is told, and what it knows of its request |
| `file_load_ends` | 2 loads, 2 cells, 2 chunks, no errors | loads end, files are closed |
| `page_window` | an address of each provider, 3 items, 2 unanswered requests, choices of up to 2 steps | the list, its disposal, toolbar, address bar, popup menus, the data of providers, and that the history implements BrowserHistory |
| `http_fetch` | 3 hosts, one of them an address, 2 requests, 8 responses, buffers of 4 and 8 bytes | what the window is told, what is released, that requests end |
| `html_parser` | 5 themes of 6 to 13 chunks, up to 4 chunks in 2 pages, buffers of 3 to 12 symbols, 3 kinds of failing allocation | text, styles, links, headings, white space, limits and ownership |
| `tcp_stream` | 3 parameter blocks, 2 pieces of data, 2 calls of the consumer | data in order, whose bytes are read, blocks owned, whoever waits is called |
| `text_scan` | responses of up to 6 bytes of 9 classes, addresses of up to 5 bytes of 12 | the scanners and the URL functions |
| `stop_is_silent` | 1 load | a stopped request calls the window (violation) |
| `header_split` | as `http_fetch` | the page begins with a byte of the header (violation) |
| `late_answer` | as `http_fetch` | a connection to the host of an earlier request (violation) |
| `link_hangs` | 2 pages, 5 kinds of link | the loop at a link's path does not end (violation) |

Why these bounds are enough to see the interesting cases.

*Queues.* Two blocks of one stream complete while it is being polled, and a third,
of another stream at a higher level, interrupts the completion routine of the
first: every shape of nesting of two levels occurs. `MaxOps = 3` lets a block be
used again after it was handled.

*Loads.* Two loads and two cells give a load that is stopped while in flight, a new
one in the same cell or in another, and the completions of both interleaved; two
chunks distinguish the first read, which is not the last, from the last.

*History.* Three items give a current item with items on both sides, two to cut
off, and a reuse of the memory of a disposed item; three addresses, one of each
provider, give each order of two providers, and a jump of two steps (`MaxAmount`)
goes past the neighbour and past the end. Two unanswered requests are one that was
stopped and its successor. Items are interchangeable, so `page_window` uses
symmetry over them; addresses are not. It checks no liveness.

*Fetch.* The responses have lines broken in each way, no length, one that is less
than the body, more, or zero, an empty line or `HTTP/` in the body, and no header
at all. A receive buffer of 4 bytes and one of 8 for the header let each of them be
cut at every point and let headers be too long. Two requests are what a late
answer needs.

*Parser.* A page is made of the chunks of one theme: white space, links, styles,
titles with white space and a `<pre>` in them, or the pieces of tags, comments and
entities. A chunk is a symbol, a tag or half of
one. Four chunks are an opening tag, a text, a closing tag and one more; the buffers
are so small that a word, a rule or a nesting of two overflows them. Two pages let
one be begun over another that was stopped or has ended.

*TCP.* Three blocks are an open, a close and a second close, or two opens; two
pieces can be out of order. After `MaxCalls` calls of the consumer the program
makes none, but is called for what it waits for; two calls are an open or an error
and the first piece, and the second piece arrives around them, before or after
the first is polled. Whether the resolver is open already matters only for names, so
that the initial states with a numeric address have it closed.

*Texts.* Six bytes hold a field with a value or an empty line between others; five
behind `http://` hold a user, a host, a port and a path, or an address in
brackets. A short has forty values, so that a status overflows at two digits, and so
does the size of an address of five escaped bytes; the buffer for the address of a
file holds 18 bytes, more than some names need and fewer than others.

Deadlock is checked in `stream_queue` and `link_hangs`. The other systems really stop:
`file_load` when every load has been made and has ended or the program is lost,
`page_window` when the window is closed, `html_parser` and `text_scan` at the end of
their input, `tcp_stream` when the stream is released and the program calls no
more, `http_fetch` after its last request or when the program is lost.

### Fairness

`StreamQueue!FairSpec`: weak fairness of the event loop as a whole, of each
completion routine, and of each driver. `MainLoop` waits at most ten ticks for
an event (`main.c:69`), so it always comes to `PollStreams`; a routine that was
entered returns; a driver completes what it was given. `FileLoad!FairSpec` is
the same at its grain: weak fairness of polling and of the File Manager's
success. The user is never forced to do anything. `LoadEnds` says that loads end
and files are closed, and is checked where files can be read: after an error the
code calls nothing and closes nothing (`filestream.c:181-185`).
`HttpFetch!FairSpec` is weak fairness of the fetch: each call of the driver
returns, those that wait after a time limit (`http.c:213`, `249`), and so does the
wait for the resolver (`http.c:117`). The resolver is never forced to answer.
`TcpStream!Spec`: the event loop polls; MacTCP ends an open or a close, if need be
by its own time limit; a resolver that was asked calls back. A receive is not
forced to end, for the peer may be silent for ever; no call of the program is
forced. `EveryWaitIsAnswered` needs it for the end of the waits; that none ends without
a call is a property of the steps. `LinkClick!Spec`: weak fairness of the program, which goes on by itself
after a click.

## Proofs

`StreamQueueProofs` proves, for any streams, blocks, owners, interrupt levels and
bound, that TypeOK, NoLostWakeup, LinkedOnce and HeadStable hold of `Spec`.
The inductive invariant `IInv` adds to them: how nested routines are ordered
by level (`Nested`), what the flag of a stream says about where it is
(`StreamFlags`: it is up exactly when the stream is in the ready queue, or is
about to be put there, or was just taken out), and the same for a block's
(`BlockFlags`). Without the flags nothing prevents a second Enqueue; without
the nesting nothing prevents two routines of one stream between test and set.
`Invariance` is proved with one step per action.

The same module proves that `Spec` implements CompletionQueue under the
mapping of `DeliversInOrder`, from that invariant: `EnqueuePB` is the abstract
`Complete`, `FileHandle` the abstract `Deliver`, `Issue` is `Issue`, and every
other action stutters.

`PageHistoryProofs` proves the safety of the list for any addresses, memory and
bounds, whatever its length, and that it implements BrowserHistory. Nothing in the
code orders the items, so the invariant gives them an order: there is a sequence
`s` of items, linked in this order with different addresses at neighbours
(`IsList`), and a place `p` in it which is the current one. An item that was
disposed of keeps its contents until its memory is used again, so that `s` stays as
it is while a loop goes through it, and `Position` says for each point of the code
which of its items are still allocated: all of them, all but those between `p` and
the place of `curr`, or those before it. With that, an item disposed of is linked
to from nowhere that will be read, and when the loops end nothing is left.
For the refinement (`HistoryInOrder`) the abstract sequence is the addresses
of `s` and the abstract cursor is `p` (`Mapped`); `LinkNewItem` is the abstract
visit, `Arrive` is Back, Forward or a stutter, the end of the disposal forgets
the history, and every other action stutters. What is read along the links is
a recursive function of their number. `Recursion` shows that such a function
exists, and `UpToList` and `FromList` that it gives the addresses of `s`, by the
least number for which it would not (`Least`, from the well-foundedness of
the naturals).

`HttpFetchProofs` proves the safety of the fetch for any responses, sizes of the
buffers and ways to cut. `IInv` adds what is known of the response at each step
(`Unread`): before the connection nothing, without its header nothing that was
shown, and in the loop all of the body that has come was shown and is less than
the declared length. With that, clipping the next bytes by themselves is the
same as clipping the body as a whole, and positions appended are positions.

`FileLoadProofs` proves the four invariants of FileLoad for any loads, any cells
and files of any length. Its invariant has two parts. `MemoryInv` is about who has
what: each load has one place (an operation with the File Manager or in its
queue, or none), from which follows what its `FileData` and its read buffer are,
and the request the window holds has a cell of its own. `DeliveryInv` relates what
the window was told to that place: as long as nothing was lost, a load whose read
is in flight has told exactly the chunks before the mark of its file (`Told`), and
the text of the window is what its request told since it began (`Shown`). A
load that was stopped goes on telling, so `Told` speaks of every load and not of
the current one, and `Marked` of the flag in its cell as long as the cell is its own.
Both are kept for each load that is not in `mixed`, whatever the others do, and
`Shown` as long as `disturbed` is down: a page that begins takes it down, as it
empties the text.

`PageWindowProofs` proves that every step of the window is one of PageHistory or
leaves the history alone (`WindowImplementsHistory`), so that its theorems hold of the
window with all its controls. With them it proves that toolbar and address bar
show the history, and that data of providers is freed once; for this `DataInv`
adds what a provider that is in the middle of its request has freed so far. A
choice in a popup menu is reached (`ChoicesReached`) because the menu has as
many items as the sequence `s` has in its direction (`MenuFits`), and because each
step of the walk has one step less to go and one item less before it
(`ChoiceInv`).

`HtmlParserProofs` proves the eight properties of the parser for pages of any text, in
any chunks, with buffers of any sizes and any allocations failing. A page is
`Bounded` (the buffers and counters), `Rendered` (what the window shows is what was
emitted, and what waits in the buffer was all emitted in the style now in force),
`Owned` (the allocated addresses are those of the ranges and of the active
link, each once) and `Placed`. The last has three parts. `Anchored`: ranges hold
text, follow on each other and end where text was flushed; the active link
starts behind them; and a character that is or will be shown lies in the range of
its anchor or behind the start of the active link. A line break that was due
before an anchor is emitted in it, but before its start; this exception is in
the property too. `Spaced`: `lastWasSpace` is set, or the last character was no
space. `Nested`: a level has no more places on the stack of headings than
headings of it are open in the page. Each operator of the parser keeps the four; that
a change of style comes only after a flush is where `Rendered` needs every branch
of the tags. A chunk and an emitted string are read by recursive functions of
the length: `EmitStringUnfolds` and `FeedUnfolds` show that these functions exist,
and that each step holds by the least index at which it would not.

`TcpStreamProofs` proves that the parameter blocks of the TCP provider are owned,
and that its consumer reads what was sent, for any number of calls, blocks and
pieces. The invariant says of each block that
its id is unique and smaller than the next one, and that it is with MacTCP or in
the queue, once. What bounds the receives is that they replace each other: the
connection has one slot, had by the open that may still succeed and then by one
receive after the other, and `conn.state` says which kind has it (`OneSlot`). A
receive that ends with a termination is lost and takes the slot with it
(`OneLost`), so that no second block is lost. `Answered` is about the resolver: an
address of zero is used only after the consumer was told of an error.
`DataIsInOrder` needs the slot as well. It says that pieces are delivered in order and
once each, and of their bytes only what the shared buffer allows: they are those of
the piece unless it, or a piece that arrived since, was put at the start of the
buffer. `Script` says in which order the
consumer was called. `Flow` says that the pieces it was given, the one that the
receive in the queue brings and those that are unread are together what
the peer sent. As one receive is out at most, no piece can overtake another, and
a close without an error comes when the peer has finished and nothing is unread.
`Handed` and `Brings` say of the pieces delivered, and of that in the queue, whose bytes
there can be at the start of the buffer.

`TextScanProofs` proves the seven properties of TextScan for texts of any length.
The loops of the code are recursive functions of the position there, as everywhere in
the modules, and the proofs have the form of those about the links of the history: a
lemma that the function exists, one that says what it gives at a position, and
`Least` for the least position, or distance from the end, for which it would
not. `HTTPFindHeaderEnd` at a position, with a line break before it or
not, finds what is found when the text begins there (`Found`, `FoundSteps`), and
so the first empty line (`HeaderEndIsFound`). An empty line that ends before the
last byte is not changed by a byte more (`EmptyLinesStay`), and one that ends there
only by an LF behind a CR (`HeaderEndIsStable`). For the addresses, `FlattenJoins`
and `JoinedPiece` say where in a text that is put together each piece is;
`EscapeDecodes`, that the digits of an escaped byte give the byte back, through the
`or` of the code; and `CodeIsRead`, that `url_decode` reads a text of which each
byte was left or escaped as what it was. `SanitizedIsStable` and `PickedFileIsOpened`
follow. The first says that the size that is allocated is right exactly when it is a
short; the second, that the buffer of the address is overrun exactly when the
path, with three bytes for each that is escaped, is longer than what is left of the
buffer (247 of 256 bytes), and that otherwise the name comes back and its length fits
in a byte. It needs that the path has no NUL (`AlphabetsAssumption`; the texts
are C strings), and that it does not begin with a slash, for the slashes of the URL
are dropped up to the first other byte.

For the fields of a response (`FieldsAreFound`), each loop of the scanner is run
from any position: what it finds there is the first line that begins with the
name, or the digits behind the first spaces, and the sums of the definition, which
the library folds over sets of positions, are what the loops add up digit by
digit. For the URLs (`UrlsAreSplit`), a text is a `Piece` of another that holds it at an
offset, so that a field noted by the automata and a cut of the definition are the same
piece. The automaton of the whole URL is followed from one delimiter to the next
(`UrlRunEnds`: the state and the fields at the end, or that it is dead), and that of
the authority from userinfo to host, address in brackets, zone and port
(`AuthorityFound`), each with what makes it die.

For the links (`LinksAreKept`), the loop of `NormalizeUrlPath` and the definition
`Resolved`, which has no buffer, take the same turns (`PathIsNormal`). What holds
between them after each turn is `Holds`: the buffer has the segments that are kept,
none of them empty or with a slash inside, joined by slashes, and perhaps one slash
behind them. It is needed for the turn of a `..`, which looks back in the buffer for a
slash and must find the one before the last segment (`DroppedSegment`). A link
that needs no path is the address of its page up to some position, with a byte of
the reference behind it that may be escaped (`LinkOf`), so that its provider is read
from the same bytes and its authority is cut at the same place
(`SameServer`) or has an escape in it, which no host has (`NoEscapedHost`).

The assumptions are those the modules state about their constants, which the
runs evaluate. `NameAssumption` says that the name of a field is a text,
`ShortAssumption` that a short has some width, `UriAssumption` that the buffer for the
address of a file is no larger than what a byte can count and than a short; `BasesAssumption`, that the pages with links have sanitized
addresses and a provider, as `PageWindowNavigate` sees to. `ItemsAssumption` says that the memory for history items is finite.
Two are about data: `VocabularyAssumption`, that the chunks of a
page are sequences, and `NumbersAssumption`, that what is parsed out of a response
are numbers. The second would follow from the scanner's recursion over the
response; it is not proved, but TLC evaluates it for the instance.

Only model-checked: the liveness properties (EventLoopReturns,
EveryOperationHandled, LoadEnds, FetchEnds, EveryWaitIsAnswered), which are out of
the prover's reach.

## Findings

1. `URIClose` frees the `FileURIData` under its open file stream: a request
   that was stopped still calls the window (`stop_is_silent`).
2. A chunk that ends between CR and LF of the empty line makes the LF the first
   byte of the page, and the last byte of the page is cut off (`header_split`).
3. A late answer of the resolver is written into the frame of another call; a
   page of the wrong host is loaded (`late_answer`).
4. `NormalizeUrlPath` does not advance at the end of the path: a click on a link
   that is a relative path hangs the program (`link_hangs`). Links that begin with
   a slash do not take that loop.

Met while modelling, in the models as the code has them, without a run:

- `FileStreamPoll` evaluates its loop condition in the `FileData` that the
  completion of a close has just freed (`filestream.c:223`).
- A chunk that comes with the end of the connection and has an empty line or
  `HTTP/` in it is dropped (`http.c:257`).
- A name that the resolver knows at once times out, unless the resolver calls the
  result routine all the same (`http.c:115`, `122`).
- `AboutProviderClose` frees nothing (`about.c:55`), its request frees instead
  (`:91`); `DataFreedOnce` shows that the two together free once.
- Allocations: a URI object is never freed; the block of a TCP receive that ends
  with a termination is not.
- The receive buffer of a TCP stream is also the target of each receive
  (`tcpstream.c:294`, `473`): a piece can be overwritten before it is read.
  `DataInOrder` allows that and no more.
- A receive that fails is delivered as if it had filled the buffer, when MacTCP leaves
  `rcvBuffLen` as it was (`tcpstream.c:474`, `627`).
- The encoded path of a picked file, when it is longer than 247 bytes, overruns
  `uri[256]` (`window.c:1156`); the size of an address with many escapes wraps
  in a short (`utils.c:292`). `OpensPickedFile` and `SanitizeStable` say exactly when.
- After a 404 or a read error of a file the window goes on showing that it loads
  (`uri/file.c:127`, `filestream.c:183`).
- A new document that cannot be allocated is used (`window.c:1352`).
- A failing resolver, `malloc` or `StrToAddr` leaves the consumer of a TCP stream
  unanswered; an open after a failed resolution connects to address 0; a second
  close issues a second `TCPClose`.
- `EmitChar` remembers the line break that is due before a character as white
  space, and forgets it neither for the character that follows (`parser.c:345`): white
  space after the first character of a line is dropped, as in "I am", and
  the space behind a bullet (`parser.c:470`) is missing on every line but the first.
- A `<pre>` that opens or closes inside a title begins no line (`parser.c:369`), so
  that its text may follow, or be followed by, a space of the page.
- When an address cannot be copied, `PageWindowNavigateHistory` has moved in the
  history and shows and loads nothing (`lacking` in PageWindow).

## Plan

Done: the queues with proofs and refinement; file loads with proofs; the history
and the window around it with proofs and refinement; the HTTP fetch with proofs;
the parser, the TCP provider, the URL functions and the URL splitter.

Left, in this order:

1. Several windows that share the event loop and the providers.
2. The rest of the window: scroll bars, focus, and Save As, which reads the text
   that callbacks append to.

## Not modelled

The tokenizer is dead code: nothing feeds it. Of http-parser, third-party code,
only the URL splitter is called; the parser of messages is not modelled.
`dnr.c` and `mactcp_stubs.c` find and load a code resource of MacTCP and pass calls
on to it; what those calls may answer is part of HttpFetch and TcpStream, the loading
is left out. Drawing, scroll bars, the status bar, cursors, Save As, Apple events and
dialogs are input and output with no state that the rest depends on. There is one window in each
model; `main.c` and `menus.c` give an event to the front one. `streamtest.c` and the
compatibility header are a test program and Toolbox glue.
