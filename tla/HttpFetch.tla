------------------------------- MODULE HttpFetch -------------------------------
(***************************************************************************)
(* The HTTP provider (uri/http.c): HTTPProviderRequest gets a page within  *)
(* URIGet.  It asks the resolver, opens a connection, sends the request,   *)
(* and gives the window the body as it arrives.  The event loop waits for  *)
(* it; what goes on meanwhile is the server, and the resolver, which may   *)
(* answer after ResolveHost has given up.                                  *)
(*                                                                         *)
(* A response is the sequence of bytes that the server would send; a body  *)
(* is described by the positions of its bytes in the response.             *)
(***************************************************************************)
EXTENDS HttpResponse

CONSTANTS
  Hosts,          \* the host of a URL; its address has the same name
  Dotted,         \* those that are written as an address
  Responses,      \* what a server may send
  RecvBufSize,    \* HTTP_RECV_BUF_SIZE
  HeaderBufSize,  \* HTTP_HEADER_BUF_SIZE
  MaxFetches,     \* bound: requests
  NULL

ASSUME HostsAssumption ==
  Dotted \subseteq Hosts /\ NULL \notin Hosts /\ "dnrErr" \notin Hosts \union {NULL}
ASSUME SizesAssumption == RecvBufSize \in Nat /\ HeaderBufSize \in Nat
ASSUME MaxFetchesAssumption == MaxFetches \in Nat
ASSUME ResponsesAssumption == Responses \subseteq Seq(STRING)
(* What the scanner makes of a response are numbers. *)
ASSUME NumbersAssumption ==
  \A r \in Responses : \A n \in 0 .. Len(r) :
    /\ HTTPParseContentLength(SubSeq(r, 1, n)) \in Int
    /\ HTTPParseStatusCode(SubSeq(r, 1, n)) \in Int

VARIABLES
  pc,             \* "event", "lost", or the step of the request
  fetches,        \* how many requests were made
  host,           \* the host of the URL
  err,
  gResolverOpen,
  queries,        \* what the resolver was asked and has not answered
  done, hostInfo, \* the locals of ResolveHost that the resolver writes
  remoteAddr,
  gTCPRefNum,     \* the driver is open
  headerBuf,      \* it is allocated
  tcpStream,      \* the connection is ours
  response,       \* what the server sends
  at,             \* how much of it was received
  refused,        \* how much of that was not looked at
  headerEnd,      \* the length of the header, -1 before headersComplete
  contentLength,
  heard, shown    \* the callbacks of the window, and the bytes it was given

resolver == <<gResolverOpen, queries, done, hostInfo>>
held == <<gTCPRefNum, headerBuf, tcpStream>>
received == <<response, at, refused, headerEnd, contentLength>>
window == <<heard, shown>>
vars == <<pc, fetches, host, err, resolver, remoteAddr, held, received, window>>

Init ==
  /\ pc = "event"
  /\ fetches = 0
  /\ host = NULL
  /\ err = "noErr"
  /\ gResolverOpen = FALSE
  /\ queries = {}
  /\ done = FALSE
  /\ hostInfo = NULL
  /\ remoteAddr = NULL
  /\ gTCPRefNum = FALSE
  /\ headerBuf = FALSE
  /\ tcpStream = FALSE
  /\ response = <<>>
  /\ at = 0
  /\ refused = 0
  /\ headerEnd = -1
  /\ contentLength = -1
  /\ heard = <<>>
  /\ shown = <<>>

-----------------------------------------------------------------------------
(* HTTPProviderRequest, with GET, up to ResolveHost's call of the resolver.  *)
Request(h) ==
  /\ pc = "event" /\ fetches < MaxFetches
  /\ fetches' = fetches + 1
  /\ host' = h
  /\ err' = "noErr"
  /\ done' = FALSE
  /\ hostInfo' = NULL
  /\ remoteAddr' = IF h \in Dotted THEN h ELSE NULL
  /\ pc' = IF h \in Dotted THEN "driver" ELSE "resolve"
  /\ response' = <<>>
  /\ at' = 0
  /\ refused' = 0
  /\ headerEnd' = -1
  /\ contentLength' = -1
  /\ heard' = <<>>
  /\ shown' = <<>>
  /\ UNCHANGED <<gResolverOpen, queries, held>>

(* goto done, or return, with an error. *)
Fail(e) ==
  /\ err' = e
  /\ pc' = "done"
  /\ UNCHANGED <<fetches, host, received, window>>

Goto(step) ==
  /\ pc' = step
  /\ UNCHANGED <<fetches, host, err, received, window>>

OpenResolver ==
  /\ pc = "resolve" /\ ~gResolverOpen
  /\ \/ Goto("resolve") /\ gResolverOpen' = TRUE
     \/ Fail("resolverErr") /\ UNCHANGED gResolverOpen
  /\ UNCHANGED <<queries, done, hostInfo, remoteAddr, held>>

(* StrToAddr: it fails, or it knows the answer, or it will answer later.   *)
(* What it knows it may return without calling HTTPResolveProc             *)
(* (tcpstream.c:150-155 is ready for both).                                *)
Answers == {host, "dnrErr", NULL}

AskResolver ==
  /\ pc = "resolve" /\ gResolverOpen
  /\ \/ /\ Fail("dnrErr")
        /\ UNCHANGED <<queries, done, hostInfo>>
     \/ /\ Goto("resolved")
        /\ hostInfo' \in Answers
        /\ done' \in {done, TRUE}
        /\ UNCHANGED queries
     \/ /\ Goto("wait")
        /\ queries' = queries \union {[host |-> host, fetch |-> fetches]}
        /\ UNCHANGED <<done, hostInfo>>
  /\ UNCHANGED <<gResolverOpen, remoteAddr, held>>

(* Faulty: there is no deadline. *)
WaitForAnswer ==
  /\ pc = "wait" /\ done
  /\ Goto("resolved")
  /\ UNCHANGED <<resolver, remoteAddr, held>>

(* while (!state.done && TickCount() < deadline) SystemTask(); *)
WaitEnds ==
  /\ pc = "wait"
  /\ Goto("resolved")
  /\ UNCHANGED <<resolver, remoteAddr, held>>

Resolved ==
  /\ pc = "resolved"
  /\ \/ ~done /\ Fail("commandTimeout") /\ UNCHANGED remoteAddr
     \/ done /\ hostInfo = "dnrErr" /\ Fail("dnrErr") /\ UNCHANGED remoteAddr
     \/ done /\ hostInfo = NULL /\ Fail("noNameServer") /\ UNCHANGED remoteAddr
     \/ /\ done /\ hostInfo \in Hosts
        /\ remoteAddr' = hostInfo
        /\ Goto("driver")
  /\ UNCHANGED <<resolver, held>>

(* The resolver answers.  It writes to the locals of the call of           *)
(* ResolveHost that asked; when that has returned, the stack there may     *)
(* hold nothing of interest, the same locals of a later call, or something *)
(* that the program does not survive.                                      *)
Resolving == pc \in {"resolve", "wait", "resolved"}

Answer(q) ==
  /\ pc # "lost"
  /\ queries' = queries \ {q}
  /\ \/ /\ Resolving
        /\ hostInfo' \in {q.host, "dnrErr", NULL}
        /\ done' = TRUE
        /\ UNCHANGED pc
     \/ /\ ~(Resolving /\ q.fetch = fetches)
        /\ pc' \in {pc, "lost"}
        /\ UNCHANGED <<hostInfo, done>>
  /\ UNCHANGED <<fetches, host, err, gResolverOpen, remoteAddr, held, received, window>>

-----------------------------------------------------------------------------
(* EnsureTCPDriver *)
OpenDriver ==
  /\ pc = "driver"
  /\ \/ Goto("request") /\ gTCPRefNum' = TRUE
     \/ ~gTCPRefNum /\ Fail("driverErr") /\ UNCHANGED gTCPRefNum
  /\ UNCHANGED <<resolver, remoteAddr, headerBuf, tcpStream>>

(* The request may be too long for its buffer, and memory may be full. *)
MakeRequest ==
  /\ pc = "request"
  /\ \/ Goto("create") /\ headerBuf' = TRUE
     \/ \E e \in {"truncated", "memFullErr"} : Fail(e) /\ UNCHANGED headerBuf
  /\ UNCHANGED <<resolver, remoteAddr, gTCPRefNum, tcpStream>>

TCPCreate ==
  /\ pc = "create"
  /\ \/ Goto("open") /\ tcpStream' = TRUE
     \/ Fail("tcpErr") /\ UNCHANGED tcpStream
  /\ UNCHANGED <<resolver, remoteAddr, gTCPRefNum, headerBuf>>

TCPActiveOpen ==
  /\ pc = "open"
  /\ Goto("send") \/ Fail("tcpErr")
  /\ UNCHANGED <<resolver, remoteAddr, held>>

TCPSend ==
  /\ pc = "send"
  /\ \/ /\ pc' = "receive"
        /\ response' \in Responses
        /\ UNCHANGED <<fetches, host, err, at, refused, headerEnd, contentLength, window>>
     \/ Fail("tcpErr")
  /\ UNCHANGED <<resolver, remoteAddr, held>>

-----------------------------------------------------------------------------
(* The receive loop.  TCPRcv returns n bytes; when the connection closes   *)
(* there may be some with the last call, and none with an error.           *)
Rcv(ioResult, n) ==
  \/ ioResult = "noErr" /\ n > 0
  \/ ioResult = "connectionClosing"
  \/ ioResult = "commandTimeout" /\ n = 0

headersComplete == headerEnd >= 0
bodyBytesRead == Len(shown)
Positions(i, n) == [k \in 1 .. n |-> i + k]

(* The end of the loop's body, after what was read was consumed.           *)
Continue(ioResult) ==
  LET complete == headerEnd' >= 0 /\ contentLength' >= 0 /\ Len(shown') >= contentLength'
  IN  /\ pc' = IF ioResult = "noErr" /\ ~complete THEN "receive" ELSE "done"
      /\ err' = IF complete \/ ioResult = "connectionClosing" THEN "noErr" ELSE ioResult

ReceiveNothing(ioResult) ==
  /\ UNCHANGED <<at, refused, headerEnd, contentLength, window>>
  /\ Continue(ioResult)

(* Before the header is complete the bytes go to headerBuf.                *)
Fits(n) == at + n <= HeaderBufSize

(* Faulty: it returns, with the buffer and the connection. *)
HeaderTooLongReturns(n) ==
  /\ ~headersComplete /\ n > 0 /\ ~Fits(n)
  /\ err' = "memFullErr"
  /\ pc' = "event"
  /\ heard' = Append(heard, <<"closed", "memFullErr">>)
  /\ UNCHANGED <<at, refused, headerEnd, contentLength, shown>>

HeaderTooLong(n) ==
  /\ ~headersComplete /\ n > 0 /\ ~Fits(n)
  /\ err' = "memFullErr"
  /\ pc' = "done"
  /\ UNCHANGED <<at, refused, headerEnd, contentLength, window>>

ReceiveHeader(ioResult, n) ==
  /\ ~headersComplete /\ n > 0 /\ Fits(n)
  /\ HeaderEnd(SubSeq(response, 1, at + n)) = -1
  /\ at' = at + n
  /\ UNCHANGED <<refused, headerEnd, contentLength, window>>
  /\ Continue(ioResult)

(* Faulty: the body in the header's buffer is not clipped. *)
ReceiveHeaderEndUnclipped(ioResult, n) ==
  LET end == HeaderEnd(SubSeq(response, 1, at + n))
      header == SubSeq(response, 1, end)
      status == HTTPParseStatusCode(header)
  IN  /\ ~headersComplete /\ n > 0 /\ Fits(n)
      /\ end >= 0
      /\ at' = at + n
      /\ headerEnd' = end
      /\ contentLength' = HTTPParseContentLength(header)
      /\ shown' = Positions(end, at + n - end)
      /\ heard' = << <<"begin">>, <<"status", IF status = 0 THEN 200 ELSE status>>,
                     <<"headers">> >>
                  \o (IF at + n > end THEN << <<"data">> >> ELSE <<>>)
      /\ UNCHANGED refused
      /\ Continue(ioResult)

(* What follows the header in its buffer is the beginning of the body. *)
ReceiveHeaderEnd(ioResult, n) ==
  LET end == HeaderEnd(SubSeq(response, 1, at + n))
      header == SubSeq(response, 1, end)
      length == HTTPParseContentLength(header)
      status == HTTPParseStatusCode(header)
      initialBodyLen == HTTPClipBodyBytes(length, 0, at + n - end)
  IN  /\ ~headersComplete /\ n > 0 /\ Fits(n)
      /\ end >= 0
      /\ at' = at + n
      /\ headerEnd' = end
      /\ contentLength' = length
      /\ shown' = Positions(end, initialBodyLen)
      /\ heard' = << <<"begin">>, <<"status", IF status = 0 THEN 200 ELSE status>>,
                     <<"headers">> >>
                  \o (IF initialBodyLen > 0 THEN << <<"data">> >> ELSE <<>>)
      /\ UNCHANGED refused
      /\ Continue(ioResult)

(* What comes with the end of the connection is not taken for body if it   *)
(* looks like a response or has an empty line.                             *)
Suspect(ioResult, bytes) ==
  /\ ioResult = "connectionClosing"
  /\ HTTPLooksLikeResponse(bytes) \/ HeaderEnd(bytes) >= 0

ReceiveBody(ioResult, n) ==
  LET bytesRead == HTTPClipBodyBytes(contentLength, bodyBytesRead, n)
      suspect == Suspect(ioResult, SubSeq(response, at + 1, at + bytesRead))
  IN  /\ headersComplete /\ n > 0
      /\ at' = at + n
      /\ refused' = IF suspect THEN n ELSE 0
      /\ IF suspect \/ bytesRead = 0
           THEN UNCHANGED window
           ELSE /\ heard' = Append(heard, <<"data">>)
                /\ shown' = shown \o Positions(at, bytesRead)
      /\ UNCHANGED <<headerEnd, contentLength>>
      /\ Continue(ioResult)

Receive ==
  /\ pc = "receive"
  /\ \E ioResult \in {"noErr", "connectionClosing", "commandTimeout"},
        n \in 0 .. RecvBufSize :
       /\ n <= Len(response) - at /\ Rcv(ioResult, n)
       /\ \/ n = 0 /\ ReceiveNothing(ioResult)
          \/ HeaderTooLong(n)
          \/ ReceiveHeader(ioResult, n)
          \/ ReceiveHeaderEnd(ioResult, n)
          \/ ReceiveBody(ioResult, n)
  /\ UNCHANGED <<fetches, host, resolver, remoteAddr, held, response>>

(* Faulty: the window is told of errors only. *)
DoneInSilence ==
  /\ pc = "done"
  /\ tcpStream' = FALSE
  /\ headerBuf' = FALSE
  /\ heard' = IF err = "noErr" THEN heard ELSE Append(heard, <<"closed", err>>)
  /\ pc' = "event"
  /\ UNCHANGED <<fetches, host, err, resolver, remoteAddr, gTCPRefNum, received, shown>>

(* done: and HTTPProviderRequest's URIClosed. *)
Done ==
  /\ pc = "done"
  /\ tcpStream' = FALSE
  /\ headerBuf' = FALSE
  /\ heard' = Append(heard, <<"closed", err>>)
  /\ pc' = "event"
  /\ UNCHANGED <<fetches, host, err, resolver, remoteAddr, gTCPRefNum, received, shown>>

-----------------------------------------------------------------------------
HTTPBlockingFetch ==
  \/ OpenResolver \/ AskResolver \/ WaitEnds \/ Resolved
  \/ OpenDriver \/ MakeRequest \/ TCPCreate \/ TCPActiveOpen \/ TCPSend
  \/ Receive \/ Done

Next ==
  \/ \E h \in Hosts : Request(h)
  \/ HTTPBlockingFetch
  \/ \E q \in queries : Answer(q)

Spec == Init /\ [][Next]_vars

(* Every call of the driver returns, those that wait after their time      *)
(* limit; so does the wait for the resolver.                               *)
FairSpec == Spec /\ WF_vars(HTTPBlockingFetch)
-----------------------------------------------------------------------------
(* Properties. *)

Errors == {"noErr", "resolverErr", "dnrErr", "commandTimeout", "noNameServer", "driverErr",
           "truncated", "memFullErr", "tcpErr"}
Steps == {"resolve", "wait", "resolved", "driver", "request", "create", "open", "send",
          "receive", "done"}

(* Every variable has its type, and the locals that a step uses are set:   *)
(* the address before the connection, the buffer and the connection while  *)
(* they are used.                                                          *)
TypeOK ==
  /\ pc \in Steps \union {"event", "lost"}
  /\ fetches \in 0 .. MaxFetches
  /\ host \in Hosts \union {NULL}
  /\ err \in Errors
  /\ gResolverOpen \in BOOLEAN
  /\ queries \subseteq [host : Hosts, fetch : 1 .. MaxFetches]
  /\ done \in BOOLEAN
  /\ hostInfo \in Hosts \union {"dnrErr", NULL}
  /\ remoteAddr \in Hosts \union {NULL}
  /\ gTCPRefNum \in BOOLEAN /\ headerBuf \in BOOLEAN /\ tcpStream \in BOOLEAN
  /\ response \in Responses \union {<<>>}
  /\ at \in 0 .. Len(response)
  /\ refused \in 0 .. at
  /\ headerEnd \in -1 .. at
  /\ pc \in Steps => host \in Hosts
  /\ pc \in {"driver", "request", "create", "open", "send", "receive"} => remoteAddr # NULL
  /\ pc \in {"request", "create", "open", "send", "receive"} => gTCPRefNum
  /\ pc \in {"create", "open", "send", "receive"} => headerBuf
  /\ pc \in {"open", "send", "receive"} => tcpStream

(* The window gets the bytes behind the header, in order, none twice and   *)
(* none left out, as far as they were received and the declared length     *)
(* allows, however the server cuts its response: those of the first chunk  *)
(* from the header's buffer, the others from the receive buffer            *)
(* (http.c:280-300).                                                       *)
BodyInOrder ==
  headerEnd >= 0 =>
    shown = Positions(headerEnd,
              HTTPClipBodyBytes(contentLength, 0, at - refused - headerEnd))

(* Each request calls the window in one order and tells it once that it    *)
(* has ended, whatever failed: either nothing but that, or the beginning,  *)
(* the status and the headers before any data (http.c:276-278, 407).       *)
Begun(calls) ==
  calls # <<>> =>
    /\ Len(calls) >= 3
    /\ calls[1] = <<"begin">> /\ calls[2][1] = "status" /\ calls[3] = <<"headers">>
    /\ \A k \in 4 .. Len(calls) : calls[k] = <<"data">>

CallbackOrder ==
  /\ pc \in Steps => Begun(heard)
  /\ pc = "event" /\ fetches > 0 =>
       heard # <<>> /\ Last(heard) = <<"closed", err>> /\ Begun(Front(heard))

(* A request has the buffer of the header, which what was received fits    *)
(* (http.c:268-273); between requests no connection and no buffer is held, *)
(* whatever failed (http.c:319-324).                                       *)
NothingHeld == pc = "event" => ~tcpStream /\ ~headerBuf

HeaderFits == pc = "receive" /\ ~headersComplete => headerBuf /\ at <= HeaderBufSize
BufferKept == NothingHeld /\ HeaderFits

(* The event loop gets control back from every request.                    *)
FetchEnds == pc \in Steps ~> pc \notin Steps

(* What documents say and the code does not do. *)

(* "body should begin at the HTML payload" (http_response_test.c:67): the  *)
(* first byte the window gets is the first behind the header of the whole  *)
(* response.                                                               *)
BodyBeginsAtPayload == shown # <<>> => Head(shown) = HeaderEnd(response) + 1

(* "GET the URI" (uri.c:230): the connection is to the host of the URI.    *)
GetsTheURI == remoteAddr \in {NULL, host}
=============================================================================
