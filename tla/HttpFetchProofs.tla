--------------------------- MODULE HttpFetchProofs ---------------------------
(***************************************************************************)
(* Proofs about HttpFetch: whatever the responses, and however they are    *)
(* cut, the window gets the body in order, is called in order and told of  *)
(* the end, and nothing that was acquired is kept.                         *)
(***************************************************************************)
EXTENDS HttpFetch, SequenceTheorems, TLAPS

Calls == {<<"begin">>, <<"headers">>, <<"data">>}
           \union {<<"status", n>> : n \in Int} \union {<<"closed", e>> : e \in Errors}

(* What is known of the response: nothing before the connection; without   *)
(* its header, nothing was given to the window; while it is read, all of   *)
(* the body that was received was, and there is more to come.              *)
Unread ==
  /\ pc \in Steps => fetches > 0
  /\ contentLength \in Int
  /\ heard \in Seq(Calls)
  /\ pc \in Steps \ {"receive", "done"} => at = 0 /\ headerEnd = -1
  /\ headerEnd = -1 => shown = <<>> /\ contentLength = -1 /\ refused = 0
  /\ headerEnd = -1 /\ pc \in Steps => heard = <<>>
  /\ headerEnd >= 0 /\ pc \in Steps => heard # <<>>
  /\ pc = "receive" => refused = 0
  /\ pc = "receive" /\ headerEnd >= 0 => contentLength < 0 \/ Len(shown) < contentLength

IInv ==
  TypeOK /\ Unread /\ BodyInOrder /\ CallbackOrder /\ NothingHeld /\ HeaderFits

-----------------------------------------------------------------------------
(* The end of a header is in what was scanned. *)
LEMMA HeaderEndRange ==
  ASSUME NEW s \in Seq(STRING)
  PROVE  HeaderEnd(s) \in -1 .. Len(s)
<1> DEFINE first == {end \in EmptyLines(s) : \A e \in EmptyLines(s) : end <= e}
<1>1. first \subseteq 1 .. Len(s)
  BY DEF EmptyLines
<1>2. CASE first = {}
  BY <1>2 DEF HeaderEnd
<1>3. CASE first # {}
  <2>1. HeaderEnd(s) \in first
    BY <1>3 DEF HeaderEnd
  <2> QED
    BY <2>1, <1>1
<1> QED
  BY <1>2, <1>3

(* Clipping is a minimum. *)
LEMMA ClipRange ==
  ASSUME NEW length \in Int, NEW b \in Nat, NEW n \in Nat
  PROVE  /\ HTTPClipBodyBytes(length, b, n) \in 0 .. n
         /\ length >= 0 /\ b <= length => b + HTTPClipBodyBytes(length, b, n) <= length
BY DEF HTTPClipBodyBytes

(* What was read next is appended to what was shown. *)
LEMMA PositionsAppend ==
  ASSUME NEW i \in Int, NEW m \in Nat, NEW n \in Nat
  PROVE  Positions(i, m) \o Positions(i + m, n) = Positions(i, m + n)
<1> DEFINE s == Positions(i, m)
           t == Positions(i + m, n)
           u == Positions(i, m + n)
<1>1. /\ s \in Seq(Int) /\ Len(s) = m /\ \A k \in 1 .. m : s[k] = i + k
      /\ t \in Seq(Int) /\ Len(t) = n /\ \A k \in 1 .. n : t[k] = i + m + k
      /\ u \in Seq(Int) /\ Len(u) = m + n /\ \A k \in 1 .. m + n : u[k] = i + k
  BY DEF Positions
<1> HIDE DEF s, t, u
<1>2. /\ s \o t \in Seq(Int) /\ Len(s \o t) = m + n
      /\ \A k \in 1 .. m + n : (s \o t)[k] = IF k <= m THEN s[k] ELSE t[k - m]
  BY <1>1, ConcatProperties, ZenonT(60)
<1>3. \A k \in 1 .. m + n : (s \o t)[k] = u[k]
  <2> TAKE k \in 1 .. m + n
  <2>1. CASE k <= m
    BY <2>1, <1>1, <1>2
  <2>2. CASE k > m
    <3>1. k - m \in 1 .. n /\ (s \o t)[k] = t[k - m]
      BY <2>2, <1>2
    <3>2. t[k - m] = i + m + (k - m) /\ u[k] = i + k
      BY <3>1, <1>1
    <3> QED
      BY <3>1, <3>2
  <2>3. k <= m \/ k > m
    OBVIOUS
  <2> QED
    BY <2>1, <2>2, <2>3, Zenon
<1>4. s \o t = u
  BY <1>1, <1>2, <1>3, SeqEqual, Zenon
<1> QED
  BY <1>4 DEF s, t, u

-----------------------------------------------------------------------------
LEMMA InitInv == Init => IInv
<1> SUFFICES ASSUME Init PROVE IInv
  OBVIOUS
<1>1. TypeOK
  <2>1. Len(<<>>) = 0 /\ -1 \in -1 .. 0 /\ 0 \in 0 .. 0 /\ 0 \in 0 .. MaxFetches
    BY MaxFetchesAssumption
  <2>2. pc \notin Steps \union {"create", "open", "send", "receive"}
    BY DEF Init, Steps
  <2> QED
    BY <2>1, <2>2 DEF Init, TypeOK, Errors, Steps
<1>2. Unread
  BY DEF Init, Unread, Steps
<1>3. BodyInOrder /\ CallbackOrder /\ NothingHeld /\ HeaderFits
  BY DEF Init, BodyInOrder, CallbackOrder, NothingHeld, HeaderFits, Steps
<1> QED
  BY <1>1, <1>2, <1>3 DEF IInv

(* Before the connection, nothing is received and nothing is shown. *)
Early == Steps \ {"receive", "done"}

(* The part of TypeOK that these steps disturb. *)
Locals ==
  /\ err \in Errors
  /\ gResolverOpen \in BOOLEAN
  /\ queries \subseteq [host : Hosts, fetch : 1 .. MaxFetches]
  /\ done \in BOOLEAN
  /\ hostInfo \in Hosts \union {"dnrErr", NULL}
  /\ remoteAddr \in Hosts \union {NULL}
  /\ gTCPRefNum \in BOOLEAN /\ headerBuf \in BOOLEAN /\ tcpStream \in BOOLEAN
  /\ pc \in {"driver", "request", "create", "open", "send"} => remoteAddr # NULL
  /\ pc \in {"request", "create", "open", "send"} => gTCPRefNum
  /\ pc \in {"create", "open", "send"} => headerBuf
  /\ pc \in {"open", "send"} => tcpStream

LEMMA EarlyStep ==
  ASSUME IInv, Locals', pc \in Early, pc' \in Early \union {"done"},
         UNCHANGED <<fetches, host, received, window>>
  PROVE  IInv'
<1>1. TypeOK'
  BY DEF IInv, TypeOK, Locals, Early, Steps, received
<1>2. Unread'
  BY DEF IInv, Unread, Early, Steps, received, window
<1>3. BodyInOrder'
  BY DEF IInv, BodyInOrder, received, window
<1>4. CallbackOrder'
  BY DEF IInv, CallbackOrder, Begun, Early, Steps, window
<1>5. NothingHeld' /\ HeaderFits'
  BY DEF NothingHeld, HeaderFits, Early, Steps
<1> QED
  BY <1>1, <1>2, <1>3, <1>4, <1>5 DEF IInv

LEMMA EarlyActions ==
  ASSUME IInv,
         \/ OpenResolver \/ AskResolver \/ WaitEnds \/ Resolved
         \/ OpenDriver \/ MakeRequest \/ TCPCreate \/ TCPActiveOpen
  PROVE  IInv'
<1> DEFINE Known == /\ Locals
                    /\ host \in Hosts \union {NULL} /\ (pc \in Steps => host \in Hosts /\ fetches > 0)
                    /\ fetches \in 0 .. MaxFetches
           Goal == /\ pc \in Early /\ pc' \in Early \union {"done"} /\ Locals'
                   /\ UNCHANGED <<fetches, host, received, window>>
<1>0. Known
  BY DEF IInv, TypeOK, Unread, Locals
<1> USE DEF Locals, Errors, Steps, Early, Fail, Goto
<1>1. CASE OpenResolver
    <2>1. Goal
    BY <1>1, <1>0, ZenonT(60) DEF OpenResolver, held
  <2> QED
    BY <2>1, EarlyStep
<1>2. CASE AskResolver
  <2>1. pc = "resolve" /\ UNCHANGED <<gResolverOpen, remoteAddr, held>>
    BY <1>2 DEF AskResolver
  <2>2. CASE Fail("dnrErr") /\ UNCHANGED <<queries, done, hostInfo>>
    <3>1. Goal
      BY <2>1, <2>2, <1>0 DEF held
    <3> QED
      BY <3>1, EarlyStep
  <2>3. CASE Goto("resolved") /\ hostInfo' \in Answers /\ done' \in {done, TRUE} /\ UNCHANGED queries
    <3>1. hostInfo' \in Hosts \union {"dnrErr", NULL} /\ done' \in BOOLEAN
      BY <2>1, <2>3, <1>0 DEF Answers
    <3>2. Goal
      BY <2>1, <2>3, <3>1, <1>0 DEF held
    <3> QED
      BY <3>2, EarlyStep
  <2>4. CASE /\ Goto("wait") /\ UNCHANGED <<done, hostInfo>>
             /\ queries' = queries \union {[host |-> host, fetch |-> fetches]}
    <3>1. [host |-> host, fetch |-> fetches] \in [host : Hosts, fetch : 1 .. MaxFetches]
      BY <2>1, <1>0, MaxFetchesAssumption
    <3>2. queries' \subseteq [host : Hosts, fetch : 1 .. MaxFetches]
      BY <2>4, <3>1, <1>0
    <3>3. Goal
      BY <2>1, <2>4, <3>2, <1>0 DEF held
    <3> QED
      BY <3>3, EarlyStep
  <2> QED
    BY <1>2, <2>2, <2>3, <2>4 DEF AskResolver
<1>3. CASE WaitEnds
  <2>1. Goal
    BY <1>3, <1>0 DEF WaitEnds, resolver, held
  <2> QED
    BY <2>1, EarlyStep
<1>4. CASE Resolved
  <2>1. Goal
    BY <1>4, <1>0, HostsAssumption DEF Resolved, resolver, held
  <2> QED
    BY <2>1, EarlyStep
<1>5. CASE OpenDriver
  <2>1. Goal
    BY <1>5, <1>0, ZenonT(60) DEF OpenDriver, resolver
  <2> QED
    BY <2>1, EarlyStep
<1>6. CASE MakeRequest
  <2>0. /\ pc = "request" /\ UNCHANGED <<resolver, remoteAddr, gTCPRefNum, tcpStream>>
        /\ \/ Goto("create") /\ headerBuf' = TRUE
           \/ \E e \in Errors : Fail(e) /\ UNCHANGED headerBuf
    BY <1>6, Zenon DEF MakeRequest
  <2>1. /\ pc' \in {"create", "done"} /\ err' \in Errors /\ headerBuf' \in BOOLEAN
        /\ pc' = "create" => headerBuf' /\ err' = err
        /\ UNCHANGED <<fetches, host, received, window>>
    BY <2>0, <1>0
  <2>2. Goal
    BY <2>0, <2>1, <1>0 DEF resolver
  <2> QED
    BY <2>2, EarlyStep
<1>7. CASE TCPCreate
  <2>1. Goal
    BY <1>7, <1>0 DEF TCPCreate, resolver
  <2> QED
    BY <2>1, EarlyStep
<1>8. CASE TCPActiveOpen
  <2>1. Goal
    BY <1>8, <1>0 DEF TCPActiveOpen, resolver, held
  <2> QED
    BY <2>1, EarlyStep
<1> QED
  BY <1>1, <1>2, <1>3, <1>4, <1>5, <1>6, <1>7, <1>8

-----------------------------------------------------------------------------
LEMMA RequestStep ==
  ASSUME IInv, NEW h \in Hosts, Request(h)
  PROVE  IInv'
<1> USE DEF Request, Steps
<1>1. TypeOK'
  <2>1. fetches' \in 0 .. MaxFetches /\ Len(<<>>) = 0
    BY MaxFetchesAssumption DEF IInv, TypeOK
  <2>2. /\ response' \in Responses \union {<<>>} /\ at' \in 0 .. Len(response')
        /\ refused' \in 0 .. at' /\ headerEnd' \in -1 .. at'
    BY <2>1
  <2> QED
    BY <2>1, <2>2, HostsAssumption DEF IInv, TypeOK, Errors, held
<1>2. Unread'
  BY MaxFetchesAssumption DEF IInv, TypeOK, Unread
<1>3. BodyInOrder' /\ CallbackOrder' /\ NothingHeld' /\ HeaderFits'
  BY DEF BodyInOrder, CallbackOrder, Begun, NothingHeld, HeaderFits
<1> QED
  BY <1>1, <1>2, <1>3 DEF IInv

(* The connection is made: a response, of which nothing is read yet. *)
LEMMA SendStep ==
  ASSUME IInv, TCPSend
  PROVE  IInv'
<1> USE DEF TCPSend, Fail, Steps, resolver, held, received, window
<1>1. TypeOK'
  BY ResponsesAssumption DEF IInv, TypeOK, Unread, Errors
<1>2. Unread'
  BY DEF IInv, Unread
<1>3. BodyInOrder' /\ CallbackOrder' /\ NothingHeld'
  BY DEF IInv, Unread, BodyInOrder, CallbackOrder, NothingHeld
<1>4. HeaderFits'
  <2>1. headerBuf' /\ at' = 0
    BY DEF IInv, TypeOK, Unread
  <2> QED
    BY <2>1, SizesAssumption DEF HeaderFits
<1> QED
  BY <1>1, <1>2, <1>3, <1>4 DEF IInv

LEMMA AnswerStep ==
  ASSUME IInv, NEW q \in queries, Answer(q)
  PROVE  IInv'
<1>1. /\ pc' \in {pc, "lost"} /\ queries' \subseteq queries
      /\ hostInfo' \in Hosts \union {"dnrErr", NULL} /\ done' \in BOOLEAN
      /\ UNCHANGED <<fetches, host, err, gResolverOpen, remoteAddr, held, received, window>>
  BY DEF IInv, TypeOK, Answer
<1> USE DEF Steps, held, received, window
<1>2. TypeOK'
  BY <1>1 DEF IInv, TypeOK
<1>3. Unread'
  BY <1>1 DEF IInv, Unread
<1>4. BodyInOrder' /\ CallbackOrder' /\ NothingHeld' /\ HeaderFits'
  BY <1>1 DEF IInv, BodyInOrder, CallbackOrder, NothingHeld, HeaderFits, headersComplete
<1> QED
  BY <1>2, <1>3, <1>4 DEF IInv

LEMMA DoneStep ==
  ASSUME IInv, Done
  PROVE  IInv'
<1> USE DEF Done, Steps, resolver, received
<1>1. TypeOK'
  BY DEF IInv, TypeOK
<1>2. <<"closed", err>> \in Calls
  BY DEF IInv, TypeOK, Calls
<1>3. /\ heard' \in Seq(Calls) /\ heard' # <<>>
      /\ Last(heard') = <<"closed", err>> /\ Front(heard') = heard
  BY <1>2 DEF IInv, Unread, Last, Front
<1>4. Unread'
  BY <1>3 DEF IInv, Unread
<1>5. CallbackOrder'
  BY <1>3 DEF IInv, CallbackOrder
<1>6. BodyInOrder' /\ NothingHeld' /\ HeaderFits'
  BY DEF IInv, BodyInOrder, NothingHeld, HeaderFits
<1> QED
  BY <1>1, <1>4, <1>5, <1>6 DEF IInv

-----------------------------------------------------------------------------
(* The receive loop goes on while the body is not complete. *)
LEMMA ContinueResult ==
  ASSUME NEW ioResult \in {"noErr", "connectionClosing", "commandTimeout"}, Continue(ioResult)
  PROVE  /\ err' \in Errors
         /\ \/ pc' = "done"
            \/ /\ pc' = "receive" /\ ioResult = "noErr"
               /\ ~(headerEnd' >= 0 /\ contentLength' >= 0 /\ Len(shown') >= contentLength')
BY DEF Continue, Errors

(* More data does not disturb the order of the calls. *)
LEMMA DataCall ==
  ASSUME NEW calls \in Seq(Calls), calls # <<>>, Begun(calls)
  PROVE  LET more == Append(calls, <<"data">>)
         IN  more \in Seq(Calls) /\ more # <<>> /\ Begun(more)
<1> DEFINE more == Append(calls, <<"data">>)
<1>1. <<"data">> \in Calls
  BY DEF Calls
<1>2. /\ more \in Seq(Calls) /\ more # <<>> /\ Len(more) = Len(calls) + 1
      /\ \A k \in 1 .. Len(calls) : more[k] = calls[k]
      /\ more[Len(calls) + 1] = <<"data">>
  BY <1>1, AppendProperties
<1> HIDE DEF more
<1>3. Begun(more)
  BY <1>2 DEF Begun
<1> QED
  BY <1>2, <1>3 DEF more

(* The part of TypeOK that a call of TCPRcv disturbs. *)
LEMMA ReceiveTypes ==
  ASSUME IInv, pc = "receive", pc' \in {"receive", "done"}, err' \in Errors,
         at' \in 0 .. Len(response), refused' \in 0 .. at', headerEnd' \in -1 .. at',
         UNCHANGED <<fetches, host, resolver, remoteAddr, held, response>>
  PROVE  TypeOK' /\ NothingHeld'
BY DEF IInv, TypeOK, NothingHeld, Steps, resolver, held

LEMMA ReceiveStep ==
  ASSUME IInv, Receive
  PROVE  IInv'
<1>1. PICK ioResult \in {"noErr", "connectionClosing", "commandTimeout"},
           n \in 0 .. RecvBufSize :
        /\ n <= Len(response) - at
        /\ \/ n = 0 /\ ReceiveNothing(ioResult)
           \/ HeaderTooLong(n)
           \/ ReceiveHeader(ioResult, n)
           \/ ReceiveHeaderEnd(ioResult, n)
           \/ ReceiveBody(ioResult, n)
  BY Zenon DEF Receive
<1>2. /\ pc = "receive"
      /\ UNCHANGED <<fetches, host, resolver, remoteAddr, held, response>>
  BY DEF Receive
<1>3. /\ response \in Responses \union {<<>>} /\ response \in Seq(STRING)
      /\ at \in 0 .. Len(response) /\ refused = 0 /\ headerEnd \in -1 .. at
      /\ n \in Nat /\ at + n \in 0 .. Len(response)
  <2>1. /\ response \in Responses \union {<<>>} /\ at \in 0 .. Len(response)
        /\ refused = 0 /\ headerEnd \in -1 .. at
    BY <1>2, Zenon DEF IInv, TypeOK, Unread
  <2>2. response \in Seq(STRING) /\ n \in Nat
    <3>1. <<>> \in Seq(STRING)
      OBVIOUS
    <3>2. response \in Seq(STRING)
      BY <3>1, <2>1, ResponsesAssumption, Zenon
    <3> QED
      BY <3>2, <1>1, SizesAssumption
  <2>3. Len(response) \in Nat /\ n <= Len(response) - at
    BY <1>1, <2>2, Zenon, LenProperties
  <2> QED
    BY <2>1, <2>2, <2>3
<1>4. CASE n = 0 /\ ReceiveNothing(ioResult)
  <2>1. UNCHANGED <<at, refused, headerEnd, contentLength, heard, shown>> /\ Continue(ioResult)
    BY <1>4 DEF ReceiveNothing, window
  <2>2. TypeOK' /\ NothingHeld'
    BY <2>1, <1>2, <1>3, ContinueResult, ReceiveTypes
  <2>3. Unread'
    BY <2>1, <1>2, ContinueResult DEF IInv, Unread, Steps
  <2>4. BodyInOrder' /\ CallbackOrder'
    BY <2>1, <1>2, ContinueResult DEF IInv, BodyInOrder, CallbackOrder, Steps
  <2>5. HeaderFits'
    <3>1. headerBuf' = headerBuf /\ headerBuf
      BY <1>2 DEF IInv, TypeOK, held
    <3> QED
      BY <3>1, <2>1, <1>2 DEF IInv, HeaderFits, headersComplete
  <2> QED
    BY <2>2, <2>3, <2>4, <2>5 DEF IInv
<1>5. CASE HeaderTooLong(n)
  <2>1. /\ pc' = "done" /\ err' \in Errors /\ headerEnd = -1
        /\ UNCHANGED <<at, refused, headerEnd, contentLength, heard, shown>>
    BY <1>3, <1>5 DEF HeaderTooLong, Errors, headersComplete, window
  <2>2. TypeOK' /\ NothingHeld'
    BY <2>1, <1>2, <1>3, ReceiveTypes
  <2>3. Unread'
    BY <2>1, <1>2 DEF IInv, Unread, Steps
  <2>4. BodyInOrder' /\ CallbackOrder' /\ HeaderFits'
    BY <2>1, <1>2 DEF IInv, BodyInOrder, CallbackOrder, HeaderFits, Steps
  <2> QED
    BY <2>2, <2>3, <2>4 DEF IInv
<1>6. CASE ReceiveHeader(ioResult, n)
  <2>1. /\ headerEnd = -1 /\ at' = at + n /\ at + n <= HeaderBufSize
        /\ UNCHANGED <<refused, headerEnd, contentLength, heard, shown>> /\ Continue(ioResult)
    BY <1>3, <1>6 DEF ReceiveHeader, Fits, headersComplete, window
  <2>2. TypeOK' /\ NothingHeld'
    BY <2>1, <1>2, <1>3, ContinueResult, ReceiveTypes
  <2>3. Unread'
    BY <2>1, <1>2, ContinueResult DEF IInv, Unread, Steps
  <2>4. BodyInOrder' /\ CallbackOrder'
    BY <2>1, <1>2, ContinueResult DEF IInv, BodyInOrder, CallbackOrder, Steps
  <2>5. HeaderFits'
    <3>1. headerBuf' = headerBuf /\ headerBuf
      BY <1>2 DEF IInv, TypeOK, held
    <3> QED
      BY <3>1, <2>1 DEF HeaderFits
  <2> QED
    BY <2>2, <2>3, <2>4, <2>5 DEF IInv
<1>7. CASE ReceiveHeaderEnd(ioResult, n)
  <2> DEFINE end == HeaderEnd(SubSeq(response, 1, at + n))
             header == SubSeq(response, 1, end)
             length == HTTPParseContentLength(header)
             initial == HTTPClipBodyBytes(length, 0, at + n - end)
             status == IF HTTPParseStatusCode(header) = 0 THEN 200
                       ELSE HTTPParseStatusCode(header)
             first == << <<"begin">>, <<"status", status>>, <<"headers">> >>
  <2>1. /\ headerEnd = -1 /\ n > 0 /\ end >= 0 /\ at' = at + n /\ headerEnd' = end
        /\ contentLength' = length /\ shown' = Positions(end, initial)
        /\ heard' = first \o (IF initial > 0 THEN << <<"data">> >> ELSE <<>>)
        /\ refused' = 0 /\ Continue(ioResult)
    BY <1>3, <1>7 DEF ReceiveHeaderEnd, headersComplete
  <2>2. response \in Responses
    BY <1>3, <2>1
  <2>3. end \in 0 .. at + n
    <3>1. SubSeq(response, 1, at + n) \in Seq(STRING) /\ Len(SubSeq(response, 1, at + n)) = at + n
      BY <1>3
    <3>2. end \in -1 .. Len(SubSeq(response, 1, at + n))
      BY <3>1, HeaderEndRange, Zenon
    <3> QED
      BY <3>1, <3>2, <2>1
  <2>4. length \in Int /\ status \in Int /\ initial \in Nat
    <3>1. length \in Int /\ HTTPParseStatusCode(header) \in Int
      BY <2>2, <2>3, <1>3, NumbersAssumption
    <3>2. at + n - end \in Nat
      BY <2>3, <1>3
    <3>3. initial \in 0 .. at + n - end
      BY <3>1, <3>2, ClipRange
    <3> QED
      BY <3>1, <3>2, <3>3
  <2> HIDE DEF end, header, length, initial, status
  <2>5. /\ heard' \in Seq(Calls) /\ heard' # <<>> /\ Begun(heard')
    <3>1. <<"begin">> \in Calls /\ <<"status", status>> \in Calls /\ <<"headers">> \in Calls
            /\ <<"data">> \in Calls
      BY <2>4 DEF Calls
    <3>2. first \in Seq(Calls) /\ Len(first) = 3 /\ first # <<>>
            /\ first[1] = <<"begin">> /\ first[2] = <<"status", status>> /\ first[3] = <<"headers">>
      BY <3>1
    <3> HIDE DEF first
    <3>3. CASE initial > 0
      <4>1. heard' = Append(first, <<"data">>)
        BY <3>1, <3>2, <3>3, <2>1, AppendIsConcat
      <4>2. Begun(first)
        BY <3>2 DEF Begun
      <4> QED
        BY <4>1, <4>2, <3>2, DataCall, Zenon
    <3>4. CASE ~(initial > 0)
      <4>1. heard' = first
        BY <3>2, <3>4, <2>1, ConcatEmptySeq
      <4> QED
        BY <4>1, <3>2 DEF Begun
    <3> QED
      BY <3>3, <3>4
  <2>6. TypeOK' /\ NothingHeld'
    BY <2>1, <2>3, <1>2, <1>3, ContinueResult, ReceiveTypes
  <2>7. Unread'
    BY <2>1, <2>3, <2>4, <2>5, <1>2, ContinueResult DEF IInv, Unread, Steps
  <2>8. BodyInOrder'
    <3>1. at' - refused' - headerEnd' = at + n - end
      BY <2>1, <2>3, <1>3
    <3> QED
      BY <3>1, <2>1, Zenon DEF BodyInOrder, initial
  <2>9. CallbackOrder' /\ HeaderFits'
    BY <2>1, <2>3, <2>5, ContinueResult DEF CallbackOrder, HeaderFits, headersComplete
  <2> QED
    BY <2>6, <2>7, <2>8, <2>9 DEF IInv
<1>8. CASE ReceiveBody(ioResult, n)
  <2> DEFINE bytesRead == HTTPClipBodyBytes(contentLength, bodyBytesRead, n)
             suspect == Suspect(ioResult, SubSeq(response, at + 1, at + bytesRead))
             body == HTTPClipBodyBytes(contentLength, 0, at - headerEnd)
  <2>1. /\ headerEnd >= 0 /\ n > 0 /\ at' = at + n
        /\ refused' = IF suspect THEN n ELSE 0
        /\ IF suspect \/ bytesRead = 0
             THEN UNCHANGED <<heard, shown>>
             ELSE heard' = Append(heard, <<"data">>) /\ shown' = shown \o Positions(at, bytesRead)
        /\ UNCHANGED <<headerEnd, contentLength>> /\ Continue(ioResult)
    BY <1>8, Zenon DEF ReceiveBody, headersComplete, window
  <2>2. contentLength \in Int /\ shown = Positions(headerEnd, body)
    BY <2>1, <1>3 DEF IInv, Unread, BodyInOrder
  <2>3. Len(shown) = at - headerEnd /\ body = at - headerEnd
    <3>1. body \in Nat /\ Len(shown) = body
      BY <2>1, <2>2, <1>3, ClipRange DEF Positions
    <3>2. contentLength < 0 \/ Len(shown) < contentLength
      BY <2>1, <1>2 DEF IInv, Unread
    <3> QED
      BY <3>1, <3>2, <2>1, <2>2, <1>3 DEF HTTPClipBodyBytes
  <2>4. bytesRead \in 0 .. n
    <3>1. Len(shown) \in Nat
      BY <2>3, <2>1, <1>3
    <3> QED
      BY <3>1, <2>2, <1>3, ClipRange, Zenon DEF bodyBytesRead
  <2>5. suspect => ioResult = "connectionClosing"
    BY DEF Suspect
  <2> HIDE DEF suspect
  <2>6. TypeOK' /\ NothingHeld'
    BY <2>1, <1>2, <1>3, ContinueResult, ReceiveTypes
  <2>7. BodyInOrder'
    <3>1. CASE suspect
      BY <3>1, <2>1, <2>2, <1>3 DEF BodyInOrder
    <3>2. CASE ~suspect
      <4>1. /\ at - headerEnd \in Nat /\ headerEnd + (at - headerEnd) = at
            /\ at' - refused' - headerEnd' = (at - headerEnd) + n
        BY <3>2, <2>1, <1>3
      <4>2. HTTPClipBodyBytes(contentLength, 0, (at - headerEnd) + n)
              = (at - headerEnd) + bytesRead
        <5>1. contentLength < 0 \/ at - headerEnd < contentLength
          BY <2>1, <2>3, <1>2 DEF IInv, Unread
        <5> QED
          BY <5>1, <4>1, <2>2, <2>3, <1>3 DEF HTTPClipBodyBytes, bodyBytesRead
      <4>3. Positions(headerEnd, at - headerEnd) \o Positions(at, bytesRead)
              = Positions(headerEnd, (at - headerEnd) + bytesRead)
        <5>1. headerEnd \in Int /\ bytesRead \in Nat
          BY <2>4, <1>3
        <5> HIDE DEF bytesRead
        <5> QED
          BY <5>1, <4>1, PositionsAppend, Zenon
      <4>4. shown' = shown \o Positions(at, bytesRead)
        <5>1. contentLength < 0 \/ at - headerEnd < contentLength
          BY <2>1, <2>3, <1>2 DEF IInv, Unread
        <5>2. bytesRead # 0
          BY <5>1, <4>1, <2>1, <2>2, <2>3, <1>3 DEF HTTPClipBodyBytes, bodyBytesRead
        <5> QED
          BY <5>2, <3>2, <2>1
      <4>5. shown = Positions(headerEnd, at - headerEnd)
        BY <2>2, <2>3, Zenon
      <4> QED
        BY <4>1, <4>2, <4>3, <4>4, <4>5, <2>1, Zenon DEF BodyInOrder
    <3> QED
      BY <3>1, <3>2
  <2>8. heard \in Seq(Calls) /\ heard # <<>> /\ Begun(heard)
    BY <2>1, <1>2 DEF IInv, Unread, CallbackOrder, Steps
  <2>9. heard' \in Seq(Calls) /\ heard' # <<>> /\ Begun(heard')
    BY <2>1, <2>8, DataCall
  <2>10. Unread'
    BY <2>1, <2>2, <2>5, <2>9, <1>2, ContinueResult DEF IInv, Unread, Steps
  <2>11. CallbackOrder' /\ HeaderFits'
    BY <2>1, <2>9, ContinueResult DEF CallbackOrder, HeaderFits, headersComplete
  <2> QED
    BY <2>6, <2>7, <2>10, <2>11 DEF IInv
<1> QED
  BY <1>1, <1>4, <1>5, <1>6, <1>7, <1>8

-----------------------------------------------------------------------------
LEMMA NextInv == IInv /\ [Next]_vars => IInv'
<1> SUFFICES ASSUME IInv, [Next]_vars PROVE IInv'
  OBVIOUS
<1>1. CASE \E h \in Hosts : Request(h)
  BY <1>1, RequestStep
<1>2. CASE HTTPBlockingFetch
  BY <1>2, EarlyActions, SendStep, ReceiveStep, DoneStep DEF HTTPBlockingFetch
<1>3. CASE \E q \in queries : Answer(q)
  BY <1>3, AnswerStep
<1>4. CASE UNCHANGED vars
  BY <1>4 DEF vars, resolver, held, received, window, IInv, TypeOK, Unread, BodyInOrder,
              CallbackOrder, NothingHeld, HeaderFits, headersComplete
<1> QED
  BY <1>1, <1>2, <1>3, <1>4 DEF Next

LEMMA Invariance == Spec => []IInv
BY InitInv, NextInv, PTL DEF Spec

(* In every reachable state each variable has its type, and a step of the  *)
(* request finds the address, the buffer and the connection that it uses.  *)
THEOREM TypeCorrect == Spec => []TypeOK
<1>1. IInv => TypeOK
  BY DEF IInv
<1> QED
  BY <1>1, Invariance, PTL

(* For every response and every way the connection cuts it, the window     *)
(* gets the bytes behind the header, in order, none twice and none left    *)
(* out, up to the declared length (the receive loop of HTTPBlockingFetch). *)
THEOREM BodyDelivered == Spec => []BodyInOrder
<1>1. IInv => BodyInOrder
  BY DEF IInv
<1> QED
  BY <1>1, Invariance, PTL

(* The window is called in order and is told of the end of every request,  *)
(* whatever fails (HTTPBlockingFetch and HTTPProviderRequest).             *)
THEOREM CallsInOrder == Spec => []CallbackOrder
<1>1. IInv => CallbackOrder
  BY DEF IInv
<1> QED
  BY <1>1, Invariance, PTL

(* The header never overruns its buffer (the memcpy of HTTPBlockingFetch), *)
(* and every way out of a request gives back the connection and the buffer *)
(* (the label done).                                                       *)
THEOREM BufferIsKept == Spec => []BufferKept
<1>1. IInv => BufferKept
  BY DEF IInv, BufferKept
<1> QED
  BY <1>1, Invariance, PTL
=============================================================================
