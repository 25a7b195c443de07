------------------------------ MODULE TcpStream ------------------------------
(*****************************************************************************)
(* tcpstream.c: the TCP provider of the stream library.  The program opens,  *)
(* closes and writes between two polls; MacTCP and the resolver answer at    *)
(* any time, at interrupt level, and their completion routines only queue    *)
(* the answer (StreamQueue shows that what is queued is polled).             *)
(*                                                                           *)
(* `tcp' is the TCPData of one stream; `ops' are the parameter blocks that   *)
(* the driver holds, `completed' the queue completedPBs; `calls' is what the *)
(* consumer was told; `conn' is the connection, which is not code of this    *)
(* repository.  Each function is an operator from a state of the provider    *)
(* to the next; `lacks' names what cannot be had while it runs.              *)
(*                                                                           *)
(* MacTCP keeps what has arrived in tcpData->recvBuf, which it was given by  *)
(* TCPCreate, and each receive has it copy a piece to the start of the same  *)
(* recvBuf, where the consumer reads it.  conn.front is the piece whose      *)
(* bytes are at the start now, and conn.low has the pieces that MacTCP put   *)
(* there when they arrived; it keeps the others further on.                  *)
(*****************************************************************************)
EXTENDS Integers, Sequences, FiniteSets

CONSTANTS MaxIssued,    \* bound: parameter blocks that are allocated
          MaxSent,      \* bound: pieces of data that the peer sends
          MaxCalls      \* bound: calls of the consumer after which the program calls no more

ASSUME BoundsAssumption == MaxIssued \in Nat /\ MaxSent \in Nat /\ MaxCalls \in Nat

VARIABLES tcp, ops, completed, heap, calls, conn
vars == <<tcp, ops, completed, heap, calls, conn>>

Lacks   == SUBSET {"block", "resolver", "hostInfo", "StrToAddr"}
Ids(s)  == {s[i].id : i \in 1..Len(s)}
Told(what) == {i \in 1..Len(calls) : calls[i].what = what}

-----------------------------------------------------------------------------
(* The provider.  s has tcp, ops, heap, calls and conn. *)

Tell(s, what) ==
  [s EXCEPT !.calls = Append(@, [what |-> what, piece |-> 0, bytes |-> 0, sent |-> 0])]

\* on_data, with the bytes that are at the start of recvBuf now: `data' is the piece
\* that the receive brought, 0 if it brought none ("residue").
Deliver(s, data) ==
  [s EXCEPT !.calls = Append(@, [what |-> IF data = 0 THEN "residue" ELSE "data", piece |-> data,
                                 bytes |-> s.conn.front, sent |-> s.conn.sent])]

\* NewTCPPB and the PBControlAsync after it.  `live' says whether the connection is
\* in a state for the command, which decides what MacTCP may answer.
Control(s, code, live, lacks) ==
  IF ~ s.tcp.tcpStream THEN Tell(s, "error")
  ELSE IF "block" \in lacks THEN Tell(s, "error")
  ELSE [s EXCEPT !.ops = @ \cup {[id |-> s.tcp.issued + 1, code |-> code, live |-> live,
                                  addr |-> s.tcp.addr]},
                 !.heap = @ \cup {s.tcp.issued + 1}, !.tcp.issued = @ + 1]

Connect(s, lacks) ==
  LET fresh == s.conn.state = "created"
      t     == Control(s, "TCPActiveOpen", fresh, lacks)
  IN IF fresh /\ t.ops # s.ops THEN [t EXCEPT !.conn.state = "opening"] ELSE t

\* TCPStreamResolveCompleted, on the answer in hostInfo.
ResolveCompleted(s, lacks) ==
  LET t == [s EXCEPT !.tcp.resolveState = "resolveFinished", !.tcp.hostInfo = "freed"]
  IN IF s.tcp.hostInfo = "none" THEN Tell(t, "error")
     ELSE Connect([t EXCEPT !.tcp.addr = "host"], lacks)

\* TCPStreamResolve: three failures leave without telling the consumer.
Resolve(s, answer, lacks) ==
  LET t == [s EXCEPT !.tcp.resolveState = "resolveInProgress"]
      u == [t EXCEPT !.tcp.resolverOpen = TRUE]
      v == [u EXCEPT !.tcp.hostInfo = answer]
  IN IF s.tcp.resolveState # "notResolved" THEN s
     ELSE IF s.tcp.numeric
     THEN Connect([s EXCEPT !.tcp.resolveState = "resolveFinished", !.tcp.addr = "host"], lacks)
     ELSE IF ~ s.tcp.resolverOpen /\ "resolver" \in lacks THEN t
     ELSE IF "hostInfo" \in lacks THEN u
     ELSE IF "StrToAddr" \in lacks THEN [v EXCEPT !.tcp.hostInfo = "refused"]
     ELSE IF answer = "asked" THEN v
     ELSE ResolveCompleted(v, lacks)

TCPStreamOpen(s, answer, lacks) ==
  IF s.tcp.resolveState # "resolveFinished" THEN Resolve(s, answer, lacks)
  ELSE Connect(s, lacks)

\* tcpStream is tested, but a close does not clear it.
TCPStreamClose(s, lacks) ==
  LET live == s.conn.state = "open" /\ ~ s.conn.closed
      t    == Control(s, "TCPClose", live, lacks)
  IN IF ~ s.tcp.tcpStream THEN s
     ELSE IF live /\ t.ops # s.ops THEN [t EXCEPT !.conn.closed = TRUE] ELSE t

\* PBControlSync returns what it stores in ioResult, so that each failure is told
\* by the first test.
TCPStreamWrite(s, lacks) ==
  IF s.tcp.tcpStream /\ "block" \notin lacks /\ s.conn.state = "open" /\ ~ s.conn.closed
  THEN s ELSE Tell(s, "error")

\* TCPRelease aborts the connection; MacTCP then ends the commands it holds.  It may
\* answer that it does not know the stream.
TCPStreamRelease(s, known) ==
  [(IF known THEN s ELSE Tell(s, "error")) EXCEPT !.tcp.tcpStream = FALSE,
                                                  !.conn.state = "released"]

TCPStreamClosed(s, known) ==
  IF s.tcp.tcpStream THEN TCPStreamRelease(Tell(s, "close"), known) ELSE Tell(s, "close")

TCPStreamReceive(s, id) ==
  [s EXCEPT !.ops = @ \cup {[id |-> id, code |-> "TCPRcv", live |-> TRUE, addr |-> "host"]}]

Free(s, id) == [s EXCEPT !.heap = @ \ {id}]

OpenedAgain(s, pb) ==               \* mutant: a connection that exists will do
  IF pb.result # "connectionTerminated" THEN TCPStreamReceive(Tell(s, "open"), pb.id)
  ELSE Free(Tell(s, "error"), pb.id)

Opened(s, pb) ==
  IF pb.result = "noErr" THEN TCPStreamReceive(Tell(s, "open"), pb.id)
  ELSE Free(Tell(s, "error"), pb.id)

CloseInSilence(s, pb) ==            \* mutant: a second close is not told
  Free(IF pb.result = "connectionClosing" THEN s
       ELSE Tell(s, IF pb.result = "noErr" THEN "end" ELSE "error"), pb.id)

CloseDone(s, pb) == Free(Tell(s, IF pb.result = "noErr" THEN "end" ELSE "error"), pb.id)

ReceivedClosing(s, pb, known) ==    \* mutant: data is dropped once a close was issued
  LET t == IF pb.rcvBuffLen > 0 /\ ~ s.conn.closed THEN Deliver(s, pb.data) ELSE s
  IN CASE pb.result = "noErr"             -> TCPStreamReceive(t, pb.id)
       [] pb.result = "connectionClosing" -> Free(TCPStreamClosed(t, known), pb.id)
       [] OTHER                           -> TCPStreamClosed(Tell(t, "error"), known)

\* rcvBuffLen is tested before the result.  Only the result of a connection that ends
\* well frees the parameter block.
Received(s, pb, known) ==
  LET t == IF pb.rcvBuffLen > 0 THEN Deliver(s, pb.data) ELSE s
  IN CASE pb.result = "noErr"             -> TCPStreamReceive(t, pb.id)
       [] pb.result = "connectionClosing" -> Free(TCPStreamClosed(t, known), pb.id)
       [] pb.result = "connectionTerminated" -> TCPStreamClosed(Tell(t, "error"), known)
       [] OTHER                           -> Tell(t, "error")

TCPStreamCompleted(s, pb, known) ==
  CASE pb.code = "TCPActiveOpen" -> Opened(s, pb)
    [] pb.code = "TCPClose"      -> CloseDone(s, pb)
    [] pb.code = "TCPRcv"        -> Received(s, pb, known)

-----------------------------------------------------------------------------
(* Actions *)

Now == [tcp |-> tcp, ops |-> ops, heap |-> heap, calls |-> calls, conn |-> conn]
Becomes(s) == /\ tcp' = s.tcp /\ ops' = s.ops /\ heap' = s.heap
              /\ calls' = s.calls /\ conn' = s.conn

NewTCPData(numeric, resolverOpen) ==
  [provided |-> FALSE, tcpStream |-> FALSE, resolveState |-> "notResolved", addr |-> "zero",
   hostInfo |-> "unset", numeric |-> numeric, resolverOpen |-> resolverOpen, issued |-> 0]

\* The resolver may be open already; for a numeric address nothing reads whether.
Init == /\ \E numeric, open \in BOOLEAN : /\ numeric => ~ open
                                         /\ tcp = NewTCPData(numeric, open)
        /\ ops = {} /\ completed = <<>> /\ heap = {} /\ calls = <<>>
        /\ conn = [state |-> "created", closed |-> FALSE, fin |-> FALSE, sent |-> 0, unread |-> <<>>,
                   front |-> 0, low |-> {}]

\* ProvideTCPActiveStream.  If NewTCPData fails, at malloc, at the driver or at
\* TCPCreate, the provider has no data and each call returns at once, or is an error.
Provide(made) ==
  /\ ~ tcp.provided
  /\ tcp' = [tcp EXCEPT !.provided = TRUE, !.tcpStream = made]
  /\ conn' = [conn EXCEPT !.state = IF made THEN "created" ELSE "absent"]
  /\ calls' = IF made THEN calls ELSE Tell(Now, "error").calls
  /\ UNCHANGED <<ops, completed, heap>>

MayCall == tcp.provided /\ tcp.issued < MaxIssued /\ Len(calls) < MaxCalls

Open(answer, lacks) ==
  /\ MayCall /\ UNCHANGED completed
  /\ Becomes(IF conn.state = "absent" THEN Now ELSE TCPStreamOpen(Now, answer, lacks))

Close(lacks) ==
  /\ MayCall /\ conn.state # "absent"
  /\ Becomes(TCPStreamClose(Now, lacks)) /\ UNCHANGED completed

Write(lacks) ==
  /\ MayCall
  /\ Becomes(TCPStreamWrite(Now, lacks)) /\ UNCHANGED completed

\* One turn of the loop of TCPStreamPoll, and what it does after the last turn.
PollPB ==
  /\ completed # <<>> /\ completed' = Tail(completed)
  /\ \E known \in BOOLEAN : Becomes(TCPStreamCompleted(Now, Head(completed), known))

PollResolved(lacks) ==
  /\ completed = <<>> /\ tcp.resolveState = "resolveCompleted"
  /\ Becomes(ResolveCompleted(Now, lacks)) /\ UNCHANGED completed

\* StrToAddrProc: the resolver has stored an address, or none.
StrToAddrProc(answer) ==
  /\ tcp.resolveState = "resolveInProgress" /\ tcp.hostInfo = "asked"
  /\ tcp' = [tcp EXCEPT !.resolveState = "resolveCompleted", !.hostInfo = answer]
  /\ UNCHANGED <<ops, completed, heap, calls, conn>>

\* TCPIOComplete: MacTCP has ended a command.
TCPIOComplete(pb, result, data, rcvBuffLen) ==
  /\ completed' = Append(completed, [id |-> pb.id, code |-> pb.code, result |-> result,
                                     data |-> data, rcvBuffLen |-> rcvBuffLen])
  /\ ops' = ops \ {pb}
  /\ UNCHANGED <<tcp, heap, calls>>

\* What MacTCP may answer, and how the connection changes with it.
EndOpen(pb) ==
  /\ pb.code = "TCPActiveOpen"
  /\ \/ /\ pb.live /\ conn.state = "opening"
        /\ conn' = [conn EXCEPT !.state = "open"] /\ TCPIOComplete(pb, "noErr", 0, 0)
     \/ /\ pb.live /\ conn.state = "opening"
        /\ conn' = [conn EXCEPT !.state = "created"] /\ TCPIOComplete(pb, "connectionTerminated", 0, 0)
     \/ /\ ~ (pb.live /\ conn.state = "opening")
        /\ UNCHANGED conn /\ TCPIOComplete(pb, "connectionExists", 0, 0)

EndClose(pb) ==
  /\ pb.code = "TCPClose" /\ UNCHANGED conn
  /\ TCPIOComplete(pb, IF ~ pb.live THEN IF conn.closed THEN "connectionClosing"
                                         ELSE "connectionDoesntExist"
                       ELSE IF conn.state = "open" THEN "noErr" ELSE "connectionTerminated", 0, 0)

\* A piece is copied to the start of recvBuf, also over one that arrived there and is
\* not read yet.  An error leaves rcvBuffLen as it was, or clears it.
EndReceive(pb) ==
  /\ pb.code = "TCPRcv"
  /\ \/ /\ conn.state = "open" /\ conn.unread # <<>>
        /\ conn' = [conn EXCEPT !.unread = Tail(@),
                                !.front = IF Head(conn.unread) \in conn.low THEN @
                                          ELSE Head(conn.unread)]
        /\ TCPIOComplete(pb, "noErr", Head(conn.unread), 1)
     \/ /\ conn.state = "open" /\ conn.unread = <<>> /\ conn.fin
        /\ UNCHANGED conn
        /\ \E rcvBuffLen \in 0..1 : TCPIOComplete(pb, "connectionClosing", 0, rcvBuffLen)
     \/ /\ conn.state \in {"aborted", "released"}
        /\ UNCHANGED conn
        /\ \E rcvBuffLen \in 0..1 : TCPIOComplete(pb, "connectionTerminated", 0, rcvBuffLen)

\* A piece arrives, at the start of recvBuf or further on, and not over one that
\* is unread.
PeerSends ==
  /\ conn.state = "open" /\ ~ conn.fin /\ conn.sent < MaxSent
  /\ \/ conn' = [conn EXCEPT !.sent = @ + 1, !.unread = Append(@, conn.sent + 1)]
     \/ /\ \A i \in 1..Len(conn.unread) : conn.unread[i] \notin conn.low
        /\ conn' = [conn EXCEPT !.sent = @ + 1, !.unread = Append(@, conn.sent + 1),
                                !.front = conn.sent + 1, !.low = @ \cup {conn.sent + 1}]
  /\ UNCHANGED <<tcp, ops, completed, heap, calls>>

PeerCloses == /\ conn.state = "open" /\ ~ conn.fin /\ conn' = [conn EXCEPT !.fin = TRUE]
              /\ UNCHANGED <<tcp, ops, completed, heap, calls>>

Abort == /\ conn.state = "open" /\ conn' = [conn EXCEPT !.state = "aborted"]
         /\ UNCHANGED <<tcp, ops, completed, heap, calls>>

Next == \/ \E made \in BOOLEAN : Provide(made)
        \/ \E answer \in {"asked", "address", "none"}, lacks \in Lacks : Open(answer, lacks)
        \/ \E lacks \in Lacks : Close(lacks) \/ Write(lacks) \/ PollResolved(lacks)
        \/ PollPB
        \/ \E answer \in {"address", "none"} : StrToAddrProc(answer)
        \/ \E pb \in ops : EndOpen(pb) \/ EndClose(pb) \/ EndReceive(pb)
        \/ PeerSends \/ PeerCloses \/ Abort

\* The event loop polls for ever; MacTCP ends its opens and closes, also by timing
\* out, and the resolver calls back.
Poll == PollPB \/ \E lacks \in Lacks : PollResolved(lacks)
Fairness ==
  /\ WF_vars(Poll)
  /\ WF_vars(\E answer \in {"address", "none"} : StrToAddrProc(answer))
  /\ WF_vars(\E pb \in ops : EndOpen(pb) \/ EndClose(pb))

Spec == Init /\ [][Next]_vars /\ Fairness

-----------------------------------------------------------------------------
(* Properties *)

TypeOK ==
  /\ tcp.resolveState \in {"notResolved", "resolveInProgress", "resolveCompleted",
                           "resolveFinished"}
  /\ tcp.issued \in 0..MaxIssued + 1
  /\ conn.state \in {"created", "absent", "opening", "open", "aborted", "released"}

\* The receives bring what the peer sent, in order and once each, between on_open and
\* on_close, which the consumer is told of at most once each; a stream that closes
\* without an error before it has delivered everything.  The bytes that are read are
\* those of the piece, unless MacTCP put it, or one that arrived before it was read,
\* at the start of the one buffer.  A receive that failed may have the consumer read
\* what the buffer holds once more, after all data and before on_close.
DataInOrder ==
  /\ \A d \in Told("data") : calls[d].piece = Cardinality({e \in Told("data") : e <= d})
  /\ \A d \in Told("data") : \/ calls[d].bytes = calls[d].piece
                             \/ \E m \in conn.low : calls[d].piece <= m /\ m <= calls[d].sent
  /\ (\E c \in Told("close") : \A e \in Told("error") : c < e)
       => Cardinality(Told("data")) = conn.sent
  /\ Cardinality(Told("open")) <= 1 /\ Cardinality(Told("close")) <= Cardinality(Told("open"))
  /\ \A d \in Told("data") \cup Told("residue") \cup Told("close") : \E o \in Told("open") : o < d
  /\ \A d \in Told("data") \cup Told("residue"), c \in Told("close") : d < c
  /\ Cardinality(Told("residue")) <= 1
  /\ \A d \in Told("data"), r \in Told("residue") : d < r

\* The resolver stores its answer, also a late one, in memory that is still
\* allocated; the consumer is told of each resolution that fails, and unless one did
\* the driver is not asked to connect before the name has an address.
AnswerHasPlace ==
  /\ tcp.resolveState = "resolveCompleted" => tcp.hostInfo \in {"address", "none"}
  /\ tcp.resolveState = "resolveFinished" /\ tcp.addr = "zero" => Told("error") # {}
  /\ \A pb \in ops : pb.code = "TCPActiveOpen" /\ pb.addr = "zero" => Told("error") # {}

\* A parameter block belongs to the driver, to the queue of completed ones, or to a
\* receive that ended with an error: of those there is one at most.  The stream has
\* one receive buffer, and at most one receive is with the driver or waits to be
\* polled, however often the stream is opened.  What the resolver was given is there
\* for its answer.
Receives == {pb \in ops : pb.code = "TCPRcv"}
Lost == heap \ (Ids(completed) \cup {pb.id : pb \in ops})
BlocksOwned ==
  /\ TypeOK /\ AnswerHasPlace
  /\ Ids(completed) \cup {pb.id : pb \in ops} \subseteq heap
  /\ Cardinality(Lost) <= 1
  /\ Lost # {} => Told("close") # {} /\ Told("error") # {} /\ Receives = {}
  /\ Cardinality(Receives) + Cardinality({i \in 1..Len(completed) :
                                            completed[i].code = "TCPRcv"}) <= 1

\* Who waits for the resolver, or for the driver to open or to close, is answered: the
\* waits end, and none of them without on_open, on_end or on_error.  (A resolver that
\* cannot be asked is another matter: Resolve.)
Asks(pb) == pb.code # "TCPRcv"
Waits ==
  Cardinality({pb \in ops : Asks(pb)}) + Len(SelectSeq(completed, Asks))
    + (IF \/ tcp.resolveState = "resolveCompleted"
          \/ tcp.resolveState = "resolveInProgress" /\ tcp.hostInfo = "asked" THEN 1 ELSE 0)
Answers == Cardinality(Told("open") \cup Told("end") \cup Told("error"))
EveryWaitIsAnswered ==
  []<>(Waits = 0) /\ [][Waits' < Waits => Answers' > Answers]_vars
=============================================================================
