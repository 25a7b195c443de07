--------------------------- MODULE TcpStreamProofs ---------------------------
(***************************************************************************)
(* Proofs about TcpStream, for any number of calls, blocks and pieces: the *)
(* parameter blocks of the provider each have one owner, one receive is    *)
(* out at most and the resolver's answer has its place; and the consumer   *)
(* is told of the connection in order, with all that the peer sent.        *)
(*                                                                         *)
(* At most one block at a time carries the connection on: first the        *)
(* open that may still succeed, then the receives that follow each other.  *)
(* It has the connection's slot, and conn.state says of which kind it is;  *)
(* a block that is lost takes the slot with it, so no second one is lost.  *)
(* Since the slot is one, what was sent is always the data told, the piece *)
(* in the slot and the data unread, end to end.                            *)
(***************************************************************************)
EXTENDS TcpStream, FiniteSetTheorems, SequenceTheorems, TLAPS

-----------------------------------------------------------------------------
(* Types.                                                                  *)

Resolving == {"notResolved", "resolveInProgress", "resolveCompleted", "resolveFinished"}
Hosts     == {"unset", "asked", "address", "none", "refused", "freed"}
Codes     == {"TCPActiveOpen", "TCPClose", "TCPRcv"}
Results   == {"noErr", "connectionExists", "connectionTerminated", "connectionClosing",
              "connectionDoesntExist"}

Data  == [provided : BOOLEAN, tcpStream : BOOLEAN, resolveState : Resolving,
          addr : {"zero", "host"}, hostInfo : Hosts, numeric : BOOLEAN,
          resolverOpen : BOOLEAN, issued : Nat]
Op    == [id : Nat, code : Codes, live : BOOLEAN, addr : {"zero", "host"}]
Done  == [id : Nat, code : Codes, result : Results, data : Nat,
          rcvBuffLen : Nat]
Calling == {"open", "close", "end", "error", "data", "residue"}
Call  == [what : Calling, piece : Nat, bytes : Nat, sent : Nat]
Conn  == [state : {"created", "absent", "opening", "open", "aborted", "released"},
          closed : BOOLEAN, fin : BOOLEAN, sent : Nat, unread : Seq(Nat), front : Nat,
          low : SUBSET Nat]
State == [tcp : Data, ops : SUBSET Op, heap : SUBSET Nat, calls : Seq(Call), conn : Conn]

Heard(s, what) == \E i \in 1..Len(s.calls) : s.calls[i].what = what

LEMMA KnownCalls == {"open", "close", "end", "error", "data", "residue"} \subseteq Calling
BY DEF Calling

(* The consumer has heard in t what it had in s.                             *)
Hears(s, t) == \A what : Heard(s, what) => Heard(t, what)

LEMMA TellEffect ==
  ASSUME NEW s \in State, NEW what \in Calling
  PROVE  /\ Tell(s, what) \in State /\ Hears(s, Tell(s, what)) /\ Heard(Tell(s, what), what)
         /\ Tell(s, what).tcp = s.tcp /\ Tell(s, what).ops = s.ops
         /\ Tell(s, what).heap = s.heap /\ Tell(s, what).conn = s.conn
         /\ \E call \in Call : call.what = what /\ Tell(s, what).calls = Append(s.calls, call)
<1> DEFINE call == [what |-> what, piece |-> 0, bytes |-> 0, sent |-> 0]
           t == Tell(s, what)
<1>1. call \in Call /\ s.calls \in Seq(Call)
  BY DEF Call, Calling, State
<1>2. /\ t.calls = Append(s.calls, call) /\ t.tcp = s.tcp /\ t.ops = s.ops
      /\ t.heap = s.heap /\ t.conn = s.conn
      /\ t = [tcp |-> s.tcp, ops |-> s.ops, heap |-> s.heap,
              calls |-> Append(s.calls, call), conn |-> s.conn]
  <2>1. s = [tcp |-> s.tcp, ops |-> s.ops, heap |-> s.heap, calls |-> s.calls, conn |-> s.conn]
    BY DEF State
  <2>2. t = [s EXCEPT !.calls = Append(@, call)]
    BY DEF Tell
  <2> HIDE DEF t, call
  <2> QED
    BY <2>1, <2>2
<1>3. call.what = what
  OBVIOUS
<1> HIDE DEF t, call
<1>4. t \in State
  BY <1>1, <1>2 DEF State
<1>5. /\ Len(t.calls) = Len(s.calls) + 1 /\ Len(s.calls) \in Nat
      /\ \A i \in 1..Len(s.calls) : t.calls[i] = s.calls[i]
      /\ t.calls[Len(s.calls) + 1] = call
  BY <1>1, <1>2
<1>6. Hears(s, t) /\ Heard(t, what)
  BY <1>3, <1>5 DEF Hears, Heard
<1>7. \E x \in Call : x.what = what /\ t.calls = Append(s.calls, x)
  BY <1>1, <1>2, <1>3
<1> QED
  BY <1>2, <1>4, <1>6, <1>7 DEF t

(* The call brings the piece `data', or a residue, and the bytes of the buffer. *)
OnData(s, call, data) ==
  /\ call.what = IF data = 0 THEN "residue" ELSE "data"
  /\ call.piece = data /\ call.bytes = s.conn.front /\ call.sent = s.conn.sent

LEMMA DeliverEffect ==
  ASSUME NEW s \in State, NEW data \in Nat
  PROVE  /\ Deliver(s, data) \in State /\ Hears(s, Deliver(s, data))
         /\ Deliver(s, data).tcp = s.tcp /\ Deliver(s, data).ops = s.ops
         /\ Deliver(s, data).heap = s.heap /\ Deliver(s, data).conn = s.conn
         /\ \E call \in Call : /\ OnData(s, call, data)
                              /\ Deliver(s, data).calls = Append(s.calls, call)
<1> DEFINE call == [what |-> IF data = 0 THEN "residue" ELSE "data", piece |-> data,
                    bytes |-> s.conn.front, sent |-> s.conn.sent]
           t == Deliver(s, data)
<1>1. call \in Call /\ s.calls \in Seq(Call)
  BY DEF Call, Calling, State, Conn
<1>2. /\ t.calls = Append(s.calls, call) /\ t.tcp = s.tcp /\ t.ops = s.ops
      /\ t.heap = s.heap /\ t.conn = s.conn
      /\ t = [tcp |-> s.tcp, ops |-> s.ops, heap |-> s.heap,
              calls |-> Append(s.calls, call), conn |-> s.conn]
      /\ OnData(s, call, data)
  <2>1. s = [tcp |-> s.tcp, ops |-> s.ops, heap |-> s.heap, calls |-> s.calls, conn |-> s.conn]
    BY DEF State
  <2>2. t = [s EXCEPT !.calls = Append(@, call)]
    BY DEF Deliver
  <2>3. OnData(s, call, data)
    BY DEF OnData
  <2> HIDE DEF t, call
  <2> QED
    BY <2>1, <2>2, <2>3
<1> HIDE DEF t, call
<1>3. t \in State
  BY <1>1, <1>2 DEF State
<1>4. /\ Len(t.calls) = Len(s.calls) + 1 /\ Len(s.calls) \in Nat
      /\ \A i \in 1..Len(s.calls) : t.calls[i] = s.calls[i]
  BY <1>1, <1>2
<1>5. Hears(s, t)
  BY <1>4 DEF Hears, Heard
<1> QED
  BY <1>1, <1>2, <1>3, <1>5 DEF t

-----------------------------------------------------------------------------
(* Who has which block.                                                      *)

(* The slot of the connection: the open that makes it, and the receives      *)
(* that follow each other once it is made.                                   *)
Slot(pb)     == pb.code = "TCPRcv" \/ (pb.code = "TCPActiveOpen" /\ pb.live)
SlotDone(pb) == pb.code = "TCPRcv" \/ (pb.code = "TCPActiveOpen" /\ pb.result = "noErr")

NoSlot(s, c) ==
  /\ \A p \in s.ops : ~ Slot(p)
  /\ \A i \in 1..Len(c) : ~ SlotDone(c[i])

Lose(s, c) == {h \in s.heap : /\ \A p \in s.ops : p.id # h
                              /\ \A i \in 1..Len(c) : c[i].id # h}

(* Each block is with the driver or in the queue, once.                      *)
Unique(s, c) ==
  /\ s.heap \subseteq 1..s.tcp.issued
  /\ \A p \in s.ops : p.id \in s.heap
  /\ \A i \in 1..Len(c) : c[i].id \in s.heap
  /\ \A p, q \in s.ops : p.id = q.id => p = q
  /\ \A i, j \in 1..Len(c) : c[i].id = c[j].id => i = j
  /\ \A p \in s.ops : \A i \in 1..Len(c) : p.id # c[i].id

(* One slot, of which the state of the connection tells the kind.            *)
OneSlot(s, c) ==
  /\ \A p, q \in s.ops : Slot(p) /\ Slot(q) => p = q
  /\ \A i, j \in 1..Len(c) : SlotDone(c[i]) /\ SlotDone(c[j]) => i = j
  /\ \A p \in s.ops : \A i \in 1..Len(c) : ~ (Slot(p) /\ SlotDone(c[i]))
  /\ \A p \in s.ops : Slot(p) =>
       s.conn.state \in (IF p.code = "TCPRcv" THEN {"open", "aborted"} ELSE {"opening"})
  /\ \A i \in 1..Len(c) : SlotDone(c[i]) => s.conn.state \in {"open", "aborted"}
  /\ \A i \in 1..Len(c) : c[i].code = "TCPRcv" =>
       c[i].result \in {"noErr", "connectionClosing", "connectionTerminated"}

(* A block is lost with the slot, which is never had again.                  *)
OneLost(s, c) ==
  /\ \A a, b \in Lose(s, c) : a = b
  /\ Lose(s, c) # {} => /\ Heard(s, "close") /\ Heard(s, "error") /\ NoSlot(s, c)
                        /\ s.conn.state \in {"open", "aborted", "released"}

Owner(s, c) == s \in State /\ c \in Seq(Done) /\ Unique(s, c) /\ OneSlot(s, c) /\ OneLost(s, c)

(* Nothing happened to the blocks.                                           *)
LEMMA OwnerKept ==
  ASSUME NEW s, NEW c, Owner(s, c), NEW t \in State, t.ops = s.ops, t.heap = s.heap,
         t.conn.state = s.conn.state, t.tcp.issued = s.tcp.issued, Hears(s, t)
  PROVE  Owner(t, c)
<1>1. Unique(t, c) /\ OneSlot(t, c)
  BY DEF Owner, Unique, OneSlot
<1>2. OneLost(t, c)
  BY DEF Owner, OneLost, Lose, NoSlot, Hears
<1> QED
  BY <1>1, <1>2 DEF Owner

(* A command is given to the driver.                                         *)
LEMMA OwnerIssues ==
  ASSUME NEW s, NEW c, Owner(s, c), NEW t \in State, NEW pb \in Op,
         pb.id = s.tcp.issued + 1, pb.code # "TCPRcv",
         t.ops = s.ops \cup {pb}, t.heap = s.heap \cup {pb.id},
         t.tcp.issued = s.tcp.issued + 1, Hears(s, t),
         IF Slot(pb) THEN s.conn.state = "created" /\ t.conn.state = "opening"
         ELSE t.conn.state = s.conn.state
  PROVE  Owner(t, c)
<1>1. s \in State /\ s.tcp.issued \in Nat /\ c \in Seq(Done) /\ Len(c) \in Nat
  BY DEF Owner, State, Data
<1>2. Unique(s, c) /\ OneSlot(s, c) /\ OneLost(s, c)
  BY DEF Owner
<1>3. pb.id \notin s.heap
  BY <1>1, <1>2 DEF Unique
<1>4. Unique(t, c)
  <2>1. t.heap \subseteq 1..t.tcp.issued
    <3>1. s.heap \subseteq 1..s.tcp.issued
      BY <1>2 DEF Unique
    <3> QED
      BY <1>1, <3>1
  <2>2. \A p \in s.ops : p.id # pb.id
    BY <1>2, <1>3 DEF Unique
  <2>3. \A i \in 1..Len(c) : c[i].id # pb.id
    BY <1>2, <1>3 DEF Unique
  <2> QED
    BY <1>2, <2>1, <2>2, <2>3 DEF Unique
<1>5. Slot(pb) => NoSlot(s, c)
  BY <1>2 DEF OneSlot, NoSlot
<1>6. OneSlot(t, c)
  BY <1>2, <1>5 DEF OneSlot, NoSlot, Slot
<1>7. Lose(t, c) = Lose(s, c)
  <2>1. \A h \in s.heap : h # pb.id
    BY <1>3
  <2> QED
    BY <2>1 DEF Lose
<1>8. OneLost(t, c)
  BY <1>2, <1>7 DEF OneLost, NoSlot, Hears
<1> QED
  BY <1>1, <1>4, <1>6, <1>8 DEF Owner

-----------------------------------------------------------------------------
(* The first of the completed blocks is taken out of the queue.              *)

LEMMA TailFacts ==
  ASSUME NEW c \in Seq(Done), c # <<>>
  PROVE  /\ Tail(c) \in Seq(Done) /\ Head(c) = c[1] /\ 1 \in 1..Len(c)
         /\ \A i \in 1..Len(Tail(c)) : i + 1 \in 1..Len(c) /\ Tail(c)[i] = c[i + 1] /\ i + 1 # 1
         /\ \A j \in 1..Len(c) : j # 1 => j - 1 \in 1..Len(Tail(c)) /\ c[j] = Tail(c)[j - 1]
         /\ Head(c) \in Done
<1>1. Len(c) \in Nat /\ Len(c) # 0 /\ Len(Tail(c)) = Len(c) - 1 /\ Tail(c) \in Seq(Done)
  OBVIOUS
<1>2. \A i \in 1..Len(Tail(c)) : Tail(c)[i] = c[i + 1]
  OBVIOUS
<1> QED
  BY <1>1, <1>2

(* Its block is freed.                                                       *)
LEMMA OwnerFrees ==
  ASSUME NEW s, NEW c, Owner(s, c), c # <<>>, NEW t \in State, t.ops = s.ops,
         t.heap = s.heap \ {Head(c).id}, t.tcp.issued = s.tcp.issued, Hears(s, t),
         t.conn.state = s.conn.state \/ (SlotDone(Head(c)) /\ t.conn.state = "released")
  PROVE  Owner(t, Tail(c))
<1> DEFINE r == Tail(c)
           pb == Head(c)
<1>1. /\ r \in Seq(Done) /\ pb = c[1] /\ 1 \in 1..Len(c)
      /\ \A i \in 1..Len(r) : i + 1 \in 1..Len(c) /\ r[i] = c[i + 1] /\ i + 1 # 1
      /\ \A j \in 1..Len(c) : j # 1 => j - 1 \in 1..Len(r) /\ c[j] = r[j - 1]
  BY TailFacts DEF Owner
<1>2. Unique(s, c) /\ OneSlot(s, c) /\ OneLost(s, c) /\ Len(r) \in Nat
  BY <1>1 DEF Owner
<1> HIDE DEF r, pb
<1>3. Unique(t, r)
  <2>1. \A p \in t.ops : p.id \in t.heap
    BY <1>1, <1>2 DEF Unique, pb
  <2>2. \A i \in 1..Len(r) : r[i].id \in t.heap
    BY <1>1, <1>2, ZenonT(60) DEF Unique, pb
  <2>3. \A i, j \in 1..Len(r) : r[i].id = r[j].id => i = j
    <3>1. SUFFICES ASSUME NEW i \in 1..Len(r), NEW j \in 1..Len(r), r[i].id = r[j].id
                   PROVE  i = j
      OBVIOUS
    <3>2. /\ i + 1 \in 1..Len(c) /\ j + 1 \in 1..Len(c)
          /\ c[i + 1].id = c[j + 1].id
      BY <1>1, <3>1
    <3>3. i + 1 = j + 1
      BY <1>2, <3>2 DEF Unique
    <3> QED
      BY <3>3
  <2>4. \A p \in t.ops : \A i \in 1..Len(r) : p.id # r[i].id
    BY <1>1, <1>2 DEF Unique
  <2>5. /\ \A p, q \in t.ops : p.id = q.id => p = q
        /\ t.heap \subseteq 1..t.tcp.issued
    BY <1>2 DEF Unique
  <2> QED
    BY <2>1, <2>2, <2>3, <2>4, <2>5 DEF Unique
<1>4. SlotDone(pb) => NoSlot(t, r)
  BY <1>1, <1>2 DEF OneSlot, NoSlot
<1>5. OneSlot(t, r)
  <2>1. \A i, j \in 1..Len(r) : SlotDone(r[i]) /\ SlotDone(r[j]) => i = j
    <3>1. SUFFICES ASSUME NEW i \in 1..Len(r), NEW j \in 1..Len(r),
                          SlotDone(r[i]), SlotDone(r[j])
                   PROVE  i = j
      OBVIOUS
    <3>2. i + 1 = j + 1
      BY <1>1, <1>2, <3>1 DEF OneSlot
    <3> QED
      BY <3>2
  <2>2. \A p, q \in t.ops : Slot(p) /\ Slot(q) => p = q
    BY <1>2 DEF OneSlot
  <2>3. \A p \in t.ops : \A i \in 1..Len(r) : ~ (Slot(p) /\ SlotDone(r[i]))
    BY <1>1, <1>2 DEF OneSlot
  <2>4. \A p \in t.ops : Slot(p) =>
          t.conn.state \in (IF p.code = "TCPRcv" THEN {"open", "aborted"} ELSE {"opening"})
    BY <1>2, <1>4 DEF OneSlot, NoSlot, pb
  <2>5. \A i \in 1..Len(r) : SlotDone(r[i]) => t.conn.state \in {"open", "aborted"}
    BY <1>1, <1>2, <1>4 DEF OneSlot, NoSlot, pb
  <2>6. \A i \in 1..Len(r) : r[i].code = "TCPRcv" =>
          r[i].result \in {"noErr", "connectionClosing", "connectionTerminated"}
    BY <1>1, <1>2 DEF OneSlot
  <2> QED
    BY <2>1, <2>2, <2>3, <2>4, <2>5, <2>6 DEF OneSlot
<1>6. Lose(t, r) \subseteq Lose(s, c)
  <2>1. \A h \in t.heap : h \in s.heap /\ h # c[1].id
    BY <1>1 DEF pb
  <2> QED
    BY <1>1, <2>1, ZenonT(60) DEF Lose
<1>7. OneLost(t, r)
  <2>1. ASSUME Lose(s, c) # {} PROVE NoSlot(t, r) /\ t.conn.state = s.conn.state
    BY <1>1, <1>2, <2>1 DEF OneLost, NoSlot, pb
  <2> QED
    BY <1>2, <1>6, <2>1 DEF OneLost, Hears
<1> QED
  BY <1>1, <1>3, <1>5, <1>7 DEF Owner, r

(* It is used again, for a receive.                                          *)
LEMMA OwnerReceives ==
  ASSUME NEW s, NEW c, Owner(s, c), c # <<>>, SlotDone(Head(c)),
         NEW t \in State, NEW pb \in Op, pb.id = Head(c).id, pb.code = "TCPRcv",
         t.ops = s.ops \cup {pb}, t.heap = s.heap, t.tcp.issued = s.tcp.issued,
         t.conn.state = s.conn.state, Hears(s, t)
  PROVE  Owner(t, Tail(c))
<1> DEFINE r == Tail(c)
<1>1. /\ r \in Seq(Done) /\ pb.id = c[1].id /\ 1 \in 1..Len(c) /\ SlotDone(c[1])
      /\ \A i \in 1..Len(r) : i + 1 \in 1..Len(c) /\ r[i] = c[i + 1] /\ i + 1 # 1
      /\ \A j \in 1..Len(c) : j # 1 => j - 1 \in 1..Len(r) /\ c[j] = r[j - 1]
  BY TailFacts DEF Owner
<1>2. Unique(s, c) /\ OneSlot(s, c) /\ OneLost(s, c) /\ Len(r) \in Nat
  BY <1>1 DEF Owner
<1> HIDE DEF r
<1>3. Unique(t, r)
  <2>1. pb.id \in s.heap /\ \A p \in s.ops : p.id # pb.id
    BY <1>1, <1>2 DEF Unique
  <2>2. \A i \in 1..Len(r) : r[i].id \in t.heap /\ r[i].id # pb.id
    BY <1>1, <1>2 DEF Unique
  <2>3. \A i, j \in 1..Len(r) : r[i].id = r[j].id => i = j
    <3>1. SUFFICES ASSUME NEW i \in 1..Len(r), NEW j \in 1..Len(r), r[i].id = r[j].id
                   PROVE  i = j
      OBVIOUS
    <3>2. /\ i + 1 \in 1..Len(c) /\ j + 1 \in 1..Len(c)
          /\ c[i + 1].id = c[j + 1].id
      BY <1>1, <3>1
    <3>3. i + 1 = j + 1
      BY <1>2, <3>2 DEF Unique
    <3> QED
      BY <3>3
  <2>4. \A p \in s.ops : \A i \in 1..Len(r) : p.id # r[i].id
    BY <1>1, <1>2, SMTT(30) DEF Unique
  <2>5. /\ t.heap \subseteq 1..t.tcp.issued
        /\ \A p \in t.ops : p.id \in t.heap
        /\ \A p, q \in t.ops : p.id = q.id => p = q
        /\ \A p \in t.ops : \A i \in 1..Len(r) : p.id # r[i].id
    BY <1>2, <2>1, <2>2, <2>4 DEF Unique
  <2> QED
    BY <2>2, <2>3, <2>5 DEF Unique
<1>4. NoSlot(s, r) /\ s.conn.state \in {"open", "aborted"}
  BY <1>1, <1>2 DEF OneSlot, NoSlot
<1>5. OneSlot(t, r)
  <2>1. \A i \in 1..Len(r) : r[i].code = "TCPRcv" =>
          r[i].result \in {"noErr", "connectionClosing", "connectionTerminated"}
    BY <1>1, <1>2 DEF OneSlot
  <2> QED
    BY <1>4, <2>1 DEF OneSlot, NoSlot
<1>6. Lose(t, r) \subseteq Lose(s, c)
  <2>1. SUFFICES ASSUME NEW h \in s.heap, h # c[1].id, \A p \in s.ops : p.id # h,
                        \A i \in 1..Len(r) : r[i].id # h
                 PROVE  \A j \in 1..Len(c) : c[j].id # h
    BY <1>1 DEF Lose
  <2> QED
    BY <1>1, <2>1
<1>7. Lose(s, c) = {}
  BY <1>1, <1>2 DEF OneLost, NoSlot
<1>8. OneLost(t, r)
  BY <1>6, <1>7 DEF OneLost
<1> QED
  BY <1>1, <1>3, <1>5, <1>8 DEF Owner, r

(* It is neither freed nor used again.                                       *)
LEMMA OwnerLoses ==
  ASSUME NEW s, NEW c, Owner(s, c), c # <<>>, Head(c).code = "TCPRcv",
         NEW t \in State, t.ops = s.ops, t.heap = s.heap, t.tcp.issued = s.tcp.issued,
         t.conn.state \in {s.conn.state, "released"}, Hears(s, t),
         Heard(t, "close"), Heard(t, "error")
  PROVE  Owner(t, Tail(c))
<1> DEFINE r == Tail(c)
<1>1. /\ r \in Seq(Done) /\ 1 \in 1..Len(c) /\ c[1].code = "TCPRcv"
      /\ \A i \in 1..Len(r) : i + 1 \in 1..Len(c) /\ r[i] = c[i + 1] /\ i + 1 # 1
      /\ \A j \in 1..Len(c) : j # 1 => j - 1 \in 1..Len(r) /\ c[j] = r[j - 1]
  BY TailFacts DEF Owner
<1>2. Unique(s, c) /\ OneSlot(s, c) /\ OneLost(s, c) /\ Len(r) \in Nat /\ SlotDone(c[1])
  BY <1>1 DEF Owner, SlotDone
<1> HIDE DEF r
<1>3. Unique(t, r)
  <2>1. \A i, j \in 1..Len(r) : r[i].id = r[j].id => i = j
    <3>1. SUFFICES ASSUME NEW i \in 1..Len(r), NEW j \in 1..Len(r), r[i].id = r[j].id
                   PROVE  i = j
      OBVIOUS
    <3>2. /\ i + 1 \in 1..Len(c) /\ j + 1 \in 1..Len(c)
          /\ c[i + 1].id = c[j + 1].id
      BY <1>1, <3>1
    <3>3. i + 1 = j + 1
      BY <1>2, <3>2 DEF Unique
    <3> QED
      BY <3>3
  <2>2. ASSUME NEW p \in s.ops, NEW i \in 1..Len(r) PROVE p.id # r[i].id
    <3>1. i + 1 \in 1..Len(c) /\ r[i] = c[i + 1]
      BY <1>1
    <3> QED
      BY <1>2, <3>1 DEF Unique
  <2>3. \A i \in 1..Len(r) : r[i].id \in t.heap
    BY <1>1, <1>2 DEF Unique
  <2>4. /\ t.heap \subseteq 1..t.tcp.issued
        /\ \A p \in t.ops : p.id \in t.heap
        /\ \A p, q \in t.ops : p.id = q.id => p = q
    BY <1>2 DEF Unique
  <2> QED
    BY <2>1, <2>2, <2>3, <2>4 DEF Unique
<1>4. NoSlot(t, r) /\ t.conn.state \in {"open", "aborted", "released"}
  BY <1>1, <1>2 DEF OneSlot, NoSlot
<1>5. OneSlot(t, r)
  <2>1. \A i \in 1..Len(r) : r[i].code = "TCPRcv" =>
          r[i].result \in {"noErr", "connectionClosing", "connectionTerminated"}
    BY <1>1, <1>2 DEF OneSlot
  <2> QED
    BY <1>4, <2>1 DEF OneSlot, NoSlot
<1>6. Lose(t, r) \subseteq {c[1].id}
  <2>1. Lose(s, c) = {}
    BY <1>1, <1>2 DEF OneLost, NoSlot
  <2>2. SUFFICES ASSUME NEW h \in s.heap, h # c[1].id, \A p \in s.ops : p.id # h,
                        \A i \in 1..Len(r) : r[i].id # h
                 PROVE  \A j \in 1..Len(c) : c[j].id # h
    BY <2>1 DEF Lose
  <2> QED
    BY <1>1, <2>2
<1>7. OneLost(t, r)
  BY <1>4, <1>6 DEF OneLost
<1> QED
  BY <1>1, <1>3, <1>5, <1>7 DEF Owner, r

-----------------------------------------------------------------------------
(* The driver ends a command, and the connection changes.                    *)

LEMMA OwnerCompletes ==
  ASSUME NEW s, NEW c, Owner(s, c), NEW pb \in s.ops, NEW d \in Done,
         d.id = pb.id, d.code = pb.code,
         d.code = "TCPRcv" =>
           d.result \in {"noErr", "connectionClosing", "connectionTerminated"},
         NEW t \in State, t.ops = s.ops \ {pb}, t.heap = s.heap,
         t.tcp.issued = s.tcp.issued, Hears(s, t),
         \/ Slot(pb) /\ SlotDone(d) /\ t.conn.state \in {"open", "aborted"}
         \/ Slot(pb) /\ ~ SlotDone(d) /\ t.conn.state = "created"
         \/ ~ Slot(pb) /\ ~ SlotDone(d) /\ t.conn.state = s.conn.state
  PROVE  Owner(t, Append(c, d))
<1> DEFINE r == Append(c, d)
<1>1. /\ r \in Seq(Done) /\ Len(c) \in Nat /\ Len(r) = Len(c) + 1 /\ r[Len(c) + 1] = d
      /\ \A i \in 1..Len(c) : r[i] = c[i]
  BY DEF Owner
<1>2. Unique(s, c) /\ OneSlot(s, c) /\ OneLost(s, c)
  BY DEF Owner
<1> HIDE DEF r
<1>3. \A i \in 1..Len(r) : (i \in 1..Len(c) /\ r[i] = c[i]) \/ (i = Len(c) + 1 /\ r[i] = d)
  BY <1>1
<1>4. /\ \A p \in t.ops : p \in s.ops /\ p # pb
      /\ \A p \in s.ops : p \in t.ops \/ p = pb
  OBVIOUS
<1>5. Unique(t, r)
  <2>1. \A i, j \in 1..Len(r) : r[i].id = r[j].id => i = j
    BY <1>2, <1>3, SMTT(30) DEF Unique
  <2>2. \A p \in t.ops : \A i \in 1..Len(r) : p.id # r[i].id
    BY <1>2, <1>3, <1>4 DEF Unique
  <2>3. \A i \in 1..Len(r) : r[i].id \in t.heap
    BY <1>2, <1>3 DEF Unique
  <2>4. /\ t.heap \subseteq 1..t.tcp.issued
        /\ \A p \in t.ops : p.id \in t.heap
        /\ \A p, q \in t.ops : p.id = q.id => p = q
    BY <1>2, <1>4 DEF Unique
  <2> QED
    BY <2>1, <2>2, <2>3, <2>4 DEF Unique
<1>6. Slot(pb) => NoSlot(t, c)
  BY <1>2, <1>4 DEF OneSlot, NoSlot
<1>7. OneSlot(t, r)
  <2>1. \A i \in 1..Len(r) : r[i].code = "TCPRcv" =>
          r[i].result \in {"noErr", "connectionClosing", "connectionTerminated"}
    BY <1>2, <1>3 DEF OneSlot
  <2>2. CASE Slot(pb)
    BY <1>3, <1>6, <2>1, <2>2 DEF OneSlot, NoSlot
  <2>3. CASE ~ Slot(pb)
    BY <1>2, <1>3, <1>4, <2>1, <2>3 DEF OneSlot
  <2> QED
    BY <2>2, <2>3
<1>8. Lose(t, r) \subseteq Lose(s, c)
  <2>1. SUFFICES ASSUME NEW h \in s.heap, \A p \in t.ops : p.id # h,
                        \A i \in 1..Len(r) : r[i].id # h
                 PROVE  /\ \A p \in s.ops : p.id # h
                        /\ \A i \in 1..Len(c) : c[i].id # h
    BY DEF Lose
  <2>2. pb.id # h
    BY <1>1, <2>1
  <2> QED
    BY <1>1, <1>4, <2>1, <2>2
<1>9. OneLost(t, r)
  <2>1. ASSUME Lose(s, c) # {} PROVE NoSlot(t, r) /\ t.conn.state = s.conn.state
    <3>1. NoSlot(s, c)
      BY <1>2, <2>1 DEF OneLost
    <3> QED
      BY <1>3, <1>4, <3>1 DEF NoSlot
  <2> QED
    BY <1>2, <1>8, <2>1 DEF OneLost, Hears
<1> QED
  BY <1>1, <1>5, <1>7, <1>9 DEF Owner, r

(* The connection is aborted, or the stream provided, with no blocks.        *)
LEMMA OwnerConnects ==
  ASSUME NEW s, NEW c, Owner(s, c), NEW t \in State, t.ops = s.ops, t.heap = s.heap,
         t.tcp.issued = s.tcp.issued, Hears(s, t),
         \/ s.conn.state = "open" /\ t.conn.state = "aborted"
         \/ s.heap = {}
  PROVE  Owner(t, c)
<1>1. Unique(s, c) /\ OneSlot(s, c) /\ OneLost(s, c)
  BY DEF Owner
<1>2. Unique(t, c)
  BY <1>1 DEF Unique
<1>3. CASE s.heap = {}
  <2>1. s.ops = {} /\ 1..Len(c) = {} /\ Lose(t, c) = {}
    BY <1>1, <1>3 DEF Unique, Lose
  <2> QED
    BY <1>2, <2>1 DEF Owner, OneSlot, OneLost
<1>4. CASE s.conn.state = "open" /\ t.conn.state = "aborted"
  <2>1. OneSlot(t, c)
    BY <1>1, <1>4 DEF OneSlot
  <2>2. OneLost(t, c)
    BY <1>1, <1>4 DEF OneLost, Lose, NoSlot, Hears
  <2> QED
    BY <1>2, <2>1, <2>2 DEF Owner
<1> QED
  BY <1>3, <1>4

-----------------------------------------------------------------------------
(* What the consumer is told.  The data it was given, the piece of a receive *)
(* that waits to be polled and what the driver has not handed out yet are    *)
(* together what the peer sent, in order.                                    *)

At(told, what) == {i \in 1..Len(told) : told[i].what = what}

Script(told) ==
  /\ \A a, b \in At(told, "open") : a = b
  /\ \A a, b \in At(told, "close") : a = b
  /\ \A a, b \in At(told, "residue") : a = b
  /\ \A d \in At(told, "data") \cup At(told, "residue") \cup At(told, "close") :
       \E o \in At(told, "open") : o < d
  /\ \A d \in At(told, "data") \cup At(told, "residue"), e \in At(told, "close") : d < e
  /\ \A d \in At(told, "data"), e \in At(told, "residue") : d < e
  /\ \A d \in At(told, "data") :
       told[d].piece = Cardinality({e \in At(told, "data") : e <= d})

(* The stream was closed and no error came before.                           *)
Clean(told) == \E e \in At(told, "close") : \A x \in At(told, "error") : e < x

(* The consumer was told of the connection and may be given data.            *)
Live(s) == Heard(s, "open") /\ ~ Heard(s, "close") /\ ~ Heard(s, "residue")

(* The bytes are those of the piece, or an arrival at the start of the       *)
(* buffer excuses them.                                                      *)
Right(bytes, piece, low, sent) == bytes = piece \/ \E m \in low : piece <= m /\ m <= sent

Handed(s) == \A d \in At(s.calls, "data") :
  Right(s.calls[d].bytes, s.calls[d].piece, s.conn.low, s.calls[d].sent)

Given(s)       == Cardinality(At(s.calls, "data"))
Reads(c)       == {i \in 1..Len(c) : c[i].code = "TCPRcv"}
Taken(c)       == IF \E i \in Reads(c) : c[i].result = "noErr" THEN 1 ELSE 0
Reading(s)     == \E p \in s.ops : p.code = "TCPRcv"
Connected(d)   == d.code = "TCPActiveOpen" /\ d.result = "noErr"
Drained(conn_) == conn_.fin /\ conn_.unread = <<>>
Pipe(conn_, m) ==
  /\ Len(conn_.unread) = conn_.sent - m
  /\ \A k \in 1..Len(conn_.unread) : conn_.unread[k] = m + k

(* What a receive that has ended brings.                                     *)
Brings(s, d) ==
  IF d.result = "noErr"
  THEN /\ d.data = Given(s) + 1 /\ d.rcvBuffLen > 0
       /\ Right(s.conn.front, d.data, s.conn.low, s.conn.sent)
  ELSE d.data = 0 /\ (d.result = "connectionClosing" => Drained(s.conn))

Flow(s, c) ==
  /\ Heard(s, "open") => /\ s.conn.state \in {"open", "aborted", "released"}
                         /\ \A i \in 1..Len(c) : ~ Connected(c[i])
  /\ Reads(c) # {} \/ Reading(s) => Live(s)
  /\ \A i \in Reads(c) : Brings(s, c[i])
  /\ Handed(s)
  /\ Pipe(s.conn, Given(s) + Taken(c))
  /\ Clean(s.calls) => Drained(s.conn)
  /\ ~ s.tcp.provided => s.calls = <<>>

Story(s, c) == Script(s.calls) /\ Flow(s, c)

LEMMA AtFinite ==
  ASSUME NEW told \in Seq(Call), NEW what
  PROVE  IsFiniteSet(At(told, what)) /\ Cardinality(At(told, what)) \in Nat
<1>1. IsFiniteSet(1..Len(told)) /\ At(told, what) \subseteq 1..Len(told)
  BY FS_Interval DEF At
<1> QED
  BY <1>1, FS_Subset, FS_CardinalityType

LEMMA AtAppend ==
  ASSUME NEW told \in Seq(Call), NEW call \in Call
  PROVE  /\ Len(told) \in Nat /\ Len(Append(told, call)) = Len(told) + 1
         /\ Append(told, call)[Len(told) + 1] = call
         /\ \A i \in 1..Len(told) : Append(told, call)[i] = told[i]
         /\ \A what : At(Append(told, call), what) =
              At(told, what) \cup (IF call.what = what THEN {Len(told) + 1} ELSE {})
         /\ \A what : \A i \in At(told, what) : i \in Nat /\ 1 <= i /\ i <= Len(told)
<1>1. /\ Len(told) \in Nat /\ Len(Append(told, call)) = Len(told) + 1
      /\ Append(told, call)[Len(told) + 1] = call
      /\ \A i \in 1..Len(told) : Append(told, call)[i] = told[i]
  OBVIOUS
<1>2. 1..(Len(told) + 1) = (1..Len(told)) \cup {Len(told) + 1}
  BY <1>1
<1> HIDE DEF Call
<1>3. ASSUME NEW what
      PROVE  At(Append(told, call), what) =
               At(told, what) \cup (IF call.what = what THEN {Len(told) + 1} ELSE {})
  BY <1>1, <1>2 DEF At
<1>4. ASSUME NEW what, NEW i \in At(told, what)
      PROVE  i \in Nat /\ 1 <= i /\ i <= Len(told)
  BY <1>1, <1>4 DEF At
<1> QED
  BY <1>1, <1>3, <1>4

LEMMA HeardAt ==
  ASSUME NEW s, NEW what
  PROVE  Heard(s, what) <=> At(s.calls, what) # {}
BY DEF Heard, At

(* A call of the consumer keeps the order of the calls.                      *)
LEMMA ScriptAppend ==
  ASSUME NEW told \in Seq(Call), NEW call \in Call, Script(told),
         call.what = "open" => At(told, "open") = {},
         call.what \in {"data", "residue", "close"} =>
           At(told, "open") # {} /\ At(told, "close") = {},
         call.what \in {"data", "residue"} => At(told, "residue") = {},
         call.what = "data" => call.piece = Cardinality(At(told, "data")) + 1
  PROVE  Script(Append(told, call))
<1> DEFINE next == Append(told, call)
           last == Len(told) + 1
<1>1. /\ last \in Nat /\ next[last] = call
      /\ \A i \in 1..Len(told) : next[i] = told[i]
      /\ \A what : At(next, what) = At(told, what) \cup (IF call.what = what THEN {last} ELSE {})
      /\ \A what : \A i \in At(told, what) : i \in Nat /\ i < last /\ i \in 1..Len(told)
  BY AtAppend DEF At
<1> HIDE DEF next, last
<1>2. /\ \A a, b \in At(next, "open") : a = b
      /\ \A a, b \in At(next, "close") : a = b
      /\ \A a, b \in At(next, "residue") : a = b
  BY <1>1 DEF Script
<1>3. \A d \in At(next, "data") \cup At(next, "residue") \cup At(next, "close") :
        \E o \in At(next, "open") : o < d
  <2>1. \A d \in At(told, "data") \cup At(told, "residue") \cup At(told, "close") :
          \E o \in At(next, "open") : o < d
    BY <1>1 DEF Script
  <2>2. call.what \in {"data", "residue", "close"} => \E o \in At(next, "open") : o < last
    BY <1>1
  <2>3. \A d \in At(next, "data") \cup At(next, "residue") \cup At(next, "close") :
          \/ d \in At(told, "data") \cup At(told, "residue") \cup At(told, "close")
          \/ d = last /\ call.what \in {"data", "residue", "close"}
    BY <1>1
  <2> QED
    BY <2>1, <2>2, <2>3
<1>4. /\ \A d \in At(next, "data") \cup At(next, "residue"), e \in At(next, "close") : d < e
      /\ \A d \in At(next, "data"), e \in At(next, "residue") : d < e
  <2>1. /\ \A d \in At(told, "data") \cup At(told, "residue"), e \in At(told, "close") : d < e
        /\ \A d \in At(told, "data"), e \in At(told, "residue") : d < e
    BY DEF Script
  <2> QED
    BY <1>1, <2>1
<1>5. ASSUME NEW d \in At(next, "data")
      PROVE  next[d].piece = Cardinality({e \in At(next, "data") : e <= d})
  <2>1. CASE d \in At(told, "data")
    <3>1. {e \in At(next, "data") : e <= d} = {e \in At(told, "data") : e <= d}
      BY <1>1, <2>1
    <3> QED
      BY <1>1, <2>1, <3>1 DEF Script
  <2>2. CASE call.what = "data" /\ d = last
    <3>1. {e \in At(next, "data") : e <= d} = At(told, "data") \cup {last}
      <4>1. At(next, "data") = At(told, "data") \cup {last}
        BY <1>1, <2>2
      <4>2. \A e \in At(told, "data") \cup {last} : e <= d
        BY <1>1, <2>2
      <4> QED
        BY <4>1, <4>2
    <3>2. last \notin At(told, "data")
      BY <1>1
    <3>3. Cardinality(At(told, "data") \cup {last}) = Cardinality(At(told, "data")) + 1
      BY <3>2, AtFinite, FS_AddElement
    <3> QED
      BY <1>1, <2>2, <3>1, <3>3
  <2> QED
    BY <1>1, <1>5, <2>1, <2>2
<1>6. Script(next)
  BY <1>2, <1>3, <1>4, <1>5 DEF Script
<1> QED
  BY <1>6 DEF next

(* A call that says nothing of the data, and what was heard after a call.    *)
Quiet(s, t) ==
  \/ t.calls = s.calls
  \/ \E call \in Call : call.what \in {"end", "error"} /\ t.calls = Append(s.calls, call)

LEMMA HeardAppend ==
  ASSUME NEW s, NEW t, s.calls \in Seq(Call), NEW call \in Call,
         t.calls = Append(s.calls, call)
  PROVE  /\ \A what : Heard(t, what) <=> Heard(s, what) \/ call.what = what
         /\ Given(t) = Given(s) + (IF call.what = "data" THEN 1 ELSE 0)
         /\ Given(s) \in Nat
<1>1. \A what : At(t.calls, what) =
        At(s.calls, what) \cup (IF call.what = what THEN {Len(s.calls) + 1} ELSE {})
  BY AtAppend
<1>2. \A what : Heard(t, what) <=> Heard(s, what) \/ call.what = what
  BY <1>1, HeardAt
<1>3. /\ IsFiniteSet(At(s.calls, "data")) /\ Cardinality(At(s.calls, "data")) \in Nat
      /\ Len(s.calls) + 1 \notin At(s.calls, "data")
  <2>1. Len(s.calls) \in Nat
    OBVIOUS
  <2>2. Len(s.calls) + 1 \notin At(s.calls, "data")
    BY <2>1 DEF At
  <2> QED
    BY <2>2, AtFinite
<1>4. Cardinality(At(s.calls, "data") \cup {Len(s.calls) + 1}) =
        Cardinality(At(s.calls, "data")) + 1
  BY <1>3, FS_AddElement
<1>5. CASE call.what = "data"
  BY <1>1, <1>2, <1>3, <1>4, <1>5 DEF Given
<1>6. CASE call.what # "data"
  <2>1. At(t.calls, "data") = At(s.calls, "data")
    BY <1>1, <1>6
  <2> QED
    BY <1>2, <1>3, <1>6, <2>1 DEF Given
<1> QED
  BY <1>5, <1>6

LEMMA TellQuiet ==
  ASSUME NEW s \in State, NEW what \in {"end", "error"}
  PROVE  Quiet(s, Tell(s, what))
<1>0. what \in Calling
  BY DEF Calling
<1>1. PICK call \in Call : call.what = what /\ Tell(s, what).calls = Append(s.calls, call)
  BY <1>0, TellEffect
<1> QED
  BY <1>1 DEF Quiet

(* The data told is the same.                                                *)
SameData(s, t) ==
  /\ At(t.calls, "data") = At(s.calls, "data")
  /\ \A d \in At(s.calls, "data") : t.calls[d] = s.calls[d]

(* Nothing happened to the data.                                             *)
LEMMA QuietStory ==
  ASSUME NEW s, NEW t, s.calls \in Seq(Call), Script(s.calls), Quiet(s, t)
  PROVE  /\ Script(t.calls) /\ Given(t) = Given(s) /\ SameData(s, t)
         /\ \A what \in {"open", "close", "data", "residue"} : Heard(t, what) <=> Heard(s, what)
         /\ Clean(t.calls) => Clean(s.calls)
<1>1. CASE t.calls = s.calls
  BY <1>1 DEF Heard, Given, SameData
<1>2. ASSUME NEW call \in Call, call.what \in {"end", "error"},
             t.calls = Append(s.calls, call)
      PROVE  /\ Script(t.calls) /\ Given(t) = Given(s) /\ SameData(s, t)
             /\ \A what \in {"open", "close", "data", "residue"} :
                  Heard(t, what) <=> Heard(s, what)
             /\ Clean(t.calls) => Clean(s.calls)
  <2>1. Script(t.calls)
    BY <1>2, ScriptAppend
  <2>2. /\ \A what : Heard(t, what) <=> Heard(s, what) \/ call.what = what
        /\ Given(t) = Given(s) + (IF call.what = "data" THEN 1 ELSE 0) /\ Given(s) \in Nat
    BY <1>2, HeardAppend
  <2>3. /\ \A i \in 1..Len(s.calls) : t.calls[i] = s.calls[i]
        /\ \A what : At(t.calls, what) =
             At(s.calls, what) \cup (IF call.what = what THEN {Len(s.calls) + 1} ELSE {})
        /\ \A what : At(s.calls, what) \subseteq 1..Len(s.calls)
    BY <1>2, AtAppend DEF At
  <2>4. At(t.calls, "data") = At(s.calls, "data") /\ At(t.calls, "close") = At(s.calls, "close")
    BY <1>2, <2>3
  <2>5. SameData(s, t)
    BY <2>3, <2>4 DEF SameData
  <2>6. Clean(t.calls) => Clean(s.calls)
    BY <2>3, <2>4 DEF Clean
  <2> QED
    BY <1>2, <2>1, <2>2, <2>5, <2>6
<1> QED
  BY <1>1, <1>2 DEF Quiet

SameFlow(k, l) == /\ l.fin = k.fin /\ l.sent = k.sent /\ l.unread = k.unread
                  /\ l.front = k.front /\ l.low = k.low

LEMMA StoryKept ==
  ASSUME NEW s, NEW c, Story(s, c), s.calls \in Seq(Call), NEW t, NEW r, Quiet(s, t),
         SameFlow(s.conn, t.conn), t.conn.state = s.conn.state \/ ~ Heard(s, "open"),
         \A p \in t.ops : p.code = "TCPRcv" => p \in s.ops,
         \A i \in Reads(r) : \E j \in Reads(c) : c[j] = r[i],
         \A j \in Reads(c) : \E i \in Reads(r) : c[j] = r[i],
         \A i \in 1..Len(r) : Connected(r[i]) =>
            ~ Heard(s, "open") \/ \E j \in 1..Len(c) : c[j] = r[i],
         t.tcp.provided \/ (~ s.tcp.provided /\ t.calls = s.calls)
  PROVE  Story(t, r)
<1>1. /\ Script(t.calls) /\ Given(t) = Given(s) /\ SameData(s, t)
      /\ Heard(t, "open") <=> Heard(s, "open")
      /\ Live(t) <=> Live(s)
      /\ Clean(t.calls) => Clean(s.calls)
  BY QuietStory DEF Story, Live
<1>2. Drained(t.conn) <=> Drained(s.conn)
  BY DEF SameFlow, Drained
<1>3. Taken(r) = Taken(c)
  BY DEF Taken
<1>4. Pipe(t.conn, Given(t) + Taken(r))
  BY <1>1, <1>3 DEF Story, Flow, Pipe, SameFlow
<1>5. \A i \in Reads(r) : Brings(t, r[i])
  BY <1>1, <1>2 DEF Story, Flow, Brings, SameFlow
<1>6. Heard(t, "open") => /\ t.conn.state \in {"open", "aborted", "released"}
                          /\ \A i \in 1..Len(r) : ~ Connected(r[i])
  BY <1>1 DEF Story, Flow
<1>7. Reads(r) # {} \/ Reading(t) => Live(t)
  <2>1. Reads(r) # {} => Reads(c) # {}
    OBVIOUS
  <2>2. Reading(t) => Reading(s)
    BY DEF Reading
  <2> QED
    BY <1>1, <2>1, <2>2 DEF Story, Flow
<1>8. /\ Clean(t.calls) => Drained(t.conn)
      /\ ~ t.tcp.provided => t.calls = <<>>
  BY <1>1, <1>2 DEF Story, Flow
<1>9. Handed(t)
  BY <1>1 DEF Story, Flow, Handed, SameData, SameFlow
<1> QED
  BY <1>1, <1>4, <1>5, <1>6, <1>7, <1>8, <1>9 DEF Story, Flow

(* A turn of the poll that calls on_open, on_data or on_close.               *)
LEMMA SlotTaken ==
  ASSUME NEW s, NEW c, Owner(s, c), c # <<>>, SlotDone(Head(c))
  PROVE  /\ Tail(c) \in Seq(Done) /\ 1 \in 1..Len(c) /\ Head(c) = c[1] /\ s.calls \in Seq(Call)
         /\ Reads(Tail(c)) = {} /\ Taken(Tail(c)) = 0
         /\ \A i \in 1..Len(Tail(c)) : ~ Connected(Tail(c)[i])
         /\ \A i \in Reads(c) : i = 1
         /\ ~ Reading(s) /\ s.conn.state \in {"open", "aborted"}
<1> DEFINE r == Tail(c)
<1>1. /\ r \in Seq(Done) /\ Head(c) = c[1] /\ 1 \in 1..Len(c)
      /\ \A i \in 1..Len(r) : i + 1 \in 1..Len(c) /\ r[i] = c[i + 1] /\ i + 1 # 1
  BY TailFacts DEF Owner
<1>2. OneSlot(s, c) /\ s.calls \in Seq(Call)
  BY DEF Owner, State
<1> HIDE DEF r
<1>3. \A i \in 1..Len(r) : ~ SlotDone(r[i])
  BY <1>1, <1>2 DEF OneSlot
<1>4. Reads(r) = {} /\ \A i \in 1..Len(r) : ~ Connected(r[i])
  BY <1>3 DEF Reads, SlotDone, Connected
<1>5. Taken(r) = 0
  BY <1>4 DEF Taken
<1>6. \A i \in Reads(c) : i = 1
  BY <1>1, <1>2 DEF OneSlot, Reads, SlotDone
<1>7. ~ Reading(s) /\ s.conn.state \in {"open", "aborted"}
  BY <1>1, <1>2 DEF OneSlot, Reading, Slot
<1> QED
  BY <1>1, <1>2, <1>4, <1>5, <1>6, <1>7 DEF r

(* The consumer is called with one of `kinds', or not.                       *)
Follows(told, next, kinds) ==
  \/ next = told
  \/ \E call \in Call : call.what \in kinds /\ next = Append(told, call)

LEMMA FollowsFacts ==
  ASSUME NEW told \in Seq(Call), NEW next, NEW kinds, Follows(told, next, kinds)
  PROVE  /\ next \in Seq(Call)
         /\ \A what : At(told, what) \subseteq At(next, what)
         /\ \A what : what \notin kinds => At(next, what) = At(told, what)
         /\ \A what : \A i \in At(next, what) \ At(told, what) : \A x : \A j \in At(told, x) : j < i
         /\ \A what : \A i \in At(told, what) : next[i] = told[i] /\ i \in Nat
<1>1. CASE next = told
  <2>1. \A what : \A i \in At(told, what) : i \in Nat
    BY DEF At
  <2> QED
    BY <1>1, <2>1
<1>2. ASSUME NEW call \in Call, call.what \in kinds, next = Append(told, call)
      PROVE  /\ next \in Seq(Call)
             /\ \A what : At(told, what) \subseteq At(next, what)
             /\ \A what : what \notin kinds => At(next, what) = At(told, what)
             /\ \A what : \A i \in At(next, what) \ At(told, what) :
                  \A x : \A j \in At(told, x) : j < i
             /\ \A what : \A i \in At(told, what) : next[i] = told[i] /\ i \in Nat
  <2>1. /\ Len(told) \in Nat
        /\ \A i \in 1..Len(told) : Append(told, call)[i] = told[i]
        /\ \A what : At(Append(told, call), what) =
              At(told, what) \cup (IF call.what = what THEN {Len(told) + 1} ELSE {})
        /\ \A what : \A i \in At(told, what) : i \in Nat /\ 1 <= i /\ i <= Len(told)
    BY AtAppend
  <2>2. next \in Seq(Call)
    BY <1>2
  <2>3. \A what : At(next, what) = At(told, what) \cup (IF call.what = what THEN {Len(told) + 1} ELSE {})
    BY <1>2, <2>1
  <2>4. \A what : \A i \in At(next, what) \ At(told, what) : i = Len(told) + 1
    BY <2>3
  <2>5. \A what : \A i \in At(next, what) \ At(told, what) :
          \A x : \A j \in At(told, x) : j < i
    BY <2>1, <2>4
  <2>6. \A what : \A i \in At(told, what) : next[i] = told[i] /\ i \in Nat
    <3>1. \A what : \A i \in At(told, what) : i \in 1..Len(told) /\ i \in Nat
      BY DEF At
    <3> QED
      BY <1>2, <2>1, <3>1
  <2> QED
    BY <1>2, <2>2, <2>3, <2>5, <2>6
<1> QED
  BY <1>1, <1>2 DEF Follows

LEMMA HandedKept ==
  ASSUME NEW s, NEW t, NEW kinds, s.calls \in Seq(Call), Follows(s.calls, t.calls, kinds),
         "data" \notin kinds, t.conn.low = s.conn.low, Handed(s)
  PROVE  Handed(t)
<1>1. /\ At(t.calls, "data") = At(s.calls, "data")
      /\ \A i \in At(s.calls, "data") : t.calls[i] = s.calls[i]
  BY FollowsFacts
<1> QED
  BY <1>1 DEF Handed

LEMMA StoryOpens ==
  ASSUME NEW s, NEW c, Owner(s, c), Story(s, c), s.tcp.provided, c # <<>>,
         Connected(Head(c)),
         NEW call \in Call, call.what = "open",
         NEW t, t.calls = Append(s.calls, call), t.ops = s.ops, t.conn = s.conn, t.tcp = s.tcp
  PROVE  Story(t, Tail(c)) /\ Live(t)
<1>1. SlotDone(Head(c))
  BY DEF Connected, SlotDone
<1>2. /\ 1 \in 1..Len(c) /\ Head(c) = c[1] /\ s.calls \in Seq(Call)
      /\ Reads(Tail(c)) = {} /\ Taken(Tail(c)) = 0
      /\ \A i \in 1..Len(Tail(c)) : ~ Connected(Tail(c)[i])
      /\ \A i \in Reads(c) : i = 1
      /\ ~ Reading(s) /\ s.conn.state \in {"open", "aborted"}
  BY <1>1, SlotTaken
<1>3. At(s.calls, "open") = {} /\ ~ Heard(s, "open")
  <2>1. ~ Heard(s, "open")
    BY <1>2 DEF Story, Flow
  <2> QED
    BY <2>1, HeardAt
<1>4. ~ Heard(s, "close") /\ ~ Heard(s, "residue")
  <2>1. At(s.calls, "close") = {} /\ At(s.calls, "residue") = {}
    BY <1>3 DEF Story, Script
  <2> QED
    BY <2>1, HeardAt
<1>5. Script(t.calls)
  BY <1>2, <1>3, ScriptAppend DEF Story
<1>6. /\ \A what : Heard(t, what) <=> Heard(s, what) \/ call.what = what
      /\ Given(t) = Given(s)
  <2>1. /\ \A what : Heard(t, what) <=> Heard(s, what) \/ call.what = what
        /\ Given(t) = Given(s) + (IF call.what = "data" THEN 1 ELSE 0) /\ Given(s) \in Nat
    BY <1>2, HeardAppend
  <2> QED
    BY <2>1
<1>7. Taken(c) = 0
  <2>1. \A i \in Reads(c) : c[1].code = "TCPRcv"
    BY <1>2 DEF Reads
  <2>2. Reads(c) = {}
    BY <1>2, <2>1 DEF Connected
  <2> QED
    BY <2>2 DEF Taken
<1>8. ~ Reading(t) /\ t.conn.state \in {"open", "aborted"}
  BY <1>2 DEF Reading
<1>9. Pipe(t.conn, Given(t) + Taken(Tail(c)))
  BY <1>2, <1>6, <1>7 DEF Story, Flow
<1>10. Live(t)
  BY <1>4, <1>6 DEF Live
<1>11. ~ Clean(t.calls) /\ Handed(t)
  <2>1. At(t.calls, "close") = {}
    BY <1>10, HeardAt DEF Live
  <2>2. Follows(s.calls, t.calls, {"open"})
    BY DEF Follows
  <2>3. Handed(t)
    BY <1>2, <2>2, HandedKept DEF Story, Flow
  <2> QED
    BY <2>1, <2>3 DEF Clean
<1> QED
  BY <1>2, <1>5, <1>6, <1>8, <1>9, <1>10, <1>11 DEF Story, Flow

LEMMA StoryReads ==
  ASSUME NEW s, NEW c, Owner(s, c), Story(s, c), s.tcp.provided, c # <<>>,
         Head(c).code = "TCPRcv", Head(c).result = "noErr",
         NEW call \in Call, OnData(s, call, Head(c).data),
         NEW t, t.calls = Append(s.calls, call), t.ops = s.ops, t.conn = s.conn, t.tcp = s.tcp
  PROVE  Story(t, Tail(c)) /\ Live(t)
<1>1. SlotDone(Head(c))
  BY DEF SlotDone
<1>2. /\ 1 \in 1..Len(c) /\ Head(c) = c[1] /\ s.calls \in Seq(Call)
      /\ Reads(Tail(c)) = {} /\ Taken(Tail(c)) = 0
      /\ \A i \in 1..Len(Tail(c)) : ~ Connected(Tail(c)[i])
      /\ ~ Reading(s) /\ s.conn.state \in {"open", "aborted"}
  BY <1>1, SlotTaken
<1>3. 1 \in Reads(c) /\ Taken(c) = 1
  BY <1>2 DEF Reads, Taken
<1>4. /\ Live(s) /\ Head(c).data = Given(s) + 1 /\ Given(s) \in Nat
      /\ Right(s.conn.front, Head(c).data, s.conn.low, s.conn.sent)
  BY <1>2, <1>3, AtFinite DEF Story, Flow, Brings, Given
<1>5. /\ Script(t.calls) /\ call.what = "data" /\ call.piece = Head(c).data
      /\ call.bytes = s.conn.front /\ call.sent = s.conn.sent
  <2>1. At(s.calls, "open") # {} /\ At(s.calls, "close") = {} /\ At(s.calls, "residue") = {}
    BY <1>4, HeardAt DEF Live
  <2>2. /\ call.what = "data" /\ call.piece = Head(c).data
        /\ call.bytes = s.conn.front /\ call.sent = s.conn.sent
    BY <1>4 DEF OnData
  <2> QED
    BY <1>2, <1>4, <2>1, <2>2, ScriptAppend DEF Story, Given
<1>6. /\ \A what : Heard(t, what) <=> Heard(s, what) \/ call.what = what
      /\ Given(t) = Given(s) + 1 /\ Given(s) \in Nat
  BY <1>2, <1>5, HeardAppend
<1>7. Live(t)
  BY <1>4, <1>5, <1>6 DEF Live
<1>8. ~ Reading(t) /\ t.conn.state \in {"open", "aborted"}
  BY <1>2 DEF Reading
<1>9. Pipe(t.conn, Given(t) + Taken(Tail(c)))
  <2>1. Given(t) + Taken(Tail(c)) = Given(s) + Taken(c)
    BY <1>2, <1>3, <1>6
  <2> QED
    BY <2>1 DEF Story, Flow
<1>10. ~ Clean(t.calls)
  <2>1. At(t.calls, "close") = {}
    BY <1>7, HeardAt DEF Live
  <2> QED
    BY <2>1 DEF Clean
<1>11. Handed(t)
  <2>1. /\ t.calls[Len(s.calls) + 1] = call
        /\ \A i \in 1..Len(s.calls) : t.calls[i] = s.calls[i]
        /\ At(t.calls, "data") = At(s.calls, "data") \cup {Len(s.calls) + 1}
        /\ At(s.calls, "data") \subseteq 1..Len(s.calls)
    BY <1>2, <1>5, AtAppend DEF At
  <2>2. \A d \in At(s.calls, "data") :
          Right(t.calls[d].bytes, t.calls[d].piece, t.conn.low, t.calls[d].sent)
    BY <2>1 DEF Story, Flow, Handed
  <2> QED
    BY <1>4, <1>5, <2>1, <2>2 DEF Handed
<1> QED
  BY <1>2, <1>5, <1>7, <1>8, <1>9, <1>10, <1>11 DEF Story, Flow, Live

(* The calls when a receive ends the stream: what is left in the buffer, the *)
(* error that it `failed' with, on_close, and the error of the release.      *)
Ends(told, last, failed) ==
  \E a, b, e \in Seq(Call) :
    /\ Follows(told, a, {"residue"})
    /\ IF failed THEN \E call \in Call : call.what = "error" /\ b = Append(a, call) ELSE b = a
    /\ \E call \in Call : call.what = "close" /\ e = Append(b, call)
    /\ Follows(e, last, {"error"})

LEMMA ScriptEnds ==
  ASSUME NEW told \in Seq(Call), Script(told), At(told, "open") # {},
         At(told, "close") = {}, At(told, "residue") = {},
         NEW last, NEW failed \in BOOLEAN, Ends(told, last, failed)
  PROVE  /\ Script(last) /\ At(last, "data") = At(told, "data") /\ At(last, "open") # {}
         /\ \A i \in At(told, "data") : last[i] = told[i]
         /\ failed => ~ Clean(last)
<1>1. PICK a \in Seq(Call), b \in Seq(Call), e \in Seq(Call) :
        /\ Follows(told, a, {"residue"})
        /\ IF failed THEN \E call \in Call : call.what = "error" /\ b = Append(a, call)
           ELSE b = a
        /\ \E call \in Call : call.what = "close" /\ e = Append(b, call)
        /\ Follows(e, last, {"error"})
  BY DEF Ends
<1>2. Follows(a, b, {"error"}) /\ Follows(b, e, {"close"}) /\ Follows(e, last, {"error"})
  BY <1>1 DEF Follows
<1>3. Script(a)
  <2>1. CASE a = told
    BY <2>1
  <2>2. ASSUME NEW call \in Call, call.what = "residue", a = Append(told, call)
        PROVE  Script(a)
    BY <2>2, ScriptAppend
  <2> QED
    BY <1>1, <2>1, <2>2 DEF Follows
<1>4. /\ At(a, "open") # {} /\ At(a, "close") = {} /\ At(a, "data") = At(told, "data")
      /\ \A i \in At(told, "data") : a[i] = told[i]
  <2>1. /\ \A what : At(told, what) \subseteq At(a, what)
        /\ \A what : what \notin {"residue"} => At(a, what) = At(told, what)
        /\ \A what : \A i \in At(told, what) : a[i] = told[i]
    BY <1>1, FollowsFacts
  <2> QED
    BY <2>1
<1>5. Script(b)
  <2>1. CASE b = a
    BY <1>3, <2>1
  <2>2. ASSUME NEW call \in Call, call.what = "error", b = Append(a, call)
        PROVE  Script(b)
    BY <1>3, <2>2, ScriptAppend
  <2> QED
    BY <1>1, <2>1, <2>2
<1>6. /\ At(b, "open") # {} /\ At(b, "close") = {} /\ At(b, "data") = At(a, "data")
      /\ \A i \in At(a, "data") : b[i] = a[i]
  <2>1. /\ \A what : what \notin {"error"} => At(b, what) = At(a, what)
        /\ \A what : \A i \in At(a, what) : b[i] = a[i]
    BY <1>2, FollowsFacts
  <2> QED
    BY <1>4, <2>1
<1>7. Script(e)
  BY <1>1, <1>5, <1>6, ScriptAppend
<1>8. /\ At(e, "open") # {} /\ At(e, "data") = At(b, "data")
      /\ \A i \in At(b, "data") : e[i] = b[i]
  BY <1>2, <1>6, FollowsFacts
<1>9. Script(last)
  <2>1. CASE last = e
    BY <1>7, <2>1
  <2>2. ASSUME NEW call \in Call, call.what = "error", last = Append(e, call)
        PROVE  Script(last)
    BY <1>7, <2>2, ScriptAppend
  <2> QED
    BY <1>1, <2>1, <2>2 DEF Follows
<1>10. /\ At(last, "open") # {} /\ At(last, "data") = At(e, "data")
       /\ \A i \in At(e, "data") : last[i] = e[i]
       /\ At(last, "close") = At(e, "close")
  <2>1. /\ \A what : what \notin {"error"} => At(last, what) = At(e, what)
        /\ \A what : \A i \in At(e, what) : last[i] = e[i]
    BY <1>2, FollowsFacts
  <2> QED
    BY <1>8, <2>1
<1>11. ASSUME failed PROVE ~ Clean(last)
  <2>1. PICK x : x \in At(b, "error")
    <3>1. PICK call \in Call : call.what = "error" /\ b = Append(a, call)
      BY <1>1, <1>11
    <3>2. At(b, "error") = At(a, "error") \cup {Len(a) + 1}
      BY <3>1, AtAppend
    <3> QED
      BY <3>2
  <2>2. x \in At(last, "error") /\ x \in Nat
    <3>1. At(b, "error") \subseteq At(e, "error") /\ x \in Nat
      BY <1>2, <2>1, FollowsFacts
    <3>2. At(e, "error") \subseteq At(last, "error")
      BY <1>1, FollowsFacts
    <3> QED
      BY <2>1, <3>1, <3>2
  <2>3. \A i \in At(e, "close") : x < i /\ i \in Nat
    <3>1. \A i \in At(e, "close") \ At(b, "close") : \A j \in At(b, "error") : j < i
      BY <1>2, FollowsFacts
    <3>2. \A i \in At(e, "close") : i \in Nat
      BY DEF At
    <3> QED
      BY <1>6, <2>1, <3>1, <3>2
  <2>4. \A i \in At(last, "close") : ~ (i < x)
    BY <1>10, <2>2, <2>3
  <2> QED
    BY <2>2, <2>4 DEF Clean
<1> QED
  BY <1>4, <1>6, <1>8, <1>9, <1>10, <1>11

LEMMA StoryCloses ==
  ASSUME NEW s, NEW c, Owner(s, c), Story(s, c), s.tcp.provided, c # <<>>,
         Head(c).code = "TCPRcv", Head(c).result # "noErr",
         NEW failed \in BOOLEAN, Head(c).result = "connectionClosing" \/ failed,
         NEW t, Ends(s.calls, t.calls, failed), t.ops = s.ops, SameFlow(s.conn, t.conn),
         t.conn.state \in {s.conn.state, "released"}, t.tcp.provided
  PROVE  Story(t, Tail(c))
<1>1. SlotDone(Head(c))
  BY DEF SlotDone
<1>2. /\ 1 \in 1..Len(c) /\ Head(c) = c[1] /\ s.calls \in Seq(Call)
      /\ Reads(Tail(c)) = {} /\ Taken(Tail(c)) = 0
      /\ \A i \in 1..Len(Tail(c)) : ~ Connected(Tail(c)[i])
      /\ \A i \in Reads(c) : i = 1
      /\ ~ Reading(s) /\ s.conn.state \in {"open", "aborted"}
  BY <1>1, SlotTaken
<1>3. 1 \in Reads(c) /\ Taken(c) = 0
  BY <1>2 DEF Reads, Taken
<1>4. Live(s) /\ (Head(c).result = "connectionClosing" => Drained(s.conn))
  BY <1>2, <1>3 DEF Story, Flow, Brings
<1>5. /\ Script(t.calls) /\ At(t.calls, "data") = At(s.calls, "data")
      /\ \A i \in At(s.calls, "data") : t.calls[i] = s.calls[i]
      /\ failed => ~ Clean(t.calls)
  <2>1. At(s.calls, "open") # {} /\ At(s.calls, "close") = {} /\ At(s.calls, "residue") = {}
    BY <1>4, HeardAt DEF Live
  <2>2. Script(s.calls)
    BY DEF Story
  <2> QED
    BY <1>2, <2>1, <2>2, ScriptEnds
<1>6. Given(t) = Given(s) /\ Handed(t)
  BY <1>5 DEF Given, Handed, Story, Flow, SameFlow
<1>7. Clean(t.calls) => Drained(t.conn)
  BY <1>4, <1>5 DEF SameFlow, Drained
<1>8. ~ Reading(t) /\ t.conn.state \in {"open", "aborted", "released"}
  BY <1>2 DEF Reading
<1>9. Pipe(t.conn, Given(t) + Taken(Tail(c)))
  BY <1>2, <1>3, <1>6 DEF Story, Flow, SameFlow, Pipe
<1> QED
  BY <1>2, <1>5, <1>6, <1>7, <1>8, <1>9 DEF Story, Flow

(* The block that is polled is given to MacTCP for the next receive.         *)
LEMMA StoryReceives ==
  ASSUME NEW s, NEW c, Story(s, c), Live(s),
         NEW t, t.calls = s.calls, t.conn = s.conn, t.tcp = s.tcp
  PROVE  Story(t, c)
<1>1. (\A what : Heard(t, what) <=> Heard(s, what)) /\ Given(t) = Given(s)
  BY DEF Heard, Given
<1> QED
  BY <1>1 DEF Story, Flow, Brings, Live, Handed

(* A receive ends, with a piece or without one.                              *)
Comes(k, l, result, data, length) ==
  /\ l.state = k.state /\ l.fin = k.fin /\ l.sent = k.sent /\ l.low = k.low
  /\ \/ /\ result = "noErr" /\ k.unread # <<>> /\ data = Head(k.unread) /\ length > 0
        /\ l.unread = Tail(k.unread) /\ (data \in k.low \/ l.front = data)
     \/ result = "connectionClosing" /\ data = 0 /\ Drained(k) /\ l.unread = k.unread
     \/ result = "connectionTerminated" /\ data = 0 /\ l.unread = k.unread

LEMMA StoryCompletes ==
  ASSUME NEW s, NEW c, Owner(s, c), Story(s, c), NEW pb \in s.ops, pb.code = "TCPRcv",
         NEW d \in Done, d.code = "TCPRcv",
         NEW t, t.ops \subseteq s.ops, t.calls = s.calls, t.tcp = s.tcp,
         Comes(s.conn, t.conn, d.result, d.data, d.rcvBuffLen)
  PROVE  Story(t, Append(c, d))
<1> DEFINE r == Append(c, d)
<1>1. /\ Len(c) \in Nat /\ Len(r) = Len(c) + 1 /\ r[Len(c) + 1] = d
      /\ \A i \in 1..Len(c) : r[i] = c[i]
      /\ s.conn.unread \in Seq(Nat) /\ s.conn.sent \in Nat /\ s.calls \in Seq(Call)
  BY DEF Owner, State, Conn
<1>2. Reads(c) = {} /\ Taken(c) = 0
  <2>1. Reads(c) = {}
    BY DEF Owner, OneSlot, Slot, SlotDone, Reads
  <2> QED
    BY <2>1 DEF Taken
<1> HIDE DEF r
<1>3. /\ Reads(r) = {Len(c) + 1} /\ Taken(r) = (IF d.result = "noErr" THEN 1 ELSE 0)
      /\ \A i \in 1..Len(r) : Connected(r[i]) => \E j \in 1..Len(c) : c[j] = r[i]
  <2>1. 1..Len(r) = (1..Len(c)) \cup {Len(c) + 1}
    BY <1>1
  <2>2. Reads(r) = {Len(c) + 1}
    BY <1>1, <1>2, <2>1 DEF Reads
  <2> QED
    BY <1>1, <2>1, <2>2 DEF Taken, Connected
<1>4. /\ \A what : Heard(t, what) <=> Heard(s, what)
      /\ Given(t) = Given(s) /\ Given(s) \in Nat
  BY <1>1, AtFinite DEF Heard, Given
<1>5. Live(s) /\ Live(t)
  BY <1>4 DEF Story, Flow, Reading, Live
<1>6. Pipe(s.conn, Given(s))
  BY <1>2, <1>4 DEF Story, Flow
<1>7. Pipe(t.conn, Given(t) + Taken(r)) /\ Brings(t, d)
  <2>1. CASE /\ d.result = "noErr" /\ s.conn.unread # <<>> /\ d.data = Head(s.conn.unread)
             /\ t.conn.unread = Tail(s.conn.unread) /\ d.rcvBuffLen > 0
             /\ (d.data \in s.conn.low \/ t.conn.front = d.data)
    <3> DEFINE u == s.conn.unread
               v == Tail(u)
    <3>1. /\ u \in Seq(Nat) /\ u # <<>> /\ Len(u) \in Nat /\ Len(u) >= 1 /\ Head(u) = u[1]
          /\ Len(v) = Len(u) - 1 /\ \A k \in 1..Len(v) : v[k] = u[k + 1]
      BY <1>1, <2>1
    <3>2. /\ Len(u) = s.conn.sent - Given(s)
          /\ \A k \in 1..Len(u) : u[k] = Given(s) + k
      BY <1>6 DEF Pipe
    <3> HIDE DEF u, v
    <3>3. d.data = Given(t) + 1
      BY <1>4, <2>1, <3>1, <3>2 DEF u
    <3> DEFINE n == Given(s)
               sent == s.conn.sent
    <3>4. n \in Nat /\ sent \in Nat /\ Len(u) = sent - n /\ \A k \in 1..Len(u) : u[k] = n + k
      BY <1>1, <1>4, <3>2
    <3> HIDE DEF n, sent
    <3>5. Len(v) = sent - (n + 1)
      BY <3>1, <3>4
    <3>6. ASSUME NEW k \in 1..Len(v) PROVE v[k] = (n + 1) + k
      <4>1. k \in Nat /\ k + 1 \in 1..Len(u) /\ v[k] = u[k + 1]
        BY <3>1, <3>6
      <4>2. u[k + 1] = n + (k + 1)
        BY <3>4, <4>1
      <4> QED
        BY <3>4, <4>1, <4>2
    <3>7. Pipe(t.conn, Given(t) + 1)
      BY <1>4, <2>1, <3>5, <3>6 DEF Pipe, Comes, u, v, n, sent
    <3>8. d.data <= sent /\ d.data \in Nat
      BY <1>4, <3>1, <3>3, <3>4 DEF n
    <3>9. t.conn.sent = sent /\ t.conn.low = s.conn.low
      BY DEF Comes, sent
    <3>10. Right(t.conn.front, d.data, t.conn.low, t.conn.sent)
      <4>1. CASE t.conn.front = d.data
        BY <4>1 DEF Right
      <4>2. CASE d.data \in s.conn.low
        BY <3>8, <3>9, <4>2 DEF Right
      <4> QED
        BY <2>1, <4>1, <4>2
    <3> QED
      BY <1>3, <2>1, <3>3, <3>7, <3>10 DEF Brings
  <2>2. CASE d.result # "noErr" /\ d.data = 0 /\ t.conn.unread = s.conn.unread
             /\ (d.result = "connectionClosing" => Drained(s.conn))
    <3>1. Pipe(t.conn, Given(t) + Taken(r))
      BY <1>3, <1>4, <1>6, <2>2 DEF Pipe, Comes
    <3> QED
      BY <2>2, <3>1 DEF Brings, Drained, Comes
  <2> QED
    BY <2>1, <2>2 DEF Comes
<1>8. \A i \in Reads(r) : Brings(t, r[i])
  BY <1>1, <1>3, <1>7
<1>9. \A i \in 1..Len(r) : ~ Connected(r[i])
  BY <1>3, <1>5 DEF Story, Flow, Live
<1>10. Handed(t) /\ ~ Clean(t.calls)
  <2>1. At(t.calls, "close") = {}
    BY <1>5, HeardAt DEF Live
  <2> QED
    BY <2>1 DEF Clean, Handed, Story, Flow, Comes
<1>11. Story(t, r)
  BY <1>4, <1>5, <1>7, <1>8, <1>9, <1>10 DEF Story, Flow, Comes, Live
<1> QED
  BY <1>11 DEF r

(* An open or a close ends.                                                  *)
LEMMA StoryPasses ==
  ASSUME NEW s, NEW c, Owner(s, c), Story(s, c), NEW d \in Done, d.code # "TCPRcv",
         NEW t, t.ops \subseteq s.ops, t.calls = s.calls, t.tcp = s.tcp,
         SameFlow(s.conn, t.conn), t.conn.state = s.conn.state \/ s.conn.state = "opening",
         Connected(d) => s.conn.state = "opening"
  PROVE  Story(t, Append(c, d))
<1> DEFINE r == Append(c, d)
<1>1. /\ Len(c) \in Nat /\ Len(r) = Len(c) + 1 /\ r[Len(c) + 1] = d
      /\ \A i \in 1..Len(c) : r[i] = c[i]
      /\ s.calls \in Seq(Call)
  BY DEF Owner, State
<1> HIDE DEF r
<1>2. 1..Len(r) = (1..Len(c)) \cup {Len(c) + 1}
  BY <1>1
<1>3. Reads(r) = Reads(c) /\ \A i \in Reads(c) : r[i] = c[i]
  BY <1>1, <1>2 DEF Reads
<1>4. s.conn.state = "opening" => ~ Heard(s, "open")
  BY DEF Story, Flow
<1>5. \A i \in 1..Len(r) : Connected(r[i]) =>
         ~ Heard(s, "open") \/ \E j \in 1..Len(c) : c[j] = r[i]
  BY <1>1, <1>2, <1>4
<1>6. Quiet(s, t) /\ (t.tcp.provided \/ (~ s.tcp.provided /\ t.calls = s.calls))
  BY DEF Quiet
<1>7. /\ \A i \in Reads(r) : \E j \in Reads(c) : c[j] = r[i]
      /\ \A j \in Reads(c) : \E i \in Reads(r) : c[j] = r[i]
      /\ \A p \in t.ops : p.code = "TCPRcv" => p \in s.ops
  BY <1>3
<1>8. Story(t, r)
  BY <1>1, <1>4, <1>5, <1>6, <1>7, StoryKept
<1> QED
  BY <1>8 DEF r

(* The peer sends or closes, or the connection breaks.                       *)
Peers(k, l) ==
  \/ /\ l.state = k.state /\ ~ k.fin
     /\ l.sent = k.sent + 1 /\ l.unread = Append(k.unread, k.sent + 1)
     /\ k.low \subseteq l.low /\ (l.front = k.front \/ l.sent \in l.low)
  \/ /\ l.state = k.state /\ ~ k.fin /\ l.sent = k.sent /\ l.unread = k.unread
     /\ l.front = k.front /\ l.low = k.low
  \/ l.state = "aborted" /\ SameFlow(k, l)

LEMMA StoryPeer ==
  ASSUME NEW s \in State, NEW c, Story(s, c),
         NEW t, t.ops = s.ops, t.calls = s.calls, t.tcp = s.tcp, Peers(s.conn, t.conn)
  PROVE  Story(t, c)
<1> DEFINE m == Given(s) + Taken(c)
           u == s.conn.unread
<1>1. /\ u \in Seq(Nat) /\ s.conn.sent \in Nat /\ s.calls \in Seq(Call) /\ Len(u) \in Nat
  BY DEF State, Conn
<1>2. /\ \A what : Heard(t, what) <=> Heard(s, what)
      /\ Given(t) = Given(s) /\ m \in Nat
  BY <1>1, AtFinite DEF Heard, Given, Taken
<1>3. Pipe(s.conn, m)
  BY DEF Story, Flow
<1> HIDE DEF m
<1>4. Pipe(t.conn, m)
  <2>1. CASE t.conn.sent = s.conn.sent + 1 /\ t.conn.unread = Append(u, s.conn.sent + 1)
    <3> DEFINE v == Append(u, s.conn.sent + 1)
    <3>1. /\ Len(v) = Len(u) + 1 /\ v[Len(u) + 1] = s.conn.sent + 1
          /\ \A k \in 1..Len(u) : v[k] = u[k]
      BY <1>1
    <3>2. Len(u) = s.conn.sent - m /\ \A k \in 1..Len(u) : u[k] = m + k
      BY <1>3 DEF Pipe
    <3> HIDE DEF u, v
    <3>3. Len(v) = (s.conn.sent + 1) - m
      BY <1>1, <1>2, <3>1, <3>2
    <3>4. ASSUME NEW k \in 1..Len(v) PROVE v[k] = m + k
      <4>1. CASE k \in 1..Len(u)
        BY <3>1, <3>2, <4>1
      <4>2. CASE k = Len(u) + 1
        BY <1>1, <1>2, <3>1, <3>2, <4>2
      <4> QED
        BY <1>1, <3>1, <3>4, <4>1, <4>2
    <3> QED
      BY <2>1, <3>3, <3>4 DEF Pipe, v
  <2>2. CASE t.conn.sent = s.conn.sent /\ t.conn.unread = s.conn.unread
    BY <1>3, <2>2 DEF Pipe
  <2> QED
    BY <2>1, <2>2 DEF SameFlow, Peers
<1>5. Drained(s.conn) => Drained(t.conn)
  BY DEF Drained, SameFlow, Peers
<1>6. ASSUME NEW i \in Reads(c) PROVE Brings(t, c[i])
  <2>1. Brings(s, c[i])
    BY DEF Story, Flow
  <2>2. CASE c[i].result # "noErr"
    BY <1>5, <2>1, <2>2 DEF Brings
  <2>3. CASE c[i].result = "noErr"
    <3> DEFINE p == c[i].data
    <3>1. /\ p = Given(s) + 1 /\ c[i].rcvBuffLen > 0
          /\ Right(s.conn.front, p, s.conn.low, s.conn.sent)
      BY <2>1, <2>3 DEF Brings
    <3>2. p = m /\ p \in Nat /\ p <= s.conn.sent
      <4>1. Taken(c) = 1
        BY <2>3 DEF Taken
      <4>2. Given(s) \in Nat /\ m = Given(s) + 1
        BY <1>1, <4>1, AtFinite DEF Given, m
      <4> QED
        BY <1>1, <1>3, <3>1, <4>2 DEF Pipe
    <3> HIDE DEF p
    <3>3. s.conn.low \subseteq t.conn.low /\ s.conn.low \subseteq Nat
      BY DEF Peers, SameFlow, State, Conn
    <3>4. t.conn.sent \in {s.conn.sent, s.conn.sent + 1}
      BY DEF Peers, SameFlow
    <3>5. CASE t.conn.front = s.conn.front
      <4>1. ASSUME NEW k \in s.conn.low, p <= k, k <= s.conn.sent
            PROVE  k \in t.conn.low /\ p <= k /\ k <= t.conn.sent
        <5>1. k \in Nat /\ k \in t.conn.low
          BY <3>3, <4>1
        <5>2. t.conn.sent \in Nat /\ s.conn.sent <= t.conn.sent
          BY <1>1, <3>4
        <5> QED
          BY <1>1, <4>1, <5>1, <5>2
      <4> QED
        BY <1>2, <2>3, <3>1, <3>5, <4>1 DEF Right, Brings, p
    <3>6. CASE t.conn.sent = s.conn.sent + 1 /\ t.conn.sent \in t.conn.low
      <4>1. p <= t.conn.sent /\ t.conn.sent <= t.conn.sent
        BY <1>1, <3>2, <3>6
      <4>2. Right(t.conn.front, p, t.conn.low, t.conn.sent)
        BY <3>6, <4>1 DEF Right
      <4> QED
        BY <1>2, <2>3, <3>1, <4>2 DEF Brings, p
    <3> QED
      BY <3>5, <3>6 DEF Peers, SameFlow
  <2> QED
    BY <2>2, <2>3
<1>7. Reading(t) <=> Reading(s)
  BY DEF Reading
<1>8. t.conn.state \in {s.conn.state, "aborted"}
  BY DEF Peers
<1>9. Handed(t)
  <2>1. s.conn.low \subseteq t.conn.low
    BY DEF Peers, SameFlow
  <2> QED
    BY <2>1 DEF Handed, Right, Story, Flow
<1> QED
  BY <1>2, <1>4, <1>5, <1>6, <1>7, <1>8, <1>9 DEF Story, Flow, m, Live

-----------------------------------------------------------------------------
(* The functions of the provider.                                            *)

Answered(s) ==
  /\ s.tcp.resolveState = "resolveCompleted" => s.tcp.hostInfo \in {"address", "none"}
  /\ s.tcp.resolveState = "resolveFinished" /\ s.tcp.addr = "zero" => Heard(s, "error")
  /\ \A pb \in s.ops : pb.code = "TCPActiveOpen" /\ pb.addr = "zero" => Heard(s, "error")

Ready(s, c) == Owner(s, c) /\ Answered(s) /\ Story(s, c) /\ s.tcp.provided

SameHost(s, t) ==
  /\ t.tcp.resolveState = s.tcp.resolveState /\ t.tcp.addr = s.tcp.addr
  /\ t.tcp.hostInfo = s.tcp.hostInfo /\ t.tcp.provided = s.tcp.provided
  /\ t.tcp.issued = s.tcp.issued

LEMMA AnsweredKept ==
  ASSUME NEW s, NEW t, Answered(s), SameHost(s, t), Hears(s, t),
         \A p \in t.ops : p.code = "TCPActiveOpen" => p \in s.ops
  PROVE  Answered(t)
BY DEF Answered, SameHost, Hears

(* A step that leaves the queue and the connection's data alone.             *)
LEMMA StoryQuiet ==
  ASSUME NEW s, NEW c, Story(s, c), s.calls \in Seq(Call), NEW t, Quiet(s, t),
         SameFlow(s.conn, t.conn), t.conn.state = s.conn.state \/ ~ Heard(s, "open"),
         \A p \in t.ops : p.code = "TCPRcv" => p \in s.ops, t.tcp.provided
  PROVE  Story(t, c)
<1>1. /\ \A i \in Reads(c) : \E j \in Reads(c) : c[j] = c[i]
      /\ \A i \in 1..Len(c) : Connected(c[i]) => \E j \in 1..Len(c) : c[j] = c[i]
  OBVIOUS
<1> QED
  BY <1>1, StoryKept

LEMMA TellReady ==
  ASSUME NEW s, NEW c, Ready(s, c), NEW what \in {"end", "error"}
  PROVE  Ready(Tell(s, what), c) /\ SameHost(s, Tell(s, what)) /\ Hears(s, Tell(s, what))
<1> DEFINE t == Tell(s, what)
<1>1. /\ t \in State /\ Hears(s, t) /\ t.tcp = s.tcp /\ t.ops = s.ops /\ t.heap = s.heap
      /\ t.conn = s.conn /\ Quiet(s, t)
  <2>1. s \in State /\ what \in Calling
    BY KnownCalls DEF Ready, Owner
  <2>2. Quiet(s, t)
    BY <2>1, TellQuiet
  <2>3. /\ t \in State /\ Hears(s, t) /\ t.tcp = s.tcp /\ t.ops = s.ops
        /\ t.heap = s.heap /\ t.conn = s.conn
    BY KnownCalls, <2>1, TellEffect
  <2> QED
    BY <2>2, <2>3
<1> HIDE DEF t
<1>2. SameHost(s, t) /\ SameFlow(s.conn, t.conn) /\ s.calls \in Seq(Call)
  BY <1>1 DEF SameHost, SameFlow, Ready, Owner, State
<1>3. Owner(t, c) /\ Answered(t) /\ Story(t, c)
  BY <1>1, <1>2, OwnerKept, AnsweredKept, StoryQuiet DEF Ready
<1> QED
  BY <1>1, <1>2, <1>3 DEF Ready, SameHost, t

(* A change of the stream's data that gives no command.                      *)
LEMMA DataReady ==
  ASSUME NEW s, NEW c, Ready(s, c), NEW d \in Data, d.issued = s.tcp.issued, d.provided,
         d.resolveState = "resolveCompleted" => d.hostInfo \in {"address", "none"},
         d.resolveState = "resolveFinished" /\ d.addr = "zero" => Heard(s, "error")
  PROVE  Ready([s EXCEPT !.tcp = d], c) /\ [s EXCEPT !.tcp = d].tcp = d
         /\ Hears(s, [s EXCEPT !.tcp = d])
<1> DEFINE t == [s EXCEPT !.tcp = d]
<1>1. /\ t.tcp = d /\ t.ops = s.ops /\ t.heap = s.heap /\ t.calls = s.calls /\ t.conn = s.conn
      /\ t \in State
  BY DEF Ready, Owner, State
<1> HIDE DEF t
<1>2. Hears(s, t) /\ \A what : Heard(s, what) = Heard(t, what)
  BY <1>1 DEF Hears, Heard
<1>3. Owner(t, c)
  BY <1>1, <1>2, OwnerKept DEF Ready
<1>4. Answered(t)
  BY <1>1, <1>2 DEF Answered, Ready
<1>5. Story(t, c)
  <2>1. s.calls \in Seq(Call) /\ Quiet(s, t) /\ SameFlow(s.conn, t.conn)
    BY <1>1 DEF Ready, Owner, State, Quiet, SameFlow
  <2> QED
    BY <1>1, <2>1, StoryQuiet DEF Ready
<1> QED
  BY <1>1, <1>2, <1>3, <1>4, <1>5 DEF Ready, t

Block(s, code, live) ==
  [id |-> s.tcp.issued + 1, code |-> code, live |-> live, addr |-> s.tcp.addr]

Issues(s, t, pb) ==
  /\ t \in State /\ t.ops = s.ops \cup {pb}
  /\ t.heap = s.heap \cup {s.tcp.issued + 1} /\ t.calls = s.calls
  /\ t.conn = s.conn /\ t.tcp = [s.tcp EXCEPT !.issued = @ + 1]

LEMMA ControlEffect ==
  ASSUME NEW s \in State, NEW code \in Codes, NEW live \in BOOLEAN, NEW lacks
  PROVE  \/ Control(s, code, live, lacks) = Tell(s, "error")
         \/ Issues(s, Control(s, code, live, lacks), Block(s, code, live))
<1> DEFINE t == Control(s, code, live, lacks)
           u == [s EXCEPT !.ops = @ \cup {Block(s, code, live)},
                          !.heap = @ \cup {s.tcp.issued + 1}, !.tcp.issued = @ + 1]
<1>1. t \in {Tell(s, "error"), u}
  BY DEF Control, Block
<1>2. s.tcp \in Data /\ s.tcp.issued \in Nat /\ Block(s, code, live) \in Op
  BY DEF State, Data, Block, Op
<1>3. [s.tcp EXCEPT !.issued = @ + 1] \in Data
  BY <1>2 DEF Data
<1>4. /\ u.ops = s.ops \cup {Block(s, code, live)} /\ u.calls = s.calls
      /\ u.heap = s.heap \cup {s.tcp.issued + 1} /\ u.conn = s.conn
      /\ u.tcp = [s.tcp EXCEPT !.issued = @ + 1]
      /\ u = [tcp |-> u.tcp, ops |-> u.ops, heap |-> u.heap, calls |-> u.calls,
              conn |-> u.conn]
  <2>1. s = [tcp |-> s.tcp, ops |-> s.ops, heap |-> s.heap, calls |-> s.calls, conn |-> s.conn]
    BY DEF State
  <2>2. u = [tcp |-> [s.tcp EXCEPT !.issued = @ + 1], ops |-> s.ops \cup {Block(s, code, live)},
             heap |-> s.heap \cup {s.tcp.issued + 1}, calls |-> s.calls, conn |-> s.conn]
    <3>1. u = [s EXCEPT !.ops = @ \cup {Block(s, code, live)},
                        !.heap = @ \cup {s.tcp.issued + 1},
                        !.tcp = [s.tcp EXCEPT !.issued = @ + 1]]
      BY <2>1, Zenon
    <3> HIDE DEF u
    <3> DEFINE data == [s.tcp EXCEPT !.issued = @ + 1]
               ops2 == s.ops \cup {Block(s, code, live)}
    <3>2. u = [s EXCEPT !.ops = ops2, !.heap = @ \cup {s.tcp.issued + 1}, !.tcp = data]
      BY <3>1
    <3> HIDE DEF data, ops2
    <3>3. u = [tcp |-> data, ops |-> ops2, heap |-> s.heap \cup {s.tcp.issued + 1},
               calls |-> s.calls, conn |-> s.conn]
      BY <2>1, <3>2
    <3> QED
      BY <3>3 DEF data, ops2
  <2> HIDE DEF u
  <2> QED
    BY <2>2
<1> HIDE DEF u
<1>5. u \in State
  BY <1>2, <1>3, <1>4 DEF State
<1> QED
  BY <1>1, <1>4, <1>5 DEF Issues

(* Connect and Close: at most one command is given.                          *)
Calls(s, c, t) ==
  /\ Ready(t, c) /\ t.tcp.issued <= s.tcp.issued + 1
  /\ t.tcp.resolveState = s.tcp.resolveState

LEMMA ConnectReady ==
  ASSUME NEW s, NEW c, Ready(s, c), NEW lacks, s.tcp.resolveState = "resolveFinished"
  PROVE  Calls(s, c, Connect(s, lacks))
<1> DEFINE fresh == s.conn.state = "created"
           t == Control(s, "TCPActiveOpen", fresh, lacks)
           pb == Block(s, "TCPActiveOpen", fresh)
           u == IF fresh /\ t.ops # s.ops THEN [t EXCEPT !.conn.state = "opening"] ELSE t
<1>1. s \in State /\ s.tcp \in Data /\ s.tcp.issued \in Nat /\ s.conn \in Conn
  BY DEF Ready, Owner, State, Data
<1>2. Connect(s, lacks) = u
  BY DEF Connect
<1>3. CASE t = Tell(s, "error")
  <2>1. t.ops = s.ops
    BY KnownCalls, <1>1, <1>3, TellEffect
  <2>2. u = t
    BY <2>1
  <2> HIDE DEF t, u
  <2>3. Ready(t, c) /\ SameHost(s, t)
    BY <1>3, TellReady
  <2> QED
    BY <1>1, <1>2, <2>2, <2>3 DEF Calls, SameHost
<1>4. CASE Issues(s, t, pb)
  <2>0. /\ t \in State /\ t.ops = s.ops \cup {pb}
        /\ t.heap = s.heap \cup {s.tcp.issued + 1} /\ t.calls = s.calls
        /\ t.conn = s.conn /\ t.tcp = [s.tcp EXCEPT !.issued = @ + 1]
    BY <1>4 DEF Issues
  <2>1. /\ pb.id = s.tcp.issued + 1 /\ pb.code = "TCPActiveOpen" /\ pb.live = fresh
        /\ pb.addr = s.tcp.addr /\ pb \in Op
    BY <1>1 DEF Block, Op, Data, Codes
  <2>2. pb \notin s.ops
    <3>1. \A p \in s.ops : p.id \in 1..s.tcp.issued
      BY DEF Ready, Owner, Unique
    <3> QED
      BY <1>1, <2>1, <3>1
  <2> HIDE DEF t, pb
  <2>3. t.ops # s.ops
    BY <2>0, <2>2
  <2>4. /\ u.tcp = t.tcp /\ u.ops = t.ops /\ u.heap = t.heap /\ u.calls = t.calls
        /\ u.conn.state = (IF fresh THEN "opening" ELSE s.conn.state)
        /\ u \in State /\ SameFlow(s.conn, u.conn)
    <3>1. /\ [t.conn EXCEPT !.state = "opening"] \in Conn
          /\ SameFlow(s.conn, [t.conn EXCEPT !.state = "opening"])
      BY <1>1, <2>0 DEF Conn, SameFlow
    <3>2. fresh => u = [t EXCEPT !.conn = [t.conn EXCEPT !.state = "opening"]]
      BY <2>3, <2>0 DEF State
    <3>3. ~ fresh => u = t
      OBVIOUS
    <3>4. [t.conn EXCEPT !.state = "opening"].state = "opening"
      BY <1>1, <2>0 DEF Conn
    <3> HIDE DEF u
    <3> QED
      BY <2>0, <3>1, <3>2, <3>3, <3>4 DEF State, SameFlow
  <2> HIDE DEF u
  <2>5. /\ u.ops = s.ops \cup {pb} /\ u.heap = s.heap \cup {pb.id}
        /\ u.tcp.issued = s.tcp.issued + 1 /\ u.tcp.resolveState = s.tcp.resolveState
        /\ u.tcp.addr = s.tcp.addr /\ u.tcp.hostInfo = s.tcp.hostInfo
        /\ u.tcp.provided = s.tcp.provided
    BY <1>1, <2>0, <2>1, <2>4 DEF Data
  <2>6. Hears(s, u) /\ \A what : Heard(s, what) = Heard(u, what)
    BY <2>0, <2>4 DEF Hears, Heard
  <2>7. IF Slot(pb) THEN s.conn.state = "created" /\ u.conn.state = "opening"
        ELSE u.conn.state = s.conn.state
    BY <2>1, <2>4 DEF Slot
  <2>8. Owner(u, c)
    <3>1. pb.code # "TCPRcv"
      BY <2>1
    <3> QED
      BY <2>1, <2>4, <2>5, <2>6, <2>7, <3>1, OwnerIssues DEF Ready
  <2>9. Answered(u)
    BY <2>1, <2>5, <2>6 DEF Answered, Ready
  <2>10. Story(u, c)
    <3>1. s.calls \in Seq(Call) /\ Quiet(s, u)
      BY <1>1, <2>0, <2>4 DEF State, Quiet
    <3>2. u.conn.state = s.conn.state \/ ~ Heard(s, "open")
      BY <2>4 DEF Ready, Story, Flow
    <3>3. \A p \in u.ops : p.code = "TCPRcv" => p \in s.ops
      BY <2>1, <2>5
    <3> QED
      BY <2>4, <2>5, <3>1, <3>2, <3>3, StoryQuiet DEF Ready
  <2> QED
    BY <1>1, <1>2, <2>5, <2>8, <2>9, <2>10 DEF Calls, Ready
<1> QED
  <2>1. fresh \in BOOLEAN /\ "TCPActiveOpen" \in Codes
    BY DEF Codes
  <2>2. t = Tell(s, "error") \/ Issues(s, t, pb)
    BY <1>1, <2>1, ControlEffect
  <2> QED
    BY <1>3, <1>4, <2>2

LEMMA CloseReady ==
  ASSUME NEW s, NEW c, Ready(s, c), NEW lacks
  PROVE  Calls(s, c, TCPStreamClose(s, lacks))
<1> DEFINE live == s.conn.state = "open" /\ ~ s.conn.closed
           t == Control(s, "TCPClose", live, lacks)
           pb == Block(s, "TCPClose", live)
           u == IF live /\ t.ops # s.ops THEN [t EXCEPT !.conn.closed = TRUE] ELSE t
<1>1. s \in State /\ s.tcp \in Data /\ s.tcp.issued \in Nat /\ s.conn \in Conn
  BY DEF Ready, Owner, State, Data
<1>2. TCPStreamClose(s, lacks) \in {s, u}
  BY DEF TCPStreamClose
<1>3. Calls(s, c, s)
  BY <1>1 DEF Calls
<1>4. CASE t = Tell(s, "error")
  <2>1. t.ops = s.ops
    BY KnownCalls, <1>1, <1>4, TellEffect
  <2>2. u = t
    BY <2>1
  <2> HIDE DEF t, u
  <2>3. Ready(t, c) /\ SameHost(s, t)
    BY <1>4, TellReady
  <2> QED
    BY <1>1, <1>2, <1>3, <2>2, <2>3 DEF Calls, SameHost
<1>5. CASE Issues(s, t, pb)
  <2>0. /\ t \in State /\ t.ops = s.ops \cup {pb}
        /\ t.heap = s.heap \cup {s.tcp.issued + 1} /\ t.calls = s.calls
        /\ t.conn = s.conn /\ t.tcp = [s.tcp EXCEPT !.issued = @ + 1]
    BY <1>5 DEF Issues
  <2>1. pb.id = s.tcp.issued + 1 /\ pb.code = "TCPClose" /\ pb \in Op /\ ~ Slot(pb)
    BY <1>1 DEF Block, Op, Data, Codes, Slot
  <2> HIDE DEF t, pb
  <2>2. /\ u.tcp = t.tcp /\ u.ops = t.ops /\ u.heap = t.heap /\ u.calls = t.calls
        /\ u.conn.state = s.conn.state /\ u \in State /\ SameFlow(s.conn, u.conn)
    <3>1. /\ [t.conn EXCEPT !.closed = TRUE] \in Conn
          /\ [t.conn EXCEPT !.closed = TRUE].state = s.conn.state
          /\ SameFlow(s.conn, [t.conn EXCEPT !.closed = TRUE])
      BY <1>1, <2>0 DEF Conn, SameFlow
    <3>2. u \in {[t EXCEPT !.conn = [t.conn EXCEPT !.closed = TRUE]], t}
      BY <2>0 DEF State
    <3> HIDE DEF u
    <3> QED
      BY <2>0, <3>1, <3>2 DEF State, SameFlow
  <2> HIDE DEF u
  <2>3. /\ u.ops = s.ops \cup {pb} /\ u.heap = s.heap \cup {pb.id}
        /\ u.tcp.issued = s.tcp.issued + 1 /\ u.tcp.resolveState = s.tcp.resolveState
        /\ u.tcp.addr = s.tcp.addr /\ u.tcp.hostInfo = s.tcp.hostInfo
        /\ u.tcp.provided = s.tcp.provided
    BY <1>1, <2>0, <2>1, <2>2 DEF Data
  <2>4. Hears(s, u) /\ \A what : Heard(s, what) = Heard(u, what)
    BY <2>0, <2>2 DEF Hears, Heard
  <2>5. Owner(u, c)
    <3>1. pb.code # "TCPRcv"
      BY <2>1
    <3> QED
      BY <2>1, <2>2, <2>3, <2>4, <3>1, OwnerIssues DEF Ready
  <2>6. Answered(u)
    BY <2>1, <2>3, <2>4 DEF Answered, Ready
  <2>7. u.tcp.issued <= s.tcp.issued + 1 /\ u.tcp.provided
    BY <1>1, <2>3 DEF Ready
  <2>8. Story(u, c)
    <3>1. s.calls \in Seq(Call) /\ Quiet(s, u)
      BY <1>1, <2>0, <2>2 DEF State, Quiet
    <3>2. \A p \in u.ops : p.code = "TCPRcv" => p \in s.ops
      BY <2>1, <2>3
    <3> QED
      BY <2>2, <2>7, <3>1, <3>2, StoryQuiet DEF Ready
  <2>9. Calls(s, c, u)
    BY <2>3, <2>5, <2>6, <2>7, <2>8 DEF Calls, Ready
  <2> QED
    BY <1>2, <1>3, <2>9
<1> QED
  <2>1. live \in BOOLEAN /\ "TCPClose" \in Codes
    BY DEF Codes
  <2>2. t = Tell(s, "error") \/ Issues(s, t, pb)
    BY <1>1, <2>1, ControlEffect
  <2> QED
    BY <1>4, <1>5, <2>2

(* From a stream whose data changes to a call of Connect.                    *)
Opens(s, c, t) ==
  /\ Ready(t, c) /\ t.tcp.issued <= s.tcp.issued + 1
  /\ t.tcp.resolveState = "resolveFinished" \/ t.tcp.issued = s.tcp.issued

LEMMA ConnectOpens ==
  ASSUME NEW s, NEW c, NEW t, Ready(t, c), t.tcp.issued = s.tcp.issued,
         t.tcp.resolveState = "resolveFinished", NEW lacks
  PROVE  Opens(s, c, Connect(t, lacks))
BY ConnectReady DEF Calls, Opens

LEMMA ResolveCompletedReady ==
  ASSUME NEW s, NEW c, Ready(s, c), NEW lacks
  PROVE  Opens(s, c, ResolveCompleted(s, lacks))
<1> DEFINE t == [s EXCEPT !.tcp.resolveState = "resolveFinished", !.tcp.hostInfo = "freed"]
           d == [s.tcp EXCEPT !.resolveState = "resolveFinished", !.hostInfo = "freed"]
           e == [d EXCEPT !.addr = "host"]
           told == Tell(t, "error")
           u == [t EXCEPT !.tcp.addr = "host"]
<1>1. /\ s \in State /\ s.tcp \in Data /\ s.tcp.provided /\ s.tcp.issued \in Nat
      /\ s = [tcp |-> s.tcp, ops |-> s.ops, heap |-> s.heap, calls |-> s.calls,
              conn |-> s.conn]
  BY DEF Ready, Owner, State, Data
<1>2. /\ d \in Data /\ e \in Data /\ d.issued = s.tcp.issued /\ e.issued = s.tcp.issued
      /\ d.provided /\ e.provided /\ d.resolveState = "resolveFinished"
      /\ e.resolveState = "resolveFinished" /\ e.addr = "host" /\ d.addr = s.tcp.addr
  BY <1>1 DEF Data, Resolving, Hosts
<1>3. t = [s EXCEPT !.tcp = d] /\ u = [s EXCEPT !.tcp = e]
  <2>1. t = [s EXCEPT !.tcp = d]
    BY <1>1
  <2>2. u = [t EXCEPT !.tcp = [t.tcp EXCEPT !.addr = "host"]]
    BY <1>1
  <2> HIDE DEF t, u, d
  <2> QED
    BY <1>1, <2>1, <2>2
<1>4. ResolveCompleted(s, lacks) = IF s.tcp.hostInfo = "none" THEN told ELSE Connect(u, lacks)
  BY DEF ResolveCompleted
<1> HIDE DEF d, e, u
<1>5. Opens(s, c, Connect(u, lacks))
  <2>1. Ready(u, c) /\ u.tcp = e
    BY <1>2, <1>3, DataReady
  <2> QED
    BY <1>2, <2>1, ConnectOpens
<1> HIDE DEF t
<1>6. Opens(s, c, told)
  <2>1. /\ t \in State /\ t.tcp = d /\ t.ops = s.ops /\ t.heap = s.heap
        /\ t.calls = s.calls /\ t.conn = s.conn
    BY <1>1, <1>2, <1>3 DEF State
  <2>2. /\ told \in State /\ Hears(t, told) /\ Heard(told, "error") /\ told.tcp = d
        /\ told.ops = s.ops /\ told.heap = s.heap /\ told.conn = s.conn /\ Quiet(s, told)
    <3>1. Quiet(t, told)
      BY <2>1, TellQuiet
    <3>2. Quiet(s, told)
      BY <2>1, <3>1 DEF Quiet
    <3>3. /\ told \in State /\ Hears(t, told) /\ Heard(told, "error") /\ told.tcp = t.tcp
          /\ told.ops = t.ops /\ told.heap = t.heap /\ told.conn = t.conn
      BY KnownCalls, <2>1, TellEffect
    <3> QED
      BY <2>1, <3>2, <3>3
  <2> HIDE DEF told
  <2>3. Hears(s, told)
    BY <2>1, <2>2 DEF Hears, Heard
  <2>4. Owner(told, c)
    BY <1>2, <2>2, <2>3, OwnerKept DEF Ready
  <2>5. Answered(told)
    BY <1>2, <2>2 DEF Answered
  <2>6. Story(told, c)
    <3>1. s.calls \in Seq(Call) /\ SameFlow(s.conn, told.conn)
      BY <1>1, <2>2 DEF State, SameFlow
    <3> QED
      BY <1>2, <2>2, <3>1, StoryQuiet DEF Ready
  <2> QED
    BY <1>1, <1>2, <2>2, <2>4, <2>5, <2>6 DEF Opens, Ready
<1> QED
  BY <1>4, <1>5, <1>6

(* The fields that a resolution sets before it is answered.                  *)
LEMMA FieldsReady ==
  ASSUME NEW s, NEW c, Ready(s, c), NEW h \in Hosts
  PROVE  LET t == [s EXCEPT !.tcp.resolveState = "resolveInProgress"]
             u == [s EXCEPT !.tcp.resolverOpen = TRUE]
             v == [s EXCEPT !.tcp.hostInfo = h]
             x == [s EXCEPT !.tcp.resolveState = "resolveFinished", !.tcp.addr = "host"]
         IN /\ Ready(t, c) /\ t.tcp.issued = s.tcp.issued
            /\ t.tcp.resolveState = "resolveInProgress"
            /\ Ready(u, c) /\ u.tcp.issued = s.tcp.issued
            /\ u.tcp.resolveState = s.tcp.resolveState
            /\ s.tcp.resolveState = "resolveInProgress" =>
                 /\ Ready(v, c) /\ v.tcp.issued = s.tcp.issued
                 /\ v.tcp.resolveState = "resolveInProgress"
            /\ Ready(x, c) /\ x.tcp.issued = s.tcp.issued
            /\ x.tcp.resolveState = "resolveFinished"
<1> DEFINE t == [s EXCEPT !.tcp.resolveState = "resolveInProgress"]
           u == [s EXCEPT !.tcp.resolverOpen = TRUE]
           v == [s EXCEPT !.tcp.hostInfo = h]
           x == [s EXCEPT !.tcp.resolveState = "resolveFinished", !.tcp.addr = "host"]
           dt == [s.tcp EXCEPT !.resolveState = "resolveInProgress"]
           du == [s.tcp EXCEPT !.resolverOpen = TRUE]
           dv == [s.tcp EXCEPT !.hostInfo = h]
           dx == [s.tcp EXCEPT !.resolveState = "resolveFinished", !.addr = "host"]
<1>1. /\ s \in State /\ s.tcp \in Data /\ s.tcp.provided
      /\ s = [tcp |-> s.tcp, ops |-> s.ops, heap |-> s.heap, calls |-> s.calls,
              conn |-> s.conn]
  BY DEF Ready, Owner, State
<1>2. /\ t = [s EXCEPT !.tcp = dt] /\ u = [s EXCEPT !.tcp = du]
      /\ v = [s EXCEPT !.tcp = dv] /\ x = [s EXCEPT !.tcp = dx]
  BY <1>1
<1>3. /\ dt \in Data /\ dt.issued = s.tcp.issued /\ dt.provided
      /\ dt.resolveState = "resolveInProgress"
  BY <1>1 DEF Data, Resolving
<1>4. /\ du \in Data /\ du.issued = s.tcp.issued /\ du.provided
      /\ du.resolveState = s.tcp.resolveState /\ du.addr = s.tcp.addr
      /\ du.hostInfo = s.tcp.hostInfo
  BY <1>1 DEF Data
<1>5. /\ dv \in Data /\ dv.issued = s.tcp.issued /\ dv.provided
      /\ dv.resolveState = s.tcp.resolveState
  BY <1>1 DEF Data
<1>6. /\ dx \in Data /\ dx.issued = s.tcp.issued /\ dx.provided
      /\ dx.resolveState = "resolveFinished" /\ dx.addr = "host"
  BY <1>1 DEF Data, Resolving
<1>7. Answered(s)
  BY DEF Ready
<1> HIDE DEF t, u, v, x, dt, du, dv, dx
<1>8. Ready(t, c) /\ t.tcp = dt
  BY <1>2, <1>3, DataReady
<1>9. Ready(u, c) /\ u.tcp = du
  BY <1>2, <1>4, <1>7, DataReady DEF Answered
<1>10. s.tcp.resolveState = "resolveInProgress" => Ready(v, c) /\ v.tcp = dv
  BY <1>2, <1>5, DataReady
<1>11. Ready(x, c) /\ x.tcp = dx
  BY <1>2, <1>6, DataReady
<1>12. /\ Ready(t, c) /\ t.tcp.issued = s.tcp.issued
       /\ t.tcp.resolveState = "resolveInProgress"
       /\ Ready(u, c) /\ u.tcp.issued = s.tcp.issued
       /\ u.tcp.resolveState = s.tcp.resolveState
       /\ s.tcp.resolveState = "resolveInProgress" =>
            /\ Ready(v, c) /\ v.tcp.issued = s.tcp.issued
            /\ v.tcp.resolveState = "resolveInProgress"
       /\ Ready(x, c) /\ x.tcp.issued = s.tcp.issued
       /\ x.tcp.resolveState = "resolveFinished"
  BY <1>3, <1>4, <1>5, <1>6, <1>8, <1>9, <1>10, <1>11
<1> QED
  BY <1>12 DEF t, u, v, x

LEMMA ResolveReady ==
  ASSUME NEW s, NEW c, Ready(s, c), NEW answer \in {"asked", "address", "none"}, NEW lacks
  PROVE  Opens(s, c, Resolve(s, answer, lacks))
<1> DEFINE t == [s EXCEPT !.tcp.resolveState = "resolveInProgress"]
           u == [t EXCEPT !.tcp.resolverOpen = TRUE]
           v == [u EXCEPT !.tcp.hostInfo = answer]
           w == [v EXCEPT !.tcp.hostInfo = "refused"]
           x == [s EXCEPT !.tcp.resolveState = "resolveFinished", !.tcp.addr = "host"]
<1>0. answer \in Hosts /\ "refused" \in Hosts /\ s.tcp.issued \in Nat
  BY DEF Hosts, Ready, Owner, State, Data
<1>1. Resolve(s, answer, lacks) \in {s, Connect(x, lacks), t, u, w, v,
                                     ResolveCompleted(v, lacks)}
  BY SMTT(30) DEF Resolve
<1>2. /\ Ready(t, c) /\ t.tcp.issued = s.tcp.issued
      /\ t.tcp.resolveState = "resolveInProgress"
      /\ Ready(x, c) /\ x.tcp.issued = s.tcp.issued
      /\ x.tcp.resolveState = "resolveFinished"
  BY <1>0, FieldsReady, ZenonT(60)
<1> HIDE DEF t, x
<1>3. /\ Ready(u, c) /\ u.tcp.issued = s.tcp.issued
      /\ u.tcp.resolveState = "resolveInProgress"
  BY <1>0, <1>2, FieldsReady, ZenonT(60)
<1> HIDE DEF u
<1> HIDE DEF w
<1>4. /\ Ready(v, c) /\ v.tcp.issued = s.tcp.issued
      /\ v.tcp.resolveState = "resolveInProgress"
  <2>1. u.tcp.resolveState = "resolveInProgress" =>
          /\ Ready([u EXCEPT !.tcp.hostInfo = answer], c)
          /\ [u EXCEPT !.tcp.hostInfo = answer].tcp.issued = u.tcp.issued
          /\ [u EXCEPT !.tcp.hostInfo = answer].tcp.resolveState = "resolveInProgress"
    <3> HIDE DEF v
    <3> QED
      BY <1>0, <1>3, FieldsReady, ZenonT(60)
  <2> QED
    BY <1>3, <2>1
<1> HIDE DEF v
<1>5. /\ Ready(w, c) /\ w.tcp.issued = s.tcp.issued
  BY <1>0, <1>4, FieldsReady, ZenonT(60) DEF w
<1>6. Opens(s, c, Connect(x, lacks))
  BY <1>2, ConnectOpens
<1>7. Opens(s, c, ResolveCompleted(v, lacks))
  BY <1>4, ResolveCompletedReady DEF Opens
<1>8. Opens(s, c, s) /\ Opens(s, c, t) /\ Opens(s, c, u) /\ Opens(s, c, v) /\ Opens(s, c, w)
  BY <1>0, <1>2, <1>3, <1>4, <1>5 DEF Opens
<1> QED
  BY <1>1, <1>6, <1>7, <1>8

LEMMA OpenReady ==
  ASSUME NEW s, NEW c, Ready(s, c), NEW answer \in {"asked", "address", "none"}, NEW lacks
  PROVE  Opens(s, c, TCPStreamOpen(s, answer, lacks))
<1>1. TCPStreamOpen(s, answer, lacks) =
        IF s.tcp.resolveState # "resolveFinished" THEN Resolve(s, answer, lacks)
        ELSE Connect(s, lacks)
  BY DEF TCPStreamOpen
<1> QED
  BY <1>1, ResolveReady, ConnectOpens

-----------------------------------------------------------------------------
(* One turn of the loop of TCPStreamPoll.                                    *)

Polls(s, c, t) == Ready(t, Tail(c)) /\ t.tcp.issued = s.tcp.issued
                  /\ t.tcp.resolveState = s.tcp.resolveState

LEMMA FreePolls ==
  ASSUME NEW s, NEW c, Ready(s, c), c # <<>>, NEW t \in State, SameHost(s, t), Hears(s, t),
         t.ops = s.ops, t.heap = s.heap, Story(t, Tail(c)),
         t.conn.state = s.conn.state \/ (SlotDone(Head(c)) /\ t.conn.state = "released")
  PROVE  Polls(s, c, Free(t, Head(c).id))
<1> DEFINE u == Free(t, Head(c).id)
<1>1. /\ u \in State /\ u.tcp = t.tcp /\ u.ops = t.ops /\ u.heap = t.heap \ {Head(c).id}
      /\ u.calls = t.calls /\ u.conn = t.conn
  BY DEF Free, State
<1> HIDE DEF u
<1>2. SameHost(s, u) /\ Hears(s, u)
  BY <1>1 DEF SameHost, Hears, Heard
<1>3. Owner(u, Tail(c))
  BY <1>1, <1>2, OwnerFrees DEF Ready, SameHost
<1>4. Answered(u)
  BY <1>1, <1>2, AnsweredKept DEF Ready
<1>5. Story(u, Tail(c))
  <2>1. (\A what : Heard(u, what) <=> Heard(t, what)) /\ Given(u) = Given(t)
    BY <1>1 DEF Heard, Given
  <2>2. Live(u) = Live(t) /\ Handed(u) = Handed(t) /\ Reading(u) = Reading(t)
    BY <1>1, <2>1 DEF Live, Handed, Reading
  <2>3. \A d : Brings(u, d) = Brings(t, d)
    BY <1>1, <2>1 DEF Brings
  <2> QED
    BY <1>1, <2>1, <2>2, <2>3 DEF Story, Flow
<1> QED
  BY <1>2, <1>3, <1>4, <1>5 DEF Polls, Ready, SameHost, u

LEMMA ReceivePolls ==
  ASSUME NEW s, NEW c, Ready(s, c), c # <<>>, SlotDone(Head(c)),
         NEW t \in State, SameHost(s, t), Hears(s, t),
         t.ops = s.ops, t.heap = s.heap, t.conn.state = s.conn.state,
         Story(t, Tail(c)), Live(t)
  PROVE  Polls(s, c, TCPStreamReceive(t, Head(c).id))
<1> DEFINE u == TCPStreamReceive(t, Head(c).id)
           pb == [id |-> Head(c).id, code |-> "TCPRcv", live |-> TRUE, addr |-> "host"]
<1>1. Head(c) \in Done
  BY TailFacts DEF Ready, Owner
<1>2. pb \in Op /\ pb.id = Head(c).id /\ pb.code = "TCPRcv"
  BY <1>1 DEF Op, Done, Codes
<1>3. /\ u.tcp = t.tcp /\ u.ops = t.ops \cup {pb} /\ u.heap = t.heap
      /\ u.calls = t.calls /\ u.conn = t.conn
      /\ u = [t EXCEPT !.ops = @ \cup {pb}]
  BY DEF TCPStreamReceive, State
<1> HIDE DEF u, pb
<1>4. u \in State
  BY <1>2, <1>3 DEF State
<1>5. SameHost(s, u) /\ Hears(s, u)
  BY <1>3 DEF SameHost, Hears, Heard
<1>6. Owner(u, Tail(c))
  BY <1>2, <1>3, <1>4, <1>5, OwnerReceives DEF Ready, SameHost
<1>7. Answered(u)
  BY <1>2, <1>3, <1>5, AnsweredKept DEF Ready
<1>8. Story(u, Tail(c))
  BY <1>3, StoryReceives
<1> QED
  BY <1>5, <1>6, <1>7, <1>8 DEF Polls, Ready, SameHost, u

(* What a call of the consumer leaves alone.                                 *)
Talks(s, t) ==
  /\ t \in State /\ SameHost(s, t) /\ Hears(s, t)
  /\ t.ops = s.ops /\ t.heap = s.heap /\ t.conn.state = s.conn.state

LEMMA TellTalks ==
  ASSUME NEW s \in State, NEW what \in Calling
  PROVE  Talks(s, Tell(s, what)) /\ Heard(Tell(s, what), what)
<1> DEFINE t == Tell(s, what)
<1>1. /\ t \in State /\ Hears(s, t) /\ Heard(t, what) /\ t.tcp = s.tcp /\ t.ops = s.ops
      /\ t.heap = s.heap /\ t.conn = s.conn
  BY TellEffect
<1> HIDE DEF t
<1>2. Talks(s, t) /\ Heard(t, what)
  BY <1>1 DEF Talks, SameHost
<1> QED
  BY <1>2 DEF t

(* A block that carried nothing of the connection is taken out of the queue. *)
LEMMA StoryTail ==
  ASSUME NEW s, NEW c, Ready(s, c), c # <<>>, Head(c).code # "TCPRcv",
         NEW t, Quiet(s, t), t.conn = s.conn, t.ops = s.ops, t.tcp = s.tcp
  PROVE  Story(t, Tail(c))
<1> DEFINE r == Tail(c)
<1>1. /\ r \in Seq(Done) /\ Head(c) = c[1] /\ 1 \in 1..Len(c)
      /\ \A i \in 1..Len(r) : i + 1 \in 1..Len(c) /\ r[i] = c[i + 1]
      /\ \A j \in 1..Len(c) : j # 1 => j - 1 \in 1..Len(r) /\ c[j] = r[j - 1]
      /\ s.calls \in Seq(Call) /\ SameFlow(s.conn, t.conn)
  BY TailFacts DEF Ready, Owner, State, SameFlow
<1> HIDE DEF r
<1>2. \A i \in Reads(r) : \E j \in Reads(c) : c[j] = r[i]
  BY <1>1 DEF Reads
<1>3. \A j \in Reads(c) : \E i \in Reads(r) : c[j] = r[i]
  BY <1>1 DEF Reads
<1>4. \A i \in 1..Len(r) : \E j \in 1..Len(c) : c[j] = r[i]
  BY <1>1
<1>5. Story(t, r)
  BY <1>1, <1>2, <1>3, <1>4, StoryKept DEF Ready
<1> QED
  BY <1>5 DEF r

LEMMA OpenedPolls ==
  ASSUME NEW s, NEW c, Ready(s, c), c # <<>>, Head(c).code = "TCPActiveOpen"
  PROVE  Polls(s, c, Opened(s, Head(c)))
<1> DEFINE good == Tell(s, "open")
           bad == Tell(s, "error")
<1>1. Talks(s, good) /\ Talks(s, bad)
  BY KnownCalls, TellTalks DEF Ready, Owner
<1>2. Opened(s, Head(c)) = IF Head(c).result = "noErr" THEN TCPStreamReceive(good, Head(c).id)
                           ELSE Free(bad, Head(c).id)
  BY DEF Opened
<1>3. /\ good.ops = s.ops /\ good.conn = s.conn /\ good.tcp = s.tcp
      /\ \E call \in Call : call.what = "open" /\ good.calls = Append(s.calls, call)
  BY KnownCalls, TellEffect DEF Ready, Owner
<1>4. bad.ops = s.ops /\ bad.conn = s.conn /\ bad.tcp = s.tcp /\ Quiet(s, bad)
  BY KnownCalls, TellEffect, TellQuiet DEF Ready, Owner
<1> HIDE DEF good, bad
<1>5. ASSUME Head(c).result = "noErr" PROVE Polls(s, c, TCPStreamReceive(good, Head(c).id))
  <2>1. SlotDone(Head(c)) /\ Connected(Head(c))
    BY <1>5 DEF SlotDone, Connected
  <2>2. Story(good, Tail(c)) /\ Live(good)
    BY <1>3, <2>1, StoryOpens DEF Ready
  <2> QED
    BY <1>1, <2>1, <2>2, ReceivePolls DEF Talks
<1>6. Polls(s, c, Free(bad, Head(c).id))
  <2>1. Story(bad, Tail(c))
    BY <1>4, StoryTail
  <2> QED
    BY <1>1, <2>1, FreePolls DEF Talks
<1> QED
  BY <1>2, <1>5, <1>6

LEMMA ClosePolls ==
  ASSUME NEW s, NEW c, Ready(s, c), c # <<>>, Head(c).code = "TCPClose"
  PROVE  Polls(s, c, CloseDone(s, Head(c)))
<1>1. CloseDone(s, Head(c)) \in {Free(Tell(s, what), Head(c).id) : what \in {"end", "error"}}
  BY DEF CloseDone
<1>2. ASSUME NEW what \in {"end", "error"}
      PROVE  Polls(s, c, Free(Tell(s, what), Head(c).id))
  <2> DEFINE t == Tell(s, what)
  <2>1. Talks(s, t)
    BY KnownCalls, TellTalks DEF Ready, Owner
  <2>2. t.ops = s.ops /\ t.conn = s.conn /\ t.tcp = s.tcp /\ Quiet(s, t)
    <3>1. s \in State /\ what \in Calling
      BY KnownCalls DEF Ready, Owner
    <3>2. Quiet(s, t)
      BY <3>1, TellQuiet
    <3> QED
      BY <3>1, <3>2, TellEffect
  <2> HIDE DEF t
  <2>3. Story(t, Tail(c))
    BY <2>2, StoryTail
  <2>4. Polls(s, c, Free(t, Head(c).id))
    BY <2>1, <2>3, FreePolls DEF Talks
  <2> QED
    BY <2>4 DEF t
<1> QED
  BY <1>1, <1>2

(* The calls of TCPStreamClosed: on_close, and the error of the release.      *)
Shuts(told, next) ==
  \E e \in Seq(Call) : /\ \E call \in Call : call.what = "close" /\ e = Append(told, call)
                       /\ Follows(e, next, {"error"})

LEMMA ClosedEffect ==
  ASSUME NEW s \in State, NEW known \in BOOLEAN
  PROVE  LET t == TCPStreamClosed(s, known) IN
         /\ t \in State /\ SameHost(s, t) /\ Hears(s, t) /\ Heard(t, "close")
         /\ t.ops = s.ops /\ t.heap = s.heap /\ t.conn.state \in {s.conn.state, "released"}
         /\ SameFlow(s.conn, t.conn)
         /\ Shuts(s.calls, t.calls)
<1> DEFINE t == TCPStreamClosed(s, known)
           u == Tell(s, "close")
           w == IF known THEN u ELSE Tell(u, "error")
           v == TCPStreamRelease(u, known)
<1>1. /\ u \in State /\ Hears(s, u) /\ Heard(u, "close") /\ u.tcp = s.tcp /\ u.ops = s.ops
      /\ u.heap = s.heap /\ u.conn = s.conn
      /\ \E call \in Call : call.what = "close" /\ u.calls = Append(s.calls, call)
  BY KnownCalls, TellEffect
<1>2. t \in {u, v}
  BY DEF TCPStreamClosed
<1> HIDE DEF t, u
<1>3. /\ w \in State /\ Hears(u, w) /\ w.tcp = u.tcp /\ w.ops = u.ops /\ w.heap = u.heap
      /\ w.conn = u.conn /\ Follows(u.calls, w.calls, {"error"})
  <2>1. CASE known
    BY <1>1, <2>1 DEF Hears, Follows
  <2>2. CASE ~ known
    <3> DEFINE x == Tell(u, "error")
    <3>1. /\ x \in State /\ Hears(u, x) /\ x.tcp = u.tcp /\ x.ops = u.ops /\ x.heap = u.heap
          /\ x.conn = u.conn
          /\ \E call \in Call : call.what = "error" /\ x.calls = Append(u.calls, call)
      BY <1>1, KnownCalls, TellEffect
    <3>2. w = x
      BY <2>2
    <3> HIDE DEF x, w
    <3>3. Follows(u.calls, x.calls, {"error"})
      BY <3>1 DEF Follows
    <3> QED
      BY <3>1, <3>2, <3>3
  <2> QED
    BY <2>1, <2>2
<1>4. v = [w EXCEPT !.tcp.tcpStream = FALSE, !.conn.state = "released"]
  BY DEF TCPStreamRelease
<1> HIDE DEF v, w
<1>5. /\ v \in State /\ SameHost(s, v) /\ v.calls = w.calls
      /\ v.ops = s.ops /\ v.heap = s.heap /\ v.conn.state = "released"
      /\ SameFlow(s.conn, v.conn)
  <2> DEFINE d == [w.tcp EXCEPT !.tcpStream = FALSE]
             e == [w.conn EXCEPT !.state = "released"]
  <2>1. /\ w = [tcp |-> w.tcp, ops |-> w.ops, heap |-> w.heap, calls |-> w.calls,
                conn |-> w.conn]
        /\ w.tcp \in Data /\ w.conn \in Conn
    BY <1>3 DEF State
  <2>2. v = [w EXCEPT !.tcp = d, !.conn = e]
    BY <1>4, <2>1
  <2>3. /\ d \in Data /\ e \in Conn /\ e.state = "released"
        /\ d.resolveState = w.tcp.resolveState /\ d.addr = w.tcp.addr
        /\ d.hostInfo = w.tcp.hostInfo /\ d.provided = w.tcp.provided
        /\ d.issued = w.tcp.issued /\ SameFlow(w.conn, e)
    BY <2>1 DEF Data, Conn, SameFlow
  <2> HIDE DEF d, e
  <2>4. /\ v.tcp = d /\ v.conn = e /\ v.ops = w.ops /\ v.heap = w.heap /\ v.calls = w.calls
        /\ v \in State
    BY <1>3, <2>1, <2>2, <2>3 DEF State
  <2>5. SameHost(s, v)
    BY <1>1, <1>3, <2>3, <2>4 DEF SameHost
  <2>6. SameFlow(s.conn, v.conn) /\ v.conn.state = "released"
    BY <1>1, <1>3, <2>3, <2>4 DEF SameFlow
  <2>7. v.calls = w.calls /\ v.ops = s.ops /\ v.heap = s.heap
    BY <1>1, <1>3, <2>4
  <2> QED
    BY <2>4, <2>5, <2>6, <2>7
<1>6. Hears(s, v) /\ Heard(v, "close")
  <2>1. Heard(w, "close")
    BY <1>1, <1>3 DEF Hears
  <2>2. \A what : Heard(w, what) => Heard(v, what)
    BY <1>5 DEF Heard
  <2>3. \A what : Heard(s, what) => Heard(w, what)
    BY <1>1, <1>3 DEF Hears
  <2> QED
    BY <2>1, <2>2, <2>3 DEF Hears
<1>7. SameHost(s, u) /\ SameFlow(s.conn, u.conn)
  BY <1>1 DEF SameHost, SameFlow
<1>8. Shuts(s.calls, u.calls) /\ Shuts(s.calls, v.calls)
  <2>1. u.calls \in Seq(Call)
    BY <1>1 DEF State
  <2>2. Follows(u.calls, u.calls, {"error"}) /\ Follows(u.calls, v.calls, {"error"})
    BY <1>3, <1>5 DEF Follows
  <2> QED
    BY <1>1, <2>1, <2>2 DEF Shuts
<1>9. /\ t \in State /\ SameHost(s, t) /\ Hears(s, t) /\ Heard(t, "close")
      /\ t.ops = s.ops /\ t.heap = s.heap /\ t.conn.state \in {s.conn.state, "released"}
      /\ SameFlow(s.conn, t.conn)
      /\ Shuts(s.calls, t.calls)
  BY <1>1, <1>2, <1>5, <1>6, <1>7, <1>8
<1> QED
  BY <1>9 DEF t

LEMMA Chains ==
  ASSUME NEW s, NEW t, NEW u, SameHost(s, t), SameHost(t, u), Hears(s, t), Hears(t, u)
  PROVE  SameHost(s, u) /\ Hears(s, u)
BY DEF SameHost, Hears

LEMMA ReceivedPolls ==
  ASSUME NEW s, NEW c, Ready(s, c), c # <<>>, Head(c).code = "TCPRcv", NEW known \in BOOLEAN
  PROVE  Polls(s, c, Received(s, Head(c), known))
<1> DEFINE pb == Head(c)
           given == Deliver(s, pb.data)
           t == IF pb.rcvBuffLen > 0 THEN given ELSE s
           told == Tell(t, "error")
           well == TCPStreamClosed(t, known)
           ill == TCPStreamClosed(told, known)
<1>1. /\ pb \in Done /\ pb.data \in Nat /\ SlotDone(pb) /\ Brings(s, pb)
      /\ pb.result \in {"noErr", "connectionClosing", "connectionTerminated"}
      /\ s \in State /\ s.calls \in Seq(Call)
  <2>1. /\ c \in Seq(Done) /\ pb \in Done /\ pb = c[1] /\ 1 \in 1..Len(c)
        /\ OneSlot(s, c) /\ Flow(s, c) /\ s \in State
    BY TailFacts DEF Ready, Owner, Story
  <2>2. 1 \in Reads(c)
    BY <2>1 DEF Reads
  <2> QED
    BY <2>1, <2>2 DEF Done, SlotDone, OneSlot, Flow, State
<1>2. Received(s, pb, known) =
        CASE pb.result = "noErr"             -> TCPStreamReceive(t, pb.id)
          [] pb.result = "connectionClosing" -> Free(well, pb.id)
          [] pb.result = "connectionTerminated" -> ill
          [] OTHER                           -> told
  BY DEF Received
<1>3. /\ Talks(s, given) /\ given.conn = s.conn /\ given.tcp = s.tcp
      /\ \E call \in Call : OnData(s, call, pb.data) /\ given.calls = Append(s.calls, call)
  BY <1>1, DeliverEffect DEF Talks, SameHost
<1>4. CASE pb.result = "noErr"
  <2>1. Received(s, pb, known) = TCPStreamReceive(given, pb.id)
    BY <1>1, <1>2, <1>4 DEF Brings
  <2> HIDE DEF given
  <2>2. Story(given, Tail(c)) /\ Live(given)
    BY <1>3, <1>4, StoryReads DEF Ready, Talks
  <2>3. Polls(s, c, TCPStreamReceive(given, pb.id))
    BY <1>1, <1>3, <2>2, ReceivePolls DEF Talks
  <2> QED
    BY <2>1, <2>3
<1> HIDE DEF given
<1>5. ASSUME pb.result # "noErr"
      PROVE  Talks(s, t) /\ t.conn = s.conn /\ t.tcp = s.tcp /\ Follows(s.calls, t.calls, {"residue"})
  <2>1. pb.data = 0
    BY <1>1, <1>5 DEF Brings
  <2>2. CASE pb.rcvBuffLen > 0
    BY <1>3, <2>1, <2>2 DEF Follows, OnData
  <2>3. CASE ~ (pb.rcvBuffLen > 0)
    BY <1>1, <2>3 DEF Talks, SameHost, Hears, Follows
  <2> QED
    BY <2>2, <2>3
<1> HIDE DEF t, told, well, ill
<1>6. CASE pb.result = "connectionClosing"
  <2>1. Talks(s, t) /\ t.conn = s.conn /\ Follows(s.calls, t.calls, {"residue"})
        /\ t \in State /\ t.calls \in Seq(Call)
    BY <1>5, <1>6 DEF Talks, State
  <2>2. /\ well \in State /\ SameHost(t, well) /\ Hears(t, well)
        /\ well.ops = t.ops /\ well.heap = t.heap /\ SameFlow(t.conn, well.conn)
        /\ well.conn.state \in {t.conn.state, "released"} /\ Shuts(t.calls, well.calls)
    BY <2>1, ClosedEffect DEF well
  <2>3. SameHost(s, well) /\ Hears(s, well)
    BY <2>1, <2>2, Chains DEF Talks
  <2>4. Ends(s.calls, well.calls, FALSE)
    BY <2>1, <2>2 DEF Ends, Shuts
  <2>5. Story(well, Tail(c))
    BY <1>6, <2>1, <2>2, <2>3, <2>4, StoryCloses DEF Ready, SameHost, Talks
  <2>6. Polls(s, c, Free(well, pb.id))
    BY <1>1, <2>1, <2>2, <2>3, <2>5, FreePolls DEF Talks
  <2> QED
    BY <1>2, <1>6, <2>6
<1>7. CASE pb.result = "connectionTerminated"
  <2>1. /\ Talks(s, t) /\ t.conn = s.conn /\ Follows(s.calls, t.calls, {"residue"})
        /\ t \in State /\ t.calls \in Seq(Call)
    BY <1>5, <1>7 DEF Talks, State
  <2>2. /\ Talks(t, told) /\ Heard(told, "error") /\ told \in State /\ told.conn = t.conn
        /\ \E call \in Call : call.what = "error" /\ told.calls = Append(t.calls, call)
    <3>1. Talks(t, told) /\ Heard(told, "error")
      BY <2>1, KnownCalls, TellTalks DEF told
    <3>2. /\ told.conn = t.conn
          /\ \E call \in Call : call.what = "error" /\ told.calls = Append(t.calls, call)
      BY <2>1, KnownCalls, TellEffect DEF told
    <3> QED
      BY <3>1, <3>2 DEF Talks
  <2>3. /\ ill \in State /\ SameHost(told, ill) /\ Hears(told, ill) /\ Heard(ill, "close")
        /\ ill.ops = told.ops /\ ill.heap = told.heap /\ SameFlow(told.conn, ill.conn)
        /\ ill.conn.state \in {told.conn.state, "released"} /\ Shuts(told.calls, ill.calls)
    BY <2>2, ClosedEffect DEF ill
  <2>4. SameHost(s, ill) /\ Hears(s, ill) /\ Heard(ill, "error")
    <3>1. SameHost(s, told) /\ Hears(s, told)
      BY <2>1, <2>2, Chains DEF Talks
    <3>2. SameHost(s, ill) /\ Hears(s, ill)
      BY <2>3, <3>1, Chains
    <3> QED
      BY <2>2, <2>3, <3>2 DEF Hears
  <2>5. /\ ill.ops = s.ops /\ ill.heap = s.heap /\ ill.conn.state \in {s.conn.state, "released"}
        /\ SameFlow(s.conn, ill.conn)
    BY <2>1, <2>2, <2>3 DEF Talks
  <2>6. Owner(ill, Tail(c))
    BY <1>7, <2>3, <2>4, <2>5, OwnerLoses DEF Ready, SameHost
  <2>7. Answered(ill)
    BY <2>4, <2>5, AnsweredKept DEF Ready
  <2>8. Ends(s.calls, ill.calls, TRUE)
    <3>1. told.calls \in Seq(Call)
      BY <2>2 DEF State
    <3> QED
      BY <2>1, <2>2, <2>3, <3>1 DEF Ends, Shuts
  <2>9. Story(ill, Tail(c))
    BY <1>7, <2>4, <2>5, <2>8, StoryCloses DEF Ready, SameHost
  <2>10. Polls(s, c, ill)
    BY <2>4, <2>6, <2>7, <2>9 DEF Polls, Ready, SameHost
  <2> QED
    BY <1>2, <1>7, <2>10
<1> QED
  BY <1>1, <1>4, <1>6, <1>7

LEMMA CompletedPolls ==
  ASSUME NEW s, NEW c, Ready(s, c), c # <<>>, NEW known \in BOOLEAN
  PROVE  Polls(s, c, TCPStreamCompleted(s, Head(c), known))
<1>1. Head(c) \in Done /\ Head(c).code \in Codes
  BY TailFacts DEF Ready, Owner, Done
<1>2. \/ Head(c).code = "TCPActiveOpen" /\ TCPStreamCompleted(s, Head(c), known) = Opened(s, Head(c))
      \/ Head(c).code = "TCPClose" /\ TCPStreamCompleted(s, Head(c), known) = CloseDone(s, Head(c))
      \/ Head(c).code = "TCPRcv" /\ TCPStreamCompleted(s, Head(c), known) = Received(s, Head(c), known)
  BY <1>1 DEF TCPStreamCompleted, Codes
<1> QED
  BY <1>2, OpenedPolls, ClosePolls, ReceivedPolls

-----------------------------------------------------------------------------
(* The stream and its queue.                                                 *)

IInv ==
  /\ Owner(Now, completed) /\ Answered(Now) /\ Story(Now, completed)
  /\ ~ tcp.provided => heap = {} /\ tcp.resolveState = "notResolved"
  /\ \/ tcp.issued <= MaxIssued
     \/ tcp.resolveState = "resolveFinished" /\ tcp.issued <= MaxIssued + 1

LEMMA NowFields ==
  /\ Now.tcp = tcp /\ Now.ops = ops /\ Now.heap = heap /\ Now.calls = calls /\ Now.conn = conn
BY DEF Now

LEMMA NowBecomes ==
  ASSUME NEW t, t \in State, Becomes(t)
  PROVE  Now' = t
BY DEF Now, Becomes, State

LEMMA InitIInv == Init => IInv
<1> SUFFICES ASSUME Init PROVE IInv
  OBVIOUS
<1>1. /\ tcp \in Data /\ tcp.resolveState = "notResolved" /\ tcp.issued = 0
      /\ conn \in Conn /\ conn.state = "created"
      /\ ops = {} /\ heap = {} /\ calls = <<>> /\ completed = <<>>
  <2>1. PICK numeric \in BOOLEAN, open \in BOOLEAN : tcp = NewTCPData(numeric, open)
    BY DEF Init
  <2>2. tcp \in Data /\ tcp.resolveState = "notResolved" /\ tcp.issued = 0
    BY <2>1 DEF NewTCPData, Data, Resolving, Hosts
  <2>3. conn \in Conn /\ conn.state = "created"
    <3>1. <<>> \in Seq(Nat)
      OBVIOUS
    <3> QED
      BY <3>1 DEF Init, Conn
  <2> QED
    BY <2>2, <2>3 DEF Init
<1>2. Now \in State /\ completed \in Seq(Done) /\ 1..Len(completed) = {}
  <2>1. calls \in Seq(Call) /\ completed \in Seq(Done) /\ 1..Len(completed) = {}
    BY <1>1
  <2> QED
    BY <1>1, <2>1 DEF Now, State
<1>3. Unique(Now, completed) /\ OneSlot(Now, completed) /\ Lose(Now, completed) = {}
  BY <1>1, <1>2, NowFields DEF Unique, OneSlot, Lose
<1>4. Owner(Now, completed) /\ Answered(Now)
  BY <1>1, <1>2, <1>3, NowFields DEF Owner, OneLost, Answered
<1>5. Story(Now, completed)
  <2>1. \A what : At(calls, what) = {} /\ ~ Heard(Now, what)
    BY <1>1, NowFields DEF At, Heard
  <2>2. Script(calls)
    BY <2>1 DEF Script
  <2>3. Given(Now) = 0
    BY <2>1, FS_EmptySet, NowFields DEF Given
  <2>4. Reads(completed) = {} /\ Taken(completed) = 0 /\ ~ Reading(Now)
    BY <1>1, <1>2, NowFields DEF Reads, Taken, Reading
  <2>5. Pipe(conn, 0)
    BY DEF Init, Pipe
  <2>6. Handed(Now) /\ ~ Clean(Now.calls)
    BY <2>1, NowFields DEF Handed, Clean
  <2> QED
    BY <1>1, <1>2, <2>1, <2>2, <2>3, <2>4, <2>5, <2>6, NowFields DEF Story, Flow
<1> QED
  BY <1>1, <1>4, <1>5, BoundsAssumption DEF IInv

LEMMA ProvideIInv ==
  ASSUME IInv, NEW made \in BOOLEAN, Provide(made)
  PROVE  IInv'
<1> DEFINE s == Now
           t == Now'
<1>1. /\ s \in State /\ tcp \in Data /\ conn \in Conn /\ heap = {} /\ ops = {}
      /\ tcp.resolveState = "notResolved" /\ tcp.issued \in Nat
  <2>1. /\ s \in State /\ Unique(s, completed) /\ heap = {}
        /\ tcp.resolveState = "notResolved"
    BY DEF IInv, Owner, Provide
  <2> QED
    BY <2>1, NowFields DEF State, Data, Unique
<1>2. /\ tcp' = [tcp EXCEPT !.provided = TRUE, !.tcpStream = made]
      /\ conn' = [conn EXCEPT !.state = IF made THEN "created" ELSE "absent"]
      /\ calls' = IF made THEN calls ELSE Tell(s, "error").calls
      /\ ops' = ops /\ heap' = heap /\ completed' = completed
  BY DEF Provide
<1>3. /\ tcp' \in Data /\ tcp'.issued = tcp.issued /\ tcp'.provided
      /\ tcp'.resolveState = tcp.resolveState /\ conn' \in Conn
      /\ SameFlow(conn, conn')
  BY <1>1, <1>2 DEF Data, Conn, SameFlow
<1>4. /\ t.tcp = tcp' /\ t.ops = ops /\ t.heap = heap /\ t.calls = calls' /\ t.conn = conn'
      /\ s.tcp = tcp /\ s.ops = ops /\ s.heap = heap /\ s.calls = calls /\ s.conn = conn
      /\ t = [tcp |-> tcp', ops |-> ops, heap |-> heap, calls |-> calls', conn |-> conn']
  BY <1>2 DEF Now
<1>5. /\ Tell(s, "error") \in State /\ Hears(s, Tell(s, "error"))
      /\ Quiet(s, Tell(s, "error"))
  BY <1>1, KnownCalls, TellEffect, TellQuiet
<1>6. Owner(s, completed) /\ Story(s, completed) /\ ~ s.tcp.provided
  BY NowFields DEF IInv, Provide
<1> HIDE DEF s, t
<1>7. calls' \in Seq(Call) /\ Hears(s, t) /\ Quiet(s, t)
  <2>1. CASE made
    <3>1. t.calls = s.calls /\ calls' = s.calls
      BY <1>2, <1>4, <2>1
    <3> QED
      BY <1>1, <3>1 DEF State, Hears, Heard, Quiet
  <2>2. CASE ~ made
    <3> DEFINE u == Tell(s, "error")
    <3>1. u \in State /\ Hears(s, u) /\ Quiet(s, u) /\ t.calls = u.calls /\ calls' = u.calls
      BY <1>2, <1>4, <1>5, <2>2
    <3> HIDE DEF u
    <3>2. calls' \in Seq(Call)
      BY <3>1 DEF State
    <3>3. Hears(s, t) /\ Quiet(s, t)
      BY <3>1 DEF Hears, Heard, Quiet
    <3> QED
      BY <3>2, <3>3
  <2> QED
    BY <2>1, <2>2
<1>8. t \in State
  BY <1>1, <1>3, <1>4, <1>7 DEF State
<1>9. Owner(t, completed)
  BY <1>1, <1>3, <1>4, <1>6, <1>7, <1>8, OwnerConnects
<1>10. Answered(t)
  BY <1>1, <1>3, <1>4 DEF Answered
<1>11. Story(t, completed)
  <2>1. s.calls = <<>> /\ s.calls \in Seq(Call)
    BY <1>1, <1>6 DEF Story, Flow, State
  <2>2. ~ Heard(s, "open")
    BY <2>1 DEF Heard
  <2> QED
    BY <1>1, <1>3, <1>4, <1>6, <1>7, <2>1, <2>2, StoryQuiet
<1> QED
  BY <1>1, <1>2, <1>3, <1>9, <1>10, <1>11 DEF IInv, t

(* A call of the program, or the answer of the resolver that was waited for. *)
LEMMA OpensIInv ==
  ASSUME IInv, NEW t, Opens(Now, completed, t), Becomes(t), completed' = completed,
         tcp.issued < MaxIssued \/ (tcp.issued <= MaxIssued /\ tcp.resolveState # "resolveFinished")
  PROVE  IInv'
<1>1. Ready(t, completed) /\ t \in State
  BY DEF Opens, Ready, Owner
<1>2. Now' = t
  BY <1>1, NowBecomes
<1>3. tcp' = t.tcp /\ tcp.issued \in Nat /\ tcp'.issued \in Nat
  BY <1>1 DEF Becomes, IInv, Owner, Now, State, Data
<1>4. \/ tcp'.issued <= MaxIssued
      \/ tcp'.resolveState = "resolveFinished" /\ tcp'.issued <= MaxIssued + 1
  BY <1>3, NowFields, BoundsAssumption DEF Opens
<1> QED
  BY <1>1, <1>2, <1>3, <1>4 DEF IInv, Ready

(* What MacTCP may answer to a command.                                      *)
Ended(pb, result, data, length) ==
  /\ TCPIOComplete(pb, result, data, length) /\ conn' \in Conn
  /\ pb.code = "TCPRcv" =>
       result \in {"noErr", "connectionClosing", "connectionTerminated"}
  /\ \/ Slot(pb) /\ (pb.code = "TCPRcv" \/ result = "noErr")
        /\ conn'.state \in {"open", "aborted"}
     \/ Slot(pb) /\ pb.code # "TCPRcv" /\ result # "noErr" /\ conn'.state = "created"
     \/ ~ Slot(pb) /\ (pb.code = "TCPActiveOpen" => result # "noErr")
        /\ conn'.state = conn.state
  /\ \/ /\ pb.code # "TCPRcv" /\ SameFlow(conn, conn')
        /\ conn'.state = conn.state \/ conn.state = "opening"
        /\ pb.code = "TCPActiveOpen" /\ result = "noErr" => conn.state = "opening"
     \/ pb.code = "TCPRcv" /\ Comes(conn, conn', result, data, length)

LEMMA NextIInv == IInv /\ [Next]_vars => IInv'
<1> SUFFICES ASSUME IInv, [Next]_vars PROVE IInv'
  OBVIOUS
<1>0. /\ Owner(Now, completed) /\ Answered(Now) /\ Story(Now, completed)
      /\ Now \in State /\ completed \in Seq(Done)
      /\ tcp \in Data /\ conn \in Conn /\ tcp.issued \in Nat
      /\ tcp.provided => Ready(Now, completed)
  BY NowFields DEF IInv, Owner, State, Data, Ready
<1>1. ASSUME NEW made \in BOOLEAN, Provide(made)
      PROVE  IInv'
  BY <1>1, ProvideIInv
<1>2. ASSUME NEW answer \in {"asked", "address", "none"}, NEW lacks \in Lacks,
             Open(answer, lacks)
      PROVE  IInv'
  <2>1. Ready(Now, completed) /\ tcp.issued < MaxIssued /\ completed' = completed
    BY <1>0, <1>2 DEF Open, MayCall
  <2> DEFINE t == IF conn.state = "absent" THEN Now ELSE TCPStreamOpen(Now, answer, lacks)
  <2>2. Becomes(t)
    BY <1>2 DEF Open
  <2>3. Opens(Now, completed, t)
    <3>1. Opens(Now, completed, Now)
      BY <1>0, <2>1, NowFields DEF Opens
    <3>2. Opens(Now, completed, TCPStreamOpen(Now, answer, lacks))
      BY <2>1, OpenReady
    <3> QED
      BY <3>1, <3>2
  <2> HIDE DEF t
  <2> QED
    BY <2>1, <2>2, <2>3, OpensIInv
<1>3. ASSUME NEW lacks \in Lacks, Close(lacks)
      PROVE  IInv'
  <2>1. Ready(Now, completed) /\ tcp.issued < MaxIssued /\ completed' = completed
    BY <1>0, <1>3 DEF Close, MayCall
  <2> DEFINE t == TCPStreamClose(Now, lacks)
  <2>2. Becomes(t)
    BY <1>3 DEF Close
  <2>3. Calls(Now, completed, t)
    BY <2>1, CloseReady
  <2> HIDE DEF t
  <2>4. Ready(t, completed) /\ t \in State /\ t.tcp.issued <= tcp.issued + 1
    BY <2>3, NowFields DEF Calls, Ready, Owner
  <2>5. Now' = t
    BY <2>2, <2>4, NowBecomes
  <2>6. tcp' = t.tcp /\ tcp'.issued \in Nat
    BY <2>2, <2>4 DEF Becomes, State, Data
  <2>7. tcp'.issued <= MaxIssued
    BY <1>0, <2>1, <2>4, <2>6, BoundsAssumption
  <2> QED
    BY <2>1, <2>4, <2>5, <2>6, <2>7 DEF IInv, Ready
<1>4. ASSUME NEW lacks \in Lacks, Write(lacks)
      PROVE  IInv'
  <2>1. Ready(Now, completed) /\ tcp.issued < MaxIssued /\ completed' = completed
    BY <1>0, <1>4 DEF Write, MayCall
  <2> DEFINE t == TCPStreamWrite(Now, lacks)
  <2>2. Becomes(t)
    BY <1>4 DEF Write
  <2>3. Ready(t, completed) /\ t.tcp.issued = tcp.issued
    <3>1. t \in {Now, Tell(Now, "error")}
      BY DEF TCPStreamWrite
    <3>2. Ready(Tell(Now, "error"), completed) /\ SameHost(Now, Tell(Now, "error"))
      BY <2>1, TellReady
    <3> HIDE DEF t
    <3> QED
      BY <2>1, <3>1, <3>2, NowFields DEF SameHost
  <2> HIDE DEF t
  <2>4. Opens(Now, completed, t)
    BY <1>0, <2>3, NowFields DEF Opens
  <2> QED
    BY <2>1, <2>2, <2>4, OpensIInv
<1>5. ASSUME NEW lacks \in Lacks, PollResolved(lacks)
      PROVE  IInv'
  <2>1. /\ tcp.resolveState = "resolveCompleted" /\ completed' = completed
        /\ Becomes(ResolveCompleted(Now, lacks))
    BY <1>5 DEF PollResolved
  <2>2. tcp.provided /\ tcp.issued <= MaxIssued
    BY <2>1 DEF IInv
  <2>3. Opens(Now, completed, ResolveCompleted(Now, lacks))
    BY <1>0, <2>2, ResolveCompletedReady
  <2> QED
    BY <2>1, <2>2, <2>3, OpensIInv
<1>6. CASE PollPB
  <2>1. completed # <<>> /\ completed' = Tail(completed)
    BY <1>6 DEF PollPB
  <2>0. PICK known \in BOOLEAN : Becomes(TCPStreamCompleted(Now, Head(completed), known))
    BY <1>6 DEF PollPB
  <2> DEFINE t == TCPStreamCompleted(Now, Head(completed), known)
  <2>2. Becomes(t)
    BY <2>0
  <2>3. tcp.provided
    <3>1. completed[1].id \in heap
      BY <1>0, <2>1, TailFacts, NowFields DEF Owner, Unique
    <3> QED
      BY <3>1 DEF IInv
  <2>4. Polls(Now, completed, t)
    BY <1>0, <2>1, <2>3, CompletedPolls
  <2> HIDE DEF t
  <2>5. /\ Ready(t, completed') /\ t \in State /\ t.tcp.issued = tcp.issued
        /\ t.tcp.resolveState = tcp.resolveState
    BY <2>1, <2>4, NowFields DEF Polls, Ready, Owner
  <2>6. Now' = t /\ tcp' = t.tcp
    BY <2>2, <2>5, NowBecomes DEF Becomes
  <2> QED
    BY <2>5, <2>6 DEF IInv, Ready
<1>7. ASSUME NEW answer \in {"address", "none"}, StrToAddrProc(answer)
      PROVE  IInv'
  <2> DEFINE d == [tcp EXCEPT !.resolveState = "resolveCompleted", !.hostInfo = answer]
  <2>1. /\ tcp' = d /\ tcp.resolveState = "resolveInProgress"
        /\ ops' = ops /\ heap' = heap /\ calls' = calls /\ conn' = conn
        /\ completed' = completed
    BY <1>7 DEF StrToAddrProc
  <2>2. tcp.provided /\ tcp.issued <= MaxIssued
    BY <2>1 DEF IInv
  <2>3. /\ d \in Data /\ d.issued = tcp.issued /\ d.provided
        /\ d.resolveState = "resolveCompleted" /\ d.hostInfo = answer
    BY <1>0, <2>2 DEF Data, Resolving, Hosts
  <2> HIDE DEF d
  <2>4. Ready([Now EXCEPT !.tcp = d], completed)
    BY <1>0, <2>2, <2>3, NowFields, DataReady
  <2>5. Now' = [Now EXCEPT !.tcp = d]
    BY <2>1 DEF Now
  <2> QED
    BY <2>1, <2>2, <2>3, <2>4, <2>5 DEF IInv, Ready
<1>8. ASSUME NEW pb \in ops, EndOpen(pb) \/ EndClose(pb) \/ EndReceive(pb)
      PROVE  IInv'
  <2>1. /\ pb \in Op /\ pb \in Now.ops /\ pb.id \in heap /\ tcp.provided
        /\ Slot(pb) => conn.state \in (IF pb.code = "TCPRcv" THEN {"open", "aborted"}
                                       ELSE {"opening"})
    <3>1. Unique(Now, completed) /\ OneSlot(Now, completed)
      BY <1>0 DEF Owner
    <3> QED
      BY <1>0, <3>1, NowFields DEF State, Unique, OneSlot, IInv
  <2>0. PICK result \in Results, data \in Nat, length \in Nat : Ended(pb, result, data, length)
    <3>1. CASE EndOpen(pb)
      <4>1. CASE pb.live /\ conn.state = "opening" /\ TCPIOComplete(pb, "noErr", 0, 0)
                 /\ conn' = [conn EXCEPT !.state = "open"]
        <5>1. Ended(pb, "noErr", 0, 0)
          BY <1>0, <3>1, <4>1 DEF Conn, Slot, EndOpen, SameFlow, Ended
        <5> QED
          BY <5>1 DEF Results
      <4>2. CASE pb.live /\ conn.state = "opening"
                 /\ TCPIOComplete(pb, "connectionTerminated", 0, 0)
                 /\ conn' = [conn EXCEPT !.state = "created"]
        <5>1. Ended(pb, "connectionTerminated", 0, 0)
          BY <1>0, <3>1, <4>2 DEF Conn, Slot, EndOpen, SameFlow, Ended
        <5> QED
          BY <5>1 DEF Results
      <4>3. CASE ~ (pb.live /\ conn.state = "opening")
                 /\ TCPIOComplete(pb, "connectionExists", 0, 0) /\ conn' = conn
        <5>1. Ended(pb, "connectionExists", 0, 0)
          BY <1>0, <2>1, <3>1, <4>3 DEF Slot, EndOpen, SameFlow, Ended
        <5> QED
          BY <5>1 DEF Results
      <4> QED
        BY <3>1, <4>1, <4>2, <4>3 DEF EndOpen
    <3>2. CASE EndClose(pb)
      <4>1. PICK result \in Results : TCPIOComplete(pb, result, 0, 0) /\ conn' = conn
        BY <3>2 DEF EndClose, Results
      <4>2. Ended(pb, result, 0, 0)
        BY <1>0, <3>2, <4>1 DEF EndClose, Slot, SameFlow, Ended
      <4> QED
        BY <4>2
    <3>3. CASE EndReceive(pb)
      <4>1. CASE conn.state = "open" /\ conn.unread # <<>>
                 /\ conn' = [conn EXCEPT !.unread = Tail(@),
                                         !.front = IF Head(conn.unread) \in conn.low THEN @
                                                   ELSE Head(conn.unread)]
                 /\ TCPIOComplete(pb, "noErr", Head(conn.unread), 1)
        <5>1. Tail(conn.unread) \in Seq(Nat) /\ Head(conn.unread) \in Nat
          BY <1>0, <4>1 DEF Conn
        <5>2. conn' \in Conn /\ conn'.state = "open"
          BY <1>0, <4>1, <5>1 DEF Conn
        <5>3. Comes(conn, conn', "noErr", Head(conn.unread), 1)
          BY <1>0, <4>1, <5>1 DEF Conn, Comes
        <5>4. Ended(pb, "noErr", Head(conn.unread), 1)
          BY <3>3, <4>1, <5>2, <5>3 DEF Slot, EndReceive, Ended
        <5> QED
          BY <5>1, <5>4 DEF Results
      <4>2. ASSUME NEW len \in 0..1, conn.state = "open",
                   TCPIOComplete(pb, "connectionClosing", 0, len), conn' = conn, Drained(conn)
            PROVE  Ended(pb, "connectionClosing", 0, len) /\ len \in Nat
        BY <1>0, <3>3, <4>2 DEF Slot, EndReceive, Comes, Ended
      <4>3. ASSUME NEW len \in 0..1, conn.state \in {"aborted", "released"}, conn' = conn,
                   TCPIOComplete(pb, "connectionTerminated", 0, len)
            PROVE  Ended(pb, "connectionTerminated", 0, len) /\ len \in Nat
        BY <1>0, <2>1, <3>3, <4>3 DEF Slot, EndReceive, Comes, Ended
      <4>4. "connectionClosing" \in Results /\ "connectionTerminated" \in Results
        BY DEF Results
      <4> QED
        BY <3>3, <4>1, <4>2, <4>3, <4>4 DEF EndReceive, Drained
    <3> QED
      BY <1>8, <3>1, <3>2, <3>3
  <2>2. /\ TCPIOComplete(pb, result, data, length) /\ conn' \in Conn
        /\ pb.code = "TCPRcv" =>
             result \in {"noErr", "connectionClosing", "connectionTerminated"}
        /\ \/ Slot(pb) /\ (pb.code = "TCPRcv" \/ result = "noErr")
              /\ conn'.state \in {"open", "aborted"}
           \/ Slot(pb) /\ pb.code # "TCPRcv" /\ result # "noErr" /\ conn'.state = "created"
           \/ ~ Slot(pb) /\ (pb.code = "TCPActiveOpen" => result # "noErr")
              /\ conn'.state = conn.state
        /\ \/ /\ pb.code # "TCPRcv" /\ SameFlow(conn, conn')
              /\ conn'.state = conn.state \/ conn.state = "opening"
              /\ pb.code = "TCPActiveOpen" /\ result = "noErr" => conn.state = "opening"
           \/ pb.code = "TCPRcv" /\ Comes(conn, conn', result, data, length)
    BY <2>0 DEF Ended
  <2> DEFINE d == [id |-> pb.id, code |-> pb.code, result |-> result, data |-> data,
                   rcvBuffLen |-> length]
             t == Now'
  <2>3. /\ completed' = Append(completed, d) /\ ops' = ops \ {pb}
        /\ tcp' = tcp /\ heap' = heap /\ calls' = calls
    BY <2>2 DEF TCPIOComplete
  <2>4. /\ d \in Done /\ d.id = pb.id /\ d.code = pb.code /\ d.result = result
        /\ d.data = data /\ d.rcvBuffLen = length
    BY <2>1 DEF Done, Op
  <2>5. /\ t.ops = Now.ops \ {pb} /\ t.heap = Now.heap /\ t.tcp = Now.tcp
        /\ t.calls = Now.calls /\ t.conn = conn' /\ Now.conn = conn /\ t \in State
    BY <1>0, <2>2, <2>3 DEF Now, State
  <2> HIDE DEF d, t
  <2>6. Hears(Now, t) /\ SameHost(Now, t)
    BY <2>5 DEF Hears, Heard, SameHost
  <2>7. \/ Slot(pb) /\ SlotDone(d) /\ t.conn.state \in {"open", "aborted"}
        \/ Slot(pb) /\ ~ SlotDone(d) /\ t.conn.state = "created"
        \/ ~ Slot(pb) /\ ~ SlotDone(d) /\ t.conn.state = Now.conn.state
    BY <2>2, <2>4, <2>5 DEF Slot, SlotDone
  <2>8. Owner(t, Append(completed, d))
    BY <1>0, <2>1, <2>2, <2>4, <2>5, <2>6, <2>7, OwnerCompletes
  <2>9. Answered(t)
    BY <1>0, <2>5, <2>6, AnsweredKept
  <2>10. Story(t, Append(completed, d))
    <3>1. CASE pb.code = "TCPRcv"
      BY <1>0, <2>1, <2>2, <2>4, <2>5, <3>1, StoryCompletes DEF Comes
    <3>2. CASE pb.code # "TCPRcv"
      BY <1>0, <2>1, <2>2, <2>4, <2>5, <3>2, StoryPasses, NowFields DEF Connected
    <3> QED
      BY <3>1, <3>2
  <2> QED
    BY <2>1, <2>3, <2>8, <2>9, <2>10 DEF IInv, t
<1>9. CASE PeerSends \/ PeerCloses \/ Abort
  <2> DEFINE t == Now'
  <2>1. /\ tcp' = tcp /\ ops' = ops /\ heap' = heap /\ calls' = calls
        /\ completed' = completed
    BY <1>9 DEF PeerSends, PeerCloses, Abort
  <2>2. /\ conn' \in Conn
        /\ conn'.state = conn.state \/ (conn.state = "open" /\ conn'.state = "aborted")
        /\ Peers(conn, conn')
    <3>1. CASE PeerSends
      <4>1. Append(conn.unread, conn.sent + 1) \in Seq(Nat) /\ conn.sent + 1 \in Nat
        BY <1>0 DEF Conn
      <4>2. CASE conn' = [conn EXCEPT !.sent = @ + 1, !.unread = Append(@, conn.sent + 1)]
        BY <1>0, <3>1, <4>1, <4>2 DEF PeerSends, Conn, Peers
      <4>3. CASE conn' = [conn EXCEPT !.sent = @ + 1, !.unread = Append(@, conn.sent + 1),
                                     !.front = conn.sent + 1, !.low = @ \cup {conn.sent + 1}]
        BY <1>0, <3>1, <4>1, <4>3 DEF PeerSends, Conn, Peers
      <4> QED
        BY <3>1, <4>2, <4>3 DEF PeerSends
    <3>2. CASE PeerCloses
      BY <1>0, <3>2 DEF PeerCloses, Conn, Peers
    <3>3. CASE Abort
      BY <1>0, <3>3 DEF Abort, Conn, Peers, SameFlow
    <3> QED
      BY <1>9, <3>1, <3>2, <3>3
  <2>3. /\ t.ops = Now.ops /\ t.heap = Now.heap /\ t.tcp = Now.tcp
        /\ t.calls = Now.calls /\ t.conn = conn' /\ Now.conn = conn /\ t \in State
    BY <1>0, <2>1, <2>2 DEF Now, State
  <2> HIDE DEF t
  <2>4. Hears(Now, t) /\ SameHost(Now, t)
    BY <2>3 DEF Hears, Heard, SameHost
  <2>5. Owner(t, completed)
    BY <1>0, <2>2, <2>3, <2>4, OwnerKept, OwnerConnects
  <2>6. Answered(t)
    BY <1>0, <2>3, <2>4, AnsweredKept
  <2>7. Story(t, completed)
    BY <1>0, <2>2, <2>3, StoryPeer
  <2> QED
    BY <2>1, <2>5, <2>6, <2>7 DEF IInv, t
<1>10. CASE UNCHANGED vars
  <2>1. Now' = Now
    BY <1>10 DEF vars, Now
  <2> QED
    BY <1>10, <2>1 DEF IInv, vars
<1> QED
  BY <1>1, <1>2, <1>3, <1>4, <1>5, <1>6, <1>7, <1>8, <1>9, <1>10 DEF Next

LEMMA Invariance == Spec => []IInv
BY InitIInv, NextIInv, PTL DEF Spec

(* Every parameter block of the provider belongs to MacTCP or to the queue   *)
(* of completed ones, but for one that a receive can lose; one receive is    *)
(* out at most; and the resolver's answer has its place, however opens,      *)
(* closes, answers and polls follow on each other (tcpstream.c:158-249,      *)
(* 343-395, 589-720).                                                        *)
THEOREM BlocksAreOwned == Spec => []BlocksOwned
<1>1. IInv => BlocksOwned
  <2> SUFFICES ASSUME IInv PROVE BlocksOwned
    OBVIOUS
  <2>1. /\ Now \in State /\ completed \in Seq(Done) /\ Unique(Now, completed)
        /\ OneSlot(Now, completed) /\ OneLost(Now, completed) /\ Answered(Now)
        /\ Len(completed) \in Nat
    BY DEF IInv, Owner
  <2>2. TypeOK
    <3>1. tcp \in Data /\ conn \in Conn
      BY <2>1, NowFields DEF State
    <3>2. tcp.issued \in Nat /\ tcp.issued <= MaxIssued + 1
      BY <3>1, BoundsAssumption DEF IInv, Data
    <3>3. tcp.issued \in 0..MaxIssued + 1
      BY <3>2, BoundsAssumption
    <3> QED
      BY <3>1, <3>3 DEF TypeOK, Data, Conn, Resolving
  <2>3. \A what : Heard(Now, what) => Told(what) # {}
    BY NowFields DEF Heard, Told
  <2>4. AnswerHasPlace
    BY <2>1, <2>3, NowFields DEF Answered, AnswerHasPlace
  <2>5. Ids(completed) \cup {pb.id : pb \in ops} \subseteq heap
    BY <2>1, NowFields DEF Unique, Ids
  <2>6. Lost = Lose(Now, completed)
    BY NowFields DEF Lost, Lose, Ids
  <2>7. Cardinality(Lost) <= 1
    <3>1. CASE Lost = {}
      BY <3>1, FS_EmptySet
    <3>2. CASE Lost # {}
      <4>1. PICK a \in Lost : Lost = {a}
        BY <2>1, <2>6, <3>2 DEF OneLost
      <4>2. Cardinality({a}) = 1
        BY FS_Singleton
      <4> QED
        BY <4>1, <4>2
    <3> QED
      BY <3>1, <3>2
  <2>8. Lost # {} => Told("close") # {} /\ Told("error") # {} /\ Receives = {}
    BY <2>1, <2>3, <2>6, NowFields DEF OneLost, NoSlot, Receives, Slot
  <2>9. Cardinality(Receives) + Cardinality({i \in 1..Len(completed) :
                                               completed[i].code = "TCPRcv"}) <= 1
    <3> DEFINE R == Receives
               D == {i \in 1..Len(completed) : completed[i].code = "TCPRcv"}
    <3>1. \A p, q \in R : p = q
      BY <2>1, NowFields DEF OneSlot, Receives, Slot
    <3>2. \A i, j \in D : i = j
      BY <2>1 DEF OneSlot, SlotDone
    <3>3. R = {} \/ D = {}
      BY <2>1, NowFields DEF OneSlot, Receives, Slot, SlotDone
    <3> HIDE DEF R, D
    <3>4. ASSUME NEW S, \A p, q \in S : p = q
          PROVE  Cardinality(S) \in {0, 1}
      <4>1. CASE S = {}
        BY <4>1, FS_EmptySet
      <4>2. CASE S # {}
        <5>1. PICK a \in S : S = {a}
          BY <3>4, <4>2
        <5>2. Cardinality({a}) = 1
          BY FS_Singleton
        <5> QED
          BY <5>1, <5>2
      <4> QED
        BY <4>1, <4>2
    <3>5. Cardinality(R) \in {0, 1} /\ Cardinality(D) \in {0, 1}
      BY <3>1, <3>2, <3>4
    <3>6. Cardinality(R) = 0 \/ Cardinality(D) = 0
      BY <3>3, FS_EmptySet
    <3>7. Cardinality(R) + Cardinality(D) <= 1
      BY <3>5, <3>6
    <3> QED
      BY <3>7 DEF R, D
  <2> QED
    BY <2>2, <2>4, <2>5, <2>7, <2>8, <2>9 DEF BlocksOwned
<1> QED
  BY Invariance, <1>1, PTL

(* The receives bring what the peer sent, in order and once each, between    *)
(* on_open and on_close, which the consumer is told of at most once each; a  *)
(* stream that closes with no error before it has delivered everything; and  *)
(* the bytes that are read are those of the piece, unless MacTCP put that    *)
(* piece, or one that arrived before it was read, at the start of the one    *)
(* buffer of the stream.  A receive that failed has what is left there read  *)
(* once at most, between the last piece and on_close (tcpstream.c:294,       *)
(* 355-413, 463-506, 589-720).                                               *)
THEOREM DataIsInOrder == Spec => []DataInOrder
<1>1. IInv => DataInOrder
  <2> SUFFICES ASSUME IInv PROVE DataInOrder
    OBVIOUS
  <2>1. /\ calls \in Seq(Call) /\ Script(calls) /\ Flow(Now, completed) /\ conn \in Conn
    BY NowFields DEF IInv, Owner, State, Story
  <2>2. \A what : Told(what) = At(calls, what) /\ (Heard(Now, what) <=> Told(what) # {})
    BY NowFields, HeardAt DEF Told, At
  <2>3. /\ \A d \in Told("data") : calls[d].piece = Cardinality({e \in Told("data") : e <= d})
        /\ \A d \in Told("data") \cup Told("residue") \cup Told("close") :
             \E o \in Told("open") : o < d
        /\ \A d \in Told("data") \cup Told("residue"), c \in Told("close") : d < c
        /\ \A d \in Told("data"), r \in Told("residue") : d < r
    BY <2>1, <2>2 DEF Script
  <2>4. ASSUME NEW S, \A a, b \in S : a = b
        PROVE  Cardinality(S) = IF S = {} THEN 0 ELSE 1
    <3>1. CASE S # {}
      <4>1. PICK a \in S : S = {a}
        BY <2>4, <3>1
      <4> QED
        BY <3>1, <4>1, FS_Singleton
    <3> QED
      BY <3>1, FS_EmptySet
  <2>5. /\ Cardinality(Told("open")) = IF Told("open") = {} THEN 0 ELSE 1
        /\ Cardinality(Told("close")) = IF Told("close") = {} THEN 0 ELSE 1
        /\ Cardinality(Told("residue")) = IF Told("residue") = {} THEN 0 ELSE 1
    <3>1. /\ \A a, b \in Told("open") : a = b
          /\ \A a, b \in Told("close") : a = b
          /\ \A a, b \in Told("residue") : a = b
      BY <2>1, <2>2 DEF Script
    <3> QED
      BY <2>4, <3>1
  <2>6. /\ Cardinality(Told("open")) <= 1
        /\ Cardinality(Told("close")) <= Cardinality(Told("open"))
        /\ Cardinality(Told("residue")) <= 1
    <3>1. Told("close") # {} => Told("open") # {}
      BY <2>3
    <3> QED
      BY <2>5, <3>1
  <2>7. ASSUME \E c \in Told("close") : \A e \in Told("error") : c < e
        PROVE  Cardinality(Told("data")) = conn.sent
    <3>1. Clean(calls)
      BY <2>2, <2>7 DEF Clean
    <3>2. conn.unread = <<>> /\ Reads(completed) = {}
      <4>1. Heard(Now, "close")
        BY <2>2, <2>7
      <4> QED
        BY <2>1, <3>1, <4>1, NowFields DEF Flow, Drained, Live
    <3>3. Taken(completed) = 0
      BY <3>2 DEF Taken
    <3>4. 0 = conn.sent - (Given(Now) + 0)
      BY <2>1, <3>2, <3>3, NowFields DEF Flow, Pipe
    <3>5. Given(Now) = Cardinality(Told("data")) /\ Given(Now) \in Nat
      BY <2>1, <2>2, AtFinite, NowFields DEF Given
    <3> QED
      BY <2>1, <3>4, <3>5 DEF Conn
  <2>8. \A d \in Told("data") : \/ calls[d].bytes = calls[d].piece
                               \/ \E m \in conn.low : calls[d].piece <= m /\ m <= calls[d].sent
    BY <2>1, <2>2, NowFields DEF Flow, Handed, Right
  <2> QED
    BY <2>3, <2>6, <2>7, <2>8 DEF DataInOrder
<1> QED
  BY Invariance, <1>1, PTL
=============================================================================
