-------------------------- MODULE StreamQueueProofs --------------------------
(***************************************************************************)
(* Proofs about StreamQueue for all streams, blocks, interrupt levels and  *)
(* bounds: the types, the discipline of the two kinds of queue, that no    *)
(* wakeup is lost, and that completions are delivered as CompletionQueue   *)
(* promises.                                                               *)
(***************************************************************************)
EXTENDS StreamQueue, SequenceTheorems, TLAPS

(***************************************************************************)
(* The inductive invariant.  The properties are not inductive: they need   *)
(* to know what each flag means at each point of the interrupt routines.   *)
(***************************************************************************)

(* Routines in progress have different levels: only the last one runs.     *)
Nested ==
  \A p, q \in PBs :
    p # q /\ Active(p) /\ Active(q) => Level[Owner[p]] # Level[Owner[q]]

(* qType says that the stream is queued, is being queued, or has just been *)
(* dequeued.                                                               *)
StreamFlag(s) ==
  /\ s \in Elements(readyStreams) => qType[s]
  /\ qType[s] => \/ s \in Elements(readyStreams)
                 \/ \E p \in PBs : Owner[p] = s /\ ipc[p] = "enqueueStream"
                 \/ mpc = "clear" /\ stream = s

(* What a routine inside StreamWait knows of its stream. *)
RoutineFlag(p) ==
  /\ ipc[p] = "flag" => ~qType[Owner[p]]
  /\ ipc[p] = "enqueueStream" => /\ qType[Owner[p]]
                                 /\ Owner[p] \notin Elements(readyStreams)
                                 /\ ~(mpc = "clear" /\ stream = Owner[p])

StreamFlags ==
  /\ \A s \in Streams : StreamFlag(s)
  /\ \A p \in PBs : RoutineFlag(p)
  /\ mpc = "clear" => qType[stream] /\ stream \notin Elements(readyStreams)

(* inQueue says that the block is queued, is being queued, or has just     *)
(* been dequeued; a block is in one place at a time.                       *)
BlockFlag(p) ==
  /\ p \in device => /\ ~Active(p)
                     /\ p \notin Elements(completedPBs[Owner[p]])
                     /\ ~(Handling /\ pb = p)
                     /\ ~inQueue[p]
  /\ ipc[p] \in {"mark", "enqueuePB"} =>
       /\ p \notin Elements(completedPBs[Owner[p]])
       /\ ~(Handling /\ pb = p)
  /\ ipc[p] = "mark" => ~inQueue[p]
  /\ inQueue[p] => \/ p \in Elements(completedPBs[Owner[p]])
                   \/ ipc[p] = "enqueuePB"
                   \/ mpc = "clearPB" /\ pb = p

BlockFlags ==
  /\ \A p \in PBs : BlockFlag(p)
  /\ Handling => /\ Owner[pb] = stream
                 /\ pb \notin Elements(completedPBs[stream])

IInv ==
  /\ TypeOK
  /\ LinkedOnce
  /\ HeadStable
  /\ NoLostWakeup
  /\ Nested
  /\ StreamFlags
  /\ BlockFlags

-----------------------------------------------------------------------------
(* Queues. *)

(* Enqueue adds one element at the end. *)
LEMMA AppendElements ==
  ASSUME NEW S, NEW q \in Seq(S), NEW e \in S
  PROVE  /\ Append(q, e) \in Seq(S)
         /\ Append(q, e) # <<>>
         /\ Elements(Append(q, e)) = Elements(q) \union {e}
         /\ q # <<>> => Head(Append(q, e)) = Head(q)
<1>1. /\ Append(q, e) \in Seq(S)
      /\ Len(Append(q, e)) = Len(q) + 1
      /\ DOMAIN Append(q, e) = 1 .. Len(q) + 1
      /\ DOMAIN q = 1 .. Len(q)
      /\ Len(q) \in Nat
  OBVIOUS
<1>2. \A i \in 1 .. Len(q) : Append(q, e)[i] = q[i]
  OBVIOUS
<1>3. Append(q, e)[Len(q) + 1] = e
  OBVIOUS
<1>4. Elements(Append(q, e)) = Elements(q) \union {e}
  BY <1>1, <1>2, <1>3 DEF Elements
<1>5. q # <<>> => Head(Append(q, e)) = Head(q)
  BY <1>1, <1>2
<1> QED
  BY <1>1, <1>4, <1>5

(* Enqueue keeps the elements distinct when it adds a new one. *)
LEMMA AppendDistinct ==
  ASSUME NEW S, NEW q \in Seq(S), NEW e \in S,
         Distinct(q), e \notin Elements(q)
  PROVE  Distinct(Append(q, e))
<1>1. /\ DOMAIN Append(q, e) = 1 .. Len(q) + 1
      /\ DOMAIN q = 1 .. Len(q)
      /\ Len(q) \in Nat
  OBVIOUS
<1>2. \A i \in 1 .. Len(q) : Append(q, e)[i] = q[i] /\ q[i] # e
  BY DEF Elements
<1>3. Append(q, e)[Len(q) + 1] = e
  OBVIOUS
<1> QED
  BY <1>1, <1>2, <1>3 DEF Distinct

(* Dequeue of the head takes exactly that element out. *)
LEMMA TailElements ==
  ASSUME NEW S, NEW q \in Seq(S), q # <<>>, Distinct(q)
  PROVE  /\ Head(q) \in S
         /\ Tail(q) \in Seq(S)
         /\ Head(q) \in Elements(q)
         /\ Elements(Tail(q)) = Elements(q) \ {Head(q)}
         /\ Distinct(Tail(q))
<1>1. /\ DOMAIN q = 1 .. Len(q)
      /\ Len(q) \in Nat \ {0}
      /\ Tail(q) \in Seq(S)
      /\ DOMAIN Tail(q) = 1 .. Len(q) - 1
      /\ Head(q) = q[1]
  OBVIOUS
<1>2. \A i \in 1 .. Len(q) - 1 : Tail(q)[i] = q[i + 1]
  OBVIOUS
<1>3. Distinct(Tail(q))
  BY <1>1, <1>2 DEF Distinct
<1>4. Head(q) \in S /\ Head(q) \in Elements(q)
  BY <1>1 DEF Elements
<1>5. ASSUME NEW x \in Elements(Tail(q))
      PROVE  x \in Elements(q) \ {Head(q)}
  BY <1>1, <1>2 DEF Elements, Distinct
<1>6. ASSUME NEW x \in Elements(q) \ {Head(q)}
      PROVE  x \in Elements(Tail(q))
  <2>1. PICK i \in 1 .. Len(q) : x = q[i]
    BY <1>1 DEF Elements
  <2>2. i - 1 \in 1 .. Len(q) - 1
    BY <2>1, <1>1
  <2>3. Tail(q)[i - 1] = x
    BY <2>1, <2>2, <1>1, <1>2
  <2> QED
    BY <2>2, <2>3, <1>1 DEF Elements
<1> QED
  BY <1>1, <1>3, <1>4, <1>5, <1>6

(* Unlinking the head of a queue leaves its tail. *)
LEMMA UnlinkHead ==
  ASSUME NEW S, NEW q \in Seq(S), q # <<>>
  PROVE  Unlink(q, Head(q)) = Tail(q)
<1> DEFINE First(i) == q[i] = Head(q) /\ \A j \in 1 .. i - 1 : q[j] # Head(q)
           at == CHOOSE i \in DOMAIN q : First(i)
<1>1. /\ DOMAIN q = 1 .. Len(q)
      /\ Len(q) \in Nat \ {0}
      /\ Head(q) = q[1]
      /\ 1 \in DOMAIN q
  OBVIOUS
<1>2. First(1)
  BY <1>1
<1>3. at \in DOMAIN q /\ First(at)
  BY <1>1, <1>2
<1>4. at = 1
  BY <1>1, <1>3
<1>5. Unlink(q, Head(q)) = [j \in 1 .. Len(q) - 1 |-> q[j + 1]]
  BY <1>1, <1>4 DEF Unlink
<1>6. Tail(q) = [j \in 1 .. Len(q) - 1 |-> q[j + 1]]
  <2>1. Tail(q) \in [1 .. Len(q) - 1 -> S]
    BY HeadTailProperties, LenProperties
  <2>2. [j \in 1 .. Len(q) - 1 |-> q[j + 1]] \in [1 .. Len(q) - 1 -> S]
    BY <1>1
  <2>3. \A j \in 1 .. Len(q) - 1 : Tail(q)[j] = q[j + 1]
    BY <1>1
  <2> QED
    BY <2>1, <2>2, <2>3
<1> QED
  BY <1>5, <1>6

(* The empty queue. *)
LEMMA EmptyQueue ==
  /\ Elements(<<>>) = {}
  /\ Distinct(<<>>)
  /\ \A S : <<>> \in Seq(S)
BY DEF Elements, Distinct

-----------------------------------------------------------------------------
(* Initially every queue is empty and nothing runs. *)
LEMMA InitIInv == Init => IInv
<1> SUFFICES ASSUME Init PROVE IInv
  OBVIOUS
<1> USE EmptyQueue DEF Init
<1>1. TypeOK
  BY MaxOpsAssumption
  DEF TypeOK, InterruptPoints, MainPoints, Handling
<1>2. LinkedOnce
  BY DEF LinkedOnce
<1>3. HeadStable /\ NoLostWakeup
  BY DEF HeadStable, NoLostWakeup
<1>4. Nested /\ StreamFlags /\ BlockFlags
  BY OwnerAssumption DEF Nested, StreamFlags, StreamFlag, RoutineFlag, BlockFlags, BlockFlag, Active, Handling
<1> QED
  BY <1>1, <1>2, <1>3, <1>4 DEF IInv

-----------------------------------------------------------------------------
(* One lemma per action: it preserves the inductive invariant. *)

LEMMA CompleteIInv ==
  ASSUME IInv, NEW p \in PBs, Complete(p)
  PROVE  IInv'
<1> USE OwnerAssumption, LevelAssumption
    DEF IInv, Complete, InterruptGoto, UnchangedByInterrupt
<1>1. TypeOK'
  BY DEF TypeOK, InterruptPoints, Handling
<1>2. LinkedOnce' /\ HeadStable'
  BY DEF LinkedOnce, HeadStable
<1>3. NoLostWakeup'
  BY ZenonT(60) DEF NoLostWakeup, Announcing, PolledNow, TypeOK, BlockFlags, BlockFlag, Active
<1>4. Nested'
  <2> SUFFICES ASSUME NEW a \in PBs, NEW b \in PBs, a # b,
                      Active(a)', Active(b)'
               PROVE  Level[Owner[a]] # Level[Owner[b]]
    BY DEF Nested
  <2>1. /\ a # p => Active(a)
        /\ b # p => Active(b)
    BY DEF Active, TypeOK
  <2>2. /\ Level[Owner[a]] \in Nat
        /\ Level[Owner[b]] \in Nat
        /\ Level[Owner[p]] \in Nat
    OBVIOUS
  <2>3. CASE a # p /\ b # p
    BY <2>1, <2>3 DEF Nested
  <2>4. CASE a = p \/ b = p
    BY <2>1, <2>2, <2>4 DEF MayInterrupt
  <2> QED
    BY <2>3, <2>4
<1>5. StreamFlags'
  <2>1. \A r \in PBs : ipc'[r] = IF r = p THEN "mark" ELSE ipc[r]
    BY DEF TypeOK
  <2>2. ipc[p] = "off"
    BY DEF BlockFlags, BlockFlag, Active
  <2> QED
    BY <2>1, <2>2 DEF StreamFlags, StreamFlag, RoutineFlag
<1>6. BlockFlags'
  BY DEF BlockFlags, BlockFlag, TypeOK, Active, Handling
<1> QED
  BY <1>1, <1>2, <1>3, <1>4, <1>5, <1>6

LEMMA MarkPBIInv ==
  ASSUME IInv, NEW p \in PBs, MarkPB(p)
  PROVE  IInv'
<1> USE OwnerAssumption, LevelAssumption
    DEF IInv, MarkPB, InterruptGoto, UnchangedByInterrupt
<1>0. ~inQueue[p]
  BY DEF BlockFlags, BlockFlag
<1>1. TypeOK'
  BY DEF TypeOK, InterruptPoints, Handling
<1>2. LinkedOnce' /\ HeadStable'
  BY DEF LinkedOnce, HeadStable
<1>3. NoLostWakeup'
  BY DEF NoLostWakeup, Announcing, PolledNow, TypeOK
<1>4. Nested'
  BY DEF Nested, Active, TypeOK
<1>5. StreamFlags'
  BY DEF StreamFlags, StreamFlag, RoutineFlag, TypeOK
<1>6. BlockFlags'
  BY <1>0 DEF BlockFlags, BlockFlag, TypeOK, Active, Handling
<1> QED
  BY <1>1, <1>2, <1>3, <1>4, <1>5, <1>6

LEMMA EnqueuePBIInv ==
  ASSUME IInv, NEW p \in PBs, EnqueuePB(p)
  PROVE  IInv'
<1> USE OwnerAssumption, LevelAssumption
    DEF IInv, EnqueuePB, InterruptGoto, UnchangedByInterrupt
<1> DEFINE s == Owner[p]
           q == completedPBs[s]
<1>0. /\ s \in Streams
      /\ q \in Seq(PBs)
      /\ Distinct(q)
      /\ p \notin Elements(q)
      /\ p \notin device
      /\ completedPBs'[s] = Append(q, p)
      /\ \A t \in Streams \ {s} : completedPBs'[t] = completedPBs[t]
  BY DEF TypeOK, LinkedOnce, BlockFlags, BlockFlag, Active
<1>1. /\ Append(q, p) \in Seq(PBs)
      /\ Append(q, p) # <<>>
      /\ Elements(Append(q, p)) = Elements(q) \union {p}
      /\ q # <<>> => Head(Append(q, p)) = Head(q)
      /\ Distinct(Append(q, p))
  BY <1>0, AppendElements, AppendDistinct
<1> HIDE DEF s, q
<1>2. TypeOK'
  BY <1>0, <1>1 DEF TypeOK, InterruptPoints, Handling, s, q
<1>3. LinkedOnce'
  BY <1>0, <1>1 DEF LinkedOnce, s, q
<1>4. HeadStable'
  BY <1>0, <1>1 DEF HeadStable, TypeOK, s, q
<1>5. NoLostWakeup'
  <2>1. \A r \in PBs : ipc'[r] = IF r = p THEN "wait" ELSE ipc[r]
    BY DEF TypeOK
  <2>2. Announcing(s)'
    BY <2>1 DEF Announcing, s
  <2>3. ASSUME NEW t \in Streams, Announcing(t) PROVE Announcing(t)'
    BY <2>1, <2>3 DEF Announcing
  <2> QED
    BY <1>0, <2>2, <2>3 DEF NoLostWakeup, PolledNow
<1>6. Nested' /\ StreamFlags'
  BY DEF Nested, StreamFlags, StreamFlag, RoutineFlag, Active, TypeOK
<1>7. BlockFlags'
  <2>1. \A r \in PBs : ipc'[r] = IF r = p THEN "wait" ELSE ipc[r]
    BY DEF TypeOK
  <2>2. \A t \in Streams : Elements(completedPBs'[t]) =
          Elements(completedPBs[t]) \union (IF t = s THEN {p} ELSE {})
    BY <1>0, <1>1 DEF q
  <2>3. ~(Handling /\ pb = p)
    BY DEF BlockFlags, BlockFlag
  <2>4. Handling' = Handling
    BY DEF Handling
  <2>5. Handling => pb \in PBs
    BY DEF TypeOK
  <2>6. UNCHANGED <<device, inQueue, mpc, stream, pb>>
    OBVIOUS
  <2>7. Handling => /\ Owner[pb] = stream
                    /\ pb \notin Elements(completedPBs'[stream])
    BY <2>2, <2>3, <2>5, ZenonT(60) DEF BlockFlags
  <2>8. ASSUME NEW r \in PBs
        PROVE  /\ r = p => r \in Elements(completedPBs'[Owner[r]])
               /\ r # p => (r \in Elements(completedPBs'[Owner[r]])
                              <=> r \in Elements(completedPBs[Owner[r]]))
    BY <1>0, <2>2, ZenonT(60) DEF s
  <2>9. ASSUME NEW r \in PBs
        PROVE  BlockFlag(r)'
    BY <1>0, <2>1, <2>3, <2>4, <2>6, <2>8 DEF BlockFlags, BlockFlag, Active
  <2> QED
    BY <2>4, <2>6, <2>7, <2>9 DEF BlockFlags
<1> QED
  BY <1>2, <1>3, <1>4, <1>5, <1>6, <1>7

LEMMA WaitTestIInv ==
  ASSUME IInv, NEW p \in PBs, WaitTest(p)
  PROVE  IInv'
<1> USE OwnerAssumption, LevelAssumption
    DEF IInv, WaitTest, InterruptGoto, UnchangedByInterrupt
<1>0. \A r \in PBs : ipc'[r] = IF r # p THEN ipc[r] ELSE
                                IF qType[Owner[p]] THEN "off" ELSE "flag"
  BY DEF TypeOK
<1>1. TypeOK'
  BY DEF TypeOK, InterruptPoints, Handling
<1>2. LinkedOnce' /\ HeadStable'
  BY DEF LinkedOnce, HeadStable
(* The flag was found set: by StreamFlag the stream is queued, or has just *)
(* been dequeued and will be polled; the routine that would be queueing it *)
(* has the same level and cannot be suspended here.                        *)
<1>3. NoLostWakeup'
  <2> SUFFICES ASSUME NEW s \in Streams, completedPBs[s] # <<>>
               PROVE  s \in Elements(readyStreams) \/ Announcing(s)' \/ PolledNow(s)
    BY DEF NoLostWakeup, PolledNow
  <2>1. CASE s # Owner[p] \/ ~qType[s]
    BY <1>0, <2>1 DEF NoLostWakeup, Announcing
  <2>2. CASE s = Owner[p] /\ qType[s]
    <3>1. ~\E r \in PBs : Owner[r] = s /\ ipc[r] = "enqueueStream"
      BY <2>2 DEF Nested, Active
    <3> QED
      BY <2>2, <3>1 DEF StreamFlags, StreamFlag, PolledNow
  <2> QED
    BY <2>1, <2>2
<1>4. Nested'
  BY <1>0 DEF Nested, Active
<1>5. StreamFlags'
  BY <1>0 DEF StreamFlags, StreamFlag, RoutineFlag
<1>6. BlockFlags'
  BY <1>0 DEF BlockFlags, BlockFlag, Active, Handling
<1> QED
  BY <1>1, <1>2, <1>3, <1>4, <1>5, <1>6

LEMMA WaitFlagIInv ==
  ASSUME IInv, NEW p \in PBs, WaitFlag(p)
  PROVE  IInv'
<1> USE OwnerAssumption, LevelAssumption
    DEF IInv, WaitFlag, InterruptGoto, UnchangedByInterrupt
<1>0. /\ \A r \in PBs : ipc'[r] = IF r = p THEN "enqueueStream" ELSE ipc[r]
      /\ \A s \in Streams : qType'[s] = IF s = Owner[p] THEN TRUE ELSE qType[s]
  BY DEF TypeOK
<1>1. TypeOK'
  BY DEF TypeOK, InterruptPoints, Handling
<1>2. LinkedOnce' /\ HeadStable'
  BY DEF LinkedOnce, HeadStable
<1>3. NoLostWakeup'
  BY <1>0 DEF NoLostWakeup, Announcing, PolledNow
<1>4. Nested'
  BY <1>0 DEF Nested, Active
<1>5. StreamFlags'
  <2>1. /\ ~qType[Owner[p]]
        /\ Owner[p] \in Streams
        /\ Owner[p] \notin Elements(readyStreams)
        /\ ~(mpc = "clear" /\ stream = Owner[p])
    BY DEF StreamFlags, StreamFlag, RoutineFlag
  <2>2. \A r \in PBs : r # p /\ Active(r) => Owner[r] # Owner[p]
    BY DEF Nested, Active
  <2>3. ASSUME NEW s \in Streams PROVE StreamFlag(s)'
    BY <1>0, <2>1 DEF StreamFlags, StreamFlag
  <2>4. ASSUME NEW r \in PBs PROVE RoutineFlag(r)'
    <3>1. CASE r = p
      <4>1. qType'[Owner[p]] /\ ipc'[p] = "enqueueStream"
        BY <1>0, <2>1
      <4>2. UNCHANGED <<readyStreams, mpc, stream>>
        OBVIOUS
      <4> QED
        BY <2>1, <3>1, <4>1, <4>2 DEF RoutineFlag
    <3>2. CASE r # p /\ Active(r)
      <4>1. qType'[Owner[r]] = qType[Owner[r]] /\ ipc'[r] = ipc[r]
        BY <1>0, <2>2, <3>2
      <4> QED
        BY <4>1 DEF StreamFlags, RoutineFlag
    <3>3. CASE r # p /\ ~Active(r)
      BY <1>0, <3>3 DEF RoutineFlag, Active
    <3> QED
      BY <3>1, <3>2, <3>3
  <2>5. mpc = "clear" => qType'[stream] /\ stream \notin Elements(readyStreams)
    BY <1>0 DEF StreamFlags, TypeOK
  <2> QED
    BY <2>3, <2>4, <2>5 DEF StreamFlags
<1>6. BlockFlags'
  BY <1>0 DEF BlockFlags, BlockFlag, Active, Handling
<1> QED
  BY <1>1, <1>2, <1>3, <1>4, <1>5, <1>6

LEMMA WaitEnqueueIInv ==
  ASSUME IInv, NEW p \in PBs, WaitEnqueue(p)
  PROVE  IInv'
<1> USE OwnerAssumption, LevelAssumption
    DEF IInv, WaitEnqueue, InterruptGoto, UnchangedByInterrupt
<1> DEFINE s == Owner[p]
<1>0. \A r \in PBs : ipc'[r] = IF r = p THEN "off" ELSE ipc[r]
  BY DEF TypeOK
<1>1. /\ s \in Streams
      /\ readyStreams \in Seq(Streams)
      /\ Distinct(readyStreams)
      /\ s \notin Elements(readyStreams)
      /\ qType[s]
      /\ ~(mpc = "clear" /\ stream = s)
  BY DEF TypeOK, LinkedOnce, StreamFlags, RoutineFlag
<1>2. /\ readyStreams' \in Seq(Streams)
      /\ readyStreams' # <<>>
      /\ Elements(readyStreams') = Elements(readyStreams) \union {s}
      /\ readyStreams # <<>> => Head(readyStreams') = Head(readyStreams)
      /\ Distinct(readyStreams')
  BY <1>1, AppendElements, AppendDistinct
<1>3. TypeOK'
  BY <1>2 DEF TypeOK, InterruptPoints, Handling
<1>4. LinkedOnce' /\ HeadStable'
  BY <1>2 DEF LinkedOnce, HeadStable
<1>5. NoLostWakeup'
  BY <1>0, <1>2, SMTT(30) DEF NoLostWakeup, Announcing, PolledNow
<1>6. Nested'
  BY <1>0 DEF Nested, Active
<1>7. StreamFlags'
  <2>1. \A r \in PBs : r # p /\ Active(r) => Owner[r] # s
    BY DEF Nested, Active
  <2>2. ASSUME NEW t \in Streams PROVE StreamFlag(t)'
    BY <1>0, <1>1, <1>2 DEF StreamFlags, StreamFlag
  <2>3. ASSUME NEW r \in PBs PROVE RoutineFlag(r)'
    BY <1>0, <1>1, <1>2, <2>1 DEF StreamFlags, RoutineFlag, Active
  <2> QED
    BY <1>1, <1>2, <2>2, <2>3 DEF StreamFlags
<1>8. BlockFlags'
  BY <1>0 DEF BlockFlags, BlockFlag, Active, Handling
<1> QED
  BY <1>3, <1>4, <1>5, <1>6, <1>7, <1>8

LEMMA InterruptIInv ==
  ASSUME IInv, NEW p \in PBs, Interrupt(p)
  PROVE  IInv'
BY MarkPBIInv, EnqueuePBIInv, WaitTestIInv, WaitFlagIInv, WaitEnqueueIInv
DEF Interrupt

-----------------------------------------------------------------------------
(* The event loop.  While it runs no routine is in progress. *)

LEMMA MainRunsFacts ==
  ASSUME IInv, MainRuns
  PROVE  /\ \A p \in PBs : ipc[p] = "off"
         /\ \A s \in Streams : ~Announcing(s)
BY DEF MainRuns, Active, Announcing

(* Blocks that go to a driver are marked nowhere. *)
LEMMA UnusedUnmarked ==
  ASSUME IInv, MainRuns, NEW p \in PBs, Unused(p)
  PROVE  ~inQueue[p]
BY MainRunsFacts DEF IInv, BlockFlags, BlockFlag, Unused, Handling

(* So that the flag of a new block is down already.                        *)
LEMMA NewPBMarksNothing ==
  ASSUME TypeOK, NEW new, NewPB(new), \A p \in new : p \in PBs /\ ~inQueue[p]
  PROVE  UNCHANGED inQueue
<1>1. \A q \in PBs : inQueue'[q] = inQueue[q]
  <2> SUFFICES ASSUME NEW q \in PBs PROVE inQueue'[q] = inQueue[q]
    OBVIOUS
  <2>1. CASE q \in new
    <3>1. inQueue'[q] = FALSE /\ inQueue[q] \in BOOLEAN /\ ~inQueue[q]
      BY <2>1 DEF NewPB, TypeOK
    <3> QED
      BY <3>1
  <2>2. CASE q \notin new
    BY <2>2 DEF NewPB
  <2> QED
    BY <2>1, <2>2
<1> QED
  BY <1>1 DEF NewPB, TypeOK

LEMMA IssueIInv ==
  ASSUME IInv, NEW p \in PBs, Issue(p)
  PROVE  IInv'
<1> USE OwnerAssumption, MaxOpsAssumption
    DEF IInv, Issue, IssueAll, UnchangedByMain
<1>0. ~inQueue[p] /\ UNCHANGED inQueue
  BY UnusedUnmarked, NewPBMarksNothing
<1>1. TypeOK'
  BY <1>0 DEF TypeOK, Handling
<1>2. LinkedOnce' /\ HeadStable'
  BY <1>0 DEF LinkedOnce, HeadStable, Unused
<1>3. NoLostWakeup'
  BY <1>0 DEF NoLostWakeup, Announcing, PolledNow
<1>4. Nested' /\ StreamFlags'
  BY <1>0 DEF Nested, Active, StreamFlags, StreamFlag, RoutineFlag
<1>5. BlockFlags'
  BY <1>0 DEF BlockFlags, BlockFlag, Active, Handling, Unused
<1> QED
  BY <1>1, <1>2, <1>3, <1>4, <1>5

LEMMA PollStreamsIInv ==
  ASSUME IInv, PollStreams
  PROVE  IInv'
<1> USE DEF IInv, PollStreams, UnchangedByMain
<1>1. TypeOK'
  BY DEF TypeOK, MainPoints, Handling
<1>2. LinkedOnce' /\ HeadStable'
  BY DEF LinkedOnce, HeadStable
<1>3. NoLostWakeup'
  BY DEF NoLostWakeup, Announcing, PolledNow
<1>4. Nested' /\ StreamFlags' /\ BlockFlags'
  BY DEF Nested, Active, StreamFlags, StreamFlag, RoutineFlag,
         BlockFlags, BlockFlag, Handling
<1> QED
  BY <1>1, <1>2, <1>3, <1>4

LEMMA PollHeadIInv ==
  ASSUME IInv, PollHead
  PROVE  IInv'
<1> USE DEF IInv, PollHead, UnchangedByMain
<1>0. /\ mpc = "while"
      /\ mpc' \in {"event", "dequeue"}
      /\ readyStreams # <<>> => Head(readyStreams) \in Streams
  BY TailElements DEF TypeOK, LinkedOnce
<1>1. TypeOK'
  BY <1>0 DEF TypeOK, MainPoints, Handling
<1>2. LinkedOnce' /\ HeadStable'
  BY DEF LinkedOnce, HeadStable
<1>3. NoLostWakeup'
  BY <1>0 DEF NoLostWakeup, Announcing, PolledNow
<1>4. Nested' /\ StreamFlags' /\ BlockFlags'
  BY <1>0 DEF Nested, Active, StreamFlags, StreamFlag, RoutineFlag,
              BlockFlags, BlockFlag, Handling
<1> QED
  BY <1>1, <1>2, <1>3, <1>4

LEMMA PollDequeueIInv ==
  ASSUME IInv, PollDequeue
  PROVE  IInv'
<1> USE DEF IInv, PollDequeue, UnchangedByMain
<1>0. /\ readyStreams # <<>>
      /\ stream = Head(readyStreams)
      /\ mpc = "dequeue"
      /\ mpc' = "clear"
      /\ readyStreams' = Tail(readyStreams)
  BY DEF HeadStable
<1>1. /\ stream \in Streams
      /\ readyStreams' \in Seq(Streams)
      /\ stream \in Elements(readyStreams)
      /\ Elements(readyStreams') = Elements(readyStreams) \ {stream}
      /\ Distinct(readyStreams')
  BY <1>0, TailElements DEF TypeOK, LinkedOnce
<1>2. TypeOK'
  BY <1>0, <1>1 DEF TypeOK, MainPoints, Handling
<1>3. LinkedOnce' /\ HeadStable'
  BY <1>0, <1>1 DEF LinkedOnce, HeadStable
<1>4. NoLostWakeup'
  BY <1>0, <1>1 DEF NoLostWakeup, Announcing, PolledNow
<1>5. Nested' /\ BlockFlags'
  BY <1>0 DEF Nested, Active, BlockFlags, BlockFlag, Handling
<1>6. StreamFlags'
  BY <1>0, <1>1, MainRunsFacts DEF StreamFlags, StreamFlag, RoutineFlag
<1> QED
  BY <1>2, <1>3, <1>4, <1>5, <1>6

(* The flag goes down before the stream is polled, so a routine that runs  *)
(* from now on queues the stream again, and what was completed until now   *)
(* is found by the poll.                                                   *)
LEMMA PollClearIInv ==
  ASSUME IInv, PollClear
  PROVE  IInv'
<1> USE DEF IInv, PollClear, UnchangedByMain
<1>0. /\ mpc = "clear" /\ mpc' = "poll"
      /\ stream \in Streams
      /\ stream \notin Elements(readyStreams)
      /\ \A s \in Streams : qType'[s] = IF s = stream THEN FALSE ELSE qType[s]
      /\ qType' \in [Streams -> BOOLEAN]
  BY DEF TypeOK, StreamFlags
<1>1. TypeOK'
  BY <1>0 DEF TypeOK, MainPoints, Handling
<1>2. LinkedOnce' /\ HeadStable'
  BY <1>0 DEF LinkedOnce, HeadStable
<1>3. NoLostWakeup'
  BY <1>0 DEF NoLostWakeup, Announcing, PolledNow
<1>4. Nested' /\ BlockFlags'
  BY <1>0 DEF Nested, Active, BlockFlags, BlockFlag, Handling
<1>5. StreamFlags'
  BY <1>0, MainRunsFacts DEF StreamFlags, StreamFlag, RoutineFlag
<1> QED
  BY <1>1, <1>2, <1>3, <1>4, <1>5

LEMMA FilePollHeadIInv ==
  ASSUME IInv, FilePollHead
  PROVE  IInv'
<1> USE DEF IInv, FilePollHead, UnchangedByMain
<1> DEFINE q == completedPBs[stream]
<1>0. /\ mpc = "poll"
      /\ mpc' = IF q = <<>> THEN "while" ELSE "dequeuePB"
      /\ stream \in Streams
      /\ q # <<>> => Head(q) \in PBs
  BY TailElements DEF TypeOK, LinkedOnce
<1>1. TypeOK'
  BY <1>0 DEF TypeOK, MainPoints, Handling
<1>2. LinkedOnce' /\ HeadStable'
  BY <1>0 DEF LinkedOnce, HeadStable
<1>3. NoLostWakeup'
  BY <1>0 DEF NoLostWakeup, Announcing, PolledNow
<1>4. Nested' /\ StreamFlags' /\ BlockFlags'
  BY <1>0 DEF Nested, Active, StreamFlags, StreamFlag, RoutineFlag,
              BlockFlags, BlockFlag, Handling
<1> QED
  BY <1>1, <1>2, <1>3, <1>4

LEMMA FilePollDequeueIInv ==
  ASSUME IInv, FilePollDequeue
  PROVE  IInv'
<1> USE OwnerAssumption DEF IInv, FilePollDequeue, UnchangedByMain
<1> DEFINE q == completedPBs[stream]
<1>0. /\ mpc = "dequeuePB"
      /\ stream \in Streams
      /\ pb \in PBs
      /\ q \in Seq(PBs)
      /\ q # <<>>
      /\ pb = Head(q)
      /\ Distinct(q)
  BY DEF TypeOK, LinkedOnce, HeadStable
<1>1. /\ Tail(q) \in Seq(PBs)
      /\ pb \in Elements(q)
      /\ Elements(Tail(q)) = Elements(q) \ {pb}
      /\ Distinct(Tail(q))
      /\ Unlink(q, pb) = Tail(q)
  BY <1>0, TailElements, UnlinkHead
<1>2. /\ mpc' = "clearPB"
      /\ completedPBs' = [completedPBs EXCEPT ![stream] = Tail(q)]
  BY <1>1
<1>3. /\ completedPBs' \in [Streams -> Seq(PBs)]
      /\ completedPBs'[stream] = Tail(q)
      /\ \A s \in Streams \ {stream} : completedPBs'[s] = completedPBs[s]
  BY <1>0, <1>1, <1>2 DEF TypeOK
<1>4. Owner[pb] = stream
  BY <1>0, <1>1 DEF LinkedOnce
<1>5. UNCHANGED <<readyStreams, qType, inQueue, device, stream, pb, issued, ipc>>
  OBVIOUS
<1> HIDE DEF q, FilePollDequeue, UnchangedByMain
<1>6. TypeOK'
  BY <1>0, <1>2, <1>3, <1>5 DEF TypeOK, MainPoints, Handling
<1>7. LinkedOnce' /\ HeadStable'
  BY <1>0, <1>1, <1>2, <1>3, <1>5 DEF LinkedOnce, HeadStable, q
<1>8. NoLostWakeup'
  BY <1>0, <1>2, <1>3, <1>5 DEF NoLostWakeup, Announcing, PolledNow
<1>9. Nested' /\ StreamFlags'
  BY <1>0, <1>2, <1>5 DEF Nested, Active, StreamFlags, StreamFlag, RoutineFlag
<1>10. BlockFlags'
  <2>1. pb \notin device /\ ipc[pb] \notin {"mark", "enqueuePB"}
    BY <1>0, <1>1, <1>4 DEF BlockFlags, BlockFlag, q
  <2>2. ASSUME NEW r \in PBs
        PROVE  r \in Elements(completedPBs'[Owner[r]]) <=>
                 r # pb /\ r \in Elements(completedPBs[Owner[r]])
    <3>1. Owner[r] \in Streams
      OBVIOUS
    <3>2. CASE Owner[r] = stream
      BY <1>1, <1>3, <3>2 DEF q
    <3>3. CASE Owner[r] # stream
      BY <1>3, <1>4, <3>1, <3>3
    <3> QED
      BY <3>2, <3>3
  <2>3. ASSUME NEW r \in PBs
        PROVE  BlockFlag(r)'
    BY <1>0, <1>2, <1>5, <2>1, <2>2 DEF BlockFlags, BlockFlag, Active, Handling
  <2> QED
    BY <1>0, <1>1, <1>3, <1>4, <1>5, <2>3 DEF BlockFlags
<1> QED
  BY <1>6, <1>7, <1>8, <1>9, <1>10

LEMMA FilePollClearIInv ==
  ASSUME IInv, FilePollClear
  PROVE  IInv'
<1> USE DEF IInv, FilePollClear, UnchangedByMain
<1>0. /\ mpc = "clearPB" /\ mpc' = "handle"
      /\ pb \in PBs
      /\ inQueue' \in [PBs -> BOOLEAN]
      /\ \A p \in PBs : inQueue'[p] = IF p = pb THEN FALSE ELSE inQueue[p]
  BY DEF TypeOK, Handling
<1>1. TypeOK'
  BY <1>0 DEF TypeOK, MainPoints, Handling
<1>2. LinkedOnce' /\ HeadStable'
  BY <1>0 DEF LinkedOnce, HeadStable
<1>3. NoLostWakeup'
  BY <1>0 DEF NoLostWakeup, Announcing, PolledNow
<1>4. Nested' /\ StreamFlags'
  BY <1>0 DEF Nested, Active, StreamFlags, StreamFlag, RoutineFlag
<1>5. BlockFlags'
  BY <1>0, MainRunsFacts DEF BlockFlags, BlockFlag, Active, Handling
<1> QED
  BY <1>1, <1>2, <1>3, <1>4, <1>5

(* The block in hand is free to be used again: it is in no queue and its   *)
(* flag is down.                                                           *)
LEMMA FileHandleIInv ==
  ASSUME IInv, FileHandle
  PROVE  IInv'
<1> USE OwnerAssumption, MaxOpsAssumption DEF IInv, FileHandle, UnchangedByMain
<1>0. /\ mpc = "handle" /\ mpc' = "poll" /\ pb' = NoPB
      /\ stream \in Streams
      /\ pb \in PBs
      /\ UNCHANGED <<readyStreams, qType, completedPBs, stream, ipc>>
  BY DEF TypeOK, Handling
<1>1. PICK new \in SUBSET {q \in PBs : Owner[q] = stream /\ (q = pb \/ Unused(q))} :
        IssueAll(new, stream) /\ NewPB(new \ {pb})
  OBVIOUS
<1>2. \A p \in new : /\ p \in PBs
                     /\ p \notin Elements(completedPBs[Owner[p]])
                     /\ ~inQueue[p]
                     /\ ipc[p] = "off"
  <2> SUFFICES ASSUME NEW p \in new
               PROVE  /\ p \in PBs
                      /\ p \notin Elements(completedPBs[Owner[p]])
                      /\ ~inQueue[p]
                      /\ ipc[p] = "off"
    OBVIOUS
  <2>1. CASE p = pb
    <3>1. /\ p \in PBs
          /\ p \notin Elements(completedPBs[Owner[p]])
      BY <1>0, <2>1 DEF BlockFlags, Handling
    <3> QED
      BY <1>0, <2>1, <3>1, MainRunsFacts DEF BlockFlags, BlockFlag
  <2>2. CASE Unused(p)
    BY <1>1, <2>2, UnusedUnmarked, MainRunsFacts DEF Unused
  <2> QED
    BY <1>1, <2>1, <2>2
<1>3. /\ device' = device \union new /\ UNCHANGED inQueue
      /\ issued' \in [Streams -> 0 .. MaxOps]
  BY <1>0, <1>1, <1>2, NewPBMarksNothing DEF IssueAll, TypeOK
<1> HIDE DEF FileHandle, UnchangedByMain
<1>4. TypeOK'
  BY <1>0, <1>2, <1>3 DEF TypeOK, MainPoints, Handling
<1>5. LinkedOnce' /\ HeadStable'
  BY <1>0, <1>2, <1>3 DEF LinkedOnce, HeadStable
<1>6. NoLostWakeup'
  BY <1>0, <1>3 DEF NoLostWakeup, Announcing, PolledNow
<1>7. Nested' /\ StreamFlags'
  BY <1>0, <1>3 DEF Nested, Active, StreamFlags, StreamFlag, RoutineFlag
<1>8. BlockFlags'
  <2>1. ASSUME NEW p \in PBs PROVE BlockFlag(p)'
    BY <1>0, <1>2, <1>3 DEF BlockFlags, BlockFlag, Active, Handling
  <2> QED
    BY <1>0, <2>1 DEF BlockFlags, Handling
<1> QED
  BY <1>4, <1>5, <1>6, <1>7, <1>8

LEMMA MainIInv ==
  ASSUME IInv, Main
  PROVE  IInv'
BY PollStreamsIInv, PollHeadIInv, PollDequeueIInv, PollClearIInv,
   FilePollHeadIInv, FilePollDequeueIInv, FilePollClearIInv, FileHandleIInv
DEF Main

LEMMA NextIInv ==
  ASSUME IInv, [Next]_vars
  PROVE  IInv'
<1>1. CASE Main
  BY <1>1, MainIInv
<1>2. CASE \E p \in PBs : Issue(p) \/ Complete(p) \/ Interrupt(p)
  BY <1>2, IssueIInv, CompleteIInv, InterruptIInv
<1>3. CASE UNCHANGED vars
  BY <1>3 DEF vars, IInv, TypeOK, LinkedOnce, HeadStable, NoLostWakeup, Announcing,
              PolledNow, Nested, StreamFlags, StreamFlag, RoutineFlag,
              BlockFlags, BlockFlag, Active, Handling
<1> QED
  BY <1>1, <1>2, <1>3 DEF Next

(* The inductive invariant holds in every reachable state. *)
THEOREM Invariance == Spec => []IInv
<1>1. Init => IInv
  BY InitIInv
<1>2. IInv /\ [Next]_vars => IInv'
  BY NextIInv
<1> QED
  BY <1>1, <1>2, PTL DEF Spec

-----------------------------------------------------------------------------
(* Type correctness, for every set of streams and blocks and every level   *)
(* of their drivers (stream.c, filestream.c).                              *)
THEOREM TypeCorrect == Spec => []TypeOK
BY Invariance, PTL DEF IInv

(* A completed operation is never forgotten: StreamWait and PollStreams,   *)
(* run in any interleaving, leave its stream queued, announced or polled   *)
(* (stream.c:116-150).                                                     *)
THEOREM WakeupsKept == Spec => []NoLostWakeup
BY Invariance, PTL DEF IInv

(* No element is linked into two queues, or twice into one, by the event   *)
(* loop and the completion routines (stream.c:120-126,                     *)
(* filestream.c:205-210).                                                  *)
THEOREM QueuesIntact == Spec => []LinkedOnce
BY Invariance, PTL DEF IInv

(* Dequeue takes out what was read at the head (stream.c:139-140,          *)
(* filestream.c:224-225).                                                  *)
THEOREM DequeuesWhatItRead == Spec => []HeadStable
BY Invariance, PTL DEF IInv

-----------------------------------------------------------------------------
(* StreamQueue implements CompletionQueue: what the event loop and the     *)
(* interrupts do together is to deliver each completion to its stream,     *)
(* once, in order.  A completion "happens" when EnqueuePB queues the       *)
(* block, and is "delivered" when FileHandle handles it; every other step  *)
(* is invisible.                                                           *)

(* A sequence with an element put back in front. *)
LEMMA Prepend ==
  ASSUME NEW S, NEW q \in Seq(S), NEW e \in S
  PROVE  /\ <<e>> \o q \in Seq(S)
         /\ <<e>> \o q # <<>>
         /\ Head(<<e>> \o q) = e
         /\ Tail(<<e>> \o q) = q
         /\ \A x \in S : Append(<<e>> \o q, x) = <<e>> \o Append(q, x)
         /\ Elements(<<e>> \o q) = {e} \union Elements(q)
<1>1. /\ <<e>> \o q \in Seq(S)
      /\ Len(<<e>> \o q) = Len(q) + 1
      /\ (<<e>> \o q)[1] = e
      /\ Len(q) \in Nat
      /\ DOMAIN q = 1 .. Len(q)
      /\ DOMAIN (<<e>> \o q) = 1 .. Len(q) + 1
  OBVIOUS
<1>2. \A i \in 1 .. Len(q) : (<<e>> \o q)[i + 1] = q[i]
  OBVIOUS
<1>3. <<e>> \o q # <<>> /\ Head(<<e>> \o q) = e
  BY <1>1
<1>4. Tail(<<e>> \o q) = q
  <2>1. /\ Tail(<<e>> \o q) \in Seq(S)
        /\ Len(Tail(<<e>> \o q)) = Len(q)
        /\ \A i \in 1 .. Len(q) : Tail(<<e>> \o q)[i] = (<<e>> \o q)[i + 1]
    BY <1>1, <1>3
  <2> QED
    BY <1>2, <2>1, SeqEqual
<1>5. ASSUME NEW x \in S
      PROVE  Append(<<e>> \o q, x) = <<e>> \o Append(q, x)
  <2>1. /\ Append(<<e>> \o q, x) \in Seq(S)
        /\ <<e>> \o Append(q, x) \in Seq(S)
        /\ Len(Append(<<e>> \o q, x)) = Len(q) + 2
        /\ Len(<<e>> \o Append(q, x)) = Len(q) + 2
    BY <1>1
  <2>2. ASSUME NEW i \in 1 .. Len(q) + 2
        PROVE  Append(<<e>> \o q, x)[i] = (<<e>> \o Append(q, x))[i]
    BY <1>1
  <2> QED
    BY <2>1, <2>2, SeqEqual
<1>6. Elements(<<e>> \o q) = {e} \union Elements(q)
  <2>1. ASSUME NEW x \in Elements(<<e>> \o q)
        PROVE  x \in {e} \union Elements(q)
    <3>1. PICK i \in 1 .. Len(q) + 1 : x = (<<e>> \o q)[i]
      BY <1>1 DEF Elements
    <3>2. CASE i = 1
      BY <1>1, <3>1, <3>2
    <3>3. CASE i # 1
      BY <1>1, <1>2, <3>1, <3>3, i - 1 \in 1 .. Len(q), i = (i - 1) + 1 DEF Elements
    <3> QED
      BY <3>2, <3>3
  <2>2. ASSUME NEW x \in {e} \union Elements(q)
        PROVE  x \in Elements(<<e>> \o q)
    <3>1. CASE x = e
      BY <1>1, <3>1 DEF Elements
    <3>2. CASE x # e
      <4>1. PICK i \in 1 .. Len(q) : x = q[i]
        BY <1>1, <3>2 DEF Elements
      <4> QED
        BY <1>1, <1>2, <4>1, i + 1 \in 1 .. Len(q) + 1 DEF Elements
    <3> QED
      BY <3>1, <3>2
  <2> QED
    BY <2>1, <2>2
<1> QED
  BY <1>1, <1>3, <1>4, <1>5, <1>6

(* A queue is its head in front of its tail. *)
LEMMA HeadTail ==
  ASSUME NEW S, NEW q \in Seq(S), q # <<>>
  PROVE  <<Head(q)>> \o Tail(q) = q
<1>1. /\ <<Head(q)>> \o Tail(q) \in Seq(S)
      /\ Len(<<Head(q)>> \o Tail(q)) = Len(q)
      /\ Len(q) \in Nat
  OBVIOUS
<1>2. ASSUME NEW i \in 1 .. Len(q)
      PROVE  (<<Head(q)>> \o Tail(q))[i] = q[i]
  OBVIOUS
<1> QED
  BY <1>1, <1>2, SeqEqual

-----------------------------------------------------------------------------
(* The block of an operation is busy, or undelivered, or neither. *)
LEMMA OrderElements ==
  ASSUME IInv, NEW p \in PBs
  PROVE  /\ orderBar[Owner[p]] \in Seq(PBs)
         /\ CQ!Undelivered(p) <=>
              \/ p \in Elements(completedPBs[Owner[p]])
              \/ Handling /\ pb = p
<1> USE OwnerAssumption
<1> DEFINE s == Owner[p]
<1>1. /\ s \in Streams
      /\ completedPBs[s] \in Seq(PBs)
      /\ Handling => pb \in PBs /\ Owner[pb] = stream
  BY DEF IInv, TypeOK, BlockFlags
<1>2. orderBar[s] = IF Handling /\ stream = s THEN <<pb>> \o completedPBs[s]
                                             ELSE completedPBs[s]
  BY <1>1 DEF orderBar
<1>3. CQ!Undelivered(p) <=> p \in Elements(orderBar[s])
  BY DEF CQ!Undelivered, Elements
<1>4. CASE Handling /\ stream = s
  BY <1>1, <1>2, <1>3, <1>4, Prepend
<1>5. CASE ~(Handling /\ stream = s)
  BY <1>1, <1>2, <1>3, <1>5
<1> QED
  BY <1>4, <1>5

(* A block that may be issued is new to the abstract specification too. *)
LEMMA UnusedIsNew ==
  ASSUME IInv, MainRuns, NEW p \in PBs, Unused(p)
  PROVE  p \notin busyBar /\ ~CQ!Undelivered(p)
BY OrderElements, MainRunsFacts DEF Unused, Handling, busyBar

LEMMA InitRefines == Init => CQ!Init
BY DEF Init, CQ!Init, busyBar, orderBar, Handling

LEMMA CompleteRefines ==
  ASSUME IInv, NEW p \in PBs, Complete(p)
  PROVE  UNCHANGED <<busyBar, orderBar>>
<1>1. \A r \in PBs : ipc'[r] = IF r = p THEN "mark" ELSE ipc[r]
  BY DEF Complete, InterruptGoto, IInv, TypeOK
<1>2. p \in device /\ device' = device \ {p}
  BY DEF Complete
<1> QED
  BY <1>1, <1>2 DEF Complete, UnchangedByInterrupt, busyBar, orderBar, Handling

(* Every step of a completion routine but EnqueuePB is invisible. *)
LEMMA RoutineStutters ==
  ASSUME IInv, NEW p \in PBs,
         MarkPB(p) \/ WaitTest(p) \/ WaitFlag(p) \/ WaitEnqueue(p)
  PROVE  UNCHANGED <<busyBar, orderBar>>
<1>1. /\ UNCHANGED <<completedPBs, device, mpc, stream, pb>>
      /\ \A r \in PBs \ {p} : ipc'[r] = ipc[r]
      /\ ipc[p] \in {"mark", "enqueuePB"} <=> ipc'[p] \in {"mark", "enqueuePB"}
  BY DEF MarkPB, WaitTest, WaitFlag, WaitEnqueue, InterruptGoto,
         UnchangedByInterrupt, IInv, TypeOK, BlockFlags, BlockFlag
<1> QED
  BY <1>1 DEF busyBar, orderBar, Handling

LEMMA EnqueuePBRefines ==
  ASSUME IInv, NEW p \in PBs, EnqueuePB(p)
  PROVE  CQ!Complete(p)
<1> USE OwnerAssumption
<1> DEFINE s == Owner[p]
<1>1. /\ s \in Streams
      /\ completedPBs \in [Streams -> Seq(PBs)]
      /\ completedPBs' = [completedPBs EXCEPT ![s] = Append(@, p)]
      /\ \A r \in PBs : ipc'[r] = IF r = p THEN "wait" ELSE ipc[r]
      /\ ipc[p] = "enqueuePB"
      /\ p \notin device
      /\ UNCHANGED <<device, mpc, stream, pb>>
      /\ Handling => pb \in PBs
  BY DEF EnqueuePB, InterruptGoto, UnchangedByInterrupt, IInv, TypeOK,
         BlockFlags, BlockFlag, Active
<1>2. p \in busyBar /\ busyBar' = busyBar \ {p}
  BY <1>1 DEF busyBar
<1>3. ASSUME NEW t \in Streams
      PROVE  orderBar'[t] = IF t = s THEN Append(orderBar[s], p) ELSE orderBar[t]
  <2>1. Handling' = Handling
    BY <1>1 DEF Handling
  <2>2. completedPBs'[t] = IF t = s THEN Append(completedPBs[s], p)
                                    ELSE completedPBs[t]
    BY <1>1
  <2>3. CASE Handling /\ stream = t
    <3>1. ASSUME NEW q \in Seq(PBs), NEW e \in PBs
          PROVE  Append(<<e>> \o q, p) = <<e>> \o Append(q, p)
      BY Prepend
    <3>2. Append(<<pb>> \o completedPBs[s], p) = <<pb>> \o Append(completedPBs[s], p)
      BY <1>1, <2>3, <3>1
    <3> QED
      BY <1>1, <2>1, <2>2, <2>3, <3>2 DEF orderBar
  <2>4. CASE ~(Handling /\ stream = t)
    BY <1>1, <2>1, <2>2, <2>4 DEF orderBar
  <2> QED
    BY <2>3, <2>4
<1>4. orderBar' = [orderBar EXCEPT ![s] = Append(@, p)]
  <2>1. orderBar' = [t \in Streams |-> orderBar'[t]]
    BY DEF orderBar
  <2>2. DOMAIN orderBar = Streams
    BY DEF orderBar
  <2> QED
    BY <1>3, <2>1, <2>2
<1> QED
  BY <1>2, <1>4 DEF CQ!Complete

LEMMA IssueRefines ==
  ASSUME IInv, NEW p \in PBs, Issue(p)
  PROVE  CQ!Issue(p)
<1>1. p \notin busyBar /\ ~CQ!Undelivered(p)
  BY UnusedIsNew DEF Issue
<1>2. busyBar' = busyBar \union {p} /\ orderBar' = orderBar
  BY DEF Issue, IssueAll, UnchangedByMain, busyBar, orderBar, Handling
<1> QED
  BY <1>1, <1>2 DEF CQ!Issue

(* The steps of the polling loops but FileHandle are invisible. *)
LEMMA PollStutters ==
  ASSUME IInv, \/ PollStreams \/ PollHead \/ PollDequeue \/ PollClear
               \/ FilePollHead \/ FilePollClear
  PROVE  UNCHANGED <<busyBar, orderBar>>
<1>1. UNCHANGED <<completedPBs, device, ipc>>
  BY DEF PollStreams, PollHead, PollDequeue, PollClear, FilePollHead,
         FilePollClear, UnchangedByMain
<1>2. CASE FilePollClear
  BY <1>1, <1>2 DEF FilePollClear, busyBar, orderBar, Handling
<1>3. CASE PollStreams \/ PollHead \/ PollDequeue \/ PollClear \/ FilePollHead
  <2>1. ~Handling /\ ~Handling'
    BY <1>3, MainRunsFacts DEF PollStreams, PollHead, PollDequeue, PollClear,
       FilePollHead, Handling
  <2> QED
    BY <1>1, <2>1 DEF busyBar, orderBar
<1> QED
  BY <1>2, <1>3

LEMMA FilePollDequeueStutters ==
  ASSUME IInv, FilePollDequeue
  PROVE  UNCHANGED <<busyBar, orderBar>>
<1> DEFINE q == completedPBs[stream]
<1>1. /\ mpc = "dequeuePB"
      /\ stream \in Streams
      /\ completedPBs \in [Streams -> Seq(PBs)]
      /\ q # <<>>
      /\ pb = Head(q)
      /\ Distinct(q)
  BY DEF FilePollDequeue, IInv, TypeOK, LinkedOnce, HeadStable
<1>2. /\ pb \in Elements(q)
      /\ Unlink(q, pb) = Tail(q)
      /\ <<pb>> \o Tail(q) = q
  BY <1>1, TailElements, UnlinkHead, HeadTail
<1>3. /\ mpc' = "clearPB"
      /\ completedPBs' = [completedPBs EXCEPT ![stream] = Tail(q)]
      /\ UNCHANGED <<device, ipc, stream, pb>>
  BY <1>2 DEF FilePollDequeue, UnchangedByMain
<1>4. ASSUME NEW t \in Streams
      PROVE  orderBar'[t] = orderBar[t]
  BY <1>1, <1>2, <1>3 DEF orderBar, Handling
<1>5. orderBar' = orderBar
  BY <1>4 DEF orderBar
<1> QED
  BY <1>3, <1>5 DEF busyBar

LEMMA FileHandleRefines ==
  ASSUME IInv, FileHandle
  PROVE  \E new \in SUBSET {p \in PBs : Owner[p] = stream} : CQ!Deliver(stream, new)
<1> USE OwnerAssumption
<1>1. /\ mpc = "handle" /\ mpc' = "poll"
      /\ stream \in Streams
      /\ pb \in PBs
      /\ Owner[pb] = stream
      /\ completedPBs \in [Streams -> Seq(PBs)]
      /\ UNCHANGED <<completedPBs, stream, ipc>>
      /\ MainRuns
  BY DEF FileHandle, UnchangedByMain, IInv, TypeOK, BlockFlags, Handling
<1>2. PICK new \in SUBSET {q \in PBs : Owner[q] = stream /\ (q = pb \/ Unused(q))} :
        IssueAll(new, stream)
  BY DEF FileHandle
<1>3. /\ orderBar[stream] = <<pb>> \o completedPBs[stream]
      /\ orderBar[stream] # <<>>
      /\ Head(orderBar[stream]) = pb
      /\ Tail(orderBar[stream]) = completedPBs[stream]
  <2>1. orderBar[stream] = <<pb>> \o completedPBs[stream]
    BY <1>1 DEF orderBar, Handling
  <2>2. completedPBs[stream] \in Seq(PBs)
    BY <1>1
  <2>3. ASSUME NEW q \in Seq(PBs), NEW e \in PBs
        PROVE  /\ <<e>> \o q # <<>>
               /\ Head(<<e>> \o q) = e
               /\ Tail(<<e>> \o q) = q
    BY Prepend
  <2> QED
    BY <1>1, <2>1, <2>2, <2>3
<1>4. orderBar' = [orderBar EXCEPT ![stream] = Tail(@)]
  BY <1>1, <1>3 DEF orderBar, Handling
<1>5. ASSUME NEW p \in new
      PROVE  p \notin busyBar /\ (p = Head(orderBar[stream]) \/ ~CQ!Undelivered(p))
  <2>1. CASE p = pb
    BY <1>1, <1>3, <2>1, MainRunsFacts
    DEF busyBar, IInv, BlockFlags, BlockFlag, Handling
  <2>2. CASE Unused(p)
    BY <1>1, <1>2, <2>2, UnusedIsNew
  <2> QED
    BY <1>2, <2>1, <2>2
<1>6. busyBar' = busyBar \union new
  BY <1>1, <1>2 DEF IssueAll, busyBar
<1>7. new \in SUBSET {p \in PBs : Owner[p] = stream}
  BY <1>2
<1> QED
  BY <1>3, <1>4, <1>5, <1>6, <1>7 DEF CQ!Deliver

LEMMA NextRefines ==
  ASSUME IInv, [Next]_vars
  PROVE  [CQ!Next]_(CQ!vars)
<1>1. CASE \E p \in PBs : Issue(p)
  BY <1>1, IssueRefines DEF CQ!Next
<1>2. CASE \E p \in PBs : EnqueuePB(p)
  BY <1>2, EnqueuePBRefines DEF CQ!Next
<1>3. CASE FileHandle
  <2>1. stream \in Streams
    BY <1>3 DEF FileHandle, IInv, TypeOK
  <2> QED
    BY <1>3, <2>1, FileHandleRefines DEF CQ!Next
<1>4. CASE \E p \in PBs : \/ Complete(p) \/ MarkPB(p) \/ WaitTest(p)
                          \/ WaitFlag(p) \/ WaitEnqueue(p)
  BY <1>4, CompleteRefines, RoutineStutters DEF CQ!vars
<1>5. CASE Main /\ ~FileHandle
  BY <1>5, PollStutters, FilePollDequeueStutters DEF Main, CQ!vars
<1>6. CASE UNCHANGED vars
  BY <1>6 DEF vars, CQ!vars, busyBar, orderBar, Handling
<1> QED
  BY <1>1, <1>2, <1>3, <1>4, <1>5, <1>6 DEF Next, Interrupt

(* Each completion is delivered to the poll routine of its stream, at most *)
(* once and in the order of completion, whatever the interleaving of       *)
(* PollStreams, FileStreamPoll and the completion routines (stream.c,      *)
(* filestream.c).  That it is delivered at all is liveness, left to TLC.   *)
THEOREM DeliveryRefinement == Spec => DeliversInOrder
<1>1. Init => CQ!Init
  BY InitRefines
<1>2. IInv /\ [Next]_vars => [CQ!Next]_(CQ!vars)
  BY NextRefines
<1> QED
  BY <1>1, <1>2, Invariance, PTL DEF Spec, CQ!Spec, DeliversInOrder
=============================================================================
