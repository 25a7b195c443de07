----------------------------- MODULE StreamQueue -----------------------------
(***************************************************************************)
(* The event-loop side and the interrupt side of the stream library:       *)
(* PollStreams and StreamWait (stream.c), FileStreamPoll and               *)
(* FileStreamComplete (filestream.c).                                      *)
(*                                                                         *)
(* The event loop is one thread of control, `mpc'.  A completion routine   *)
(* runs as an interrupt: it suspends the event loop, and also any routine  *)
(* of a lower interrupt level, until it returns.  Each parameter block has *)
(* its own `ipc', so several routines may be in progress at once, nested.  *)
(* One action is one statement of the C code, or a run of statements that  *)
(* no other actor can tell from one.  Enqueue and Dequeue are system calls *)
(* that mask interrupts, hence atomic.                                     *)
(***************************************************************************)
EXTENDS Naturals, Sequences

CONSTANTS
  Streams,   \* the streams of the program
  PBs,       \* the parameter blocks, one per operation that may be in flight
  Owner,     \* the stream each parameter block works for
  Level,     \* the interrupt level of the driver behind each stream
  NoStream,  \* value of the local `stream' outside the loop of PollStreams
  NoPB,      \* value of the local `pb' outside the loop of FileStreamPoll
  MaxOps     \* bound: operations each stream ever issues (files are finite)

ASSUME OwnerAssumption == Owner \in [PBs -> Streams]
ASSUME LevelAssumption == Level \in [Streams -> Nat]
ASSUME NullAssumption == NoStream \notin Streams /\ NoPB \notin PBs
ASSUME MaxOpsAssumption == MaxOps \in Nat

VARIABLES
  readyStreams,  \* queue of streams whose poll routine must run
  qType,         \* per stream: the flag "I am in readyStreams"
  completedPBs,  \* per stream: queue of completed blocks
  inQueue,       \* per block: the flag "I am in completedPBs"
  device,        \* the blocks a driver is working on
  ipc,           \* per block: where its completion routine is
  mpc,           \* where the event loop is
  stream,        \* the local of PollStreams
  pb,            \* the local of FileStreamPoll
  issued         \* per stream: operations issued so far, at most MaxOps

vars == <<readyStreams, qType, completedPBs, inQueue, device, ipc, mpc,
          stream, pb, issued>>

InterruptPoints == {"off", "mark", "enqueuePB", "wait", "flag", "enqueueStream"}
MainPoints == {"event", "dequeue", "while", "clear", "poll", "dequeuePB",
               "clearPB", "handle"}

-----------------------------------------------------------------------------
(* Who may take the next step. *)

Active(p) == ipc[p] # "off"

Elements(q) == {q[i] : i \in DOMAIN q}

(* The queue without the first occurrence of an element it contains. *)
Unlink(q, e) ==
  LET at == CHOOSE i \in DOMAIN q : q[i] = e /\ \A j \in 1 .. i - 1 : q[j] # e
  IN  [j \in 1 .. Len(q) - 1 |-> IF j < at THEN q[j] ELSE q[j + 1]]

(* An interrupt is served only above the level of those in progress, so    *)
(* the routine that runs is the last one entered, and two of one driver    *)
(* never nest.                                                             *)
MayInterrupt(p) ==
  \A q \in PBs : Active(q) => Level[Owner[q]] < Level[Owner[p]]

Running(p) ==
  /\ Active(p)
  /\ \A q \in PBs \ {p} : Active(q) => Level[Owner[q]] < Level[Owner[p]]

MainRuns == \A p \in PBs : ~Active(p)

(* A block that malloc may return: in use by nobody. *)
Unused(p) ==
  /\ p \notin device
  /\ ~Active(p)
  /\ p \notin Elements(completedPBs[Owner[p]])
  /\ ~(mpc \in {"clearPB", "handle"} /\ pb = p)

-----------------------------------------------------------------------------
Init ==
  /\ readyStreams = <<>>
  /\ qType = [s \in Streams |-> FALSE]
  /\ completedPBs = [s \in Streams |-> <<>>]
  /\ inQueue = [p \in PBs |-> FALSE]
  /\ device = {}
  /\ ipc = [p \in PBs |-> "off"]
  /\ mpc = "event"
  /\ stream = NoStream
  /\ pb = NoPB
  /\ issued = [s \in Streams |-> 0]

-----------------------------------------------------------------------------
(* Interrupt level: FileStreamComplete, then StreamWait. *)

InterruptGoto(p, point) == ipc' = [ipc EXCEPT ![p] = point]

UnchangedByInterrupt == UNCHANGED <<mpc, stream, pb, issued>>

(* The driver finishes the operation and calls the completion routine. *)
Complete(p) ==
  /\ p \in device
  /\ MayInterrupt(p)
  /\ device' = device \ {p}
  /\ InterruptGoto(p, "mark")
  /\ UNCHANGED <<readyStreams, qType, completedPBs, inQueue>>
  /\ UnchangedByInterrupt

(* if (pb->inQueue) return; pb->inQueue = true; *)
MarkPB(p) ==
  /\ Running(p) /\ ipc[p] = "mark"
  /\ InterruptGoto(p, IF inQueue[p] THEN "off" ELSE "enqueuePB")
  /\ inQueue' = [inQueue EXCEPT ![p] = TRUE]
  /\ UNCHANGED <<readyStreams, qType, completedPBs, device>>
  /\ UnchangedByInterrupt

(* Faulty: the newest completion first. *)
EnqueuePBInFront(p) ==
  /\ Running(p) /\ ipc[p] = "enqueuePB"
  /\ completedPBs' = [completedPBs EXCEPT ![Owner[p]] = <<p>> \o @]
  /\ InterruptGoto(p, "wait")
  /\ UNCHANGED <<readyStreams, qType, inQueue, device>>
  /\ UnchangedByInterrupt

(* Enqueue(pb, &fileData->completedPBs); *)
EnqueuePB(p) ==
  /\ Running(p) /\ ipc[p] = "enqueuePB"
  /\ completedPBs' = [completedPBs EXCEPT ![Owner[p]] = Append(@, p)]
  /\ InterruptGoto(p, "wait")
  /\ UNCHANGED <<readyStreams, qType, inQueue, device>>
  /\ UnchangedByInterrupt

(* Faulty: no test of the flag. *)
WaitUntested(p) ==
  /\ Running(p) /\ ipc[p] = "wait"
  /\ InterruptGoto(p, "flag")
  /\ UNCHANGED <<readyStreams, qType, completedPBs, inQueue, device>>
  /\ UnchangedByInterrupt

(* StreamWait: if (stream->qType) return; *)
WaitTest(p) ==
  /\ Running(p) /\ ipc[p] = "wait"
  /\ InterruptGoto(p, IF qType[Owner[p]] THEN "off" ELSE "flag")
  /\ UNCHANGED <<readyStreams, qType, completedPBs, inQueue, device>>
  /\ UnchangedByInterrupt

(* stream->qType = true; *)
WaitFlag(p) ==
  /\ Running(p) /\ ipc[p] = "flag"
  /\ qType' = [qType EXCEPT ![Owner[p]] = TRUE]
  /\ InterruptGoto(p, "enqueueStream")
  /\ UNCHANGED <<readyStreams, completedPBs, inQueue, device>>
  /\ UnchangedByInterrupt

(* Faulty: the stream jumps the queue. *)
WaitEnqueueInFront(p) ==
  /\ Running(p) /\ ipc[p] = "enqueueStream"
  /\ readyStreams' = <<Owner[p]>> \o readyStreams
  /\ InterruptGoto(p, "off")
  /\ UNCHANGED <<qType, completedPBs, inQueue, device>>
  /\ UnchangedByInterrupt

(* Enqueue(stream, &readyStreams); and, where there are processes, a wake- *)
(* up of the event loop, which returns from its wait within ten ticks in   *)
(* any case.                                                               *)
WaitEnqueue(p) ==
  /\ Running(p) /\ ipc[p] = "enqueueStream"
  /\ readyStreams' = Append(readyStreams, Owner[p])
  /\ InterruptGoto(p, "off")
  /\ UNCHANGED <<qType, completedPBs, inQueue, device>>
  /\ UnchangedByInterrupt

Interrupt(p) ==
  \/ MarkPB(p) \/ EnqueuePB(p)
  \/ WaitTest(p) \/ WaitFlag(p) \/ WaitEnqueue(p)

-----------------------------------------------------------------------------
(* The event loop: HandleEvent, PollStreams, FileStreamPoll. *)

UnchangedByMain == UNCHANGED ipc

(* A new operation goes to the driver, within the bound. *)
IssueAll(new, s) ==
  /\ issued[s] < MaxOps \/ new = {}
  /\ device' = device \union new
  /\ issued' = [issued EXCEPT ![s] = IF new = {} THEN @ ELSE @ + 1]

(* Blocks are made for all operations but the next read, which uses the    *)
(* block in hand: pb->inQueue = false;                                     *)
NewPB(new) == inQueue' = [q \in PBs |-> IF q \in new THEN FALSE ELSE inQueue[q]]

(* The consumer opens, writes or closes a stream while it handles an event.*)
Issue(p) ==
  /\ MainRuns /\ mpc = "event"
  /\ Unused(p)
  /\ issued[Owner[p]] < MaxOps
  /\ IssueAll({p}, Owner[p]) /\ NewPB({p})
  /\ UNCHANGED <<readyStreams, qType, completedPBs, mpc, stream, pb>>
  /\ UnchangedByMain

(* PollStreams is called. *)
PollStreams ==
  /\ MainRuns /\ mpc = "event"
  /\ mpc' = "while"
  /\ UNCHANGED <<readyStreams, qType, completedPBs, inQueue, device, stream,
                 pb, issued>>
  /\ UnchangedByMain

(* while (readyStreams.qHead) { stream = readyStreams.qHead; ... } *)
PollHead ==
  /\ MainRuns /\ mpc = "while"
  /\ IF readyStreams = <<>>
       THEN mpc' = "event" /\ stream' = NoStream
       ELSE mpc' = "dequeue" /\ stream' = Head(readyStreams)
  /\ UNCHANGED <<readyStreams, qType, completedPBs, inQueue, device, pb, issued>>
  /\ UnchangedByMain

(* Faulty: the stream is polled where it stands in the queue. *)
PollWithoutDequeue ==
  /\ MainRuns /\ mpc = "dequeue"
  /\ mpc' = "clear"
  /\ UNCHANGED <<readyStreams, qType, completedPBs, inQueue, device, stream, pb,
                 issued>>
  /\ UnchangedByMain

(* if (Dequeue(readyStreams.qHead, &readyStreams) != noErr) continue;      *)
(* The head is read again: it is whatever heads the queue by now.          *)
PollDequeue ==
  /\ MainRuns /\ mpc = "dequeue"
  /\ IF readyStreams = <<>>
       THEN mpc' = "while" /\ UNCHANGED readyStreams
       ELSE mpc' = "clear" /\ readyStreams' = Tail(readyStreams)
  /\ UNCHANGED <<qType, completedPBs, inQueue, device, stream, pb, issued>>
  /\ UnchangedByMain

(* Faulty: the flag stays up. *)
PollWithoutClear ==
  /\ MainRuns /\ mpc = "clear"
  /\ mpc' = "poll"
  /\ UNCHANGED <<readyStreams, qType, completedPBs, inQueue, device, stream, pb,
                 issued>>
  /\ UnchangedByMain

(* stream->qType = false; and the call of the provider's poll routine. *)
PollClear ==
  /\ MainRuns /\ mpc = "clear"
  /\ qType' = [qType EXCEPT ![stream] = FALSE]
  /\ mpc' = "poll"
  /\ UNCHANGED <<readyStreams, completedPBs, inQueue, device, stream, pb, issued>>
  /\ UnchangedByMain

(* FileStreamPoll: while (completedPBs.qHead) { pb = q->qHead; ... } *)
FilePollHead ==
  /\ MainRuns /\ mpc = "poll"
  /\ IF completedPBs[stream] = <<>>
       THEN mpc' = "while" /\ pb' = NoPB
       ELSE mpc' = "dequeuePB" /\ pb' = Head(completedPBs[stream])
  /\ UNCHANGED <<readyStreams, qType, completedPBs, inQueue, device, stream, issued>>
  /\ UnchangedByMain

(* if (Dequeue(pb, q) != noErr) continue;  The block read above is looked  *)
(* for and unlinked, wherever it is by now.                                *)
FilePollDequeue ==
  /\ MainRuns /\ mpc = "dequeuePB"
  /\ IF pb \notin Elements(completedPBs[stream])
       THEN mpc' = "poll" /\ UNCHANGED completedPBs
       ELSE /\ mpc' = "clearPB"
            /\ completedPBs' = [completedPBs EXCEPT ![stream] = Unlink(@, pb)]
  /\ UNCHANGED <<readyStreams, qType, inQueue, device, stream, pb, issued>>
  /\ UnchangedByMain

(* Faulty: the flag of the block stays up. *)
FilePollWithoutClear ==
  /\ MainRuns /\ mpc = "clearPB"
  /\ mpc' = "handle"
  /\ UNCHANGED <<readyStreams, qType, completedPBs, inQueue, device, stream, pb,
                 issued>>
  /\ UnchangedByMain

(* pb->inQueue = false; *)
FilePollClear ==
  /\ MainRuns /\ mpc = "clearPB"
  /\ inQueue' = [inQueue EXCEPT ![pb] = FALSE]
  /\ mpc' = "handle"
  /\ UNCHANGED <<readyStreams, qType, completedPBs, device, stream, pb, issued>>
  /\ UnchangedByMain

(* FileStreamCompleted: the block is freed, or used again for the next     *)
(* read, or freed after a new block was sent to close the file.            *)
FileHandle ==
  /\ MainRuns /\ mpc = "handle"
  /\ \E new \in {{}} \union {{p} : p \in {q \in PBs :
                                 Owner[q] = stream /\ (q = pb \/ Unused(q))}} :
       IssueAll(new, stream) /\ NewPB(new \ {pb})
  /\ mpc' = "poll"
  /\ pb' = NoPB
  /\ UNCHANGED <<readyStreams, qType, completedPBs, stream>>
  /\ UnchangedByMain

Main ==
  \/ PollStreams \/ PollHead \/ PollDequeue \/ PollClear
  \/ FilePollHead \/ FilePollDequeue \/ FilePollClear \/ FileHandle

-----------------------------------------------------------------------------
Next ==
  \/ Main
  \/ \E p \in PBs : Issue(p) \/ Complete(p) \/ Interrupt(p)

Spec == Init /\ [][Next]_vars

(* The event loop never blocks for good (its wait for an event has a       *)
(* timeout of ten ticks), a routine that was entered runs to its end, and  *)
(* a driver completes what it was given.                                   *)
Fairness ==
  /\ WF_vars(Main)
  /\ \A p \in PBs : WF_vars(Interrupt(p)) /\ WF_vars(Complete(p))

FairSpec == Spec /\ Fairness

-----------------------------------------------------------------------------
(* Properties. *)

Handling == mpc \in {"clearPB", "handle"}

(* Every variable has its type, and the locals of PollStreams and of       *)
(* FileStreamPoll hold a stream and a block wherever the code uses them.   *)
TypeOK ==
  /\ readyStreams \in Seq(Streams)
  /\ qType \in [Streams -> BOOLEAN]
  /\ completedPBs \in [Streams -> Seq(PBs)]
  /\ inQueue \in [PBs -> BOOLEAN]
  /\ device \in SUBSET PBs
  /\ ipc \in [PBs -> InterruptPoints]
  /\ mpc \in MainPoints
  /\ stream \in Streams \union {NoStream}
  /\ mpc \notin {"event", "while"} => stream \in Streams
  /\ pb \in PBs \union {NoPB}
  /\ mpc = "dequeuePB" \/ Handling => pb \in PBs
  /\ issued \in [Streams -> 0 .. MaxOps]

(* No lost wakeup (stream.c:144-148): a stream with a completed operation  *)
(* is in the ready queue, or a completion routine is about to put it       *)
(* there, or PollStreams took it out and has not finished polling it.  If  *)
(* this failed, the operation would be forgotten until some other          *)
(* operation of the stream completed, and none may ever do.                *)
PolledNow(s) ==
  /\ stream = s
  /\ mpc \in {"clear", "poll", "dequeuePB", "clearPB", "handle"}

Announcing(s) ==
  \E p \in PBs : Owner[p] = s /\ ipc[p] \in {"wait", "flag", "enqueueStream"}

NoLostWakeup ==
  \A s \in Streams : completedPBs[s] # <<>> =>
    s \in Elements(readyStreams) \/ Announcing(s) \/ PolledNow(s)

(* The queues are linked through a field of their elements, so an element  *)
(* that is put in a queue while it is in one, its own or the driver's,     *)
(* corrupts it.  qType and inQueue, both written at interrupt level, are   *)
(* what prevents it (stream.c:120-126, filestream.c:205-210).              *)
Distinct(q) == \A i, j \in DOMAIN q : q[i] = q[j] => i = j

LinkedOnce ==
  /\ Distinct(readyStreams)
  /\ \A s \in Streams :
       /\ Distinct(completedPBs[s])
       /\ Elements(completedPBs[s]) \intersect device = {}
       /\ \A p \in Elements(completedPBs[s]) : Owner[p] = s

(* The element PollStreams and FileStreamPoll take out of a queue is the   *)
(* one whose head they read before, whatever was queued in between: the    *)
(* branch "race condition avoided" (stream.c:140, filestream.c:225) is     *)
(* never needed.                                                           *)
HeadStable ==
  /\ mpc = "dequeue" => readyStreams # <<>> /\ Head(readyStreams) = stream
  /\ mpc = "dequeuePB" =>
       completedPBs[stream] # <<>> /\ Head(completedPBs[stream]) = pb

(* PollStreams always comes back to the event loop, where the user is      *)
(* served: operations that keep completing while it polls delay it, but    *)
(* not for ever.                                                           *)
EventLoopReturns == mpc # "event" ~> mpc = "event"

(* The queues implement CompletionQueue: the completions of a stream are   *)
(* delivered to its poll routine at most once each, in the order in which  *)
(* they happened, and a block is not used again before that.               *)
busyBar == device \union {p \in PBs : ipc[p] \in {"mark", "enqueuePB"}}

orderBar ==
  [s \in Streams |-> IF Handling /\ stream = s
                       THEN <<pb>> \o completedPBs[s]
                       ELSE completedPBs[s]]

CQ == INSTANCE CompletionQueue WITH busy <- busyBar, order <- orderBar

DeliversInOrder == CQ!Spec

(* And delivered they are: whatever was given to a driver is handled.      *)
EveryOperationHandled ==
  \A p \in PBs : p \in busyBar ~> (Handling /\ pb = p)
=============================================================================
