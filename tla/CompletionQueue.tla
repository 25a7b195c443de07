--------------------------- MODULE CompletionQueue ---------------------------
(***************************************************************************)
(* What the stream library promises a provider about its asynchronous      *)
(* operations, with no ready queue, no flags and no interrupt level: an    *)
(* operation that was issued completes, and the completions of one stream  *)
(* are delivered to its poll routine once each, in the order in which they *)
(* happened.  StreamQueue implements this specification.                   *)
(***************************************************************************)
EXTENDS Sequences

CONSTANTS
  Streams,  \* the streams of the program
  PBs,      \* the parameter blocks, one per operation that may be in flight
  Owner     \* the stream each parameter block works for

VARIABLES
  busy,     \* the blocks handed to a driver whose completion is not queued yet
  order     \* per stream, the completed blocks not yet delivered, oldest first

vars == <<busy, order>>

Undelivered(p) == \E i \in DOMAIN order[Owner[p]] : order[Owner[p]][i] = p

TypeOK ==
  /\ busy \in SUBSET PBs
  /\ order \in [Streams -> Seq(PBs)]

Init ==
  /\ busy = {}
  /\ order = [s \in Streams |-> <<>>]

(* The program starts an operation on a block nobody else is using. *)
Issue(p) ==
  /\ p \notin busy
  /\ ~Undelivered(p)
  /\ busy' = busy \union {p}
  /\ UNCHANGED order

(* The operation ends: its block joins the undelivered ones of its stream. *)
Complete(p) ==
  /\ p \in busy
  /\ busy' = busy \ {p}
  /\ order' = [order EXCEPT ![Owner[p]] = Append(@, p)]

(* The oldest completion of a stream is delivered; the provider answers it *)
(* with a set of new operations of that stream (another read, a close).    *)
Deliver(s, new) ==
  /\ order[s] # <<>>
  /\ order' = [order EXCEPT ![s] = Tail(@)]
  /\ \A p \in new : p \notin busy /\ (p = Head(order[s]) \/ ~Undelivered(p))
  /\ busy' = busy \union new

Next ==
  \/ \E p \in PBs : Issue(p) \/ Complete(p)
  \/ \E s \in Streams : \E new \in SUBSET {p \in PBs : Owner[p] = s} : Deliver(s, new)

Spec == Init /\ [][Next]_vars
=============================================================================
