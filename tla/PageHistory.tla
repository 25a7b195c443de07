----------------------------- MODULE PageHistory -----------------------------
(***************************************************************************)
(* The history of a page window (window.c): a doubly linked list of        *)
(* allocated items, of which `history' is the current one.                 *)
(* PageWindowNavigate appends to it, PageWindowNavigateHistory moves in    *)
(* it, and ClosePageWindow disposes of it.  Beside it the window keeps     *)
(* `location', a pointer to the address of the item that was current when  *)
(* the last response began.                                                *)
(*                                                                         *)
(* A turn of a loop that disposes of items is an action.  Nothing else     *)
(* happens between its turns: there is one thread, and no callback runs    *)
(* outside PollStreams.                                                    *)
(***************************************************************************)
EXTENDS Integers, FiniteSets, SequencesExt

CONSTANTS
  Addresses,    \* addresses, as url_sanitize returns them
  Items,        \* the memory the Memory Manager may return for an item
  MaxRequests,  \* bound: requests whose response has not begun
  MaxAmount,    \* bound: the steps of one move
  NULL,
  Junk          \* what is read through a NULL pointer

ASSUME NullAssumption == {NULL, Junk} \intersect (Items \union Addresses) = {}
ASSUME ItemsAssumption == IsFiniteSet(Items)
ASSUME MaxRequestsAssumption == MaxRequests \in Nat
ASSUME MaxAmountAssumption == MaxAmount \in Nat

VARIABLES
  item,        \* the contents of the items
  live,        \* the items that are allocated
  history,     \* the current item, or NULL
  location,    \* the item whose address pWin->location is, NULL if it is ""
  pc,          \* "idle", or the loop that is running
  curr,        \* the local `curr' of the loops
  newNext,     \* the local of HistoryItemNewNext
  link, left,  \* PageWindowNavigateHistory: the direction and the steps left
  unanswered   \* requests whose response may still begin

vars == <<item, live, history, location, pc, curr, newNext, link, left, unanswered>>

Init ==
  /\ item \in [Items -> {[address |-> NULL, prev |-> NULL, next |-> NULL]}]
  /\ live = {}
  /\ history = NULL
  /\ location = NULL
  /\ pc = "idle"
  /\ curr = NULL
  /\ newNext = NULL
  /\ link = "prev"
  /\ left = 0
  /\ unanswered = 0

-----------------------------------------------------------------------------
(* The end of PageWindowNavigate: Stop, and a new request if NewURI gives  *)
(* one.  A request that was stopped stays unanswered: its status may come  *)
(* late (see FileLoad).                                                    *)
Request ==
  unanswered' \in {unanswered} \union {n \in {unanswered + 1} : n <= MaxRequests}

(* Faulty: compared with the page that is shown. *)
SameAsLocation(a) == location \in live /\ item[location].address = a

(* if (pWin->history && strncmp(newLocation, pWin->history->address) == 0) *)
SameAddress(a) == history # NULL /\ item[history].address = a

(* PageWindowNavigate without a new item: to the address of the current    *)
(* one, or to any when NewHandle fails.                                    *)
Navigate ==
  /\ pc = "idle"
  /\ Request
  /\ UNCHANGED <<item, live, history, location, pc, curr, newNext, link, left>>

(* HistoryItemNewNext, up to its loop. *)
NewItem(a) ==
  /\ pc = "idle"
  /\ ~SameAddress(a)
  /\ \E i \in Items \ live :
       /\ live' = live \union {i}
       /\ newNext' = i
       /\ item' = [item EXCEPT ![i] =
                     [address |-> a, prev |-> history, next |-> NULL]]
  /\ curr' = IF history = NULL THEN NULL ELSE item[history].next
  /\ pc' = "truncate"
  /\ UNCHANGED <<history, location, link, left, unanswered>>

(* A turn of a loop over the items in one direction: the link is read      *)
(* before the item is disposed of.                                         *)
DisposeCurr(direction) ==
  /\ curr # NULL
  /\ live' = live \ {curr}
  /\ curr' = item[curr][direction]
  /\ UNCHANGED <<item, history, location, pc, newNext, link, left, unanswered>>

(* for (curr = base->next; curr; curr = next) DisposeHistoryItem(curr); *)
Truncate == pc = "truncate" /\ DisposeCurr("next")

(* Faulty: base keeps its link. *)
LinkNewItemOneWay ==
  /\ pc = "truncate" /\ curr = NULL
  /\ history' = newNext
  /\ newNext' = NULL
  /\ pc' = "idle"
  /\ Request
  /\ UNCHANGED <<item, live, location, curr, link, left>>

(* Faulty: the new item does not become the current one. *)
LinkNewItemUnvisited ==
  /\ pc = "truncate" /\ curr = NULL
  /\ item' = IF history = NULL THEN item
             ELSE [item EXCEPT ![history].next = newNext]
  /\ history' = IF history = NULL THEN newNext ELSE history
  /\ newNext' = NULL
  /\ pc' = "idle"
  /\ Request
  /\ UNCHANGED <<live, location, curr, link, left>>

(* base->next = newNext; and the rest of PageWindowNavigate. *)
LinkNewItem ==
  /\ pc = "truncate" /\ curr = NULL
  /\ item' = IF history = NULL THEN item
             ELSE [item EXCEPT ![history].next = newNext]
  /\ history' = newNext
  /\ newNext' = NULL
  /\ pc' = "idle"
  /\ Request
  /\ UNCHANGED <<live, location, curr, link, left>>

-----------------------------------------------------------------------------
(* PageWindowNavigateHistory: n steps in one direction, or as many as      *)
(* there are; then PageWindowNavigate to the address of the item it came   *)
(* to, which is the same address.  It beeps if there is nowhere to go.     *)
Move(direction, n) ==
  /\ pc = "idle" /\ history # NULL
  /\ n = 0 \/ item[history][direction] # NULL
  /\ pc' = "walk"
  /\ curr' = history
  /\ link' = direction
  /\ left' = n
  /\ UNCHANGED <<item, live, history, location, newNext, unanswered>>

Walk ==
  /\ pc = "walk" /\ left > 0 /\ item[curr][link] # NULL
  /\ curr' = item[curr][link]
  /\ left' = left - 1
  /\ UNCHANGED <<item, live, history, location, pc, newNext, link, unanswered>>

Arrive ==
  /\ pc = "walk"
  /\ left = 0 \/ item[curr][link] = NULL
  /\ history' = curr
  /\ curr' = NULL
  /\ link' = "prev"
  /\ left' = 0
  /\ pc' = "idle"
  /\ Request
  /\ UNCHANGED <<item, live, location, newNext>>

(* PageURIOnStatus: the response of a request begins.  There is no history *)
(* if the first item could not be allocated; the code does not look.       *)
OnStatus ==
  /\ pc = "idle"
  /\ unanswered > 0
  /\ unanswered' = unanswered - 1
  /\ location' = IF history = NULL THEN Junk ELSE history
  /\ UNCHANGED <<item, live, history, pc, curr, newNext, link, left>>

(* A request ends without a response. *)
NoResponse ==
  /\ pc = "idle"
  /\ unanswered > 0
  /\ unanswered' = unanswered - 1
  /\ UNCHANGED <<item, live, history, location, pc, curr, newNext, link, left>>

-----------------------------------------------------------------------------
(* ClosePageWindow: the items forward of the current one, then the current *)
(* one and those before it.                                                *)
ClosePageWindow ==
  /\ pc = "idle"
  /\ IF history = NULL
       THEN pc' = "closed" /\ UNCHANGED curr
       ELSE pc' = "disposeNext" /\ curr' = item[history].next
  /\ UNCHANGED <<item, live, history, location, newNext, link, left, unanswered>>

DisposeNext == pc = "disposeNext" /\ DisposeCurr("next")

(* Faulty: the second loop also starts at history->next. *)
TurnBackAtNext ==
  /\ pc = "disposeNext" /\ curr = NULL
  /\ pc' = "disposePrev"
  /\ curr' = item[history].next
  /\ UNCHANGED <<item, live, history, location, newNext, link, left, unanswered>>

TurnBack ==
  /\ pc = "disposeNext" /\ curr = NULL
  /\ pc' = "disposePrev"
  /\ curr' = history
  /\ UNCHANGED <<item, live, history, location, newNext, link, left, unanswered>>

DisposePrev == pc = "disposePrev" /\ DisposeCurr("prev")

Closed ==
  /\ pc = "disposePrev" /\ curr = NULL
  /\ pc' = "closed"
  /\ UNCHANGED <<item, live, history, location, curr, newNext, link, left, unanswered>>

-----------------------------------------------------------------------------
Next ==
  \/ Navigate
  \/ \E a \in Addresses : NewItem(a)
  \/ Truncate \/ LinkNewItem
  \/ \E direction \in {"prev", "next"}, n \in 0 .. MaxAmount : Move(direction, n)
  \/ Walk \/ Arrive
  \/ OnStatus \/ NoResponse
  \/ ClosePageWindow \/ DisposeNext \/ TurnBack \/ DisposePrev \/ Closed

Spec == Init /\ [][Next]_vars

-----------------------------------------------------------------------------
(* Properties. *)

Contents == [address : Addresses \union {NULL}, prev : Items \union {NULL},
             next : Items \union {NULL}]

(* Every variable has its type, an allocated item has an address, and the  *)
(* locals of the loops are items where the code uses them.                 *)
TypeOK ==
  /\ item \in [Items -> Contents]
  /\ live \in SUBSET Items
  /\ \A i \in live : item[i].address \in Addresses
  /\ history \in Items \union {NULL}
  /\ location \in Items \union {NULL, Junk}
  /\ pc \in {"idle", "walk", "truncate", "disposeNext", "disposePrev", "closed"}
  /\ curr \in Items \union {NULL}
  /\ newNext \in Items \union {NULL}
  /\ pc = "truncate" => newNext \in live
  /\ pc = "walk" => curr \in live
  /\ link \in {"prev", "next"}
  /\ left \in 0 .. MaxAmount
  /\ unanswered \in 0 .. MaxRequests

(* Between two events the items are one list: each link leads to an        *)
(* allocated item and back, there is one first item, and the current item  *)
(* is in it (window.c:996-1021).  A link to an item that was disposed of   *)
(* would be followed by the next Back, Forward or popup menu.              *)
Linked(i) ==
  /\ item[i].prev # NULL => item[i].prev \in live /\ item[item[i].prev].next = i
  /\ item[i].next # NULL => item[i].next \in live /\ item[item[i].next].prev = i

OneFirst ==
  \A i, j \in live : item[i].prev = NULL /\ item[j].prev = NULL => i = j

WellLinked ==
  pc \in {"idle", "walk"} =>
    /\ IF live = {} THEN history = NULL ELSE history \in live
    /\ \A i \in live : Linked(i)
    /\ OneFirst

(* The loops of HistoryItemNewNext and ClosePageWindow dispose of items    *)
(* that are allocated, so each is disposed of once, and the first never    *)
(* of the current item or the new one (window.c:104-118, 1013-1018); those *)
(* of ClosePageWindow leave none.                                          *)
DisposesOnce ==
  /\ curr # NULL =>
       /\ curr \in live
       /\ pc \in {"truncate", "disposeNext"} => curr # history /\ history \in live
       /\ curr # newNext
  /\ pc = "closed" => live = {}

(* "don't put a new history item for the same address" (window.c:922):     *)
(* Back and Forward always lead to another address.                        *)
NeighboursDiffer ==
  pc = "idle" =>
    \A i \in live : item[i].next # NULL =>
      item[i].address # item[item[i].next].address

(* The address of the page that is shown is disposed of only when the user *)
(* went back from it and no response came (window.c:1013-1018, 1347): a    *)
(* page that is the current item of the history keeps its address, which   *)
(* Save As reads (window.c:1192).                                          *)
LocationKept ==
  [][pc # "disposeNext" /\ pc # "disposePrev" /\ location \in live /\ location = history
       => location \in live']_vars

(* The list implements BrowserHistory: the items up to the current one and *)
(* those after it are the addresses visited.  Here n bounds the links that *)
(* are followed: there are no more items than memory for them.             *)
UpTo[n \in Nat] ==
  [i \in Items \union {NULL} |->
     IF n = 0 \/ i = NULL THEN <<>>
     ELSE Append(UpTo[n - 1][item[i].prev], item[i].address)]

From[n \in Nat] ==
  [i \in Items \union {NULL} |->
     IF n = 0 \/ i = NULL THEN <<>>
     ELSE <<item[i].address>> \o From[n - 1][item[i].next]]

Before(i) == UpTo[Cardinality(Items)][i]
After(i) == From[Cardinality(Items)][i]

entriesBar ==
  IF pc = "closed" \/ history = NULL THEN <<>>
  ELSE Before(history) \o After(item[history].next)

cursorBar == IF pc = "closed" THEN 0 ELSE Len(Before(history))

BH == INSTANCE BrowserHistory WITH entries <- entriesBar, cursor <- cursorBar

VisitsInOrder == BH!Spec
=============================================================================
