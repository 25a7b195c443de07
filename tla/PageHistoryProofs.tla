-------------------------- MODULE PageHistoryProofs --------------------------
(***************************************************************************)
(* Proofs about PageHistory: the list of history items stays linked, the   *)
(* loops that dispose of items go through allocated ones only, closing the *)
(* window leaves none, and what Back, Forward and a new address do to the  *)
(* list is what BrowserHistory promises.                                   *)
(*                                                                         *)
(* The inductive invariant IInv says that there is a sequence s of items,  *)
(* linked in this order, and a place p in it that is the current one.  The *)
(* items that a loop has disposed of keep their contents until the memory  *)
(* is used again, so that s stays as it is while they go: IInv says of     *)
(* each point of the code which of its items are still allocated.          *)
(***************************************************************************)
EXTENDS PageHistory, FiniteSetTheorems, WellFoundedInduction, NaturalsInduction, TLAPS

(* The item at a place of s, and NULL at both of its ends.                 *)
At(s, k) == IF k \in 1 .. Len(s) THEN s[k] ELSE NULL

(* The items of s are linked in this order, and neighbours have different  *)
(* addresses.                                                              *)
IsList(s) ==
  /\ s \in Seq(Items)
  /\ \A j, k \in 1 .. Len(s) : s[j] = s[k] => j = k
  /\ \A k \in 1 .. Len(s) :
       /\ item[s[k]].prev = At(s, k - 1)
       /\ item[s[k]].next = At(s, k + 1)
       /\ k < Len(s) => item[s[k]].address # item[s[k + 1]].address

Current(s, p) ==
  /\ p \in 0 .. Len(s)
  /\ p = 0 => s = <<>>
  /\ history = At(s, p)

Part(s, S) == {s[k] : k \in S}
All(s) == Part(s, 1 .. Len(s))

(* The list has been cut up to its place q.                                *)
CutTo(s, p, L) ==
  \E q \in p + 1 .. Len(s) + 1 :
    curr = At(s, q) /\ L = Part(s, (1 .. p) \union (q .. Len(s)))

(* The new item is to follow the current one.                              *)
Follows(s, p) ==
  /\ newNext \in live /\ newNext \notin All(s)
  /\ item[newNext].prev = history
  /\ item[newNext].next = NULL
  /\ p # 0 => item[newNext].address # item[history].address

Position(s, p) ==
  /\ pc \in {"idle", "walk"} => live = All(s)
  /\ pc = "idle" => curr = NULL
  /\ pc # "truncate" => newNext = NULL
  /\ pc = "truncate" => Follows(s, p) /\ CutTo(s, p, live \ {newNext})
  /\ pc = "disposeNext" => p # 0 /\ CutTo(s, p, live)
  /\ pc = "disposePrev" =>
       p # 0 /\ \E q \in 0 .. p : curr = At(s, q) /\ live = Part(s, 1 .. q)
  /\ pc = "closed" => live = {} /\ curr = NULL

Holds(s, p) == IsList(s) /\ Current(s, p) /\ Position(s, p)

IInv == TypeOK /\ \E s \in Seq(Items), p \in Nat : Holds(s, p)

-----------------------------------------------------------------------------
(* The items of a list.                                                    *)

LEMMA InList ==
  ASSUME NEW s, IsList(s), NEW k \in 1 .. Len(s)
  PROVE  s[k] \in Items /\ s[k] # NULL /\ At(s, k) = s[k] /\ Len(s) \in Nat
BY NullAssumption DEF IsList, At

LEMMA AtEnd ==
  ASSUME NEW s, IsList(s), NEW k \in 0 .. Len(s) + 1, At(s, k) = NULL
  PROVE  k = 0 \/ k = Len(s) + 1
BY InList DEF At, IsList

(* The links of an item of a list, and what is left without it.            *)
LEMMA CutGoesOn ==
  ASSUME NEW s, IsList(s), NEW p \in 0 .. Len(s), NEW L, CutTo(s, p, L), curr # NULL
  PROVE  \E q \in p + 1 .. Len(s) + 1 :
           /\ item[curr].next = At(s, q)
           /\ L \ {curr} = Part(s, (1 .. p) \union (q .. Len(s)))
           /\ curr \in L
<1>1. Len(s) \in Nat
  BY DEF IsList
<1>2. PICK q \in p + 1 .. Len(s) + 1 :
        curr = At(s, q) /\ L = Part(s, (1 .. p) \union (q .. Len(s)))
  BY DEF CutTo
<1>3. q \in 1 .. Len(s) /\ curr = s[q]
  BY <1>1, <1>2 DEF At
<1>4. item[curr].next = At(s, q + 1)
  BY <1>3 DEF IsList
<1>5. curr \in L
  BY <1>1, <1>2, <1>3 DEF Part
<1>6. L \ {curr} = Part(s, (1 .. p) \union (q + 1 .. Len(s)))
  <2>1. \A k \in 1 .. Len(s) : s[k] = s[q] => k = q
    BY <1>3 DEF IsList
  <2>2. (1 .. p) \union (q + 1 .. Len(s)) = ((1 .. p) \union (q .. Len(s))) \ {q}
    BY <1>1, <1>3, <1>2
  <2>3. (1 .. p) \union (q .. Len(s)) \subseteq 1 .. Len(s)
    BY <1>1, <1>3
  <2> QED
    BY <1>2, <1>3, <2>1, <2>2, <2>3 DEF Part
<1>7. q + 1 \in p + 1 .. Len(s) + 1
  BY <1>1, <1>3
<1> QED
  BY <1>4, <1>5, <1>6, <1>7

(* The loops go through allocated items, not the current one.              *)
LEMMA CutIsLive ==
  ASSUME NEW s, IsList(s), NEW p, Current(s, p), p # 0, NEW L, CutTo(s, p, L), curr # NULL
  PROVE  curr \in L /\ curr # history /\ history \in L
<1>1. Len(s) \in Nat
  BY DEF IsList
<1>2. PICK q \in p + 1 .. Len(s) + 1 :
        curr = At(s, q) /\ L = Part(s, (1 .. p) \union (q .. Len(s)))
  BY DEF CutTo
<1>3. q \in 1 .. Len(s) /\ curr = s[q]
  BY <1>1, <1>2 DEF At
<1>4. p \in 1 .. Len(s) /\ history = s[p] /\ p # q
  BY <1>1, <1>2, <1>3 DEF Current, At
<1> QED
  BY <1>1, <1>2, <1>3, <1>4 DEF Part, IsList

(* Nothing is cut yet, at the first item after the current one.            *)
LEMMA WholeIsCut ==
  ASSUME NEW s, IsList(s), NEW p \in 0 .. Len(s), NEW c, c = At(s, p + 1)
  PROVE  \E q \in p + 1 .. Len(s) + 1 : c = At(s, q) /\ All(s) = Part(s, (1 .. p) \union (q .. Len(s)))
<1>1. Len(s) \in Nat
  BY DEF IsList
<1>2. (1 .. p) \union (p + 1 .. Len(s)) = 1 .. Len(s) /\ p + 1 \in p + 1 .. Len(s) + 1
  BY <1>1
<1> QED
  BY <1>2 DEF All

(* The current item is in a list that is whole.                            *)
LEMMA CurrentIsLive ==
  IInv /\ pc \in {"idle", "walk"} => IF live = {} THEN history = NULL ELSE history \in live
<1> SUFFICES ASSUME IInv, pc \in {"idle", "walk"}
             PROVE  IF live = {} THEN history = NULL ELSE history \in live
  OBVIOUS
<1>1. PICK s \in Seq(Items), p \in Nat : Holds(s, p)
  BY DEF IInv
<1>2. live = All(s) /\ Len(s) \in Nat
  BY <1>1 DEF Holds, Position, IsList
<1>3. CASE p = 0
  BY <1>1, <1>2, <1>3 DEF Holds, Current, All, Part, At
<1>4. CASE p # 0
  <2>1. p \in 1 .. Len(s) /\ history = s[p]
    BY <1>1, <1>2, <1>4 DEF Holds, Current, At
  <2>2. history \in live
    BY <1>2, <2>1 DEF All, Part
  <2> QED
    BY <2>2
<1> QED
  BY <1>3, <1>4

-----------------------------------------------------------------------------
(* The initial states are without items. *)
LEMMA Initially == Init => IInv
<1> SUFFICES ASSUME Init
             PROVE  IInv
  OBVIOUS
<1>1. TypeOK
  BY MaxRequestsAssumption, MaxAmountAssumption DEF Init, TypeOK, Contents
<1>2. << >> \in Seq(Items) /\ Len(<< >>) = 0
  OBVIOUS
<1>3. Holds(<< >>, 0)
  BY <1>2 DEF Init, Holds, IsList, Current, Position, At, All, Part
<1> QED
  BY <1>1, <1>2, <1>3 DEF IInv
(* A link of an item leads to an item of the list, or to its end.          *)
LEMMA WalkStays ==
  ASSUME NEW s, IsList(s), NEW i \in All(s), NEW direction \in {"prev", "next"}
  PROVE  \/ item[i][direction] = NULL
         \/ item[i][direction] \in All(s) /\ item[i][direction] # i
<1>1. PICK k \in 1 .. Len(s) : i = s[k]
  BY DEF All, Part
<1>2. Len(s) \in Nat /\ \A j \in 1 .. Len(s) : s[j] = s[k] => j = k
  BY DEF IsList
<1>3. item[i].prev = At(s, k - 1) /\ item[i].next = At(s, k + 1)
  BY <1>1 DEF IsList
<1>4. \A j \in {k - 1, k + 1} : At(s, j) = NULL \/ (At(s, j) \in All(s) /\ At(s, j) # s[k])
  BY <1>2 DEF At, All, Part
<1> QED
  BY <1>1, <1>3, <1>4

(* The types, action by action. *)
LEMMA TypesKept == IInv /\ [Next]_vars => TypeOK'
<1> SUFFICES ASSUME IInv, [Next]_vars
             PROVE  TypeOK'
  OBVIOUS
<1> USE NullAssumption, MaxRequestsAssumption, MaxAmountAssumption
<1>1. TypeOK
  BY DEF IInv
<1>2. Request => unanswered' \in 0 .. MaxRequests
  BY <1>1 DEF Request, TypeOK
<1>3. ASSUME NEW d \in {"prev", "next"}, DisposeCurr(d), pc # "walk",
             pc = "truncate" => curr # newNext
      PROVE  TypeOK'
  <2>1. curr \in Items /\ item[curr][d] \in Items \union {NULL}
    BY <1>1, <1>3 DEF DisposeCurr, TypeOK, Contents
  <2> QED
    BY <2>1, <1>1, <1>3 DEF DisposeCurr, TypeOK
<1>4. CASE Navigate
  BY <1>1, <1>2, <1>4 DEF Navigate, TypeOK
<1>5. ASSUME NEW a \in Addresses, NewItem(a)
      PROVE  TypeOK'
  <2>1. PICK i \in Items \ live :
          /\ live' = live \union {i}
          /\ newNext' = i
          /\ item' = [item EXCEPT ![i] = [address |-> a, prev |-> history, next |-> NULL]]
    BY <1>5 DEF NewItem
  <2>2. item' \in [Items -> Contents]
    BY <2>1, <1>1 DEF TypeOK, Contents
  <2>3. \A j \in live' : item'[j].address \in Addresses
    BY <2>1, <1>1 DEF TypeOK
  <2>4. curr' \in Items \union {NULL}
    BY <1>1, <1>5 DEF NewItem, TypeOK, Contents
  <2> QED
    BY <2>1, <2>2, <2>3, <2>4, <1>1, <1>5 DEF NewItem, TypeOK
<1>6. CASE Truncate
  <2>1. PICK s \in Seq(Items), p \in Nat : Holds(s, p)
    BY DEF IInv
  <2>2. curr \in live \ {newNext}
    BY <1>6, <2>1, CutGoesOn DEF Truncate, DisposeCurr, Holds, Current, Position
  <2> QED
    BY <1>3, <1>6, <2>2 DEF Truncate
<1>7. CASE LinkNewItem
  <2>1. newNext \in Items
    BY <1>1, <1>7 DEF LinkNewItem, TypeOK
  <2>2. item' \in [Items -> Contents]
    BY <2>1, <1>1, <1>7 DEF LinkNewItem, TypeOK, Contents
  <2>3. \A j \in live' : item'[j].address \in Addresses
    BY <2>1, <1>1, <1>7 DEF LinkNewItem, TypeOK, Contents
  <2> QED
    BY <2>1, <2>2, <2>3, <1>1, <1>2, <1>7 DEF LinkNewItem, TypeOK
<1>8. ASSUME NEW d \in {"prev", "next"}, NEW n \in 0 .. MaxAmount, Move(d, n)
      PROVE  TypeOK'
  <2>1. history \in live
    BY <1>8, CurrentIsLive DEF Move
  <2> QED
    BY <2>1, <1>1, <1>8 DEF Move, TypeOK
<1>9. CASE Walk
  <2>1. PICK s \in Seq(Items), p \in Nat : Holds(s, p)
    BY DEF IInv
  <2>2. item[curr][link] \in live
    BY <2>1, <1>1, <1>9, WalkStays DEF Walk, Holds, Position, TypeOK
  <2> QED
    BY <2>2, <1>1, <1>9 DEF Walk, TypeOK
<1>10. CASE Arrive
  BY <1>1, <1>2, <1>10 DEF Arrive, TypeOK
<1>11. CASE OnStatus
  BY <1>1, <1>11 DEF OnStatus, TypeOK
<1>12. CASE NoResponse
  BY <1>1, <1>12 DEF NoResponse, TypeOK
<1>13. CASE ClosePageWindow
  BY <1>1, <1>13 DEF ClosePageWindow, TypeOK, Contents
<1>14. CASE DisposeNext
  BY <1>3, <1>14 DEF DisposeNext
<1>15. CASE TurnBack
  BY <1>1, <1>15 DEF TurnBack, TypeOK
<1>16. CASE DisposePrev
  BY <1>3, <1>16 DEF DisposePrev
<1>17. CASE Closed
  BY <1>1, <1>17 DEF Closed, TypeOK
<1>18. CASE UNCHANGED vars
  BY <1>1, <1>18 DEF vars, TypeOK
<1> QED
  BY <1>4, <1>5, <1>6, <1>7, <1>8, <1>9, <1>10, <1>11, <1>12, <1>13, <1>14,
     <1>15, <1>16, <1>17, <1>18 DEF Next
-----------------------------------------------------------------------------
(* The list, action by action. *)

(* A list stays as it is when no item of it is written.                    *)
LEMMA SameList ==
  ASSUME NEW s, IsList(s), \A i \in All(s) : item'[i] = item[i]
  PROVE  IsList(s)'
<1>1. \A k \in 1 .. Len(s) : s[k] \in All(s)
  BY DEF All, Part
<1>2. \A k \in 1 .. Len(s) : item'[s[k]] = item[s[k]]
  BY <1>1
<1>3. \A k \in 1 .. Len(s) : k < Len(s) => item'[s[k + 1]] = item[s[k + 1]]
  <2>1. Len(s) \in Nat
    BY DEF IsList
  <2> QED
    BY <1>2, <2>1
<1> QED
  BY <1>2, <1>3 DEF IsList, At

(* HistoryItemNewNext writes an item that was free.                        *)
LEMMA NewItemKeeps ==
  ASSUME TypeOK, NEW s \in Seq(Items), NEW p \in Nat, Holds(s, p),
         NEW a \in Addresses, NewItem(a)
  PROVE  Holds(s, p)'
<1>1. PICK i \in Items \ live :
        /\ live' = live \union {i}
        /\ newNext' = i
        /\ item' = [item EXCEPT ![i] = [address |-> a, prev |-> history, next |-> NULL]]
  BY DEF NewItem
<1>2. /\ pc' = "truncate" /\ history' = history /\ pc = "idle"
      /\ curr' = IF history = NULL THEN NULL ELSE item[history].next
      /\ history # NULL => item[history].address # a
  BY DEF NewItem, SameAddress
<1>3. IsList(s) /\ live = All(s) /\ Len(s) \in Nat /\ Current(s, p)
  BY <1>2 DEF Holds, Position, IsList
<1>4. item'[i] = [address |-> a, prev |-> history, next |-> NULL]
      /\ \A j \in live : item'[j] = item[j]
  BY <1>1 DEF TypeOK
<1>5. IsList(s)'
  BY <1>3, <1>4, SameList
<1>6. Current(s, p)'
  BY <1>2, <1>3 DEF Current, At
<1>7. curr' = At(s, p + 1)
  <2>1. CASE p = 0
    BY <1>2, <1>3, <2>1 DEF Current, At
  <2>2. CASE p # 0
    <3>1. p \in 1 .. Len(s) /\ history = s[p] /\ history # NULL
      BY <1>3, <2>2, InList DEF Current, At
    <3> QED
      BY <1>2, <1>3, <3>1 DEF IsList
  <2> QED
    BY <2>1, <2>2
<1>8. CutTo(s, p, live \ {newNext})'
  <2>1. (live \ {newNext})' = All(s)
    BY <1>1, <1>3
  <2>2. p \in 0 .. Len(s)
    BY <1>3 DEF Current
  <2> QED
    BY <1>3, <1>7, <2>1, <2>2, WholeIsCut DEF CutTo, At
<1>9. Follows(s, p)'
  <2>1. p # 0 => history \in live /\ history # NULL
    BY <1>3, InList DEF Current, At, All, Part
  <2>2. p # 0 => item'[history] = item[history]
    BY <2>1, <1>4
  <2> QED
    BY <1>1, <1>2, <1>3, <1>4, <2>1, <2>2 DEF Follows
<1> QED
  BY <1>2, <1>5, <1>6, <1>8, <1>9 DEF Holds, Position

(* A turn of a loop that cuts.                                             *)
LEMMA CutStep ==
  ASSUME NEW s, IsList(s), NEW p, Current(s, p), NEW L, CutTo(s, p, L),
         DisposeCurr("next")
  PROVE  /\ IsList(s)' /\ Current(s, p)' /\ curr \in L
         /\ \E q \in p + 1 .. Len(s) + 1 :
              curr' = At(s, q) /\ L \ {curr} = Part(s, (1 .. p) \union (q .. Len(s)))
<1>1. curr # NULL /\ curr' = item[curr].next /\ UNCHANGED <<item, history>>
  BY DEF DisposeCurr
<1>2. p \in 0 .. Len(s)
  BY DEF Current
<1>3. IsList(s)'
  BY <1>1, SameList
<1>4. Current(s, p)'
  BY <1>1 DEF Current, At
<1>5. \E q \in p + 1 .. Len(s) + 1 :
        /\ item[curr].next = At(s, q)
        /\ L \ {curr} = Part(s, (1 .. p) \union (q .. Len(s)))
        /\ curr \in L
  BY <1>1, <1>2, CutGoesOn
<1> QED
  BY <1>1, <1>3, <1>4, <1>5

LEMMA TruncateKeeps ==
  ASSUME TypeOK, NEW s \in Seq(Items), NEW p \in Nat, Holds(s, p), Truncate
  PROVE  Holds(s, p)'
<1>1. pc = "truncate" /\ DisposeCurr("next")
  BY DEF Truncate
<1>2. IsList(s) /\ Current(s, p) /\ Follows(s, p) /\ CutTo(s, p, live \ {newNext})
  BY <1>1 DEF Holds, Position
<1>3. /\ IsList(s)' /\ Current(s, p)' /\ curr \in live \ {newNext}
      /\ \E q \in p + 1 .. Len(s) + 1 :
           /\ curr' = At(s, q)
           /\ (live \ {newNext}) \ {curr} = Part(s, (1 .. p) \union (q .. Len(s)))
  BY <1>1, <1>2, CutStep
<1>4. UNCHANGED <<item, history, pc, newNext>> /\ live' = live \ {curr}
  BY <1>1 DEF DisposeCurr
<1>5. (live \ {newNext})' = (live \ {newNext}) \ {curr}
  BY <1>4
<1>6. CutTo(s, p, live \ {newNext})'
  BY <1>3, <1>5 DEF CutTo, At, Part
<1>7. Follows(s, p)'
  BY <1>2, <1>3, <1>4 DEF Follows, All, Part
<1> QED
  BY <1>1, <1>3, <1>4, <1>6, <1>7 DEF Holds, Position

LEMMA DisposeNextKeeps ==
  ASSUME TypeOK, NEW s \in Seq(Items), NEW p \in Nat, Holds(s, p), DisposeNext
  PROVE  Holds(s, p)'
<1>1. pc = "disposeNext" /\ DisposeCurr("next")
  BY DEF DisposeNext
<1>2. IsList(s) /\ Current(s, p) /\ p # 0 /\ newNext = NULL /\ CutTo(s, p, live)
  BY <1>1 DEF Holds, Position
<1>3. /\ IsList(s)' /\ Current(s, p)'
      /\ \E q \in p + 1 .. Len(s) + 1 :
           curr' = At(s, q) /\ live \ {curr} = Part(s, (1 .. p) \union (q .. Len(s)))
  BY <1>1, <1>2, CutStep
<1>4. UNCHANGED <<pc, newNext>> /\ live' = live \ {curr}
  BY <1>1 DEF DisposeCurr
<1>5. CutTo(s, p, live)'
  BY <1>3, <1>4 DEF CutTo, At, Part
<1> QED
  BY <1>1, <1>2, <1>3, <1>4, <1>5 DEF Holds, Position

(* The turns of the loop that goes back.                                   *)
LEMMA DisposePrevKeeps ==
  ASSUME TypeOK, NEW s \in Seq(Items), NEW p \in Nat, Holds(s, p), DisposePrev
  PROVE  Holds(s, p)' /\ curr \in live
<1>1. /\ pc = "disposePrev" /\ curr # NULL
      /\ live' = live \ {curr} /\ curr' = item[curr].prev
      /\ UNCHANGED <<item, history, pc, newNext>>
  BY DEF DisposePrev, DisposeCurr
<1>2. IsList(s) /\ Current(s, p) /\ p # 0 /\ Len(s) \in Nat /\ p \in 0 .. Len(s)
  BY <1>1 DEF Holds, Position, IsList, Current
<1>3. PICK q \in 0 .. p : curr = At(s, q) /\ live = Part(s, 1 .. q)
  BY <1>1 DEF Holds, Position
<1>4. q \in 1 .. Len(s) /\ curr = s[q]
  BY <1>1, <1>2, <1>3 DEF At
<1>5. curr' = At(s, q - 1)
  BY <1>1, <1>2, <1>4 DEF IsList
<1>6. curr \in live
  BY <1>3, <1>4 DEF Part
<1>7. live' = Part(s, 1 .. q - 1)
  <2>1. \A k \in 1 .. Len(s) : s[k] = s[q] => k = q
    BY <1>2, <1>4 DEF IsList
  <2>2. 1 .. q - 1 = (1 .. q) \ {q} /\ 1 .. q \subseteq 1 .. Len(s)
    BY <1>2, <1>4
  <2> QED
    BY <1>1, <1>3, <1>4, <2>1, <2>2 DEF Part
<1>8. IsList(s)' /\ Current(s, p)'
  BY <1>1, <1>2, SameList DEF Current, At
<1>9. q - 1 \in 0 .. p
  BY <1>3, <1>4
<1> QED
  BY <1>1, <1>2, <1>5, <1>6, <1>7, <1>8, <1>9 DEF Holds, Position, At, Part

(* The loop of HistoryItemNewNext has ended.                               *)
LEMMA CutIsDone ==
  ASSUME NEW s, IsList(s), NEW p, Current(s, p), NEW L, CutTo(s, p, L), curr = NULL
  PROVE  L = Part(s, 1 .. p)
<1>1. Len(s) \in Nat /\ p \in 0 .. Len(s)
  BY DEF IsList, Current
<1>2. PICK q \in p + 1 .. Len(s) + 1 :
        curr = At(s, q) /\ L = Part(s, (1 .. p) \union (q .. Len(s)))
  BY DEF CutTo
<1>3. q = Len(s) + 1
  BY <1>1, <1>2, AtEnd
<1>4. (1 .. p) \union (q .. Len(s)) = 1 .. p
  BY <1>1, <1>3
<1> QED
  BY <1>2, <1>4

(* The list with the new item at its end.                                  *)
Extended(s, p) == [k \in 1 .. p + 1 |-> IF k = p + 1 THEN newNext ELSE s[k]]

LEMMA LinkNewItemKeeps ==
  ASSUME TypeOK, NEW s \in Seq(Items), NEW p \in Nat, Holds(s, p), LinkNewItem
  PROVE  \A t : t = Extended(s, p) => Holds(t, p + 1)'
<1> SUFFICES ASSUME NEW t, t = Extended(s, p)
             PROVE  Holds(t, p + 1)'
  OBVIOUS
<1>1. /\ pc = "truncate" /\ pc' = "idle" /\ curr = NULL /\ curr' = NULL
      /\ history' = newNext /\ newNext' = NULL /\ live' = live
      /\ item' = IF history = NULL THEN item ELSE [item EXCEPT ![history].next = newNext]
  BY DEF LinkNewItem
<1>2. /\ IsList(s) /\ Current(s, p) /\ Follows(s, p) /\ CutTo(s, p, live \ {newNext})
      /\ Len(s) \in Nat /\ p \in 0 .. Len(s)
  BY <1>1 DEF Holds, Position, IsList, Current
<1>3. newNext \in Items /\ newNext # NULL /\ newNext \in live
  BY <1>2, NullAssumption DEF TypeOK, Follows
<1>4. live \ {newNext} = Part(s, 1 .. p)
  BY <1>1, <1>2, CutIsDone
<1>5. /\ p # 0 => p \in 1 .. Len(s) /\ history = s[p] /\ history # NULL /\ history \in Items
      /\ p = 0 => history = NULL /\ s = << >>
  BY <1>2, InList DEF Current, At
<1>6. \A k \in 1 .. p : s[k] \in Items /\ s[k] # newNext
  BY <1>2, <1>3 DEF Follows, All, Part, IsList
<1>7. t \in Seq(Items) /\ Len(t) = p + 1 /\ t[p + 1] = newNext /\ \A k \in 1 .. p : t[k] = s[k]
  <2>1. \A k \in 1 .. p + 1 : (IF k = p + 1 THEN newNext ELSE s[k]) \in Items
    BY <1>2, <1>3, <1>6
  <2>2. t \in [1 .. p + 1 -> Items]
    BY <2>1 DEF Extended
  <2> QED
    BY <1>2, <2>2 DEF Extended
<1>8. \A j, k \in 1 .. p + 1 : t[j] = t[k] => j = k
  <2>1. \A j, k \in 1 .. p : s[j] = s[k] => j = k
    BY <1>2 DEF IsList
  <2> QED
    BY <1>2, <1>6, <1>7, <2>1
<1>9. /\ \A i \in Items : item'[i].address = item[i].address /\ item'[i].prev = item[i].prev
      /\ \A i \in Items : i # history => item'[i].next = item[i].next
      /\ p # 0 => item'[history].next = newNext
  BY <1>1, <1>5, NullAssumption DEF TypeOK, Contents
<1>10. item[newNext].prev = history /\ item[newNext].next = NULL /\ newNext # history
  BY <1>2, <1>3, <1>5, <1>6 DEF Follows
<1>11. ASSUME NEW k \in 1 .. p + 1
       PROVE  /\ item'[t[k]].prev = At(t, k - 1)
              /\ item'[t[k]].next = At(t, k + 1)
              /\ k < p + 1 => item'[t[k]].address # item'[t[k + 1]].address
  <2>1. CASE k = p + 1
    <3>1. item'[t[k]].prev = history /\ item'[t[k]].next = NULL
      BY <2>1, <1>3, <1>7, <1>9, <1>10
    <3>2. At(t, k + 1) = NULL
      BY <2>1, <1>2, <1>7 DEF At
    <3>3. At(t, k - 1) = history
      BY <2>1, <1>2, <1>5, <1>7 DEF At
    <3> QED
      BY <2>1, <3>1, <3>2, <3>3
  <2>2. CASE k # p + 1
    <3>1. k \in 1 .. p /\ k \in 1 .. Len(s) /\ t[k] = s[k] /\ s[k] \in Items /\ p # 0
      BY <2>2, <1>2, <1>6, <1>7
    <3>2. item'[t[k]].prev = At(t, k - 1)
      <4>1. item[s[k]].prev = At(s, k - 1)
        BY <1>2, <3>1 DEF IsList
      <4>2. At(t, k - 1) = At(s, k - 1)
        BY <1>2, <1>7, <3>1 DEF At
      <4> QED
        BY <1>9, <3>1, <4>1, <4>2
    <3>3. CASE k = p
      <4>1. s[k] = history /\ t[k + 1] = newNext /\ At(t, k + 1) = newNext
        BY <3>3, <3>1, <1>2, <1>5, <1>7 DEF At
      <4>2. item[newNext].address # item[history].address
        BY <1>2, <3>1 DEF Follows
      <4> QED
        BY <1>3, <1>9, <3>1, <3>2, <4>1, <4>2
    <3>4. CASE k # p
      <4>1. k + 1 \in 1 .. p /\ k < Len(s) /\ t[k + 1] = s[k + 1]
        BY <3>4, <3>1, <1>2, <1>7
      <4>2. item[s[k]].next = s[k + 1] /\ item[s[k]].address # item[s[k + 1]].address
        BY <1>2, <3>1, <4>1 DEF IsList, At
      <4>3. At(t, k + 1) = s[k + 1]
        BY <1>2, <1>7, <4>1 DEF At
      <4>4. s[k] # history
        BY <1>2, <1>5, <3>1, <3>4 DEF IsList
      <4>5. s[k + 1] \in Items
        BY <4>1, <1>6
      <4> QED
        BY <1>9, <3>1, <3>2, <4>1, <4>2, <4>3, <4>4, <4>5
    <3> QED
      BY <3>3, <3>4
  <2> QED
    BY <2>1, <2>2
<1>12. IsList(t)'
  BY <1>7, <1>8, <1>11 DEF IsList, At
<1>13. Current(t, p + 1)'
  BY <1>1, <1>2, <1>7 DEF Current, At
<1>14. live = All(t)
  <2>1. Part(t, 1 .. p) = Part(s, 1 .. p)
    BY <1>7 DEF Part
  <2>2. All(t) = Part(t, 1 .. p) \union {newNext}
    BY <1>2, <1>7 DEF All, Part
  <2> QED
    BY <1>3, <1>4, <2>1, <2>2
<1>15. Position(t, p + 1)'
  <2>1. live' = All(t)'
    BY <1>1, <1>14 DEF All, Part
  <2> QED
    BY <1>1, <2>1 DEF Position
<1> QED
  BY <1>12, <1>13, <1>15 DEF Holds

(* The walk arrives at an item of the list.                                *)
LEMMA ArriveKeeps ==
  ASSUME TypeOK, NEW s \in Seq(Items), NEW p \in Nat, Holds(s, p), Arrive
  PROVE  \E j \in 1 .. Len(s) : curr = s[j] /\ Holds(s, j)'
<1>1. /\ pc = "walk" /\ pc' = "idle" /\ curr' = NULL /\ history' = curr
      /\ UNCHANGED <<item, live, newNext>>
  BY DEF Arrive
<1>2. IsList(s) /\ live = All(s) /\ newNext = NULL /\ curr \in live /\ Len(s) \in Nat
  BY <1>1 DEF Holds, Position, IsList, TypeOK
<1>3. PICK j \in 1 .. Len(s) : curr = s[j]
  BY <1>2 DEF All, Part
<1>4. IsList(s)'
  BY <1>1, <1>2, SameList
<1>5. Current(s, j)'
  BY <1>1, <1>2, <1>3 DEF Current, At
<1> QED
  BY <1>1, <1>2, <1>3, <1>4, <1>5 DEF Holds, Position, All, Part

LEMMA CloseKeeps ==
  ASSUME TypeOK, NEW s \in Seq(Items), NEW p \in Nat, Holds(s, p), ClosePageWindow
  PROVE  Holds(s, p)'
<1>1. pc = "idle" /\ UNCHANGED <<item, live, history, newNext>>
  BY DEF ClosePageWindow
<1>2. /\ IsList(s) /\ live = All(s) /\ newNext = NULL /\ curr = NULL /\ Current(s, p)
      /\ Len(s) \in Nat /\ p \in 0 .. Len(s)
  BY <1>1 DEF Holds, Position, IsList, Current
<1>3. IsList(s)' /\ Current(s, p)'
  BY <1>1, <1>2, SameList DEF Current, At
<1>4. CASE history = NULL
  <2>1. s = << >>
    BY <1>2, <1>4, InList DEF Current, At
  <2>2. live = {}
    BY <1>2, <2>1 DEF All, Part
  <2> QED
    BY <1>1, <1>2, <1>3, <1>4, <2>2 DEF ClosePageWindow, Holds, Position
<1>5. CASE history # NULL
  <2>1. p \in 1 .. Len(s) /\ history = s[p]
    BY <1>2, <1>5 DEF Current, At
  <2>2. item[history].next = At(s, p + 1)
    BY <1>2, <2>1 DEF IsList
  <2>3. pc' = "disposeNext" /\ curr' = At(s, p + 1)
    BY <1>5, <2>2 DEF ClosePageWindow
  <2>4. \E q \in p + 1 .. Len(s) + 1 :
          curr' = At(s, q) /\ live = Part(s, (1 .. p) \union (q .. Len(s)))
    BY <1>2, <2>3, WholeIsCut
  <2>5. CutTo(s, p, live)'
    BY <1>1, <2>4 DEF CutTo, At, Part
  <2> QED
    BY <1>1, <1>2, <1>3, <2>1, <2>3, <2>5 DEF Holds, Position
<1> QED
  BY <1>4, <1>5

LEMMA TurnBackKeeps ==
  ASSUME TypeOK, NEW s \in Seq(Items), NEW p \in Nat, Holds(s, p), TurnBack
  PROVE  Holds(s, p)'
<1>1. /\ pc = "disposeNext" /\ pc' = "disposePrev" /\ curr = NULL /\ curr' = history
      /\ UNCHANGED <<item, live, history, newNext>>
  BY DEF TurnBack
<1>2. /\ IsList(s) /\ Current(s, p) /\ p # 0 /\ newNext = NULL /\ CutTo(s, p, live)
      /\ p \in Nat
  BY <1>1 DEF Holds, Position, IsList
<1>3. live = Part(s, 1 .. p)
  BY <1>1, <1>2, CutIsDone
<1>4. IsList(s)' /\ Current(s, p)'
  BY <1>1, <1>2, SameList DEF Current, At
<1>5. p \in 0 .. p /\ curr' = At(s, p) /\ live' = Part(s, 1 .. p)
  BY <1>1, <1>2, <1>3 DEF Current
<1> QED
  BY <1>1, <1>2, <1>4, <1>5 DEF Holds, Position, At, Part

LEMMA ClosedKeeps ==
  ASSUME TypeOK, NEW s \in Seq(Items), NEW p \in Nat, Holds(s, p), Closed
  PROVE  Holds(s, p)'
<1>1. /\ pc = "disposePrev" /\ pc' = "closed" /\ curr = NULL
      /\ UNCHANGED <<item, live, history, curr, newNext>>
  BY DEF Closed
<1>2. IsList(s) /\ Current(s, p) /\ newNext = NULL /\ p \in 0 .. Len(s) /\ Len(s) \in Nat
  BY <1>1 DEF Holds, Position, Current, IsList
<1>3. PICK q \in 0 .. p : curr = At(s, q) /\ live = Part(s, 1 .. q)
  BY <1>1 DEF Holds, Position
<1>4. q = 0
  BY <1>1, <1>2, <1>3, AtEnd
<1>5. live = {}
  BY <1>3, <1>4 DEF Part
<1>6. IsList(s)' /\ Current(s, p)'
  BY <1>1, <1>2, SameList DEF Current, At
<1> QED
  BY <1>1, <1>2, <1>5, <1>6 DEF Holds, Position

(* What leaves the list and its place alone.                               *)
LEMMA QuietKeeps ==
  ASSUME TypeOK, NEW s \in Seq(Items), NEW p \in Nat, Holds(s, p),
         UNCHANGED <<item, live, history, newNext>>,
         UNCHANGED <<pc, curr>> \/ (pc \in {"idle", "walk"} /\ pc' = "walk")
  PROVE  Holds(s, p)'
<1>1. IsList(s) /\ Current(s, p) /\ Position(s, p)
  BY DEF Holds
<1>2. IsList(s)' /\ Current(s, p)'
  BY <1>1, SameList DEF Current, At
<1>3. Position(s, p)'
  BY <1>1 DEF Position, Follows, CutTo, All, Part, At
<1> QED
  BY <1>2, <1>3 DEF Holds

LEMMA ListKept ==
  ASSUME TypeOK, NEW s \in Seq(Items), NEW p \in Nat, Holds(s, p), [Next]_vars
  PROVE  (\E t \in Seq(Items), q \in Nat : Holds(t, q))'
<1>1. ASSUME Holds(s, p)'
      PROVE  (\E t \in Seq(Items), q \in Nat : Holds(t, q))'
  BY <1>1
<1>2. ASSUME NEW a \in Addresses, NewItem(a)
      PROVE  Holds(s, p)'
  BY <1>2, NewItemKeeps
<1>3. CASE LinkNewItem
  <2>2. PICK t : t = Extended(s, p)
    OBVIOUS
  <2>3. Holds(t, p + 1)'
    BY <1>3, <2>2, LinkNewItemKeeps
  <2>4. t \in Seq(Items)
    BY <2>3 DEF Holds, IsList
  <2> QED
    BY <2>3, <2>4
<1>4. CASE Arrive
  <2>1. PICK j \in 1 .. Len(s) : Holds(s, j)'
    BY <1>4, ArriveKeeps
  <2>2. j \in Nat
    OBVIOUS
  <2> QED
    BY <2>1, <2>2
<1>5. CASE \E d \in {"prev", "next"}, n \in 0 .. MaxAmount : Move(d, n)
  BY <1>1, <1>5, QuietKeeps DEF Move
<1>6. CASE Walk
  BY <1>1, <1>6, QuietKeeps DEF Walk
<1>7. CASE Truncate \/ DisposeNext \/ DisposePrev
  BY <1>1, <1>7, TruncateKeeps, DisposeNextKeeps, DisposePrevKeeps
<1>8. CASE ClosePageWindow \/ TurnBack \/ Closed
  BY <1>1, <1>8, CloseKeeps, TurnBackKeeps, ClosedKeeps
<1>9. CASE Navigate \/ OnStatus \/ NoResponse \/ UNCHANGED vars
  BY <1>1, <1>9, QuietKeeps DEF Navigate, OnStatus, NoResponse, vars
<1> QED
  BY <1>1, <1>2, <1>3, <1>4, <1>5, <1>6, <1>7, <1>8, <1>9 DEF Next

-----------------------------------------------------------------------------
(* The inductive invariant, and what follows from it. *)
LEMMA Invariance == Spec => []IInv
<1>1. Init => IInv
  BY Initially
<1>2. IInv /\ [Next]_vars => IInv'
  <2> SUFFICES ASSUME IInv, [Next]_vars
               PROVE  IInv'
    OBVIOUS
  <2>1. PICK s \in Seq(Items), p \in Nat : Holds(s, p)
    BY DEF IInv
  <2>2. TypeOK /\ TypeOK'
    BY TypesKept DEF IInv
  <2> QED
    BY <2>1, <2>2, ListKept DEF IInv
<1> QED
  BY <1>1, <1>2, PTL DEF Spec

(* Types, and an address in every allocated item: for any addresses,       *)
(* memory and bounds.                                                      *)
THEOREM TypeCorrect == Spec => []TypeOK
BY Invariance, PTL DEF IInv

(* Between two events, and while it is walked, the items are one list.     *)
THEOREM ListLinked == Spec => []WellLinked
<1>1. IInv => WellLinked
  <2> SUFFICES ASSUME IInv, pc \in {"idle", "walk"}
               PROVE  (\A i \in live : Linked(i)) /\ OneFirst
    BY CurrentIsLive DEF WellLinked
  <2>1. PICK s \in Seq(Items), p \in Nat : Holds(s, p)
    BY DEF IInv
  <2>2. IsList(s) /\ live = All(s) /\ Len(s) \in Nat
    BY <2>1 DEF Holds, Position, IsList
  <2>3. ASSUME NEW i \in live
        PROVE  Linked(i) /\ (item[i].prev = NULL => i = s[1])
    <3>1. PICK k \in 1 .. Len(s) : i = s[k]
      BY <2>2 DEF All, Part
    <3>2. item[i].prev = At(s, k - 1) /\ item[i].next = At(s, k + 1)
      BY <2>2, <3>1 DEF IsList
    <3>3. item[i].prev # NULL => item[i].prev \in live /\ item[item[i].prev].next = i
      <4> SUFFICES ASSUME item[i].prev # NULL
                   PROVE  item[i].prev \in live /\ item[item[i].prev].next = i
        OBVIOUS
      <4>1. k - 1 \in 1 .. Len(s) /\ item[i].prev = s[k - 1]
        BY <3>2 DEF At
      <4>2. item[s[k - 1]].next = At(s, (k - 1) + 1)
        BY <2>2, <4>1 DEF IsList
      <4>3. At(s, (k - 1) + 1) = s[k]
        BY <2>2, <4>1 DEF At
      <4> QED
        BY <2>2, <3>1, <4>1, <4>2, <4>3 DEF All, Part
    <3>4. item[i].next # NULL => item[i].next \in live /\ item[item[i].next].prev = i
      <4> SUFFICES ASSUME item[i].next # NULL
                   PROVE  item[i].next \in live /\ item[item[i].next].prev = i
        OBVIOUS
      <4>1. k + 1 \in 1 .. Len(s) /\ item[i].next = s[k + 1]
        BY <3>2 DEF At
      <4>2. item[s[k + 1]].prev = At(s, (k + 1) - 1)
        BY <2>2, <4>1 DEF IsList
      <4>3. At(s, (k + 1) - 1) = s[k]
        BY <2>2, <4>1 DEF At
      <4> QED
        BY <2>2, <3>1, <4>1, <4>2, <4>3 DEF All, Part
    <3>5. item[i].prev = NULL => i = s[1]
      <4>1. item[i].prev = NULL => k - 1 = 0
        BY <2>2, <3>2, AtEnd
      <4> QED
        BY <3>1, <4>1
    <3> QED
      BY <3>3, <3>4, <3>5 DEF Linked
  <2> QED
    BY <2>3 DEF OneFirst
<1> QED
  BY <1>1, Invariance, PTL

(* The loops dispose of allocated items only, none of them twice, and the  *)
(* first never of the current item or of the new one; in the end none is   *)
(* left.                                                                   *)
LEMMA LoopsAreSafe == IInv => DisposesOnce
<1> SUFFICES ASSUME IInv, curr # NULL
             PROVE  /\ curr \in live
                    /\ pc \in {"truncate", "disposeNext"} => curr # history /\ history \in live
                    /\ curr # newNext
  BY DEF DisposesOnce, IInv, Holds, Position
<1>1. TypeOK
  BY DEF IInv
<1>2. PICK s \in Seq(Items), p \in Nat : Holds(s, p)
  BY DEF IInv
<1>3. IsList(s) /\ Current(s, p) /\ Position(s, p) /\ Len(s) \in Nat
  BY <1>2 DEF Holds, IsList
<1>4. CASE pc = "walk"
  BY <1>1, <1>3, <1>4 DEF TypeOK, Position
<1>5. CASE pc = "truncate"
  <2>1. Follows(s, p) /\ CutTo(s, p, live \ {newNext})
    BY <1>3, <1>5 DEF Position
  <2>2. p # 0
    <3> SUFFICES ASSUME p = 0 PROVE FALSE
      OBVIOUS
    <3>1. Len(s) = 0
      BY <1>3 DEF Current
    <3> QED
      BY <2>1, <3>1 DEF CutTo, At
  <2> QED
    BY <1>3, <1>5, <2>1, <2>2, CutIsLive
<1>6. CASE pc = "disposeNext"
  BY <1>3, <1>6, CutIsLive DEF Position
<1>7. CASE pc = "disposePrev"
  <2>1. PICK q \in 0 .. p : curr = At(s, q) /\ live = Part(s, 1 .. q)
    BY <1>3, <1>7 DEF Position
  <2>2. q \in 1 .. Len(s) /\ curr = s[q]
    BY <2>1 DEF At
  <2>3. curr \in live
    BY <2>1, <2>2 DEF Part
  <2> QED
    BY <1>3, <1>7, <2>3 DEF Position
<1>8. CASE pc \in {"idle", "closed"}
  BY <1>3, <1>8 DEF Position
<1> QED
  BY <1>1, <1>4, <1>5, <1>6, <1>7, <1>8 DEF TypeOK

THEOREM DisposalSafe == Spec => []DisposesOnce
BY Invariance, LoopsAreSafe, PTL

(* Back and Forward lead to another address. *)
THEOREM AddressesAlternate == Spec => []NeighboursDiffer
<1>1. IInv => NeighboursDiffer
  <2> SUFFICES ASSUME IInv, pc = "idle", NEW i \in live, item[i].next # NULL
               PROVE  item[i].address # item[item[i].next].address
    BY DEF NeighboursDiffer
  <2>1. PICK s \in Seq(Items), p \in Nat : Holds(s, p)
    BY DEF IInv
  <2>2. IsList(s) /\ live = All(s) /\ Len(s) \in Nat
    BY <2>1 DEF Holds, Position, IsList
  <2>3. PICK k \in 1 .. Len(s) : i = s[k]
    BY <2>2 DEF All, Part
  <2>4. item[i].next = s[k + 1] /\ k < Len(s)
    BY <2>2, <2>3 DEF IsList, At
  <2> QED
    BY <2>2, <2>3, <2>4 DEF IsList
<1> QED
  BY <1>1, Invariance, PTL

(* The address of the page that is shown, which location points to, is not *)
(* disposed of while its item is the current one.                          *)
THEOREM ShownAddressKept == Spec => LocationKept
<1> DEFINE Kept == pc # "disposeNext" /\ pc # "disposePrev" /\ location \in live
                     /\ location = history => location \in live'
<1>1. IInv /\ [Next]_vars => [Kept]_vars
  <2> SUFFICES ASSUME IInv, Next, pc # "disposeNext", pc # "disposePrev",
                      location \in live, location = history
               PROVE  location \in live'
    OBVIOUS
  <2>1. DisposesOnce
    BY LoopsAreSafe
  <2>2. CASE Truncate
    BY <2>1, <2>2 DEF Truncate, DisposeCurr, DisposesOnce
  <2>3. CASE ~Truncate
    BY <2>3 DEF Next, Navigate, NewItem, LinkNewItem, Move, Walk, Arrive, OnStatus,
                NoResponse, ClosePageWindow, DisposeNext, TurnBack, DisposePrev, Closed
  <2> QED
    BY <2>2, <2>3
<1> QED
  BY <1>1, Invariance, PTL DEF Spec, LocationKept

-----------------------------------------------------------------------------
(* Recursion over the naturals.                                            *)

(* A set of naturals that is not empty has a least element.                *)
LEMMA Least ==
  ASSUME NEW T, T \subseteq Nat, T # {}
  PROVE  \E x \in T : \A y \in T : x <= y
<1> DEFINE Less == {ss \in Nat \X Nat : ss[1] < ss[2]}
<1>1. IsWellFoundedOn(Less, Nat)
  <2>1. IsWellFoundedOn(OpToRel(<, Nat), Nat)
    BY NatLessThanWellFounded
  <2>2. Less = OpToRel(<, Nat)
    BY DEF OpToRel
  <2> HIDE DEF Less
  <2>3. ASSUME NEW f \in [Nat -> Nat], \A n \in Nat : <<f[n + 1], f[n]>> \in Less
        PROVE  FALSE
    BY <2>1, <2>2, <2>3 DEF IsWellFoundedOn
  <2> QED
    BY <2>3 DEF IsWellFoundedOn
<1> HIDE DEF Less
<1>2. \E x \in T : \A y \in T : ~ (<<y, x>> \in Less)
  BY <1>1, WFMin
<1>3. PICK x \in T : \A y \in T : ~ (<<y, x>> \in Less)
  BY <1>2
<1>4. ASSUME NEW y \in T
      PROVE  x <= y
  <2>1. x \in Nat /\ y \in Nat /\ ~ (<<y, x>> \in Less)
    BY <1>3
  <2> QED
    BY <2>1 DEF Less
<1> QED
  BY <1>4

(* The first n values of a function that is defined by recursion: x, F[x], *)
(* F[F[x]] and so on.                                                      *)
Begins(n, g, x, F, X) ==
  /\ g \in [0 .. n -> X]
  /\ g[0] = x
  /\ \A k \in 0 .. n : k < n => g[k + 1] = F[g[k]]

LEMMA BeginningsExist ==
  ASSUME NEW X, NEW x \in X, NEW F \in [X -> X], NEW n \in Nat
  PROVE  \E g : Begins(n, g, x, F, X)
<1> DEFINE T == {m \in Nat : ~ \E g : Begins(m, g, x, F, X)}
<1> SUFFICES ASSUME T # {}
             PROVE  FALSE
  OBVIOUS
<1>1. PICK m \in T : \A k \in T : m <= k
  BY Least
<1>2. CASE m = 0
  <2>1. Begins(0, [k \in 0 .. 0 |-> x], x, F, X)
    BY DEF Begins
  <2> QED
    BY <1>1, <1>2, <2>1
<1>3. CASE m # 0
  <2>1. m - 1 \in Nat /\ m - 1 \notin T
    BY <1>1, <1>3
  <2>2. PICK g : Begins(m - 1, g, x, F, X)
    BY <2>1
  <2>3. g[m - 1] \in X /\ F[g[m - 1]] \in X
    BY <2>1, <2>2 DEF Begins
  <2> DEFINE h == [k \in 0 .. m |-> IF k = m THEN F[g[m - 1]] ELSE g[k]]
  <2>4. \A k \in 0 .. m : k # m => k \in 0 .. m - 1 /\ g[k] \in X
    BY <1>1, <2>2 DEF Begins
  <2>5. h \in [0 .. m -> X]
    BY <2>3, <2>4
  <2>6. h[0] = x
    BY <1>1, <1>3, <2>2 DEF Begins
  <2>7. ASSUME NEW k \in 0 .. m, k < m PROVE h[k + 1] = F[h[k]]
    BY <1>1, <2>2, <2>7, SMTT(30) DEF Begins
  <2> HIDE DEF h
  <2>8. Begins(m, h, x, F, X)
    BY <2>5, <2>6, <2>7 DEF Begins
  <2> QED
    BY <1>1, <2>8
<1> QED
  BY <1>2, <1>3

LEMMA BeginningsAgree ==
  ASSUME NEW X, NEW x \in X, NEW F \in [X -> X], NEW n \in Nat, NEW m \in Nat, n <= m,
         NEW g, NEW h, Begins(n, g, x, F, X), Begins(m, h, x, F, X)
  PROVE  g[n] = h[n]
<1> DEFINE T == {k \in 0 .. n : g[k] # h[k]}
<1> SUFFICES ASSUME T # {}
             PROVE  FALSE
  OBVIOUS
<1>1. PICK k \in T : \A j \in T : k <= j
  <2>1. T \subseteq Nat
    OBVIOUS
  <2> QED
    BY <2>1, Least
<1>2. k # 0
  BY <1>1 DEF Begins
<1>3. k - 1 \in 0 .. n /\ k - 1 \in 0 .. m /\ k - 1 < n /\ k - 1 < m /\ k - 1 \notin T
  BY <1>1, <1>2
<1>4. g[k - 1] = h[k - 1] /\ g[(k - 1) + 1] = F[g[k - 1]] /\ h[(k - 1) + 1] = F[h[k - 1]]
  BY <1>3 DEF Begins
<1>5. (k - 1) + 1 = k
  BY <1>1
<1> QED
  BY <1>1, <1>4, <1>5

LEMMA Recursion ==
  ASSUME NEW X, NEW x \in X, NEW F \in [X -> X]
  PROVE  \E h \in [Nat -> X] : h[0] = x /\ \A n \in Nat : h[n + 1] = F[h[n]]
<1> DEFINE g(n) == CHOOSE f : Begins(n, f, x, F, X)
           h == [n \in Nat |-> g(n)[n]]
<1>1. \A n \in Nat : Begins(n, g(n), x, F, X)
  BY BeginningsExist
<1> HIDE DEF g
<1>2. \A n \in Nat : g(n)[n] \in X
  BY <1>1 DEF Begins
<1>3. ASSUME NEW n \in Nat
      PROVE  h[n + 1] = F[h[n]]
  <2>1. Begins(n, g(n), x, F, X) /\ Begins(n + 1, g(n + 1), x, F, X)
    BY <1>1
  <2>2. g(n + 1)[n + 1] = F[g(n + 1)[n]]
    BY <2>1 DEF Begins
  <2>3. g(n)[n] = g(n + 1)[n]
    BY <2>1, BeginningsAgree
  <2> QED
    BY <2>2, <2>3
<1>4. h[0] = x
  BY <1>1 DEF Begins
<1> QED
  BY <1>2, <1>3, <1>4

-----------------------------------------------------------------------------
(* What the list is for BrowserHistory.                                    *)

Text == Seq(Addresses \union {NULL})
Ends == Items \union {NULL}

(* UpTo and From are what their definitions say.                           *)
LEMMA UpToDef ==
  ASSUME TypeOK
  PROVE  \A n \in Nat : UpTo[n] =
           [i \in Ends |-> IF n = 0 \/ i = NULL THEN << >>
                          ELSE Append(UpTo[n - 1][item[i].prev], item[i].address)]
<1> DEFINE X == [Ends -> Text]
           F == [g \in X |->
                   [i \in Ends |-> IF i = NULL THEN << >>
                                  ELSE Append(g[item[i].prev], item[i].address)]]
           x == [i \in Ends |-> << >>]
           G(f) == [n \in Nat |->
                      [i \in Ends |-> IF n = 0 \/ i = NULL THEN << >>
                                     ELSE Append(f[n - 1][item[i].prev], item[i].address)]]
<1>1. \A i \in Ends : i # NULL => item[i].prev \in Ends /\ item[i].address \in Addresses \union {NULL}
  BY DEF TypeOK, Contents, Ends
<1>2. x \in X
  BY DEF Text
<1>3. F \in [X -> X]
  <2> SUFFICES ASSUME NEW g \in X, NEW i \in Ends, i # NULL
               PROVE  Append(g[item[i].prev], item[i].address) \in Text
    BY DEF Text
  <2>1. g[item[i].prev] \in Text
    BY <1>1
  <2> QED
    BY <1>1, <2>1 DEF Text
<1>4. PICK h \in [Nat -> X] : h[0] = x /\ \A n \in Nat : h[n + 1] = F[h[n]]
  <2> HIDE DEF x, F, X
  <2> QED
    BY <1>2, <1>3, Recursion
<1> HIDE DEF x
<1>5. h = G(h)
  <2> SUFFICES ASSUME NEW n \in Nat
               PROVE  h[n] = G(h)[n]
    OBVIOUS
  <2>1. CASE n = 0
    BY <1>4, <2>1 DEF x
  <2>2. CASE n # 0
    <3>1. n - 1 \in Nat /\ (n - 1) + 1 = n /\ h[n - 1] \in X
      BY <2>2
    <3>2. h[n] = F[h[n - 1]]
      BY <1>4, <3>1
    <3> QED
      BY <2>2, <3>1, <3>2
  <2> QED
    BY <2>1, <2>2
<1>6. UpTo = CHOOSE f : f = G(f)
  BY DEF UpTo, Ends
<1> HIDE DEF G
<1>7. UpTo = G(UpTo)
  BY <1>5, <1>6
<1> QED
  BY <1>7 DEF G

LEMMA FromDef ==
  ASSUME TypeOK
  PROVE  \A n \in Nat : From[n] =
           [i \in Ends |-> IF n = 0 \/ i = NULL THEN << >>
                          ELSE <<item[i].address>> \o From[n - 1][item[i].next]]
<1> DEFINE X == [Ends -> Text]
           F == [g \in X |->
                   [i \in Ends |-> IF i = NULL THEN << >>
                                  ELSE <<item[i].address>> \o g[item[i].next]]]
           x == [i \in Ends |-> << >>]
           G(f) == [n \in Nat |->
                      [i \in Ends |-> IF n = 0 \/ i = NULL THEN << >>
                                     ELSE <<item[i].address>> \o f[n - 1][item[i].next]]]
<1>1. \A i \in Ends : i # NULL => item[i].next \in Ends /\ item[i].address \in Addresses \union {NULL}
  BY DEF TypeOK, Contents, Ends
<1>2. x \in X
  BY DEF Text
<1>3. F \in [X -> X]
  <2>1. ASSUME NEW g \in X, NEW i \in Ends, i # NULL
        PROVE  <<item[i].address>> \o g[item[i].next] \in Text
    <3>1. g[item[i].next] \in Text /\ <<item[i].address>> \in Text
      BY <1>1, <2>1 DEF Text
    <3> QED
      BY <3>1 DEF Text
  <2>2. << >> \in Text
    BY DEF Text
  <2> DEFINE H(g) == [i \in Ends |-> IF i = NULL THEN << >>
                                    ELSE <<item[i].address>> \o g[item[i].next]]
  <2>3. ASSUME NEW g \in X PROVE H(g) \in X
    BY <2>1, <2>2
  <2>4. F = [g \in X |-> H(g)]
    OBVIOUS
  <2> HIDE DEF H, F, X
  <2> QED
    BY <2>3, <2>4
<1>4. PICK h \in [Nat -> X] : h[0] = x /\ \A n \in Nat : h[n + 1] = F[h[n]]
  <2> HIDE DEF x, F, X
  <2> QED
    BY <1>2, <1>3, Recursion
<1> HIDE DEF x
<1>5. h = G(h)
  <2> SUFFICES ASSUME NEW n \in Nat
               PROVE  h[n] = G(h)[n]
    OBVIOUS
  <2>1. CASE n = 0
    BY <1>4, <2>1 DEF x
  <2>2. CASE n # 0
    <3>1. n - 1 \in Nat /\ (n - 1) + 1 = n /\ h[n - 1] \in X
      BY <2>2
    <3>2. h[n] = F[h[n - 1]]
      BY <1>4, <3>1
    <3> QED
      BY <2>2, <3>1, <3>2
  <2> QED
    BY <2>1, <2>2
<1>6. From = CHOOSE f : f = G(f)
  BY DEF From, Ends
<1> HIDE DEF G
<1>7. From = G(From)
  BY <1>5, <1>6
<1> QED
  BY <1>7 DEF G

(* The addresses of the items from place j to place k.                     *)
Told(s, j, k) == [m \in 1 .. k - j + 1 |-> item[s[j + m - 1]].address]

LEMMA UpToList ==
  ASSUME TypeOK, NEW s, IsList(s), NEW k \in 0 .. Len(s), NEW n \in Nat, k <= n
  PROVE  UpTo[n][At(s, k)] = Told(s, 1, k)
<1> DEFINE T == {j \in 0 .. Len(s) : \E m \in Nat : j <= m /\ UpTo[m][At(s, j)] # Told(s, 1, j)}
<1> SUFFICES ASSUME T # {}
             PROVE  FALSE
  OBVIOUS
<1>1. Len(s) \in Nat /\ T \subseteq Nat
  BY DEF IsList
<1>2. PICK j \in T : \A i \in T : j <= i
  BY <1>1, Least
<1>3. PICK m \in Nat : j <= m /\ UpTo[m][At(s, j)] # Told(s, 1, j)
  BY <1>2
<1>4. j \in 0 .. Len(s)
  BY <1>2
<1>5. CASE j = 0
  <2>1. UpTo[m][NULL] = << >>
    BY UpToDef DEF Ends
  <2>2. Told(s, 1, 0) = << >>
    BY DEF Told
  <2> QED
    BY <1>3, <1>5, <2>1, <2>2 DEF At
<1>6. CASE j # 0
  <2>1. j \in 1 .. Len(s) /\ m # 0 /\ m - 1 \in Nat /\ j - 1 \in 0 .. Len(s) /\ j - 1 <= m - 1
    BY <1>1, <1>3, <1>4, <1>6
  <2>2. s[j] \in Items /\ s[j] # NULL /\ At(s, j) = s[j] /\ item[s[j]].prev = At(s, j - 1)
    BY <2>1, InList DEF IsList
  <2>3. UpTo[m][s[j]] = Append(UpTo[m - 1][At(s, j - 1)], item[s[j]].address)
    <3>1. UpTo[m] = [i \in Ends |-> IF m = 0 \/ i = NULL THEN << >>
                                   ELSE Append(UpTo[m - 1][item[i].prev], item[i].address)]
      BY UpToDef
    <3>2. s[j] \in Ends
      BY <2>2 DEF Ends
    <3> QED
      BY <2>1, <2>2, <3>1, <3>2
  <2>4. UpTo[m - 1][At(s, j - 1)] = Told(s, 1, j - 1)
    <3>1. j - 1 \notin T
      BY <1>1, <1>2, <2>1
    <3> QED
      BY <2>1, <3>1
  <2>5. Append(Told(s, 1, j - 1), item[s[j]].address) = Told(s, 1, j)
    BY <2>1 DEF Told
  <2> QED
    BY <1>3, <2>2, <2>3, <2>4, <2>5
<1> QED
  BY <1>5, <1>6

LEMMA ToldGrows ==
  ASSUME NEW s, Len(s) \in Nat, NEW q \in 1 .. Len(s)
  PROVE  <<item[s[q]].address>> \o Told(s, q + 1, Len(s)) = Told(s, q, Len(s))
<1> DEFINE n == Len(s) - q
           a == [m \in 1 .. 1 |-> item[s[q + m - 1]].address]
           b == [m \in 1 .. n |-> item[s[q + 1 + m - 1]].address]
           c == [m \in 1 .. n + 1 |-> item[s[q + m - 1]].address]
<1>1. <<item[s[q]].address>> = a
  OBVIOUS
<1>2. Told(s, q + 1, Len(s)) = b /\ Told(s, q, Len(s)) = c /\ n \in Nat
  BY DEF Told
<1>3. a \o b = c
  BY <1>2
<1> QED
  BY <1>1, <1>2, <1>3

(* Here j counts the items from place k on.                                *)
LEMMA FromList ==
  ASSUME TypeOK, NEW s, IsList(s), NEW k \in 1 .. Len(s) + 1, NEW n \in Nat,
         Len(s) + 1 - k <= n
  PROVE  From[n][At(s, k)] = Told(s, k, Len(s))
<1> DEFINE Start(j) == Len(s) + 1 - j
           T == {j \in 0 .. Len(s) : \E m \in Nat :
                   j <= m /\ From[m][At(s, Start(j))] # Told(s, Start(j), Len(s))}
<1>0. Len(s) \in Nat /\ Start(Len(s) + 1 - k) = k /\ Len(s) + 1 - k \in 0 .. Len(s)
  BY DEF IsList
<1> SUFFICES ASSUME T # {}
             PROVE  FALSE
  BY <1>0
<1>1. T \subseteq Nat
  BY <1>0
<1>2. PICK j \in T : \A i \in T : j <= i
  BY <1>1, Least
<1>3. PICK m \in Nat : j <= m /\ From[m][At(s, Start(j))] # Told(s, Start(j), Len(s))
  BY <1>2
<1>4. j \in 0 .. Len(s)
  BY <1>2
<1>5. CASE j = 0
  <2>1. From[m][NULL] = << >>
    BY FromDef DEF Ends
  <2>2. Told(s, Start(j), Len(s)) = << >>
    BY <1>0, <1>5 DEF Told
  <2>3. At(s, Start(j)) = NULL
    BY <1>0, <1>5 DEF At
  <2> QED
    BY <1>3, <2>1, <2>2, <2>3
<1>6. CASE j # 0
  <2> DEFINE q == Start(j)
  <2>1. /\ q \in 1 .. Len(s) /\ m # 0 /\ m - 1 \in Nat /\ j - 1 \in 0 .. Len(s) /\ j - 1 <= m - 1
        /\ Start(j - 1) = q + 1
    BY <1>0, <1>3, <1>4, <1>6
  <2>2. s[q] \in Items /\ s[q] # NULL /\ At(s, q) = s[q] /\ item[s[q]].next = At(s, q + 1)
    BY <2>1, InList, SMTT(30) DEF IsList
  <2>3. From[m][s[q]] = <<item[s[q]].address>> \o From[m - 1][At(s, q + 1)]
    <3>1. From[m] = [i \in Ends |-> IF m = 0 \/ i = NULL THEN << >>
                                   ELSE <<item[i].address>> \o From[m - 1][item[i].next]]
      BY FromDef
    <3>2. s[q] \in Ends
      BY <2>2 DEF Ends
    <3> QED
      BY <2>1, <2>2, <3>1, <3>2
  <2>4. From[m - 1][At(s, q + 1)] = Told(s, q + 1, Len(s))
    <3>1. j - 1 \notin T
      BY <1>0, <1>2, <2>1
    <3> QED
      BY <2>1, <3>1
  <2>5. <<item[s[q]].address>> \o Told(s, q + 1, Len(s)) = Told(s, q, Len(s))
    BY <1>0, <2>1, ToldGrows
  <2> QED
    BY <1>3, <2>2, <2>3, <2>4, <2>5
<1> QED
  BY <1>5, <1>6

(* There is memory for every item of a list.                               *)
LEMMA ListFits ==
  ASSUME NEW s, IsList(s)
  PROVE  Cardinality(Items) \in Nat /\ Len(s) \in Nat /\ Len(s) <= Cardinality(Items)
<1>1. Len(s) \in Nat /\ s \in [1 .. Len(s) -> Items]
  BY DEF IsList
<1>2. s \in Injection(1 .. Len(s), Items)
  BY <1>1 DEF IsList, Injection, IsInjective
<1>3. Cardinality(1 .. Len(s)) <= Cardinality(Items)
  BY <1>2, ItemsAssumption, FS_Injection
<1>4. Cardinality(1 .. Len(s)) = Len(s)
  BY <1>1, FS_Interval
<1> QED
  BY <1>1, <1>3, <1>4, ItemsAssumption, FS_CardinalityType

(* What BrowserHistory is told: the addresses of the list, and the place   *)
(* of the current item.                                                    *)
LEMMA Mapped ==
  \A s, p : TypeOK /\ IsList(s) /\ Current(s, p) =>
    /\ pc # "closed" => entriesBar = Told(s, 1, Len(s)) /\ cursorBar = p
    /\ pc = "closed" => entriesBar = << >> /\ cursorBar = 0
<1> SUFFICES ASSUME NEW s, NEW p, TypeOK, IsList(s), Current(s, p), pc # "closed"
             PROVE  entriesBar = Told(s, 1, Len(s)) /\ cursorBar = p
  BY DEF entriesBar, cursorBar
<1>1. /\ Cardinality(Items) \in Nat /\ Len(s) \in Nat /\ Len(s) <= Cardinality(Items)
      /\ p \in 0 .. Len(s)
  BY ListFits DEF Current
<1>2. Before(history) = Told(s, 1, p)
  BY <1>1, UpToList DEF Before, Current
<1>3. Len(Told(s, 1, p)) = p
  BY <1>1 DEF Told
<1>4. CASE history = NULL
  <2>1. s = << >> /\ p = 0
    BY <1>4, InList DEF Current, At
  <2> QED
    BY <1>2, <1>3, <1>4, <2>1 DEF entriesBar, cursorBar, Told
<1>5. CASE history # NULL
  <2>1. p \in 1 .. Len(s) /\ history = s[p]
    BY <1>1, <1>5 DEF Current, At
  <2>2. item[history].next = At(s, p + 1)
    BY <2>1 DEF IsList
  <2>3. After(item[history].next) = Told(s, p + 1, Len(s))
    BY <1>1, <2>1, <2>2, FromList DEF After
  <2>4. Told(s, 1, p) \o Told(s, p + 1, Len(s)) = Told(s, 1, Len(s))
    BY <1>1, <2>1 DEF Told
  <2> QED
    BY <1>2, <1>3, <1>5, <2>3, <2>4 DEF entriesBar, cursorBar
<1> QED
  BY <1>4, <1>5

LEMMA MappedThen ==
  (\A s, p : TypeOK /\ IsList(s) /\ Current(s, p) =>
     /\ pc # "closed" => entriesBar = Told(s, 1, Len(s)) /\ cursorBar = p
     /\ pc = "closed" => entriesBar = << >> /\ cursorBar = 0)'
BY Mapped, PTL

-----------------------------------------------------------------------------
(* Each step of the list is one of BrowserHistory, or shows nothing.       *)

(* The addresses of a list that is not written.                            *)
LEMMA SameTold ==
  ASSUME NEW s, IsList(s), \A i \in All(s) : item'[i] = item[i]
  PROVE  Told(s, 1, Len(s))' = Told(s, 1, Len(s))
<1>1. Len(s) \in Nat /\ \A k \in 1 .. Len(s) : item'[s[k]] = item[s[k]]
  BY DEF IsList, All, Part
<1> QED
  BY <1>1 DEF Told

(* The list and its current item stay: so do the addresses and the cursor, *)
(* until the window is closed.                                             *)
LEMMA NothingShown ==
  ASSUME TypeOK, TypeOK', NEW s \in Seq(Items), NEW p \in Nat, Holds(s, p), Holds(s, p)',
         \A i \in All(s) : item'[i] = item[i], pc # "closed"
  PROVE  IF pc' = "closed" THEN entriesBar' = << >> /\ cursorBar' = 0
         ELSE UNCHANGED <<entriesBar, cursorBar>>
<1>1. IsList(s) /\ Current(s, p) /\ IsList(s)' /\ Current(s, p)'
  BY DEF Holds
<1>2. entriesBar = Told(s, 1, Len(s)) /\ cursorBar = p
  BY <1>1, Mapped
<1>3. /\ pc' # "closed" => entriesBar' = Told(s, 1, Len(s))' /\ cursorBar' = p
      /\ pc' = "closed" => entriesBar' = << >> /\ cursorBar' = 0
  BY <1>1, MappedThen
<1> QED
  BY <1>1, <1>2, <1>3, SameTold

(* A walk along the list that arrives is a Back, a Forward or nothing.     *)
LEMMA ArriveShown ==
  ASSUME TypeOK, TypeOK', NEW s \in Seq(Items), NEW p \in Nat, Holds(s, p), Arrive
  PROVE  BH!Next \/ UNCHANGED BH!vars
<1>1. pc = "walk" /\ pc' = "idle" /\ UNCHANGED <<item, live>>
  BY DEF Arrive
<1>2. PICK j \in 1 .. Len(s) : curr = s[j] /\ Holds(s, j)'
  BY ArriveKeeps
<1>3. IsList(s) /\ Current(s, p) /\ IsList(s)' /\ Current(s, j)' /\ live = All(s) /\ Len(s) \in Nat
  BY <1>1, <1>2 DEF Holds, Position, IsList
<1>4. entriesBar = Told(s, 1, Len(s)) /\ cursorBar = p
  BY <1>1, <1>3, Mapped
<1>5. entriesBar' = Told(s, 1, Len(s))' /\ cursorBar' = j
  BY <1>1, <1>3, MappedThen
<1>6. entriesBar' = entriesBar /\ Len(entriesBar) = Len(s)
  BY <1>1, <1>3, <1>4, <1>5, SameTold DEF Told
<1>7. p \in 1 .. Len(s)
  <2>1. Len(s) # 0
    BY <1>2, <1>3
  <2> QED
    BY <1>3, <2>1 DEF Current
<1>8. CASE j = p
  BY <1>4, <1>5, <1>6, <1>8 DEF BH!vars
<1>9. CASE j < p
  <2>1. p - j \in 1 .. Len(entriesBar)
    BY <1>2, <1>3, <1>6, <1>7, <1>9
  <2>2. BH!Back(p - j)
    BY <1>2, <1>3, <1>4, <1>5, <1>6, <1>7, <1>9 DEF BH!Back
  <2> QED
    BY <2>1, <2>2 DEF BH!Next
<1>10. CASE p < j
  <2>1. j - p \in 1 .. Len(entriesBar)
    BY <1>2, <1>3, <1>6, <1>7, <1>10
  <2>2. BH!Forward(j - p)
    BY <1>2, <1>3, <1>4, <1>5, <1>6, <1>7, <1>10 DEF BH!Forward
  <2> QED
    BY <2>1, <2>2 DEF BH!Next
<1> QED
  BY <1>3, <1>7, <1>8, <1>9, <1>10

(* The new item is a visit.                                                *)
LEMMA LinkNewItemShown ==
  ASSUME TypeOK, TypeOK', NEW s \in Seq(Items), NEW p \in Nat, Holds(s, p), LinkNewItem
  PROVE  BH!Next
<1> DEFINE a == item[newNext].address
<1>1. /\ pc = "truncate" /\ pc' = "idle"
      /\ item' = IF history = NULL THEN item ELSE [item EXCEPT ![history].next = newNext]
  BY DEF LinkNewItem
<1>2. IsList(s) /\ Current(s, p) /\ Follows(s, p) /\ Len(s) \in Nat /\ p \in 0 .. Len(s)
  BY <1>1 DEF Holds, Position, IsList, Current
<1>3. a \in Addresses
  BY <1>2 DEF Follows, TypeOK
<1>4. PICK t : t = Extended(s, p)
  OBVIOUS
<1>5. IsList(t)' /\ Current(t, p + 1)'
  BY <1>4, LinkNewItemKeeps DEF Holds
<1>6. entriesBar = Told(s, 1, Len(s)) /\ cursorBar = p
  BY <1>1, <1>2, Mapped
<1>7. entriesBar' = Told(t, 1, Len(t))' /\ cursorBar' = p + 1
  BY <1>1, <1>5, MappedThen
<1>8. Len(t) = p + 1 /\ t[p + 1] = newNext /\ \A k \in 1 .. p : t[k] = s[k]
  BY <1>2, <1>4 DEF Extended
<1>9. \A i \in Items : item'[i].address = item[i].address
  BY <1>1 DEF TypeOK, Contents
<1>10. newNext \in Items /\ \A k \in 1 .. p : s[k] \in Items
  BY <1>2 DEF Follows, TypeOK, IsList
<1>11. Told(t, 1, Len(t))' = [k \in 1 .. p + 1 |-> IF k = p + 1 THEN a ELSE item[s[k]].address]
  <2>1. Told(t, 1, Len(t))' = [k \in 1 .. p + 1 |-> item'[t[k]].address]
    BY <1>2, <1>8 DEF Told
  <2>2. \A k \in 1 .. p + 1 : item'[t[k]].address = IF k = p + 1 THEN a ELSE item[s[k]].address
    BY <1>2, <1>8, <1>9, <1>10
  <2> QED
    BY <2>1, <2>2
<1>12. SubSeq(Told(s, 1, Len(s)), 1, p) = Told(s, 1, p)
  BY <1>2 DEF Told
<1>13. Append(Told(s, 1, p), a) = [k \in 1 .. p + 1 |-> IF k = p + 1 THEN a ELSE item[s[k]].address]
  BY <1>2 DEF Told
<1>14. p # 0 => Told(s, 1, Len(s))[p] # a
  <2> SUFFICES ASSUME p # 0
               PROVE  Told(s, 1, Len(s))[p] # a
    OBVIOUS
  <2>1. p \in 1 .. Len(s) /\ history = s[p]
    BY <1>2 DEF Current, At
  <2>2. Told(s, 1, Len(s))[p] = item[history].address
    BY <1>2, <2>1 DEF Told
  <2> QED
    BY <1>2, <2>2 DEF Follows
<1>15. BH!Visit(a)
  BY <1>6, <1>7, <1>11, <1>12, <1>13, <1>14 DEF BH!Visit
<1> QED
  BY <1>3, <1>15 DEF BH!Next

LEMMA StepShown ==
  ASSUME TypeOK, TypeOK', NEW s \in Seq(Items), NEW p \in Nat, Holds(s, p), [Next]_vars
  PROVE  BH!Next \/ UNCHANGED BH!vars
<1>1. ASSUME pc # "closed", Holds(s, p)', \A i \in All(s) : item'[i] = item[i]
      PROVE  BH!Next \/ UNCHANGED BH!vars
  BY <1>1, NothingShown DEF BH!Next, BH!Forget, BH!vars
<1>2. ASSUME NEW a \in Addresses, NewItem(a)
      PROVE  BH!Next \/ UNCHANGED BH!vars
  <2>1. pc = "idle"
    BY <1>2 DEF NewItem
  <2>2. \A i \in All(s) : item'[i] = item[i]
    <3>1. \A i \in live : item'[i] = item[i]
      BY <1>2 DEF NewItem, TypeOK
    <3> QED
      BY <2>1, <3>1 DEF Holds, Position
  <2> QED
    BY <1>1, <1>2, <2>1, <2>2, NewItemKeeps
<1>3. CASE Arrive
  BY <1>3, ArriveShown
<1>4. CASE LinkNewItem
  BY <1>4, LinkNewItemShown
<1>5. CASE \E d \in {"prev", "next"}, n \in 0 .. MaxAmount : Move(d, n)
  BY <1>1, <1>5, QuietKeeps DEF Move
<1>6. CASE Walk
  BY <1>1, <1>6, QuietKeeps DEF Walk
<1>7. CASE Truncate \/ DisposeNext \/ DisposePrev
  <2>1. pc # "closed" /\ UNCHANGED item
    BY <1>7 DEF Truncate, DisposeNext, DisposePrev, DisposeCurr
  <2> QED
    BY <1>1, <1>7, <2>1, TruncateKeeps, DisposeNextKeeps, DisposePrevKeeps
<1>8. CASE ClosePageWindow \/ TurnBack \/ Closed
  <2>1. pc # "closed" /\ UNCHANGED item
    BY <1>8 DEF ClosePageWindow, TurnBack, Closed
  <2> QED
    BY <1>1, <1>8, <2>1, CloseKeeps, TurnBackKeeps, ClosedKeeps
<1>9. CASE Navigate \/ OnStatus \/ NoResponse
  <2>1. pc = "idle" /\ Holds(s, p)' /\ UNCHANGED item
    BY <1>9, QuietKeeps DEF Navigate, OnStatus, NoResponse
  <2> QED
    BY <1>1, <2>1
<1>10. CASE UNCHANGED vars
  <2>1. Holds(s, p)' /\ UNCHANGED <<pc, item>>
    BY <1>10, QuietKeeps DEF vars
  <2>2. CASE pc # "closed"
    BY <1>1, <2>1, <2>2
  <2>3. CASE pc = "closed"
    BY <2>1, <2>3 DEF entriesBar, cursorBar, BH!vars
  <2> QED
    BY <2>2, <2>3
<1> QED
  BY <1>2, <1>3, <1>4, <1>5, <1>6, <1>7, <1>8, <1>9, <1>10 DEF Next

(* The list of a window implements BrowserHistory: a new address takes the *)
(* place of what is forward of the current one, and Back and Forward come  *)
(* to the addresses in the order of the visits, for any number of them.    *)
THEOREM HistoryInOrder == Spec => VisitsInOrder
<1>1. Init => BH!Init
  <2> SUFFICES ASSUME Init
               PROVE  BH!Init
    OBVIOUS
  <2>1. entriesBar = << >>
    BY DEF Init, entriesBar
  <2>2. cursorBar = 0
    <3>1. TypeOK
      BY Initially DEF IInv
    <3>2. IsList(<< >>) /\ Current(<< >>, 0) /\ pc # "closed"
      BY DEF Init, IsList, Current, At
    <3> QED
      BY <3>1, <3>2, Mapped
  <2> QED
    BY <2>1, <2>2 DEF BH!Init
<1>2. IInv /\ IInv' /\ [Next]_vars => [BH!Next]_BH!vars
  <2> SUFFICES ASSUME IInv, IInv', [Next]_vars
               PROVE  BH!Next \/ UNCHANGED BH!vars
    OBVIOUS
  <2>1. PICK s \in Seq(Items), p \in Nat : Holds(s, p)
    BY DEF IInv
  <2> QED
    BY <2>1, StepShown DEF IInv
<1> QED
  BY <1>1, <1>2, Invariance, PTL DEF Spec, VisitsInOrder, BH!Spec
=============================================================================
