--------------------------- MODULE PageWindowProofs ---------------------------
(***************************************************************************)
(* Proofs about PageWindow.  Its window does to the history only what      *)
(* PageHistory allows, so that what is proved there holds of the window;   *)
(* and it frees the data of its requests once, and shows where it is in    *)
(* the history.                                                            *)
(***************************************************************************)
EXTENDS PageWindow, PageHistoryProofs

allVars == <<vars, window>>

-----------------------------------------------------------------------------
(* Each step of the window is a step of the history or leaves it alone.    *)

LEMMA NavigationSteps ==
  ASSUME NEW a \in Addresses, PageWindowNavigate(a)
  PROVE  Next
BY DEF PageWindowNavigate, Next

LEMMA MoveSteps ==
  ASSUME NEW direction \in {"prev", "next"}, NEW n \in 0 .. MaxAmount,
         PageWindowNavigateHistory(direction, n)
  PROVE  Next
BY DEF PageWindowNavigateHistory, Next

LEMMA EventSteps == HandleEvent => Next \/ UNCHANGED vars
<1> SUFFICES ASSUME HandleEvent PROVE Next \/ UNCHANGED vars
  OBVIOUS
<1>1. {0, 1} \subseteq 0 .. MaxAmount
  BY MaxAmountAssumption, OneStepAssumption
<1>2. ASSUME NEW a \in Addresses, PageWindowNavigate(a) PROVE Next
  BY <1>2, NavigationSteps
<1>3. ASSUME NEW direction \in {"prev", "next"}, NEW n \in {0, 1},
             PageWindowNavigateHistory(direction, n)
      PROVE  Next
  BY <1>1, <1>3, MoveSteps
<1>4. CASE PageWindowNavigateHome
  BY <1>2, <1>4, HomesAssumption DEF PageWindowNavigateHome
<1>5. CASE PopupNavMenu
  <2>1. PICK direction \in {"prev", "next"} :
          \E n \in 1 .. MenuLength[direction] :
            n <= MaxAmount /\ PageWindowNavigateHistory(direction, n)
    BY <1>5 DEF PopupNavMenu
  <2>2. PICK n \in 1 .. MenuLength[direction] :
          n <= MaxAmount /\ PageWindowNavigateHistory(direction, n)
    BY <2>1
  <2>3. n \in 0 .. MaxAmount
    BY <2>2, MaxAmountAssumption
  <2> QED
    BY <2>1, <2>2, <2>3, MoveSteps
<1>6. CASE CloseWindow
  BY <1>6 DEF CloseWindow, Next
<1>7. CASE PageWindowStop \/ Edit \/ PutBack \/ HandleUpdateEvt
  BY <1>7 DEF PageWindowStop, Edit, PutBack, HandleUpdateEvt
<1>8. CASE HandleMenu
  BY <1>2, <1>3, <1>4, <1>6, <1>7, <1>8 DEF HandleMenu
<1>9. CASE PageWindowMouseDown
  BY <1>2, <1>3, <1>4, <1>5, <1>7, <1>9
    DEF PageWindowMouseDown, HandleNavButtonClick, HandleContentClick
<1>10. CASE PageWindowKeyDown
  BY <1>2, <1>7, <1>10 DEF PageWindowKeyDown
<1> QED
  BY <1>6, <1>7, <1>8, <1>9, <1>10 DEF HandleEvent, HandleMouseDown, HandleKeyDown

LEMMA WindowSteps == WindowNext => Next \/ UNCHANGED vars
<1> SUFFICES ASSUME WindowNext, ~HandleEvent PROVE Next \/ UNCHANGED vars
  BY EventSteps
<1> QED
  BY DEF WindowNext, TruncateHistory, EnterHistory, WalkHistory, ArriveInHistory,
         PageURIOnStatus, PageURIOnClose, RequestFails, FileIsSilent, DisposeHistory, Next

(* The window implements the history: what a user does and when responses  *)
(* come, changes the list as PageHistory says and in no other way.         *)
THEOREM WindowImplementsHistory == WindowSpec => Spec
<1>1. WindowInit => Init
  BY DEF WindowInit
<1>2. [WindowNext]_allVars => [Next]_vars
  BY WindowSteps DEF allVars
<1> QED
  BY <1>1, <1>2, PTL DEF WindowSpec, Spec, allVars

(* So the list of a window is sound, whatever the user does.               *)
THEOREM WindowHistorySound == WindowSpec => [](WellLinked /\ DisposesOnce /\ NeighboursDiffer)
BY WindowImplementsHistory, ListLinked, DisposalSafe, AddressesAlternate, PTL

(* Toolbar, menus and address bar do to the history of a window what       *)
(* BrowserHistory promises of Back, Forward and a new address.             *)
THEOREM WindowVisitsInOrder == WindowSpec => VisitsInOrder
BY WindowImplementsHistory, HistoryInOrder, PTL

-----------------------------------------------------------------------------
(* The popup menus.                                                        *)

(* The steps left of a walk are no more than there are items ahead.        *)
ChoiceInv ==
  pc = "walk" =>
    \E s \in Seq(Items) : \E j \in 1 .. Len(s) :
      /\ IsList(s) /\ curr = s[j]
      /\ left <= IF link = "prev" THEN j - 1 ELSE Len(s) - j

(* The menus have an item for each step that can be made.                  *)
LEMMA MenuFits ==
  ASSUME TypeOK, NEW s, IsList(s), NEW p \in 1 .. Len(s), history = s[p]
  PROVE  MenuLength.prev = p - 1 /\ MenuLength.next = Len(s) - p
<1>1. Cardinality(Items) \in Nat /\ Len(s) \in Nat /\ Len(s) <= Cardinality(Items)
  BY ListFits
<1>2. item[history].prev = At(s, p - 1) /\ item[history].next = At(s, p + 1)
  BY DEF IsList
<1>3. Before(item[history].prev) = Told(s, 1, p - 1)
  <2>1. p - 1 \in 0 .. Len(s) /\ p - 1 <= Cardinality(Items)
    BY <1>1
  <2> QED
    BY <1>1, <1>2, <2>1, UpToList DEF Before
<1>4. After(item[history].next) = Told(s, p + 1, Len(s))
  <2>1. p + 1 \in 1 .. Len(s) + 1 /\ Len(s) + 1 - (p + 1) <= Cardinality(Items)
    BY <1>1
  <2> QED
    BY <1>1, <1>2, <2>1, FromList DEF After
<1>5. Len(Told(s, 1, p - 1)) = p - 1 /\ Len(Told(s, p + 1, Len(s))) = Len(s) - p
  BY <1>1 DEF Told
<1> QED
  BY <1>3, <1>4, <1>5 DEF MenuLength

LEMMA MoveChoosesSteps ==
  ASSUME IInv, NEW direction \in {"prev", "next"}, NEW n \in 0 .. MaxAmount,
         PageWindowNavigateHistory(direction, n), n \in {0, 1} \/ n <= MenuLength[direction]
  PROVE  ChoiceInv'
<1>1. /\ pc = "idle" /\ pc' = "walk" /\ curr' = history /\ link' = direction /\ left' = n
      /\ history # NULL /\ item' = item
      /\ n = 0 \/ item[history][direction] # NULL
  BY DEF PageWindowNavigateHistory, Move
<1>2. PICK s \in Seq(Items), p \in Nat : Holds(s, p)
  BY DEF IInv
<1>3. IsList(s) /\ Current(s, p) /\ Len(s) \in Nat
  BY <1>2 DEF Holds, IsList
<1>4. p \in 1 .. Len(s) /\ history = s[p]
  BY <1>1, <1>3 DEF Current, At
<1>5. IsList(s)'
  BY <1>1, <1>3, SameList
<1>6. MenuLength.prev = p - 1 /\ MenuLength.next = Len(s) - p
  BY <1>3, <1>4, MenuFits DEF IInv
<1>7. item[history].prev = At(s, p - 1) /\ item[history].next = At(s, p + 1)
  BY <1>3, <1>4 DEF IsList
<1>8. CASE direction = "prev"
  <2>1. p - 1 = 0 => item[history].prev = NULL
    BY <1>7 DEF At
  <2>2. n <= p - 1
    BY <1>1, <1>3, <1>4, <1>6, <1>8, <2>1
  <2> QED
    BY <1>1, <1>4, <1>5, <1>8, <2>2 DEF ChoiceInv
<1>9. CASE direction = "next"
  <2>1. p + 1 = Len(s) + 1 => item[history].next = NULL
    BY <1>3, <1>7 DEF At
  <2>2. n <= Len(s) - p
    BY <1>1, <1>3, <1>4, <1>6, <1>9, <2>1
  <2> QED
    BY <1>1, <1>4, <1>5, <1>9, <2>2 DEF ChoiceInv
<1> QED
  BY <1>8, <1>9

LEMMA EventChooses == IInv /\ ChoiceInv /\ HandleEvent => ChoiceInv'
<1> SUFFICES ASSUME IInv, ChoiceInv, HandleEvent PROVE ChoiceInv'
  OBVIOUS
<1>1. ASSUME pc' # "walk" PROVE ChoiceInv'
  BY <1>1 DEF ChoiceInv
<1>2. ASSUME \E a \in Addresses : PageWindowNavigate(a) PROVE ChoiceInv'
  BY <1>1, <1>2 DEF PageWindowNavigate, NewItem, Navigate
<1>3. ASSUME NEW direction \in {"prev", "next"}, NEW n \in {0, 1},
             PageWindowNavigateHistory(direction, n)
      PROVE  ChoiceInv'
  <2>1. n \in 0 .. MaxAmount
    BY MaxAmountAssumption, OneStepAssumption
  <2> QED
    BY <1>3, <2>1, MoveChoosesSteps
<1>4. CASE PageWindowNavigateHome
  BY <1>2, <1>4, HomesAssumption DEF PageWindowNavigateHome
<1>5. CASE PopupNavMenu
  <2>1. PICK direction \in {"prev", "next"} :
          \E n \in 1 .. MenuLength[direction] :
            n <= MaxAmount /\ PageWindowNavigateHistory(direction, n)
    BY <1>5 DEF PopupNavMenu
  <2>2. PICK n \in 1 .. MenuLength[direction] :
          n <= MaxAmount /\ PageWindowNavigateHistory(direction, n)
    BY <2>1
  <2>3. n \in 0 .. MaxAmount
    BY <2>2, MaxAmountAssumption
  <2>4. n <= MenuLength[direction]
    BY <2>2
  <2> QED
    BY <2>1, <2>2, <2>3, <2>4, MoveChoosesSteps
<1>6. CASE CloseWindow
  BY <1>1, <1>6 DEF CloseWindow, ClosePageWindow
<1>7. CASE PageWindowStop \/ Edit \/ PutBack \/ HandleUpdateEvt
  BY <1>1, <1>7 DEF PageWindowStop, Edit, PutBack, HandleUpdateEvt, Idle, vars
<1>8. CASE HandleMenu
  BY <1>2, <1>3, <1>4, <1>6, <1>7, <1>8 DEF HandleMenu
<1>9. CASE PageWindowMouseDown
  BY <1>2, <1>3, <1>4, <1>5, <1>7, <1>9
    DEF PageWindowMouseDown, HandleNavButtonClick, HandleContentClick
<1>10. CASE PageWindowKeyDown
  BY <1>2, <1>7, <1>10 DEF PageWindowKeyDown
<1> QED
  BY <1>6, <1>7, <1>8, <1>9, <1>10 DEF HandleEvent, HandleMouseDown, HandleKeyDown

LEMMA WalkChooses ==
  ASSUME IInv, ChoiceInv, Walk
  PROVE  ChoiceInv'
<1>1. /\ pc = "walk" /\ left > 0 /\ item[curr][link] # NULL /\ link' = link
      /\ curr' = item[curr][link] /\ left' = left - 1 /\ item' = item
  BY DEF Walk
<1>2. link \in {"prev", "next"} /\ left \in Nat
  BY DEF IInv, TypeOK
<1>3. PICK s \in Seq(Items) : \E j \in 1 .. Len(s) :
        /\ IsList(s) /\ curr = s[j]
        /\ left <= IF link = "prev" THEN j - 1 ELSE Len(s) - j
  BY <1>1 DEF ChoiceInv
<1>4. PICK j \in 1 .. Len(s) :
        /\ IsList(s) /\ curr = s[j]
        /\ left <= IF link = "prev" THEN j - 1 ELSE Len(s) - j
  BY <1>3
<1>5. IsList(s)' /\ Len(s) \in Nat
  BY <1>1, <1>4, SameList DEF IsList
<1>6. item[curr].prev = At(s, j - 1) /\ item[curr].next = At(s, j + 1)
  BY <1>4 DEF IsList
<1>7. CASE link = "prev"
  <2>1. j - 1 \in 1 .. Len(s) /\ curr' = s[j - 1]
    BY <1>1, <1>6, <1>7 DEF At
  <2>2. left' <= (j - 1) - 1
    BY <1>1, <1>2, <1>4, <1>7
  <2> QED
    BY <1>1, <1>5, <1>7, <2>1, <2>2 DEF ChoiceInv
<1>8. CASE link = "next"
  <2>1. j + 1 \in 1 .. Len(s) /\ curr' = s[j + 1]
    BY <1>1, <1>6, <1>8 DEF At
  <2>2. left' <= Len(s) - (j + 1)
    BY <1>1, <1>2, <1>4, <1>5, <1>8
  <2> QED
    BY <1>1, <1>5, <1>8, <2>1, <2>2 DEF ChoiceInv
<1> QED
  BY <1>2, <1>7, <1>8

LEMMA ChoiceKept ==
  ASSUME IInv, ChoiceInv, [WindowNext]_allVars
  PROVE  ChoiceInv'
<1>1. ASSUME pc' # "walk" PROVE ChoiceInv'
  BY <1>1 DEF ChoiceInv
<1>2. CASE HandleEvent
  BY <1>2, EventChooses
<1>3. CASE WalkHistory
  BY <1>3, WalkChooses DEF WalkHistory
<1>4. CASE TruncateHistory \/ EnterHistory \/ ArriveInHistory
  BY <1>1, <1>4 DEF TruncateHistory, Truncate, DisposeCurr, EnterHistory, LinkNewItem,
                    ArriveInHistory, Arrive
<1>5. CASE PageURIOnStatus \/ RequestFails
  BY <1>1, <1>5 DEF PageURIOnStatus, OnStatus, RequestFails, NoResponse
<1>6. CASE PageURIOnClose \/ FileIsSilent
  BY <1>1, <1>6 DEF PageURIOnClose, FileIsSilent, NoResponse, Idle, vars
<1>7. CASE DisposeHistory
  BY <1>1, <1>7 DEF DisposeHistory, DisposeNext, DisposePrev, DisposeCurr, TurnBack, Closed
<1>8. CASE UNCHANGED allVars
  <2>1. UNCHANGED <<item, pc, curr, link, left>>
    BY <1>8 DEF allVars, vars
  <2> QED
    BY <2>1 DEF ChoiceInv, IsList, At
<1> QED
  BY <1>2, <1>3, <1>4, <1>5, <1>6, <1>7, <1>8 DEF WindowNext

(* A choice in a popup menu is reached: the walk never ends before it.     *)
THEOREM ChoicesReached == WindowSpec => []ChoiceReached
<1>1. WindowInit => ChoiceInv
  BY DEF WindowInit, Init, ChoiceInv
<1>2. IInv /\ ChoiceInv /\ [WindowNext]_allVars => ChoiceInv'
  BY ChoiceKept
<1>3. WindowSpec => []IInv
  BY WindowImplementsHistory, Invariance, PTL
<1>4. IInv /\ ChoiceInv => ChoiceReached
  <2> SUFFICES ASSUME IInv, ChoiceInv, pc = "walk", item[curr][link] = NULL
               PROVE  left = 0
    BY DEF ChoiceReached
  <2>1. link \in {"prev", "next"} /\ left \in Nat
    BY DEF IInv, TypeOK
  <2>2. PICK s \in Seq(Items) : \E j \in 1 .. Len(s) :
          /\ IsList(s) /\ curr = s[j]
          /\ left <= IF link = "prev" THEN j - 1 ELSE Len(s) - j
    BY DEF ChoiceInv
  <2>3. PICK j \in 1 .. Len(s) :
          /\ IsList(s) /\ curr = s[j]
          /\ left <= IF link = "prev" THEN j - 1 ELSE Len(s) - j
    BY <2>2
  <2>4. item[curr].prev = At(s, j - 1) /\ item[curr].next = At(s, j + 1) /\ Len(s) \in Nat
    BY <2>3 DEF IsList
  <2>5. CASE link = "prev"
    <3>1. j - 1 = 0 \/ j - 1 = Len(s) + 1
      BY <2>3, <2>4, <2>5, AtEnd
    <3> QED
      BY <2>1, <2>3, <2>4, <2>5, <3>1
  <2>6. CASE link = "next"
    <3>1. j + 1 = 0 \/ j + 1 = Len(s) + 1
      BY <2>3, <2>4, <2>6, AtEnd
    <3> QED
      BY <2>1, <2>3, <2>4, <2>6, <3>1
  <2> QED
    BY <2>1, <2>5, <2>6
<1> QED
  BY <1>1, <1>2, <1>3, <1>4, PTL DEF WindowSpec, allVars

-----------------------------------------------------------------------------
(* The data of the providers.                                              *)

(* A window without a URI has freed the data of the last one; of the URI   *)
(* that it has they are held while its provider runs, and after that if    *)
(* the provider leaves them to its close.                                  *)
DataInv ==
  /\ uri \in Addresses \union {NULL}
  /\ uri = NULL => calling = "no" /\ data \in {"none", "freed"}
  /\ uri # NULL /\ calling = "no" =>
       data = IF Provider[uri] = "about" THEN "freed" ELSE "held"
  /\ calling \in {"no", "request", "response"}
  /\ calling # "no" => data = "held" /\ pc = "idle"

LEMMA RequestKeepsData ==
  ASSUME DataInv, calling = "no", NEW a \in Addresses, Requested(a), pc' = "idle"
  PROVE  DataInv'
<1>1. NULL \notin Addresses
  BY NullAssumption
<1>2. URIClose \in {"none", "freed"}
  BY DEF DataInv, URIClose, ProviderClose, Free
<1>3. NewData(URIClose) = "held"
  BY <1>2 DEF NewData
<1>4. CASE uri' = NULL
  BY <1>1, <1>2, <1>4 DEF Requested, DataInv
<1>5. CASE uri' # NULL
  BY <1>1, <1>3, <1>5 DEF Requested, DataInv
<1> QED
  BY <1>4, <1>5

LEMMA NavigationKeepsData ==
  ASSUME DataInv, NEW a \in Addresses, PageWindowNavigate(a)
  PROVE  DataInv'
<1>1. CASE UNCHANGED <<uri, data, calling>>
  BY <1>1 DEF DataInv, PageWindowNavigate, Idle
<1> QED
  BY <1>1, RequestKeepsData DEF PageWindowNavigate, Idle, Navigate

LEMMA StopKeepsData == DataInv /\ PageWindowStop => DataInv'
BY NullAssumption DEF DataInv, PageWindowStop, Idle, URIClose, ProviderClose, Free

LEMMA EventKeepsData == DataInv /\ HandleEvent => DataInv'
<1> SUFFICES ASSUME DataInv, HandleEvent PROVE DataInv'
  OBVIOUS
<1>1. ASSUME Idle, UNCHANGED <<uri, data, calling>> PROVE DataInv'
  BY <1>1 DEF DataInv, Idle
<1>2. ASSUME \E a \in Addresses : PageWindowNavigate(a) PROVE DataInv'
  BY <1>2, NavigationKeepsData
<1>3. ASSUME \E direction, n : PageWindowNavigateHistory(direction, n) PROVE DataInv'
  BY <1>1, <1>3 DEF PageWindowNavigateHistory, window
<1>4. CASE PageWindowNavigateHome
  BY <1>2, <1>4, HomesAssumption DEF PageWindowNavigateHome
<1>5. CASE PopupNavMenu
  BY <1>3, <1>5 DEF PopupNavMenu
<1>6. CASE CloseWindow \/ Edit \/ PutBack \/ HandleUpdateEvt
  BY <1>1, <1>6 DEF CloseWindow, Edit, PutBack, HandleUpdateEvt, window
<1>7. CASE PageWindowStop
  BY <1>7, StopKeepsData
<1>8. CASE HandleMenu
  BY <1>2, <1>3, <1>4, <1>6, <1>7, <1>8 DEF HandleMenu
<1>9. CASE PageWindowMouseDown
  BY <1>2, <1>3, <1>4, <1>5, <1>7, <1>9
    DEF PageWindowMouseDown, HandleNavButtonClick, HandleContentClick
<1>10. CASE PageWindowKeyDown
  BY <1>2, <1>6, <1>10 DEF PageWindowKeyDown
<1> QED
  BY <1>6, <1>8, <1>9, <1>10 DEF HandleEvent, HandleMouseDown, HandleKeyDown

(* The walk along the history comes to an item, and an item has an         *)
(* address: this needs the types of the history.                           *)
LEMMA ItemsHaveAddresses ==
  IInv => /\ pc = "walk" => item[curr].address \in Addresses
          /\ pc = "truncate" => item[newNext].address \in Addresses
BY DEF IInv, TypeOK

LEMMA DataKept ==
  ASSUME IInv, DataInv, [WindowNext]_allVars
  PROVE  DataInv'
<1>1. ASSUME UNCHANGED <<uri, data, calling>>, calling = "no" \/ UNCHANGED pc
      PROVE  DataInv'
  BY <1>1 DEF DataInv
<1>2. CASE HandleEvent
  BY <1>2, EventKeepsData
<1>3. CASE UNCHANGED allVars
  BY <1>1, <1>3 DEF allVars, vars, window
<1>4. CASE TruncateHistory \/ WalkHistory \/ DisposeHistory
  <2>1. calling = "no"
    BY <1>4 DEF DataInv, TruncateHistory, Truncate, WalkHistory, Walk, DisposeHistory,
                DisposeNext, TurnBack, DisposePrev, Closed
  <2> QED
    BY <1>1, <1>4, <2>1 DEF TruncateHistory, WalkHistory, DisposeHistory, window
<1>5. CASE EnterHistory
  <2>1. calling = "no" /\ pc = "truncate" /\ pc' = "idle"
    BY <1>5 DEF DataInv, EnterHistory, LinkNewItem
  <2>2. item[newNext].address \in Addresses /\ history' = newNext
    BY <1>5, <2>1, ItemsHaveAddresses DEF EnterHistory, LinkNewItem
  <2> QED
    BY <1>5, <2>1, <2>2, RequestKeepsData DEF EnterHistory
<1>6. CASE ArriveInHistory
  <2>1. calling = "no" /\ pc = "walk" /\ pc' = "idle"
    BY <1>6 DEF DataInv, ArriveInHistory, Arrive
  <2>2. item[curr].address \in Addresses
    BY <2>1, ItemsHaveAddresses
  <2> QED
    BY <1>1, <1>6, <2>1, <2>2, RequestKeepsData DEF ArriveInHistory
<1>7. CASE PageURIOnStatus
  BY <1>7 DEF PageURIOnStatus, OnStatus, DataInv
<1>8. CASE PageURIOnClose
  BY <1>8 DEF PageURIOnClose, DataInv, Free, vars
<1>9. CASE RequestFails
  BY <1>9 DEF RequestFails, DataInv, NoResponse
<1>10. CASE FileIsSilent
  BY <1>1, <1>10 DEF FileIsSilent, Idle
<1> QED
  BY <1>2, <1>3, <1>4, <1>5, <1>6, <1>7, <1>8, <1>9, <1>10 DEF WindowNext

THEOREM DataInvariance == WindowSpec => []DataInv
<1>1. WindowInit => DataInv
  BY NullAssumption DEF WindowInit, Init, DataInv
<1>2. IInv /\ DataInv /\ [WindowNext]_allVars => DataInv'
  BY DataKept
<1>3. WindowSpec => []IInv
  BY WindowImplementsHistory, Invariance, PTL
<1> QED
  BY <1>1, <1>2, <1>3, PTL DEF WindowSpec, allVars

(* The data of each request are freed exactly once.                        *)
THEOREM DataFreed == WindowSpec => []DataFreedOnce
<1>1. DataInv => DataFreedOnce
  BY DEF DataInv, DataFreedOnce
<1> QED
  BY <1>1, DataInvariance, PTL

-----------------------------------------------------------------------------
(* What the toolbar and the address bar show.                              *)

(* While the list is cut for a new item, the bar has the address of that   *)
(* item already.                                                           *)
ShowInv ==
  /\ pc = "truncate" => bar = item[newNext].address
  /\ WindowShowsHistory

LEMMA RequestKeepsShown ==
  ASSUME NEW a \in Addresses, Requested(a)
  PROVE  buttons' \in {NULL, Buttons'}
BY DEF Requested

LEMMA NavigationKeepsShown ==
  ASSUME TypeOK, ShowInv, NEW a \in Addresses, PageWindowNavigate(a)
  PROVE  ShowInv'
<1>1. CASE Navigate
  <2>1. pc' = "idle" /\ UNCHANGED <<item, history>>
    BY <1>1 DEF Navigate
  <2>2. Requested(a) /\ lacking' = ~SameAddress(a) /\ bar' = a
    BY <1>1, <2>1 DEF PageWindowNavigate, NewItem
  <2> QED
    BY <2>1, <2>2, RequestKeepsShown DEF ShowInv, WindowShowsHistory, SameAddress
<1>2. CASE NewItem(a)
  <2>1. PICK i \in Items : /\ newNext' = i
                           /\ item' = [item EXCEPT ![i] = [address |-> a, prev |-> history,
                                                           next |-> NULL]]
    BY <1>2 DEF NewItem
  <2>2. item'[newNext'].address = a
    BY <2>1 DEF TypeOK
  <2> QED
    BY <1>2, <2>2 DEF NewItem, PageWindowNavigate, ShowInv, WindowShowsHistory
<1> QED
  BY <1>1, <1>2 DEF PageWindowNavigate

LEMMA EventKeepsShown == TypeOK /\ ShowInv /\ HandleEvent => ShowInv'
<1> SUFFICES ASSUME TypeOK, ShowInv, HandleEvent PROVE ShowInv'
  OBVIOUS
<1>1. ASSUME NEW a \in Addresses, PageWindowNavigate(a) PROVE ShowInv'
  BY <1>1, NavigationKeepsShown
<1>2. ASSUME \E direction, n : PageWindowNavigateHistory(direction, n) PROVE ShowInv'
  BY <1>2 DEF PageWindowNavigateHistory, Move, ShowInv, WindowShowsHistory
<1>3. CASE PageWindowNavigateHome
  BY <1>1, <1>3, HomesAssumption DEF PageWindowNavigateHome
<1>4. CASE PopupNavMenu
  BY <1>2, <1>4 DEF PopupNavMenu
<1>5. CASE CloseWindow
  BY <1>5 DEF CloseWindow, ClosePageWindow, ShowInv, WindowShowsHistory
<1>6. CASE Edit \/ (history # NULL /\ PutBack)
  BY <1>6, DraftAssumption
    DEF Edit, PutBack, vars, ShowInv, WindowShowsHistory, Idle, Buttons
<1>7. CASE HandleUpdateEvt \/ PageWindowStop
  BY <1>7 DEF HandleUpdateEvt, PageWindowStop, vars, ShowInv, WindowShowsHistory, Idle, Buttons
<1>8. CASE HandleMenu
  BY <1>1, <1>2, <1>3, <1>5, <1>6, <1>7, <1>8 DEF HandleMenu
<1>9. CASE PageWindowMouseDown
  BY <1>1, <1>2, <1>3, <1>4, <1>7, <1>9
    DEF PageWindowMouseDown, HandleNavButtonClick, HandleContentClick
<1>10. CASE PageWindowKeyDown
  BY <1>1, <1>6, <1>10 DEF PageWindowKeyDown
<1> QED
  BY <1>5, <1>7, <1>8, <1>9, <1>10 DEF HandleEvent, HandleMouseDown, HandleKeyDown

LEMMA ShownKept ==
  ASSUME IInv, ShowInv, [WindowNext]_allVars
  PROVE  ShowInv'
<1> USE DEF ShowInv, WindowShowsHistory
<1>1. TypeOK
  BY DEF IInv
<1>2. CASE HandleEvent
  BY <1>1, <1>2, EventKeepsShown
<1>3. CASE UNCHANGED allVars
  BY <1>3 DEF allVars, vars, window, Buttons
<1>4. CASE TruncateHistory
  BY <1>4 DEF TruncateHistory, Truncate, DisposeCurr, window
<1>5. CASE EnterHistory
  <2>1. pc = "truncate" /\ pc' = "idle" /\ history' = newNext /\ bar' = bar
    BY <1>5 DEF EnterHistory, LinkNewItem
  <2>2. newNext \in Items /\ newNext # NULL
    BY <1>1, <2>1, NullAssumption DEF TypeOK
  <2>3. item'[newNext].address = item[newNext].address
    BY <1>1, <1>5, <2>2 DEF TypeOK, Contents, EnterHistory, LinkNewItem
  <2>4. item'[newNext].address \in Addresses /\ Requested(item'[newNext].address)
    BY <1>5, <2>1, <2>3, ItemsHaveAddresses DEF EnterHistory
  <2>5. buttons' \in {NULL, Buttons'}
    BY <2>4, RequestKeepsShown
  <2> QED
    BY <2>1, <2>2, <2>3, <2>5
<1>6. CASE WalkHistory
  BY <1>6 DEF WalkHistory, Walk
<1>7. CASE ArriveInHistory
  <2>1. pc = "walk" /\ pc' = "idle" /\ history' = curr /\ UNCHANGED item
    BY <1>7 DEF ArriveInHistory, Arrive
  <2>2. CASE lacking'
    BY <2>1, <2>2
  <2>3. CASE ~lacking'
    <3>1. Requested(item[curr].address) /\ bar' = item[curr].address
      BY <1>7, <2>3 DEF ArriveInHistory
    <3>2. buttons' \in {NULL, Buttons'}
      BY <2>1, <3>1, ItemsHaveAddresses, RequestKeepsShown
    <3>3. curr # NULL
      BY <1>1, <2>1, NullAssumption DEF TypeOK
    <3> QED
      BY <2>1, <3>1, <3>2, <3>3
  <2> QED
    BY <2>2, <2>3
<1>8. CASE PageURIOnStatus
  BY <1>8 DEF PageURIOnStatus, OnStatus
<1>9. CASE PageURIOnClose \/ RequestFails
  BY <1>9 DEF PageURIOnClose, RequestFails, NoResponse, vars
<1>10. CASE FileIsSilent
  BY <1>10 DEF FileIsSilent, NoResponse, vars, Buttons
<1>11. CASE DisposeHistory
  BY <1>11 DEF DisposeHistory, DisposeNext, DisposePrev, DisposeCurr, TurnBack, Closed
<1> QED
  BY <1>2, <1>3, <1>4, <1>5, <1>6, <1>7, <1>8, <1>9, <1>10, <1>11 DEF WindowNext

(* Toolbar and address bar show where the window is in its history.        *)
THEOREM HistoryShown == WindowSpec => []WindowShowsHistory
<1>1. WindowInit => ShowInv
  BY DraftAssumption DEF WindowInit, Init, ShowInv, WindowShowsHistory
<1>2. IInv /\ ShowInv /\ [WindowNext]_allVars => ShowInv'
  BY ShownKept
<1>3. WindowSpec => []IInv
  BY WindowImplementsHistory, Invariance, PTL
<1>4. ShowInv => WindowShowsHistory
  BY DEF ShowInv
<1> QED
  BY <1>1, <1>2, <1>3, <1>4, PTL DEF WindowSpec, allVars

-----------------------------------------------------------------------------
(* The types of the window. *)

(* A response that has begun was a request.                                *)
TypesInv == WindowTypeOK /\ unanswered + begun <= MaxRequests

LEMMA RequestKeepsTypes ==
  ASSUME TypesInv, IInv, NEW a \in Addresses, Requested(a), bar' \in Addresses \union {"draft"},
         lacking' \in BOOLEAN
  PROVE  TypesInv'
<1>1. URIClose \in {"none", "held", "freed", "twice", "lost"}
  BY DEF TypesInv, WindowTypeOK, URIClose, ProviderClose, Free
<1>2. NewData(URIClose) \in {"none", "held", "freed", "twice", "lost"}
  BY <1>1 DEF NewData
<1>3. unanswered \in Nat /\ begun \in Nat
  BY DEF IInv, TypeOK, TypesInv, WindowTypeOK
<1> QED
  BY <1>1, <1>2, <1>3, MaxRequestsAssumption DEF Requested, TypesInv, WindowTypeOK

LEMMA NavigationKeepsTypes ==
  ASSUME TypesInv, IInv, NEW a \in Addresses, PageWindowNavigate(a)
  PROVE  TypesInv'
<1>1. CASE UNCHANGED <<isLoading, uri, data, calling, begun, buttons, lacking, unanswered>>
  BY <1>1 DEF PageWindowNavigate, TypesInv, WindowTypeOK
<1>2. CASE Requested(a) /\ lacking' = ~SameAddress(a)
  <2>1. lacking' \in BOOLEAN
    BY <1>2 DEF SameAddress
  <2> QED
    BY <1>2, <2>1, RequestKeepsTypes DEF PageWindowNavigate
<1> QED
  BY <1>1, <1>2 DEF PageWindowNavigate, NewItem

LEMMA EventKeepsTypes == TypesInv /\ IInv /\ HandleEvent => TypesInv'
<1> SUFFICES ASSUME TypesInv, IInv, HandleEvent PROVE TypesInv'
  OBVIOUS
<1>1. ASSUME NEW a \in Addresses, PageWindowNavigate(a) PROVE TypesInv'
  BY <1>1, NavigationKeepsTypes
<1>2. ASSUME \E direction, n : PageWindowNavigateHistory(direction, n) PROVE TypesInv'
  BY <1>2 DEF PageWindowNavigateHistory, Move, window, TypesInv, WindowTypeOK
<1>3. CASE PageWindowNavigateHome
  BY <1>1, <1>3, HomesAssumption DEF PageWindowNavigateHome
<1>4. CASE PopupNavMenu
  BY <1>2, <1>4 DEF PopupNavMenu
<1>5. CASE CloseWindow
  BY <1>5 DEF CloseWindow, ClosePageWindow, window, TypesInv, WindowTypeOK
<1>6. CASE Edit \/ HandleUpdateEvt
  BY <1>6 DEF Edit, HandleUpdateEvt, vars, TypesInv, WindowTypeOK
<1>7. CASE PageWindowStop
  BY <1>7 DEF PageWindowStop, URIClose, ProviderClose, Free, vars, TypesInv, WindowTypeOK
<1>8. CASE history # NULL /\ PutBack
  <2>1. item[history].address \in Addresses
    <3>1. history \in live
      BY <1>8, CurrentIsLive DEF PutBack, Idle
    <3> QED
      BY <3>1 DEF IInv, TypeOK
  <2> QED
    BY <1>8, <2>1 DEF PutBack, vars, TypesInv, WindowTypeOK
<1>9. CASE HandleMenu
  BY <1>1, <1>2, <1>3, <1>5, <1>6, <1>7, <1>9 DEF HandleMenu
<1>10. CASE PageWindowMouseDown
  BY <1>1, <1>2, <1>3, <1>4, <1>7, <1>10
    DEF PageWindowMouseDown, HandleNavButtonClick, HandleContentClick
<1>11. CASE PageWindowKeyDown
  BY <1>1, <1>6, <1>8, <1>11 DEF PageWindowKeyDown
<1> QED
  BY <1>5, <1>6, <1>9, <1>10, <1>11 DEF HandleEvent, HandleMouseDown, HandleKeyDown

LEMMA WindowTypesKept ==
  ASSUME IInv, TypesInv, [WindowNext]_allVars
  PROVE  TypesInv'
<1>0. unanswered \in Nat /\ begun \in Nat /\ MaxRequests \in Nat
  BY MaxRequestsAssumption DEF IInv, TypeOK, TypesInv, WindowTypeOK
<1>1. ASSUME UNCHANGED <<window, unanswered>> PROVE TypesInv'
  BY <1>1 DEF window, TypesInv, WindowTypeOK
<1>2. CASE HandleEvent
  BY <1>2, EventKeepsTypes
<1>3. CASE UNCHANGED allVars \/ TruncateHistory \/ WalkHistory \/ DisposeHistory
  <2>1. UNCHANGED <<window, unanswered>>
    BY <1>3 DEF allVars, vars, TruncateHistory, Truncate, WalkHistory, Walk, DisposeHistory,
                DisposeNext, TurnBack, DisposePrev, DisposeCurr, Closed
  <2> QED
    BY <1>1, <2>1
<1>4. CASE EnterHistory
  <2>1. item[newNext].address \in Addresses
    BY <1>4, ItemsHaveAddresses DEF EnterHistory, LinkNewItem
  <2> QED
    BY <1>4, <2>1, RequestKeepsTypes DEF EnterHistory, TypesInv, WindowTypeOK
<1>5. CASE ArriveInHistory
  <2>1. item[curr].address \in Addresses
    BY <1>5, ItemsHaveAddresses DEF ArriveInHistory, Arrive
  <2>2. CASE Requested(item[curr].address) /\ bar' = item[curr].address /\ lacking' = FALSE
    BY <2>1, <2>2, RequestKeepsTypes
  <2>3. CASE lacking' = TRUE
             /\ UNCHANGED <<unanswered, bar, isLoading, uri, data, calling, begun, buttons>>
    BY <2>3 DEF TypesInv, WindowTypeOK
  <2> QED
    BY <1>5, <2>2, <2>3 DEF ArriveInHistory
<1>6. CASE PageURIOnStatus
  BY <1>0, <1>6 DEF PageURIOnStatus, OnStatus, TypesInv, WindowTypeOK
<1>7. CASE PageURIOnClose
  <2>1. begun' = begun - 1 /\ begun > 0 /\ UNCHANGED <<unanswered, bar, uri, lacking>>
        /\ isLoading' = FALSE /\ calling' = "no" /\ data' \in {data, Free(data)}
    BY <1>7 DEF PageURIOnClose, vars
  <2>2. Free(data) \in {"freed", "twice"}
    BY DEF Free
  <2>3. begun' \in 0 .. MaxRequests /\ unanswered' + begun' <= MaxRequests
    BY <1>0, <2>1 DEF TypesInv, WindowTypeOK
  <2> QED
    BY <2>1, <2>2, <2>3 DEF TypesInv, WindowTypeOK
<1>8. CASE RequestFails
  <2>1. unanswered' = unanswered - 1 /\ unanswered > 0 /\ UNCHANGED <<bar, uri, data, begun, lacking>>
        /\ isLoading' = FALSE /\ calling' = "no"
    BY <1>8 DEF RequestFails, NoResponse
  <2>2. unanswered' + begun' <= MaxRequests
    BY <1>0, <2>1 DEF TypesInv
  <2> QED
    BY <2>1, <2>2 DEF TypesInv, WindowTypeOK
<1>9. CASE FileIsSilent
  BY <1>0, <1>9 DEF FileIsSilent, NoResponse, vars, TypesInv, WindowTypeOK
<1> QED
  BY <1>2, <1>3, <1>4, <1>5, <1>6, <1>7, <1>8, <1>9 DEF WindowNext

(* Every variable of the window keeps its type.                            *)
THEOREM WindowTypeCorrect == WindowSpec => []WindowTypeOK
<1>1. WindowInit => TypesInv
  <2> SUFFICES ASSUME WindowInit PROVE TypesInv
    OBVIOUS
  <2>1. unanswered = 0 /\ begun = 0 /\ 0 \in 0 .. MaxRequests
    BY MaxRequestsAssumption DEF WindowInit, Init
  <2>2. unanswered + begun <= MaxRequests
    BY <2>1, MaxRequestsAssumption
  <2>3. WindowTypeOK
    BY <2>1 DEF WindowInit, WindowTypeOK
  <2> QED
    BY <2>2, <2>3 DEF TypesInv
<1>2. IInv /\ TypesInv /\ [WindowNext]_allVars => TypesInv'
  BY WindowTypesKept
<1>3. WindowSpec => []IInv
  BY WindowImplementsHistory, Invariance, PTL
<1>4. TypesInv => WindowTypeOK
  BY DEF TypesInv
<1> QED
  BY <1>1, <1>2, <1>3, <1>4, PTL DEF WindowSpec, allVars
=============================================================================
