------------------------------ MODULE PageWindow ------------------------------
(***************************************************************************)
(* A page window as the user has it: the events that the event loop gives  *)
(* it (main.c, menus.c), the toolbar with its popup menus, the address bar *)
(* and the links (window.c), over the history of PageHistory and over the  *)
(* providers.  about: and http: answer before URIGet returns, file: later, *)
(* perhaps when its request was long stopped; FileLoad and HttpFetch have  *)
(* the details.                                                            *)
(*                                                                         *)
(* An event is handled when nothing else runs.  What the user types in the *)
(* address bar is a draft until Enter makes an address of it.  Which field *)
(* of the window the keys go to is not kept: here any key may go to the    *)
(* address bar.                                                            *)
(***************************************************************************)
EXTENDS PageHistory

CONSTANTS
  Provider,   \* what URIGetProvider finds for an address, "none" for NULL
  Homes       \* the addresses of the home page, in a file and built in

ASSUME ProviderAssumption ==
  Provider \in [Addresses -> {"about", "file", "http", "none"}]
ASSUME HomesAssumption == Homes \subseteq Addresses
ASSUME DraftAssumption == "draft" \notin Addresses
ASSUME OneStepAssumption == MaxAmount >= 1

VARIABLES
  bar,        \* the address bar: an address or "draft", which may be empty
  isLoading,
  uri,        \* the address of pWin->uri, or NULL
  data,       \* the provider's data of the last URI; "twice" and "lost" are errors
  calling,    \* a provider that answers at once: "no", "request" or "response"
  begun,      \* responses that have begun and not ended
  buttons,    \* the toolbar as it was drawn, or NULL if it is to be drawn
  lacking     \* no memory: the window navigated without its history, or the reverse

window == <<bar, isLoading, uri, data, calling, begun, buttons, lacking>>

(* DrawToolbarButtons: which icons are active, and Stop or Refresh. *)
Buttons ==
  [back    |-> history # NULL /\ item[history].prev # NULL,
   forward |-> history # NULL /\ item[history].next # NULL,
   stop    |-> isLoading,
   refresh |-> isLoading \/ history # NULL]

(* NewPageWindow. *)
WindowInit ==
  /\ Init
  /\ bar = "draft"
  /\ isLoading = FALSE
  /\ uri = NULL /\ data = "none" /\ calling = "no" /\ begun = 0
  /\ buttons = Buttons
  /\ lacking = FALSE

Idle == pc = "idle" /\ calling = "no"

-----------------------------------------------------------------------------
(* Providers and their data. *)

Free(d) == IF d = "held" THEN "freed" ELSE "twice"

(* A new URI takes the place of one that was closed. *)
NewData(d) == CASE d \in {"none", "freed"} -> "held" [] d = "held" -> "lost" [] OTHER -> d

(* Faulty: the free that AboutProviderClose has commented out. *)
CloseFrees(provider, d) == Free(d)

(* The close of the provider: what about: has, its request has freed. *)
ProviderClose(provider, d) == IF provider = "about" THEN d ELSE Free(d)

URIClose == IF uri = NULL THEN data ELSE ProviderClose(Provider[uri], data)

(* PageWindowNavigate from its redrawing of the buttons on: the previous   *)
(* request is stopped; then there is a new one, if NewURI can make it.     *)
(* With MaxRequests, it cannot.                                            *)
Requested(address) ==
  /\ isLoading' = (isLoading /\ uri = NULL)
  /\ buttons' = IF uri = NULL THEN NULL ELSE Buttons'
  /\ UNCHANGED begun
  /\ \/ /\ uri' = NULL /\ data' = URIClose /\ calling' = "no"
        /\ UNCHANGED unanswered
     \/ /\ Provider[address] # "none" /\ unanswered + begun < MaxRequests
        /\ uri' = address /\ data' = NewData(URIClose)
        /\ calling' = IF Provider[address] = "file" THEN "no" ELSE "request"
        /\ unanswered' = unanswered + 1

PageWindowStop ==
  /\ Idle /\ uri # NULL
  /\ data' = URIClose /\ uri' = NULL
  /\ isLoading' = FALSE
  /\ UNCHANGED <<vars, bar, calling, begun, lacking>>
  /\ buttons' = Buttons'

-----------------------------------------------------------------------------
(* Navigation. *)

(* PageWindowNavigate to an address that is not taken from the history.    *)
(* Without memory for an item the page is loaded all the same.             *)
PageWindowNavigate(address) ==
  /\ Idle
  /\ bar' = address
  /\ \/ /\ NewItem(address)
        /\ UNCHANGED <<isLoading, uri, data, calling, begun, buttons, lacking>>
     \/ /\ Navigate /\ Requested(address)
        /\ lacking' = ~SameAddress(address)

(* The loop of HistoryItemNewNext, and the rest of PageWindowNavigate. *)
TruncateHistory == Truncate /\ UNCHANGED window

EnterHistory ==
  /\ LinkNewItem /\ Requested(item[newNext].address)
  /\ lacking' = FALSE
  /\ UNCHANGED bar

(* PageWindowNavigateHistory.  Its last call copies the address, which may *)
(* fail when the current item has changed.                                 *)
PageWindowNavigateHistory(direction, n) == Idle /\ Move(direction, n) /\ UNCHANGED window

WalkHistory == Walk /\ UNCHANGED window

ArriveInHistory ==
  /\ Arrive
  /\ \/ /\ Requested(item[curr].address)
        /\ bar' = item[curr].address
        /\ lacking' = FALSE
     \/ /\ lacking' = TRUE
        /\ UNCHANGED <<unanswered, bar, isLoading, uri, data, calling, begun, buttons>>

(* There may be a home page in a file. *)
PageWindowNavigateHome == \E home \in Homes : PageWindowNavigate(home)

-----------------------------------------------------------------------------
(* Responses: the callbacks of the window. *)

(* Only one provider runs at a time, and none calls after it has returned  *)
(* but that of files.                                                      *)
PageURIOnStatus ==
  /\ calling # "response" /\ OnStatus
  /\ begun' = begun + 1
  /\ calling' = IF calling = "request" THEN "response" ELSE "no"
  /\ isLoading' = TRUE
  /\ buttons' = Buttons'
  /\ UNCHANGED <<bar, uri, data, lacking>>

(* about: frees its data after its last call. *)
PageURIOnClose ==
  /\ pc = "idle" /\ calling # "request" /\ begun > 0
  /\ begun' = begun - 1
  /\ isLoading' = FALSE
  /\ data' = IF calling = "response" /\ Provider[uri] = "about" THEN Free(data) ELSE data
  /\ calling' = "no"
  /\ UNCHANGED <<vars, bar, uri, lacking>>
  /\ buttons' = Buttons'

(* http: may end without a status. *)
RequestFails ==
  /\ calling = "request" /\ Provider[uri] = "http"
  /\ NoResponse
  /\ calling' = "no"
  /\ isLoading' = FALSE
  /\ buttons' = Buttons'
  /\ UNCHANGED <<bar, uri, data, begun, lacking>>

(* A file whose request was stopped, or whose reading fails, may never     *)
(* answer, or not to the end.                                              *)
FileIsSilent ==
  /\ Idle
  /\ \/ NoResponse /\ UNCHANGED begun
     \/ begun > 0 /\ begun' = begun - 1 /\ UNCHANGED vars
  /\ UNCHANGED <<bar, isLoading, uri, data, calling, buttons, lacking>>

-----------------------------------------------------------------------------
(* Events. *)

MenuFromCurrent ==              \* mutant: the menu begins with the current item
  [prev |-> Len(Before(history)), next |-> Len(After(history))]

(* The popup menus of Back and Forward: their lengths. *)
MenuLength ==
  [prev |-> Len(Before(item[history].prev)), next |-> Len(After(item[history].next))]

PopupNavMenu ==
  /\ history # NULL
  /\ \E direction \in {"prev", "next"} :
       \E choice \in 1 .. MenuLength[direction] :
         choice <= MaxAmount /\ PageWindowNavigateHistory(direction, choice)

(* A click in the toolbar.  Between two buttons the local r has no value:  *)
(* it may be that of the last button and give its menu or its effect.      *)
(* Without a history Back and Forward read through NULL and then return,   *)
(* beep, or show a menu of what is there.                                  *)
HandleNavButtonClick ==
  \/ PageWindowNavigateHistory("prev", 1)
  \/ PageWindowNavigateHistory("next", 1)
  \/ PopupNavMenu
  \/ PageWindowNavigateHome
  \/ isLoading /\ PageWindowStop
  \/ ~isLoading /\ PageWindowNavigateHistory("prev", 0)

(* Links that are relative paths are another matter: LinkClick. *)
HandleContentClick == location # NULL /\ \E a \in Addresses : PageWindowNavigate(a)

PageWindowMouseDown ==
  \/ HandleNavButtonClick
  \/ HandleContentClick

Edit ==
  /\ Idle
  /\ bar' = "draft"
  /\ UNCHANGED <<vars, isLoading, uri, data, calling, begun, buttons, lacking>>

(* Faulty: the address of the page that is shown. *)
PutBackShown ==
  /\ Idle /\ location \in Items
  /\ bar' = item[location].address
  /\ UNCHANGED <<vars, isLoading, uri, data, calling, begun, buttons, lacking>>

(* Enter in an empty address bar puts the current address back. *)
PutBack ==
  /\ Idle
  /\ bar' = item[history].address
  /\ UNCHANGED <<vars, isLoading, uri, data, calling, begun, buttons, lacking>>

PageWindowKeyDown ==
  \/ Edit
  \/ bar = "draft" /\ history # NULL /\ PutBack
  \/ bar = "draft" /\ \E a \in Addresses : PageWindowNavigate(a)
  \/ bar \in Addresses /\ PageWindowNavigate(bar)

CloseWindow == Idle /\ ClosePageWindow /\ UNCHANGED window

(* Open is a navigation to a file; Cut and Clear edit the address bar, if  *)
(* it has the focus.                                                       *)
HandleMenu ==
  \/ \E a \in Addresses : Provider[a] = "file" /\ PageWindowNavigate(a)
  \/ CloseWindow
  \/ Edit
  \/ PageWindowNavigateHistory("prev", 1)
  \/ PageWindowNavigateHistory("next", 1)
  \/ PageWindowNavigateHome
  \/ PageWindowStop
  \/ PageWindowNavigateHistory("prev", 0)

HandleUpdateEvt ==
  /\ Idle /\ buttons = NULL
  /\ buttons' = Buttons
  /\ UNCHANGED <<vars, bar, isLoading, uri, data, calling, begun, lacking>>

(* Dragging, zooming and growing the window change nothing that is kept    *)
(* here.                                                                   *)
HandleMouseDown == HandleMenu \/ PageWindowMouseDown \/ CloseWindow

(* With Command a key stands for a menu item, as the mouse may choose it.  *)
HandleKeyDown == PageWindowKeyDown

HandleEvent == HandleMouseDown \/ HandleKeyDown \/ HandleUpdateEvt

DisposeHistory ==
  /\ DisposeNext \/ TurnBack \/ DisposePrev \/ Closed
  /\ UNCHANGED window

WindowNext ==
  \/ HandleEvent
  \/ TruncateHistory \/ EnterHistory \/ WalkHistory \/ ArriveInHistory
  \/ PageURIOnStatus \/ PageURIOnClose \/ RequestFails \/ FileIsSilent
  \/ DisposeHistory

WindowSpec == WindowInit /\ [][WindowNext]_<<vars, window>>

-----------------------------------------------------------------------------
(* Properties. *)

(* The types of the variables of the window. *)
WindowTypeOK ==
  /\ bar \in Addresses \union {"draft"}
  /\ isLoading \in BOOLEAN /\ lacking \in BOOLEAN
  /\ uri \in Addresses \union {NULL}
  /\ data \in {"none", "held", "freed", "twice", "lost"}
  /\ calling \in {"no", "request", "response"}
  /\ begun \in 0 .. MaxRequests

(* Whatever the user does and whenever responses come: the toolbar, once   *)
(* it is drawn, offers Back, Forward and Stop exactly when there is        *)
(* something to go back to, forward to or to stop, and the address bar,    *)
(* unless the user has begun to edit it, has the address of the current    *)
(* item (window.c:250, 919, 935, 1036).  Only a want of memory parts them. *)
WindowShowsHistory ==
  pc = "idle" /\ ~lacking =>
    /\ buttons \in {NULL, Buttons}
    /\ bar \in Addresses => history # NULL /\ bar = item[history].address

(* The popup menu has an item for each step that can be made: a choice is  *)
(* the number of steps, and the walk along the list never ends before them *)
(* (window.c:881, 1265-1271).                                              *)
ChoiceReached == pc = "walk" /\ item[curr][link] = NULL => left = 0

(* The data of a provider is freed once: by its close, when the window     *)
(* closes the URI at a Stop or before the next request, or by the request  *)
(* of about: itself, before any event (uri/about.c:55, 91; uri/http.c:384; *)
(* window.c:901).                                                          *)
DataFreedOnce ==
  /\ data \notin {"twice", "lost"}
  /\ uri = NULL => data # "held"
  /\ uri # NULL /\ calling = "no" => (data = "freed") = (Provider[uri] = "about")
=============================================================================
