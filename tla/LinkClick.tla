------------------------------- MODULE LinkClick -------------------------------
(***************************************************************************)
(* A link on a page is clicked: HandleContentClick resolves it against the *)
(* address of the page and navigates to the result (window.c).  A link     *)
(* that is a path relative to that of the page takes the loop of           *)
(* NormalizeUrlPath, which is modelled turn by turn: the event loop waits  *)
(* for it.                                                                 *)
(***************************************************************************)
EXTENDS Url

CONSTANTS
  Pages,   \* the addresses of pages
  Links    \* what the links on them refer to

VARIABLES
  pc,      \* "shown", "normalize" and "navigate"
  path,    \* the path and the link after it, as they are normalised
  z        \* the position in the path, and the normal path so far

vars == <<pc, path, z>>

Begin == [i |-> 1, out |-> <<>>]

Init == pc = "shown" /\ path = <<>> /\ z = Begin

HandleContentClick(page, link) ==
  /\ pc = "shown"
  /\ link # <<>>
  /\ IF NeedsPath(page, link)
       THEN pc' = "normalize" /\ path' = PathToNormalize(page, link)
       ELSE pc' = "navigate"  /\ path' = ResolveLinkHref(page, link)
  /\ z' = Begin

(* One turn of the loop, which the position past the end still enters.     *)
NormalizeUrlPath ==
  /\ pc = "normalize" /\ z.i <= Len(path) + 1
  /\ z' = NormalizeSegment(path, z)
  /\ UNCHANGED <<pc, path>>

Normalized ==
  /\ pc = "normalize" /\ z.i > Len(path) + 1
  /\ pc' = "navigate" /\ path' = z.out
  /\ UNCHANGED z

PageWindowNavigate ==
  /\ pc = "navigate"
  /\ pc' = "shown" /\ path' = <<>>
  /\ UNCHANGED z

Next ==
  \/ \E page \in Pages, link \in Links : HandleContentClick(page, link)
  \/ NormalizeUrlPath \/ Normalized \/ PageWindowNavigate

(* The machine runs on.  Nobody has to click. *)
Fairness == WF_vars(NormalizeUrlPath \/ Normalized \/ PageWindowNavigate)

Spec == Init /\ [][Next]_vars /\ Fairness

-----------------------------------------------------------------------------
(* A link that was clicked is followed.                                    *)
(* test.html:38: "Link to Home Page", window.c:502.                        *)
LinkIsFollowed == pc = "normalize" ~> pc = "navigate"
=============================================================================
