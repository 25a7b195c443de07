---------------------------- MODULE BrowserHistory ----------------------------
(***************************************************************************)
(* What the Back and Forward buttons of a window promise: a sequence of    *)
(* the addresses visited, with a cursor on the current one.  PageHistory   *)
(* implements this specification with linked items.                        *)
(***************************************************************************)
EXTENDS Naturals, SequencesExt

CONSTANT Addresses

VARIABLES
  entries,  \* the addresses visited, oldest first
  cursor    \* the current one, 0 if there is none

vars == <<entries, cursor>>

Init == entries = <<>> /\ cursor = 0

(* A new address takes the place of everything forward of the current one. *)
Visit(a) ==
  /\ cursor # 0 => entries[cursor] # a
  /\ entries' = Append(SubSeq(entries, 1, cursor), a)
  /\ cursor' = cursor + 1

Back(n) ==
  /\ cursor # 0
  /\ cursor' = IF n < cursor THEN cursor - n ELSE 1
  /\ UNCHANGED entries

Forward(n) ==
  /\ cursor # 0
  /\ cursor' = IF cursor + n < Len(entries) THEN cursor + n ELSE Len(entries)
  /\ UNCHANGED entries

(* The window is closed. *)
Forget ==
  /\ entries' = <<>>
  /\ cursor' = 0

Next ==
  \/ \E a \in Addresses : Visit(a)
  \/ \E n \in 1 .. Len(entries) : Back(n) \/ Forward(n)
  \/ Forget

Spec == Init /\ [][Next]_vars
=============================================================================
