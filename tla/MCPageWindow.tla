----------------------------- MODULE MCPageWindow -----------------------------
(***************************************************************************)
(* An instance of PageWindow for TLC: an address of each provider, and     *)
(* memory for three items.                                                 *)
(***************************************************************************)
EXTENDS PageWindow

CONSTANTS about, file, http, i1, i2, i3

MCAddresses == {about, file, http}
MCProvider == (about :> "about") @@ (file :> "file") @@ (http :> "http")
MCHomes == {about, file}
MCItems == {i1, i2, i3}
Symmetry == Permutations(MCItems)
=============================================================================
