----------------------------- MODULE MCFileLoad -----------------------------
(***************************************************************************)
(* Instances of FileLoad for TLC.                                          *)
(***************************************************************************)
EXTENDS FileLoad

CONSTANTS l1, l2, b1, b2

OneLoad == {l1}
TwoLoads == {l1, l2}
OneBlock == {b1}
TwoBlocks == {b1, b2}
AllErrors == {"fnfErr", "ioErr"}
=============================================================================
