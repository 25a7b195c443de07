------------------------------ MODULE MCTextScan ------------------------------
(***************************************************************************)
(* An instance of TextScan for TLC: the name of the field has one letter,  *)
(* which may be in upper case, a short has forty values, so that two       *)
(* digits overflow, and an address of five bytes when all are escaped;     *)
(* three digits of a port overflow.  The buffer for the address of a file  *)
(* holds some names and not others in each of the volumes.                 *)
(***************************************************************************)
EXTENDS TextScan

MCName == <<"c">>
MCToLower == [C |-> "c"]
Response == {"CR", "LF", "SP", "TAB", ":", "0", "7", "c", "C"}
Address == {" ", "#", "%", ".", "/", "1", ":", "?", "@", "[", "]", "a"}
MCAlphabets == {Response, Address}
MCMaxLength == [b \in MCAlphabets |-> IF b = Response THEN 6 ELSE 5]
MCBases == { <<"http", ":", "/", "/", "a">>,
             <<"http", ":", "/", "/", "a", ":", "1", "/", "b", "/", "1">>, <<"about", ":", "b">> }
=============================================================================
