------------------------------ MODULE MCLinkClick ------------------------------
(***************************************************************************)
(* An instance of LinkClick for TLC: the home page, a page in a directory, *)
(* and the kinds of links.                                                 *)
(***************************************************************************)
EXTENDS LinkClick

MCPages == { <<"about", ":", "a">>,
             <<"http", ":", "/", "/", "a", "/", "b", "/", "1">> }
MCLinks == { <<"b">>, <<".", ".", "/", "b">>, <<"/", "b">>, <<"?", "b">>, <<"http", ":", "b">> }
=============================================================================
