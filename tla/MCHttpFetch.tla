----------------------------- MODULE MCHttpFetch -----------------------------
(***************************************************************************)
(* Instances of HttpFetch for TLC.  The responses differ in how lines are  *)
(* broken, in the declared length (none, less than the body, more, zero),  *)
(* in what the body holds, and in whether there is a header at all.        *)
(***************************************************************************)
EXTENDS HttpFetch

CONSTANTS h1, h2, h3

MCName == <<"c">>
MCToLower == [C |-> "c"]
MCHosts == {h1, h2, h3}
MCDotted == {h3}

Plain == <<"HTTP/", "SP", "2", "LF", "LF">>
Sized(n) == <<"C", ":", n, "CR", "LF", "CR", "LF">>

MCResponses == {
  Sized("2") \o <<"x", "x", "x">>,
  Sized("3") \o <<"x", "LF", "LF">>,
  Sized("3") \o <<"x", "x">>,
  Sized("0") \o <<"x">>,
  Plain \o <<"x", "x", "x", "x">>,
  Plain \o <<"HTTP/", "CR", "CR", "x">>,
  <<"CR", "LF", "x", "x">>,
  <<"x", "x", "x", "x", "x", "x", "x", "x", "x">>}
=============================================================================
