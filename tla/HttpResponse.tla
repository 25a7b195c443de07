----------------------------- MODULE HttpResponse -----------------------------
(***************************************************************************)
(* The scanner of HTTP responses (http_response.c), which sees a response  *)
(* as the bytes received so far.                                           *)
(*                                                                         *)
(* A byte is a string.  "CR", "LF", "SP", "TAB" and ":" are those bytes,   *)
(* "0" to "9" the digits, and "HTTP/" stands for the five bytes a response *)
(* begins with.  The name Content-Length is the sequence Name of           *)
(* lower-case letters.  A header is longer than the bytes that matter here *)
(* by text that the scanner skips.                                         *)
(***************************************************************************)
EXTENDS CTypes, SequencesExt

CONSTANTS
  Name,       \* "content-length"
  ToLower     \* the letters that are written in upper case: their lower case

ASSUME NameAssumption == Name \in Seq(STRING)

Digits == {"0", "1", "2", "3", "4", "5", "6", "7", "8", "9"}
DigitValue == [d \in Digits |->
  CHOOSE n \in 0 .. 9 : <<"0", "1", "2", "3", "4", "5", "6", "7", "8", "9">>[n + 1] = d]
Breaks == {"CR", "LF"}
Blanks == {"SP", "TAB"}

(* The first position from i on whose byte is not skipped, or the one      *)
(* after the last.                                                         *)
Skip(buf, i, Skipped(_)) ==
  Min({j \in i .. Len(buf) : ~Skipped(buf[j])} \union {Len(buf) + 1})

IsDigit(c) == c \in Digits
Number(digits, Convert(_)) ==
  LET value[n \in 0 .. Len(digits)] ==
        IF n = 0 THEN 0 ELSE Convert(10 * value[n - 1] + DigitValue[digits[n]])
  IN  value[Len(digits)]

-----------------------------------------------------------------------------
(* Faulty: it goes on to the last empty line. *)
FindLastHeaderEnd(buf) ==
  LET from[i \in Nat, lineBreaks \in 0 .. 1, found \in Int] ==
        IF i > Len(buf) THEN found
        ELSE IF buf[i] \notin Breaks THEN from[i + 1, 0, found]
        ELSE LET last == IF buf[i] = "CR" /\ i < Len(buf) /\ buf[i + 1] = "LF"
                           THEN i + 1 ELSE i
             IN  from[last + 1, 1, IF lineBreaks = 1 THEN last ELSE found]
  IN from[1, 0, -1]

(* The length of the header: up to the second of two line breaks with      *)
(* nothing between them.                                                   *)
HTTPFindHeaderEnd(buf) ==
  LET from[i \in Nat] == [lineBreaks \in 0 .. 1 |->
        IF i > Len(buf) THEN -1
        ELSE IF buf[i] \notin Breaks THEN from[i + 1][0]
        ELSE LET last == IF buf[i] = "CR" /\ i < Len(buf) /\ buf[i + 1] = "LF"
                           THEN i + 1 ELSE i
             IN  IF lineBreaks = 1 THEN last ELSE from[last + 1][1]]
  IN from[1][0]

(* Where the header ends, without scanning.                                *)

(* A line break from i to j: CR LF, or either alone. *)
IsBreak(s, i, j) ==
  \/ j = i + 1 /\ s[i] = "CR" /\ s[j] = "LF"
  \/ j = i /\ s[i] = "CR" /\ ~(i < Len(s) /\ s[i + 1] = "LF")
  \/ j = i /\ s[i] = "LF" /\ ~(i > 1 /\ s[i - 1] = "CR")

EndsLine(s, j) == s[j] \in Breaks /\ ~(s[j] = "CR" /\ j < Len(s) /\ s[j + 1] = "LF")

(* The ends of the empty lines: a line break behind the end of a line.     *)
EmptyLines(s) ==
  {end \in DOMAIN s :
     \E i \in (1 .. end) \ {1} : i >= end - 1 /\ IsBreak(s, i, end) /\ EndsLine(s, i - 1)}

HeaderEnd(s) ==
  LET first == {end \in EmptyLines(s) : \A e \in EmptyLines(s) : end <= e}
  IN  IF first = {} THEN -1 ELSE CHOOSE end \in first : TRUE

(* Faulty: one space is expected. *)
ParseStatusOneSpace(header) ==
  LET space == Skip(header, 1, LAMBDA c : c # "SP")
      first == IF space > Len(header) THEN space ELSE space + 1
  IN  Number(SubSeq(header, first, Skip(header, first, IsDigit) - 1), Short)

(* The number after the first spaces. *)
HTTPParseStatusCode(header) ==
  LET space == Skip(header, 1, LAMBDA c : c # "SP")
      first == Skip(header, space, LAMBDA c : c = "SP")
  IN  Number(SubSeq(header, first, Skip(header, first, IsDigit) - 1), Short)

Lower(c) == IF c \in DOMAIN ToLower THEN ToLower[c] ELSE c

HeaderNameEquals(field) ==
  /\ \A i \in DOMAIN field : i <= Len(Name) /\ Lower(field[i]) = Name[i]
  /\ Len(field) = Len(Name)

(* The value of the first line whose field, up to a colon, has the name.   *)
(* A length too large for a long has no defined value in C and none here.  *)
HTTPParseContentLength(header) ==
  LET from[line \in Nat] ==
        IF line > Len(header) THEN -1
        ELSE LET lineEnd == Skip(header, line, LAMBDA c : c \notin Breaks)
                 text == SubSeq(header, line, lineEnd - 1)
                 colon == Skip(text, 1, LAMBDA c : c # ":")
                 value == Skip(text, colon + 1, LAMBDA c : c \in Blanks)
             IN  IF colon <= Len(text) /\ HeaderNameEquals(SubSeq(text, 1, colon - 1))
                 THEN Number(SubSeq(text, value, Skip(text, value, IsDigit) - 1),
                             LAMBDA n : n)
                 ELSE from[Skip(header, lineEnd, LAMBDA c : c \in Breaks)]
  IN from[1]

HTTPLooksLikeResponse(buf) == buf # <<>> /\ Head(buf) = "HTTP/"

(* How many of the bytes that were read belong to the body. *)
HTTPClipBodyBytes(contentLength, bodyBytesRead, bytesRead) ==
  IF contentLength < 0 THEN bytesRead
  ELSE IF contentLength <= bodyBytesRead THEN 0
  ELSE IF bytesRead > contentLength - bodyBytesRead THEN contentLength - bodyBytesRead
  ELSE bytesRead
=============================================================================
