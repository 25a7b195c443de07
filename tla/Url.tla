---------------------------------- MODULE Url ----------------------------------
(*****************************************************************************)
(* What becomes of an address on its way from the user, a file dialog or a   *)
(* link to a provider: utils.c, the functions of window.c that resolve       *)
(* links, uri.c, the conversion of paths in uri/file.c, HTTPProviderInit     *)
(* and the URL splitter of http-parser that it calls.                        *)
(*                                                                           *)
(* A byte is a string.  Bytes gives each its code, with the digits of a base *)
(* of four in the place of sixteen: two decimal digits and two letters.  The *)
(* words of Words are letters in a row that are only compared as a whole.    *)
(*****************************************************************************)
EXTENDS CTypes, SequencesExt

CONSTANTS
  MaxPort,   \* 0xffff
  ByteMax,   \* the greatest length of a Pascal string, 0xff
  UriSize    \* the buffer for the address of a file, 256: "file" is one byte here

ASSUME PortAssumption == MaxPort \in Nat
ASSUME UriAssumption == ByteMax \in Nat /\ UriSize \in 1..ByteMax + 1 /\ UriSize <= ShortMax

Bytes  == <<"NUL", " ", "#", "%", "-", ".", "/", "0", "1", ":", "?", "@", "[", "]", "a", "b">>
Hex    == <<"0", "1", "a", "b">>
HexDigits == {Hex[i] : i \in DOMAIN Hex}
Decimal == {"0", "1"}
Words  == {"about", "file", "http"}
Alpha  == {"a", "b"} \cup Words
Alnum  == Alpha \cup Decimal

Code(c) == (CHOOSE i \in DOMAIN Bytes : Bytes[i] = c) - 1
Chr(n)  == Bytes[(n % Len(Bytes)) + 1]

\* The first position from i on whose byte is in S, or the end.
From(s, i, S)  == SelectInSubSeq(Append(s, "NUL"), i, Len(s) + 1, LAMBDA c : c \in S \cup {"NUL"})
Has(s, c)      == \E i \in DOMAIN s : s[i] = c
BeginsWith(s, prefix) == IsPrefix(prefix, s)

-----------------------------------------------------------------------------
(* utils.c *)

from_hex(c) == IF c \in Decimal THEN Code(c) - Code("0")
               ELSE Code(c) - Code("a") + Cardinality(Decimal)
Escape(c)   == <<"%", Hex[(Code(c) \div Len(Hex)) + 1], Hex[(Code(c) % Len(Hex)) + 1]>>

Unreserved == Alnum \cup {"-", "_", ".", "~"}

EncodeLess(str) ==              \* mutant: the escape character is not escaped
  FlattenSeq([i \in DOMAIN str |-> IF str[i] \in Unreserved \cup {"/", "%"} THEN <<str[i]>>
                                   ELSE Escape(str[i])])

url_encode(str) ==
  FlattenSeq([i \in DOMAIN str |-> IF str[i] \in Unreserved \cup {"/"} THEN <<str[i]>>
                                   ELSE Escape(str[i])])

\* The bits of x and those of y, of which a byte has four here.
Or(x, y) ==
  LET bit(k) == IF (x \div k) % 2 = 1 \/ (y \div k) % 2 = 1 THEN k ELSE 0
  IN bit(1) + bit(2) + bit(4) + bit(8)

\* A percent sign with less than two bytes behind it is left out, and they stay.
url_decode(str) ==
  LET n == Len(Bytes)
      from[i \in 1..Len(str) + 3] ==
        IF i > Len(str) THEN <<>>
        ELSE IF str[i] # "%" THEN <<str[i]>> \o from[i + 1]
        ELSE IF i + 2 > Len(str) THEN from[i + 1]
        ELSE <<Chr(Or((Len(Hex) * from_hex(str[i + 1])) % n, from_hex(str[i + 2]) % n))>>
               \o from[i + 3]
  IN from[1]

is_char_urlsafe(c) == c \in Unreserved \cup {":", "/", "?", "&", "=", "%", ";"}
DefaultScheme == <<"http", ":", "/", "/">>

SanitizePercent(str) ==         \* mutant: what is escaped is escaped again
  (IF Has(str, ":") THEN <<>> ELSE DefaultScheme) \o
  FlattenSeq([i \in DOMAIN str |-> IF is_char_urlsafe(str[i]) /\ str[i] # "%" THEN <<str[i]>>
                                   ELSE Escape(str[i])])

\* What it makes, if the memory it asked for is enough.
url_sanitize(str) ==
  (IF Has(str, ":") THEN <<>> ELSE DefaultScheme) \o
  FlattenSeq([i \in DOMAIN str |-> IF is_char_urlsafe(str[i]) THEN <<str[i]>> ELSE Escape(str[i])])

\* The bytes url_sanitize asks malloc for.
SanitizedSize(str) ==
  Short(Len(str) + 1 + 2 * Cardinality({i \in DOMAIN str : ~ is_char_urlsafe(str[i])})
          + (IF Has(str, ":") THEN 0 ELSE Len(DefaultScheme)))

\* A Mac path has colons where a URL has slashes, and may have slashes in names.
Exchange(path) ==
  [i \in DOMAIN path |-> IF path[i] = "/" THEN ":" ELSE IF path[i] = ":" THEN "/" ELSE path[i]]

\* The path of a file, its directories from the innermost to the volume.
MacPath(dirs, fName) == FlattenSeq([i \in DOMAIN dirs |-> Append(Reverse(dirs)[i], ":")]) \o fName
GetFilePathName(dirs, fName) == Exchange(MacPath(dirs, fName))

-----------------------------------------------------------------------------
(* uri.c, uri/file.c, and Open in the file menu *)

URIGetProvider(uri) ==
  IF \E w \in Words : BeginsWith(uri, <<w, ":">>) THEN Head(uri) ELSE "NULL"

\* The address is appended to the five bytes that are in uri.  The bound of strncat
\* is the size of uri and not of what is left of it, with the NUL.
PageWindowOpenFile(dirs, fName) ==
  LET encoded == url_encode(GetFilePathName(dirs, fName))
      copied  == IF Len(encoded) > UriSize THEN SubSeq(encoded, 1, UriSize) ELSE encoded
      uri     == <<"file", ":", "/", "/", "/">> \o copied
  IN [uri |-> uri, overrun |-> Len(uri) + 1 > UriSize]

\* The name FileProviderInit gives the file stream: as much of it as its length says,
\* which takes the place of the byte before the path: without a slash there is none.
FileProviderInit(uri) ==
  LET decoded == url_decode(SubSeq(uri, 3, Len(uri)))
      path    == SubSeq(decoded, 1, From(decoded, 1, {}) - 1)
      start   == SelectInSubSeq(Append(path, "NUL"), 1, Len(path) + 1, LAMBDA c : c # "/")
      length  == Byte(Len(path) + 1 - start, ByteMax)
  IN [room |-> start - 1, name |-> Exchange(SubSeq(path, start, start + length - 1))]

-----------------------------------------------------------------------------
(* Links (window.c).  Positions count from 1, and 0 is for -1. *)

FindSchemeEnd(uri) ==
  LET i == SelectInSubSeq(Append(uri, "NUL"), 2, Len(uri) + 1,
                          LAMBDA c : c \notin Alnum \cup {"+", "-", "."})
  IN IF uri # <<>> /\ uri[1] \in Alpha /\ i <= Len(uri) /\ uri[i] = ":" THEN i ELSE 0

\* The position behind the authority.
FindAuthorityEnd(uri) ==
  LET s == FindSchemeEnd(uri)
  IN IF s = 0 THEN 1
     ELSE IF BeginsWith(SubSeq(uri, s + 1, Len(uri)), <<"/", "/">>) THEN From(uri, s + 3, {"/", "?", "#"})
     ELSE s + 1

DropByte(out) ==                \* mutant: only the slash behind the segment goes
  IF Len(out) > 1 THEN Front(out) ELSE <<"/">>

\* A .. takes the last segment along, up to the slash before it.
Drop(out) ==
  LET cut == CHOOSE n \in 0..Len(out) - 1 :
               /\ n = 0 \/ out[n] = "/"
               /\ \A m \in n + 1..Len(out) - 1 : out[m] # "/"
      rest == IF Len(out) > 1 THEN SubSeq(out, 1, cut) ELSE out
  IN IF rest = <<>> THEN <<"/">> ELSE rest

\* One turn of the loop of NormalizeUrlPath, on the segment at z.i.
NormalizeSegment(path, z) ==
  LET e   == From(path, z.i, {"/"})
      seg == SubSeq(path, z.i, e - 1)
      sep == IF z.out = <<>> \/ z.out[Len(z.out)] # "/" THEN Append(z.out, "/") ELSE z.out
  IN [i   |-> IF e <= Len(path) THEN e + 1 ELSE e,
      out |-> CASE seg = <<>>       -> IF z.out = <<>> THEN <<"/">> ELSE z.out
                [] seg = <<".">>    -> z.out
                [] seg = <<".", ".">> -> IF z.out = <<>> THEN <<"/">> ELSE Drop(z.out)
                [] OTHER            -> sep \o seg]

\* What PathDirectoryJoin normalises.
PathToNormalize(base, href) ==
  LET path == SubSeq(base, FindAuthorityEnd(base), Len(base))
      cut  == SelectLastInSeq(path, LAMBDA c : c = "/")
  IN (IF cut = 0 THEN <<"/">> ELSE SubSeq(path, 1, cut)) \o href

\* ResolveLinkHref for the links that need no normal path; "loop" for the others.
NeedsPath(base, href) ==
  /\ FindSchemeEnd(href) = 0 /\ FindSchemeEnd(base) # 0
  /\ href # <<>> /\ href[1] \notin {"#", "?", "/"}

ResolveLinkHref(base, href) ==
  LET s == FindSchemeEnd(base)
  IN CASE FindSchemeEnd(href) # 0 \/ s = 0 -> url_sanitize(href)
       [] s # 0 /\ href[1] \in {"#", "?"}  -> base \o href
       [] s # 0 /\ BeginsWith(href, <<"/", "/">>) -> SubSeq(base, 1, s) \o href
       [] OTHER                            -> SubSeq(base, 1, FindAuthorityEnd(base) - 1) \o href
=============================================================================
