-------------------------------- MODULE TextScan --------------------------------
(***************************************************************************)
(* A text grows byte by byte: a response that arrives, or an address that  *)
(* is typed, found in a link or picked as the name of a file.  At every    *)
(* length the functions that scan it are asked what the program asks them, *)
(* and their answers are compared with definitions that do not scan.       *)
(***************************************************************************)
EXTENDS HttpResponse, HttpUrl

CONSTANTS
  Alphabets,  \* the sets of bytes that a text may be made of
  MaxLength,  \* bound: the length of a text
  Bases       \* the addresses of pages that have links

(* Texts are strings of C, and the names of files have no NUL either.      *)
ASSUME AlphabetsAssumption == \A b \in Alphabets : "NUL" \notin b

(* The address of a page was sanitized (window.c:910), and a provider had  *)
(* the page.                                                               *)
ASSUME BasesAssumption ==
  \A b \in Bases : b \in Seq({c \in STRING : is_char_urlsafe(c)}) /\ URIGetProvider(b) # "NULL"

VARIABLES buf, bytes

Init == buf = <<>> /\ bytes \in Alphabets

Receive(byte) ==
  /\ Len(buf) < MaxLength[bytes]
  /\ buf' = Append(buf, byte) /\ UNCHANGED bytes

Next == \E byte \in bytes : Receive(byte)

Spec == Init /\ [][Next]_<<buf, bytes>>

IsAddress == bytes \subseteq Range(Bytes)

-----------------------------------------------------------------------------
(* Responses: what the scanner looks for. *)

(* The value of the digits at positions D of s, which are adjacent. *)
Value(s, D) ==
  LET power[k \in 0 .. Len(s)] == IF k = 0 THEN 1 ELSE 10 * power[k - 1]
  IN  MapThenSumSet(LAMBDA i : DigitValue[s[i]] * power[Max(D) - i], D)

(* The digits of s from position i on: those with only digits before them. *)
DigitsFrom(s, i) ==
  {j \in i .. Len(s) : \A k \in i .. j : IsDigit(s[k])}

(* The positions behind the first spaces of s. *)
AfterSpaces(s) ==
  {i \in 2 .. Len(s) : /\ s[i] # "SP" /\ s[i - 1] = "SP"
                       /\ \A j, k \in 1 .. i - 1 : j < k /\ s[j] = "SP" => s[k] = "SP"}

StatusCode(s) ==
  LET v == Value(s, UNION {DigitsFrom(s, i) : i \in AfterSpaces(s)})
  IN  CHOOSE n \in -(ShortMax + 1) .. ShortMax : (v - n) % (2 * (ShortMax + 1)) = 0

(* A field: where its line begins, and the first colon in the line.        *)
HeaderFields(s) ==
  {f \in (DOMAIN s) \X (DOMAIN s) :
     /\ f[1] <= f[2] /\ s[f[2]] = ":"
     /\ f[1] = 1 \/ s[f[1] - 1] \in Breaks
     /\ \A k \in f[1] .. f[2] - 1 : s[k] \notin Breaks \union {":"}}

LengthFields(s) ==
  {f \in HeaderFields(s) :
     [k \in 1 .. f[2] - f[1] |-> Lower(s[f[1] + k - 1])] = Name}

ContentLength(s) ==
  IF LengthFields(s) = {} THEN -1
  ELSE LET colon == Min({f[2] : f \in LengthFields(s)})
           first == {i \in colon + 1 .. Len(s) :
                       IsDigit(s[i]) /\ \A k \in colon + 1 .. i - 1 : s[k] \in Blanks}
       IN  Value(s, UNION {DigitsFrom(s, i) : i \in first})

-----------------------------------------------------------------------------
(* Addresses: what a URL is.  Each part of it is cut at the first of the   *)
(* bytes that may follow it.                                               *)

Cut(s, S)   == SubSeq(s, 1, From(s, 1, S) - 1)
Rest(s, S)  == SubSeq(s, From(s, 1, S), Len(s))
Over(s, S)  == \A i \in DOMAIN s : s[i] \in S

(* [ userinfo @ ] host [ : port ], where the host may be an address in     *)
(* brackets.                                                               *)
Hosts(s) ==
  LET name  == Cut(s, {":"})
      inner == Cut(Tail(s), {"]"})
      after == IF Head(s) = "[" THEN Tail(Rest(s, {"]"})) ELSE Rest(s, {":"})
      zone  == Rest(inner, {"%"})
      fits  == IF Head(s) # "[" THEN name # <<>> /\ Over(name, HostChar)
               ELSE /\ Has(s, "]") /\ Cut(inner, {"%"}) # <<>>
                    /\ Over(Cut(inner, {"%"}), HexChar \union {":", "."})
                    /\ zone # <<>> => Len(zone) > 1 /\ Over(Tail(zone), ZoneChar)
      port  == SubSeq(after, 2, Len(after))
  IN  IF s # <<>> /\ fits /\ (after # <<>> => after[1] = ":" /\ port # <<>> /\ Over(port, Decimal))
         /\ Port(port) <= MaxPort
      THEN {[host |-> IF Head(s) = "[" THEN inner ELSE name,
             port |-> IF Port(port) = 0 THEN 80 ELSE Port(port)]}
      ELSE {}

Authorities(s) ==
  IF ~Has(s, "@") THEN Hosts(s)
  ELSE IF Over(Cut(s, {"@"}), UserinfoChar) THEN Hosts(Tail(Rest(s, {"@"}))) ELSE {}

(* What is behind http:// in a URL that can be requested. *)
HttpUrls(s) ==
  LET tail  == Rest(s, {"/", "?"})
      query == Rest(Cut(tail, {"#"}), {"?"})
      path  == Cut(tail, {"?", "#"})
  IN  {[host |-> a.host, port |-> a.port,
        path |-> (IF path = <<>> THEN <<"/">> ELSE path) \o IF Len(query) > 1 THEN query ELSE <<>>] :
       a \in {b \in Authorities(Cut(s, {"/", "?"})) :
                Over(tail, UrlChar \union {"?", "#"})}}

(* The segments of a path that are left when each .. has taken the one     *)
(* before it along: kept[n] of those that end in front of position n.      *)
Resolved(path) ==
  LET begin(n) == Max({0} \union {i \in 1 .. n - 1 : path[i] = "/"}) + 1
      left(before, seg) ==
        CASE seg \in {<<>>, <<".">>} -> before
          [] seg = <<".", ".">>      -> IF before = <<>> THEN before ELSE Front(before)
          [] OTHER                   -> Append(before, seg)
      kept[n \in 0 .. Len(path) + 1] ==
        IF n = 0 THEN <<>>
        ELSE IF n <= Len(path) /\ path[n] # "/" THEN kept[n - 1]
        ELSE left(kept[n - 1], SubSeq(path, begin(n), n - 1))
  IN  kept[Len(path) + 1]

Joined(segments) == FlattenSeq([k \in DOMAIN segments |-> <<"/">> \o segments[k]])

(* The buffer of NormalizeUrlPath when all of the path is behind it. *)
Normalized(path) ==
  LET z[n \in 0 .. Len(path) + 1] ==
        IF n = 0 THEN [i |-> 1, out |-> <<>>] ELSE NormalizeSegment(path, z[n - 1])
  IN  z[Len(path) + 1].out

-----------------------------------------------------------------------------
(* Properties. *)

(* The scanner finds the end of the header where it is, in whatever way    *)
(* lines are broken and whatever comes before it (http_response.c:4).      *)
HeaderEndFound == HTTPFindHeaderEnd(buf) = HeaderEnd(buf)

(* The status is the number behind the first spaces, as a short, and the   *)
(* length that of the first field with its name, in upper or lower case    *)
(* (http_response.c:25, 55).                                               *)
FindsFields ==
  ~IsAddress =>
  /\ HTTPParseStatusCode(buf) = StatusCode(buf)
  /\ HTTPParseContentLength(buf) = ContentLength(buf)

(* What was found to be the header remains so when more of the response    *)
(* arrives, but for an LF that the CR at its end was waiting for: the      *)
(* fetch loop scans a prefix and never again (uri/http.c:275).             *)
HeaderEndStays ==
  [][HTTPFindHeaderEnd(buf) # -1 =>
       \/ HTTPFindHeaderEnd(buf') = HTTPFindHeaderEnd(buf)
       \/ /\ HTTPFindHeaderEnd(buf) = Len(buf) /\ Last(buf) = "CR" /\ Last(buf') = "LF"
          /\ HTTPFindHeaderEnd(buf') = Len(buf')]_buf

(* HTTPProviderInit takes the host, port and path of exactly the texts     *)
(* that are URLs (uri/http.c:327, http_parser.c:2423).                     *)
SplitsUrl == IsAddress => HTTPProviderInit(DefaultScheme \o buf) = HttpUrls(buf)

(* An address that was sanitized stays as it is when it is sanitized       *)
(* again, as Back, Forward and Refresh do with the one in the history, and *)
(* no byte is lost; what is allocated for it is its length exactly when    *)
(* that is a short (utils.c:289).                                          *)
SanitizeStable ==
  IsAddress =>
  LET s == url_sanitize(buf)
  IN  /\ url_sanitize(s) = s
      /\ SanitizedSize(buf) = Len(s) + 1 <=> Len(s) + 1 <= ShortMax
      /\ ~Has(buf, "%") => url_decode(s) = (IF Has(buf, ":") THEN <<>> ELSE DefaultScheme) \o buf

(* The file that was picked in the dialog of Open is the file that the     *)
(* stream opens, two exchanges of colon and slash, an encoding, a          *)
(* sanitizing and a decoding later, as long as its address fits in the     *)
(* buffer it is put together in: a name with a byte or more left over, of  *)
(* which those that are escaped take three (window.c:1125, 1156,           *)
(* uri/file.c:64-80).  There is a byte for the length of its name, and the *)
(* length fits in it.                                                      *)
Volumes == { << <<"a">> >>, << <<"%">>, <<"/">> >> }
OpensPickedFile ==
  IsAddress /\ buf # <<>> /\ ~Has(buf, ":") =>
    \A dirs \in Volumes :
      LET path    == MacPath(dirs, buf)
          escaped == {i \in DOMAIN path : path[i] \notin Unreserved \union {":"}}
          picked  == PageWindowOpenFile(dirs, buf)
          f       == FileProviderInit(url_sanitize(picked.uri))
      IN  /\ picked.overrun <=> Len(path) + 2 * Cardinality(escaped) + 6 > UriSize
          /\ ~picked.overrun => f.name = path /\ f.room >= 1

(* A link without a host of its own stays at that of the page and with its *)
(* provider; only the fragment of a page without a path is no URL          *)
(* (window.c:635).  What NormalizeUrlPath collects for the others fits in  *)
(* its buffer and is the path without its dot segments, perhaps with a     *)
(* slash behind it (window.c:563).                                         *)
LinksStay ==
  \A base \in Bases :
    IsAddress /\ buf # <<>> /\ FindSchemeEnd(buf) = 0 /\ ~BeginsWith(buf, <<"/", "/">>) =>
      IF NeedsPath(base, buf)
      THEN LET path == PathToNormalize(base, buf)
               kept == Joined(Resolved(path))
               out  == Normalized(path)
           IN  Len(out) <= Len(path) + 1 /\ out \in {kept, Append(kept, "/")}
      ELSE LET page == HTTPProviderInit(base)
               to   == url_sanitize(ResolveLinkHref(base, buf))
               link == HTTPProviderInit(to)
           IN  /\ URIGetProvider(to) = URIGetProvider(base)
               /\ \A p \in page, l \in link : l.host = p.host /\ l.port = p.port
               /\ page # {} /\ link = {} => buf[1] = "#" /\ FindAuthorityEnd(base) > Len(base)
=============================================================================
