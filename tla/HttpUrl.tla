-------------------------------- MODULE HttpUrl --------------------------------
(*****************************************************************************)
(* HTTPProviderInit (uri/http.c) and the URL splitter it calls               *)
(* (http_parser_parse_url): two automata, one for the whole URL and one for  *)
(* the authority, that note where each field begins and how long it is.      *)
(*****************************************************************************)
EXTENDS Url

Mark         == {"-", "_", ".", "!", "~", "*", "'", "(", ")"}
UserinfoChar == Alnum \cup Mark \cup {"%", ";", ":", "&", "=", "+", "$", ","}
HostChar     == Alnum \cup {".", "-"}
HexChar      == Decimal \cup {"a", "b"}
ZoneChar     == Alnum \cup {"%", ".", "-", "_", "~"}
UrlChar      == (UserinfoChar \cup {"/", "@", "[", "]"})       \* normal_url_char

parse_url_char(s, ch) ==
  CASE s = "s_req_spaces_before_url" /\ ch \in {"/", "*"} -> "s_req_path"
    [] s = "s_req_spaces_before_url" /\ ch \in Alpha      -> "s_req_schema"
    [] s = "s_req_schema" /\ ch \in Alpha                 -> s
    [] s = "s_req_schema" /\ ch = ":"                     -> "s_req_schema_slash"
    [] s = "s_req_schema_slash" /\ ch = "/"               -> "s_req_schema_slash_slash"
    [] s = "s_req_schema_slash_slash" /\ ch = "/"         -> "s_req_server_start"
    [] s \in {"s_req_server_with_at", "s_req_server_start", "s_req_server"} ->
         CASE ch = "/" -> "s_req_path"
           [] ch = "?" -> "s_req_query_string_start"
           [] ch = "@" -> IF s = "s_req_server_with_at" THEN "s_dead" ELSE "s_req_server_with_at"
           [] ch \in UserinfoChar \cup {"[", "]"} -> "s_req_server"
           [] OTHER    -> "s_dead"
    [] s = "s_req_path" /\ ch \in UrlChar                 -> s
    [] s = "s_req_path" /\ ch = "?"                       -> "s_req_query_string_start"
    [] s \in {"s_req_query_string_start", "s_req_query_string"} /\ ch \in UrlChar \cup {"?"} ->
         "s_req_query_string"
    [] s \in {"s_req_path", "s_req_query_string_start", "s_req_query_string"} /\ ch = "#" ->
         "s_req_fragment_start"
    [] s = "s_req_fragment_start" /\ ch \in UrlChar \cup {"?"} -> "s_req_fragment"
    [] s = "s_req_fragment_start" /\ ch = "#"             -> s
    [] s = "s_req_fragment" /\ ch \in UrlChar \cup {"?", "#"} -> s
    [] OTHER -> "s_dead"

\* The field that a state belongs to; the states that skip a delimiter have none.
FieldOf == [s_req_schema |-> "schema", s_req_server |-> "host", s_req_server_with_at |-> "host",
            s_req_path |-> "path", s_req_query_string |-> "query", s_req_fragment |-> "fragment"]

PortAnywhere(s, ch) ==          \* mutant: the state of the port is entered without its colon
  CASE s \in {"s_http_userinfo", "s_http_userinfo_start"} /\ ch = "@" -> "s_http_host_start"
    [] s \in {"s_http_userinfo", "s_http_userinfo_start"} /\ ch \in UserinfoChar -> "s_http_userinfo"
    [] s \in {"s_http_host_start", "s_http_host"} /\ ch \in HostChar -> "s_http_host"
    [] s = "s_http_host" /\ ch = ":" -> "s_http_host_port"
    [] s = "s_http_host_port" /\ ch \in Decimal -> "s_http_host_port"
    [] OTHER -> "s_http_host_dead"

http_parse_host_char(s, ch) ==
  CASE s \in {"s_http_userinfo", "s_http_userinfo_start"} /\ ch = "@" -> "s_http_host_start"
    [] s \in {"s_http_userinfo", "s_http_userinfo_start"} /\ ch \in UserinfoChar -> "s_http_userinfo"
    [] s = "s_http_host_start" /\ ch = "[" -> "s_http_host_v6_start"
    [] s \in {"s_http_host_start", "s_http_host"} /\ ch \in HostChar -> "s_http_host"
    [] s \in {"s_http_host", "s_http_host_v6_end"} /\ ch = ":" -> "s_http_host_port_start"
    [] s \in {"s_http_host_v6", "s_http_host_v6_zone"} /\ ch = "]" -> "s_http_host_v6_end"
    [] s \in {"s_http_host_v6", "s_http_host_v6_start"} /\ ch \in HexChar \cup {":", "."} ->
         "s_http_host_v6"
    [] s = "s_http_host_v6" /\ ch = "%" -> "s_http_host_v6_zone_start"
    [] s \in {"s_http_host_v6_zone", "s_http_host_v6_zone_start"} /\ ch \in ZoneChar ->
         "s_http_host_v6_zone"
    [] s \in {"s_http_host_port", "s_http_host_port_start"} /\ ch \in Decimal -> "s_http_host_port"
    [] OTHER -> "s_http_host_dead"

\* A field that is not set has the length 0.
NoField == [off |-> 0, len |-> 0]
Fields(names) == [f \in names |-> NoField]
Field(buf, f) == SubSeq(buf, f.off, f.off + f.len - 1)

\* One more byte of field f at position p, or its first.
Extend(fields, f, p, first) ==
  [fields EXCEPT ![f] = [off |-> IF first THEN p ELSE @.off, len |-> IF first THEN 1 ELSE @.len + 1]]

\* http_parse_host, on the bytes of the authority; "dead" ends in s_http_host_dead.
HostStep(buf, z, p) ==
  LET new   == http_parse_host_char(z.s, buf[p])
      first == new # z.s
      u     == z.u
  IN [s |-> new,
      u |-> CASE new \in {"s_http_host", "s_http_host_v6"} ->
                   [u EXCEPT !.host = [off |-> IF first THEN p ELSE @.off, len |-> @.len + 1]]
              [] new \in {"s_http_host_v6_zone_start", "s_http_host_v6_zone"} ->
                   [u EXCEPT !.host.len = @ + 1]
              [] new = "s_http_host_port" -> Extend(u, "port", p, first)
              [] new = "s_http_userinfo"  -> Extend(u, "userinfo", p, first)
              [] OTHER -> u]

Unfinished == {"s_http_host_start", "s_http_host_v6_start", "s_http_host_v6", "s_http_host_v6_zone_start",
               "s_http_host_v6_zone", "s_http_host_port_start", "s_http_userinfo",
               "s_http_userinfo_start", "s_http_host_dead"}

http_parse_host(buf, u, found_at) ==
  LET host == u.host
      z0   == [s |-> IF found_at THEN "s_http_userinfo_start" ELSE "s_http_host_start",
               u |-> [u EXCEPT !.host.len = 0]]
      z[n \in 0..host.len] ==
        IF n = 0 THEN z0 ELSE HostStep(buf, z[n - 1], host.off + n - 1)
  IN [ok |-> z[host.len].s \notin Unfinished, u |-> z[host.len].u]

UrlStep(z, ch, p) ==
  LET s == parse_url_char(z.s, ch)
      f == FieldOf[s]
  IN IF s \notin DOMAIN FieldOf THEN [z EXCEPT !.s = s]
     ELSE [s |-> s, uf |-> f, u |-> Extend(z.u, f, p, f # z.uf),
           at |-> z.at \/ s = "s_req_server_with_at"]

Port(digits) ==
  LET v[n \in 0 .. Len(digits)] ==
        IF n = 0 THEN 0 ELSE 10 * v[n - 1] + Code(digits[n]) - Code("0")
  IN  v[Len(digits)]

\* The fields of an absolute URL, or {} if it is no URL; is_connect is never set.
http_parser_parse_url(buf) ==
  LET z0 == [s |-> "s_req_spaces_before_url", uf |-> "none", at |-> FALSE,
             u |-> Fields({"schema", "userinfo", "host", "port", "path", "query", "fragment"})]
      z[n \in 0..Len(buf)] ==
        IF n = 0 THEN z0 ELSE UrlStep(z[n - 1], buf[n], n)
      end  == z[Len(buf)]
      host == http_parse_host(buf, end.u, end.at)
      u    == IF end.u.host.len > 0 THEN host.u ELSE end.u
  IN IF buf = <<>> \/ end.s = "s_dead" \/ (end.u.schema.len > 0 /\ end.u.host.len = 0)
        \/ (end.u.host.len > 0 /\ ~ host.ok)
        \/ Port(Field(buf, u.port)) > MaxPort
     THEN {} ELSE {u}

\* The data of the provider: {} for NULL.  Port 0 is none.
HTTPProviderInit(uri) ==
  {[host |-> Field(uri, u.host),
    port |-> LET v == Port(Field(uri, u.port)) IN IF v # 0 THEN v ELSE 80,
    path |-> (IF u.path.len = 0 THEN <<"/">> ELSE Field(uri, u.path))
             \o (IF u.query.len > 0 THEN <<"?">> \o Field(uri, u.query) ELSE <<>>)] :
   u \in {v \in http_parser_parse_url(uri) : v.host.len > 0}}
=============================================================================
