------------------------------ MODULE HttpHeader ------------------------------
(***************************************************************************)
(* The start line of a request and its URI (pop_http_header.c), and the    *)
(* choice of a callback by the method (pop_http_proxy_request.c).  A text  *)
(* is a sequence of tokens: the separators the code looks for, and the     *)
(* words between them.                                                     *)
(***************************************************************************)
EXTENDS Naturals, Sequences, FiniteSetsExt

(* strstr(): where the first t is in the text, one beyond its end if it is *)
(* not there.                                                              *)
Find(text, t) == Min({k \in 1 .. Len(text) + 1 : k = Len(text) + 1 \/ text[k] = t})

Has(text, t) == Find(text, t) <= Len(text)

Before(text, t) == SubSeq(text, 1, Find(text, t) - 1)
After(text, t) == SubSeq(text, Find(text, t) + 1, Len(text))

-----------------------------------------------------------------------------
(* Operators that end in _bug are faulty variants of the definition that   *)
(* follows; nothing uses them.                                             *)

(* HttpRequestStartLineParse: the first line has to have two blanks; NULL  *)
(* is NoLine.                                                              *)
NoLine == [Method |-> <<>>, URI |-> <<>>]

HttpRequestStartLineParse(data) ==
    LET line == Before(data, "CRLF")
        rest == After(line, "SP")
    IN  IF Has(data, "CRLF") /\ Has(line, "SP") /\ Has(rest, "SP")
          THEN [Method |-> Before(line, "SP"), URI |-> Before(rest, "SP")]
          ELSE NoLine

BadUri == [host |-> <<>>, port |-> "none"]

(* atoi(): 0 unless the text starts with a number. *)
Numbers == {"80", "443", "8080"}

atoi(text) == IF text # <<>> /\ Head(text) \in Numbers THEN Head(text) ELSE "0"

(* strstr(uriPtr, "://"), wherever it is. *)
SchemeEnd(URI) ==
    Min({k \in 1 .. Len(URI) + 1 :
           \/ k = Len(URI) + 1
           \/ k + 2 <= Len(URI) /\ SubSeq(URI, k, k + 2) = <<":", "/", "/">>})

DefaultPort(scheme) == IF scheme = <<"http">> THEN "80" ELSE "443"

HostAndPort_bug(text, port) ==    \* the path is not cut off the port
    IF Has(text, ":")
      THEN [host |-> Before(text, ":"), port |-> atoi(After(text, "/"))]
      ELSE [host |-> Before(text, "/"), port |-> port]

(* What follows the scheme: up to the first ":", even if that is in the    *)
(* path, or up to the path.                                                *)
HostAndPort(text, port) ==
    IF Has(text, ":")
      THEN [host |-> Before(text, ":"), port |-> atoi(Before(After(text, ":"), "/"))]
      ELSE [host |-> Before(text, "/"), port |-> port]

(* GetHostIpPostFromURI.  Without a scheme and a port the port is a         *)
(* variable nobody has initialised.                                        *)
GetHostIpPostFromURI(URI) ==
    LET e      == SchemeEnd(URI)
        scheme == SubSeq(URI, 1, e - 1)
    IN  IF e > Len(URI) THEN HostAndPort(URI, "undefined")
        ELSE IF scheme \in {<<"http">>, <<"https">>}
          THEN HostAndPort(SubSeq(URI, e + 3, Len(URI)), DefaultPort(scheme))
        ELSE BadUri

(* pop_http_proxy_method_match, and the function each method leads to: GET *)
(* and three others ask the server, CONNECT makes a tunnel, seven others   *)
(* are only printed; texts of less than 15 characters have no method.      *)
pop_http_proxy_method_match(method, long) ==
    CASE ~long -> "none"
      [] long /\ method \in {"GET", "HEAD", "PUT", "POST"} -> "get"
      [] long /\ method = "CONNECT" -> "connect"
      [] long /\ method \in {"TRACE", "OPTIONS", "DELETE", "LOCK", "MKCOL", "COPY", "MOVE"} -> "printed"
      [] OTHER -> "none"

-----------------------------------------------------------------------------
(* What the text of a request means to who wrote it, for comparison.       *)

Uris(Names, Ways) ==
    {u \in [scheme : {"http", "https", "ftp", "none"}, host : Names,
            port : Numbers \cup {"none"}, path : Ways] :
       u.scheme = "none" => u.port # "none" /\ u.path = <<>>}    \* as for CONNECT

UriText(u) ==
    (IF u.scheme = "none" THEN <<>> ELSE <<u.scheme, ":", "/", "/">>)
    \o <<u.host>>
    \o (IF u.port = "none" THEN <<>> ELSE <<":", u.port>>)
    \o u.path

RequestText(method, u) == <<method, "SP">> \o UriText(u) \o <<"SP", "HTTP/1.1", "CRLF", "text">>

Meant(u) ==
    [host |-> <<u.host>>,
     port |-> IF u.port # "none" THEN u.port ELSE DefaultPort(<<u.scheme>>)]

=============================================================================
