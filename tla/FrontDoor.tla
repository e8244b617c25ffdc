------------------------------- MODULE FrontDoor -------------------------------
(***************************************************************************)
(* What the four gateways do with an HTTP request before, and instead of,  *)
(* handing it to the MCP side, and the headers the answer goes out with:   *)
(* CORS (src/src/cors.rs), health (src/src/health.rs), the OAuth2 server's *)
(* verdict (src/src/oauth2.rs), errors (src/src/error.rs) and each         *)
(* gateway's dispatch.  A web page sends the request, so a preflight may   *)
(* go before it.                                                           *)
(*                                                                         *)
(* A request has a path by role and a token that is good or not; what the  *)
(* MCP side does is which error it ends in, if any.  Gateways listen once  *)
(* they are ready, so health is 200.                                       *)
(*                                                                         *)
(* A header is its name, without case, and where it is from: 0 for one of  *)
(* the gateway's own, i for the i-th custom header.  The headers of an     *)
(* answer are a set: no gateway adds one of its own twice, and the order   *)
(* of different names means nothing.                                       *)
(***************************************************************************)
EXTENDS Naturals, Sequences

CONSTANTS
  Doors,  \* configurations
  Pages,  \* requests
  Batch   \* messages in a POST to the message endpoint

ASSUME DoorsAreConfigurations ==
  Doors \subseteq [kind : {"stateful", "stateless", "sse", "ws"}, cors : {"off", "any", "list"},
                   oauth : BOOLEAN, custom : Seq(STRING)]
ASSUME PagesAreRequests ==
  Pages \subseteq [method : {"GET", "POST", "DELETE", "OPTIONS"},
                   path : {"health", "token", "mcp", "message", "other"},
                   origin : {"none", "listed", "stranger"}, token : BOOLEAN]
ASSUME BatchIsNat == Batch \in Nat

VARIABLES
  door,     \* the gateway's configuration
  page,     \* what the page wants to send
  request,  \* the request that is handled
  stage,    \* how many stages of the dispatch it has passed
  response, \* what it was answered
  refused,  \* the browser does not send the page's request
  written   \* messages of the request that the child got

fvars == <<door, page, request, stage, response, refused, written>>

NoResponse == [by |-> "none", status |-> 0, headers |-> {}]

Header(name, from) == [name |-> name, from |-> from]
Own(names) == {Header(name, 0) : name \in names}
Custom(i) == Header(door.custom[i], i)

-----------------------------------------------------------------------------
(* cors.rs                                                                 *)

OriginAllowed_AnyOrigin(origin) == door.cors = "any" \/ (door.cors = "list" /\ origin # "none")
OriginAllowed(origin) ==
  \/ door.cors = "any"
  \/ door.cors = "list" /\ origin = "listed"

Expose == IF door.kind = "stateful" THEN {"Access-Control-Expose-Headers"} ELSE {}

\* build_response() and, with the headers it adds, build_preflight()
Granting(origin, added) ==
  (IF OriginAllowed(origin) THEN {"Access-Control-Allow-Origin"} \cup added \cup Expose ELSE {})
  \cup (IF door.cors = "list" THEN {"Vary"} ELSE {})

CorsHeaders == Granting(request.origin, {})
PreflightHeaders ==
  Granting(request.origin, {"Access-Control-Allow-Methods", "Access-Control-Allow-Headers",
                            "Access-Control-Max-Age"})

\* apply_custom_headers(): the last one of a name wins.
CustomNames == {door.custom[i] : i \in DOMAIN door.custom}
LastOfName ==
  {i \in DOMAIN door.custom : \A j \in DOMAIN door.custom : door.custom[j] = door.custom[i] => j <= i}

ApplyCustom_Added(headers) == headers \cup {Custom(i) : i \in DOMAIN door.custom}
ApplyCustom(headers) ==
  {h \in headers : h.name \notin CustomNames} \cup {Custom(i) : i \in LastOfName}

-----------------------------------------------------------------------------
(* error.rs                                                                *)

StatusCode ==
  [BadRequest |-> 400, SessionNotFound |-> 404, MethodNotAllowed |-> 405,
   NotAcceptable |-> 406, Conflict |-> 409, PayloadTooLarge |-> 413,
   UnsupportedMediaType |-> 415, ServiceUnavailable |-> 503, SessionClosing |-> 503,
   ChildDead |-> 502, AutoInitTimeout |-> 502, Child |-> 502, Internal |-> 500]

\* The gateways' validation of a POST, the session table and the child.
Validation == {"UnsupportedMediaType", "NotAcceptable", "PayloadTooLarge", "BadRequest"}
SessionErrors == {"SessionNotFound", "SessionClosing"}

Errors(kind, method) ==
  CASE kind = "stateful" /\ method = "POST" ->
         Validation \cup SessionErrors \cup {"ServiceUnavailable", "ChildDead", "Internal"}
    [] kind = "stateful" /\ method = "GET" ->
         {"NotAcceptable", "BadRequest", "Conflict"} \cup SessionErrors
    [] kind = "stateful" /\ method = "DELETE" -> {"BadRequest"} \cup SessionErrors
    [] kind = "stateful" -> {"MethodNotAllowed"}
    [] kind = "stateless" /\ method = "POST" ->
         Validation \cup {"ServiceUnavailable", "ChildDead", "AutoInitTimeout", "Child", "Internal"}
    [] OTHER -> {}

-----------------------------------------------------------------------------
(* The stages                                                              *)

Streamable == door.kind \in {"stateful", "stateless"}

Stages_OAuthFirst ==
  IF Streamable THEN <<"oauth", "options", "health", "mcp", "write">>
                ELSE <<"oauth", "health", "options", "mcp", "write">>
Stages ==
  IF Streamable THEN <<"options", "health", "oauth", "mcp", "write">>
                ELSE <<"health", "options", "oauth", "mcp", "write">>

AtStage(s) == response = NoResponse /\ Stages[stage] = s

PassOn ==
  /\ stage' = stage + 1
  /\ UNCHANGED <<door, page, request, response, refused, written>>

Reply(by, status, headers) ==
  /\ response' = [by |-> by, status |-> status, headers |-> headers]
  /\ UNCHANGED <<door, page, request, stage, refused, written>>

\* The answers that the SSE and WebSocket gateways build themselves end with
\* the custom headers, those of the Streamable HTTP gateways do not.
Built(by, status, names) ==
  Reply(by, status, IF Streamable THEN Own(names) ELSE ApplyCustom(Own(names)))

\* Without CORS, the SSE and WebSocket gateways close on OPTIONS.
Options ==
  /\ AtStage("options")
  /\ \/ request.method = "OPTIONS" /\ door.cors # "off" /\ Built("options", 204, PreflightHeaders)
     \/ request.method = "OPTIONS" /\ door.cors = "off" /\ ~Streamable /\ Reply("closed", 0, {})
     \/ (request.method = "OPTIONS" => door.cors = "off" /\ Streamable) /\ PassOn

\* The Streamable HTTP gateways add the custom headers without replacing.
Health ==
  /\ AtStage("health")
  /\ \/ /\ request.path = "health"
        /\ LET own == Own({"Content-Type"} \cup CorsHeaders)
           IN  Reply("health", 200,
                     IF Streamable THEN own \cup ApplyCustom({}) ELSE ApplyCustom(own))
     \/ request.path # "health" /\ PassOn

\* process(): its endpoints need no token, anything else does.  Only the
\* Streamable HTTP gateways add CORS headers.
OAuth ==
  LET With(names) == Own(names \cup (IF Streamable THEN CorsHeaders ELSE {}))
      NoStore == {"Content-Type", "Cache-Control"}
      Endpoint == request.path = "token" /\ request.method = "POST"
  IN  /\ AtStage("oauth")
      /\ \/ door.oauth /\ Endpoint /\ Reply("oauth", 200, With(NoStore))
         \/ /\ door.oauth /\ ~Endpoint /\ ~request.token
            /\ Reply("oauth", 401, With(NoStore \cup {"WWW-Authenticate"}))
         \/ (door.oauth => ~Endpoint /\ request.token) /\ PassOn

\* 404 of the Streamable HTTP gateways, and what the handlers return.
Dispatch ==
  /\ AtStage("mcp")
  /\ Streamable
  /\ \/ request.path # "mcp" /\ Built("mcp", 404, {"Content-Type"} \cup CorsHeaders)
     \/ /\ request.path = "mcp"
        /\ \/ \E error \in Errors(door.kind, request.method) :
                Built("mcp", StatusCode[error], {"Content-Type"} \cup CorsHeaders)
           \/ /\ door.kind = "stateless" /\ request.method # "POST"
              /\ Built("mcp", 405, CorsHeaders)
           \/ /\ request.method = "POST"
              /\ \/ Built("mcp", 202, CorsHeaders)
                 \/ Built("mcp", 200, {"Content-Type"} \cup CorsHeaders)
           \/ /\ door.kind = "stateful" /\ request.method = "DELETE"
              /\ Built("mcp", 200, {"Content-Type"} \cup CorsHeaders)
           \/ /\ door.kind = "stateful" /\ request.method = "GET"
              /\ Reply("stream", 200,
                       ApplyCustom(Own({"Content-Type", "Mcp-Session-Id"} \cup CorsHeaders)))

\* handle_sse_connect(), handle_message(), or a 404 written as it stands.  A
\* full gateway's 503 has no headers.
SseDispatch ==
  /\ AtStage("mcp")
  /\ door.kind = "sse"
  /\ \/ /\ request.path = "mcp" /\ request.method = "GET"
        /\ \/ Reply("full", 503, {})
           \/ Built("stream", 200, {"Content-Type"} \cup CorsHeaders)
     \/ /\ request.path = "message" /\ request.method = "POST"
        /\ \/ \E status \in {400, 503, StatusCode["PayloadTooLarge"]} :
                Built("mcp", status, {"Content-Type"} \cup CorsHeaders)
           \/ PassOn
     \/ /\ <<request.path, request.method>> \notin {<<"mcp", "GET">>, <<"message", "POST">>}
        /\ Reply("raw", 404, {})

\* The messages of a batch are written one by one; the child may break.
WriteMessage ==
  /\ AtStage("write")
  /\ \/ /\ written < Batch
        /\ \/ /\ written' = written + 1
              /\ UNCHANGED <<door, page, request, stage, response, refused>>
           \/ Built("mcp", StatusCode["ChildDead"], {"Content-Type"} \cup CorsHeaders)
     \/ written = Batch /\ Built("mcp", 202, {"Content-Type"} \cup CorsHeaders)

HandshakeHeaders == {"Upgrade", "Connection", "Sec-WebSocket-Accept"}

\* Only a GET is upgraded; the 101 takes the custom headers as they are.
WsDispatch ==
  /\ AtStage("mcp")
  /\ door.kind = "ws"
  /\ \/ request.method # "GET" /\ Reply("raw", 405, {})
     \/ /\ request.method = "GET"
        /\ \/ Reply("raw", 400, {})
           \/ Reply("full", 503, {})
           \/ Reply("upgrade", 101,
                    Own(HandshakeHeaders) \cup {Custom(i) : i \in DOMAIN door.custom})

-----------------------------------------------------------------------------
(* The browser                                                             *)

\* What a page may not send to another origin without asking: JSON, DELETE
\* and an Authorization header.
NeedsPreflight(r) == r.origin # "none" /\ (r.method \in {"POST", "DELETE"} \/ r.token)

Preflight(r) == [r EXCEPT !.method = "OPTIONS", !.token = FALSE]

Names(headers) == {h.name : h \in headers}

GrantHeaders ==
  {"Access-Control-Allow-Origin", "Access-Control-Allow-Methods", "Access-Control-Allow-Headers"}
Readable == "Access-Control-Allow-Origin" \in Names(response.headers)
Grants ==
  /\ response.status \in 200..299
  /\ GrantHeaders \subseteq Names(response.headers)

Responded == response # NoResponse

Proceed ==
  /\ Responded /\ request # page /\ ~refused
  /\ \/ /\ Grants
        /\ request' = page /\ stage' = 1 /\ response' = NoResponse
        /\ UNCHANGED refused
     \/ /\ ~Grants
        /\ refused' = TRUE
        /\ UNCHANGED <<request, stage, response>>
  /\ UNCHANGED <<door, page, written>>

FInit ==
  /\ door \in Doors
  /\ page \in Pages
  /\ request = IF NeedsPreflight(page) THEN Preflight(page) ELSE page
  /\ stage = 1
  /\ response = NoResponse
  /\ refused = FALSE
  /\ written = 0

FNext ==
  \/ Options \/ Health \/ OAuth
  \/ Dispatch \/ SseDispatch \/ WriteMessage \/ WsDispatch
  \/ Proceed

FSpec == FInit /\ [][FNext]_fvars

-----------------------------------------------------------------------------
(* Properties                                                              *)

\* Whose pages the configuration lets in.
Permitted(origin) == door.cors = "any" \/ <<door.cors, origin>> = <<"list", "listed">>

\* An allowed page gets through to the server, OAuth2 or not: its preflight,
\* which carries no token, is granted, and nobody else's is; and it may read
\* every answer, the errors too, and no other page any.  The exceptions are
\* the SSE and WebSocket gateways': a health endpoint answers the OPTIONS
\* itself, and the OAuth2 server's answers, those of a full gateway, those
\* written as raw bytes, and the upgrade go out without CORS headers.  (Who
\* configures a CORS header as a custom one sees to it himself.)
CorsIsExact ==
  CustomNames \cap GrantHeaders = {} =>
    /\ Responded /\ request # page =>
         (Grants <=> Permitted(page.origin) /\ (~Streamable => page.path # "health"))
    /\ Responded /\ response.by # "closed" =>
         (Readable <=>
            /\ Permitted(request.origin)
            /\ ~Streamable => response.by \notin {"oauth", "full", "raw", "upgrade"})

\* Where DIVERGENCES.md (D-019) and PRD.md ("Custom Headers") both ask for the
\* custom headers: the PRD wants them on every answer, D-019 lists, mode by mode,
\* those that have them.
Wanted(res) ==
  \/ res.by = "health"
  \/ ~Streamable /\ res.by = "options"
  \/ door.kind = "sse" /\ (res.by = "stream" \/ <<res.by, res.status>> = <<"mcp", 202>>)
  \/ door.kind = "ws" /\ res.by = "upgrade"

Bears(res) == \E h \in res.headers : h.from # 0

\* Where the custom headers only join what is there.
Joined(res) == res.by = "upgrade" \/ (Streamable /\ res.by = "health")

\* Where both documents ask for the custom headers they all are, and an answer
\* that has any, asked for or not, has them all: each once, as it is configured
\* last, in place of those before it and of the gateway's own.  Two answers fall
\* short of this last part, a Streamable HTTP health and the 101, where a header
\* of the same name may stand beside it.
CustomAsAsked ==
  Wanted(response) \/ Bears(response) =>
    \A i \in LastOfName :
      /\ Custom(i) \in response.headers
      /\ \/ {h \in response.headers : h.name = door.custom[i]} = {Custom(i)}
         \/ Joined(response)

-----------------------------------------------------------------------------
(* The inductive invariant behind them                                     *)

OwnNames ==
  {"Content-Type", "Cache-Control", "WWW-Authenticate", "Mcp-Session-Id", "Vary",
   "Access-Control-Expose-Headers", "Access-Control-Max-Age"} \cup GrantHeaders \cup HandshakeHeaders

DoorTypeOK ==
  /\ door \in Doors /\ page \in Pages
  /\ request = page \/ (NeedsPreflight(page) /\ request = Preflight(page))
  /\ stage \in 1..5
  /\ refused \in BOOLEAN /\ written \in 0..Batch
  /\ response \in [by : {"none", "options", "closed", "health", "oauth", "mcp", "stream",
                         "full", "raw", "upgrade"},
                   status : Nat, headers : SUBSET [name : OwnNames \cup CustomNames, from : Nat]]

\* What the stages a request has passed leave to the next.
PassedFits ==
  /\ ~Streamable /\ stage > 1 => request.path # "health"
  /\ stage > (IF Streamable THEN 1 ELSE 2) /\ request.method = "OPTIONS" =>
       door.cors = "off" /\ Streamable

DoorIInv == DoorTypeOK /\ PassedFits /\ CorsIsExact /\ CustomAsAsked
=============================================================================
