------------------------------- MODULE MCInputs -------------------------------
(* What takes in what comes from outside, each on its own: the front door of *)
(* the gateways (FrontDoor), the OAuth2 server (OAuth2), the parser of an    *)
(* event stream (SseStream), the reader of a child's stdout (StdoutCodec)    *)
(* and the handler of signals (Shutdown).  One moves, the others rest.       *)
EXTENDS FrontDoor, OAuth2, SseStream, StdoutCodec, Shutdown

CONSTANTS endpoint, a, id1, reg, auth1, auth2, tok1, tok2, use, verifier

VARIABLE part

Customs ==
  {<<>>, <<"X", "X">>, <<"Content-Type">>, <<"Vary">>, <<"Access-Control-Allow-Origin">>,
   <<"Upgrade">>}
AllDoors ==
  [kind : {"stateful", "stateless", "sse", "ws"}, cors : {"off", "any", "list"},
   oauth : BOOLEAN, custom : Customs]
AllPages ==
  [method : {"GET", "POST", "DELETE", "OPTIONS"},
   path : {"health", "token", "mcp", "message", "other"},
   origin : {"none", "listed", "stranger"}, token : BOOLEAN]

StreamTokens ==
  {Newline, Return, EventLine(endpoint), DataLine(a), IdLine(id1)}

\* A client registers; it or the configured client asks for codes with and
\* without PKCE; two calls redeem one of them each, one of them perhaps with
\* somebody else's secret or a wrong verifier; and a token is used.
Uri(form) == [to |-> "app", form |-> form]

Authorize(client, form, challenge) ==
  [kind |-> "authorize", client |-> client, uri |-> Uri(form), challenge |-> challenge]
Redeem(client, secret, code, uri, v) ==
  [kind |-> "redeem", client |-> client, secret |-> secret, code |-> code, uri |-> uri,
   verifier |-> v]
Credentials(client, secret) ==
  [kind |-> "credentials", client |-> client, secret |-> secret]

SixCalls == {reg, auth1, auth2, tok1, tok2, use}
Loaded(auth, t1, t2) ==
  (reg :> [kind |-> "register"]) @@ (auth1 :> auth)
  @@ (auth2 :> Authorize(Configured, "plain", Absent))
  @@ (tok1 :> t1) @@ (tok2 :> t2) @@ (use :> [kind |-> "bearer", token |-> tok2])

ManyLoads ==
  {Loaded(auth, t1, t2) :
     auth \in {Authorize(reg, "encoded", Absent), Authorize(reg, "plain", verifier)},
     t1 \in {Redeem(reg, reg, auth1, Uri("plain"), verifier),
             Redeem(reg, reg, auth1, Uri("encoded"), Absent),
             Redeem(reg, reg, auth1, Absent, Absent)},
     t2 \in {Redeem(Configured, Configured, auth1, Absent, verifier),
             Redeem(reg, reg, auth1, Uri("plain"), verifier),
             Redeem(Configured, Configured, auth2, Uri("plain"), Absent),
             Redeem(Configured, reg, auth2, Absent, Absent),
             Credentials(Configured, Configured)}}

Quiet == CHOOSE load \in ManyLoads : TRUE

DoorClosed ==
  /\ door = [kind |-> "sse", cors |-> "off", oauth |-> FALSE, custom |-> <<>>]
  /\ page = [method |-> "GET", path |-> "mcp", origin |-> "none", token |-> FALSE]
  /\ request = page /\ stage = 1 /\ response = NoResponse /\ refused = FALSE
  /\ written = 0

Init ==
  /\ part \in {"door", "oauth", "parser", "codec", "signals"}
  /\ IF part = "door" THEN FInit ELSE DoorClosed
  /\ part # "oauth" => ask = Quiet
  /\ OInit
  /\ PInit /\ XInit /\ SignalInit

Next ==
  \/ part = "door" /\ FNext /\ UNCHANGED <<part, ovars, pvars, xvars, signalVars>>
  \/ part = "oauth" /\ ONext /\ UNCHANGED <<part, fvars, pvars, xvars, signalVars>>
  \/ part = "parser" /\ PNext /\ UNCHANGED <<part, fvars, ovars, xvars, signalVars>>
  \/ part = "codec" /\ XNext /\ UNCHANGED <<part, fvars, ovars, pvars, signalVars>>
  \/ part = "signals" /\ SignalNext /\ UNCHANGED <<part, fvars, ovars, pvars, xvars>>

Spec == Init /\ [][Next]_<<part, fvars, ovars, pvars, xvars, signalVars>>
=============================================================================
